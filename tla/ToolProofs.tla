------------------------------ MODULE ToolProofs ------------------------------
(***************************************************************************)
(* What the tools show and do, for inputs of every size: the pages of      *)
(* read, the results of find, ls and grep, the registry of a harness, the  *)
(* scaling of images, the end of an output in bash's accumulator, and what *)
(* becomes of a file that edit and write calls work on, for any number of  *)
(* calls, sessions and worker threads.                                     *)
(*                                                                         *)
(* The functions of the tools are loops over their input.  Each is read    *)
(* off the recursive function of its module, and what holds after n turns  *)
(* is proved by induction: on a set of numbers, which needs no operator as *)
(* a parameter.                                                            *)
(***************************************************************************)
EXTENDS MCToolFunctions, FiniteSetTheorems, SequenceTheorems, TLAPS

\* Every set of naturals that is not empty has a least element: the finite sets
\* are well-founded under inclusion, and these are ordered as the intervals below
\* them are.
LEMMA LeastNat ==
  ASSUME NEW T, T \subseteq Nat, T # {}
  PROVE  \E x \in T : \A y \in T : x <= y
<1> DEFINE I == {1 .. n : n \in T}
<1>1. I \subseteq FiniteSubsetsOf(Nat) /\ I # {}
  <2>1. ASSUME NEW n \in T PROVE 1 .. n \in FiniteSubsetsOf(Nat)
    BY FS_Interval DEF FiniteSubsetsOf
  <2> QED
    BY <2>1
<1>2. IsWellFoundedOn(StrictSubsetOrdering(Nat), FiniteSubsetsOf(Nat))
  BY FS_StrictSubsetOrderingWellFounded
<1> HIDE DEF I
<1>3. PICK X \in I : \A Y \in I : ~(<<Y, X>> \in StrictSubsetOrdering(Nat))
  BY <1>1, <1>2, WFMin
<1>4. PICK n \in T : X = 1 .. n
  BY DEF I
<1>5. ASSUME NEW m \in T, ~(n <= m) PROVE FALSE
  <2>1. m \in Nat /\ n \in Nat /\ m < n
    BY <1>5
  <2>2. 1 .. m \in I
    BY DEF I
  <2>3. 1 .. m \subseteq 1 .. n /\ 1 .. m # 1 .. n /\ 1 .. n \subseteq Nat
    <3>1. n \in 1 .. n /\ n \notin 1 .. m
      BY <2>1
    <3> QED
      BY <2>1, <3>1
  <2>4. <<1 .. m, 1 .. n>> \in StrictSubsetOrdering(Nat)
    BY <2>3 DEF StrictSubsetOrdering
  <2> QED
    BY <1>3, <1>4, <2>2, <2>4
<1> QED
  BY <1>5

\* Sequences join in any order: ConcatAssociative, in a form that the provers
\* apply without a look inside the sequences.
Associates(s, t, u) == (s \o t) \o u = s \o (t \o u)

LEMMA Associative ==
  ASSUME NEW S, NEW s \in Seq(S), NEW t \in Seq(S), NEW u \in Seq(S)
  PROVE  Associates(s, t, u)
<1>1. \A x, y, z \in Seq(S) : (x \o y) \o z = x \o (y \o z)
  BY ConcatAssociative, SMTT(30)
<1> QED
  BY <1>1 DEF Associates

\* Induction, over the numbers of a set.
LEMMA Induction ==
  ASSUME NEW P, 0 \in P, \A n \in Nat : n \in P => n + 1 \in P
  PROVE  Nat \subseteq P
<1> SUFFICES ASSUME NEW k \in Nat, k \notin P
             PROVE  FALSE
  OBVIOUS
<1> DEFINE T == {n \in Nat : n \notin P}
<1>1. PICK n \in T : \A m \in T : n <= m
  BY LeastNat
<1>2. n \in Nat /\ n # 0 /\ n \notin P
  OBVIOUS
<1>3. n - 1 \in Nat /\ n - 1 \notin T
  BY <1>1, <1>2
<1> HIDE DEF T
<1>4. n - 1 \in P
  BY <1>3 DEF T
<1> QED
  BY <1>2, <1>3, <1>4

\* The function begins with base and goes on by step.
Recurses(f, base, step, N) ==
  /\ f[0] = base
  /\ \A n \in 1 .. N : f[n] = step[<<f[n - 1], n>>]

\* There is such a function.
LEMMA Recursion ==
  ASSUME NEW A, NEW base \in A, NEW N \in Nat, NEW step \in [A \X (1 .. N) -> A]
  PROVE  \E f \in [0 .. N -> A] : Recurses(f, base, step, N)
<1> DEFINE Upto(k, f) == \A n \in 0 .. k : f[n] = IF n = 0 THEN base ELSE step[<<f[n - 1], n>>]
           P == {k \in Nat : k <= N => \E f \in [0 .. k -> A] : Upto(k, f)}
<1>1. 0 \in P
  <2>1. [n \in 0 .. 0 |-> base] \in [0 .. 0 -> A]
    OBVIOUS
  <2>2. Upto(0, [n \in 0 .. 0 |-> base])
    OBVIOUS
  <2> QED
    BY <2>1, <2>2
<1>2. ASSUME NEW k \in Nat, k \in P PROVE k + 1 \in P
  <2> SUFFICES ASSUME k + 1 <= N
               PROVE  \E f \in [0 .. k + 1 -> A] : Upto(k + 1, f)
    OBVIOUS
  <2>1. PICK f \in [0 .. k -> A] : Upto(k, f)
    BY <1>2
  <2> DEFINE g == [n \in 0 .. k + 1 |-> IF n = k + 1 THEN step[<<f[k], k + 1>>] ELSE f[n]]
  <2>2. k + 1 \in 1 .. N /\ k \in 0 .. k /\ k + 1 \in 0 .. k + 1 /\ (k + 1) - 1 = k
    OBVIOUS
  <2>3. step[<<f[k], k + 1>>] \in A
    BY <2>2
  <2>4. g \in [0 .. k + 1 -> A]
    BY <2>3
  <2>5. g[k + 1] = step[<<f[k], k + 1>>] /\ \A n \in 0 .. k : g[n] = f[n]
    BY <2>2
  <2> HIDE DEF g
  <2>6. ASSUME NEW n \in 0 .. k + 1
        PROVE  g[n] = IF n = 0 THEN base ELSE step[<<g[n - 1], n>>]
    <3>1. CASE n = k + 1
      BY <2>2, <2>5, <3>1
    <3>2. CASE n # k + 1
      <4>1. n \in 0 .. k /\ (n # 0 => n - 1 \in 0 .. k)
        BY <3>2
      <4> QED
        BY <2>1, <2>5, <4>1
    <3> QED
      BY <3>1, <3>2
  <2> QED
    BY <2>4, <2>6
<1>3. N \in P
  <2> HIDE DEF P
  <2> QED
    BY <1>1, <1>2, Induction
<1>4. PICK f \in [0 .. N -> A] : Upto(N, f)
  BY <1>3
<1>5. Recurses(f, base, step, N)
  <2>1. 0 \in 0 .. N /\ \A n \in 1 .. N : n \in 0 .. N /\ n # 0
    OBVIOUS
  <2> QED
    BY <1>4, <2>1 DEF Recurses
<1> QED
  BY <1>5

\* What holds of the first value and is passed on holds of all.
AllIn(f, A, N) == \A n \in 0 .. N : f[n] \in A

\* What holds at the beginning and passes from one value to the next holds of all.
LEMMA AlongTheFunction ==
  ASSUME NEW A, NEW N \in Nat, NEW f, f[0] \in A,
         \A n \in 1 .. N : f[n - 1] \in A => f[n] \in A
  PROVE  AllIn(f, A, N)
<1> DEFINE P == {n \in Nat : n <= N => f[n] \in A}
<1>1. 0 \in P
  OBVIOUS
<1>2. ASSUME NEW n \in Nat, n \in P PROVE n + 1 \in P
  <2>1. CASE n + 1 <= N
    <3>1. n + 1 \in 1 .. N /\ (n + 1) - 1 = n /\ f[n] \in A
      BY <1>2, <2>1
    <3> QED
      BY <3>1
  <2>2. CASE ~(n + 1 <= N)
    BY <2>2
  <2> QED
    BY <2>1, <2>2
<1>3. Nat \subseteq P
  <2> HIDE DEF P
  <2> QED
    BY <1>1, <1>2, Induction
<1>4. \A n \in 0 .. N : n \in P /\ n <= N
  BY <1>3
<1> QED
  BY <1>4 DEF AllIn

-----------------------------------------------------------------------------
\* The byte count of the first lines of a text, line by line.
LEMMA ByteCounts ==
  ASSUME NEW S, NEW lines \in Seq(Seq(S))
  PROVE  /\ BytesOfFirst(lines) \in [0 .. Len(lines) -> Nat]
         /\ BytesOfFirst(lines)[0] = 0
         /\ \A n \in 1 .. Len(lines) :
              BytesOfFirst(lines)[n] =
                BytesOfFirst(lines)[n - 1] + (IF n = 1 THEN 0 ELSE 1) + Len(lines[n])
<1> DEFINE N == Len(lines)
           Step(b, n) == b + (IF n = 1 THEN 0 ELSE 1) + Len(lines[n])
           step == [p \in Nat \X (1 .. N) |-> Step(p[1], p[2])]
           Right(f) == f = [n \in 0 .. N |-> IF n = 0 THEN 0 ELSE Step(f[n - 1], n)]
           bytes == BytesOfFirst(lines)
<1>1. /\ N \in Nat /\ 0 \in 0 .. N
      /\ \A n \in 1 .. N : Len(lines[n]) \in Nat /\ n - 1 \in 0 .. N /\ n \in 0 .. N
  OBVIOUS
<1>2. ASSUME NEW b \in Nat, NEW n \in 1 .. N PROVE Step(b, n) \in Nat
  <2>1. \A m \in Nat : b + (IF n = 1 THEN 0 ELSE 1) + m \in Nat
    OBVIOUS
  <2> HIDE DEF N
  <2> QED
    BY <1>1, <2>1
<1>3. bytes = CHOOSE f : Right(f)
  BY DEF BytesOfFirst
<1> HIDE DEF Step, N, bytes
<1>4. step \in [Nat \X (1 .. N) -> Nat]
  BY <1>2
<1>5. PICK f \in [0 .. N -> Nat] : Recurses(f, 0, step, N)
  <2> HIDE DEF step
  <2> QED
    BY <1>1, <1>4, Recursion
<1>6. Right(f)
  <2>1. ASSUME NEW n \in 0 .. N
        PROVE  f[n] = IF n = 0 THEN 0 ELSE Step(f[n - 1], n)
    <3>1. CASE n = 0
      BY <1>5, <3>1 DEF Recurses
    <3>2. CASE n # 0
      <4>1. n \in 1 .. N /\ f[n - 1] \in Nat
        BY <1>1, <1>5, <3>2
      <4> QED
        BY <1>5, <3>2, <4>1 DEF Recurses
    <3> QED
      BY <3>1, <3>2
  <2> QED
    BY <1>5, <2>1
<1>7. Right(bytes)
  <2> HIDE DEF Right
  <2> QED
    BY <1>3, <1>6
<1>8. /\ bytes[0] = 0
      /\ \A n \in 1 .. N : bytes[n] = Step(bytes[n - 1], n)
  BY <1>1, <1>7
<1>9. AllIn(bytes, Nat, N)
  <2>1. \A n \in 1 .. N : bytes[n - 1] \in Nat => bytes[n] \in Nat
    BY <1>2, <1>8
  <2>2. bytes[0] \in Nat
    BY <1>8
  <2> HIDE DEF Right
  <2> QED
    BY <1>1, <2>1, <2>2, AlongTheFunction
<1> QED
  BY <1>7, <1>8, <1>9 DEF AllIn, Step, N, bytes

\* The first lines of a text count like its first lines.
LEMMA BytesOfSome ==
  ASSUME NEW S, NEW lines \in Seq(Seq(S)), NEW m \in 0 .. Len(lines)
  PROVE  /\ SubSeq(lines, 1, m) \in Seq(Seq(S))
         /\ Len(SubSeq(lines, 1, m)) = m
         /\ ByteCount(SubSeq(lines, 1, m)) = BytesOfFirst(lines)[m]
<1> DEFINE some == SubSeq(lines, 1, m)
           f == BytesOfFirst(lines)
           g == BytesOfFirst(some)
           P == {n \in Nat : n <= m => g[n] = f[n]}
<1>1. /\ some \in Seq(Seq(S)) /\ Len(some) = m /\ \A n \in 1 .. m : some[n] = lines[n]
      /\ m \in Nat /\ m <= Len(lines) /\ Len(lines) \in Nat
  OBVIOUS
<1> HIDE DEF some
<1>2. /\ f[0] = 0
      /\ \A n \in 1 .. Len(lines) :
           f[n] = f[n - 1] + (IF n = 1 THEN 0 ELSE 1) + Len(lines[n])
  BY ByteCounts
<1>3. /\ g[0] = 0
      /\ \A n \in 1 .. Len(some) :
           g[n] = g[n - 1] + (IF n = 1 THEN 0 ELSE 1) + Len(some[n])
  BY <1>1, ByteCounts
<1> HIDE DEF f, g
<1>4. 0 \in P
  BY <1>2, <1>3
<1>5. ASSUME NEW n \in Nat, n \in P PROVE n + 1 \in P
  <2>1. CASE n + 1 <= m
    <3>1. n + 1 \in 1 .. m /\ n + 1 \in 1 .. Len(lines) /\ (n + 1) - 1 = n /\ g[n] = f[n]
      BY <1>1, <1>5, <2>1
    <3>2. some[n + 1] = lines[n + 1]
      BY <1>1, <3>1
    <3> QED
      BY <1>1, <1>2, <1>3, <3>1, <3>2
  <2>2. CASE ~(n + 1 <= m)
    BY <2>2
  <2> QED
    BY <2>1, <2>2
<1>6. Nat \subseteq P
  <2> HIDE DEF P
  <2> QED
    BY <1>4, <1>5, Induction
<1>7. g[m] = f[m]
  BY <1>1, <1>6
<1> QED
  BY <1>1, <1>7 DEF ByteCount, f, g, some

\* More lines take no fewer bytes.
LEMMA BytesGrow ==
  ASSUME NEW S, NEW lines \in Seq(Seq(S)), NEW i \in 0 .. Len(lines), NEW j \in i .. Len(lines)
  PROVE  BytesOfFirst(lines)[i] <= BytesOfFirst(lines)[j]
<1> DEFINE count == BytesOfFirst(lines)
           P == {n \in Nat : i + n <= Len(lines) => count[i] <= count[i + n]}
<1>1. /\ \A n \in 0 .. Len(lines) : count[n] \in Nat
      /\ \A n \in 1 .. Len(lines) :
           count[n] = count[n - 1] + (IF n = 1 THEN 0 ELSE 1) + Len(lines[n])
      /\ \A n \in 1 .. Len(lines) : Len(lines[n]) \in Nat
      /\ Len(lines) \in Nat /\ i \in Nat /\ i <= Len(lines)
  BY ByteCounts
<1> HIDE DEF count
<1>2. 0 \in P
  <2>1. i \in 0 .. Len(lines) /\ i + 0 = i /\ 0 \in Nat
    BY <1>1
  <2>2. count[i] \in Nat
    BY <1>1, <2>1
  <2> QED
    BY <2>1, <2>2
<1>3. ASSUME NEW n \in Nat, n \in P PROVE n + 1 \in P
  <2> SUFFICES ASSUME i + (n + 1) <= Len(lines)
               PROVE  count[i] <= count[i + (n + 1)]
    OBVIOUS
  <2> DEFINE m == i + (n + 1)
  <2>1. m \in 1 .. Len(lines) /\ m - 1 = i + n /\ i + n <= Len(lines) /\ i + n \in 0 .. Len(lines)
    BY <1>1
  <2>2. count[i] <= count[i + n]
    BY <1>3, <2>1
  <2> HIDE DEF m
  <2>3. /\ count[m] = count[i + n] + (IF m = 1 THEN 0 ELSE 1) + Len(lines[m])
        /\ count[i + n] \in Nat /\ count[i] \in Nat /\ Len(lines[m]) \in Nat
    BY <1>1, <2>1
  <2>4. \A x, y, z \in Nat : x <= y => x <= y + (IF m = 1 THEN 0 ELSE 1) + z
    OBVIOUS
  <2>5. count[i] <= count[m]
    BY <2>2, <2>3, <2>4
  <2> QED
    BY <2>5 DEF m
<1>4. Nat \subseteq P
  <2> HIDE DEF P
  <2> QED
    BY <1>2, <1>3, Induction
<1>5. j - i \in Nat /\ i + (j - i) = j /\ j <= Len(lines)
  BY <1>1
<1>6. j - i \in P
  BY <1>4, <1>5
<1> QED
  BY <1>5, <1>6 DEF count

\* Of lines that fit together each one fits.
LEMMA FirstLinesFit ==
  ASSUME NEW S, NEW lines \in Seq(Seq(S)), NEW k \in 0 .. Len(lines),
         BytesOfFirst(lines)[k] <= MaxBytes
  PROVE  \A i \in 1 .. k : Len(lines[i]) <= MaxBytes
<1> DEFINE count == BytesOfFirst(lines)
<1> SUFFICES ASSUME NEW i \in 1 .. k
             PROVE  Len(lines[i]) <= MaxBytes
  OBVIOUS
<1>1. i \in 1 .. Len(lines) /\ i \in 0 .. Len(lines) /\ k \in i .. Len(lines) /\ i - 1 \in 0 .. Len(lines)
  OBVIOUS
<1>2. /\ count[i] = count[i - 1] + (IF i = 1 THEN 0 ELSE 1) + Len(lines[i])
      /\ count[i - 1] \in Nat /\ count[k] \in Nat /\ Len(lines[i]) \in Nat
  <2>1. k \in 0 .. Len(lines)
    OBVIOUS
  <2>2. /\ count \in [0 .. Len(lines) -> Nat]
        /\ count[i] = count[i - 1] + (IF i = 1 THEN 0 ELSE 1) + Len(lines[i])
    BY <1>1, ByteCounts
  <2>3. Len(lines[i]) \in Nat
    BY <1>1
  <2> HIDE DEF count
  <2> QED
    BY <1>1, <2>1, <2>2, <2>3
<1>3. count[i] <= count[k] /\ count[k] <= MaxBytes /\ MaxBytes \in Nat
  BY <1>1, BytesGrow, LimitAssumption
<1> HIDE DEF count
<1>4. \A x, y, z \in Nat : x + (IF i = 1 THEN 0 ELSE 1) + y <= z => y <= z
  OBVIOUS
<1>5. count[i - 1] + (IF i = 1 THEN 0 ELSE 1) + Len(lines[i]) <= MaxBytes
  BY <1>2, <1>3
<1> QED
  BY <1>2, <1>3, <1>4, <1>5

\* What the selection of lines may have become.
SelectionsOf(S) ==
  [kept : Seq(Seq(S)), bytes : Nat, by : {"lines", "bytes"}, stopped : BOOLEAN]

NoSelection == [kept |-> <<>>, bytes |-> 0, by |-> "lines", stopped |-> FALSE]

\* The loop takes one line after the other.
LEMMA Selecting ==
  ASSUME NEW S, NEW lines \in Seq(Seq(S)), NEW maxLines \in Nat
  PROVE  /\ Selections(lines, maxLines)[0] = NoSelection
         /\ \A n \in 1 .. Len(lines) :
              Selections(lines, maxLines)[n] =
                SelectLine(maxLines, Selections(lines, maxLines)[n - 1], lines[n])
<1> DEFINE N == Len(lines)
           A == SelectionsOf(S)
           Step(r, n) == SelectLine(maxLines, r, lines[n])
           step == [p \in A \X (1 .. N) |-> Step(p[1], p[2])]
           Right(f) == f = [n \in 0 .. N |-> IF n = 0 THEN NoSelection ELSE Step(f[n - 1], n)]
           sel == Selections(lines, maxLines)
<1>1. /\ N \in Nat /\ 0 \in 0 .. N
      /\ \A n \in 1 .. N : lines[n] \in Seq(S) /\ n - 1 \in 0 .. N /\ n \in 0 .. N
  OBVIOUS
<1>2. NoSelection \in A
  BY DEF NoSelection, SelectionsOf
<1> HIDE DEF N
<1>3. ASSUME NEW r \in A, NEW n \in 1 .. N PROVE Step(r, n) \in A
  <2>1. /\ r.kept \in Seq(Seq(S)) /\ r.bytes \in Nat /\ r.by \in {"lines", "bytes"}
        /\ r.stopped \in BOOLEAN /\ lines[n] \in Seq(S) /\ Len(lines[n]) \in Nat
    BY <1>1 DEF SelectionsOf
  <2>2. Append(r.kept, lines[n]) \in Seq(Seq(S))
    BY <2>1
  <2>3. r.bytes + (IF r.kept = <<>> THEN 0 ELSE 1) + Len(lines[n]) \in Nat
    BY <2>1
  <2> QED
    BY <2>1, <2>2, <2>3 DEF SelectLine, SelectionsOf
<1>4. sel = CHOOSE f : Right(f)
  BY DEF Selections, N, NoSelection
<1> HIDE DEF Step, sel, A
<1>5. step \in [A \X (1 .. N) -> A]
  BY <1>3
<1>6. PICK f \in [0 .. N -> A] : Recurses(f, NoSelection, step, N)
  <2> HIDE DEF step
  <2> QED
    BY <1>1, <1>2, <1>5, Recursion
<1>7. Right(f)
  <2>1. ASSUME NEW n \in 0 .. N
        PROVE  f[n] = IF n = 0 THEN NoSelection ELSE Step(f[n - 1], n)
    <3>1. CASE n = 0
      BY <1>6, <3>1 DEF Recurses
    <3>2. CASE n # 0
      <4>1. n \in 1 .. N /\ f[n - 1] \in A
        BY <1>1, <1>6, <3>2
      <4> QED
        BY <1>6, <3>2, <4>1 DEF Recurses
    <3> QED
      BY <3>1, <3>2
  <2> QED
    BY <1>6, <2>1
<1>8. Right(sel)
  <2> HIDE DEF Right
  <2> QED
    BY <1>4, <1>7
<1>9. sel[0] = NoSelection /\ \A n \in 1 .. N : sel[n] = Step(sel[n - 1], n)
  BY <1>1, <1>8
<1> QED
  BY <1>9 DEF Step, N, sel

\* After n lines the first k are selected, within the limits, and if the loop has
\* stopped it was because of the limit that it names.
Selected(lines, maxLines, r, k, n) ==
  /\ k <= maxLines
  /\ r.kept = SubSeq(lines, 1, k)
  /\ r.bytes = BytesOfFirst(lines)[k]
  /\ r.bytes <= MaxBytes
  /\ r.stopped \in BOOLEAN
  /\ ~r.stopped => k = n /\ r.by = "lines"
  /\ r.stopped => k < n /\ (r.by = "lines" \/ r.by = "bytes")
  /\ r.stopped /\ r.by = "lines" => k = maxLines
  /\ r.stopped /\ r.by = "bytes" => BytesOfFirst(lines)[k + 1] > MaxBytes

\* The three ways of one turn, after which k lines were selected.
OneTurn(maxLines, r, line, k, more, next) ==
  /\ r.stopped \/ k >= maxLines =>
       next.stopped /\ next.kept = r.kept /\ next.bytes = r.bytes /\ next.by = r.by
  /\ ~r.stopped /\ k < maxLines /\ more > MaxBytes =>
       next.stopped /\ next.kept = r.kept /\ next.bytes = r.bytes /\ next.by = "bytes"
  /\ ~r.stopped /\ k < maxLines /\ ~(more > MaxBytes) =>
       /\ next.stopped = FALSE /\ next.kept = Append(r.kept, line)
       /\ next.bytes = more /\ next.by = r.by

\* A turn of the loop that selects lines goes one of the three ways.
LEMMA SelectingWays ==
  ASSUME NEW maxLines \in Nat, NEW r, NEW line, NEW k \in Nat, Len(r.kept) = k,
         r.stopped \in BOOLEAN, NEW more \in Nat,
         more = r.bytes + (IF r.kept = <<>> THEN 0 ELSE 1) + Len(line),
         NEW next, next = SelectLine(maxLines, r, line)
  PROVE  OneTurn(maxLines, r, line, k, more, next)
<1> DEFINE full == r.stopped \/ k >= maxLines
           over == ~full /\ more > MaxBytes
           taken == ~full /\ ~over
<1>1. next = [kept |-> IF taken THEN Append(r.kept, line) ELSE r.kept,
              bytes |-> IF taken THEN more ELSE r.bytes,
              by |-> IF over THEN "bytes" ELSE r.by,
              stopped |-> full \/ over]
  BY DEF SelectLine
<1>2. full = TRUE \/ full = FALSE
  OBVIOUS
<1>3. over = TRUE \/ over = FALSE
  OBVIOUS
<1>4. (k < maxLines) <=> ~(k >= maxLines)
  OBVIOUS
<1> HIDE DEF taken
<1>5. /\ next.kept = IF taken THEN Append(r.kept, line) ELSE r.kept
      /\ next.bytes = IF taken THEN more ELSE r.bytes
      /\ next.by = IF over THEN "bytes" ELSE r.by
      /\ next.stopped = (full \/ over)
  BY <1>1
<1> QED
  BY <1>4, <1>5 DEF taken, OneTurn

\* What has been selected is explained after one turn more.
LEMMA SelectingOne ==
  ASSUME NEW S, NEW lines \in Seq(Seq(S)), NEW maxLines \in Nat,
         NEW n \in 0 .. Len(lines) - 1, NEW k \in 0 .. n, NEW r,
         Selected(lines, maxLines, r, k, n)
  PROVE  \E j \in 0 .. n + 1 :
           Selected(lines, maxLines, SelectLine(maxLines, r, lines[n + 1]), j, n + 1)
<1> DEFINE line == lines[n + 1]
           next == SelectLine(maxLines, r, line)
           count == BytesOfFirst(lines)
           more == r.bytes + (IF r.kept = <<>> THEN 0 ELSE 1) + Len(line)
<1> SUFFICES \E j \in 0 .. n + 1 : Selected(lines, maxLines, next, j, n + 1)
  OBVIOUS
<1>1. /\ Len(lines) \in Nat /\ n \in Nat /\ k \in Nat /\ k <= n /\ n + 1 \in 1 .. Len(lines)
      /\ MaxBytes \in Nat /\ k \in 0 .. n + 1 /\ n + 1 \in 0 .. n + 1
  BY LimitAssumption
<1>2. /\ line \in Seq(S) /\ Len(line) \in Nat
      /\ Len(SubSeq(lines, 1, k)) = k
      /\ k = 0 <=> SubSeq(lines, 1, k) = <<>>
  <2>1. line \in Seq(S)
    BY <1>1
  <2>2. k \in 0 .. Len(lines)
    BY <1>1
  <2>3. Len(SubSeq(lines, 1, k)) = k /\ SubSeq(lines, 1, k) \in Seq(Seq(S))
    BY <2>2
  <2>4. k = 0 => SubSeq(lines, 1, k) = <<>>
    BY <2>3, EmptySeq
  <2>5. k # 0 => SubSeq(lines, 1, k) # <<>>
    BY <2>3, EmptySeq
  <2> HIDE DEF line
  <2>6. Len(line) \in Nat
    BY <2>1
  <2>7. (k = 0) <=> (SubSeq(lines, 1, k) = <<>>)
    BY <2>4, <2>5
  <2> QED
    BY <2>1, <2>3, <2>6, <2>7
<1>3. /\ r.kept = SubSeq(lines, 1, k) /\ r.bytes = count[k] /\ r.bytes <= MaxBytes
      /\ r.stopped \in BOOLEAN /\ k <= maxLines /\ Len(r.kept) = k
  BY <1>2 DEF Selected
<1>4. r.bytes \in Nat
  <2>1. k \in 0 .. Len(lines)
    BY <1>1
  <2>2. BytesOfFirst(lines)[k] \in Nat
    BY <2>1, ByteCounts
  <2> QED
    BY <1>3, <2>2
<1>7. more \in Nat
  <2>1. \A m \in Nat : r.bytes + (IF r.kept = <<>> THEN 0 ELSE 1) + m \in Nat
    BY <1>4
  <2> HIDE DEF line
  <2> QED
    BY <1>2, <2>1
<1>8. OneTurn(maxLines, r, line, k, more, next)
  <2>1. k \in Nat
    BY <1>1
  <2>2. next = SelectLine(maxLines, r, line)
    OBVIOUS
  <2>3. more = r.bytes + (IF r.kept = <<>> THEN 0 ELSE 1) + Len(line)
    OBVIOUS
  <2> HIDE DEF next, more, line
  <2> QED
    BY <1>3, <1>7, <2>1, <2>2, <2>3, SelectingWays
<1> HIDE DEF next
<1>5. CASE r.stopped
  <2>1. /\ next.stopped = TRUE /\ next.kept = r.kept /\ next.bytes = r.bytes /\ next.by = r.by
    BY <1>5, <1>8 DEF OneTurn
  <2>2. Selected(lines, maxLines, next, k, n + 1)
    <3>1. k < n + 1
      BY <1>1
    <3> QED
      BY <1>5, <2>1, <3>1 DEF Selected
  <2> QED
    BY <1>1, <2>2
<1>6. CASE ~r.stopped
  <2>1. k = n /\ r.by = "lines"
    BY <1>6 DEF Selected
  <2>2. count[n + 1] = more
    <3>1. n + 1 \in 1 .. Len(lines) /\ (n + 1) - 1 = n
      BY <1>1
    <3>2. count[n + 1] = count[n] + (IF n + 1 = 1 THEN 0 ELSE 1) + Len(line)
      BY <3>1, ByteCounts
    <3>3. (n + 1 = 1) <=> (r.kept = <<>>)
      <4>1. (n + 1 = 1) <=> (n = 0)
        BY <1>1
      <4> QED
        BY <1>2, <1>3, <2>1, <4>1
    <3> QED
      BY <1>3, <2>1, <3>2, <3>3
  <2> HIDE DEF more, count
  <2>4. CASE k >= maxLines
    <3>1. /\ next.stopped = TRUE /\ next.kept = r.kept /\ next.bytes = r.bytes
          /\ next.by = "lines"
      BY <1>8, <2>1, <2>4 DEF OneTurn
    <3>2. k = maxLines /\ k < n + 1
      BY <1>1, <1>3, <2>4
    <3>3. Selected(lines, maxLines, next, k, n + 1)
      BY <1>3, <3>1, <3>2 DEF Selected, count
    <3> QED
      BY <1>1, <3>3
  <2>5. CASE k < maxLines /\ more > MaxBytes
    <3>1. /\ next.stopped = TRUE /\ next.kept = r.kept /\ next.bytes = r.bytes
          /\ next.by = "bytes"
      BY <1>6, <1>8, <2>5 DEF OneTurn
    <3>2. k < n + 1 /\ count[k + 1] > MaxBytes
      BY <1>1, <2>1, <2>2, <2>5
    <3>3. Selected(lines, maxLines, next, k, n + 1)
      BY <1>3, <3>1, <3>2 DEF Selected, count
    <3> QED
      BY <1>1, <3>3
  <2>6. CASE k < maxLines /\ ~(more > MaxBytes)
    <3>1. /\ next.stopped = FALSE /\ next.kept = Append(r.kept, line) /\ next.bytes = more
          /\ next.by = "lines"
      BY <1>6, <1>8, <2>1, <2>6 DEF OneTurn
    <3>2. Append(SubSeq(lines, 1, n), line) = SubSeq(lines, 1, n + 1)
      BY <1>1
    <3>3. more <= MaxBytes /\ n + 1 <= maxLines
      BY <1>1, <1>7, <2>1, <2>6
    <3>4. Selected(lines, maxLines, next, n + 1, n + 1)
      BY <1>3, <2>1, <2>2, <3>1, <3>2, <3>3 DEF Selected, count
    <3> QED
      BY <1>1, <3>4
  <2> QED
    BY <1>1, <2>4, <2>5, <2>6
<1> QED
  BY <1>3, <1>5, <1>6

\* The whole loop.
LEMMA SelectingAll ==
  ASSUME NEW S, NEW lines \in Seq(Seq(S)), NEW maxLines \in Nat
  PROVE  \E k \in 0 .. Len(lines) :
           Selected(lines, maxLines, Selections(lines, maxLines)[Len(lines)], k, Len(lines))
<1> DEFINE sel == Selections(lines, maxLines)
           P == {n \in Nat : n <= Len(lines) =>
                   \E k \in 0 .. n : Selected(lines, maxLines, sel[n], k, n)}
<1>1. Len(lines) \in Nat
  OBVIOUS
<1>2. /\ sel[0] = NoSelection
      /\ \A n \in 1 .. Len(lines) : sel[n] = SelectLine(maxLines, sel[n - 1], lines[n])
  BY Selecting
<1> HIDE DEF sel
<1>3. 0 \in P
  <2>1. SubSeq(lines, 1, 0) = <<>> /\ BytesOfFirst(lines)[0] = 0 /\ 0 <= MaxBytes
    BY ByteCounts, LimitAssumption
  <2>2. Selected(lines, maxLines, sel[0], 0, 0)
    BY <1>2, <2>1 DEF Selected, NoSelection
  <2> QED
    BY <2>2
<1>4. ASSUME NEW n \in Nat, n \in P PROVE n + 1 \in P
  <2> SUFFICES ASSUME n + 1 <= Len(lines)
               PROVE  \E k \in 0 .. n + 1 : Selected(lines, maxLines, sel[n + 1], k, n + 1)
    OBVIOUS
  <2>1. n \in 0 .. Len(lines) - 1 /\ n + 1 \in 1 .. Len(lines) /\ (n + 1) - 1 = n /\ n <= Len(lines)
    BY <1>1
  <2>2. PICK k \in 0 .. n : Selected(lines, maxLines, sel[n], k, n)
    BY <1>4, <2>1
  <2>3. sel[n + 1] = SelectLine(maxLines, sel[n], lines[n + 1])
    BY <1>2, <2>1
  <2> HIDE DEF P
  <2> QED
    BY <2>1, <2>2, <2>3, SelectingOne
<1>5. Nat \subseteq P
  <2> HIDE DEF P
  <2> QED
    BY <1>3, <1>4, Induction
<1> QED
  BY <1>1, <1>5 DEF sel

\* The first k lines are what truncation at the head keeps, and it says why not more.
Cut(lines, maxLines, t, k) ==
  /\ k \in 0 .. Len(lines)
  /\ t.lines = SubSeq(lines, 1, k)
  /\ k <= maxLines
  /\ BytesOfFirst(lines)[k] <= MaxBytes
  /\ t.by \in {"none", "lines", "bytes"}
  /\ t.by = "none" <=> k = Len(lines)
  /\ t.by = "lines" => k = maxLines
  /\ t.by = "bytes" => BytesOfFirst(lines)[k + 1] > MaxBytes
  /\ t.edge \in BOOLEAN
  /\ t.edge => k = 0 /\ lines # <<>>
  /\ ~t.edge /\ maxLines # 0 /\ lines # <<>> => k # 0

\* A text that is truncated at its head is cut after some number of its lines.
LEMMA HeadTruncation ==
  ASSUME NEW S, NEW lines \in Seq(Seq(S)), NEW maxLines \in Nat
  PROVE  \E k \in 0 .. Len(lines) :
           Cut(lines, maxLines, TruncateText(lines, "head", maxLines), k)
<1> DEFINE t == TruncateText(lines, "head", maxLines)
           count == BytesOfFirst(lines)
           N == Len(lines)
<1> SUFFICES \E k \in 0 .. N : Cut(lines, maxLines, t, k)
  OBVIOUS
<1>1. /\ N \in Nat /\ N \in 0 .. N /\ 0 \in 0 .. N /\ MaxBytes \in Nat
      /\ lines # <<>> => N # 0
  BY EmptySeq, LimitAssumption
<1>2. /\ \A n \in 0 .. N : count[n] \in Nat
      /\ count[0] = 0
      /\ lines # <<>> => count[1] = Len(lines[1]) /\ 1 \in 1 .. N
  <2>1. /\ count \in [0 .. N -> Nat] /\ count[0] = 0
        /\ \A n \in 1 .. N : count[n] = count[n - 1] + (IF n = 1 THEN 0 ELSE 1) + Len(lines[n])
    BY ByteCounts
  <2>2. ASSUME lines # <<>> PROVE count[1] = Len(lines[1]) /\ 1 \in 1 .. N
    <3>1. 1 \in 1 .. N
      BY <1>1, <2>2
    <3>2. count[1] = count[0] + 0 + Len(lines[1])
      BY <2>1, <3>1
    <3>3. Len(lines[1]) \in Nat
      BY <3>1
    <3> QED
      BY <2>1, <3>1, <3>2, <3>3
  <2> QED
    BY <2>1, <2>2
<1>3. SubSeq(lines, 1, N) = lines
  BY SubSeqFull
<1>4. /\ FitsLimits(lines, maxLines) <=> N <= maxLines /\ count[N] <= MaxBytes
      /\ EdgeLineExceedsLimit(lines, "head") <=> Len(lines[1]) > MaxBytes
  BY DEF FitsLimits, ByteCount, EdgeLineExceedsLimit, FromEdge
<1>5. CASE FitsLimits(lines, maxLines)
  <2>1. t = [lines |-> lines, by |-> "none", edge |-> FALSE]
    BY <1>5 DEF TruncateText
  <2> HIDE DEF t
  <2>2. t.lines = lines /\ t.by = "none" /\ t.edge = FALSE
    BY <2>1
  <2>3. Cut(lines, maxLines, t, N)
    BY <1>1, <1>3, <1>4, <1>5, <2>2 DEF Cut
  <2> QED
    BY <1>1, <2>3
<1>6. CASE ~FitsLimits(lines, maxLines) /\ EdgeLineExceedsLimit(lines, "head")
  <2>1. t = [lines |-> <<>>, by |-> "bytes", edge |-> TRUE]
    BY <1>6 DEF TruncateText
  <2> HIDE DEF t
  <2>2. t.lines = <<>> /\ t.by = "bytes" /\ t.edge = TRUE
    BY <2>1
  <2>3. SubSeq(lines, 1, 0) = <<>>
    OBVIOUS
  <2>4. lines # <<>>
    <3>1. ASSUME lines = <<>> PROVE FALSE
      <4>1. N = 0
        BY <3>1, EmptySeq
      <4> QED
        BY <1>1, <1>2, <1>4, <1>6, <4>1
    <3> QED
      BY <3>1
  <2>5. 0 + 1 = 1 /\ 0 <= maxLines /\ 0 <= MaxBytes /\ 0 # N
    BY <1>1, <2>4
  <2>6. count[0 + 1] > MaxBytes
    BY <1>2, <1>4, <1>6, <2>4, <2>5
  <2>7. Cut(lines, maxLines, t, 0)
    BY <1>1, <1>2, <2>2, <2>3, <2>4, <2>5, <2>6 DEF Cut
  <2> QED
    BY <1>1, <2>7
<1>7. CASE ~FitsLimits(lines, maxLines) /\ ~EdgeLineExceedsLimit(lines, "head")
  <2> DEFINE r == Selections(lines, maxLines)[N]
  <2>1. t = [lines |-> r.kept, by |-> r.by, edge |-> FALSE]
    BY <1>7 DEF TruncateText, SelectOutputLines, FromEdge
  <2>2. PICK k \in 0 .. N : Selected(lines, maxLines, r, k, N)
    BY SelectingAll
  <2> HIDE DEF t, r
  <2>3. t.lines = r.kept /\ t.by = r.by /\ t.edge = FALSE
    BY <2>1
  <2>4. k <= maxLines /\ count[k] <= MaxBytes /\ k \in Nat
    BY <1>1, <2>2 DEF Selected
  <2>5. r.stopped
    BY <1>4, <1>7, <2>2, <2>4 DEF Selected
  <2>6. /\ k # N /\ t.by \in {"lines", "bytes"}
        /\ t.by = "lines" => k = maxLines
        /\ t.by = "bytes" => count[k + 1] > MaxBytes
        /\ t.lines = SubSeq(lines, 1, k)
    BY <1>1, <2>2, <2>3, <2>4, <2>5 DEF Selected
  <2>7. maxLines # 0 /\ lines # <<>> => k # 0
    <3> SUFFICES ASSUME maxLines # 0, lines # <<>>, k = 0
                 PROVE  FALSE
      OBVIOUS
    <3>1. t.by = "bytes" /\ 0 + 1 = 1
      BY <2>6
    <3>2. count[1] > MaxBytes
      BY <2>6, <3>1
    <3> QED
      BY <1>2, <1>4, <1>7, <3>2
  <2>8. Cut(lines, maxLines, t, k)
    BY <2>3, <2>4, <2>6, <2>7 DEF Cut
  <2> QED
    BY <2>8
<1> QED
  BY <1>5, <1>6, <1>7

-----------------------------------------------------------------------------
\* A limit that works is at least 1.
LEMMA Limits ==
  ASSUME NEW limit \in Int
  PROVE  EffectiveLimit(limit) \in Nat /\ EffectiveLimit(limit) # 0
BY DEF EffectiveLimit

\* A part of a sequence and what follows it.
LEMMA PartsOfASequence ==
  ASSUME NEW S, NEW s \in Seq(S), NEW a \in Nat, NEW c \in Nat, NEW d \in Nat,
         a + c + d <= Len(s)
  PROVE  /\ SubSeq(s, a + 1, a + c) \o SubSeq(s, a + c + 1, a + c + d)
              = SubSeq(s, a + 1, a + (c + d))
         /\ a + c < Len(s) => Append(SubSeq(s, a + 1, a + c), s[a + c + 1])
                                = SubSeq(s, a + 1, a + (c + 1))
         /\ SubSeq(s, a + 1, a + c) \in Seq(S)
         /\ Len(SubSeq(s, a + 1, a + c)) = c
         /\ \A i \in 1 .. c : SubSeq(s, a + 1, a + c)[i] = s[a + i]
<1>1. Len(s) \in Nat /\ \A i \in 1 .. Len(s) : s[i] \in S
  OBVIOUS
<1>2. /\ SubSeq(s, a + 1, a + c) \in Seq(S)
      /\ Len(SubSeq(s, a + 1, a + c)) = c
      /\ \A i \in 1 .. c : SubSeq(s, a + 1, a + c)[i] = s[a + i]
  <2>1. /\ a + 1 \in Int /\ a + c \in Int /\ (a + c) - (a + 1) + 1 = c
        /\ \A i \in a + 1 .. a + c : s[i] \in S
        /\ \A i \in 1 .. c : (a + 1) + i - 1 = a + i
        /\ (IF a + 1 <= a + c THEN c ELSE 0) = c
    BY <1>1
  <2> DEFINE part == SubSeq(s, a + 1, a + c)
  <2>2. /\ part \in Seq(S)
        /\ Len(part) = IF a + 1 <= a + c THEN (a + c) - (a + 1) + 1 ELSE 0
        /\ \A i \in 1 .. (a + c) - (a + 1) + 1 : part[i] = s[(a + 1) + i - 1]
    <3> DEFINE lo == a + 1
               hi == a + c
    <3>1. lo \in Int /\ hi \in Int /\ \A i \in lo .. hi : s[i] \in S
      BY <2>1
    <3> HIDE DEF lo, hi
    <3>2. /\ SubSeq(s, lo, hi) \in Seq(S)
          /\ Len(SubSeq(s, lo, hi)) = IF lo <= hi THEN hi - lo + 1 ELSE 0
          /\ \A i \in 1 .. hi - lo + 1 : SubSeq(s, lo, hi)[i] = s[lo + i - 1]
      BY <3>1, SubSeqProperties
    <3> QED
      BY <3>2 DEF lo, hi
  <2> HIDE DEF part
  <2>3. Len(part) = c
    BY <2>1, <2>2
  <2>4. \A i \in 1 .. c : part[i] = s[a + i]
    BY <2>1, <2>2
  <2> QED
    BY <2>2, <2>3, <2>4 DEF part
<1>3. SubSeq(s, a + 1, a + c) \o SubSeq(s, a + c + 1, a + c + d) = SubSeq(s, a + 1, a + (c + d))
  <2>1. a + 1 \in 1 .. Len(s) + 1 /\ a + c \in (a + 1) - 1 .. Len(s)
        /\ a + (c + d) \in a + c .. Len(s) /\ a + (c + d) = a + c + d
    BY <1>1
  <2> QED
    BY <2>1, ConcatAdjacentSubSeq
<1>4. ASSUME a + c < Len(s)
      PROVE  Append(SubSeq(s, a + 1, a + c), s[a + c + 1]) = SubSeq(s, a + 1, a + (c + 1))
  <2>1. /\ SubSeq(s, a + 1, a + (c + 1)) \in Seq(S)
        /\ Len(SubSeq(s, a + 1, a + (c + 1))) = c + 1
        /\ \A i \in 1 .. c + 1 : SubSeq(s, a + 1, a + (c + 1))[i] = s[a + i]
    <3>1. /\ a + 1 \in Int /\ a + (c + 1) \in Int /\ (a + (c + 1)) - (a + 1) + 1 = c + 1
          /\ \A i \in a + 1 .. a + (c + 1) : s[i] \in S
          /\ \A i \in 1 .. c + 1 : (a + 1) + i - 1 = a + i
          /\ (IF a + 1 <= a + (c + 1) THEN c + 1 ELSE 0) = c + 1
      BY <1>1, <1>4
    <3> QED
      BY <3>1, SubSeqProperties
  <2>2. s[a + c + 1] \in S
    BY <1>1, <1>4
  <2> DEFINE p == SubSeq(s, a + 1, a + c)
             q == SubSeq(s, a + 1, a + (c + 1))
             e == s[a + c + 1]
  <2>3. p \in Seq(S) /\ Len(p) = c /\ \A i \in 1 .. c : p[i] = s[a + i]
    BY <1>2
  <2>4. /\ Append(p, e) \in Seq(S) /\ Len(Append(p, e)) = c + 1
        /\ Append(p, e)[c + 1] = e /\ \A i \in 1 .. c : Append(p, e)[i] = p[i]
    <3> HIDE DEF p, e
    <3>1. e \in S
      BY <2>2 DEF e
    <3> QED
      BY <2>3, <3>1, AppendProperties
  <2>5. q \in Seq(S) /\ Len(q) = c + 1 /\ \A i \in 1 .. c + 1 : q[i] = s[a + i]
    BY <2>1
  <2>6. e = s[a + (c + 1)] /\ c + 1 \in 1 .. c + 1
    OBVIOUS
  <2> HIDE DEF p, q, e
  <2>7. \A i \in 1 .. c + 1 : Append(p, e)[i] = q[i]
    <3> SUFFICES ASSUME NEW i \in 1 .. c + 1
                 PROVE  Append(p, e)[i] = q[i]
      OBVIOUS
    <3>1. i \in 1 .. c \/ i = c + 1
      OBVIOUS
    <3> QED
      BY <2>3, <2>4, <2>5, <2>6, <3>1
  <2>8. Append(p, e) = q
    BY <2>4, <2>5, <2>7, SeqEqual
  <2> QED
    BY <2>8 DEF p, q, e
<1> QED
  BY <1>2, <1>3, <1>4

\* A part of a sequence and the next element.
LEMMA PartGrows ==
  ASSUME NEW S, NEW s \in Seq(S), NEW a \in Nat, NEW c \in Nat, a + c < Len(s)
  PROVE  Append(SubSeq(s, a + 1, a + c), s[a + c + 1]) = SubSeq(s, a + 1, a + (c + 1))
<1>1. a + c + 0 <= Len(s) /\ 0 \in Nat
  OBVIOUS
<1> QED
  BY <1>1, PartsOfASequence

\* A part of a sequence and the part behind it.
PartsAreJoined(s, a, c, d) ==
  SubSeq(s, a + 1, a + c) \o SubSeq(s, a + c + 1, a + c + d) = SubSeq(s, a + 1, a + (c + d))

LEMMA PartsJoin ==
  ASSUME NEW S, NEW s \in Seq(S), NEW a \in Nat, NEW c \in Nat, NEW d \in Nat,
         a + c + d <= Len(s)
  PROVE  PartsAreJoined(s, a, c, d)
BY PartsOfASequence DEF PartsAreJoined

\* A part at the beginning is a prefix, and a real one if it is shorter.
LEMMA PrefixOf ==
  ASSUME NEW S, NEW s \in Seq(S), NEW k \in 0 .. Len(s)
  PROVE  /\ IsPrefix(SubSeq(s, 1, k), s)
         /\ Len(SubSeq(s, 1, k)) = k
         /\ (SubSeq(s, 1, k) = s) <=> (k = Len(s))
<1>1. SubSeq(s, 1, k) \in Seq(S) /\ Len(SubSeq(s, 1, k)) = k
  OBVIOUS
<1>2. SubSeq(SubSeq(s, 1, k), 1, k) = SubSeq(s, 1, k)
  BY <1>1, SubSeqFull
<1>3. k = Len(s) => SubSeq(s, 1, k) = s
  BY SubSeqFull
<1>4. (SubSeq(s, 1, k) = s) <=> (k = Len(s))
  BY <1>1, <1>3
<1>5. Len(SubSeq(s, 1, k)) <= Len(s)
  BY <1>1
<1>6. IsPrefix(SubSeq(s, 1, k), s)
  BY <1>1, <1>2, <1>5 DEF IsPrefix
<1> QED
  BY <1>1, <1>4, <1>6

\* When the edge line alone is too large, it is.
LEMMA EdgeIsWide ==
  ASSUME NEW S, NEW lines \in Seq(Seq(S)), lines # <<>>, NEW maxLines \in Nat, maxLines # 0,
         NEW t, NEW k \in 0 .. Len(lines), Cut(lines, maxLines, t, k), t.edge
  PROVE  Len(lines[1]) > MaxBytes
<1>1. Len(lines) \in Nat /\ Len(lines) # 0 /\ 1 \in 1 .. Len(lines) /\ lines[1] \in Seq(S)
  BY EmptySeq
<1>2. k = 0 /\ t.by \in {"none", "lines", "bytes"} /\ t.by # "none" /\ t.by # "lines"
  BY <1>1 DEF Cut
<1>3. BytesOfFirst(lines)[0 + 1] > MaxBytes /\ 0 + 1 = 1
  BY <1>2 DEF Cut
<1>4. /\ BytesOfFirst(lines)[0] = 0
      /\ BytesOfFirst(lines)[1] = BytesOfFirst(lines)[1 - 1] + (IF 1 = 1 THEN 0 ELSE 1) + Len(lines[1])
  BY <1>1, ByteCounts
<1>5. Len(lines[1]) \in Nat
  BY <1>1
<1> QED
  BY <1>3, <1>4, <1>5

\* After n calls that were all within the file, k lines have been shown, none of
\* them over the byte limit: all there are, or up to the line at which the next
\* call begins, or up to one that is over the limit, of which the head was shown.
Reading(file, b, r, n) ==
  /\ r.offset \in Int
  /\ r.end \in {"none", "file", "line"}
  /\ \E k \in 0 .. Len(file) - b :
       /\ \A i \in 1 .. k : Len(file[b + i]) <= MaxBytes
       /\ r.end = "none" => StartIndex(r.offset) = b + k /\ b + k < Len(file) /\ n <= k
       /\ r.end = "file" => b + k = Len(file)
       /\ r.end = "line" => b + k < Len(file) /\ Len(file[b + k + 1]) > MaxBytes
       /\ r.shown = IF r.end = "line"
                      THEN Append(SubSeq(file, b + 1, b + k), HeadOfLine(file[b + k + 1]))
                    ELSE SubSeq(file, b + 1, b + k)

\* A call of read shows what comes next in the file.
LEMMA ReadingOne ==
  ASSUME NEW S, NEW file \in Seq(Seq(S)), NEW b \in Nat, b < Len(file),
         NEW r, NEW n \in Nat, Reading(file, b, r, n), NEW limit \in Int
  PROVE  Reading(file, b, Read(file, r, limit), n + 1)
<1> DEFINE N == Len(file)
           next == Read(file, r, limit)
           page == Page(file, r.offset, limit)
           rest == Selection(file, r.offset)
           start == StartIndex(r.offset) + 1
<1> SUFFICES Reading(file, b, next, n + 1)
  OBVIOUS
<1>1. PICK k \in 0 .. N - b :
        /\ \A i \in 1 .. k : Len(file[b + i]) <= MaxBytes
        /\ r.end = "none" => StartIndex(r.offset) = b + k /\ b + k < N /\ n <= k
        /\ r.end = "file" => b + k = N
        /\ r.end = "line" => b + k < N /\ Len(file[b + k + 1]) > MaxBytes
        /\ r.shown = IF r.end = "line"
                       THEN Append(SubSeq(file, b + 1, b + k), HeadOfLine(file[b + k + 1]))
                     ELSE SubSeq(file, b + 1, b + k)
  BY DEF Reading
<1>2. /\ r.offset \in Int /\ r.end \in {"none", "file", "line"}
      /\ N \in Nat /\ k \in Nat /\ b + k <= N
  BY DEF Reading
<1>3. CASE r.end # "none"
  <2>1. next = r
    BY <1>3 DEF Read
  <2> HIDE DEF next
  <2> QED
    BY <1>1, <1>2, <1>3, <2>1 DEF Reading
<1>4. CASE r.end = "none"
  <2>1. /\ StartIndex(r.offset) = b + k /\ b + k < N /\ n <= k /\ start = b + k + 1
        /\ r.shown = SubSeq(file, b + 1, b + k)
    BY <1>1, <1>4
  <2>2. ~BeyondEnd(file, r.offset)
    BY <1>2, <2>1 DEF BeyondEnd
  <2>3. /\ rest \in Seq(Seq(S)) /\ Len(rest) = N - (b + k)
        /\ \A m \in 1 .. Len(rest) : rest[m] = file[b + k + m]
    <3>1. rest = SubSeq(file, b + k + 1, N)
      BY <2>1 DEF Selection
    <3>2. b + k + 1 \in 1 .. N + 1 /\ N \in b + k .. N
      BY <1>2, <2>1
    <3> HIDE DEF rest
    <3> QED
      BY <1>2, <2>1, <3>1, <3>2
  <2>4. PICK j \in 0 .. Len(rest) : Cut(rest, EffectiveLimit(limit), page, j)
    <3>1. EffectiveLimit(limit) \in Nat
      BY Limits
    <3> HIDE DEF rest
    <3> QED
      BY <2>3, <3>1, HeadTruncation DEF Page, rest
  <2> HIDE DEF page, rest
  <2>5. rest # <<>> /\ j \in Nat /\ EffectiveLimit(limit) # 0 /\ b + k + j <= N /\ 1 \in 1 .. Len(rest)
    <3>1. Len(rest) # 0 /\ j \in Nat /\ b + k + j <= N /\ 1 \in 1 .. Len(rest)
      BY <1>2, <2>1, <2>3
    <3>2. rest # <<>>
      BY <2>3, <3>1, EmptySeq
    <3> QED
      BY <3>1, <3>2, Limits
  <2>6. /\ page.lines = SubSeq(rest, 1, j) /\ (page.by = "none" <=> j = Len(rest))
        /\ page.edge \in BOOLEAN /\ (~page.edge => j # 0)
    BY <2>4, <2>5 DEF Cut
  <2>7. CASE page.edge
    <3>1. next = [offset |-> r.offset, shown |-> Append(r.shown, HeadOfLine(file[start])),
                  end |-> "line"]
      BY <1>2, <1>4, <2>2, <2>7 DEF Read, page
    <3> HIDE DEF next
    <3>2. /\ next.offset = r.offset /\ next.end = "line"
          /\ next.shown = Append(SubSeq(file, b + 1, b + k), HeadOfLine(file[b + k + 1]))
      BY <2>1, <3>1
    <3>3. Len(file[b + k + 1]) > MaxBytes
      <4>1. Len(rest[1]) > MaxBytes
        BY <2>3, <2>4, <2>5, <2>7, Limits, EdgeIsWide
      <4>2. rest[1] = file[b + k + 1]
        BY <2>3, <2>5
      <4> QED
        BY <4>1, <4>2
    <3> QED
      BY <1>1, <1>2, <2>1, <3>2, <3>3 DEF Reading
  <2>8. CASE ~page.edge
    <3>1. next = [offset |-> NextOffset(r.offset, page), shown |-> r.shown \o page.lines,
                  end |-> IF page.by = "none" THEN "file" ELSE "none"]
      BY <1>2, <1>4, <2>2, <2>8 DEF Read, page
    <3> HIDE DEF next
    <3>2. Len(page.lines) = j
      BY <2>3, <2>4, <2>6
    <3>3. /\ next.offset = b + k + 1 + j /\ next.shown = r.shown \o SubSeq(rest, 1, j)
          /\ next.end = IF j = Len(rest) THEN "file" ELSE "none"
      BY <1>2, <2>1, <2>5, <2>6, <3>1, <3>2 DEF NextOffset
    <3>4. r.shown \o SubSeq(rest, 1, j) = SubSeq(file, b + 1, b + (k + j))
      <4>1. SubSeq(rest, 1, j) = SubSeq(file, b + k + 1, b + k + j)
        BY <1>2, <2>1, <2>3, <2>4, <2>5
      <4>2. b + k + j <= Len(file) /\ k \in Nat /\ j \in Nat
        BY <1>2, <2>5
      <4>3. PartsAreJoined(file, b, k, j)
        <5> HIDE DEF N
        <5> QED
          BY <4>2, PartsJoin
      <4> QED
        BY <2>1, <4>1, <4>3 DEF PartsAreJoined
    <3>5. /\ next.offset \in Int /\ StartIndex(b + k + 1 + j) = b + (k + j)
          /\ k + j \in 0 .. N - b /\ n + 1 <= k + j
      <4>1. j >= 1
        <5>1. j # 0 /\ j \in Nat
          BY <2>5, <2>6, <2>8
        <5> QED
          BY <5>1
      <4>5. b \in Nat /\ k \in Nat /\ j \in Nat
        BY <1>2, <2>5
      <4>2. b + k + 1 + j \in Int /\ b + k + 1 + j > 1 /\ (b + k + 1 + j) - 1 = b + (k + j)
        BY <4>1, <4>5
      <4>3. StartIndex(b + k + 1 + j) = b + (k + j)
        BY <4>2 DEF StartIndex
      <4>4. k + j \in 0 .. N - b /\ n + 1 <= k + j
        BY <1>2, <2>1, <2>5, <4>1
      <4> QED
        BY <3>3, <4>2, <4>3, <4>4
    <3>6. /\ next.end = "file" => b + (k + j) = N
          /\ next.end = "none" => b + (k + j) < N
          /\ next.end \in {"none", "file"}
      <4>1. (j = Len(rest)) <=> (b + (k + j) = N)
        BY <1>2, <2>1, <2>3, <2>5
      <4>2. b + (k + j) # N => b + (k + j) < N
        BY <1>2, <2>1, <2>5
      <4> QED
        BY <3>3, <4>1, <4>2
    <3>7. \A i \in 1 .. k + j : Len(file[b + i]) <= MaxBytes
      <4> SUFFICES ASSUME NEW i \in 1 .. k + j
                   PROVE  Len(file[b + i]) <= MaxBytes
        OBVIOUS
      <4>1. CASE i <= k
        <5>1. i \in 1 .. k
          BY <1>2, <2>5, <4>1
        <5> QED
          BY <1>1, <5>1
      <4>2. CASE ~(i <= k)
        <5>1. i - k \in 1 .. j /\ i - k \in 1 .. Len(rest) /\ b + k + (i - k) = b + i
          BY <1>2, <2>3, <2>4, <2>5, <4>2
        <5>2. \A m \in 1 .. j : Len(rest[m]) <= MaxBytes
          <6>1. BytesOfFirst(rest)[j] <= MaxBytes
            BY <2>4 DEF Cut
          <6> QED
            BY <2>3, <2>4, <6>1, FirstLinesFit
        <5>3. rest[i - k] = file[b + i]
          BY <2>3, <5>1
        <5> QED
          BY <5>1, <5>2, <5>3
      <4> QED
        BY <4>1, <4>2
    <3> QED
      BY <3>3, <3>4, <3>5, <3>6, <3>7 DEF Reading
  <2> QED
    BY <2>6, <2>7, <2>8
<1> QED
  BY <1>2, <1>3, <1>4

\* What a model may have read.
ReadingsOf(S) ==
  [offset : Int, shown : Seq(Seq(S)), end : {"none", "file", "line", "beyond"}]

\* What a call of read leaves, field by field.
LEMMA IsReading ==
  ASSUME NEW S, NEW offset \in Int, NEW shown \in Seq(Seq(S)),
         NEW end \in {"none", "file", "line", "beyond"}
  PROVE  [offset |-> offset, shown |-> shown, end |-> end] \in ReadingsOf(S)
BY DEF ReadingsOf

\* The head of a line over the limit.
LEMMA HeadOfALine ==
  ASSUME NEW S, NEW line \in Seq(S), Len(line) > MaxBytes
  PROVE  HeadOfLine(line) \in Seq(S)
<1>1. MaxBytes \in 0 .. Len(line)
  BY LimitAssumption
<1> QED
  BY <1>1 DEF HeadOfLine

\* A call of read leaves an offset, lines, and why the reading ends, if it does.
LEMMA ReadType ==
  ASSUME NEW S, NEW file \in Seq(Seq(S)), NEW r \in ReadingsOf(S), NEW limit \in Int
  PROVE  Read(file, r, limit) \in ReadingsOf(S)
<1> DEFINE next == Read(file, r, limit)
           page == Page(file, r.offset, limit)
           rest == Selection(file, r.offset)
           start == StartIndex(r.offset) + 1
<1>1. /\ r.offset \in Int /\ r.shown \in Seq(Seq(S)) /\ r.end \in {"none", "file", "line", "beyond"}
      /\ Len(file) \in Nat
  BY DEF ReadingsOf
<1>2. StartIndex(r.offset) \in Nat /\ start \in Nat
  BY <1>1 DEF StartIndex
<1>3. CASE r.end # "none"
  BY <1>3 DEF Read
<1>4. CASE r.end = "none" /\ BeyondEnd(file, r.offset)
  <2>1. next = [offset |-> r.offset, shown |-> r.shown, end |-> "beyond"]
    BY <1>4 DEF Read
  <2> QED
    BY <1>1, <2>1 DEF ReadingsOf
<1>5. CASE r.end = "none" /\ ~BeyondEnd(file, r.offset)
  <2>1. start \in 1 .. Len(file) /\ Len(file) \in start - 1 .. Len(file)
    BY <1>1, <1>2, <1>5 DEF BeyondEnd
  <2>2. rest \in Seq(Seq(S))
    BY <1>1, <2>1 DEF Selection
  <2>3. EffectiveLimit(limit) \in Nat
    BY Limits
  <2> HIDE DEF rest
  <2>4. PICK j \in 0 .. Len(rest) : Cut(rest, EffectiveLimit(limit), page, j)
    BY <2>2, <2>3, HeadTruncation DEF Page, rest
  <2> HIDE DEF page
  <2>5. page.lines = SubSeq(rest, 1, j) /\ j \in Nat
    BY <2>2, <2>4 DEF Cut
  <2>6. page.lines \in Seq(Seq(S)) /\ Len(page.lines) \in Nat
    BY <2>2, <2>5
  <2>7. CASE page.edge
    <3> DEFINE line == file[start]
    <3>1. next = [offset |-> r.offset, shown |-> Append(r.shown, HeadOfLine(line)), end |-> "line"]
      BY <1>5, <2>7 DEF Read, page
    <3>2. line \in Seq(S)
      BY <2>1
    <3> HIDE DEF next, line
    <3>3. HeadOfLine(line) \in Seq(S)
      <4>1. rest[1] = line /\ rest # <<>>
        <5> DEFINE N == Len(file)
        <5>1. rest = SubSeq(file, start, N)
          BY DEF rest, Selection
        <5>2. start \in 1 .. N /\ N \in Nat /\ start + 1 - 1 = start
          BY <1>1, <2>1
        <5> HIDE DEF start, N, rest
        <5>3. Len(SubSeq(file, start, N)) = N - start + 1 /\ SubSeq(file, start, N)[1] = file[start]
          <6>1. start \in Int /\ N \in Int /\ 1 \in 1 .. N - start + 1 /\ start + 1 - 1 = start
            BY <5>2
          <6>2. \A i \in start .. N : file[i] \in Seq(S)
            BY <5>2 DEF N
          <6>3. /\ Len(SubSeq(file, start, N)) = IF start <= N THEN N - start + 1 ELSE 0
                /\ \A i \in 1 .. N - start + 1 : SubSeq(file, start, N)[i] = file[start + i - 1]
            BY <6>1, <6>2, SubSeqProperties
          <6> QED
            BY <5>2, <6>1, <6>3
        <5>4. Len(rest) # 0
          BY <5>1, <5>2, <5>3
        <5> QED
          BY <2>2, <5>1, <5>3, <5>4, EmptySeq DEF line
      <4>2. Len(line) > MaxBytes
        BY <2>2, <2>3, <2>4, <2>7, <4>1, Limits, EdgeIsWide
      <4> QED
        BY <3>2, <4>2, HeadOfALine
    <3>4. Append(r.shown, HeadOfLine(line)) \in Seq(Seq(S))
      BY <1>1, <3>3
    <3>5. next \in ReadingsOf(S)
      BY <1>1, <3>1, <3>4, IsReading
    <3> QED
      BY <3>5 DEF next
  <2>8. CASE ~page.edge
    <3> DEFINE end == IF page.by = "none" THEN "file" ELSE "none"
    <3>1. next = [offset |-> NextOffset(r.offset, page), shown |-> r.shown \o page.lines, end |-> end]
      BY <1>5, <2>8 DEF Read, page
    <3>2. NextOffset(r.offset, page) \in Int
      BY <1>2, <2>6 DEF NextOffset
    <3>3. r.shown \o page.lines \in Seq(Seq(S))
      BY <1>1, <2>6
    <3>4. end \in {"none", "file", "line", "beyond"}
      OBVIOUS
    <3> HIDE DEF next, end
    <3>5. next \in ReadingsOf(S)
      BY <3>1, <3>2, <3>3, <3>4, IsReading
    <3> QED
      BY <3>5 DEF next
  <2> QED
    BY <2>7, <2>8
<1> QED
  BY <1>1, <1>3, <1>4, <1>5

NoReading(first) == [offset |-> first, shown |-> <<>>, end |-> "none"]

\* A model makes one call after the other.
LEMMA ReadingsFollow ==
  ASSUME NEW S, NEW file \in Seq(Seq(S)), NEW first \in Int, NEW limits \in Seq(Int)
  PROVE  /\ Readings(file, first, limits)[0] = NoReading(first)
         /\ \A n \in 1 .. Len(limits) :
              Readings(file, first, limits)[n] =
                Read(file, Readings(file, first, limits)[n - 1], limits[n])
<1> DEFINE N == Len(limits)
           A == ReadingsOf(S)
           Step(r, n) == Read(file, r, limits[n])
           step == [p \in A \X (1 .. N) |-> Step(p[1], p[2])]
           Right(f) == f = [n \in 0 .. N |-> IF n = 0 THEN NoReading(first) ELSE Step(f[n - 1], n)]
           reading == Readings(file, first, limits)
<1>1. /\ N \in Nat /\ 0 \in 0 .. N
      /\ \A n \in 1 .. N : limits[n] \in Int /\ n - 1 \in 0 .. N /\ n \in 0 .. N
  OBVIOUS
<1>2. NoReading(first) \in A
  BY DEF NoReading, ReadingsOf
<1> HIDE DEF N
<1>3. ASSUME NEW r \in A, NEW n \in 1 .. N PROVE Step(r, n) \in A
  BY <1>1, ReadType
<1>4. reading = CHOOSE f : Right(f)
  BY DEF Readings, N, NoReading
<1> HIDE DEF Step, reading, A
<1>5. step \in [A \X (1 .. N) -> A]
  BY <1>3
<1>6. PICK f \in [0 .. N -> A] : Recurses(f, NoReading(first), step, N)
  <2> HIDE DEF step
  <2> QED
    BY <1>1, <1>2, <1>5, Recursion
<1>7. Right(f)
  <2>1. ASSUME NEW n \in 0 .. N
        PROVE  f[n] = IF n = 0 THEN NoReading(first) ELSE Step(f[n - 1], n)
    <3>1. CASE n = 0
      BY <1>6, <3>1 DEF Recurses
    <3>2. CASE n # 0
      <4>1. n \in 1 .. N /\ f[n - 1] \in A
        BY <1>1, <1>6, <3>2
      <4> QED
        BY <1>6, <3>2, <4>1 DEF Recurses
    <3> QED
      BY <3>1, <3>2
  <2> QED
    BY <1>6, <2>1
<1>8. Right(reading)
  <2> HIDE DEF Right
  <2> QED
    BY <1>4, <1>7
<1>9. reading[0] = NoReading(first) /\ \A n \in 1 .. N : reading[n] = Step(reading[n - 1], n)
  BY <1>1, <1>8
<1> QED
  BY <1>9 DEF Step, N, reading

\* Calls of a model that begins within the file.
LEMMA ReadingAlong ==
  ASSUME NEW S, NEW file \in Seq(Seq(S)), NEW first \in Int, NEW limits \in Seq(Int),
         ~BeyondEnd(file, first)
  PROVE  \A n \in 0 .. Len(limits) :
           Reading(file, StartIndex(first), Readings(file, first, limits)[n], n)
<1> DEFINE b == StartIndex(first)
           reading == Readings(file, first, limits)
           P == {n \in Nat : n <= Len(limits) => Reading(file, b, reading[n], n)}
<1>1. b \in Nat /\ b < Len(file) /\ Len(limits) \in Nat /\ Len(file) \in Nat
  BY DEF BeyondEnd, StartIndex
<1>2. /\ reading[0] = NoReading(first)
      /\ \A n \in 1 .. Len(limits) : reading[n] = Read(file, reading[n - 1], limits[n])
  BY ReadingsFollow
<1> HIDE DEF reading
<1>3. Reading(file, b, reading[0], 0)
  <2>1. /\ reading[0].offset = first /\ reading[0].shown = <<>>
        /\ reading[0].end = "none"
    BY <1>2 DEF NoReading
  <2>2. SubSeq(file, b + 1, b + 0) = <<>> /\ b + 0 = b /\ 0 \in 0 .. Len(file) - b /\ 0 <= 0
    BY <1>1, SubSeqEmpty
  <2>3. \A i \in 1 .. 0 : Len(file[b + i]) <= MaxBytes
    OBVIOUS
  <2>4. StartIndex(first) = b + 0
    BY <1>1
  <2> HIDE DEF b
  <2>5. \E k \in 0 .. Len(file) - b :
          /\ \A i \in 1 .. k : Len(file[b + i]) <= MaxBytes
          /\ StartIndex(first) = b + k /\ b + k < Len(file) /\ 0 <= k
          /\ reading[0].shown = SubSeq(file, b + 1, b + k)
    <3>1. /\ StartIndex(first) = b + 0 /\ b + 0 < Len(file) /\ 0 <= 0
          /\ reading[0].shown = SubSeq(file, b + 1, b + 0)
      BY <1>1, <2>1, <2>2, <2>4
    <3> QED
      BY <2>2, <2>3, <3>1
  <2> QED
    BY <2>1, <2>5 DEF Reading
<1> HIDE DEF b
<1>4. 0 \in P
  BY <1>3
<1>5. ASSUME NEW n \in Nat, n \in P PROVE n + 1 \in P
  <2> SUFFICES ASSUME n + 1 <= Len(limits)
               PROVE  Reading(file, b, reading[n + 1], n + 1)
    OBVIOUS
  <2>1. n + 1 \in 1 .. Len(limits) /\ (n + 1) - 1 = n /\ n <= Len(limits)
    BY <1>1
  <2>2. limits[n + 1] \in Int /\ reading[n + 1] = Read(file, reading[n], limits[n + 1])
    BY <1>2, <2>1
  <2>3. Reading(file, b, reading[n], n)
    BY <1>5, <2>1
  <2> HIDE DEF P
  <2> QED
    BY <1>1, <2>2, <2>3, ReadingOne
<1>6. Nat \subseteq P
  <2> HIDE DEF P
  <2> QED
    BY <1>4, <1>5, Induction
<1>7. \A n \in 0 .. Len(limits) : n \in P /\ n <= Len(limits)
  BY <1>1, <1>6
<1> QED
  BY <1>7 DEF b, reading

\* A model that begins behind the file is refused.
LEMMA RefusedAlong ==
  ASSUME NEW S, NEW file \in Seq(Seq(S)), NEW first \in Int, NEW limits \in Seq(Int),
         BeyondEnd(file, first)
  PROVE  /\ (ReadAll(file, first, limits).end = "beyond") = (limits # <<>>)
         /\ ReadAll(file, first, limits).shown = <<>>
<1> DEFINE reading == Readings(file, first, limits)
           Refused(r) == r = [offset |-> first, shown |-> <<>>, end |-> "beyond"]
           P == {n \in Nat : n # 0 /\ n <= Len(limits) => Refused(reading[n])}
<1>1. /\ reading[0] = NoReading(first)
      /\ \A n \in 1 .. Len(limits) : reading[n] = Read(file, reading[n - 1], limits[n])
  BY ReadingsFollow
<1>2. Len(limits) \in Nat /\ (limits = <<>> <=> Len(limits) = 0)
  BY EmptySeq
<1> HIDE DEF reading
<1>3. \A limit : Refused(Read(file, NoReading(first), limit))
  BY DEF Read, NoReading
<1>4. \A r, limit : Refused(r) => Refused(Read(file, r, limit))
  BY DEF Read
<1> HIDE DEF Refused
<1>5. 0 \in P
  OBVIOUS
<1>6. ASSUME NEW n \in Nat, n \in P PROVE n + 1 \in P
  <2> SUFFICES ASSUME n + 1 <= Len(limits)
               PROVE  Refused(reading[n + 1])
    OBVIOUS
  <2>1. n + 1 \in 1 .. Len(limits) /\ (n + 1) - 1 = n /\ n <= Len(limits)
    BY <1>2
  <2>2. reading[n + 1] = Read(file, reading[n], limits[n + 1])
    BY <1>1, <2>1
  <2>3. CASE n = 0
    BY <1>1, <1>3, <2>2, <2>3
  <2>4. CASE n # 0
    BY <1>4, <1>6, <2>1, <2>2, <2>4
  <2> QED
    BY <2>3, <2>4
<1>7. Nat \subseteq P
  <2> HIDE DEF P
  <2> QED
    BY <1>5, <1>6, Induction
<1> DEFINE r == reading[Len(limits)]
<1>8. CASE Len(limits) = 0
  <2>1. r = NoReading(first)
    BY <1>1, <1>8
  <2> HIDE DEF r
  <2>2. r.end = "none" /\ r.shown = <<>>
    BY <2>1 DEF NoReading
  <2>3. limits = <<>> /\ r = ReadAll(file, first, limits)
    BY <1>2, <1>8 DEF ReadAll, reading, r
  <2> QED
    BY <2>2, <2>3
<1>9. CASE Len(limits) # 0
  <2>1. Len(limits) \in P
    BY <1>2, <1>7
  <2>2. Refused(r)
    BY <1>9, <2>1
  <2> HIDE DEF r
  <2>3. r.end = "beyond" /\ r.shown = <<>>
    BY <2>2 DEF Refused
  <2> QED
    BY <1>2, <1>9, <2>3 DEF ReadAll, reading, r
<1> QED
  BY <1>8, <1>9

\* Lines none of which is over the limit are where the notices lead.
LEMMA NoticesLeadToTheEnd ==
  ASSUME NEW S, NEW lines \in Seq(Seq(S)), WideLines(lines) = {}
  PROVE  NoticesLeadTo(lines) = lines
BY DEF NoticesLeadTo

\* Else they lead to the first that is.
LEMMA NoticesLeadToALine ==
  ASSUME NEW S, NEW lines \in Seq(Seq(S)), NEW w \in 1 .. Len(lines), Len(lines[w]) > MaxBytes,
         \A i \in 1 .. w - 1 : Len(lines[i]) <= MaxBytes
  PROVE  /\ WideLines(lines) # {}
         /\ NoticesLeadTo(lines) = Append(SubSeq(lines, 1, w - 1), HeadOfLine(lines[w]))
<1> DEFINE wide == CHOOSE i \in WideLines(lines) : \A j \in WideLines(lines) : i <= j
<1>1. /\ DOMAIN lines = 1 .. Len(lines) /\ Len(lines) \in Nat
      /\ \A i \in 1 .. Len(lines) : Len(lines[i]) \in Nat
      /\ MaxBytes \in Nat
  BY LimitAssumption
<1>2. w \in WideLines(lines)
  BY <1>1 DEF WideLines
<1>3. ASSUME NEW j \in WideLines(lines) PROVE w <= j
  <2>1. j \in 1 .. Len(lines) /\ Len(lines[j]) > MaxBytes
    BY <1>1 DEF WideLines
  <2>2. j \notin 1 .. w - 1
    BY <1>1, <2>1
  <2> QED
    BY <1>1, <2>1, <2>2
<1>4. wide \in WideLines(lines) /\ \A j \in WideLines(lines) : wide <= j
  BY <1>2, <1>3
<1> HIDE DEF wide
<1>5. wide = w
  <2>1. wide <= w /\ w <= wide /\ wide \in 1 .. Len(lines)
    BY <1>1, <1>2, <1>3, <1>4 DEF WideLines
  <2> QED
    BY <1>1, <2>1
<1> QED
  BY <1>2, <1>5 DEF NoticesLeadTo, wide

\* The notices of read lead through a file of any length, whatever limits a model
\* passes: to its end, or to the first line over the byte limit.
THEOREM NoticesLeadThroughFiles ==
  ASSUME NEW S, NEW file \in Seq(Seq(S)), NEW first \in Int, NEW limits \in Seq(Int)
  PROVE  PagesAreTheFile(file, first, limits)
<1> DEFINE r == ReadAll(file, first, limits)
           b == StartIndex(first)
           N == Len(file)
           all == Selection(file, first)
<1>1. CASE BeyondEnd(file, first)
  BY <1>1, RefusedAlong DEF PagesAreTheFile
<1>2. CASE ~BeyondEnd(file, first)
  <2>1. N \in Nat /\ b \in Nat /\ b < N /\ Len(limits) \in Nat
    BY <1>2 DEF BeyondEnd, StartIndex
  <2>2. Reading(file, b, r, Len(limits))
    BY <1>2, <2>1, ReadingAlong DEF ReadAll
  <2> HIDE DEF r, b
  <2>3. PICK k \in 0 .. N - b :
          /\ \A i \in 1 .. k : Len(file[b + i]) <= MaxBytes
          /\ r.end = "none" => StartIndex(r.offset) = b + k /\ b + k < N /\ Len(limits) <= k
          /\ r.end = "file" => b + k = N
          /\ r.end = "line" => b + k < N /\ Len(file[b + k + 1]) > MaxBytes
          /\ r.shown = IF r.end = "line"
                         THEN Append(SubSeq(file, b + 1, b + k), HeadOfLine(file[b + k + 1]))
                       ELSE SubSeq(file, b + 1, b + k)
    BY <2>2 DEF Reading
  <2>4. r.end \in {"none", "file", "line"}
    BY <2>2 DEF Reading
  <2>5. k \in Nat /\ b + k <= N
    BY <2>1
  <2>6. all = SubSeq(file, b + 1, N)
    BY DEF Selection, b
  <2>7. Len(limits) >= Len(file) => r.end # "none"
    <3>1. r.end = "none" => Len(limits) <= k /\ b + k < N
      BY <2>3
    <3>2. Len(limits) <= k /\ b + k < N => ~(Len(limits) >= Len(file))
      BY <2>1, <2>5
    <3> QED
      BY <3>1, <3>2
  <2>8. /\ all \in Seq(Seq(S)) /\ Len(all) = N - b /\ \A i \in 1 .. N - b : all[i] = file[b + i]
    <3>1. /\ b + 1 \in Int /\ N \in Int /\ N - (b + 1) + 1 = N - b
          /\ \A i \in b + 1 .. N : file[i] \in Seq(S)
          /\ \A i \in 1 .. N - b : (b + 1) + i - 1 = b + i
          /\ b + 1 <= N
      BY <2>1
    <3> QED
      BY <2>6, <3>1, SubSeqProperties
  <2>9. SubSeq(file, b + 1, b + k) = SubSeq(all, 1, k)
    <3>1. N = b + k + (N - (b + k)) /\ N - (b + k) \in Nat /\ b + k + (N - (b + k)) <= N
      BY <2>1, <2>5
    <3>2. /\ SubSeq(file, b + 1, b + k) \in Seq(Seq(S)) /\ Len(SubSeq(file, b + 1, b + k)) = k
          /\ \A i \in 1 .. k : SubSeq(file, b + 1, b + k)[i] = file[b + i]
      BY <2>1, <2>5, <3>1, PartsOfASequence
    <3> HIDE DEF all
    <3>3. k \in 0 .. Len(all)
      BY <2>1, <2>5, <2>8
    <3>4. /\ SubSeq(all, 1, k) \in Seq(Seq(S)) /\ Len(SubSeq(all, 1, k)) = k
          /\ \A i \in 1 .. k : SubSeq(all, 1, k)[i] = all[i]
      BY <2>8, <3>3
    <3>5. \A i \in 1 .. k : all[i] = file[b + i]
      BY <2>1, <2>5, <2>8
    <3> QED
      BY <3>2, <3>4, <3>5, SeqEqual
  <2> HIDE DEF all
  <2>10. /\ k \in 0 .. Len(all) /\ Len(all) \in Nat /\ DOMAIN all = 1 .. Len(all)
         /\ \A i \in 1 .. k : Len(all[i]) <= MaxBytes
         /\ \A i \in 1 .. Len(all) : Len(all[i]) \in Nat /\ (Len(all[i]) > MaxBytes => i > k)
    <3>1. k \in 0 .. Len(all) /\ Len(all) \in Nat
      BY <2>1, <2>5, <2>8
    <3>2. \A i \in 1 .. k : Len(all[i]) <= MaxBytes
      <4>1. \A i \in 1 .. k : i \in 1 .. N - b
        BY <2>1, <2>5
      <4> QED
        BY <2>3, <2>8, <4>1
    <3>3. \A i \in 1 .. Len(all) : Len(all[i]) \in Nat
      BY <2>8
    <3>4. MaxBytes \in Nat /\ DOMAIN all = 1 .. Len(all)
      BY <2>8, LimitAssumption
    <3>5. ASSUME NEW i \in 1 .. Len(all), Len(all[i]) > MaxBytes PROVE i > k
      <4>1. i \notin 1 .. k
        BY <3>2, <3>3, <3>4, <3>5
      <4> QED
        BY <3>1, <4>1
    <3> QED
      BY <3>1, <3>2, <3>3, <3>4, <3>5
  <2>11. CASE r.end = "file"
    <3>1. k = Len(all)
      BY <2>1, <2>3, <2>5, <2>8, <2>11
    <3>2. WideLines(all) = {}
      <4>1. ASSUME NEW i \in WideLines(all) PROVE FALSE
        <5>1. i \in 1 .. Len(all) /\ Len(all[i]) > MaxBytes
          BY <2>10 DEF WideLines
        <5> QED
          BY <2>10, <3>1, <5>1
      <4> QED
        BY <4>1
    <3>3. NoticesLeadTo(all) = all
      BY <2>8, <3>2, NoticesLeadToTheEnd
    <3>4. r.shown = all /\ IsPrefix(all, all)
      <4>1. r.shown = SubSeq(all, 1, k) /\ SubSeq(all, 1, k) = all
        BY <2>3, <2>8, <2>9, <2>11, <3>1, SubSeqFull
      <4>2. IsPrefix(SubSeq(all, 1, k), all)
        BY <2>8, <2>10, PrefixOf
      <4> QED
        BY <4>1, <4>2
    <3> QED
      BY <1>2, <2>11, <3>2, <3>3, <3>4 DEF PagesAreTheFile, r, all
  <2>12. CASE r.end = "line"
    <3>1. k + 1 \in 1 .. Len(all) /\ all[k + 1] = file[b + k + 1] /\ (k + 1) - 1 = k
      <4>1. k + 1 \in 1 .. N - b /\ b + (k + 1) = b + k + 1 /\ (k + 1) - 1 = k
        BY <2>1, <2>3, <2>5, <2>12
      <4> QED
        BY <2>8, <4>1
    <3>2. Len(all[k + 1]) > MaxBytes
      BY <2>3, <2>12, <3>1
    <3>3. /\ WideLines(all) # {}
          /\ NoticesLeadTo(all) = Append(SubSeq(all, 1, k), HeadOfLine(all[k + 1]))
      BY <2>8, <2>10, <3>1, <3>2, NoticesLeadToALine
    <3>4. r.shown = NoticesLeadTo(all)
      BY <2>3, <2>9, <2>12, <3>1, <3>3
    <3>5. IsPrefix(r.shown, r.shown)
      <4> DEFINE t == Append(SubSeq(all, 1, k), HeadOfLine(all[k + 1]))
      <4>1. SubSeq(all, 1, k) \in Seq(Seq(S))
        BY <2>8, <2>10
      <4>2. HeadOfLine(all[k + 1]) \in Seq(S)
        BY <2>8, <3>1, <3>2, HeadOfALine
      <4>3. t \in Seq(Seq(S))
        BY <4>1, <4>2
      <4> HIDE DEF t
      <4>4. Len(t) \in 0 .. Len(t) /\ SubSeq(t, 1, Len(t)) = t
        BY <4>3, SubSeqFull
      <4>5. IsPrefix(t, t)
        BY <4>3, <4>4, PrefixOf
      <4> QED
        BY <3>3, <3>4, <4>5 DEF t
    <3> QED
      BY <1>2, <2>12, <3>3, <3>4, <3>5 DEF PagesAreTheFile, r, all
  <2>13. CASE r.end = "none"
    <3>1. r.shown = SubSeq(all, 1, k)
      BY <2>3, <2>9, <2>13
    <3>2. ~(Len(limits) >= Len(file))
      BY <2>7, <2>13
    <3>3. IsPrefix(SubSeq(all, 1, k), NoticesLeadTo(all))
      <4>1. CASE WideLines(all) = {}
        BY <2>8, <2>10, <4>1, NoticesLeadToTheEnd, PrefixOf
      <4>2. CASE WideLines(all) # {}
        <5>1. WideLines(all) \subseteq Nat
          BY <2>10 DEF WideLines
        <5>2. PICK w \in WideLines(all) : \A j \in WideLines(all) : w <= j
          BY <4>2, <5>1, LeastNat
        <5>3. w \in 1 .. Len(all) /\ Len(all[w]) > MaxBytes /\ w > k
          BY <2>10 DEF WideLines
        <5>4. \A i \in 1 .. w - 1 : Len(all[i]) <= MaxBytes
          <6> SUFFICES ASSUME NEW i \in 1 .. w - 1, ~(Len(all[i]) <= MaxBytes)
                       PROVE  FALSE
            OBVIOUS
          <6>1. i \in 1 .. Len(all) /\ ~(w <= i)
            BY <2>10, <5>3
          <6>2. Len(all[i]) > MaxBytes
            BY <2>10, <6>1, LimitAssumption
          <6> QED
            BY <2>10, <5>2, <6>1, <6>2 DEF WideLines
        <5>5. NoticesLeadTo(all) = Append(SubSeq(all, 1, w - 1), HeadOfLine(all[w]))
          BY <2>8, <5>3, <5>4, NoticesLeadToALine
        <5> DEFINE s == SubSeq(all, 1, w - 1)
                   e == HeadOfLine(all[w])
        <5>6. w - 1 \in 0 .. Len(all) /\ k \in 0 .. w - 1
          BY <2>5, <2>10, <5>3
        <5>7. s \in Seq(Seq(S)) /\ Len(s) = w - 1 /\ \A i \in 1 .. w - 1 : s[i] = all[i]
          BY <2>8, <5>6
        <5>8. e \in Seq(S)
          BY <2>8, <5>3, HeadOfALine
        <5> HIDE DEF s, e
        <5>9. /\ Append(s, e) \in Seq(Seq(S)) /\ Len(Append(s, e)) = Len(s) + 1
              /\ \A i \in 1 .. Len(s) : Append(s, e)[i] = s[i]
          BY <5>7, <5>8
        <5>10. SubSeq(all, 1, k) = SubSeq(Append(s, e), 1, k)
          <6> DEFINE u == Append(s, e)
          <6>1. u \in Seq(Seq(S)) /\ k \in 0 .. Len(u) /\ \A i \in 1 .. k : u[i] = all[i]
            BY <5>6, <5>7, <5>9
          <6> HIDE DEF u
          <6>2. /\ SubSeq(u, 1, k) \in Seq(Seq(S)) /\ Len(SubSeq(u, 1, k)) = k
                /\ \A i \in 1 .. k : SubSeq(u, 1, k)[i] = u[i]
            BY <6>1
          <6>3. /\ SubSeq(all, 1, k) \in Seq(Seq(S)) /\ Len(SubSeq(all, 1, k)) = k
                /\ \A i \in 1 .. k : SubSeq(all, 1, k)[i] = all[i]
            BY <2>8, <2>10
          <6>4. SubSeq(all, 1, k) = SubSeq(u, 1, k)
            BY <6>1, <6>2, <6>3, SeqEqual
          <6> QED
            BY <6>4 DEF u
        <5>11. k \in 0 .. Len(Append(s, e))
          BY <5>6, <5>7, <5>9
        <5>12. IsPrefix(SubSeq(Append(s, e), 1, k), Append(s, e))
          BY <5>9, <5>11, PrefixOf
        <5> QED
          BY <5>5, <5>10, <5>12 DEF s, e
      <4> QED
        BY <4>1, <4>2
    <3> QED
      BY <1>2, <2>13, <3>1, <3>2, <3>3 DEF PagesAreTheFile, r, all
  <2> QED
    BY <2>4, <2>11, <2>12, <2>13
<1> QED
  BY <1>1, <1>2

-----------------------------------------------------------------------------
\* The first lines of a text.
LEMMA FirstLinesAre ==
  ASSUME NEW S, NEW lines \in Seq(Seq(S)), NEW n \in Nat
  PROVE  \E k \in 0 .. Len(lines) :
           /\ FirstLines(lines, n) = SubSeq(lines, 1, k)
           /\ k = IF n < Len(lines) THEN n ELSE Len(lines)
BY DEF FirstLines

\* What a result of find or ls may be, of which k are shown, for output that is
\* the first m of the paths.
LEMMA FoundCut ==
  ASSUME NEW S, NEW output \in Seq(Seq(S)), NEW limit \in Nat, limit # 0
  PROVE  \E k \in 0 .. Len(output) : Cut(output, limit, Found(output, limit), k)
<1>1. CASE output = <<>>
  <2> DEFINE t == Found(output, limit)
  <2>1. t = [lines |-> <<>>, by |-> "none", edge |-> FALSE]
    BY <1>1 DEF Found
  <2>2. Len(output) = 0 /\ SubSeq(output, 1, 0) = <<>> /\ BytesOfFirst(output)[0] = 0
    <3>1. BytesOfFirst(output)[0] = 0
      BY ByteCounts
    <3>2. Len(output) = 0 /\ SubSeq(output, 1, 0) = <<>>
      BY <1>1
    <3> QED
      BY <3>1, <3>2
  <2> HIDE DEF t
  <2>3. t.lines = <<>> /\ t.by = "none" /\ t.edge = FALSE
    BY <2>1
  <2>4. 0 \in 0 .. Len(output) /\ 0 <= limit /\ 0 <= MaxBytes
    BY <2>2, LimitAssumption
  <2>5. Cut(output, limit, t, 0)
    BY <1>1, <2>2, <2>3, <2>4 DEF Cut
  <2> QED
    BY <2>4, <2>5 DEF t
<1>2. CASE output # <<>>
  BY <1>2, HeadTruncation DEF Found
<1> QED
  BY <1>1, <1>2

\* What the first lines of an output take on stdout.
LEMMA StdoutOfFirst ==
  ASSUME NEW S, NEW lines \in Seq(Seq(S)), NEW i \in 1 .. Len(lines)
  PROVE  /\ FirstLines(lines, i) = SubSeq(lines, 1, i)
         /\ StdoutBytes(FirstLines(lines, i)) = BytesOfFirst(lines)[i] + 1
<1>1. i \in 0 .. Len(lines) /\ i # 0 /\ (IF i < Len(lines) THEN i ELSE Len(lines)) = i
  OBVIOUS
<1>2. FirstLines(lines, i) = SubSeq(lines, 1, i)
  BY <1>1 DEF FirstLines
<1>3. /\ Len(SubSeq(lines, 1, i)) = i
      /\ ByteCount(SubSeq(lines, 1, i)) = BytesOfFirst(lines)[i]
  BY <1>1, BytesOfSome
<1>4. SubSeq(lines, 1, i) # <<>>
  <2>1. Len(<<>>) = 0
    OBVIOUS
  <2> QED
    BY <1>1, <1>3, <2>1, Zenon
<1> QED
  BY <1>2, <1>3, <1>4 DEF StdoutBytes

\* What is captured is the first lines of the output, and with any other line the
\* output is over the cap.
LEMMA CapturedAre ==
  ASSUME NEW S, NEW lines \in Seq(Seq(S)), NEW output \in Captured(lines)
  PROVE  \E m \in 0 .. Len(lines) :
           /\ output = SubSeq(lines, 1, m)
           /\ \A i \in m + 1 .. Len(lines) : StdoutBytes(FirstLines(lines, i)) > OutCap
<1> DEFINE N == Len(lines)
           count == BytesOfFirst(lines)
<1>1. N \in Nat /\ OutCap \in Nat
  BY CaptureAssumption
<1>2. CASE StdoutBytes(lines) < OutCap
  <2>1. output = lines
    BY <1>2 DEF Captured
  <2>2. SubSeq(lines, 1, N) = lines /\ N \in 0 .. N /\ N + 1 .. N = {}
    BY <1>1, SubSeqFull
  <2> QED
    BY <2>1, <2>2
<1>3. CASE ~(StdoutBytes(lines) < OutCap)
  <2>1. PICK k \in 1 .. N, collected \in OutCap .. StdoutBytes(lines) :
          /\ output = FirstLines(lines, k)
          /\ k < N => StdoutBytes(FirstLines(lines, k + 1)) > collected
    BY <1>3 DEF Captured
  <2>2. k \in 0 .. N /\ k \in Nat /\ output = SubSeq(lines, 1, k) /\ collected \in Int /\ collected >= OutCap
    BY <1>1, <2>1, StdoutOfFirst
  <2>3. ASSUME NEW i \in k + 1 .. N PROVE StdoutBytes(FirstLines(lines, i)) > OutCap
    <3>1. k < N /\ k + 1 \in 1 .. N /\ k + 1 \in 0 .. N /\ i \in 1 .. N /\ i \in 0 .. N /\ i \in k + 1 .. N
      BY <1>1, <2>2
    <3>2. count[k + 1] + 1 > collected
      BY <2>1, <3>1, StdoutOfFirst
    <3>3. count[k + 1] <= count[i]
      BY <3>1, BytesGrow
    <3>4. count[k + 1] \in Nat /\ count[i] \in Nat
      BY <3>1, ByteCounts
    <3>5. StdoutBytes(FirstLines(lines, i)) = count[i] + 1
      BY <3>1, StdoutOfFirst
    <3> HIDE DEF count
    <3> QED
      BY <1>1, <2>2, <3>2, <3>3, <3>4, <3>5
  <2> QED
    BY <2>2, <2>3
<1> QED
  BY <1>2, <1>3

\* Of output of which something is missing at the capture's cap, something is
\* missing from the result.
LEMMA CapturedIsCut ==
  ASSUME NEW S, NEW lines \in Seq(Seq(S)),
         \A i \in 1 .. Len(lines) : Len(lines[i]) <= PathBytes,
         NEW output \in Captured(lines)
  PROVE  \E m \in 0 .. Len(lines) :
           /\ output = SubSeq(lines, 1, m)
           /\ m < Len(lines) => BytesOfFirst(lines)[m] > MaxBytes
<1> DEFINE N == Len(lines)
           count == BytesOfFirst(lines)
<1>1. /\ N \in Nat /\ MaxBytes \in Nat /\ PathBytes \in Nat /\ OutCap \in Nat
      /\ OutCap > MaxBytes + PathBytes + 1
  BY LimitAssumption, FindAssumption, CaptureAssumption
<1>2. PICK m \in 0 .. N :
        /\ output = SubSeq(lines, 1, m)
        /\ \A i \in m + 1 .. N : StdoutBytes(FirstLines(lines, i)) > OutCap
  BY CapturedAre
<1>3. ASSUME m < N PROVE count[m] > MaxBytes
  <2>1. m + 1 \in 1 .. N /\ m + 1 \in m + 1 .. N /\ (m + 1) - 1 = m /\ m \in 0 .. N
    BY <1>1, <1>3
  <2>2. count[m + 1] + 1 > OutCap
    BY <1>2, <2>1, StdoutOfFirst
  <2>3. /\ count[m + 1] = count[m] + (IF m + 1 = 1 THEN 0 ELSE 1) + Len(lines[m + 1])
        /\ count[m] \in Nat
    BY <2>1, ByteCounts
  <2>4. Len(lines[m + 1]) \in Nat /\ Len(lines[m + 1]) <= PathBytes
    BY <2>1
  <2> DEFINE before == count[m]
             after == count[m + 1]
             bytes == Len(lines[m + 1])
  <2>5. after = before + 0 + bytes \/ after = before + 1 + bytes
    BY <2>3
  <2>6. before \in Nat /\ bytes \in Nat /\ bytes <= PathBytes /\ after + 1 > OutCap
    BY <2>2, <2>3, <2>4
  <2> HIDE DEF before, after, bytes
  <2>7. before > MaxBytes
    BY <1>1, <2>5, <2>6
  <2> QED
    BY <2>7 DEF before
<1> QED
  BY <1>2, <1>3

\* What find passes on of any paths no longer than a path may be.
FoundAll(paths, limit, result) ==
  /\ IsPrefix(result.lines, paths)
  /\ (result.by # "none") = (result.lines # paths)
  /\ result.by = "lines" => Len(result.lines) = limit /\ Len(paths) > limit

\* Every result of find is the first of the paths, and says whether any is missing.
LEMMA FindFinds ==
  ASSUME NEW S, NEW paths \in Seq(Seq(S)),
         \A i \in 1 .. Len(paths) : Len(paths[i]) <= PathBytes,
         NEW limit \in Int, NEW result \in FindPaths(paths, limit)
  PROVE  FoundAll(paths, EffectiveLimit(limit), result)
<1> DEFINE L == EffectiveLimit(limit)
           N == Len(paths)
           printed == Printed(paths, L)
<1>1. L \in Nat /\ L # 0 /\ N \in Nat
  BY Limits
<1> HIDE DEF L
<1>2. PICK p \in 0 .. N : /\ printed = SubSeq(paths, 1, p)
                          /\ p = IF L + 1 < N THEN L + 1 ELSE N
  <2>1. L + 1 \in Nat
    BY <1>1
  <2> QED
    BY <2>1, FirstLinesAre DEF Printed
<1>3. PICK output \in Captured(printed) : result = Found(output, L)
  BY DEF FindPaths, L
<1> HIDE DEF printed
<1>4. /\ printed \in Seq(Seq(S)) /\ Len(printed) = p /\ p \in Nat
      /\ \A i \in 1 .. p : printed[i] = paths[i] /\ i \in 1 .. N
  BY <1>1, <1>2
<1>5. PICK m \in 0 .. p :
        /\ output = SubSeq(printed, 1, m)
        /\ m < p => BytesOfFirst(printed)[m] > MaxBytes
  <2>1. \A i \in 1 .. Len(printed) : Len(printed[i]) <= PathBytes
    BY <1>4
  <2> QED
    BY <1>4, <2>1, CapturedIsCut
<1>6. /\ output \in Seq(Seq(S)) /\ Len(output) = m /\ m \in Nat /\ m <= p /\ p <= N
      /\ ByteCount(output) = BytesOfFirst(printed)[m]
      /\ output = SubSeq(paths, 1, m)
  <2>1. m \in 0 .. Len(printed)
    BY <1>4, <1>5
  <2>2. /\ SubSeq(printed, 1, m) \in Seq(Seq(S)) /\ Len(SubSeq(printed, 1, m)) = m
        /\ ByteCount(SubSeq(printed, 1, m)) = BytesOfFirst(printed)[m]
    BY <1>4, <2>1, BytesOfSome
  <2>3. SubSeq(SubSeq(paths, 1, p), 1, m) = SubSeq(paths, 1, m)
    BY <1>1, <1>2, <1>5
  <2> QED
    BY <1>1, <1>2, <1>4, <1>5, <2>2, <2>3
<1>7. PICK k \in 0 .. m : Cut(output, L, result, k)
  BY <1>1, <1>3, <1>6, FoundCut
<1>8. /\ k \in Nat /\ k <= m /\ result.lines = SubSeq(output, 1, k)
      /\ result.by \in {"none", "lines", "bytes"}
      /\ (result.by = "none" <=> k = m)
      /\ (result.by = "lines" => k = L)
      /\ BytesOfFirst(output)[k] <= MaxBytes
  BY <1>6, <1>7 DEF Cut
<1>9. result.lines = SubSeq(paths, 1, k) /\ k \in 0 .. N
  BY <1>1, <1>6, <1>8
<1>10. IsPrefix(result.lines, paths) /\ Len(result.lines) = k /\ (result.lines = paths <=> k = N)
  BY <1>9, PrefixOf
<1>11. k = m => m = p
  <2> SUFFICES ASSUME k = m, m # p
               PROVE  FALSE
    OBVIOUS
  <2>1. m < p
    BY <1>4, <1>6
  <2>2. ByteCount(output) > MaxBytes /\ ByteCount(output) = BytesOfFirst(output)[k]
    BY <1>5, <1>6, <2>1 DEF ByteCount
  <2>3. BytesOfFirst(output)[k] \in Nat /\ MaxBytes \in Nat
    <3>1. k \in 0 .. Len(output)
      BY <1>6
    <3> QED
      BY <1>6, <3>1, ByteCounts, LimitAssumption
  <2> QED
    BY <1>8, <2>2, <2>3
<1>12. k = m <=> k = N
  <2>1. k = N => k = m
    BY <1>1, <1>6, <1>8
  <2>2. k = m => k <= L
    BY <1>1, <1>7, <1>8 DEF Cut
  <2>3. k = m /\ k <= L => k = N
    BY <1>1, <1>2, <1>6, <1>8, <1>11
  <2> QED
    BY <2>1, <2>2, <2>3
<1>13. result.by = "lines" => Len(result.lines) = L /\ N > L
  <2>1. result.by = "lines" => k = L /\ k # m
    BY <1>8
  <2>2. k = L /\ k # m => N > L
    BY <1>1, <1>6, <1>8
  <2> QED
    BY <1>10, <2>1, <2>2
<1> QED
  BY <1>8, <1>10, <1>12, <1>13 DEF FoundAll, L

\* No path that matches is missing from what find shows unless it says so, and its
\* notice of the limit is exact.
THEOREM FindReportsOmissions ==
  ASSUME NEW S, NEW paths \in Seq(Seq(S)),
         \A i \in 1 .. Len(paths) : Len(paths[i]) <= PathBytes, NEW limit \in Int
  PROVE  MissingPathsAreReported(paths, limit) /\ LimitNoticeIsExact(paths, limit)
<1>1. \A result \in FindPaths(paths, limit) : FoundAll(paths, EffectiveLimit(limit), result)
  BY FindFinds
<1> QED
  BY <1>1 DEF MissingPathsAreReported, LimitNoticeIsExact, FoundAll

\* The same of the entries of a directory, and twice the limit shows more of them.
THEOREM LsReportsOmissions ==
  ASSUME NEW S, NEW entries \in Seq(Seq(S)), NEW limit \in Int
  PROVE  MissingEntriesAreReported(entries, limit)
<1> DEFINE L == EffectiveLimit(limit)
           N == Len(entries)
           result == ListEntries(entries, limit)
           next == ListEntries(entries, 2 * L)
<1>1. L \in Nat /\ L # 0 /\ N \in Nat
  BY Limits
<1> HIDE DEF L
<1>2. 2 * L \in Int /\ EffectiveLimit(2 * L) = 2 * L /\ 2 * L \in Nat /\ 2 * L # 0 /\ 2 * L > L
  BY <1>1 DEF EffectiveLimit
<1>3. PICK k \in 0 .. N : Cut(entries, L, result, k)
  BY <1>1, FoundCut DEF ListEntries, L
<1>4. PICK j \in 0 .. N : Cut(entries, 2 * L, next, j)
  BY <1>1, <1>2, FoundCut DEF ListEntries
<1> HIDE DEF result, next
<1>5. /\ result.lines = SubSeq(entries, 1, k) /\ (result.by = "none" <=> k = N)
      /\ (result.by = "lines" => k = L)
  BY <1>3 DEF Cut
<1>6. /\ next.lines = SubSeq(entries, 1, j) /\ (next.by = "none" <=> j = N)
      /\ (next.by = "lines" => j = 2 * L) /\ next.by \in {"none", "lines", "bytes"}
  BY <1>4 DEF Cut
<1>7. IsPrefix(result.lines, entries) /\ Len(result.lines) = k /\ (result.lines = entries <=> k = N)
  BY <1>5, PrefixOf
<1>8. Len(next.lines) = j
  BY <1>6, PrefixOf
<1>9. result.by = "lines" => j > k \/ next.by = "bytes"
  <2> SUFFICES ASSUME result.by = "lines", next.by # "bytes"
               PROVE  j > k
    OBVIOUS
  <2>1. k = L /\ k # N /\ (j = N \/ j = 2 * L)
    BY <1>5, <1>6
  <2> QED
    BY <1>1, <1>2, <2>1
<1>10. (result.by # "none") = (result.lines # entries)
  BY <1>5, <1>7
<1> QED
  BY <1>7, <1>8, <1>9, <1>10 DEF MissingEntriesAreReported, result, next, L

-----------------------------------------------------------------------------
\* What the parser of rg's output may have collected.
ParsingsOf == [lines : Seq(Nat), truncated : BOOLEAN, matches : Nat]

NothingParsed == [lines |-> <<>>, truncated |-> FALSE, matches |-> 0]

\* One event more leaves the parser in one of its states.
LEMMA ParseType ==
  ASSUME NEW events, NEW limit, NEW r \in ParsingsOf, NEW i \in Nat
  PROVE  ParseEvent(events, limit, r, i) \in ParsingsOf
<1>1. r.lines \in Seq(Nat) /\ r.truncated \in BOOLEAN /\ r.matches \in Nat
  BY DEF ParsingsOf
<1>2. \A b : r.matches + (IF b THEN 1 ELSE 0) \in Nat
  BY <1>1
<1>3. Append(r.lines, i) \in Seq(Nat)
  BY <1>1
<1> QED
  BY <1>1, <1>2, <1>3 DEF ParseEvent, ParsingsOf

\* The parser takes one event after the other.
LEMMA ParsingsFollow ==
  ASSUME NEW events \in Seq(Events), NEW limit \in Nat
  PROVE  /\ Parsings(events, limit)[0] = NothingParsed
         /\ \A n \in 1 .. Len(events) :
              Parsings(events, limit)[n] =
                ParseEvent(events, limit, Parsings(events, limit)[n - 1], n)
<1> DEFINE N == Len(events)
           A == ParsingsOf
           Step(r, n) == ParseEvent(events, limit, r, n)
           step == [p \in A \X (1 .. N) |-> Step(p[1], p[2])]
           Right(f) == f = [n \in 0 .. N |-> IF n = 0 THEN NothingParsed ELSE Step(f[n - 1], n)]
           parsing == Parsings(events, limit)
<1>1. /\ N \in Nat /\ 0 \in 0 .. N
      /\ \A n \in 1 .. N : n \in Nat /\ n - 1 \in 0 .. N /\ n \in 0 .. N
  OBVIOUS
<1>2. NothingParsed \in A
  BY DEF NothingParsed, ParsingsOf
<1> HIDE DEF N
<1>3. ASSUME NEW r \in A, NEW n \in 1 .. N PROVE Step(r, n) \in A
  BY <1>1, ParseType
<1>4. parsing = CHOOSE f : Right(f)
  BY DEF Parsings, N, NothingParsed
<1> HIDE DEF Step, parsing, A
<1>5. step \in [A \X (1 .. N) -> A]
  BY <1>3
<1>6. PICK f \in [0 .. N -> A] : Recurses(f, NothingParsed, step, N)
  <2> HIDE DEF step
  <2> QED
    BY <1>1, <1>2, <1>5, Recursion
<1>7. Right(f)
  <2>1. ASSUME NEW n \in 0 .. N
        PROVE  f[n] = IF n = 0 THEN NothingParsed ELSE Step(f[n - 1], n)
    <3>1. CASE n = 0
      BY <1>6, <3>1 DEF Recurses
    <3>2. CASE n # 0
      <4>1. n \in 1 .. N /\ f[n - 1] \in A
        BY <1>1, <1>6, <3>2
      <4> QED
        BY <1>6, <3>2, <4>1 DEF Recurses
    <3> QED
      BY <3>1, <3>2
  <2> QED
    BY <1>6, <2>1
<1>8. Right(parsing)
  <2> HIDE DEF Right
  <2> QED
    BY <1>4, <1>7
<1>9. parsing[0] = NothingParsed /\ \A n \in 1 .. N : parsing[n] = Step(parsing[n - 1], n)
  BY <1>1, <1>8
<1> QED
  BY <1>9 DEF Step, N, parsing

\* The matches among the first n events that can be read.
MatchesUpto(events, n) ==
  {i \in 1 .. n : events[i].kind = "match" /\ Parses(events[i])}

\* An event adds at most itself to the matches that can be read.
LEMMA MatchesGrow ==
  ASSUME NEW events, NEW n \in Nat
  PROVE  /\ IsFiniteSet(MatchesUpto(events, n)) /\ Cardinality(MatchesUpto(events, n)) \in Nat
         /\ events[n + 1].kind = "match" /\ Parses(events[n + 1]) =>
              /\ MatchesUpto(events, n + 1) = MatchesUpto(events, n) \union {n + 1}
              /\ Cardinality(MatchesUpto(events, n + 1)) = Cardinality(MatchesUpto(events, n)) + 1
         /\ ~(events[n + 1].kind = "match" /\ Parses(events[n + 1])) =>
              MatchesUpto(events, n + 1) = MatchesUpto(events, n)
<1>1. IsFiniteSet(MatchesUpto(events, n)) /\ Cardinality(MatchesUpto(events, n)) \in Nat
  <2>1. MatchesUpto(events, n) \subseteq 1 .. n /\ IsFiniteSet(1 .. n)
    BY FS_Interval DEF MatchesUpto
  <2>2. IsFiniteSet(MatchesUpto(events, n))
    BY <2>1, FS_Subset
  <2> QED
    BY <2>2, FS_CardinalityType
<1>2. 1 .. n + 1 = (1 .. n) \union {n + 1} /\ n + 1 \notin 1 .. n
  OBVIOUS
<1>3. ASSUME events[n + 1].kind = "match", Parses(events[n + 1])
      PROVE  /\ MatchesUpto(events, n + 1) = MatchesUpto(events, n) \union {n + 1}
             /\ Cardinality(MatchesUpto(events, n + 1)) = Cardinality(MatchesUpto(events, n)) + 1
  <2>1. MatchesUpto(events, n + 1) = MatchesUpto(events, n) \union {n + 1}
    BY <1>2, <1>3 DEF MatchesUpto
  <2>2. n + 1 \notin MatchesUpto(events, n)
    BY <1>2 DEF MatchesUpto
  <2> QED
    BY <1>1, <2>1, <2>2, FS_AddElement
<1>4. ASSUME ~(events[n + 1].kind = "match" /\ Parses(events[n + 1]))
      PROVE  MatchesUpto(events, n + 1) = MatchesUpto(events, n)
  BY <1>2, <1>4 DEF MatchesUpto
<1> QED
  BY <1>1, <1>3, <1>4

\* What has been collected after n events.
Parsed(events, limit, r, n) ==
  /\ r.lines \in Seq(1 .. n)
  /\ r.matches \in Nat /\ r.matches <= limit /\ r.matches <= Len(r.lines)
  /\ r.truncated \in BOOLEAN
  /\ ~r.truncated =>
       /\ Cardinality(MatchesUpto(events, n)) = r.matches
       /\ \A i \in MatchesUpto(events, n) : \E m \in DOMAIN r.lines : r.lines[m] = i
  /\ r.truncated => r.matches = limit /\ Cardinality(MatchesUpto(events, n)) > limit

\* What the parser has made of the events is explained after one event more.
LEMMA ParsingOne ==
  ASSUME NEW events \in Seq(Events), NEW limit \in Nat, NEW n \in Nat, NEW r,
         Parsed(events, limit, r, n)
  PROVE  Parsed(events, limit, ParseEvent(events, limit, r, n + 1), n + 1)
<1> DEFINE e == events[n + 1]
           next == ParseEvent(events, limit, r, n + 1)
           old == MatchesUpto(events, n)
           new == MatchesUpto(events, n + 1)
<1> SUFFICES Parsed(events, limit, next, n + 1)
  OBVIOUS
<1>1. /\ r.lines \in Seq(1 .. n) /\ r.matches \in Nat /\ r.matches <= limit
      /\ r.matches <= Len(r.lines) /\ r.truncated \in BOOLEAN
  BY DEF Parsed
<1>2. /\ Cardinality(old) \in Nat
      /\ e.kind = "match" /\ Parses(e) =>
           new = old \union {n + 1} /\ Cardinality(new) = Cardinality(old) + 1
      /\ ~(e.kind = "match" /\ Parses(e)) => new = old
  BY MatchesGrow
<1>3. /\ ~r.truncated =>
           /\ Cardinality(old) = r.matches
           /\ \A i \in old : \E m \in DOMAIN r.lines : r.lines[m] = i
      /\ r.truncated => r.matches = limit /\ Cardinality(old) > limit
  BY DEF Parsed
<1>4. r.lines \in Seq(1 .. n + 1) /\ Len(r.lines) \in Nat
  BY <1>1
<1> HIDE DEF old, new, e
<1>5. CASE r.truncated
  <2>1. next = r
    BY <1>5 DEF ParseEvent
  <2>2. Cardinality(new) > limit
    BY <1>2, <1>3, <1>5
  <2> HIDE DEF next
  <2> QED
    BY <1>1, <1>3, <1>4, <1>5, <2>1, <2>2 DEF Parsed, new
<1>6. CASE ~r.truncated /\ ~Parses(e)
  <2>1. next = r
    BY <1>6 DEF ParseEvent, e
  <2> HIDE DEF next
  <2> QED
    BY <1>1, <1>2, <1>3, <1>4, <1>6, <2>1 DEF Parsed, new
<1>7. CASE ~r.truncated /\ Parses(e) /\ e.kind = "match" /\ r.matches >= limit
  <2>1. next = [lines |-> r.lines, truncated |-> TRUE, matches |-> r.matches]
    BY <1>7 DEF ParseEvent, e
  <2> HIDE DEF next
  <2>2. next.lines = r.lines /\ next.truncated = TRUE /\ next.matches = r.matches
    BY <2>1
  <2>3. r.matches = limit
    BY <1>1, <1>7
  <2>4. Cardinality(new) = r.matches + 1
    BY <1>2, <1>3, <1>7
  <2>5. Cardinality(new) > limit
    BY <2>3, <2>4
  <2> QED
    BY <1>1, <1>4, <2>2, <2>3, <2>5 DEF Parsed, new
<1>8. CASE ~r.truncated /\ Parses(e) /\ ~(e.kind = "match" /\ r.matches >= limit)
  <2> DEFINE more == IF e.kind = "match" THEN 1 ELSE 0
  <2>1. next = [lines |-> Append(r.lines, n + 1), truncated |-> FALSE, matches |-> r.matches + more]
    BY <1>8 DEF ParseEvent, e
  <2> HIDE DEF next
  <2>2. /\ next.lines = Append(r.lines, n + 1) /\ next.truncated = FALSE
        /\ next.matches = r.matches + more
    BY <2>1
  <2>3. n + 1 \in 1 .. n + 1
    OBVIOUS
  <2>4. /\ next.lines \in Seq(1 .. n + 1) /\ Len(next.lines) = Len(r.lines) + 1
        /\ next.lines[Len(r.lines) + 1] = n + 1
        /\ \A m \in 1 .. Len(r.lines) : next.lines[m] = r.lines[m]
    BY <1>4, <2>2, <2>3
  <2>5. next.matches \in Nat /\ next.matches <= limit /\ next.matches <= Len(next.lines)
    <3>1. e.kind = "match" => r.matches < limit
      BY <1>1, <1>8
    <3>2. more \in {0, 1} /\ (more = 1 => r.matches < limit)
      BY <3>1
    <3> HIDE DEF more
    <3> QED
      BY <1>1, <1>4, <2>2, <2>4, <3>2
  <2>6. Cardinality(new) = next.matches
    <3>1. CASE e.kind = "match"
      BY <1>2, <1>3, <1>8, <2>2, <3>1
    <3>2. CASE e.kind # "match"
      <4>1. r.matches + 0 = r.matches
        BY <1>1
      <4> QED
        BY <1>2, <1>3, <1>8, <2>2, <3>2, <4>1
    <3> QED
      BY <3>1, <3>2
  <2>7. ASSUME NEW i \in new PROVE \E m \in DOMAIN next.lines : next.lines[m] = i
    <3>1. DOMAIN next.lines = 1 .. Len(r.lines) + 1 /\ DOMAIN r.lines = 1 .. Len(r.lines)
      BY <1>4, <2>4
    <3>2. i \in old \/ i = n + 1
      BY <1>2, <2>7
    <3>3. CASE i = n + 1
      <4>1. Len(r.lines) + 1 \in DOMAIN next.lines
        BY <1>4, <3>1
      <4> QED
        BY <2>4, <3>3, <4>1
    <3>4. CASE i \in old
      <4>1. PICK m \in DOMAIN r.lines : r.lines[m] = i
        BY <1>3, <1>8, <3>4
      <4>2. m \in 1 .. Len(r.lines)
        BY <3>1, <4>1
      <4>3. next.lines[m] = i
        BY <2>4, <4>1, <4>2
      <4>4. m \in DOMAIN next.lines
        BY <1>4, <3>1, <4>2
      <4> QED
        BY <4>3, <4>4
    <3> QED
      BY <3>2, <3>3, <3>4
  <2> QED
    BY <2>2, <2>4, <2>5, <2>6, <2>7 DEF Parsed, new
<1> QED
  BY <1>1, <1>5, <1>6, <1>7, <1>8

\* What the parser makes of all of the output.
LEMMA ParsingAll ==
  ASSUME NEW events \in Seq(Events), NEW limit \in Nat
  PROVE  Parsed(events, limit, ParseOutput(events, limit), Len(events))
<1> DEFINE parsing == Parsings(events, limit)
           P == {n \in Nat : n <= Len(events) => Parsed(events, limit, parsing[n], n)}
<1>1. Len(events) \in Nat
  OBVIOUS
<1>2. /\ parsing[0] = NothingParsed
      /\ \A n \in 1 .. Len(events) : parsing[n] = ParseEvent(events, limit, parsing[n - 1], n)
  BY ParsingsFollow
<1> HIDE DEF parsing
<1>3. 0 \in P
  <2>1. MatchesUpto(events, 0) = {} /\ Cardinality({}) = 0
    BY FS_EmptySet DEF MatchesUpto
  <2>2. parsing[0].lines = <<>> /\ parsing[0].truncated = FALSE /\ parsing[0].matches = 0
    BY <1>2 DEF NothingParsed
  <2>3. <<>> \in Seq(1 .. 0) /\ Len(<<>>) = 0 /\ 0 <= limit
    OBVIOUS
  <2> DEFINE r == parsing[0]
  <2>5. /\ r.lines \in Seq(1 .. 0) /\ r.matches \in Nat /\ r.matches <= limit
        /\ r.matches <= Len(r.lines) /\ r.truncated = FALSE
        /\ Cardinality(MatchesUpto(events, 0)) = r.matches
    <3>1. r.lines = <<>> /\ r.truncated = FALSE /\ r.matches = 0
      BY <2>2
    <3> HIDE DEF r
    <3>2. r.matches \in Nat /\ r.matches <= limit
      BY <2>3, <3>1
    <3>3. r.matches <= Len(r.lines)
      BY <2>3, <3>1
    <3>4. Cardinality(MatchesUpto(events, 0)) = r.matches
      BY <2>1, <3>1
    <3> QED
      BY <2>3, <3>1, <3>2, <3>3, <3>4
  <2> HIDE DEF r
  <2>4. Parsed(events, limit, r, 0)
    BY <2>1, <2>5 DEF Parsed
  <2> QED
    BY <2>4 DEF r
<1>4. ASSUME NEW n \in Nat, n \in P PROVE n + 1 \in P
  <2> SUFFICES ASSUME n + 1 <= Len(events)
               PROVE  Parsed(events, limit, parsing[n + 1], n + 1)
    OBVIOUS
  <2>1. n + 1 \in 1 .. Len(events) /\ (n + 1) - 1 = n /\ n <= Len(events)
    BY <1>1
  <2>2. Parsed(events, limit, parsing[n], n)
    BY <1>4, <2>1
  <2> HIDE DEF P
  <2> QED
    BY <1>2, <2>1, <2>2, ParsingOne
<1>5. Nat \subseteq P
  <2> HIDE DEF P
  <2> QED
    BY <1>3, <1>4, Induction
<1>6. Parsed(events, limit, parsing[Len(events)], Len(events))
  BY <1>1, <1>5
<1> QED
  BY <1>6 DEF ParseOutput, parsing

\* Of the events that were captured, grep accounts for every match it can read.
Accounted(events, limit) ==
  LET result == Grep(events, limit)
      shown == {result.lines[n][1] : n \in DOMAIN result.lines}
  IN  /\ result.notices = {} => \A i \in Readable(events) : i \in shown /\ ~IsLong(events, i)
      /\ ("matches" \in result.notices) =
           (Cardinality(Readable(events)) > EffectiveLimit(limit))

LEMMA CapturedAreAccounted ==
  ASSUME NEW events \in Seq(Events), NEW limit \in Int
  PROVE  Accounted(events, limit)
<1> DEFINE L == EffectiveLimit(limit)
           N == Len(events)
           results == ParseOutput(events, L)
           formatted == [n \in DOMAIN results.lines |-> FormatLine(events, results.lines[n])]
           M == Len(formatted)
           t == TruncateText(formatted, "head", M)
           result == Grep(events, limit)
           shown == {result.lines[n][1] : n \in DOMAIN result.lines}
           all == Readable(events)
<1>1. L \in Nat /\ L # 0 /\ N \in Nat
  BY Limits
<1>2. Parsed(events, L, results, N)
  BY <1>1, ParsingAll
<1>3. all = MatchesUpto(events, N)
  BY DEF Readable, MatchesUpto
<1> HIDE DEF L, all
<1>4. /\ results.lines \in Seq(1 .. N) /\ results.matches \in Nat /\ results.matches <= L
      /\ results.matches <= Len(results.lines) /\ results.truncated \in BOOLEAN
      /\ ~results.truncated =>
           /\ Cardinality(all) = results.matches
           /\ \A i \in all : \E m \in DOMAIN results.lines : results.lines[m] = i
      /\ results.truncated => results.matches = L /\ Cardinality(all) > L
  <2> HIDE DEF results
  <2> QED
    BY <1>2, <1>3 DEF Parsed
<1>5. (Cardinality(all) > L) <=> results.truncated
  <2> HIDE DEF results
  <2>1. ~results.truncated => ~(Cardinality(all) > L)
    BY <1>1, <1>4
  <2> QED
    BY <1>4, <2>1
<1>6. CASE results.lines = <<>>
  <2>1. result = [lines |-> <<>>, notices |-> {}]
    BY <1>6 DEF Grep, L
  <2> HIDE DEF results, result
  <2>2. result.notices = {}
    BY <2>1
  <2>3. ~results.truncated /\ all = {}
    <3>1. Len(results.lines) = 0 /\ DOMAIN results.lines = {}
      BY <1>6
    <3>2. results.matches = 0
      BY <1>4, <3>1
    <3>3. ~results.truncated
      BY <1>1, <1>4, <3>2
    <3> QED
      BY <1>4, <3>1, <3>3
  <2> QED
    BY <1>5, <2>2, <2>3 DEF Accounted, result, L, all
<1>7. CASE results.lines # <<>>
  <2>1. result = [lines |-> t.lines, notices |-> Notices(events, results, t)]
    BY <1>7 DEF Grep, L
  <2>2. /\ DOMAIN results.lines = 1 .. Len(results.lines) /\ Len(results.lines) \in Nat
        /\ \A n \in DOMAIN results.lines : results.lines[n] \in Nat
    <3> HIDE DEF results
    <3> QED
      BY <1>1, <1>4
  <2> HIDE DEF results
  <2>3. \A i \in Nat : FormatLine(events, i) \in Seq(Nat) /\ FormatLine(events, i)[1] = i
    <3> SUFFICES ASSUME NEW i \in Nat
                 PROVE  FormatLine(events, i) \in Seq(Nat) /\ FormatLine(events, i)[1] = i
      OBVIOUS
    <3> DEFINE w == IF IsLong(events, i) THEN LineLimit + 1 ELSE 1
    <3>1. w \in Nat /\ w >= 1
      BY GrepAssumption
    <3>2. FormatLine(events, i) = [b \in 1 .. w |-> i]
      BY DEF FormatLine
    <3> HIDE DEF w
    <3>3. 1 \in 1 .. w
      BY <3>1
    <3> QED
      BY <3>1, <3>2, <3>3, IsASeq
  <2>4. /\ formatted \in Seq(Seq(Nat)) /\ M = Len(results.lines)
        /\ \A n \in DOMAIN results.lines : formatted[n][1] = results.lines[n]
    <3>1. \A n \in 1 .. Len(results.lines) : FormatLine(events, results.lines[n]) \in Seq(Nat)
      BY <2>2, <2>3
    <3>2. formatted = [n \in 1 .. Len(results.lines) |-> FormatLine(events, results.lines[n])]
      BY <2>2
    <3>3. formatted \in Seq(Seq(Nat)) /\ Len(formatted) = Len(results.lines)
      <4> HIDE DEF formatted
      <4> QED
        BY <2>2, <3>1, <3>2, IsASeq
    <3> QED
      BY <2>2, <2>3, <3>3
  <2> HIDE DEF formatted
  <2>5. M \in Nat
    BY <2>2, <2>4
  <2>6. PICK k \in 0 .. M : Cut(formatted, M, t, k)
    BY <2>4, <2>5, HeadTruncation
  <2> HIDE DEF t, result
  <2>7. result.lines = t.lines /\ result.notices = Notices(events, results, t)
    BY <2>1
  <2>8. t.by = "none" => t.lines = formatted
    BY <2>4, <2>6, SubSeqFull DEF Cut
  <2>9. ASSUME result.notices = {}, NEW i \in all PROVE i \in shown /\ ~IsLong(events, i)
    <3>1. ~results.truncated /\ t.by = "none" /\ \A j \in Range(results.lines) : ~IsLong(events, j)
      BY <1>4, <2>7, <2>9 DEF Notices
    <3>2. PICK m \in DOMAIN results.lines : results.lines[m] = i
      BY <1>4, <2>9, <3>1
    <3>3. i \in Range(results.lines)
      BY <3>2 DEF Range
    <3>4. m \in DOMAIN formatted /\ formatted[m][1] = i
      BY <2>2, <2>4, <3>2
    <3>5. result.lines = formatted
      BY <2>7, <2>8, <3>1
    <3> QED
      BY <3>1, <3>3, <3>4, <3>5
  <2>10. ("matches" \in result.notices) <=> results.truncated
    BY <2>7 DEF Notices
  <2> QED
    BY <1>5, <2>9, <2>10 DEF Accounted, L, all, result
<1> QED
  BY <1>6, <1>7

\* The lines of the events are a text.
LEMMA EventsHaveLines ==
  ASSUME NEW events \in Seq(Events)
  PROVE  JsonLines(events) \in Seq(Seq(Nat)) /\ Len(JsonLines(events)) = Len(events)
<1>1. /\ DOMAIN events = 1 .. Len(events) /\ Len(events) \in Nat
      /\ \A i \in 1 .. Len(events) : events[i] \in Events
  OBVIOUS
<1>2. \A event \in Events : event.bytes \in Nat
  BY GrepAssumption DEF Events
<1>3. ASSUME NEW i \in 1 .. Len(events) PROVE [b \in 1 .. events[i].bytes |-> i] \in Seq(Nat)
  <2> DEFINE k == events[i].bytes
  <2>1. k \in Nat /\ i \in Nat
    BY <1>1, <1>2
  <2> HIDE DEF k
  <2>2. [b \in 1 .. k |-> i] \in Seq(Nat)
    BY <2>1
  <2> QED
    BY <2>2 DEF k
<1>4. JsonLines(events) \in [1 .. Len(events) -> Seq(Nat)]
  BY <1>1, <1>3 DEF JsonLines
<1> QED
  BY <1>1, <1>4

\* grep accounts for every match that it can read in any output of rg, unless it
\* lies behind the cap of its capture.
THEOREM GrepReportsOmissions ==
  ASSUME NEW events \in Seq(Events), NEW limit \in Int
  PROVE  MatchesAreAccountedFor(events, limit)
<1> DEFINE N == Len(events)
<1> SUFFICES ASSUME NEW captured \in CapturedEvents(events)
             PROVE  LET result == Grep(captured, limit)
                        shown == {result.lines[n][1] : n \in DOMAIN result.lines}
                    IN  /\ result.notices = {} =>
                             \A i \in Readable(events) :
                               (i \in shown /\ ~IsLong(events, i)) \/ BehindCap(events, i)
                        /\ ("matches" \in result.notices) =
                             (Cardinality(Readable(captured)) > EffectiveLimit(limit))
  BY DEF MatchesAreAccountedFor
<1>1. N \in Nat /\ DOMAIN events = 1 .. N
  OBVIOUS
<1>2. JsonLines(events) \in Seq(Seq(Nat)) /\ Len(JsonLines(events)) = N
  BY EventsHaveLines
<1>3. PICK output \in Captured(JsonLines(events)) : captured = FirstLines(events, Len(output))
  BY DEF CapturedEvents
<1>4. PICK m \in 0 .. N :
        /\ output = SubSeq(JsonLines(events), 1, m)
        /\ \A i \in m + 1 .. N : StdoutBytes(FirstLines(JsonLines(events), i)) > OutCap
  BY <1>2, CapturedAre
<1>5. Len(output) = m
  BY <1>2, <1>4, BytesOfSome
<1>6. captured = SubSeq(events, 1, m)
  <2>1. N \in Nat
    BY <1>1
  <2>2. m = N \/ m < N
    <3> HIDE DEF N
    <3> QED
      BY <2>1
  <2> QED
    BY <1>3, <1>5, <2>2 DEF FirstLines
<1>7. /\ captured \in Seq(Events) /\ DOMAIN captured = 1 .. m
      /\ \A i \in 1 .. m : captured[i] = events[i]
  BY <1>1, <1>6
<1>8. ASSUME NEW i \in Readable(events), ~BehindCap(events, i)
      PROVE  i \in Readable(captured) /\ (IsLong(captured, i) <=> IsLong(events, i))
  <2>1. i \in 1 .. N /\ events[i].kind = "match" /\ Parses(events[i])
    BY <1>1 DEF Readable
  <2>2. i \notin m + 1 .. N
    BY <1>4, <1>8 DEF BehindCap
  <2>3. i \in 1 .. m
    BY <1>1, <2>1, <2>2
  <2> QED
    BY <1>7, <2>1, <2>3 DEF Readable, IsLong
<1>9. Accounted(captured, limit)
  BY <1>7, CapturedAreAccounted
<1> QED
  BY <1>8, <1>9 DEF Accounted

-----------------------------------------------------------------------------
\* The tools that a run may offer.
RunsTools ==
  [base : Bases, case : Cases, cwd : BOOLEAN, schemaCwd : BOOLEAN, fits : BOOLEAN,
   bound : BOOLEAN, owner : {"caller", "harness"}]

\* Binding a directory changes neither the names of the tools nor whether they fit.
LEMMA BindFacts ==
  ASSUME NEW tools \in Seq(Tools)
  PROVE  /\ Bind(tools) \in Seq(RunsTools) /\ Len(Bind(tools)) = Len(tools)
         /\ \A i \in 1 .. Len(tools) :
              Bind(tools)[i].base = tools[i].base /\ Bind(tools)[i].fits = tools[i].fits
<1>1. DOMAIN tools = 1 .. Len(tools) /\ Len(tools) \in Nat
  OBVIOUS
<1>2. ASSUME NEW i \in 1 .. Len(tools)
      PROVE  LET b == [tools[i] EXCEPT !.bound = tools[i].cwd]
             IN  b \in RunsTools /\ b.base = tools[i].base /\ b.fits = tools[i].fits
  <2>1. tools[i] \in Tools
    OBVIOUS
  <2> QED
    BY <2>1 DEF Tools, RunsTools
<1> DEFINE bound == Bind(tools)
<1>3. bound = [i \in 1 .. Len(tools) |-> [tools[i] EXCEPT !.bound = tools[i].cwd]]
  BY <1>1 DEF Bind
<1>4. \A i \in 1 .. Len(tools) :
        /\ bound[i] \in RunsTools
        /\ bound[i].base = tools[i].base /\ bound[i].fits = tools[i].fits
  BY <1>2, <1>3
<1>5. bound \in [1 .. Len(tools) -> RunsTools]
  <2>1. \A i \in 1 .. Len(tools) : [tools[i] EXCEPT !.bound = tools[i].cwd] \in RunsTools
    BY <1>2
  <2> QED
    BY <1>3, <2>1
<1> HIDE DEF bound
<1>6. bound \in Seq(RunsTools) /\ Len(bound) = Len(tools)
  BY <1>1, <1>5
<1> QED
  BY <1>4, <1>6 DEF bound

\* The harness's own tools.
LEMMA ResultToolFacts ==
  ASSUME NEW name \in ReservedNames
  PROVE  ResultTool(name) \in RunsTools /\ ResultTool(name).base = name /\ ResultTool(name).fits
BY NamesAssumption DEF ResultTool, RunsTools, ReservedNames

\* A run offers the caller's tools and, if it is typed, the two of the harness.
LEMMA OfferedTools ==
  ASSUME NEW tools \in Seq(Tools), NEW typed \in BOOLEAN
  PROVE  LET offered == RunTools(tools, typed)
             n == Len(tools)
         IN  /\ offered \in Seq(RunsTools)
             /\ Len(offered) = IF typed THEN n + 2 ELSE n
             /\ \A i \in 1 .. n : offered[i].base = tools[i].base /\ offered[i].fits = tools[i].fits
             /\ typed => offered[n + 1] = ResultTool("complete") /\ offered[n + 2] = ResultTool("fail")
<1> DEFINE offered == RunTools(tools, typed)
           n == Len(tools)
           bound == Bind(tools)
<1>1. /\ bound \in Seq(RunsTools) /\ Len(bound) = n /\ n \in Nat
      /\ \A i \in 1 .. n : bound[i].base = tools[i].base /\ bound[i].fits = tools[i].fits
  BY BindFacts
<1>2. /\ ResultTools \in Seq(RunsTools) /\ Len(ResultTools) = 2
      /\ ResultTools[1] = ResultTool("complete") /\ ResultTools[2] = ResultTool("fail")
  BY ResultToolFacts DEF ResultTools, ReservedNames
<1> HIDE DEF bound, n
<1>3. CASE typed
  <2>1. offered = bound \o ResultTools
    BY <1>3 DEF RunTools, bound
  <2> HIDE DEF offered
  <2>2. /\ offered \in Seq(RunsTools) /\ Len(offered) = n + 2
        /\ \A i \in 1 .. n + 2 : offered[i] = IF i <= n THEN bound[i] ELSE ResultTools[i - n]
    <3> DEFINE own == ResultTools
    <3>1. own \in Seq(RunsTools) /\ Len(own) = 2
      BY <1>2
    <3> HIDE DEF own
    <3>2. /\ bound \o own \in Seq(RunsTools) /\ Len(bound \o own) = Len(bound) + Len(own)
          /\ \A i \in 1 .. Len(bound) + Len(own) :
               (bound \o own)[i] = IF i <= Len(bound) THEN bound[i] ELSE own[i - Len(bound)]
      <4>1. bound \in Seq(RunsTools) /\ own \in Seq(RunsTools)
        BY <1>1, <3>1
      <4> QED
        BY <4>1, ConcatProperties
    <3> QED
      BY <1>1, <2>1, <3>1, <3>2 DEF own
  <2>3. /\ n + 1 \in 1 .. n + 2 /\ n + 2 \in 1 .. n + 2 /\ ~(n + 1 <= n) /\ ~(n + 2 <= n)
        /\ (n + 1) - n = 1 /\ (n + 2) - n = 2
        /\ \A i \in 1 .. n : i \in 1 .. n + 2 /\ i <= n
    BY <1>1
  <2> QED
    BY <1>1, <1>2, <1>3, <2>2, <2>3 DEF offered, n
<1>4. CASE ~typed
  <2>1. offered = bound
    BY <1>4 DEF RunTools, bound
  <2> HIDE DEF offered
  <2> QED
    BY <1>1, <1>4, <2>1 DEF offered, n
<1> QED
  BY <1>3, <1>4

\* No two tools of a run have the same name.
LEMMA OfferedApart ==
  ASSUME NEW tools \in Seq(Tools), Accepts(tools), NEW typed \in BOOLEAN
  PROVE  Registers(RunTools(tools, typed))
<1> DEFINE offered == RunTools(tools, typed)
           n == Len(tools)
<1>1. /\ offered \in Seq(RunsTools) /\ Len(offered) = IF typed THEN n + 2 ELSE n
      /\ \A i \in 1 .. n : offered[i].base = tools[i].base /\ offered[i].fits = tools[i].fits
      /\ typed => offered[n + 1] = ResultTool("complete") /\ offered[n + 2] = ResultTool("fail")
      /\ n \in Nat
  BY OfferedTools
<1>2. DOMAIN tools = 1 .. n /\ DOMAIN Bind(tools) = 1 .. n
  BY BindFacts DEF Bind
<1>3. \A i \in 1 .. n : tools[i].base \notin ReservedNames
  BY <1>2 DEF Accepts, IsReserved, Lower
<1>4. /\ \A i, j \in 1 .. n : i # j => tools[i].base # tools[j].base
      /\ \A i \in 1 .. n : tools[i].fits
  <2>1. /\ \A i, j \in 1 .. n : i # j => Lower(Bind(tools)[i]) # Lower(Bind(tools)[j])
        /\ \A i \in 1 .. n : Bind(tools)[i].fits
    BY <1>2 DEF Accepts, Registers, UniqueNames
  <2>2. /\ \A i \in 1 .. n :
              Bind(tools)[i].base = tools[i].base /\ Bind(tools)[i].fits = tools[i].fits
    BY BindFacts
  <2> QED
    BY <2>1, <2>2 DEF Lower
<1> HIDE DEF offered
<1>5. /\ DOMAIN offered = 1 .. Len(offered)
      /\ \A i \in 1 .. Len(offered) :
           i \in 1 .. n \/ (typed /\ (i = n + 1 \/ i = n + 2))
  <2>1. \A i \in 1 .. n + 2 : i \in 1 .. n \/ i = n + 1 \/ i = n + 2
    BY <1>1
  <2>2. typed \in BOOLEAN
    OBVIOUS
  <2> QED
    BY <1>1, <2>1, <2>2
<1>6. typed => /\ offered[n + 1].base = "complete" /\ offered[n + 1].fits
               /\ offered[n + 2].base = "fail" /\ offered[n + 2].fits
  BY <1>1, ResultToolFacts DEF ReservedNames
<1>7. \A i \in 1 .. n : offered[i].base # "complete" /\ offered[i].base # "fail"
  BY <1>1, <1>3 DEF ReservedNames
<1>8. \A i \in DOMAIN offered : offered[i].fits
  <2>1. \A i \in 1 .. n : offered[i].fits
    BY <1>1, <1>4
  <2>2. \A i \in DOMAIN offered : i \in 1 .. n \/ (typed /\ (i = n + 1 \/ i = n + 2))
    BY <1>5
  <2> QED
    BY <1>6, <2>1, <2>2, Zenon
<1>9. ASSUME NEW i \in DOMAIN offered, NEW j \in DOMAIN offered, i # j
      PROVE  offered[i].base # offered[j].base
  <2>1. CASE i \in 1 .. n /\ j \in 1 .. n
    BY <1>1, <1>4, <1>9, <2>1
  <2>2. CASE ~(i \in 1 .. n /\ j \in 1 .. n)
    <3>1. "complete" # "fail"
      OBVIOUS
    <3>2. /\ i \in 1 .. n \/ i = n + 1 \/ i = n + 2
          /\ j \in 1 .. n \/ j = n + 1 \/ j = n + 2
          /\ i \notin 1 .. n => typed
          /\ j \notin 1 .. n => typed
      BY <1>5, <1>9
    <3>3. i \in 1 .. n => offered[i].base # "complete" /\ offered[i].base # "fail"
      BY <1>7
    <3>4. j \in 1 .. n => offered[j].base # "complete" /\ offered[j].base # "fail"
      BY <1>7
    <3>5. i \notin 1 .. n =>
            \/ i = n + 1 /\ offered[i].base = "complete"
            \/ i = n + 2 /\ offered[i].base = "fail"
      BY <1>6, <3>2
    <3>6. j \notin 1 .. n =>
            \/ j = n + 1 /\ offered[j].base = "complete"
            \/ j = n + 2 /\ offered[j].base = "fail"
      BY <1>6, <3>2
    <3>7. CASE i \in 1 .. n
      BY <2>2, <3>3, <3>6, <3>7, Zenon
    <3>8. CASE j \in 1 .. n
      BY <2>2, <3>4, <3>5, <3>8, Zenon
    <3>9. CASE i \notin 1 .. n /\ j \notin 1 .. n
      <4>1. \/ offered[i].base = "complete" /\ offered[j].base = "fail"
            \/ offered[i].base = "fail" /\ offered[j].base = "complete"
        <5>1. i = n + 1 => j # n + 1
          BY <1>9
        <5>2. i = n + 2 => j # n + 2
          BY <1>9
        <5> QED
          BY <3>5, <3>6, <3>9, <5>1, <5>2, Zenon
      <4> QED
        BY <3>1, <4>1, Zenon
    <3> QED
      BY <3>7, <3>8, <3>9, Zenon
  <2> QED
    BY <2>1, <2>2
<1>10. UniqueNames(offered)
  <2>1. \A i, j \in DOMAIN offered : i # j => offered[i].base # offered[j].base
    BY <1>9
  <2>2. \A a, b : a.base # b.base => Lower(a) # Lower(b)
    BY DEF Lower
  <2> QED
    BY <2>1, <2>2, Zenon DEF UniqueNames
<1> QED
  BY <1>8, <1>10 DEF Registers, offered

\* Whatever tools a harness was accepted with, its calls reach the tools they name.
THEOREM EveryRegistryIsSound ==
  ASSUME NEW tools \in Seq(Tools)
  PROVE  AcceptedHarnessRunsTyped(tools) /\ CallsReachTheirTool(tools)
<1>1. AcceptedHarnessRunsTyped(tools)
  BY OfferedApart DEF AcceptedHarnessRunsTyped
<1>2. ASSUME Accepts(tools), NEW typed \in BOOLEAN, NEW name \in Requests
      PROVE  LET offered == RunTools(tools, typed)
                 found == Find(offered, name)
             IN  /\ \A i \in DOMAIN offered :
                      Lower(offered[i]) = Lower(name) => Head(found) = offered[i]
                 /\ name.base \in ReservedNames =>
                      found = IF typed THEN <<ResultTool(name.base)>> ELSE <<>>
  <2> DEFINE offered == RunTools(tools, typed)
             found == Find(offered, name)
             places == {i \in DOMAIN offered : Lower(offered[i]) = Lower(name)}
             n == Len(tools)
  <2>1. \A i, j \in DOMAIN offered : i # j => Lower(offered[i]) # Lower(offered[j])
    BY <1>2, OfferedApart DEF Registers, UniqueNames
  <2>2. /\ offered \in Seq(RunsTools) /\ Len(offered) = IF typed THEN n + 2 ELSE n
        /\ \A i \in 1 .. n : offered[i].base = tools[i].base
        /\ typed => offered[n + 1] = ResultTool("complete") /\ offered[n + 2] = ResultTool("fail")
        /\ n \in Nat
    BY OfferedTools
  <2>3. ASSUME NEW i \in places PROVE found = <<offered[i]>>
    <3>1. places \subseteq Nat /\ places # {}
      BY <2>2, <2>3
    <3>2. \E p \in places : \A q \in places : p <= q
      BY <3>1, LeastNat
    <3> DEFINE p == CHOOSE p \in places : \A q \in places : p <= q
    <3>3. p \in places
      BY <3>2
    <3>4. found = <<offered[p]>>
      BY <3>1 DEF Find
    <3> HIDE DEF p
    <3>5. p = i
      BY <2>1, <2>3, <3>3
    <3> QED
      BY <3>4, <3>5
  <2>4. places = {} => found = <<>>
    BY DEF Find
  <2> HIDE DEF offered, found
  <2>5. ASSUME NEW i \in DOMAIN offered, Lower(offered[i]) = Lower(name)
        PROVE  Head(found) = offered[i]
    <3>1. found = <<offered[i]>>
      BY <2>3, <2>5
    <3> QED
      BY <3>1
  <2>6. ASSUME name.base \in ReservedNames, typed
        PROVE  found = <<ResultTool(name.base)>>
    <3>1. n + 1 \in DOMAIN offered /\ n + 2 \in DOMAIN offered
      BY <2>2, <2>6
    <3>2. name.base = "complete" \/ name.base = "fail"
      BY <2>6 DEF ReservedNames
    <3>3. CASE name.base = "complete"
      <4>1. Lower(offered[n + 1]) = Lower(name)
        BY <2>2, <2>6, <3>3, ResultToolFacts DEF Lower, ReservedNames
      <4> QED
        BY <2>2, <2>3, <2>6, <3>1, <3>3, <4>1
    <3>4. CASE name.base = "fail"
      <4>1. Lower(offered[n + 2]) = Lower(name)
        BY <2>2, <2>6, <3>4, ResultToolFacts DEF Lower, ReservedNames
      <4> QED
        BY <2>2, <2>3, <2>6, <3>1, <3>4, <4>1
    <3> QED
      BY <3>2, <3>3, <3>4
  <2>7. ASSUME name.base \in ReservedNames, ~typed
        PROVE  found = <<>>
    <3>1. DOMAIN offered = 1 .. n /\ DOMAIN tools = 1 .. n
      BY <2>2, <2>7
    <3>2. \A i \in 1 .. n : tools[i].base \notin ReservedNames
      BY <1>2, <3>1 DEF Accepts, IsReserved, Lower
    <3>3. \A i \in DOMAIN offered : Lower(offered[i]) # Lower(name)
      BY <2>2, <2>7, <3>1, <3>2 DEF Lower
    <3> QED
      BY <2>4, <3>3
  <2> QED
    BY <2>5, <2>6, <2>7 DEF offered, found
<1>3. CallsReachTheirTool(tools)
  BY <1>2 DEF CallsReachTheirTool
<1> QED
  BY <1>1, <1>3

-----------------------------------------------------------------------------
\* A quotient is rounded to nothing above a whole number that it does not exceed.
LEMMA RoundAtMost ==
  ASSUME NEW n \in Nat, NEW d \in Nat \ {0}, NEW m \in Nat, n <= m * d
  PROVE  Round(n, d) \in 0 .. m
<1> DEFINE q == n \div d
           r == n % d
<1>1. q \in Nat /\ r \in Nat /\ r < d /\ n = d * q + r
  OBVIOUS
<1>2. Round(n, d) = IF 2 * r < d \/ (2 * r = d /\ q % 2 = 0) THEN q ELSE q + 1
  BY DEF Round
<1> HIDE DEF q, r
<1>3. d \in Nat /\ d > 0
  OBVIOUS
<1>4. q <= m
  <2> SUFFICES ASSUME q >= m + 1 PROVE FALSE
    BY <1>1
  <2>1. d * q >= d * (m + 1)
    BY <1>1, <1>3
  <2>2. d * (m + 1) = m * d + d
    BY <1>3
  <2>3. d * q \in Nat /\ m * d \in Nat
    BY <1>1, <1>3
  <2>4. d * q >= m * d + d
    BY <2>1, <2>2
  <2> HIDE DEF q
  <2> QED
    BY <1>1, <1>3, <2>3, <2>4
<1>5. q = m => r = 0
  <2> SUFFICES ASSUME q = m PROVE r = 0
    OBVIOUS
  <2>1. n = d * m + r /\ d * m = m * d /\ m * d \in Nat
    BY <1>1, <1>3
  <2> QED
    BY <1>1, <2>1
<1>6. CASE q = m
  <2>1. 2 * r < d
    BY <1>1, <1>3, <1>5, <1>6
  <2> QED
    BY <1>1, <1>2, <1>6, <2>1
<1>7. CASE q # m
  <2>1. q \in 0 .. m /\ q + 1 \in 0 .. m
    BY <1>1, <1>4, <1>7
  <2> QED
    BY <1>2, <2>1
<1> QED
  BY <1>6, <1>7

\* A box of the given sides.
Box(a, b) == (1 .. a) \X (1 .. b)

\* An image is fitted into the largest box.
LEMMA FittedIntoTheBox ==
  ASSUME NEW width \in Nat \ {0}, NEW height \in Nat \ {0}
  PROVE  FitDimensions(width, height) \in Box(MaxWidth, MaxHeight)
<1> DEFINE w == IF width > MaxWidth THEN MaxWidth ELSE width
           h == IF width > MaxWidth THEN Round(height * MaxWidth, width) ELSE height
<1>1. /\ MaxWidth \in Nat /\ MaxWidth >= 1 /\ MaxHeight \in Nat /\ MaxHeight >= 1
      /\ width \in Nat /\ width >= 1 /\ height \in Nat /\ height >= 1
  BY BoxAssumption
<1>2. w \in 1 .. MaxWidth
  BY <1>1
<1>3. h \in Nat
  <2>1. CASE width > MaxWidth
    <3>1. height * MaxWidth \in Nat /\ height * MaxWidth <= height * width
      BY <1>1, <2>1
    <3>2. Round(height * MaxWidth, width) \in 0 .. height
      <4> DEFINE n == height * MaxWidth
      <4>1. n \in Nat /\ n <= height * width
        BY <3>1
      <4> HIDE DEF n
      <4>2. Round(n, width) \in 0 .. height
        BY <4>1, RoundAtMost
      <4> QED
        BY <4>2 DEF n
    <3> QED
      BY <2>1, <3>2
  <2>2. CASE ~(width > MaxWidth)
    BY <1>1, <2>2
  <2> QED
    BY <2>1, <2>2
<1>4. FitDimensions(width, height) =
        IF h > MaxHeight THEN <<AtLeastOne(Round(w * MaxHeight, h)), AtLeastOne(MaxHeight)>>
        ELSE <<AtLeastOne(w), AtLeastOne(h)>>
  BY DEF FitDimensions
<1> HIDE DEF w, h
<1>5. CASE h > MaxHeight
  <2> DEFINE n == w * MaxHeight
  <2>1. n \in Nat /\ n <= w * h
    BY <1>1, <1>2, <1>3, <1>5
  <2> HIDE DEF n
  <2>2. h \in Nat \ {0} /\ w \in Nat
    BY <1>1, <1>2, <1>3, <1>5
  <2>3. Round(n, h) \in 0 .. w
    BY <2>1, <2>2, RoundAtMost
  <2>4. AtLeastOne(Round(n, h)) \in 1 .. MaxWidth /\ AtLeastOne(MaxHeight) \in 1 .. MaxHeight
    BY <1>1, <1>2, <2>3 DEF AtLeastOne
  <2> QED
    BY <1>4, <1>5, <2>4 DEF Box, n
<1>6. CASE ~(h > MaxHeight)
  <2>1. AtLeastOne(w) \in 1 .. MaxWidth /\ AtLeastOne(h) \in 1 .. MaxHeight
    BY <1>1, <1>2, <1>3, <1>6 DEF AtLeastOne
  <2> QED
    BY <1>4, <1>6, <2>1 DEF Box
<1> QED
  BY <1>5, <1>6

\* A side becomes shorter in every turn, down to one pixel.
LEMMA ShrunkSide ==
  ASSUME NEW m \in Nat, NEW k \in Nat, NEW n \in 1 .. AtLeastOne(m - k)
  PROVE  Shrunk(n) \in 1 .. AtLeastOne(m - (k + 1))
<1>1. n \in Nat /\ n >= 1 /\ (n = 1 \/ n <= m - k)
  BY DEF AtLeastOne
<1>2. (3 * n) \div 4 \in Nat /\ (3 * n) \div 4 < n
  BY <1>1
<1> QED
  BY <1>1, <1>2 DEF AtLeastOne, Shrunk

\* A turn of the loop makes the box that an image is in smaller by a pixel.
LEMMA NextInTheBox ==
  ASSUME NEW k \in Nat,
         NEW d \in Box(AtLeastOne(MaxWidth - k), AtLeastOne(MaxHeight - k))
  PROVE  NextDimensions(d) \in
           Box(AtLeastOne(MaxWidth - (k + 1)), AtLeastOne(MaxHeight - (k + 1)))
<1>1. MaxWidth \in Nat /\ MaxHeight \in Nat
  BY BoxAssumption
<1> DEFINE a == AtLeastOne(MaxWidth - k)
           b == AtLeastOne(MaxHeight - k)
           aa == AtLeastOne(MaxWidth - (k + 1))
           bb == AtLeastOne(MaxHeight - (k + 1))
<1>2. d[1] \in 1 .. a /\ d[2] \in 1 .. b
  BY DEF Box
<1>3. Shrunk(d[1]) \in 1 .. aa /\ Shrunk(d[2]) \in 1 .. bb
  BY <1>1, <1>2, ShrunkSide
<1>4. 1 \in 1 .. aa /\ 1 \in 1 .. bb
  BY <1>1 DEF AtLeastOne
<1> HIDE DEF aa, bb
<1>5. NextDimensions(d) \in Box(aa, bb)
  BY <1>3, <1>4 DEF NextDimensions, Box
<1> QED
  BY <1>5 DEF aa, bb

\* After k turns an image is in the box that is k pixels smaller on either side,
\* and before the first one it is as it was fitted.
LEMMA DimensionsInTheBox ==
  ASSUME NEW d \in Box(MaxWidth, MaxHeight), NEW k \in Nat
  PROVE  /\ DimensionsAfter(d, k) \in Box(AtLeastOne(MaxWidth - k), AtLeastOne(MaxHeight - k))
         /\ DimensionsAfter(d, 0) = d
<1> DEFINE A == Box(MaxWidth, MaxHeight)
           Smaller(i) == Box(AtLeastOne(MaxWidth - i), AtLeastOne(MaxHeight - i))
           Right(f, N) == f = [i \in 0 .. N |-> IF i = 0 THEN d ELSE NextDimensions(f[i - 1])]
           after(N) == CHOOSE f : Right(f, N)
<1>1. MaxWidth \in Nat /\ MaxWidth >= 1 /\ MaxHeight \in Nat /\ MaxHeight >= 1
  BY BoxAssumption
<1>2. /\ Smaller(0) = A
      /\ \A i \in Nat : Smaller(i) \subseteq A
  BY <1>1 DEF Box, AtLeastOne
<1>3. ASSUME NEW i \in Nat, NEW e \in Smaller(i) PROVE NextDimensions(e) \in Smaller(i + 1)
  BY NextInTheBox
<1>4. \A e \in A : NextDimensions(e) \in A
  <2>1. 0 \in Nat /\ 0 + 1 \in Nat
    OBVIOUS
  <2> HIDE DEF A, Smaller
  <2> QED
    BY <1>2, <1>3, <2>1
<1>5. d \in A
  OBVIOUS
<1>6. \A N \in Nat : DimensionsAfter(d, N) = after(N)[N]
  BY DEF DimensionsAfter
<1> HIDE DEF A, Smaller
<1>7. ASSUME NEW N \in Nat PROVE Right(after(N), N)
  <2> DEFINE step == [p \in A \X (1 .. N) |-> NextDimensions(p[1])]
  <2>1. step \in [A \X (1 .. N) -> A]
    BY <1>4
  <2>2. PICK f \in [0 .. N -> A] : Recurses(f, d, step, N)
    <3> HIDE DEF step
    <3> QED
      BY <1>5, <2>1, Recursion
  <2>3. Right(f, N)
    <3>1. ASSUME NEW i \in 0 .. N
          PROVE  f[i] = IF i = 0 THEN d ELSE NextDimensions(f[i - 1])
      <4>1. CASE i = 0
        BY <2>2, <4>1 DEF Recurses
      <4>2. CASE i # 0
        <5>1. i \in 1 .. N /\ i - 1 \in 0 .. N
          BY <4>2
        <5>2. f[i - 1] \in A
          BY <2>2, <5>1
        <5> QED
          BY <2>2, <4>2, <5>1, <5>2 DEF Recurses
      <4> QED
        BY <4>1, <4>2
    <3> QED
      BY <2>2, <3>1
  <2> HIDE DEF Right
  <2> QED
    BY <2>3
<1>8. ASSUME NEW N \in Nat
      PROVE  /\ after(N)[0] = d
             /\ \A i \in 1 .. N : after(N)[i] = NextDimensions(after(N)[i - 1])
  <2>1. 0 \in 0 .. N /\ \A i \in 1 .. N : i \in 0 .. N /\ i # 0
    OBVIOUS
  <2> DEFINE f == after(N)
  <2>2. Right(f, N)
    BY <1>7
  <2> HIDE DEF f
  <2>3. f[0] = d /\ \A i \in 1 .. N : f[i] = NextDimensions(f[i - 1])
    BY <2>1, <2>2
  <2> QED
    BY <2>3 DEF f
<1> HIDE DEF after
<1> DEFINE P == {i \in Nat : i <= k => after(k)[i] \in Smaller(i)}
<1>9. 0 \in P
  BY <1>2, <1>5, <1>8
<1>10. ASSUME NEW i \in Nat, i \in P PROVE i + 1 \in P
  <2> SUFFICES ASSUME i + 1 <= k PROVE after(k)[i + 1] \in Smaller(i + 1)
    OBVIOUS
  <2>1. i + 1 \in 1 .. k /\ (i + 1) - 1 = i /\ i <= k
    OBVIOUS
  <2>2. after(k)[i] \in Smaller(i)
    BY <1>10, <2>1
  <2>3. after(k)[i + 1] = NextDimensions(after(k)[i])
    BY <1>8, <2>1
  <2> QED
    BY <1>3, <2>2, <2>3
<1>11. Nat \subseteq P
  <2> HIDE DEF P
  <2> QED
    BY <1>9, <1>10, Induction
<1>12. after(k)[k] \in Smaller(k)
  BY <1>11
<1> QED
  BY <1>6, <1>8, <1>12 DEF Smaller

\* The candidate that is chosen is below the limit if one of them is.
LEMMA BestFits ==
  ASSUME NEW sizes \in Seq(Nat), sizes # <<>>
  PROVE  BestCandidate(sizes) < MaxBase64Bytes
           <=> \E i \in DOMAIN sizes : sizes[i] < MaxBase64Bytes
<1> DEFINE fitting == {i \in DOMAIN sizes : sizes[i] < MaxBase64Bytes}
<1>1. /\ DOMAIN sizes \subseteq Nat /\ DOMAIN sizes # {}
      /\ \A i \in DOMAIN sizes : sizes[i] \in Nat
  <2>1. DOMAIN sizes = 1 .. Len(sizes) /\ Len(sizes) \in Nat
    OBVIOUS
  <2>2. Len(sizes) # 0
    BY EmptySeq
  <2>3. 1 \in DOMAIN sizes
    BY <2>1, <2>2
  <2> QED
    BY <2>1, <2>3
<1>2. CASE fitting # {}
  <2> DEFINE p == CHOOSE i \in fitting : \A j \in fitting : i <= j
  <2>1. fitting \subseteq Nat
    BY <1>1
  <2>2. \E i \in fitting : \A j \in fitting : i <= j
    <3> HIDE DEF fitting
    <3> QED
      BY <1>2, <2>1, LeastNat
  <2>3. p \in fitting
    BY <2>2
  <2>4. BestCandidate(sizes) = sizes[p]
    BY <1>2 DEF BestCandidate
  <2> HIDE DEF p
  <2> QED
    BY <2>3, <2>4
<1>3. CASE fitting = {}
  <2> DEFINE all == Range(sizes)
             least == CHOOSE n \in all : \A m \in all : n <= m
  <2>1. all \subseteq Nat /\ all # {} /\ \A n \in all : \E i \in DOMAIN sizes : n = sizes[i]
    BY <1>1 DEF Range
  <2>2. \E n \in all : \A m \in all : n <= m
    <3> HIDE DEF all
    <3> QED
      BY <2>1, LeastNat
  <2>3. least \in all
    BY <2>2
  <2>4. BestCandidate(sizes) = least
    BY <1>3 DEF BestCandidate
  <2> HIDE DEF least, all
  <2> QED
    BY <1>3, <2>1, <2>3, <2>4
<1> QED
  BY <1>2, <1>3

\* Dimensions that do not shrink are a single pixel.
LEMMA StuckAtOnePixel ==
  ASSUME NEW d, NextDimensions(d) = d
  PROVE  d = <<1, 1>>
BY DEF NextDimensions

\* The images that the tool can read, and the sizes that encoders may return in
\* enough turns for the largest box.
IsImage(source) ==
  /\ source.width \in Nat \ {0} /\ source.height \in Nat \ {0}
  /\ source.turned \in BOOLEAN /\ source.size \in Nat
Encodings == {sizes \in Seq(Nat) : sizes # <<>>}

\* Every image is fitted or refused, whatever the encoders return.
THEOREM EveryImageFitsOrFails ==
  ASSUME NEW source, IsImage(source), NEW n \in Nat, n >= MaxWidth, n >= MaxHeight,
         NEW encoded \in [0 .. n - 1 -> Encodings]
  PROVE  ImageFitsOrFails(source, encoded)
<1> DEFINE first == Fitted(source)
           Fits(k) == SizeAfter(source, encoded, k) < MaxBase64Bytes
           D(k) == DimensionsAfter(first, k)
           Stops(k) == Fits(k) \/ D(k) = <<1, 1>> \/ NextDimensions(D(k)) = D(k)
           last == CHOOSE k \in DOMAIN encoded :
                     Stops(k) /\ \A j \in DOMAIN encoded : j < k => ~Stops(j)
           Below(k) == IF k = 0 /\ first = Oriented(source) THEN source.size < MaxBase64Bytes
                       ELSE \E i \in DOMAIN encoded[k] : encoded[k][i] < MaxBase64Bytes
           image == ProcessImage(source, encoded)
<1>1. /\ MaxWidth \in Nat /\ MaxWidth >= 1 /\ MaxHeight \in Nat /\ MaxHeight >= 1
      /\ n - 1 \in Nat
  BY BoxAssumption
<1>2. DOMAIN encoded = 0 .. n - 1
  OBVIOUS
<1>3. first \in Box(MaxWidth, MaxHeight)
  <2>1. Oriented(source)[1] \in Nat \ {0} /\ Oriented(source)[2] \in Nat \ {0}
    BY DEF Oriented, IsImage
  <2> QED
    BY <2>1, FittedIntoTheBox DEF Fitted
<1> HIDE DEF first
<1>4. ASSUME NEW k \in 0 .. n - 1
      PROVE  D(k) \in Box(AtLeastOne(MaxWidth - k), AtLeastOne(MaxHeight - k))
  BY <1>3, DimensionsInTheBox
<1>5. D(0) = first
  BY <1>3, DimensionsInTheBox
<1>6. ASSUME NEW k \in 0 .. n - 1 PROVE Fits(k) <=> Below(k)
  <2>1. CASE k = 0 /\ first = Oriented(source)
    BY <2>1 DEF SizeAfter, first
  <2>2. CASE ~(k = 0 /\ first = Oriented(source))
    <3>1. encoded[k] \in Seq(Nat) /\ encoded[k] # <<>>
      BY DEF Encodings
    <3> DEFINE sizes == encoded[k]
    <3>2. SizeAfter(source, encoded, k) = BestCandidate(sizes)
      BY <2>2 DEF SizeAfter, first
    <3> HIDE DEF sizes
    <3>3. BestCandidate(sizes) < MaxBase64Bytes
            <=> \E i \in DOMAIN sizes : sizes[i] < MaxBase64Bytes
      BY <3>1, BestFits DEF sizes
    <3> QED
      BY <2>2, <3>2, <3>3 DEF sizes
  <2> QED
    BY <2>1, <2>2
<1> HIDE DEF Fits, D
<1>7. Stops(n - 1)
  <2>1. n - 1 \in 0 .. n - 1
    BY <1>1
  <2>2. D(n - 1) \in Box(AtLeastOne(MaxWidth - (n - 1)), AtLeastOne(MaxHeight - (n - 1)))
    BY <1>4, <2>1
  <2>3. AtLeastOne(MaxWidth - (n - 1)) = 1 /\ AtLeastOne(MaxHeight - (n - 1)) = 1
    BY <1>1 DEF AtLeastOne
  <2>4. D(n - 1) \in Box(1, 1)
    BY <2>2, <2>3
  <2>5. D(n - 1) = <<1, 1>>
    BY <2>4 DEF Box
  <2> QED
    BY <2>5
<1> HIDE DEF Stops
<1>8. /\ last \in 0 .. n - 1 /\ Stops(last)
      /\ \A j \in 0 .. n - 1 : j < last => ~Stops(j)
  <2> DEFINE T == {k \in 0 .. n - 1 : Stops(k)}
  <2>1. T \subseteq Nat /\ T # {}
    BY <1>1, <1>7
  <2>2. PICK p \in T : \A q \in T : p <= q
    <3> HIDE DEF T
    <3> QED
      BY <2>1, LeastNat
  <2>3. \A j \in 0 .. n - 1 : j < p => ~Stops(j)
    BY <1>1, <2>2
  <2>4. p \in DOMAIN encoded /\ Stops(p) /\ \A j \in DOMAIN encoded : j < p => ~Stops(j)
    BY <1>2, <2>2, <2>3
  <2> QED
    BY <1>2, <2>4
<1>9. image = [error |-> ~Fits(last), dimensions |-> D(last), turns |-> last,
               resized |-> last > 0 \/ first # Oriented(source)]
  BY DEF ProcessImage, Fits, D, Stops, first
<1> HIDE DEF last, image
<1>10. /\ image.error = ~Fits(last) /\ image.dimensions = D(last) /\ image.turns = last
       /\ image.resized = (last > 0 \/ first # Oriented(source))
  BY <1>9
<1>11. last \in Nat
  BY <1>8
<1>12. D(last) \in (1 .. MaxWidth) \X (1 .. MaxHeight)
  <2>1. D(last) \in Box(AtLeastOne(MaxWidth - last), AtLeastOne(MaxHeight - last))
    BY <1>4, <1>8
  <2>2. /\ AtLeastOne(MaxWidth - last) \in 1 .. MaxWidth
        /\ AtLeastOne(MaxHeight - last) \in 1 .. MaxHeight
    BY <1>1, <1>11 DEF AtLeastOne
  <2> QED
    BY <1>1, <2>1, <2>2 DEF Box
<1>13. ~Fits(last) => D(last) = <<1, 1>>
  BY <1>8, StuckAtOnePixel DEF Stops
<1>14. \A k \in 0 .. last - 1 : ~Below(k)
  <2>1. ASSUME NEW k \in 0 .. last - 1 PROVE k \in 0 .. n - 1 /\ k < last
    BY <1>1, <1>8, <1>11
  <2>2. \A k \in 0 .. last - 1 : ~Fits(k)
    BY <1>8, <2>1 DEF Stops
  <2> QED
    BY <1>6, <2>1, <2>2
<1>15. Fits(last) <=> Below(last)
  BY <1>6, <1>8
<1>16. ~(last > 0 \/ first # Oriented(source)) => D(last) = Oriented(source)
  <2>1. ~(last > 0) => last = 0
    BY <1>11
  <2> QED
    BY <1>5, <2>1
<1> HIDE DEF Below
<1>17. /\ image.dimensions \in (1 .. MaxWidth) \X (1 .. MaxHeight)
       /\ image.error = ~Below(image.turns)
       /\ image.error => image.dimensions = <<1, 1>>
       /\ \A k \in 0 .. image.turns - 1 : ~Below(k)
       /\ ~image.resized => image.dimensions = Oriented(source)
  BY <1>10, <1>12, <1>13, <1>14, <1>15, <1>16
<1> QED
  BY <1>17 DEF ImageFitsOrFails, Below, first, image

-----------------------------------------------------------------------------
\* What joins two sequences.
IsJoin(u, s, t) ==
  /\ Len(s) \in Nat /\ Len(t) \in Nat
  /\ Len(u) = Len(s) + Len(t)
  /\ \A p \in 1 .. Len(s) : u[p] = s[p]
  /\ \A k \in 1 .. Len(t) : u[Len(s) + k] = t[k]

\* The join of two sequences is typed, and long as both together.
LEMMA JoinFacts ==
  ASSUME NEW S, NEW s \in Seq(S), NEW t \in Seq(S)
  PROVE  s \o t \in Seq(S) /\ IsJoin(s \o t, s, t)
BY DEF IsJoin

\* What is empty joins to nothing more.
LEMMA EmptyJoin ==
  ASSUME NEW S, NEW s \in Seq(S)
  PROVE  <<>> \o s = s /\ s \o <<>> = s
OBVIOUS

\* Elements of sequences of sequences.
LEMMA PartsAndPrefixes ==
  ASSUME NEW S, NEW parts \in Seq(Seq(S)), NEW f \in [0 .. Len(parts) -> Seq(S)]
  PROVE  /\ Len(parts) \in Nat
         /\ \A n \in 1 .. Len(parts) : parts[n] \in Seq(S) /\ n - 1 \in 0 .. Len(parts)
         /\ \A n \in 0 .. Len(parts) : f[n] \in Seq(S) /\ Len(f[n]) \in Nat
<1>1. Len(parts) \in Nat /\ \A n \in 1 .. Len(parts) : parts[n] \in Seq(S)
  OBVIOUS
<1>2. \A n \in 0 .. Len(parts) : f[n] \in Seq(S)
  OBVIOUS
<1>3. \A s \in Seq(S) : Len(s) \in Nat
  OBVIOUS
<1> QED
  BY <1>1, <1>2, <1>3

\* f joins the parts one after another.
Flattens(f, parts) ==
  /\ f[0] = <<>>
  /\ \A n \in 1 .. Len(parts) : f[n] = f[n - 1] \o parts[n]

\* FlattenSeq does so.
LEMMA FlattenSeqFacts ==
  ASSUME NEW S, NEW parts \in Seq(Seq(S))
  PROVE  \E f \in [0 .. Len(parts) -> Seq(S)] :
           Flattens(f, parts) /\ FlattenSeq(parts) = f[Len(parts)]
<1> DEFINE N == Len(parts)
           step == [p \in Seq(S) \X (1 .. N) |-> p[1] \o parts[p[2]]]
           Right(g) == g = [i \in 1 .. N |-> IF i = 1 THEN parts[i] ELSE g[i - 1] \o parts[i]]
           flat == CHOOSE g : Right(g)
<1>1. /\ N \in Nat /\ 0 \in 0 .. N /\ \A n \in 1 .. N : n - 1 \in 0 .. N /\ n \in 0 .. N
      /\ \A n \in 1 .. N : parts[n] \in Seq(S)
      /\ <<>> \in Seq(S)
  OBVIOUS
<1>2. FlattenSeq(parts) = IF N = 0 THEN parts ELSE flat[N]
  BY DEF FlattenSeq
<1>3. N = 0 => parts = <<>>
  OBVIOUS
<1> HIDE DEF N, flat
<1>4. step \in [Seq(S) \X (1 .. N) -> Seq(S)]
  BY <1>1
<1>5. PICK f \in [0 .. N -> Seq(S)] : Recurses(f, <<>>, step, N)
  <2> HIDE DEF step
  <2> QED
    BY <1>1, <1>4, Recursion
<1>6. f[0] = <<>> /\ \A n \in 1 .. N : f[n] = f[n - 1] \o parts[n]
  <2>1. ASSUME NEW n \in 1 .. N PROVE f[n] = f[n - 1] \o parts[n]
    <3>1. f[n - 1] \in Seq(S) /\ f[n] = step[<<f[n - 1], n>>]
      BY <1>1, <1>5 DEF Recurses
    <3> QED
      BY <3>1
  <2> QED
    BY <1>5, <2>1 DEF Recurses
<1>7. Flattens(f, parts)
  BY <1>6 DEF Flattens, N
<1>8. CASE N = 0
  <2>1. FlattenSeq(parts) = f[N]
    BY <1>2, <1>3, <1>6, <1>8
  <2> QED
    BY <1>5, <1>7, <2>1 DEF N
<1>9. CASE N # 0
  <2> DEFINE g == [i \in 1 .. N |-> f[i]]
  <2>1. ASSUME NEW i \in 1 .. N
        PROVE  g[i] = IF i = 1 THEN parts[i] ELSE g[i - 1] \o parts[i]
    <3>1. g[i] = f[i - 1] \o parts[i] /\ parts[i] \in Seq(S)
      BY <1>1, <1>6
    <3>2. CASE i = 1
      <4>1. f[i - 1] = <<>>
        BY <1>6, <3>2
      <4> QED
        BY <3>1, <3>2, <4>1
    <3>3. CASE i # 1
      <4>1. i - 1 \in 1 .. N
        BY <1>1, <3>3
      <4> QED
        BY <3>1, <3>3, <4>1
    <3> QED
      BY <3>2, <3>3
  <2>2. Right(g)
    BY <2>1
  <2> HIDE DEF g
  <2>3. Right(flat)
    <3> HIDE DEF Right
    <3> QED
      BY <2>2 DEF flat
  <2>4. \A i \in 1 .. N : flat[i] = IF i = 1 THEN parts[i] ELSE flat[i - 1] \o parts[i]
    BY <2>3
  <2> HIDE DEF Right
  <2> DEFINE P == {n \in Nat : n + 1 <= N => flat[n + 1] = f[n + 1]}
  <2>5. 0 \in P
    <3>1. 1 \in 1 .. N
      BY <1>1, <1>9
    <3>2. f[1] = f[1 - 1] \o parts[1] /\ parts[1] \in Seq(S) /\ flat[1] = parts[1]
      BY <1>1, <1>6, <2>4, <3>1
    <3>3. f[1 - 1] = <<>>
      BY <1>6
    <3>4. flat[1] = f[1]
      BY <3>2, <3>3, EmptyJoin
    <3> QED
      BY <3>4
  <2>6. ASSUME NEW n \in Nat, n \in P PROVE n + 1 \in P
    <3> SUFFICES ASSUME (n + 1) + 1 <= N
                 PROVE  flat[(n + 1) + 1] = f[(n + 1) + 1]
      OBVIOUS
    <3> DEFINE i == (n + 1) + 1
    <3>1. i \in 1 .. N /\ i # 1 /\ i - 1 = n + 1 /\ n + 1 <= N
      BY <1>1
    <3>2. flat[i - 1] = f[i - 1]
      BY <2>6, <3>1
    <3> HIDE DEF i
    <3>3. flat[i] = f[i]
      BY <1>6, <2>4, <3>1, <3>2
    <3> QED
      BY <3>3 DEF i
  <2>7. N - 1 \in P
    <3>1. N - 1 \in Nat
      BY <1>1, <1>9
    <3> HIDE DEF P
    <3> QED
      BY <2>5, <2>6, <3>1, Induction
  <2>8. flat[N] = f[N]
    <3>1. (N - 1) + 1 = N
      BY <1>1
    <3> QED
      BY <1>1, <2>7, <3>1
  <2> QED
    BY <1>2, <1>5, <1>7, <1>9, <2>8 DEF N
<1> QED
  BY <1>8, <1>9

\* The n-th part stays where it was put.
StaysAt(f, parts, n, m) ==
  /\ Len(f[n]) <= Len(f[m])
  /\ \A p \in 1 .. Len(f[n]) : f[m][p] = f[n][p]

\* What is flattened later stays behind it.
LEMMA FlattenedStays ==
  ASSUME NEW S, NEW parts \in Seq(Seq(S)), NEW f \in [0 .. Len(parts) -> Seq(S)],
         Flattens(f, parts), NEW n \in 0 .. Len(parts)
  PROVE  \A m \in n .. Len(parts) : StaysAt(f, parts, n, m)
<1> DEFINE N == Len(parts)
           P == {k \in Nat : n + k <= N => StaysAt(f, parts, n, n + k)}
<1>1. 0 \in P
  <2>1. n + 0 = n /\ Len(f[n]) <= Len(f[n])
    OBVIOUS
  <2> QED
    BY <2>1 DEF StaysAt
<1>2. ASSUME NEW k \in Nat, k \in P PROVE k + 1 \in P
  <2> SUFFICES ASSUME n + (k + 1) <= N
               PROVE  StaysAt(f, parts, n, n + (k + 1))
    OBVIOUS
  <2> DEFINE m == n + (k + 1)
  <2>1. m \in 1 .. N /\ m - 1 = n + k /\ n + k <= N /\ m - 1 \in 0 .. N /\ m \in 0 .. N
    OBVIOUS
  <2>2. StaysAt(f, parts, n, m - 1)
    BY <1>2, <2>1
  <2> HIDE DEF m
  <2>3. parts[m] \in Seq(S) /\ f[m - 1] \in Seq(S)
    BY <2>1, PartsAndPrefixes
  <2>4. f[m] = f[m - 1] \o parts[m]
    BY <2>1 DEF Flattens
  <2>5. IsJoin(f[m], f[m - 1], parts[m])
    BY <2>3, <2>4, JoinFacts
  <2>6. Len(f[n]) \in Nat
    BY PartsAndPrefixes
  <2> HIDE DEF N
  <2>7. StaysAt(f, parts, n, m)
    <3>1. Len(f[n]) <= Len(f[m]) /\ 1 .. Len(f[n]) \subseteq 1 .. Len(f[m - 1])
      <4>1. /\ Len(f[m]) = Len(f[m - 1]) + Len(parts[m]) /\ Len(f[n]) <= Len(f[m - 1])
            /\ Len(f[m - 1]) \in Nat /\ Len(parts[m]) \in Nat
        BY <2>2, <2>5 DEF StaysAt, IsJoin
      <4>2. \A x, y, z \in Nat : z <= x => z <= x + y /\ 1 .. z \subseteq 1 .. x
        OBVIOUS
      <4> QED
        BY <2>6, <4>1, <4>2
    <3>2. \A p \in 1 .. Len(f[n]) : f[m][p] = f[n][p]
      BY <2>2, <2>5, <3>1 DEF StaysAt, IsJoin
    <3> QED
      BY <3>1, <3>2 DEF StaysAt
  <2> QED
    BY <2>7 DEF m
<1>3. Nat \subseteq P
  <2> HIDE DEF P
  <2> QED
    BY <1>1, <1>2, Induction
<1> SUFFICES ASSUME NEW m \in n .. N
             PROVE  StaysAt(f, parts, n, m)
  OBVIOUS
<1>4. m - n \in Nat /\ n + (m - n) = m /\ m <= N
  OBVIOUS
<1>5. m - n \in P
  BY <1>3, <1>4
<1> QED
  BY <1>4, <1>5

\* The elements of a part are found behind those of the parts before it.
HoldsPart(all, before, part) ==
  /\ Len(before) + Len(part) <= Len(all)
  /\ \A k \in 1 .. Len(part) : all[Len(before) + k] = part[k]

\* Each part is in the whole, behind what was flattened before it.
LEMMA FlattenedParts ==
  ASSUME NEW S, NEW parts \in Seq(Seq(S)), NEW f \in [0 .. Len(parts) -> Seq(S)],
         Flattens(f, parts), NEW n \in 1 .. Len(parts)
  PROVE  HoldsPart(f[Len(parts)], f[n - 1], parts[n])
<1> DEFINE N == Len(parts)
<1>1. n \in 0 .. N /\ N \in n .. N /\ n - 1 \in 0 .. N
  OBVIOUS
<1>2. StaysAt(f, parts, n, N)
  BY <1>1, FlattenedStays
<1>3. f[n - 1] \in Seq(S) /\ parts[n] \in Seq(S) /\ f[n] = f[n - 1] \o parts[n]
  BY PartsAndPrefixes DEF Flattens
<1> DEFINE before == f[n - 1]
           part == parts[n]
<1>5. IsJoin(f[n], before, part)
  BY <1>3, JoinFacts
<1> HIDE DEF N, before, part
<1>6. \A k \in 1 .. Len(part) : Len(before) + k \in 1 .. Len(f[n])
  BY <1>5 DEF IsJoin
<1>7. HoldsPart(f[N], before, part)
  <2>2. Len(before) + Len(part) <= Len(f[N])
    BY <1>2, <1>5 DEF StaysAt, IsJoin
  <2>3. \A k \in 1 .. Len(part) : f[N][Len(before) + k] = part[k]
    BY <1>2, <1>5, <1>6 DEF StaysAt, IsJoin
  <2> QED
    BY <2>2, <2>3 DEF HoldsPart
<1> QED
  BY <1>7 DEF N, before, part

\* What InOrder lists: the numbers of the set up to n, each once, in their order.
Lists(s, numbers, n) ==
  /\ s \in Seq(1 .. n)
  /\ \A k \in 1 .. Len(s) : s[k] \in numbers
  /\ \A k, l \in 1 .. Len(s) : k < l => s[k] < s[l]
  /\ \A m \in 1 .. n : m \in numbers => \E k \in 1 .. Len(s) : s[k] = m

\* One number more.
LEMMA ListsOneMore ==
  ASSUME NEW numbers, NEW m \in Nat \ {0}, NEW s, Lists(s, numbers, m - 1),
         NEW part, part = IF m \in numbers THEN <<m>> ELSE <<>>
  PROVE  Lists(s \o part, numbers, m)
<1>1. /\ s \in Seq(1 .. m) /\ part \in Seq(1 .. m) /\ Len(s) \in Nat
      /\ \A k \in 1 .. Len(s) : s[k] \in numbers /\ s[k] \in 1 .. m - 1
      /\ \A k, l \in 1 .. Len(s) : k < l => s[k] < s[l]
      /\ \A i \in 1 .. m - 1 : i \in numbers => \E k \in 1 .. Len(s) : s[k] = i
  <2>1. s \in Seq(1 .. m - 1) /\ 1 .. m - 1 \subseteq 1 .. m /\ m \in 1 .. m
    BY DEF Lists
  <2>2. Len(s) \in Nat /\ \A k \in 1 .. Len(s) : s[k] \in 1 .. m - 1
    BY <2>1
  <2>3. s \in Seq(1 .. m)
    BY <2>1
  <2>4. part \in Seq(1 .. m)
    <3>1. <<m>> \in Seq(1 .. m) /\ <<>> \in Seq(1 .. m)
      BY <2>1
    <3> QED
      BY <3>1
  <2> QED
    BY <2>2, <2>3, <2>4 DEF Lists
<1>2. CASE m \in numbers
  <2> DEFINE u == s \o part
  <2>1. part = <<m>> /\ Len(<<m>>) = 1 /\ <<m>>[1] = m
    BY <1>2
  <2>2. u \in Seq(1 .. m) /\ IsJoin(u, s, part)
    BY <1>1, JoinFacts
  <2> HIDE DEF u
  <2>3. /\ Len(u) = Len(s) + 1 /\ u[Len(s) + 1] = m
        /\ \A k \in 1 .. Len(s) : u[k] = s[k]
    <3>1. 1 \in 1 .. Len(part) /\ Len(part) = 1 /\ part[1] = m
      BY <2>1
    <3> QED
      BY <2>2, <3>1 DEF IsJoin
  <2>4. ASSUME NEW k \in 1 .. Len(u) PROVE u[k] \in numbers
    <3>1. k \in 1 .. Len(s) \/ k = Len(s) + 1
      BY <1>1, <2>3
    <3> QED
      BY <1>1, <1>2, <2>3, <3>1
  <2>5. ASSUME NEW k \in 1 .. Len(u), NEW l \in 1 .. Len(u), k < l PROVE u[k] < u[l]
    <3>1. k \in 1 .. Len(s) /\ (l \in 1 .. Len(s) \/ l = Len(s) + 1)
      BY <1>1, <2>3, <2>5
    <3>2. CASE l \in 1 .. Len(s)
      BY <1>1, <2>3, <2>5, <3>1, <3>2
    <3>3. CASE l = Len(s) + 1
      <4>1. u[k] \in 1 .. m - 1 /\ u[l] = m
        BY <1>1, <2>3, <3>1, <3>3
      <4> QED
        BY <4>1
    <3> QED
      BY <3>1, <3>2, <3>3
  <2>6. ASSUME NEW i \in 1 .. m, i \in numbers PROVE \E k \in 1 .. Len(u) : u[k] = i
    <3>1. CASE i = m
      <4>1. Len(s) + 1 \in 1 .. Len(u)
        BY <1>1, <2>3
      <4> QED
        BY <2>3, <3>1, <4>1
    <3>2. CASE i # m
      <4>1. i \in 1 .. m - 1
        BY <3>2
      <4>2. PICK k \in 1 .. Len(s) : s[k] = i
        BY <1>1, <2>6, <4>1
      <4>3. k \in 1 .. Len(u)
        BY <1>1, <2>3
      <4> QED
        BY <2>3, <4>2, <4>3
    <3> QED
      BY <3>1, <3>2
  <2>7. Lists(u, numbers, m)
    BY <2>2, <2>4, <2>5, <2>6 DEF Lists
  <2> QED
    BY <2>7 DEF u
<1>3. CASE m \notin numbers
  <2>1. s \o part = s
    BY <1>1, <1>3, EmptyJoin
  <2>2. \A i \in 1 .. m : i \in numbers => i \in 1 .. m - 1
    BY <1>3
  <2>3. Lists(s, numbers, m)
    BY <1>1, <2>2 DEF Lists
  <2> QED
    BY <2>1, <2>3
<1> QED
  BY <1>2, <1>3

\* InOrder lists the numbers.
LEMMA InOrderLists ==
  ASSUME NEW numbers, NEW n \in Nat
  PROVE  Lists(InOrder(numbers, n), numbers, n)
<1> DEFINE Part(k) == IF k \in numbers THEN <<k>> ELSE <<>>
           parts == [k \in 1 .. n |-> Part(k)]
<1>1. ASSUME NEW k \in 1 .. n PROVE Part(k) \in Seq(Nat)
  OBVIOUS
<1> HIDE DEF Part
<1>2. parts \in Seq(Seq(Nat)) /\ Len(parts) = n /\ \A k \in 1 .. n : parts[k] = Part(k)
  BY <1>1
<1>3. InOrder(numbers, n) = FlattenSeq(parts)
  BY DEF InOrder, Part
<1> HIDE DEF parts
<1>4. PICK f \in [0 .. n -> Seq(Nat)] : Flattens(f, parts) /\ FlattenSeq(parts) = f[n]
  BY <1>2, FlattenSeqFacts
<1> DEFINE P == {m \in Nat : m <= n => Lists(f[m], numbers, m)}
<1>5. 0 \in P
  <2>1. f[0] = <<>>
    BY <1>4 DEF Flattens
  <2>2. /\ <<>> \in Seq(1 .. 0) /\ Len(<<>>) = 0
        /\ \A k \in 1 .. 0 : FALSE
    OBVIOUS
  <2>3. Lists(<<>>, numbers, 0)
    BY <2>2 DEF Lists
  <2> QED
    BY <2>1, <2>3
<1>6. ASSUME NEW m \in Nat, m \in P PROVE m + 1 \in P
  <2> SUFFICES ASSUME m + 1 <= n PROVE Lists(f[m + 1], numbers, m + 1)
    OBVIOUS
  <2>1. m + 1 \in 1 .. n /\ (m + 1) - 1 = m /\ m + 1 \in Nat \ {0} /\ m <= n
    OBVIOUS
  <2>2. f[m + 1] = f[m] \o Part(m + 1)
    BY <1>2, <1>4, <2>1 DEF Flattens
  <2>3. Lists(f[m], numbers, (m + 1) - 1)
    BY <1>6, <2>1
  <2>4. Lists(f[m] \o Part(m + 1), numbers, m + 1)
    BY <2>1, <2>3, ListsOneMore DEF Part
  <2> QED
    BY <2>2, <2>4
<1>7. n \in P
  <2> HIDE DEF P
  <2> QED
    BY <1>5, <1>6, Induction
<1> QED
  BY <1>3, <1>4, <1>7

-----------------------------------------------------------------------------

\* A prefix, and the next element.
OneLonger(x, k) == SubSeq(x, 1, k - 1) \o <<x[k]>> = SubSeq(x, 1, k)

\* That is so of every prefix.
LEMMA PrefixAndNext ==
  ASSUME NEW S, NEW x \in Seq(S), NEW k \in 1 .. Len(x)
  PROVE  OneLonger(x, k)
<1>1. 1 \in 1 .. Len(x) /\ k \in 1 .. Len(x)
  OBVIOUS
<1> QED
  BY <1>1, SubSeqRecursiveSecond DEF OneLonger

\* What becomes of one character.
NormalPart(text, i) ==
  IF text[i] # "cr" THEN <<text[i]>>
  ELSE IF i < Len(text) /\ text[i + 1] = "nl" THEN <<>> ELSE <<"nl">>

RestoredPart(x, c, i) == IF c /\ x[i] = "nl" THEN <<"cr", "nl">> ELSE <<x[i]>>

\* f joins the parts of a text, one for each character, to the whole.
Makes(f, parts, whole, C, N) ==
  /\ N \in Nat /\ Len(parts) = N /\ parts \in Seq(Seq(C)) /\ f \in [0 .. N -> Seq(C)]
  /\ Flattens(f, parts) /\ whole = f[N]

\* A text is normalised character by character.
LEMMA NormalizedFrom ==
  ASSUME NEW Char, "nl" \in Char, NEW text \in Seq(Char)
  PROVE  \E parts, f :
           /\ Makes(f, parts, NormalizeToLf(text), Char \ {"cr"}, Len(text))
           /\ \A i \in 1 .. Len(text) : parts[i] = NormalPart(text, i)
<1> DEFINE C == Char \ {"cr"}
           N == Len(text)
           parts == [i \in 1 .. N |-> NormalPart(text, i)]
<1>1. N \in Nat /\ DOMAIN text = 1 .. N /\ \A i \in 1 .. N : text[i] \in Char
  OBVIOUS
<1>2. ASSUME NEW i \in 1 .. N PROVE NormalPart(text, i) \in Seq(C)
  <2>1. text[i] # "cr" => text[i] \in C
    BY <1>1
  <2>2. "nl" \in C
    OBVIOUS
  <2> HIDE DEF C
  <2> QED
    BY <2>1, <2>2 DEF NormalPart
<1>3. NormalizeToLf(text) = FlattenSeq(parts)
  BY <1>1 DEF NormalizeToLf, NormalPart
<1> HIDE DEF N, C
<1>5. parts \in Seq(Seq(C)) /\ Len(parts) = N /\ \A i \in 1 .. N : parts[i] = NormalPart(text, i)
  BY <1>1, <1>2
<1> HIDE DEF parts
<1>6. PICK f \in [0 .. N -> Seq(C)] : Flattens(f, parts) /\ FlattenSeq(parts) = f[N]
  BY <1>5, FlattenSeqFacts
<1>7. Makes(f, parts, NormalizeToLf(text), C, N)
  BY <1>1, <1>3, <1>5, <1>6 DEF Makes
<1> QED
  BY <1>5, <1>7 DEF C, N

\* A text with normalised endings has no carriage return.
LEMMA NormalizedIs ==
  ASSUME NEW Char, "nl" \in Char, NEW text \in Seq(Char)
  PROVE  /\ NormalizeToLf(text) \in Seq(Char \ {"cr"})
         /\ text # <<>> => NormalizeToLf(text) # <<>>
<1> DEFINE N == Len(text)
           C == Char \ {"cr"}
<1>1. PICK parts, f : /\ Makes(f, parts, NormalizeToLf(text), C, N)
                      /\ \A i \in 1 .. N : parts[i] = NormalPart(text, i)
  BY NormalizedFrom
<1>2. ASSUME text # <<>> PROVE NormalizeToLf(text) # <<>>
  <2>1. N \in 1 .. N
    BY <1>2
  <2> HIDE DEF N
  <2>2. /\ parts \in Seq(Seq(C)) /\ f \in [0 .. Len(parts) -> Seq(C)] /\ Flattens(f, parts)
        /\ Len(parts) = N /\ NormalizeToLf(text) = f[N] /\ N \in 0 .. N /\ N - 1 \in 0 .. N
    BY <1>1, <2>1 DEF Makes
  <2> DEFINE part == NormalPart(text, N)
  <2>3. HoldsPart(f[N], f[N - 1], part) /\ part \in Seq(C)
    BY <1>1, <2>1, <2>2, FlattenedParts, PartsAndPrefixes
  <2>4. part # <<>>
    <3>1. ~(N < N)
      BY <2>1
    <3>2. \A c : <<c>> # <<>>
      OBVIOUS
    <3> QED
      BY <3>1, <3>2 DEF NormalPart, N
  <2> HIDE DEF part
  <2>5. Len(part) # 0 /\ Len(part) \in Nat
    BY <2>3, <2>4
  <2>6. f[N] \in Seq(C) /\ Len(f[N - 1]) \in Nat /\ Len(f[N]) \in Nat
    BY <2>2, PartsAndPrefixes
  <2>7. Len(f[N]) # 0
    BY <2>3, <2>5, <2>6 DEF HoldsPart
  <2>8. Len(<<>>) = 0
    OBVIOUS
  <2> QED
    BY <2>2, <2>7, <2>8
<1> QED
  BY <1>1, <1>2 DEF Makes

\* The endings of a text are restored character by character.
LEMMA RestoredFrom ==
  ASSUME NEW S, NEW x \in Seq(S), NEW c \in BOOLEAN, NEW C,
         \A i \in 1 .. Len(x) : RestoredPart(x, c, i) \in Seq(C)
  PROVE  \E parts, f :
           /\ Makes(f, parts, RestoreLineEndings(x, c), C, Len(x))
           /\ \A i \in 1 .. Len(x) : parts[i] = RestoredPart(x, c, i)
<1> DEFINE N == Len(x)
           parts == [i \in 1 .. N |-> RestoredPart(x, c, i)]
<1>1. N \in Nat /\ DOMAIN x = 1 .. N
  OBVIOUS
<1>2. \A i \in 1 .. N : RestoredPart(x, c, i) \in Seq(C)
  OBVIOUS
<1>3. RestoreLineEndings(x, c) = FlattenSeq(parts)
  BY <1>1 DEF RestoreLineEndings, RestoredPart
<1> HIDE DEF N
<1>5. parts \in Seq(Seq(C)) /\ Len(parts) = N /\ \A i \in 1 .. N : parts[i] = RestoredPart(x, c, i)
  BY <1>1, <1>2
<1> HIDE DEF parts
<1>6. PICK f \in [0 .. N -> Seq(C)] : Flattens(f, parts) /\ FlattenSeq(parts) = f[N]
  BY <1>5, FlattenSeqFacts
<1>7. Makes(f, parts, RestoreLineEndings(x, c), C, N)
  BY <1>1, <1>3, <1>5, <1>6 DEF Makes
<1> QED
  BY <1>5, <1>7 DEF N

\* Normalising takes back what restoring has done.
LEMMA RestoredAgain ==
  ASSUME NEW Char, {"nl", "cr"} \subseteq Char, NEW x \in Seq(Char \ {"cr"}), NEW c \in BOOLEAN
  PROVE  /\ RestoreLineEndings(x, c) \in Seq(Char)
         /\ NormalizeToLf(RestoreLineEndings(x, c)) = x
<1> DEFINE N == Len(x)
           y == RestoreLineEndings(x, c)
           M == Len(y)
<1>1. N \in Nat /\ \A i \in 1 .. N : x[i] \in Char /\ x[i] # "cr"
  OBVIOUS
<1>2. ASSUME NEW i \in 1 .. N PROVE RestoredPart(x, c, i) \in Seq(Char)
  <2>1. <<"cr", "nl">> \in Seq(Char)
    OBVIOUS
  <2> QED
    BY <1>1, <2>1 DEF RestoredPart
<1>3. PICK parts, f : /\ Makes(f, parts, y, Char, N)
                      /\ \A i \in 1 .. N : parts[i] = RestoredPart(x, c, i)
  BY <1>2, RestoredFrom
<1>4. y \in Seq(Char) /\ M \in Nat
  BY <1>1, <1>3 DEF Makes
<1>5. PICK nparts, g : /\ Makes(g, nparts, NormalizeToLf(y), Char \ {"cr"}, M)
                       /\ \A i \in 1 .. M : nparts[i] = NormalPart(y, i)
  BY <1>4, NormalizedFrom
<1> HIDE DEF y, M, N
<1> DEFINE P == {i \in Nat : i <= N => g[Len(f[i])] = SubSeq(x, 1, i)}
<1>6. 0 \in P
  <2>1. f[0] = <<>> /\ g[0] = <<>> /\ Len(<<>>) = 0
    BY <1>3, <1>5 DEF Makes, Flattens
  <2>2. SubSeq(x, 1, 0) = <<>>
    OBVIOUS
  <2> QED
    BY <2>1, <2>2
<1>7. ASSUME NEW i \in Nat, i \in P PROVE i + 1 \in P
  <2> SUFFICES ASSUME i + 1 <= N PROVE g[Len(f[i + 1])] = SubSeq(x, 1, i + 1)
    OBVIOUS
  <2> DEFINE k == i + 1
             L == Len(f[i])
  <2>1. k \in 1 .. N /\ k - 1 = i /\ i \in 0 .. N /\ i <= N
    BY <1>1
  <2>2. /\ f[k] = f[k - 1] \o parts[k] /\ f[k - 1] \in Seq(Char) /\ parts[k] \in Seq(Char)
        /\ HoldsPart(y, f[k - 1], parts[k])
    <3>1. /\ parts \in Seq(Seq(Char)) /\ f \in [0 .. Len(parts) -> Seq(Char)] /\ Flattens(f, parts)
          /\ k \in 1 .. Len(parts) /\ Len(parts) = N /\ y = f[Len(parts)]
      BY <1>3, <2>1 DEF Makes
    <3> HIDE DEF k
    <3>2. HoldsPart(f[Len(parts)], f[k - 1], parts[k])
      BY <3>1, FlattenedParts
    <3>3. f[k] = f[k - 1] \o parts[k]
      BY <3>1 DEF Flattens
    <3>4. f[k - 1] \in Seq(Char) /\ parts[k] \in Seq(Char)
      BY <3>1, PartsAndPrefixes
    <3> QED
      BY <3>1, <3>2, <3>3, <3>4
  <2>3. L \in Nat /\ f[i] \in Seq(Char)
    BY <2>1, <2>2
  <2>4. Len(f[k]) = L + Len(parts[k])
    BY <2>1, <2>2, JoinFacts DEF IsJoin
  <2>5. g[L] = SubSeq(x, 1, k - 1)
    BY <1>7, <2>1
  <2>6. \A p \in 1 .. M : g[p] = g[p - 1] \o NormalPart(y, p) /\ g[p] \in Seq(Char) /\ g[p - 1] \in Seq(Char)
    <3>1. /\ nparts \in Seq(Seq(Char \ {"cr"})) /\ g \in [0 .. Len(nparts) -> Seq(Char \ {"cr"})]
          /\ Flattens(g, nparts) /\ Len(nparts) = M /\ M \in Nat
      BY <1>5 DEF Makes
    <3>2. \A s \in Seq(Char \ {"cr"}) : s \in Seq(Char)
      OBVIOUS
    <3>3. \A p \in 1 .. M : p \in 0 .. M /\ p - 1 \in 0 .. M
      BY <3>1
    <3> QED
      BY <1>5, <3>1, <3>2, <3>3 DEF Flattens
  <2>7. OneLonger(x, k) /\ x[k] # "cr"
    BY <1>1, <2>1, PrefixAndNext DEF N
  <2>8. L + Len(parts[k]) <= M /\ \A j \in 1 .. Len(parts[k]) : y[L + j] = parts[k][j]
    BY <2>1, <2>2 DEF HoldsPart, M
  <2> HIDE DEF k, L
  <2>9. CASE c /\ x[k] = "nl"
    <3>1. parts[k] = <<"cr", "nl">>
      BY <1>3, <2>1, <2>9 DEF RestoredPart
    <3>2. Len(parts[k]) = 2 /\ parts[k][1] = "cr" /\ parts[k][2] = "nl"
      BY <3>1
    <3>3. y[L + 1] = "cr" /\ y[L + 2] = "nl" /\ L + 2 <= M
      <4>1. 1 \in 1 .. 2 /\ 2 \in 1 .. 2
        OBVIOUS
      <4> QED
        BY <2>8, <3>2, <4>1
    <3>4. /\ L + 1 \in 1 .. M /\ L + 2 \in 1 .. M /\ (L + 1) - 1 = L /\ (L + 2) - 1 = L + 1
          /\ (L + 1) + 1 = L + 2 /\ L + 1 < M
      BY <1>4, <2>3, <3>3 DEF L
    <3>5. NormalPart(y, L + 1) = <<>> /\ NormalPart(y, L + 2) = <<"nl">>
      BY <3>3, <3>4 DEF NormalPart, M
    <3>6. g[L + 1] = g[L] \o <<>> /\ g[L] \in Seq(Char)
      BY <2>6, <3>4, <3>5
    <3>7. g[L + 1] = g[L]
      BY <3>6, EmptyJoin
    <3>8. g[L + 2] = g[L + 1] \o <<"nl">>
      BY <2>6, <3>4, <3>5
    <3> QED
      BY <2>4, <2>5, <2>7, <2>9, <3>2, <3>7, <3>8 DEF OneLonger, k
  <2>10. CASE ~(c /\ x[k] = "nl")
    <3>1. parts[k] = <<x[k]>>
      BY <1>3, <2>1, <2>10 DEF RestoredPart
    <3>2. Len(parts[k]) = 1 /\ parts[k][1] = x[k]
      BY <3>1
    <3>3. y[L + 1] = x[k] /\ L + 1 <= M
      <4>1. 1 \in 1 .. 1
        OBVIOUS
      <4> QED
        BY <2>8, <3>2, <4>1
    <3>4. L + 1 \in 1 .. M /\ (L + 1) - 1 = L
      BY <1>4, <2>3, <3>3 DEF L
    <3>5. NormalPart(y, L + 1) = <<x[k]>>
      BY <2>7, <3>3 DEF NormalPart
    <3>6. g[L + 1] = g[L] \o <<x[k]>>
      BY <2>6, <3>4, <3>5
    <3> QED
      BY <2>4, <2>5, <2>7, <3>2, <3>6 DEF OneLonger, k
  <2> QED
    BY <2>9, <2>10
<1>8. N \in P
  <2> HIDE DEF P
  <2> QED
    BY <1>1, <1>6, <1>7, Induction
<1>9. g[Len(f[N])] = SubSeq(x, 1, N)
  BY <1>1, <1>8
<1>10. Len(f[N]) = M /\ NormalizeToLf(y) = g[M]
  BY <1>3, <1>5 DEF Makes, M
<1>11. SubSeq(x, 1, N) = x
  BY SubSeqFull DEF N
<1> QED
  BY <1>4, <1>9, <1>10, <1>11 DEF y

\* What was restored has one kind of ending, and the one that was asked for.
LEMMA EndingsOfRestored ==
  ASSUME NEW Char, {"nl", "cr"} \subseteq Char, NEW x \in Seq(Char \ {"cr"}), NEW c \in BOOLEAN
  PROVE  LET y == RestoreLineEndings(x, c)
         IN  UniformEndings(y) /\ ("nl" \in Range(y) => UsesCrlf(y) = c)
<1> DEFINE y == RestoreLineEndings(x, c)
           N == Len(x)
<1>1. y \in Seq(Char) /\ NormalizeToLf(y) = x
  BY RestoredAgain
<1>2. N \in Nat /\ DOMAIN x = 1 .. N /\ \A i \in 1 .. N : x[i] \in Char \ {"cr"}
  OBVIOUS
<1>3. UsesCrlf(y) \in BOOLEAN
  BY DEF UsesCrlf
<1>4. CASE \A i \in 1 .. N : x[i] # "nl"
  <2>1. \A d \in BOOLEAN : RestoreLineEndings(x, d) = FlattenSeq([i \in DOMAIN x |-> <<x[i]>>])
    BY <1>2, <1>4 DEF RestoreLineEndings
  <2>2. UniformEndings(y)
    BY <1>1, <1>3, <2>1 DEF UniformEndings
  <2>3. \A i \in 1 .. N : RestoredPart(x, c, i) \in Seq(Char \ {"nl"})
    <3> SUFFICES ASSUME NEW i \in 1 .. N PROVE RestoredPart(x, c, i) \in Seq(Char \ {"nl"})
      OBVIOUS
    <3>1. RestoredPart(x, c, i) = <<x[i]>> /\ x[i] \in Char \ {"nl"}
      BY <1>2, <1>4 DEF RestoredPart
    <3> QED
      BY <3>1
  <2>4. PICK parts, f : Makes(f, parts, y, Char \ {"nl"}, N)
    BY <2>3, RestoredFrom
  <2>5. y \in Seq(Char \ {"nl"})
    BY <1>2, <2>4 DEF Makes
  <2> HIDE DEF y
  <2>6. "nl" \notin Range(y)
    BY <2>5 DEF Range
  <2> QED
    BY <2>2, <2>6 DEF y
<1>5. CASE ~(\A i \in 1 .. N : x[i] # "nl")
  <2>1. UsesCrlf(y) = c
    <3>1. CASE c = FALSE
      <4>1. \A i \in 1 .. N : RestoredPart(x, c, i) \in Seq(Char \ {"cr"})
        BY <1>2, <3>1 DEF RestoredPart
      <4>2. PICK parts, f : Makes(f, parts, y, Char \ {"cr"}, N)
        BY <4>1, RestoredFrom
      <4>3. y \in Seq(Char \ {"cr"})
        BY <1>2, <4>2 DEF Makes
      <4> HIDE DEF y
      <4>4. \A i \in DOMAIN y : i > 1 => y[i - 1] # "cr"
        BY <4>3
      <4>5. ~UsesCrlf(y)
        BY <4>4 DEF UsesCrlf
      <4> QED
        BY <1>3, <3>1, <4>5
    <3>2. CASE c = TRUE
      <4> DEFINE T == {i \in 1 .. N : x[i] = "nl"}
      <4>1. T \subseteq Nat /\ T # {}
        BY <1>2, <1>5
      <4>2. PICK k \in T : \A i \in T : k <= i
        BY <4>1, LeastNat
      <4>3. k \in 1 .. N /\ x[k] = "nl" /\ \A i \in 1 .. k - 1 : i \in 1 .. N /\ x[i] # "nl"
        BY <4>2
      <4>4. \A i \in 1 .. N : RestoredPart(x, c, i) \in Seq(Char)
        BY <1>2 DEF RestoredPart
      <4>5. PICK parts, f : /\ Makes(f, parts, y, Char, N)
                            /\ \A i \in 1 .. N : parts[i] = RestoredPart(x, c, i)
        BY <4>4, RestoredFrom
      <4> DEFINE C == Char \ {"nl"}
      <4> HIDE DEF T, y, N
      <4>6. /\ parts \in Seq(Seq(Char)) /\ f \in [0 .. Len(parts) -> Seq(Char)] /\ Flattens(f, parts)
            /\ Len(parts) = N /\ y = f[N] /\ k - 1 \in 0 .. N /\ N \in k - 1 .. N /\ k - 1 \in Nat
        BY <1>2, <4>3, <4>5 DEF Makes
      <4>7. f[k - 1] \in Seq(C)
        <5>1. f[0] \in Seq(C)
          BY <4>6 DEF Flattens
        <5>2. ASSUME NEW n \in 1 .. k - 1, f[n - 1] \in Seq(C) PROVE f[n] \in Seq(C)
          <6>1. n \in 1 .. N /\ f[n] = f[n - 1] \o parts[n] /\ parts[n] = RestoredPart(x, c, n)
            BY <4>3, <4>5, <4>6 DEF Flattens
          <6>2. parts[n] = <<x[n]>> /\ x[n] \in C
            BY <1>2, <4>3, <6>1 DEF RestoredPart
          <6>3. <<x[n]>> \in Seq(C)
            BY <6>2
          <6> QED
            BY <5>2, <6>1, <6>2, <6>3, JoinFacts
        <5>3. AllIn(f, Seq(C), k - 1)
          BY <4>6, <5>1, <5>2, AlongTheFunction
        <5>4. k - 1 \in 0 .. k - 1
          BY <4>6
        <5> QED
          BY <5>3, <5>4 DEF AllIn
      <4> DEFINE L == Len(f[k - 1])
      <4>8. L \in Nat /\ \A j \in 1 .. L : f[k - 1][j] # "nl"
        BY <4>7
      <4> HIDE DEF C
      <4>9. HoldsPart(y, f[k - 1], parts[k])
        BY <4>3, <4>6, FlattenedParts
      <4>10. StaysAt(f, parts, k - 1, N)
        BY <4>6, FlattenedStays
      <4>11. parts[k] = <<"cr", "nl">>
        BY <3>2, <4>3, <4>5 DEF RestoredPart
      <4>12. Len(parts[k]) = 2 /\ parts[k][1] = "cr" /\ parts[k][2] = "nl" /\ 1 \in 1 .. 2 /\ 2 \in 1 .. 2
        BY <4>11
      <4>13. y[L + 1] = "cr" /\ y[L + 2] = "nl" /\ L + 2 <= Len(y)
        BY <4>9, <4>12 DEF HoldsPart
      <4>14. \A j \in 1 .. L : y[j] # "nl"
        BY <4>6, <4>8, <4>10 DEF StaysAt
      <4> HIDE DEF L
      <4>15. /\ L + 2 \in DOMAIN y /\ L + 2 > 1 /\ (L + 2) - 1 = L + 1
             /\ \A j \in 1 .. L + 1 : j \in 1 .. L \/ j = L + 1
        BY <1>1, <4>8, <4>13
      <4>16. \A j \in 1 .. (L + 2) - 1 : y[j] # "nl"
        BY <4>13, <4>14, <4>15
      <4>17. UsesCrlf(y)
        BY <4>13, <4>15, <4>16 DEF UsesCrlf
      <4> QED
        BY <1>3, <3>2, <4>17
    <3> QED
      BY <3>1, <3>2
  <2>2. UniformEndings(y)
    BY <1>1, <2>1 DEF UniformEndings
  <2> QED
    BY <2>1, <2>2
<1> QED
  BY <1>4, <1>5

-----------------------------------------------------------------------------
\* What the search has found in the first n positions: the first occurrence, and
\* whether there is another one behind it that does not overlap it.
FoundUpto(s, occurrences, width, n) ==
  /\ s \in Seq(occurrences)
  /\ s = <<>> => \A q \in occurrences : ~(q <= n)
  /\ s # <<>> => \A q \in occurrences : s[1] <= q
  /\ Len(s) = 1 => \A q \in occurrences : q <= n => q < s[1] + width
  /\ Len(s) \notin {0, 1} => \E q \in occurrences : q >= s[1] + width

\* One position more.
SearchOn(s, occurrences, width, n) ==
  IF n \in occurrences /\ (s # <<>> => n >= Last(s) + width) THEN Append(s, n) ELSE s

\* The search goes on by one position.
LEMMA FoundOneMore ==
  ASSUME NEW n \in Nat \ {0}, NEW width \in Nat \ {0}, NEW occurrences \in SUBSET Nat, NEW s,
         FoundUpto(s, occurrences, width, n - 1)
  PROVE  FoundUpto(SearchOn(s, occurrences, width, n), occurrences, width, n)
<1> DEFINE t == SearchOn(s, occurrences, width, n)
<1>1. s \in Seq(occurrences) /\ Len(s) \in Nat /\ n \in Nat /\ width \in Nat /\ (s = <<>> <=> Len(s) = 0)
  BY DEF FoundUpto
<1>2. \A q \in occurrences : q \in Nat /\ (q <= n <=> q <= n - 1 \/ q = n)
  OBVIOUS
<1>3. CASE n \in occurrences /\ (s # <<>> => n >= Last(s) + width)
  <2>1. t = Append(s, n)
    BY <1>3 DEF SearchOn
  <2>2. /\ t \in Seq(occurrences) /\ Len(t) = Len(s) + 1 /\ t[Len(s) + 1] = n
        /\ \A k \in 1 .. Len(s) : t[k] = s[k]
    BY <1>1, <1>3, <2>1, AppendProperties
  <2> HIDE DEF t
  <2>3. CASE s = <<>>
    <3>1. Len(t) = 1 /\ t[1] = n /\ \A q \in occurrences : ~(q <= n - 1)
      BY <1>1, <2>2, <2>3 DEF FoundUpto
    <3>2. \A q \in occurrences : n <= q /\ (q <= n => q < n + width)
      <4> SUFFICES ASSUME NEW q \in occurrences PROVE n <= q /\ (q <= n => q < n + width)
        OBVIOUS
      <4>1. q \in Nat /\ ~(q <= n - 1)
        BY <3>1
      <4> QED
        BY <1>1, <4>1
    <3>3. t # <<>> /\ 1 \in {0, 1}
      <4>1. Len(<<>>) = 0
        OBVIOUS
      <4> QED
        BY <3>1, <4>1
    <3> QED
      BY <2>2, <3>1, <3>2, <3>3 DEF FoundUpto, t
  <2>4. CASE s # <<>>
    <3>1. Len(s) # 0 /\ t[1] = s[1] /\ Len(t) # 0 /\ Len(t) # 1 /\ 1 \in 1 .. Len(s)
      <4>1. Len(s) # 0 /\ 1 \in 1 .. Len(s)
        BY <1>1, <2>4
      <4> QED
        BY <1>1, <2>2, <4>1
    <3>2. t # <<>>
      <4>1. Len(<<>>) = 0
        OBVIOUS
      <4> QED
        BY <3>1, <4>1
    <3>3. \A q \in occurrences : t[1] <= q
      BY <2>4, <3>1 DEF FoundUpto
    <3>4. \E q \in occurrences : q >= t[1] + width
      <4>1. CASE Len(s) = 1
        <5>1. Last(s) = s[1]
          BY <4>1 DEF Last
        <5>2. n \in occurrences /\ n >= s[1] + width
          BY <1>3, <2>4, <5>1
        <5> QED
          BY <3>1, <5>2
      <4>2. CASE Len(s) # 1
        BY <3>1, <4>2 DEF FoundUpto
      <4> QED
        BY <4>1, <4>2
    <3> QED
      BY <2>2, <3>1, <3>2, <3>3, <3>4 DEF FoundUpto, t
  <2> QED
    BY <2>3, <2>4
<1>4. CASE ~(n \in occurrences /\ (s # <<>> => n >= Last(s) + width))
  <2>1. t = s
    BY <1>4 DEF SearchOn
  <2>2. s = <<>> => \A q \in occurrences : ~(q <= n)
    <3> SUFFICES ASSUME s = <<>>, NEW q \in occurrences, q <= n PROVE FALSE
      OBVIOUS
    <3>1. ~(q <= n - 1) /\ q # n
      BY <1>4 DEF FoundUpto
    <3> QED
      BY <1>2, <3>1
  <2>3. Len(s) = 1 => \A q \in occurrences : q <= n => q < s[1] + width
    <3> SUFFICES ASSUME Len(s) = 1, NEW q \in occurrences, q <= n PROVE q < s[1] + width
      OBVIOUS
    <3>1. CASE q <= n - 1
      BY <3>1 DEF FoundUpto
    <3>2. CASE q = n
      <4>1. s # <<>> /\ Last(s) = s[1]
        BY <1>1 DEF Last
      <4>2. ~(n >= s[1] + width)
        BY <1>4, <3>2, <4>1
      <4>3. s[1] \in Nat
        <5>1. 1 \in 1 .. Len(s)
          BY <3>2
        <5>2. s[1] \in occurrences
          BY <1>1, <5>1
        <5> QED
          BY <5>2
      <4> QED
        BY <1>1, <3>2, <4>2, <4>3
    <3> QED
      BY <1>2, <3>1, <3>2
  <2> HIDE DEF t
  <2>4. FoundUpto(s, occurrences, width, n)
    BY <2>2, <2>3 DEF FoundUpto
  <2> QED
    BY <2>1, <2>4 DEF t
<1> QED
  BY <1>3, <1>4

\* Occurrences lie within the text.
LEMMA OccurrencesWithin ==
  ASSUME NEW Char, NEW content \in Seq(Char), NEW old \in Seq(Char), old # <<>>
  PROVE  /\ Len(old) \in Nat \ {0} /\ Len(content) \in Nat
         /\ \A q \in Occurrences(content, old) :
              q \in 1 .. Len(content) /\ q + Len(old) <= Len(content) + 1
<1>1. Len(old) \in Nat \ {0} /\ Len(content) \in Nat
  OBVIOUS
<1> QED
  BY <1>1 DEF Occurrences

\* The search finds the first occurrence, and another one exactly if one does not
\* overlap it.
LEMMA SearchFinds ==
  ASSUME NEW Char, NEW content \in Seq(Char), NEW old \in Seq(Char), old # <<>>
  PROVE  FoundUpto(FindTextStarts(content, old), Occurrences(content, old), Len(old), Len(content))
<1> DEFINE N == Len(content)
           occ == Occurrences(content, old)
           w == Len(old)
           A == Seq(occ)
           Step(r, n) == SearchOn(r, occ, w, n)
           step == [p \in A \X (1 .. N) |-> Step(p[1], p[2])]
           Right(f) == f = [n \in 0 .. N |-> IF n = 0 THEN <<>> ELSE Step(f[n - 1], n)]
           found == CHOOSE f : Right(f)
<1>1. N \in Nat /\ w \in Nat \ {0} /\ occ \in SUBSET Nat /\ \A q \in occ : q \in 1 .. N
  BY OccurrencesWithin
<1>2. /\ 0 \in 0 .. N /\ N \in 0 .. N
      /\ \A n \in 1 .. N : n - 1 \in 0 .. N /\ n \in 0 .. N /\ n \in Nat \ {0}
  BY <1>1
<1>3. FindTextStarts(content, old) = found[N]
  BY DEF FindTextStarts, SearchOn
<1> HIDE DEF N, occ, w
<1>4. ASSUME NEW r \in A, NEW n \in 1 .. N PROVE Step(r, n) \in A
  <2>1. n \in occ => Append(r, n) \in A
    OBVIOUS
  <2> QED
    BY <2>1 DEF SearchOn
<1>5. step \in [A \X (1 .. N) -> A]
  <2> HIDE DEF Step, A
  <2> QED
    BY <1>4
<1>6. PICK f \in [0 .. N -> A] : Recurses(f, <<>>, step, N)
  <2>1. <<>> \in A
    OBVIOUS
  <2> HIDE DEF step, A
  <2> QED
    BY <1>1, <1>5, <2>1, Recursion
<1> HIDE DEF Step, A
<1>7. Right(f)
  <2>1. ASSUME NEW n \in 0 .. N
        PROVE  f[n] = IF n = 0 THEN <<>> ELSE Step(f[n - 1], n)
    <3>1. CASE n = 0
      BY <1>6, <3>1 DEF Recurses
    <3>2. CASE n # 0
      <4>1. n \in 1 .. N /\ f[n - 1] \in A
        BY <1>1, <1>6, <3>2
      <4> QED
        BY <1>6, <3>2, <4>1 DEF Recurses
    <3> QED
      BY <3>1, <3>2
  <2> QED
    BY <1>6, <2>1
<1>8. Right(found)
  <2> HIDE DEF Right
  <2> QED
    BY <1>7
<1>9. found[0] = <<>> /\ \A n \in 1 .. N : found[n] = Step(found[n - 1], n)
  <2> HIDE DEF found
  <2> QED
    BY <1>2, <1>8
<1> HIDE DEF found, Right
<1> DEFINE P == {n \in Nat : n <= N => FoundUpto(found[n], occ, w, n)}
<1>10. 0 \in P
  <2>1. <<>> \in Seq(occ) /\ Len(<<>>) = 0 /\ 0 \in {0, 1}
    OBVIOUS
  <2>2. \A q \in occ : ~(q <= 0)
    BY <1>1
  <2>3. FoundUpto(<<>>, occ, w, 0)
    BY <2>1, <2>2 DEF FoundUpto
  <2> QED
    BY <1>9, <2>3
<1>11. ASSUME NEW n \in Nat, n \in P PROVE n + 1 \in P
  <2> SUFFICES ASSUME n + 1 <= N PROVE FoundUpto(found[n + 1], occ, w, n + 1)
    OBVIOUS
  <2>1. n + 1 \in 1 .. N /\ (n + 1) - 1 = n /\ n <= N /\ n + 1 \in Nat \ {0}
    BY <1>1
  <2>2. FoundUpto(found[n], occ, w, (n + 1) - 1)
    BY <1>11, <2>1
  <2>3. FoundUpto(Step(found[n], n + 1), occ, w, n + 1)
    BY <1>1, <2>1, <2>2, FoundOneMore DEF Step
  <2> QED
    BY <1>9, <2>1, <2>3
<1>12. N \in P
  <2> HIDE DEF P
  <2> QED
    BY <1>1, <1>10, <1>11, Induction
<1> QED
  BY <1>1, <1>3, <1>12 DEF N, occ, w

\* Spans of a text of n characters that begin at one of them.
SpansOf(n) == {r \in [first : 1 .. n, next : 1 .. n + 1] : r.first <= r.next}

\* Two positions in their order make a span.
LEMMA IsSpan ==
  ASSUME NEW n, NEW a \in 1 .. n, NEW b \in 1 .. n + 1, a <= b
  PROVE  [first |-> a, next |-> b] \in SpansOf(n)
BY DEF SpansOf

\* The spans of an old text that is found as it is.
LEMMA ExactSpansWithin ==
  ASSUME NEW Char, NEW content \in Seq(Char), NEW old \in Seq(Char), old # <<>>
  PROVE  ExactSpans(content, old) \in Seq(SpansOf(Len(content)))
<1> DEFINE N == Len(content)
           s == FindTextStarts(content, old)
           Part(k) == [first |-> s[k], next |-> s[k] + Len(old)]
<1>1. /\ Len(old) \in Nat \ {0} /\ N \in Nat
      /\ \A q \in Occurrences(content, old) : q \in 1 .. N /\ q + Len(old) <= N + 1
  BY OccurrencesWithin
<1>2. s \in Seq(Occurrences(content, old))
  BY SearchFinds DEF FoundUpto
<1>3. Len(s) \in Nat /\ DOMAIN s = 1 .. Len(s)
  BY <1>2
<1> HIDE DEF s, N
<1>4. ASSUME NEW k \in 1 .. Len(s) PROVE Part(k) \in SpansOf(N)
  <2>1. s[k] \in Occurrences(content, old)
    BY <1>2, <1>3
  <2>2. s[k] \in 1 .. N /\ s[k] + Len(old) <= N + 1
    BY <1>1, <2>1
  <2>3. s[k] + Len(old) \in 1 .. N + 1 /\ s[k] <= s[k] + Len(old)
    BY <1>1, <2>2
  <2> QED
    BY <2>2, <2>3 DEF SpansOf
<1>5. ExactSpans(content, old) = [k \in 1 .. Len(s) |-> Part(k)]
  BY <1>3 DEF ExactSpans, s
<1> HIDE DEF Part
<1>6. [k \in 1 .. Len(s) |-> Part(k)] \in Seq(SpansOf(N))
  BY <1>3, <1>4
<1> QED
  BY <1>5, <1>6 DEF N

\* The lines of a text of n characters, by their starts and their lengths.
LinesWithin(starts, lines, n) ==
  /\ Len(starts) \in Nat /\ lines = [k \in 1 .. Len(starts) |-> lines[k]] /\ Len(lines) = Len(starts)
  /\ \A k \in 1 .. Len(starts) : starts[k] \in 1 .. n
  /\ \A k, l \in 1 .. Len(starts) : k <= l => starts[k] <= starts[l]
  /\ \A k \in 1 .. Len(starts) :
       Len(lines[k]) \in Nat \ {0} /\ starts[k] + Len(lines[k]) <= n + 1
  /\ n # 0 => Len(starts) # 0

\* The lines of a text are within it.
LEMMA LinesAreWithin ==
  ASSUME NEW Char, NEW content \in Seq(Char)
  PROVE  LinesWithin(LineStarts(content), TerminatedLines(content), Len(content))
<1> DEFINE n == Len(content)
           numbers == {i \in DOMAIN content : i = 1 \/ content[i - 1] = "nl"}
           s == LineStarts(content)
           End(k) == IF k < Len(s) THEN s[k + 1] - 1 ELSE n
           Part(k) == SubSeq(content, s[k], End(k))
           lines == TerminatedLines(content)
<1>1. n \in Nat /\ DOMAIN content = 1 .. n /\ \A i \in 1 .. n : content[i] \in Char
  OBVIOUS
<1>2. Lists(s, numbers, n)
  BY <1>1, InOrderLists DEF LineStarts
<1>3. n # 0 => 1 \in numbers /\ 1 \in 1 .. n
  BY <1>1
<1> HIDE DEF numbers, s
<1>4. Len(s) \in Nat /\ DOMAIN s = 1 .. Len(s) /\ \A k \in 1 .. Len(s) : s[k] \in 1 .. n
  BY <1>2 DEF Lists
<1>5. lines = [k \in 1 .. Len(s) |-> Part(k)]
  BY <1>4 DEF TerminatedLines, s
<1> HIDE DEF lines, n
<1>6. ASSUME NEW k \in 1 .. Len(s) PROVE Len(Part(k)) = End(k) - s[k] + 1 /\ End(k) \in s[k] .. n
  <2>1. End(k) \in s[k] .. n
    <3>1. CASE k < Len(s)
      <4>1. k + 1 \in 1 .. Len(s) /\ k < k + 1
        BY <1>4, <3>1
      <4>2. s[k] < s[k + 1] /\ s[k] \in 1 .. n /\ s[k + 1] \in 1 .. n
        BY <1>2, <1>4, <4>1 DEF Lists
      <4>3. s[k + 1] - 1 \in s[k] .. n
        BY <1>1, <4>2
      <4> QED
        BY <3>1, <4>3
    <3>2. CASE ~(k < Len(s))
      <4>1. s[k] \in 1 .. n
        BY <1>4
      <4> QED
        BY <1>1, <3>2, <4>1
    <3> QED
      BY <3>1, <3>2
  <2> DEFINE lo == s[k]
             hi == End(k)
  <2>2. lo \in 1 .. n
    BY <1>4
  <2> HIDE DEF End, lo
  <2> HIDE DEF hi
  <2>3. hi \in lo .. n
    BY <2>1 DEF lo, hi
  <2>4. lo \in Int /\ hi \in Int /\ lo <= hi /\ \A i \in lo .. hi : content[i] \in Char
    BY <1>1, <2>2, <2>3
  <2>5. Len(SubSeq(content, lo, hi)) = hi - lo + 1
    BY <2>4, SubSeqProperties
  <2> QED
    BY <2>1, <2>5 DEF lo, hi
<1>7. ASSUME NEW k \in 1 .. Len(s), NEW l \in 1 .. Len(s), k <= l PROVE s[k] <= s[l]
  <2>1. s[k] \in Nat /\ s[l] \in Nat
    BY <1>4
  <2>2. CASE k = l
    BY <2>1, <2>2
  <2>3. CASE k # l
    <3>1. k < l
      BY <1>4, <1>7, <2>3
    <3> QED
      BY <1>2, <2>1, <3>1 DEF Lists
  <2> QED
    BY <2>2, <2>3
<1>8. \A k \in 1 .. Len(s) : Len(Part(k)) \in Nat \ {0} /\ s[k] + Len(Part(k)) <= n + 1
  <2> SUFFICES ASSUME NEW k \in 1 .. Len(s)
               PROVE  Len(Part(k)) \in Nat \ {0} /\ s[k] + Len(Part(k)) <= n + 1
    OBVIOUS
  <2> HIDE DEF End, Part
  <2>1. Len(Part(k)) = End(k) - s[k] + 1 /\ End(k) \in s[k] .. n /\ s[k] \in 1 .. n
    BY <1>4, <1>6
  <2> QED
    BY <1>1, <2>1
<1> HIDE DEF Part
<1>9. lines = [k \in 1 .. Len(s) |-> lines[k]] /\ Len(lines) = Len(s)
      /\ \A k \in 1 .. Len(s) : lines[k] = Part(k)
  BY <1>4, <1>5
<1>10. n # 0 => Len(s) # 0
  BY <1>2, <1>3, <1>4 DEF Lists
<1> QED
  BY <1>4, <1>7, <1>8, <1>9, <1>10 DEF LinesWithin, s, lines, n

\* The characters of a run of lines.
LEMMA WindowWithin ==
  ASSUME NEW Char, NEW content \in Seq(Char), NEW window, Len(window) \in Nat \ {0},
         NEW k \in 1 .. Len(LineStarts(content)) - Len(window) + 1
  PROVE  WindowCharSpan(content, window, k) \in SpansOf(Len(content))
<1> DEFINE N == Len(content)
           s == LineStarts(content)
           L == TerminatedLines(content)
           W == Len(window)
           l == k + W - 1
           x == IF ~Ends(Last(window), "nl") /\ Ends(L[l], "nl") THEN 1 ELSE 0
<1>1. LinesWithin(s, L, N) /\ N \in Nat
  BY LinesAreWithin
<1>2. WindowCharSpan(content, window, k) = [first |-> s[k], next |-> s[l] + Len(L[l]) - x]
  BY DEF WindowCharSpan
<1>3. Len(s) \in Nat /\ W \in Nat \ {0} /\ k \in 1 .. Len(s) - W + 1
  BY <1>1 DEF LinesWithin
<1>4. x \in {0, 1}
  OBVIOUS
<1> HIDE DEF x, s, L, N, W
<1>5. k \in 1 .. Len(s) /\ l \in 1 .. Len(s) /\ k <= l
  BY <1>3
<1> HIDE DEF l
<1>6. /\ s[k] \in 1 .. N /\ s[l] \in 1 .. N /\ s[k] <= s[l]
      /\ Len(L[l]) \in Nat \ {0} /\ s[l] + Len(L[l]) <= N + 1
  BY <1>1, <1>5 DEF LinesWithin
<1>7. s[l] + Len(L[l]) - x \in 1 .. N + 1 /\ s[k] <= s[l] + Len(L[l]) - x
  <2>1. \A a, b \in 1 .. N, e \in Nat \ {0}, z \in {0, 1} :
          a <= b /\ b + e <= N + 1 => b + e - z \in 1 .. N + 1 /\ a <= b + e - z
    BY <1>1
  <2> QED
    BY <1>4, <1>6, <2>1
<1> QED
  BY <1>2, <1>6, <1>7, IsSpan DEF N

\* The spans of an old text that is found as whole lines.
LEMMA FuzzySpansWithin ==
  ASSUME NEW Char, NEW content \in Seq(Char), NEW old \in Seq(Char), old # <<>>
  PROVE  FuzzySpans(content, old) \in Seq(SpansOf(Len(content)))
<1> DEFINE lines == NormalizedLines(content)
           window == NormalizedLines(old)
           W == Len(window)
           numbers == {k \in 1 .. (Len(lines) - W + 1) : WindowMatchesAt(lines, window, k)}
           starts == FindWindowStarts(lines, window)
           Part(m) == WindowCharSpan(content, window, starts[m])
<1>1. Len(lines) = Len(LineStarts(content)) /\ Len(lines) \in Nat
  BY LinesAreWithin DEF NormalizedLines, LinesWithin
<1>2. W \in Nat \ {0}
  <2>1. LinesWithin(LineStarts(old), TerminatedLines(old), Len(old)) /\ Len(old) # 0
    BY LinesAreWithin
  <2> QED
    BY <2>1 DEF NormalizedLines, LinesWithin
<1>3. FuzzySpans(content, old) = [m \in DOMAIN starts |-> Part(m)]
  BY DEF FuzzySpans
<1> HIDE DEF lines, window
<1>4. Lists(starts, numbers, Len(lines))
  BY <1>1, InOrderLists DEF FindWindowStarts
<1> HIDE DEF starts
<1>5. Len(starts) \in Nat /\ DOMAIN starts = 1 .. Len(starts)
      /\ \A m \in 1 .. Len(starts) : starts[m] \in 1 .. Len(lines) - W + 1
  BY <1>4 DEF Lists
<1>6. \A m \in 1 .. Len(starts) : Part(m) \in SpansOf(Len(content))
  BY <1>1, <1>2, <1>5, WindowWithin
<1> HIDE DEF Part
<1>7. [m \in 1 .. Len(starts) |-> Part(m)] \in Seq(SpansOf(Len(content)))
  BY <1>5, <1>6
<1> QED
  BY <1>3, <1>5, <1>7

-----------------------------------------------------------------------------
\* What a match decides, edit i having been found in the places found[i].
MatchDecides(found, M) ==
  LET spans == [i \in 1 .. M |-> found[i][1]]
  IN  /\ Match(found).error \in {"none", "overlap", "duplicate", "not_found"}
      /\ Match(found).error \in {"none", "overlap"} <=> \A i \in 1 .. M : Len(found[i]) = 1
      /\ Match(found).error = "none" => Match(found).spans = spans /\ ~Overlap(spans)
      /\ Match(found).error = "overlap" => Overlap(spans)
      /\ Match(found).error = "not_found" => \E i \in 1 .. M : found[i] = <<>>

\* Match decides so.
LEMMA MatchDoes ==
  ASSUME NEW M \in Nat, NEW found, DOMAIN found = 1 .. M
  PROVE  MatchDecides(found, M)
<1> DEFINE bad == {i \in 1 .. M : Len(found[i]) # 1}
           first == CHOOSE i \in bad : \A j \in bad : i <= j
           spans == [i \in 1 .. M |-> found[i][1]]
           error == IF found[first] = <<>> THEN "not_found" ELSE "duplicate"
<1>1. Match(found) = IF bad # {} THEN [error |-> error, spans |-> <<>>]
                     ELSE IF Overlap(spans) THEN [error |-> "overlap", spans |-> <<>>]
                     ELSE [error |-> "none", spans |-> spans]
  BY DEF Match
<1>2. bad # {} => first \in bad
  <2> SUFFICES ASSUME bad # {} PROVE first \in bad
    OBVIOUS
  <2>1. bad \subseteq Nat
    OBVIOUS
  <2> HIDE DEF bad
  <2>2. \E i \in bad : \A j \in bad : i <= j
    BY <2>1, LeastNat
  <2> QED
    BY <2>2
<1>3. bad = {} <=> \A i \in 1 .. M : Len(found[i]) = 1
  OBVIOUS
<1>4. bad \subseteq 1 .. M
  OBVIOUS
<1> HIDE DEF bad, first, spans
<1>5. CASE bad # {}
  <2>1. Match(found).error = error
    BY <1>1, <1>5
  <2>2. CASE found[first] = <<>>
    BY <1>2, <1>3, <1>4, <1>5, <2>1, <2>2 DEF MatchDecides
  <2>3. CASE found[first] # <<>>
    BY <1>3, <1>5, <2>1, <2>3 DEF MatchDecides
  <2> QED
    BY <2>2, <2>3
<1>6. CASE bad = {} /\ Overlap(spans)
  <2>1. Match(found).error = "overlap"
    BY <1>1, <1>6
  <2> QED
    BY <1>3, <1>6, <2>1 DEF MatchDecides, spans
<1>7. CASE bad = {} /\ ~Overlap(spans)
  <2>1. Match(found).error = "none" /\ Match(found).spans = spans
    BY <1>1, <1>7
  <2> QED
    BY <1>3, <1>7, <2>1 DEF MatchDecides, spans
<1> QED
  BY <1>5, <1>6, <1>7

\* The edits of a call, and the content that they are searched in.
EditsOver(Char) == Seq([old : Seq(Char), new : Seq(Char)])

\* Their texts are typed, with their line endings normalised too.
LEMMA EditsAre ==
  ASSUME NEW Char, "nl" \in Char, NEW edits \in EditsOver(Char)
  PROVE  /\ Len(edits) \in Nat /\ DOMAIN edits = 1 .. Len(edits)
         /\ \A i \in 1 .. Len(edits) :
              /\ edits[i].old \in Seq(Char) /\ edits[i].new \in Seq(Char)
              /\ NormalizeToLf(edits[i].old) \in Seq(Char) /\ NormalizeToLf(edits[i].new) \in Seq(Char \ {"cr"})
              /\ edits[i].old # <<>> => NormalizeToLf(edits[i].old) # <<>>
<1> DEFINE R == [old : Seq(Char), new : Seq(Char)]
<1>1. /\ Len(edits) \in Nat /\ DOMAIN edits = 1 .. Len(edits)
      /\ \A i \in 1 .. Len(edits) : edits[i] \in R
  <2>1. edits \in Seq(R)
    BY DEF EditsOver
  <2> HIDE DEF R
  <2> QED
    BY <2>1
<1>2. ASSUME NEW i \in 1 .. Len(edits)
      PROVE  /\ edits[i].old \in Seq(Char) /\ edits[i].new \in Seq(Char)
             /\ NormalizeToLf(edits[i].old) \in Seq(Char) /\ NormalizeToLf(edits[i].new) \in Seq(Char \ {"cr"})
             /\ edits[i].old # <<>> => NormalizeToLf(edits[i].old) # <<>>
  <2>1. edits[i].old \in Seq(Char) /\ edits[i].new \in Seq(Char)
    BY <1>1
  <2>2. \A s \in Seq(Char \ {"cr"}) : s \in Seq(Char)
    OBVIOUS
  <2> QED
    BY <2>1, <2>2, NormalizedIs
<1> QED
  BY <1>1, <1>2

\* The spans of a call that is accepted: one for every edit, within the content,
\* and none overlaps another.
Accepted(spans, M, n) ==
  /\ spans \in [1 .. M -> SpansOf(n)]
  /\ ~Overlap(spans)

\* The spans that a call is accepted with are such spans.
LEMMA AcceptedSpans ==
  ASSUME NEW Char, "nl" \in Char, NEW content \in Seq(Char), NEW edits \in EditsOver(Char),
         MatchWithFallback(content, edits).error = "none"
  PROVE  Accepted(MatchWithFallback(content, edits).spans, Len(edits), Len(content))
<1> DEFINE M == Len(edits)
           match == MatchWithFallback(content, edits)
           exact == MatchExact(content, edits)
           fuzzy == MatchFuzzy(content, edits)
<1>1. M \in Nat /\ DOMAIN edits = 1 .. M
  BY EditsAre
<1>2. ~\E i \in DOMAIN edits : edits[i].old = <<>>
  <2> SUFFICES ASSUME \E i \in DOMAIN edits : edits[i].old = <<>> PROVE FALSE
    OBVIOUS
  <2>1. match = [error |-> "empty", spans |-> <<>>]
    BY DEF MatchWithFallback
  <2> QED
    BY <2>1
<1>3. ASSUME NEW i \in 1 .. M
      PROVE  NormalizeToLf(edits[i].old) \in Seq(Char) /\ NormalizeToLf(edits[i].old) # <<>>
  BY <1>1, <1>2, EditsAre
<1>4. match = IF exact.error = "not_found" THEN fuzzy ELSE exact
  BY <1>2 DEF MatchWithFallback
<1>5. ASSUME NEW found, DOMAIN found = 1 .. M, \A i \in 1 .. M : found[i] \in Seq(SpansOf(Len(content))),
             Match(found).error = "none"
      PROVE  Accepted(Match(found).spans, M, Len(content))
  <2> DEFINE spans == [i \in 1 .. M |-> found[i][1]]
  <2>1. MatchDecides(found, M)
    BY <1>1, <1>5, MatchDoes
  <2>2. Match(found).spans = spans /\ ~Overlap(spans) /\ \A i \in 1 .. M : Len(found[i]) = 1
    BY <1>5, <2>1 DEF MatchDecides
  <2>3. ASSUME NEW i \in 1 .. M PROVE found[i][1] \in SpansOf(Len(content))
    BY <1>5, <2>2
  <2> QED
    BY <2>2, <2>3 DEF Accepted
<1> HIDE DEF M
<1>6. CASE exact.error = "not_found"
  <2> DEFINE found == [i \in 1 .. M |-> FuzzySpans(content, NormalizeToLf(edits[i].old))]
  <2>1. match = Match(found)
    BY <1>1, <1>4, <1>6 DEF MatchFuzzy
  <2>2. DOMAIN found = 1 .. M /\ \A i \in 1 .. M : found[i] \in Seq(SpansOf(Len(content)))
    BY <1>3, FuzzySpansWithin
  <2> HIDE DEF found, match
  <2>3. Match(found).error = "none"
    BY <2>1 DEF match
  <2> QED
    BY <1>5, <2>1, <2>2, <2>3 DEF match, M
<1>7. CASE exact.error # "not_found"
  <2> DEFINE found == [i \in 1 .. M |-> ExactSpans(content, NormalizeToLf(edits[i].old))]
  <2>1. match = Match(found)
    BY <1>1, <1>4, <1>7 DEF MatchExact
  <2>2. DOMAIN found = 1 .. M /\ \A i \in 1 .. M : found[i] \in Seq(SpansOf(Len(content)))
    BY <1>3, ExactSpansWithin
  <2> HIDE DEF found, match
  <2>3. Match(found).error = "none"
    BY <2>1 DEF match
  <2> QED
    BY <1>5, <2>1, <2>2, <2>3 DEF match, M
<1> QED
  BY <1>6, <1>7

\* Every edit once, the later the earlier it begins.
SortedDown(order, spans, M) ==
  /\ order \in [1 .. M -> 1 .. M]
  /\ \A k, l \in 1 .. M : k < l => spans[order[k]].first > spans[order[l]].first
  /\ \A i \in 1 .. M : \E k \in 1 .. M : order[k] = i

\* Spans that begin apart have different ranks, and every rank is one's.
LEMMA SpliceOrderSorts ==
  ASSUME NEW M \in Nat, NEW spans, DOMAIN spans = 1 .. M,
         \A i \in 1 .. M : spans[i].first \in Nat, BeginApart(spans)
  PROVE  SortedDown(SpliceOrder(spans), spans, M)
<1> DEFINE Before(i) == {j \in 1 .. M : spans[j].first > spans[i].first}
           rank == [i \in 1 .. M |-> Cardinality(Before(i))]
           order == SpliceOrder(spans)
<1>1. \A i, j \in 1 .. M : i # j => spans[i].first # spans[j].first
  BY DEF BeginApart
<1>2. \A i \in 1 .. M : {j \in DOMAIN spans : SplicedBefore(spans, j, i)} = Before(i)
  <2>1. \A i, j \in 1 .. M : SplicedBefore(spans, j, i) <=> spans[j].first > spans[i].first
    BY <1>1 DEF SplicedBefore
  <2> QED
    BY <2>1
<1>3. IsFiniteSet(1 .. M) /\ Cardinality(1 .. M) = M
  <2>1. 1 \in Int /\ M \in Int
    OBVIOUS
  <2>2. IsFiniteSet(1 .. M) /\ Cardinality(1 .. M) = IF 1 > M THEN 0 ELSE M - 1 + 1
    BY <2>1, FS_Interval
  <2> QED
    BY <2>2
<1>4. IsFiniteSet(0 .. M - 1) /\ Cardinality(0 .. M - 1) = M
  <2>1. 0 \in Int /\ M - 1 \in Int
    OBVIOUS
  <2>2. IsFiniteSet(0 .. M - 1) /\ Cardinality(0 .. M - 1) = IF 0 > M - 1 THEN 0 ELSE (M - 1) - 0 + 1
    BY <2>1, FS_Interval
  <2> QED
    BY <2>2
<1>5. \A i \in 1 .. M : Before(i) \in SUBSET (1 .. M) /\ i \notin Before(i)
  OBVIOUS
<1>6. \A i, j \in 1 .. M : spans[i].first > spans[j].first =>
        Before(i) \in SUBSET Before(j) /\ i \in Before(j)
  OBVIOUS
<1> HIDE DEF Before
<1>7. ASSUME NEW i \in 1 .. M
      PROVE  IsFiniteSet(Before(i)) /\ Cardinality(Before(i)) \in 0 .. M - 1
  <2>1. IsFiniteSet(Before(i)) /\ Cardinality(Before(i)) <= M
    BY <1>3, <1>5, FS_Subset
  <2>2. Cardinality(Before(i)) \in Nat
    BY <2>1, FS_CardinalityType
  <2>3. Cardinality(Before(i)) # M
    BY <1>3, <1>5, FS_Subset
  <2> QED
    BY <2>1, <2>2, <2>3
<1>8. \A i, j \in 1 .. M : spans[i].first > spans[j].first => rank[i] < rank[j]
  <2> SUFFICES ASSUME NEW i \in 1 .. M, NEW j \in 1 .. M, spans[i].first > spans[j].first
               PROVE  Cardinality(Before(i)) < Cardinality(Before(j))
    OBVIOUS
  <2>1. Cardinality(Before(i)) <= Cardinality(Before(j))
    BY <1>6, <1>7, FS_Subset
  <2>2. Cardinality(Before(j)) # Cardinality(Before(i))
    BY <1>5, <1>6, <1>7, FS_Subset
  <2>3. Cardinality(Before(i)) \in Nat /\ Cardinality(Before(j)) \in Nat
    BY <1>7
  <2> QED
    BY <2>1, <2>2, <2>3
<1>9. rank \in [1 .. M -> 0 .. M - 1]
  BY <1>7
<1>10. \A i \in 1 .. M : Cardinality({j \in DOMAIN spans : SplicedBefore(spans, j, i)}) = rank[i]
  BY <1>2
<1> HIDE DEF rank
<1>11. \A i, j \in 1 .. M : rank[i] = rank[j] => i = j
  <2> SUFFICES ASSUME NEW i \in 1 .. M, NEW j \in 1 .. M, rank[i] = rank[j], i # j PROVE FALSE
    OBVIOUS
  <2>1. spans[i].first > spans[j].first \/ spans[j].first > spans[i].first
    BY <1>1
  <2> QED
    BY <1>8, <1>9, <2>1
<1>12. rank \in Surjection(1 .. M, 0 .. M - 1)
  <2>1. rank \in Injection(1 .. M, 0 .. M - 1)
    BY <1>9, <1>11 DEF Injection, IsInjective
  <2> QED
    BY <1>3, <1>4, <2>1, FS_Injection
<1>13. \A n \in 0 .. M - 1 : \E i \in 1 .. M : rank[i] = n
  BY <1>12 DEF Surjection
<1>14. ASSUME NEW k \in 1 .. M PROVE order[k] \in 1 .. M /\ rank[order[k]] = k - 1
  <2>1. order[k] = CHOOSE i \in 1 .. M : rank[i] = k - 1
    BY <1>10 DEF SpliceOrder
  <2>2. \E i \in 1 .. M : rank[i] = k - 1
    BY <1>13
  <2> HIDE DEF order
  <2> QED
    BY <2>1, <2>2
<1>15. order = [k \in 1 .. M |-> order[k]]
  <2> DEFINE Pick(k) == CHOOSE i \in DOMAIN spans :
                          Cardinality({j \in DOMAIN spans : SplicedBefore(spans, j, i)}) = k - 1
  <2>1. order = [k \in 1 .. M |-> Pick(k)]
    BY DEF SpliceOrder
  <2> HIDE DEF order, Pick
  <2> QED
    BY <2>1
<1> HIDE DEF order
<1>16. \A k, l \in 1 .. M : k < l => spans[order[k]].first > spans[order[l]].first
  <2> SUFFICES ASSUME NEW k \in 1 .. M, NEW l \in 1 .. M, k < l
               PROVE  spans[order[k]].first > spans[order[l]].first
    OBVIOUS
  <2> DEFINE a == order[k]
             b == order[l]
  <2>1. a \in 1 .. M /\ b \in 1 .. M /\ rank[a] = k - 1 /\ rank[b] = l - 1
    BY <1>14
  <2> HIDE DEF a, b
  <2>2. rank[a] < rank[b]
    BY <2>1
  <2>3. spans[a].first > spans[b].first
    <3>1. a # b
      BY <1>9, <2>1, <2>2
    <3>2. ~(spans[b].first > spans[a].first)
      BY <1>8, <1>9, <2>1, <2>2
    <3> QED
      BY <1>1, <2>1, <3>1, <3>2
  <2> QED
    BY <2>3 DEF a, b
<1>17. \A i \in 1 .. M : \E k \in 1 .. M : order[k] = i
  <2> SUFFICES ASSUME NEW i \in 1 .. M PROVE \E k \in 1 .. M : order[k] = i
    OBVIOUS
  <2>1. rank[i] + 1 \in 1 .. M /\ (rank[i] + 1) - 1 = rank[i]
    BY <1>9
  <2>2. rank[order[rank[i] + 1]] = rank[i] /\ order[rank[i] + 1] \in 1 .. M
    BY <1>14, <2>1
  <2> QED
    BY <1>11, <2>1, <2>2
<1> QED
  BY <1>14, <1>15, <1>16, <1>17 DEF SortedDown, order

-----------------------------------------------------------------------------
\* Parts that are empty but for one.
LEMMA FlattenOne ==
  ASSUME NEW S, NEW parts \in Seq(Seq(S)), NEW k \in 1 .. Len(parts),
         \A i \in 1 .. Len(parts) : i # k => parts[i] = <<>>
  PROVE  FlattenSeq(parts) = parts[k]
<1> DEFINE N == Len(parts)
<1>1. PICK f \in [0 .. N -> Seq(S)] : Flattens(f, parts) /\ FlattenSeq(parts) = f[N]
  BY FlattenSeqFacts
<1>2. N \in Nat /\ k \in 1 .. N /\ parts[k] \in Seq(S)
  OBVIOUS
<1> DEFINE P == {n \in Nat : n <= N => f[n] = IF n < k THEN <<>> ELSE parts[k]}
<1>3. 0 \in P
  BY <1>1, <1>2 DEF Flattens
<1>4. ASSUME NEW n \in Nat, n \in P PROVE n + 1 \in P
  <2> SUFFICES ASSUME n + 1 <= N PROVE f[n + 1] = IF n + 1 < k THEN <<>> ELSE parts[k]
    OBVIOUS
  <2>1. n + 1 \in 1 .. N /\ (n + 1) - 1 = n /\ n <= N /\ n \in 0 .. N
    BY <1>2, SMTT(20)
  <2>2. f[n + 1] = f[n] \o parts[n + 1] /\ f[n] = IF n < k THEN <<>> ELSE parts[k]
    BY <1>1, <1>4, <2>1 DEF Flattens
  <2>3. CASE n + 1 = k
    <3>1. n < k /\ ~(n + 1 < k)
      BY <1>2, <2>3
    <3>2. f[n + 1] = <<>> \o parts[k]
      BY <2>2, <2>3, <3>1
    <3> QED
      BY <1>2, <3>1, <3>2, EmptyJoin
  <2>4. CASE n + 1 # k
    <3>1. parts[n + 1] = <<>> /\ (n < k <=> n + 1 < k)
      BY <1>2, <2>1, <2>4
    <3>2. f[n] \in Seq(S)
      BY <2>1
    <3>3. f[n + 1] = f[n]
      BY <2>2, <3>1, <3>2, EmptyJoin
    <3> QED
      BY <2>2, <3>1, <3>3
  <2> QED
    BY <2>3, <2>4
<1>5. N \in P
  <2> HIDE DEF P
  <2> QED
    BY <1>2, <1>3, <1>4, Induction
<1> QED
  BY <1>1, <1>2, <1>5

\* Parts that are all empty.
LEMMA FlattenNone ==
  ASSUME NEW S, NEW parts \in Seq(Seq(S)), \A i \in 1 .. Len(parts) : parts[i] = <<>>
  PROVE  FlattenSeq(parts) = <<>>
<1> DEFINE N == Len(parts)
<1>1. PICK f \in [0 .. N -> Seq(S)] : Flattens(f, parts) /\ FlattenSeq(parts) = f[N]
  BY FlattenSeqFacts
<1>2. N \in Nat /\ 0 \in 0 .. N /\ N \in 0 .. N
  OBVIOUS
<1> DEFINE E == {<<>>}
<1>3. f[0] \in E
  BY <1>1 DEF Flattens
<1>4. \A n \in 1 .. N : f[n - 1] \in E => f[n] \in E
  <2> SUFFICES ASSUME NEW n \in 1 .. N, f[n - 1] = <<>> PROVE f[n] = <<>>
    OBVIOUS
  <2>1. f[n] = <<>> \o <<>>
    BY <1>1 DEF Flattens
  <2> QED
    BY <2>1
<1>5. AllIn(f, E, N)
  <2> HIDE DEF E, N
  <2> QED
    BY <1>2, <1>3, <1>4, AlongTheFunction
<1> QED
  BY <1>1, <1>2, <1>5 DEF AllIn

\* h joins the parts from the last to the first.
FromRight(h, parts, S, N) ==
  /\ N \in Nat /\ h \in [1 .. N + 1 -> Seq(S)]
  /\ h[N + 1] = <<>>
  /\ \A m \in 1 .. N : parts[m] \in Seq(S) /\ h[m] = parts[m] \o h[m + 1]

\* A sequence of parts is flattened from its end as well.
LEMMA FlattenFromRight ==
  ASSUME NEW S, NEW parts \in Seq(Seq(S))
  PROVE  \E h : FromRight(h, parts, S, Len(parts)) /\ FlattenSeq(parts) = h[1]
<1> DEFINE N == Len(parts)
           A == Seq(S)
           step == [p \in A \X (1 .. N) |-> parts[N + 1 - p[2]] \o p[1]]
<1>1. N \in Nat /\ \A m \in 1 .. N : parts[m] \in Seq(S)
  OBVIOUS
<1>2. PICK f \in [0 .. N -> Seq(S)] : Flattens(f, parts) /\ FlattenSeq(parts) = f[N]
  BY FlattenSeqFacts
<1>3. \A i \in 1 .. N : f[i] = f[i - 1] \o parts[i]
  BY <1>2 DEF Flattens
<1>4. f[0] = <<>>
  BY <1>2 DEF Flattens
<1>5. FlattenSeq(parts) = f[N]
  BY <1>2
<1> HIDE DEF N
<1>6. step \in [A \X (1 .. N) -> A]
  <2>1. ASSUME NEW p \in A \X (1 .. N) PROVE parts[N + 1 - p[2]] \o p[1] \in A
    <3>1. p[1] \in A /\ N + 1 - p[2] \in 1 .. N
      BY <1>1
    <3> QED
      BY <1>1, <3>1
  <2> HIDE DEF A
  <2> QED
    BY <2>1
<1>7. PICK r \in [0 .. N -> A] : Recurses(r, <<>>, step, N)
  <2>1. <<>> \in A
    OBVIOUS
  <2> HIDE DEF step, A
  <2> QED
    BY <1>1, <1>6, <2>1, Recursion
<1>8. r[0] = <<>> /\ \A j \in 1 .. N : r[j] = parts[N + 1 - j] \o r[j - 1]
  <2>1. ASSUME NEW j \in 1 .. N PROVE r[j] = parts[N + 1 - j] \o r[j - 1]
    <3>1. j - 1 \in 0 .. N
      BY <1>1
    <3>2. r[j - 1] \in A /\ r[j] = step[<<r[j - 1], j>>]
      BY <1>7, <3>1 DEF Recurses
    <3> HIDE DEF A
    <3> QED
      BY <3>2
  <2> QED
    BY <1>7, <2>1 DEF Recurses
<1> DEFINE h == [m \in 1 .. N + 1 |-> r[N + 1 - m]]
<1>9. \A m \in 1 .. N + 1 : h[m] = r[N + 1 - m] /\ N + 1 - m \in 0 .. N
  BY <1>1
<1>10. h \in [1 .. N + 1 -> Seq(S)]
  BY <1>7, <1>9
<1> HIDE DEF h
<1>11. FromRight(h, parts, S, N)
  <2>1. h[N + 1] = <<>>
    <3>1. N + 1 \in 1 .. N + 1 /\ N + 1 - (N + 1) = 0
      BY <1>1
    <3> QED
      BY <1>8, <1>9, <3>1
  <2>2. ASSUME NEW m \in 1 .. N PROVE h[m] = parts[m] \o h[m + 1]
    <3>1. /\ m \in 1 .. N + 1 /\ m + 1 \in 1 .. N + 1 /\ N + 1 - m \in 1 .. N
          /\ N + 1 - (N + 1 - m) = m /\ (N + 1 - m) - 1 = N + 1 - (m + 1)
      BY <1>1
    <3> QED
      BY <1>8, <1>9, <3>1
  <2> QED
    BY <1>1, <1>10, <2>1, <2>2 DEF FromRight
<1> DEFINE Whole(n) == f[n] \o h[n + 1] = h[1]
           P == {n \in Nat : n <= N => Whole(n)}
<1>12. 0 \in P
  <2>1. 1 \in 1 .. N + 1 /\ 0 + 1 = 1
    BY <1>1
  <2>2. h[1] \in Seq(S)
    BY <1>10, <2>1
  <2> QED
    BY <1>4, <2>1, <2>2, EmptyJoin
<1>13. ASSUME NEW n \in Nat, n \in P PROVE n + 1 \in P
  <2> SUFFICES ASSUME n + 1 <= N PROVE Whole(n + 1)
    <3> HIDE DEF Whole
    <3> QED
      OBVIOUS
  <2>1. /\ n + 1 \in 1 .. N /\ (n + 1) - 1 = n /\ n <= N /\ n \in 0 .. N /\ (n + 1) + 1 \in 1 .. N + 1
    BY <1>1
  <2>2. /\ f[n + 1] = f[n] \o parts[n + 1] /\ h[n + 1] = parts[n + 1] \o h[(n + 1) + 1]
        /\ f[n] \in Seq(S) /\ parts[n + 1] \in Seq(S) /\ h[(n + 1) + 1] \in Seq(S)
    BY <1>1, <1>3, <1>10, <1>11, <2>1 DEF FromRight
  <2>3. Associates(f[n], parts[n + 1], h[(n + 1) + 1])
    BY <2>2, Associative
  <2>4. Whole(n)
    <3> HIDE DEF Whole
    <3> QED
      BY <1>13, <2>1
  <2> QED
    BY <2>2, <2>3, <2>4 DEF Associates
<1>14. N \in P
  <2> HIDE DEF P
  <2> QED
    BY <1>1, <1>12, <1>13, Induction
<1>15. f[N] = h[1]
  <2>1. Whole(N)
    <3> HIDE DEF Whole
    <3> QED
      BY <1>1, <1>14
  <2>2. f[N] \o h[N + 1] = h[1] /\ h[N + 1] = <<>> /\ f[N] \in Seq(S)
    BY <1>1, <1>11, <2>1 DEF FromRight
  <2> QED
    BY <2>2, EmptyJoin
<1> QED
  BY <1>5, <1>11, <1>15 DEF N

\* Where the parts are single characters of the content.
GoesOn(h, content, a, b) == h[a] = SubSeq(content, a, b - 1) \o h[b]

\* There the whole goes on as the content does.
LEMMA SinglesFromRight ==
  ASSUME NEW S, NEW parts, NEW N, NEW h, FromRight(h, parts, S, N),
         NEW content \in Seq(S), NEW a \in 1 .. N + 1, NEW b \in 1 .. N + 1,
         a <= b, b <= Len(content) + 1, \A p \in a .. b - 1 : parts[p] = <<content[p]>>
  PROVE  GoesOn(h, content, a, b)
<1> DEFINE From(m) == h[m] = SubSeq(content, m, b - 1) \o h[b]
           P == {d \in Nat : d <= b - a => From(b - d)}
<1>1. N \in Nat /\ Len(content) \in Nat
  BY DEF FromRight
<1>2. h[b] \in Seq(S) /\ a \in Nat /\ b \in Nat
  BY <1>1 DEF FromRight
<1>3. 0 \in P
  <2>1. b - 0 = b /\ b \in Int /\ b - 1 \in Int /\ b - 1 < b
    BY <1>2
  <2>2. SubSeq(content, b, b - 1) = <<>>
    BY <2>1, SubSeqEmpty
  <2> QED
    BY <1>2, <2>1, <2>2, EmptyJoin
<1>4. ASSUME NEW d \in Nat, d \in P PROVE d + 1 \in P
  <2> SUFFICES ASSUME d + 1 <= b - a PROVE From(b - (d + 1))
    <3> HIDE DEF From
    <3> QED
      OBVIOUS
  <2> DEFINE m == b - (d + 1)
             rest == SubSeq(content, m + 1, b - 1)
  <2>1. /\ m \in 1 .. N /\ m \in a .. b - 1 /\ m + 1 = b - d /\ d <= b - a
        /\ m \in 1 .. Len(content) /\ b - 1 \in m .. Len(content) /\ m + 1 \in Int /\ b - 1 \in Int
    BY <1>1, <1>2
  <2>2. From(m + 1)
    <3> HIDE DEF From, m
    <3> QED
      BY <1>4, <2>1
  <2> HIDE DEF m
  <2>3. parts[m] = <<content[m]>> /\ <<content[m]>> \in Seq(S)
    BY <2>1
  <2>4. h[m] = <<content[m]>> \o (rest \o h[b])
    BY <2>1, <2>2, <2>3 DEF FromRight
  <2>5. SubSeq(content, m, b - 1) = <<content[m]>> \o rest
    BY <2>1, SubSeqRecursiveFirst
  <2>6. rest \in Seq(S)
    <3>1. \A i \in m + 1 .. b - 1 : content[i] \in S
      BY <1>1, <1>2, <2>1
    <3> QED
      BY <2>1, <3>1, SubSeqProperties
  <2> HIDE DEF rest
  <2>7. Associates(<<content[m]>>, rest, h[b])
    BY <1>2, <2>3, <2>6, Associative
  <2> QED
    BY <2>4, <2>5, <2>7 DEF Associates, m
<1>5. b - a \in P
  <2>1. b - a \in Nat
    BY <1>2
  <2> HIDE DEF P
  <2> QED
    BY <1>3, <1>4, <2>1, Induction
<1>6. From(a)
  <2>1. b - a <= b - a /\ b - (b - a) = a
    BY <1>2
  <2> HIDE DEF From
  <2> QED
    BY <1>5, <2>1
<1> QED
  BY <1>6 DEF GoesOn

\* Where the parts are empty.
LEMMA EmptiesFromRight ==
  ASSUME NEW S, NEW parts, NEW N, NEW h, FromRight(h, parts, S, N),
         NEW a \in 1 .. N + 1, NEW b \in 1 .. N + 1, a <= b, \A p \in a .. b - 1 : parts[p] = <<>>
  PROVE  h[a] = h[b]
<1> DEFINE P == {d \in Nat : d <= b - a => h[b - d] = h[b]}
<1>1. N \in Nat /\ a \in Nat /\ b \in Nat
  BY DEF FromRight
<1>2. h[b] \in Seq(S)
  BY DEF FromRight
<1>3. 0 \in P
  BY <1>1
<1>4. ASSUME NEW d \in Nat, d \in P PROVE d + 1 \in P
  <2> SUFFICES ASSUME d + 1 <= b - a PROVE h[b - (d + 1)] = h[b]
    OBVIOUS
  <2> DEFINE m == b - (d + 1)
  <2>1. m \in 1 .. N /\ m \in a .. b - 1 /\ m + 1 = b - d /\ d <= b - a
    BY <1>1
  <2>2. h[m + 1] = h[b]
    BY <1>4, <2>1
  <2> HIDE DEF m
  <2>3. h[m] = <<>> \o h[b]
    BY <2>1, <2>2 DEF FromRight
  <2> QED
    BY <1>2, <2>3, EmptyJoin DEF m
<1>5. b - a \in P
  <2>1. b - a \in Nat
    BY <1>1
  <2> HIDE DEF P
  <2> QED
    BY <1>3, <1>4, <2>1, Induction
<1> QED
  BY <1>1, <1>5

\* The two halves of a sequence that was joined.
LEMMA CutJoined ==
  ASSUME NEW S, NEW s \in Seq(S), NEW t \in Seq(S)
  PROVE  /\ SubSeq(s \o t, 1, Len(s)) = s
         /\ SubSeq(s \o t, Len(s) + 1, Len(s \o t)) = t
<1>1. Len(s) \in Nat /\ Len(t) \in Nat /\ Len(s \o t) = Len(s) + Len(t)
  BY JoinFacts DEF IsJoin
<1>2. SubSeq(s \o t, 1, Len(s)) = s
  <2>1. CASE Len(s) = 0
    <3>1. s = <<>> /\ SubSeq(s \o t, 1, 0) = <<>>
      <4>1. 1 \in Int /\ 0 \in Int /\ 0 < 1
        OBVIOUS
      <4>2. SubSeq(s \o t, 1, 0) = <<>>
        BY <4>1, SubSeqEmpty
      <4> QED
        BY <2>1, <4>2
    <3> QED
      BY <2>1, <3>1
  <2>2. CASE Len(s) # 0
    <3>1. 1 \in 1 .. Len(s) /\ Len(s) \in 1 .. Len(s)
      BY <1>1, <2>2
    <3>2. SubSeq(s \o t, 1, Len(s)) = SubSeq(s, 1, Len(s))
      BY <3>1, SubSeqOfConcat1
    <3> QED
      BY <3>2, SubSeqFull
  <2> QED
    BY <2>1, <2>2
<1>3. SubSeq(s \o t, Len(s) + 1, Len(s) + Len(t)) = t
  <2>1. CASE Len(t) = 0
    <3>1. t = <<>> /\ SubSeq(s \o t, Len(s) + 1, Len(s) + Len(t)) = <<>>
      <4>1. Len(s) + 1 \in Int /\ Len(s) + Len(t) \in Int /\ Len(s) + Len(t) < Len(s) + 1
        BY <1>1, <2>1
      <4> DEFINE a == Len(s) + 1
                 b == Len(s) + Len(t)
                 u == s \o t
      <4> HIDE DEF a, b, u
      <4>2. SubSeq(u, a, b) = <<>>
        BY <4>1, SubSeqEmpty DEF a, b
      <4> QED
        BY <2>1, <4>2 DEF a, b, u
    <3> QED
      BY <3>1
  <2>2. CASE Len(t) # 0
    <3> DEFINE a == Len(s) + 1
               b == Len(s) + Len(t)
    <3>1. a \in Len(s) + 1 .. Len(s) + Len(t) /\ b \in Len(s) + 1 .. Len(s) + Len(t)
          /\ a - Len(s) = 1 /\ b - Len(s) = Len(t)
      BY <1>1, <2>2
    <3> HIDE DEF a, b
    <3>2. SubSeq(s \o t, a, b) = SubSeq(t, a - Len(s), b - Len(s))
      BY <3>1, SubSeqOfConcat2
    <3> QED
      BY <3>1, <3>2, SubSeqFull DEF a, b
  <2> QED
    BY <2>1, <2>2
<1> QED
  BY <1>1, <1>2, <1>3

\* A part of a sequence, and its length.
LEMMA PartIs ==
  ASSUME NEW S, NEW s \in Seq(S), NEW a \in 1 .. Len(s) + 1, NEW b \in a - 1 .. Len(s)
  PROVE  SubSeq(s, a, b) \in Seq(S) /\ Len(SubSeq(s, a, b)) = b - a + 1
<1>1. a \in Int /\ b \in Int /\ \A i \in a .. b : s[i] \in S
  OBVIOUS
<1>2. /\ SubSeq(s, a, b) \in Seq(S)
      /\ Len(SubSeq(s, a, b)) = IF a <= b THEN b - a + 1 ELSE 0
  BY <1>1, SubSeqProperties
<1>3. ~(a <= b) => b - a + 1 = 0
  OBVIOUS
<1> QED
  BY <1>2, <1>3

\* What becomes of a text whose beginning is still the content's when a span in
\* it is replaced.
SpanReplaced(content, rest, span, new, a) ==
  ReplaceSpan(SubSeq(content, 1, a - 1) \o rest, span, new)
    = SubSeq(content, 1, span.first - 1) \o (new \o (SubSeq(content, span.next, a - 1) \o rest))

\* A span is replaced in what is spliced so far, of which only the end differs.
LEMMA ReplacesSpan ==
  ASSUME NEW S, NEW content \in Seq(S), NEW rest \in Seq(S), NEW new \in Seq(S),
         NEW a \in 1 .. Len(content) + 1, NEW span,
         span.first \in 1 .. Len(content) + 1, span.next \in span.first .. a
  PROVE  SpanReplaced(content, rest, span, new, a)
<1> DEFINE f == span.first
           n == span.next
           p == SubSeq(content, 1, a - 1)
           x == SubSeq(content, 1, f - 1)
           y == SubSeq(content, f, n - 1)
           z == SubSeq(content, n, a - 1)
           xy == SubSeq(content, 1, n - 1)
           all == p \o rest
<1> HIDE DEF f, n
<1>1. Len(content) \in Nat /\ f \in 1 .. Len(content) + 1 /\ n \in f .. a /\ a \in Nat
  BY DEF f, n
<1>2. /\ 1 \in 1 .. Len(content) + 1 /\ f - 1 \in 0 .. Len(content)
      /\ n \in 1 .. Len(content) + 1 /\ n - 1 \in f - 1 .. Len(content) /\ n - 1 \in 0 .. Len(content)
      /\ a - 1 \in n - 1 .. Len(content) /\ a - 1 \in 0 .. Len(content) /\ a - 1 \in f - 1 .. Len(content)
      /\ (f - 1) + 1 = f /\ (n - 1) + 1 = n /\ 1 - 1 = 0
      /\ (f - 1) - 1 + 1 = f - 1 /\ (n - 1) - 1 + 1 = n - 1
  BY <1>1
<1>3. /\ p \in Seq(S) /\ x \in Seq(S) /\ y \in Seq(S) /\ z \in Seq(S) /\ xy \in Seq(S)
      /\ Len(x) = f - 1 /\ Len(xy) = n - 1
  <2>1. p \in Seq(S)
    BY <1>2, PartIs
  <2>2. x \in Seq(S) /\ Len(x) = f - 1
    BY <1>2, PartIs
  <2>3. y \in Seq(S)
    BY <1>1, <1>2, PartIs
  <2>4. z \in Seq(S)
    BY <1>2, PartIs
  <2>5. xy \in Seq(S) /\ Len(xy) = n - 1
    BY <1>2, PartIs
  <2> QED
    BY <2>1, <2>2, <2>3, <2>4, <2>5
<1>4. p = xy \o z
  <2>1. SubSeq(content, 1, n - 1) \o SubSeq(content, (n - 1) + 1, a - 1) = SubSeq(content, 1, a - 1)
    BY <1>2, ConcatAdjacentSubSeq
  <2> QED
    BY <1>2, <2>1
<1>5. xy = x \o y
  <2>1. SubSeq(content, 1, f - 1) \o SubSeq(content, (f - 1) + 1, n - 1) = SubSeq(content, 1, n - 1)
    BY <1>2, ConcatAdjacentSubSeq
  <2> QED
    BY <1>2, <2>1
<1>6. ReplaceSpan(all, span, new) = (SubSeq(all, 1, f - 1) \o new) \o SubSeq(all, n, Len(all))
  BY DEF ReplaceSpan, f, n
<1> HIDE DEF p, x, y, z, xy
<1> DEFINE zr == z \o rest
           yzr == y \o zr
<1>7. zr \in Seq(S) /\ yzr \in Seq(S)
  BY <1>3, JoinFacts
<1>8. all = xy \o zr
  <2>1. Associates(xy, z, rest)
    BY <1>3, Associative
  <2> QED
    BY <1>4, <2>1 DEF Associates
<1>9. all = x \o yzr
  <2>1. Associates(x, y, zr)
    BY <1>3, <1>7, Associative
  <2> QED
    BY <1>5, <1>8, <2>1 DEF Associates
<1> HIDE DEF all, zr, yzr
<1>10. SubSeq(all, 1, f - 1) = x
  BY <1>3, <1>7, <1>9, CutJoined
<1>11. SubSeq(all, n, Len(all)) = zr
  <2>1. SubSeq(all, Len(xy) + 1, Len(all)) = zr
    BY <1>3, <1>7, <1>8, CutJoined, SMTT(20)
  <2> QED
    BY <1>2, <1>3, <2>1
<1>12. Associates(x, new, zr)
  BY <1>3, <1>7, Associative
<1>13. ReplaceSpan(all, span, new) = x \o (new \o zr)
  BY <1>6, <1>10, <1>11, <1>12 DEF Associates
<1> QED
  BY <1>13 DEF SpanReplaced, all, p, x, z, zr, f, n

\* The parts of a replaced text from one span to the one behind it.
SpanParts(parts, content, new, first, next, behind) ==
  /\ parts[first] = new \o (IF next = first THEN <<content[first]>> ELSE <<>>)
  /\ \A p \in first + 1 .. behind - 1 : parts[p] = IF p < next THEN <<>> ELSE <<content[p]>>

\* The result of replacing, from one span to the one behind it.
SpanGoesOn(h, content, new, first, next, behind) ==
  h[first] = new \o (SubSeq(content, next, behind - 1) \o h[behind])

\* From a span on, the replaced text is the new text and what stays.
LEMMA SpanFromRight ==
  ASSUME NEW S, NEW parts, NEW h, NEW content \in Seq(S), FromRight(h, parts, S, Len(content) + 1),
         NEW new \in Seq(S), NEW first \in 1 .. Len(content), NEW behind \in first + 1 .. Len(content) + 1,
         NEW next \in first .. behind, SpanParts(parts, content, new, first, next, behind)
  PROVE  SpanGoesOn(h, content, new, first, next, behind)
<1> DEFINE N == Len(content) + 1
           part == SubSeq(content, next, behind - 1)
<1>1. N \in Nat /\ Len(content) = N - 1
  OBVIOUS
<1>0. /\ parts[first] = new \o (IF next = first THEN <<content[first]>> ELSE <<>>)
      /\ \A p \in first + 1 .. behind - 1 : parts[p] = IF p < next THEN <<>> ELSE <<content[p]>>
  BY DEF SpanParts
<1> HIDE DEF N
<1>2. /\ first \in 1 .. N /\ first + 1 \in 1 .. N + 1 /\ behind \in 1 .. N + 1 /\ first + 1 <= behind
      /\ behind <= Len(content) + 1 /\ first \in Nat /\ behind \in Nat /\ next \in Nat /\ behind \in 1 .. N
      /\ first \in 1 .. Len(content)
  BY <1>1
<1>3. /\ FromRight(h, parts, S, N) /\ h[first + 1] \in Seq(S) /\ h[behind] \in Seq(S)
      /\ h[first] = parts[first] \o h[first + 1]
  BY <1>2 DEF FromRight, N
<1>4. CASE next = first
  <2> DEFINE c == content[first]
             rest == SubSeq(content, first + 1, behind - 1)
  <2>1. \A p \in first + 1 .. behind - 1 : parts[p] = <<content[p]>>
    <3>1. \A p \in first + 1 .. behind - 1 : ~(p < next)
      BY <1>2, <1>4
    <3> QED
      BY <1>0, <3>1
  <2>2. h[first + 1] = rest \o h[behind]
    <3>1. GoesOn(h, content, first + 1, behind)
      BY <1>2, <1>3, <2>1, SinglesFromRight
    <3> QED
      BY <3>1 DEF GoesOn
  <2>3. parts[first] = new \o <<c>> /\ <<c>> \in Seq(S)
    BY <1>0, <1>2, <1>4
  <2>4. rest \in Seq(S)
    <3>1. first + 1 \in 1 .. Len(content) + 1 /\ behind - 1 \in (first + 1) - 1 .. Len(content)
      BY <1>1, <1>2
    <3> QED
      BY <3>1, PartIs
  <2>5. part = <<c>> \o rest
    <3>1. behind - 1 \in first .. Len(content)
      BY <1>1, <1>2
    <3> QED
      BY <1>2, <1>4, <3>1, SubSeqRecursiveFirst
  <2> HIDE DEF c, rest, part
  <2>6. h[first] = (new \o <<c>>) \o (rest \o h[behind])
    BY <1>3, <2>2, <2>3
  <2>7. rest \o h[behind] \in Seq(S)
    BY <1>3, <2>4, JoinFacts
  <2>8. Associates(new, <<c>>, rest \o h[behind]) /\ Associates(<<c>>, rest, h[behind])
    BY <1>3, <2>3, <2>4, <2>7, Associative
  <2>9. h[first] = new \o (part \o h[behind])
    BY <2>5, <2>6, <2>8 DEF Associates
  <2> QED
    BY <2>9 DEF part, SpanGoesOn
<1>5. CASE next # first
  <2>1. /\ first + 1 <= next /\ next <= behind /\ next \in 1 .. N + 1
        /\ \A p \in first + 1 .. next - 1 : p \in first + 1 .. behind - 1 /\ p < next
        /\ \A p \in next .. behind - 1 : p \in first + 1 .. behind - 1 /\ ~(p < next)
    BY <1>1, <1>2, <1>5
  <2>2. h[first + 1] = h[next]
    <3>1. \A p \in first + 1 .. next - 1 : parts[p] = <<>>
      BY <1>0, <2>1
    <3> QED
      BY <1>2, <1>3, <2>1, <3>1, EmptiesFromRight
  <2>3. h[next] = part \o h[behind]
    <3>1. \A p \in next .. behind - 1 : parts[p] = <<content[p]>>
      BY <1>0, <2>1
    <3>2. GoesOn(h, content, next, behind)
      BY <1>2, <1>3, <2>1, <3>1, SinglesFromRight
    <3> QED
      BY <3>2 DEF GoesOn
  <2>4. parts[first] = new
    <3>1. parts[first] = new \o <<>>
      BY <1>0, <1>5
    <3> QED
      BY <3>1, EmptyJoin
  <2> HIDE DEF part
  <2>5. h[first] = new \o (part \o h[behind])
    BY <1>3, <2>2, <2>3, <2>4
  <2> QED
    BY <2>5 DEF part, SpanGoesOn
<1> QED
  BY <1>4, <1>5 DEF SpanGoesOn

\* What splices a span after the other is what SplicedInOrder makes.
SplicesOn(f, content, spans, edits, order, M) ==
  /\ f[0] = content
  /\ \A n \in 1 .. M :
       f[n] = ReplaceSpan(f[n - 1], spans[order[n]], NormalizeToLf(edits[order[n]].new))

\* Such an f ends with what is spliced.
LEMMA SplicedAlong ==
  ASSUME NEW M \in Nat, NEW content, NEW spans, NEW edits, NEW order, Len(order) = M, NEW f,
         SplicesOn(f, content, spans, edits, order, M)
  PROVE  SplicedInOrder(content, spans, edits, order) = f[M]
<1> DEFINE Step(r, n) == ReplaceSpan(r, spans[order[n]], NormalizeToLf(edits[order[n]].new))
           Right(g) == g = [n \in 0 .. M |-> IF n = 0 THEN content ELSE Step(g[n - 1], n)]
           spliced == CHOOSE g : Right(g)
           F == [n \in 0 .. M |-> f[n]]
<1>1. SplicedInOrder(content, spans, edits, order) = spliced[M]
  BY DEF SplicedInOrder
<1>2. f[0] = content /\ \A n \in 1 .. M : f[n] = Step(f[n - 1], n)
  BY DEF SplicesOn
<1> HIDE DEF Step
<1>3. Right(F)
  <2>1. ASSUME NEW n \in 0 .. M PROVE F[n] = IF n = 0 THEN content ELSE Step(F[n - 1], n)
    <3>1. CASE n = 0
      BY <1>2, <3>1
    <3>2. CASE n # 0
      <4>1. n \in 1 .. M /\ n - 1 \in 0 .. M
        BY <3>2
      <4> QED
        BY <1>2, <3>2, <4>1
    <3> QED
      BY <3>1, <3>2
  <2>2. F = [n \in 0 .. M |-> F[n]]
    OBVIOUS
  <2> HIDE DEF F
  <2> QED
    BY <2>1, <2>2
<1>4. Right(spliced)
  <2> HIDE DEF Right
  <2> QED
    BY <1>3
<1>5. spliced[0] = content /\ \A n \in 1 .. M : spliced[n] = Step(spliced[n - 1], n)
  <2>1. 0 \in 0 .. M /\ \A n \in 1 .. M : n \in 0 .. M /\ n # 0
    OBVIOUS
  <2> HIDE DEF spliced
  <2> QED
    BY <1>4, <2>1
<1> HIDE DEF spliced, Right, F
<1> DEFINE Same(n) == spliced[n] = f[n]
           P == {n \in Nat : n <= M => Same(n)}
<1>6. 0 \in P
  BY <1>2, <1>5
<1>7. ASSUME NEW n \in Nat, n \in P PROVE n + 1 \in P
  <2>1. ASSUME n + 1 <= M PROVE Same(n + 1)
    <3>1. n + 1 \in 1 .. M /\ (n + 1) - 1 = n /\ n <= M
      BY <2>1
    <3>2. Same(n)
      <4> HIDE DEF Same
      <4> QED
        BY <1>7, <3>1
    <3> QED
      BY <1>2, <1>5, <3>1, <3>2
  <2> HIDE DEF Same
  <2> QED
    BY <2>1
<1>8. Same(M)
  <2> HIDE DEF Same
  <2>1. M \in P
    <3> HIDE DEF P
    <3> QED
      BY <1>6, <1>7, Induction
  <2> QED
    BY <2>1
<1> QED
  BY <1>1, <1>8

\* What precedes a position in a replaced text.
InsertedAt(spans, edits, p) ==
  FlattenSeq([i \in DOMAIN spans |->
    IF spans[i].first = p THEN NormalizeToLf(edits[i].new) ELSE <<>>])

InsertsOne(spans, edits, p) ==
  /\ \A i \in 1 .. Len(edits) :
       spans[i].first = p => InsertedAt(spans, edits, p) = NormalizeToLf(edits[i].new)
  /\ (\A i \in 1 .. Len(edits) : spans[i].first # p) => InsertedAt(spans, edits, p) = <<>>

\* When the spans begin apart, that is one new text or nothing.
LEMMA InsertedIs ==
  ASSUME NEW Char, "nl" \in Char, NEW C, C = Char \ {"cr"}, NEW edits \in EditsOver(Char), NEW spans,
         DOMAIN spans = 1 .. Len(edits), BeginApart(spans), NEW p
  PROVE  InsertsOne(spans, edits, p)
<1> DEFINE M == Len(edits)
           Part(i) == IF spans[i].first = p THEN NormalizeToLf(edits[i].new) ELSE <<>>
           parts == [i \in 1 .. M |-> Part(i)]
<1>1. M \in Nat /\ \A i \in 1 .. M : NormalizeToLf(edits[i].new) \in Seq(C)
  BY EditsAre
<1>2. InsertedAt(spans, edits, p) = FlattenSeq(parts)
  BY DEF InsertedAt
<1> HIDE DEF M
<1>3. \A i \in 1 .. M : Part(i) \in Seq(C)
  BY <1>1
<1>4. \A i \in 1 .. M : spans[i].first = p =>
        Part(i) = NormalizeToLf(edits[i].new) /\ \A j \in 1 .. M : j # i => Part(j) = <<>>
  BY DEF BeginApart, M
<1>5. (\A i \in 1 .. M : spans[i].first # p) => \A i \in 1 .. M : Part(i) = <<>>
  OBVIOUS
<1> HIDE DEF Part
<1>6. parts \in Seq(Seq(C)) /\ Len(parts) = M /\ \A i \in 1 .. M : parts[i] = Part(i)
  BY <1>1, <1>3
<1> HIDE DEF parts
<1>7. ASSUME NEW i \in 1 .. M, spans[i].first = p PROVE FlattenSeq(parts) = NormalizeToLf(edits[i].new)
  <2>1. i \in 1 .. Len(parts) /\ \A j \in 1 .. Len(parts) : j # i => parts[j] = <<>>
    BY <1>4, <1>6, <1>7
  <2>2. FlattenSeq(parts) = parts[i]
    BY <1>6, <2>1, FlattenOne
  <2> QED
    BY <1>4, <1>6, <1>7, <2>2
<1>8. ASSUME \A i \in 1 .. M : spans[i].first # p PROVE FlattenSeq(parts) = <<>>
  <2>1. \A j \in 1 .. Len(parts) : parts[j] = <<>>
    BY <1>5, <1>6, <1>8
  <2> QED
    BY <1>6, <2>1, FlattenNone
<1> QED
  BY <1>2, <1>7, <1>8 DEF InsertsOne, M

\* The characters that no span covers.
StaysUncovered(content, spans, p) ==
  /\ p <= Len(content)
  /\ \A i \in DOMAIN spans : p < spans[i].first \/ p >= spans[i].next

ShownAt(content, spans, p) == IF StaysUncovered(content, spans, p) THEN <<content[p]>> ELSE <<>>

\* The text with every span replaced at once, position by position.
ReplacedBy(parts, content, spans, edits) ==
  \A p \in 1 .. Len(content) + 1 :
    /\ \A i \in 1 .. Len(edits) :
         spans[i].first = p => parts[p] = NormalizeToLf(edits[i].new) \o ShownAt(content, spans, p)
    /\ (\A i \in 1 .. Len(edits) : spans[i].first # p) => parts[p] = ShownAt(content, spans, p)

\* The replacement at once consists of such parts.
LEMMA ReplacedParts ==
  ASSUME NEW Char, "nl" \in Char, NEW C, C = Char \ {"cr"}, NEW content \in Seq(C), NEW edits \in EditsOver(Char), NEW spans,
         DOMAIN spans = 1 .. Len(edits), BeginApart(spans)
  PROVE  \E parts \in Seq(Seq(C)) :
           /\ Len(parts) = Len(content) + 1
           /\ ReplacedAtOnce(content, spans, edits) = FlattenSeq(parts)
           /\ ReplacedBy(parts, content, spans, edits)
<1> DEFINE N == Len(content) + 1
           M == Len(edits)
           Inserted(p) == InsertedAt(spans, edits, p)
           Part(p) == Inserted(p) \o ShownAt(content, spans, p)
           parts == [p \in 1 .. N |-> Part(p)]
<1>1. N \in Nat /\ Len(content) = N - 1 /\ \A p \in 1 .. N : p <= Len(content) => content[p] \in C
  OBVIOUS
<1>2. ReplacedAtOnce(content, spans, edits) = FlattenSeq(parts)
  BY DEF ReplacedAtOnce, InsertedAt, ShownAt, StaysUncovered
<1>3. ASSUME NEW p
      PROVE  /\ \A i \in 1 .. M : spans[i].first = p => Inserted(p) = NormalizeToLf(edits[i].new)
             /\ (\A i \in 1 .. M : spans[i].first # p) => Inserted(p) = <<>>
  BY InsertedIs DEF InsertsOne
<1> HIDE DEF Inserted
<1>4. \A i \in 1 .. M : NormalizeToLf(edits[i].new) \in Seq(C)
  BY EditsAre
<1> HIDE DEF N, M
<1>5. ASSUME NEW p \in 1 .. N PROVE ShownAt(content, spans, p) \in Seq(C)
  <2>1. CASE StaysUncovered(content, spans, p)
    <3>1. content[p] \in C
      BY <1>1, <2>1 DEF StaysUncovered
    <3> QED
      BY <2>1, <3>1 DEF ShownAt
  <2>2. CASE ~StaysUncovered(content, spans, p)
    BY <2>2 DEF ShownAt
  <2> QED
    BY <2>1, <2>2
<1>6. ASSUME NEW p \in 1 .. N PROVE Inserted(p) \in Seq(C)
  <2>1. CASE \A i \in 1 .. M : spans[i].first # p
    <3>1. Inserted(p) = <<>>
      BY <1>3, <2>1
    <3> QED
      BY <3>1
  <2>2. CASE \E i \in 1 .. M : spans[i].first = p
    BY <1>3, <1>4, <2>2
  <2> QED
    BY <2>1, <2>2
<1>7. \A p \in 1 .. N : Part(p) \in Seq(C)
  BY <1>5, <1>6, JoinFacts
<1>8. ASSUME NEW p \in 1 .. N
      PROVE  /\ \A i \in 1 .. M : spans[i].first = p =>
                  Part(p) = NormalizeToLf(edits[i].new) \o ShownAt(content, spans, p)
             /\ (\A i \in 1 .. M : spans[i].first # p) => Part(p) = ShownAt(content, spans, p)
  <2>1. ASSUME NEW i \in 1 .. M, spans[i].first = p
        PROVE  Part(p) = NormalizeToLf(edits[i].new) \o ShownAt(content, spans, p)
    BY <1>3, <2>1
  <2>2. ASSUME \A i \in 1 .. M : spans[i].first # p PROVE Part(p) = ShownAt(content, spans, p)
    <3>1. Inserted(p) = <<>>
      BY <1>3, <2>2
    <3> QED
      BY <1>5, <3>1, EmptyJoin
  <2> QED
    BY <2>1, <2>2
<1> HIDE DEF Part
<1>9. parts \in Seq(Seq(C)) /\ Len(parts) = N /\ \A p \in 1 .. N : parts[p] = Part(p)
  BY <1>1, <1>7
<1> HIDE DEF parts
<1>10. ReplacedBy(parts, content, spans, edits)
  BY <1>8, <1>9 DEF ReplacedBy, N, M
<1> QED
  BY <1>2, <1>9, <1>10 DEF N

\* How the spans lie, m[n] being where the n-th of the splice order begins and m[0]
\* the end: each lies before the one that was spliced before it, and between the two
\* are characters that stay.
Layout(content, spans, order, m, M) ==
  /\ m[0] = Len(content) + 1
  /\ \A n \in 0 .. M : m[n] \in 1 .. Len(content) + 1
  /\ \A n \in 1 .. M : m[n] = spans[order[n]].first /\ m[n] \in 1 .. Len(content) /\ m[n] < m[n - 1]
  /\ \A n \in 1 .. M : spans[order[n]].next \in m[n] .. m[n - 1]
  /\ \A n \in 1 .. M : \A p \in m[n] .. m[n - 1] - 1 :
       /\ p # m[n] => \A j \in 1 .. M : spans[j].first # p
       /\ StaysUncovered(content, spans, p) <=> p >= spans[order[n]].next
  /\ \A p \in 1 .. m[M] - 1 :
       StaysUncovered(content, spans, p) /\ \A j \in 1 .. M : spans[j].first # p

\* The spans of an accepted call lie so.
LEMMA LayoutOf ==
  ASSUME NEW content, NEW spans, NEW order, NEW m, NEW M \in Nat, Len(content) \in Nat,
         Accepted(spans, M, Len(content)), SortedDown(order, spans, M),
         m[0] = Len(content) + 1, \A n \in 1 .. M : m[n] = spans[order[n]].first
  PROVE  Layout(content, spans, order, m, M)
<1> DEFINE L == Len(content)
           Begin(j) == spans[j].first
           Behind(j) == spans[j].next
<1>1. L \in Nat /\ DOMAIN spans = 1 .. M
      /\ \A j \in 1 .. M : Begin(j) \in 1 .. L /\ Behind(j) \in Begin(j) .. L + 1
  BY DEF Accepted, SpansOf
<1>2. \A i, j \in 1 .. M : Begin(i) < Begin(j) => Behind(i) <= Begin(j)
  <2> SUFFICES ASSUME NEW i \in 1 .. M, NEW j \in 1 .. M, Begin(i) < Begin(j)
               PROVE  Behind(i) <= Begin(j)
    OBVIOUS
  <2>1. ~(Behind(i) > Begin(j))
    BY <1>1 DEF Accepted, Overlap, Precedes
  <2>2. Behind(i) \in Nat /\ Begin(j) \in Nat
    BY <1>1
  <2> HIDE DEF Begin, Behind
  <2> QED
    BY <2>1, <2>2
<1>3. /\ \A n \in 1 .. M : order[n] \in 1 .. M
      /\ \A k, l \in 1 .. M : k < l => Begin(order[k]) > Begin(order[l])
      /\ \A j \in 1 .. M : \E k \in 1 .. M : order[k] = j
  BY DEF SortedDown
<1>4. m[0] = L + 1 /\ \A n \in 1 .. M : m[n] = Begin(order[n])
  OBVIOUS
<1>5. \A p : StaysUncovered(content, spans, p) <=>
               p <= L /\ \A j \in 1 .. M : p < Begin(j) \/ p >= Behind(j)
  BY <1>1 DEF StaysUncovered
<1> HIDE DEF L, Begin, Behind
<1>6. /\ \A n \in 1 .. M : m[n] \in 1 .. L /\ m[n] \in Nat
      /\ \A n \in 0 .. M : m[n] \in 1 .. L + 1 /\ m[n] \in Nat
  <2>1. \A n \in 1 .. M : m[n] \in 1 .. L
    BY <1>1, <1>3, <1>4
  <2>2. L + 1 \in 1 .. L + 1 /\ \A i \in 1 .. L : i \in 1 .. L + 1
    BY <1>1
  <2>3. \A n \in 0 .. M : n = 0 \/ n \in 1 .. M
    OBVIOUS
  <2>4. \A n \in 0 .. M : m[n] \in 1 .. L + 1
    BY <1>4, <2>1, <2>2, <2>3
  <2>5. \A i \in 1 .. L + 1 : i \in Nat
    OBVIOUS
  <2> QED
    BY <2>1, <2>2, <2>4, <2>5
<1>7. \A k, l \in 0 .. M : k < l => m[l] < m[k]
  <2> SUFFICES ASSUME NEW k \in 0 .. M, NEW l \in 0 .. M, k < l PROVE m[l] < m[k]
    OBVIOUS
  <2>1. l \in 1 .. M /\ (k = 0 \/ k \in 1 .. M)
    OBVIOUS
  <2>2. CASE k = 0
    BY <1>1, <1>4, <1>6, <2>1, <2>2
  <2>3. CASE k # 0
    <3>1. k \in 1 .. M
      BY <2>1, <2>3
    <3>2. Begin(order[k]) > Begin(order[l]) /\ m[k] = Begin(order[k]) /\ m[l] = Begin(order[l])
      BY <1>3, <1>4, <2>1, <3>1
    <3>3. m[k] \in Nat /\ m[l] \in Nat
      BY <1>1, <1>6
    <3> QED
      BY <3>2, <3>3
  <2> QED
    BY <2>2, <2>3
<1>8. \A n \in 1 .. M : n - 1 \in 0 .. M /\ n \in 0 .. M /\ n - 1 < n
  OBVIOUS
<1>9. ASSUME NEW n \in 1 .. M PROVE Behind(order[n]) \in m[n] .. m[n - 1]
  <2>1. order[n] \in 1 .. M /\ m[n] = Begin(order[n])
    BY <1>3, <1>4
  <2>2. Behind(order[n]) \in m[n] .. L + 1
    BY <1>1, <2>1
  <2>3. Behind(order[n]) <= m[n - 1]
    <3>1. CASE n = 1
      <4>1. m[n - 1] = L + 1
        BY <1>4, <3>1
      <4> QED
        BY <1>1, <1>6, <2>2, <4>1
    <3>2. CASE n # 1
      <4>1. n - 1 \in 1 .. M
        BY <3>2
      <4>2. m[n - 1] = Begin(order[n - 1]) /\ order[n - 1] \in 1 .. M /\ m[n] < m[n - 1]
        BY <1>3, <1>4, <1>7, <1>8, <4>1
      <4> QED
        BY <1>2, <2>1, <4>2
    <3> QED
      BY <3>1, <3>2
  <2>4. m[n] \in Nat /\ m[n - 1] \in Nat /\ L \in Nat
    BY <1>1, <1>6, <1>8
  <2> QED
    BY <2>2, <2>3, <2>4
<1>10. ASSUME NEW n \in 1 .. M, NEW p \in m[n] .. m[n - 1] - 1
       PROVE  /\ p # m[n] => \A j \in 1 .. M : Begin(j) # p
              /\ StaysUncovered(content, spans, p) <=> p >= Behind(order[n])
  <2>1. /\ m[n] \in Nat /\ m[n - 1] \in Nat /\ p \in Nat /\ m[n] <= p /\ p < m[n - 1] /\ p <= L
        /\ order[n] \in 1 .. M /\ m[n] = Begin(order[n])
    <3>1. m[n] \in Nat /\ m[n - 1] \in Nat /\ m[n - 1] \in 1 .. L + 1
      BY <1>6, <1>8
    <3>2. p \in Nat /\ m[n] <= p /\ p < m[n - 1]
      BY <3>1
    <3>3. p <= L
      BY <1>1, <3>1, <3>2
    <3>4. order[n] \in 1 .. M /\ m[n] = Begin(order[n])
      BY <1>3, <1>4
    <3> QED
      BY <3>1, <3>2, <3>3, <3>4
  <2>2. ASSUME NEW j \in 1 .. M
        PROVE  j = order[n] \/ Begin(j) > p \/ (Begin(j) < m[n] /\ Behind(j) <= p)
    <3>1. PICK k \in 1 .. M : order[k] = j
      BY <1>3
    <3>2. m[k] = Begin(j) /\ m[k] \in Nat /\ Behind(j) \in Nat
      <4>1. Begin(j) \in 1 .. L /\ Behind(j) \in Begin(j) .. L + 1
        BY <1>1
      <4>2. m[k] = Begin(j)
        BY <1>4, <3>1
      <4>3. Behind(j) \in Nat
        <5>1. \A a \in 1 .. L : \A b \in a .. L + 1 : b \in Nat
          BY <1>1
        <5> QED
          BY <4>1, <5>1
      <4> QED
        BY <1>6, <4>2, <4>3
    <3>3. CASE k = n
      BY <3>1, <3>3
    <3>4. CASE k < n
      <4>1. k = n - 1 \/ k < n - 1
        BY <3>4
      <4>2. m[k] >= m[n - 1]
        <5>1. k < n - 1 => m[n - 1] < m[k]
          BY <1>7, <1>8
        <5> QED
          BY <2>1, <3>2, <4>1, <5>1
      <4> QED
        BY <2>1, <3>2, <4>2
    <3>5. CASE n < k
      <4>1. m[k] < m[n]
        BY <1>7, <1>8, <3>5
      <4>2. Behind(j) <= Begin(order[n])
        BY <1>2, <2>1, <3>2, <4>1
      <4> QED
        BY <2>1, <3>2, <4>1, <4>2
    <3> QED
      BY <3>3, <3>4, <3>5
  <2>3. \A j \in 1 .. M : Begin(j) \in Nat /\ Behind(j) \in Nat
    BY <1>1
  <2>4. p # m[n] => \A j \in 1 .. M : Begin(j) # p
    <3> SUFFICES ASSUME p # m[n], NEW j \in 1 .. M PROVE Begin(j) # p
      OBVIOUS
    <3>1. CASE j = order[n]
      BY <2>1, <3>1
    <3>2. CASE j # order[n]
      <4>1. Begin(j) > p \/ Begin(j) < m[n]
        BY <2>2, <3>2
      <4>2. Begin(j) \in Nat
        BY <2>3
      <4> QED
        BY <2>1, <4>1, <4>2
    <3> QED
      BY <3>1, <3>2
  <2>5. ASSUME p >= Behind(order[n]) PROVE StaysUncovered(content, spans, p)
    <3>1. ASSUME NEW j \in 1 .. M PROVE p < Begin(j) \/ p >= Behind(j)
      <4>1. CASE j = order[n]
        BY <2>5, <4>1
      <4>2. CASE j # order[n]
        BY <2>1, <2>2, <2>3, <4>2
      <4> QED
        BY <4>1, <4>2
    <3> QED
      BY <1>5, <2>1, <3>1
  <2>6. ASSUME StaysUncovered(content, spans, p) PROVE p >= Behind(order[n])
    <3>1. ~(p < Begin(order[n]))
      BY <2>1
    <3> QED
      BY <1>5, <2>1, <2>6, <3>1
  <2> QED
    BY <2>4, <2>5, <2>6
<1>11. ASSUME NEW p \in 1 .. m[M] - 1
       PROVE  StaysUncovered(content, spans, p) /\ \A j \in 1 .. M : Begin(j) # p
  <2>1. M \in 0 .. M /\ m[M] \in Nat /\ p \in Nat /\ p < m[M] /\ p <= L
    BY <1>1, <1>6
  <2>2. ASSUME NEW j \in 1 .. M PROVE p < Begin(j) /\ Begin(j) \in Nat
    <3>1. PICK k \in 1 .. M : order[k] = j
      BY <1>3
    <3>2. m[k] = Begin(j) /\ m[k] \in Nat
      BY <1>1, <1>4, <1>6, <3>1
    <3>3. k = M \/ m[M] < m[k]
      BY <1>7, <1>8, <2>1
    <3> QED
      BY <2>1, <3>2, <3>3
  <2>3. \A j \in 1 .. M : Begin(j) # p
    BY <2>1, <2>2
  <2> QED
    BY <1>5, <2>1, <2>2, <2>3
<1>12. \A n \in 1 .. M : m[n] < m[n - 1]
  BY <1>7, <1>8
<1> QED
  BY <1>4, <1>6, <1>9, <1>10, <1>11, <1>12 DEF Layout, L, Begin, Behind

\* One span after the other, from the last to the first, is all at once.
LEMMA SplicesAtOnce ==
  ASSUME NEW Char, "nl" \in Char, NEW C, C = Char \ {"cr"}, NEW content \in Seq(C), NEW edits \in EditsOver(Char), NEW spans,
         Accepted(spans, Len(edits), Len(content)), BeginApart(spans)
  PROVE  /\ SpliceTextSpans(content, spans, edits) = ReplacedAtOnce(content, spans, edits)
         /\ ReplacedAtOnce(content, spans, edits) \in Seq(C)
<1> DEFINE L == Len(content)
           M == Len(edits)
           order == SpliceOrder(spans)
           m == [n \in 0 .. M |-> IF n = 0 THEN L + 1 ELSE spans[order[n]].first]
           New(n) == NormalizeToLf(edits[order[n]].new)
<1>1. M \in Nat /\ L \in Nat /\ DOMAIN spans = 1 .. M /\ \A i \in 1 .. M : spans[i].first \in Nat
  BY EditsAre DEF Accepted, SpansOf
<1>2. SortedDown(order, spans, M)
  BY <1>1, SpliceOrderSorts
<1> HIDE DEF order
<1>3. Len(order) = M /\ \A n \in 1 .. M : order[n] \in 1 .. M
  <2>1. order \in [1 .. M -> 1 .. M]
    BY <1>2 DEF SortedDown
  <2> HIDE DEF M
  <2> QED
    BY <1>1, <2>1
<1>4. m[0] = L + 1 /\ \A n \in 1 .. M : m[n] = spans[order[n]].first
  BY <1>1
<1> HIDE DEF m
<1>5. Layout(content, spans, order, m, M)
  BY <1>1, <1>2, <1>4, LayoutOf
<1>6. PICK parts \in Seq(Seq(C)) :
        /\ Len(parts) = L + 1
        /\ ReplacedAtOnce(content, spans, edits) = FlattenSeq(parts)
        /\ ReplacedBy(parts, content, spans, edits)
  BY <1>1, ReplacedParts
<1>7. PICK h : FromRight(h, parts, C, L + 1) /\ FlattenSeq(parts) = h[1]
  BY <1>6, FlattenFromRight
<1> DEFINE F(n) == SubSeq(content, 1, m[n] - 1) \o h[m[n]]
           f == [n \in 0 .. M |-> F(n)]
<1>8. \A n \in 1 .. M : New(n) \in Seq(C)
  BY <1>3, EditsAre
<1>9. \A n \in 0 .. M : m[n] \in 1 .. L + 1 /\ h[m[n]] \in Seq(C)
  <2>1. \A n \in 0 .. M : m[n] \in 1 .. L + 1
    BY <1>5 DEF Layout
  <2>2. \A p \in 1 .. (L + 1) + 1 : h[p] \in Seq(C)
    BY <1>7 DEF FromRight
  <2>3. \A p \in 1 .. L + 1 : p \in 1 .. (L + 1) + 1
    BY <1>1
  <2> QED
    BY <2>1, <2>2, <2>3
<1>10. ASSUME NEW n \in 1 .. M
       PROVE  F(n) = ReplaceSpan(F(n - 1), spans[order[n]], New(n))
  <2> DEFINE first == m[n]
             behind == m[n - 1]
             span == spans[order[n]]
             new == New(n)
  <2>1. /\ n \in 0 .. M /\ n - 1 \in 0 .. M /\ order[n] \in 1 .. M
        /\ new \in Seq(C)
    BY <1>1, <1>3, <1>8
  <2>2. first \in 1 .. L /\ behind \in first + 1 .. L + 1 /\ h[behind] \in Seq(C)
    <3>1. first \in 1 .. L /\ behind \in 1 .. L + 1 /\ first < behind
      BY <1>5, <2>1 DEF Layout
    <3>2. \A a \in 1 .. L : \A b \in 1 .. L + 1 : a < b => b \in a + 1 .. L + 1
      BY <1>1
    <3> QED
      BY <1>9, <2>1, <3>1, <3>2
  <2>3. span.first = first /\ span.next \in first .. behind
    BY <1>5 DEF Layout
  <2>4. \A p \in first .. behind - 1 :
          /\ p # first => \A j \in 1 .. M : spans[j].first # p
          /\ StaysUncovered(content, spans, p) <=> p >= span.next
    BY <1>5 DEF Layout
  <2> HIDE DEF first, behind, span, new
  <2>5. /\ first \in Nat /\ behind \in Nat /\ span.next \in Nat /\ first <= span.next
        /\ first \in first .. behind - 1 /\ first \in 1 .. L + 1 /\ behind \in 1 .. L + 1
        /\ \A p \in first + 1 .. behind - 1 : p \in first .. behind - 1 /\ p # first /\ p \in 1 .. L + 1 /\ p \in Nat
    <3>1. first \in Nat /\ behind \in Nat /\ first < behind /\ behind <= L + 1 /\ 1 <= first
      BY <1>1, <2>2
    <3>2. span.next \in Nat /\ first <= span.next
      BY <2>3, <3>1
    <3> QED
      BY <1>1, <3>1, <3>2
  <2>6. parts[first] = new \o (IF span.next = first THEN <<content[first]>> ELSE <<>>)
    <3>1. parts[first] = new \o ShownAt(content, spans, first)
      BY <1>6, <2>1, <2>3, <2>5 DEF ReplacedBy, new, span
    <3>2. StaysUncovered(content, spans, first) <=> span.next = first
      <4>1. StaysUncovered(content, spans, first) <=> first >= span.next
        BY <2>4, <2>5
      <4> QED
        BY <2>5, <4>1
    <3> QED
      BY <3>1, <3>2 DEF ShownAt
  <2>7. \A p \in first + 1 .. behind - 1 : parts[p] = IF p < span.next THEN <<>> ELSE <<content[p]>>
    <3> SUFFICES ASSUME NEW p \in first + 1 .. behind - 1
                 PROVE  parts[p] = IF p < span.next THEN <<>> ELSE <<content[p]>>
      OBVIOUS
    <3>1. parts[p] = ShownAt(content, spans, p)
      BY <1>6, <2>4, <2>5 DEF ReplacedBy
    <3>2. StaysUncovered(content, spans, p) <=> ~(p < span.next)
      <4>1. StaysUncovered(content, spans, p) <=> p >= span.next
        BY <2>4, <2>5
      <4>2. p \in Nat
        BY <2>5
      <4> QED
        BY <2>5, <4>1, <4>2
    <3> QED
      BY <3>1, <3>2 DEF ShownAt
  <2> DEFINE stays == SubSeq(content, span.next, behind - 1) \o h[behind]
  <2>8. h[first] = new \o stays
    <3> DEFINE next == span.next
    <3>1. SpanParts(parts, content, new, first, next, behind)
      BY <2>6, <2>7 DEF SpanParts
    <3>2. /\ first \in 1 .. Len(content) /\ behind \in first + 1 .. Len(content) + 1
          /\ next \in first .. behind /\ new \in Seq(C) /\ FromRight(h, parts, C, Len(content) + 1)
      BY <1>7, <2>1, <2>2, <2>3
    <3> HIDE DEF next
    <3>3. SpanGoesOn(h, content, new, first, next, behind)
      BY <3>1, <3>2, SpanFromRight
    <3> QED
      BY <3>3 DEF SpanGoesOn, next
  <2>9. ReplaceSpan(SubSeq(content, 1, behind - 1) \o h[behind], span, new)
          = SubSeq(content, 1, span.first - 1) \o (new \o stays)
    <3>1. span.first \in 1 .. L + 1 /\ span.next \in span.first .. behind
      BY <2>3, <2>5
    <3>2. SpanReplaced(content, h[behind], span, new, behind)
      BY <2>1, <2>2, <2>5, <3>1, ReplacesSpan
    <3> QED
      BY <3>2 DEF SpanReplaced
  <2> HIDE DEF stays
  <2>10. SubSeq(content, 1, first - 1) \o h[first]
           = ReplaceSpan(SubSeq(content, 1, behind - 1) \o h[behind], span, new)
    BY <2>3, <2>8, <2>9
  <2> QED
    BY <2>10 DEF first, behind, span, new
<1>11. F(0) = content
  <2>1. parts[L + 1] = <<>>
    <3>1. L + 1 \in 1 .. L + 1 /\ ~(L + 1 <= L)
      BY <1>1
    <3>2. \A i \in 1 .. M : spans[i].first # L + 1
      <4>1. \A i \in 1 .. M : spans[i].first \in 1 .. L
        BY DEF Accepted, SpansOf
      <4> QED
        BY <1>1, <4>1
    <3>3. parts[L + 1] = ShownAt(content, spans, L + 1)
      BY <1>6, <3>1, <3>2 DEF ReplacedBy
    <3> QED
      BY <3>1, <3>3 DEF ShownAt, StaysUncovered
  <2>2. h[L + 1] = <<>>
    <3>1. L + 1 \in 1 .. L + 1
      BY <1>1
    <3>2. h[L + 1] = parts[L + 1] \o h[(L + 1) + 1] /\ h[(L + 1) + 1] = <<>>
      BY <1>7, <3>1 DEF FromRight
    <3> QED
      BY <2>1, <3>2
  <2>3. (L + 1) - 1 = L /\ SubSeq(content, 1, L) = content
    BY <1>1, SubSeqFull
  <2> QED
    BY <1>4, <2>2, <2>3, EmptyJoin
<1>12. SplicedInOrder(content, spans, edits, order) = F(M)
  <2>1. \A n \in 1 .. M : n \in 0 .. M /\ n - 1 \in 0 .. M
    BY <1>1
  <2>2. f[0] = content /\ f[M] = F(M)
    <3>1. 0 \in 0 .. M /\ M \in 0 .. M
      BY <1>1
    <3> HIDE DEF F, M
    <3> QED
      BY <1>11, <3>1
  <2>3. \A n \in 1 .. M : f[n] = ReplaceSpan(f[n - 1], spans[order[n]], New(n))
    <3> HIDE DEF F, New
    <3> QED
      BY <1>10, <2>1
  <2>4. SplicesOn(f, content, spans, edits, order, M)
    <3> HIDE DEF f, M
    <3> QED
      BY <2>2, <2>3 DEF SplicesOn, New
  <2> HIDE DEF f, F, M
  <2>5. SplicedInOrder(content, spans, edits, order) = f[M]
    BY <1>1, <1>3, <2>4, SplicedAlong
  <2> QED
    BY <2>2, <2>5
<1>13. h[1] = F(M)
  <2>1. M \in 0 .. M /\ m[M] \in 1 .. L + 1 /\ 1 \in 1 .. L + 1
    BY <1>1, <1>9
  <2>2. \A p \in 1 .. m[M] - 1 : parts[p] = <<content[p]>>
    <3> SUFFICES ASSUME NEW p \in 1 .. m[M] - 1 PROVE parts[p] = <<content[p]>>
      OBVIOUS
    <3>1. p \in 1 .. L + 1
      BY <1>1, <2>1
    <3>2. StaysUncovered(content, spans, p) /\ \A j \in 1 .. M : spans[j].first # p
      BY <1>5 DEF Layout
    <3>3. parts[p] = ShownAt(content, spans, p)
      BY <1>6, <3>1, <3>2 DEF ReplacedBy
    <3> QED
      BY <3>2, <3>3 DEF ShownAt
  <2> DEFINE b == m[M]
  <2>3. /\ b \in 1 .. (L + 1) + 1 /\ 1 \in 1 .. (L + 1) + 1 /\ 1 <= b /\ b <= L + 1
    BY <1>1, <2>1
  <2>4. \A p \in 1 .. b - 1 : parts[p] = <<content[p]>>
    BY <2>2
  <2> DEFINE N == L + 1
  <2> HIDE DEF b
  <2>5. GoesOn(h, content, 1, b)
    <3>1. FromRight(h, parts, C, N) /\ b \in 1 .. N + 1 /\ 1 \in 1 .. N + 1 /\ 1 <= b /\ b <= Len(content) + 1
      BY <1>7, <2>3
    <3> HIDE DEF N
    <3> QED
      BY <2>4, <3>1, SinglesFromRight
  <2> QED
    BY <2>5 DEF GoesOn, b
<1>14. h[1] \in Seq(C)
  <2>1. 1 \in 1 .. (L + 1) + 1
    BY <1>1
  <2> QED
    BY <1>7, <2>1 DEF FromRight
<1> QED
  BY <1>6, <1>7, <1>12, <1>13, <1>14 DEF SpliceTextSpans, order

\* The search finds an old text once exactly if all its occurrences begin within the
\* first one, and then it finds that one.
SearchedOnce(s, at, width) ==
  LET nearest == CHOOSE p \in at : \A q \in at : p <= q
  IN  /\ s = <<>> <=> at = {}
      /\ at # {} => nearest \in at /\ s # <<>> /\ s[1] = nearest
      /\ at # {} => (Len(s) = 1 <=> \A p \in at : p < nearest + width)

\* What the search finds of an old text.
LEMMA OnceFound ==
  ASSUME NEW Char, NEW content \in Seq(Char), NEW old \in Seq(Char), old # <<>>
  PROVE  SearchedOnce(FindTextStarts(content, old), Occurrences(content, old), Len(old))
<1> DEFINE s == FindTextStarts(content, old)
           at == Occurrences(content, old)
           N == Len(content)
           w == Len(old)
           nearest == CHOOSE p \in at : \A q \in at : p <= q
<1>1. w \in Nat \ {0} /\ N \in Nat /\ at \subseteq Nat /\ \A q \in at : q \in Nat /\ q <= N
  BY OccurrencesWithin
<1>2. FoundUpto(s, at, w, N)
  BY SearchFinds
<1> HIDE DEF s, at, N, w
<1>3. s \in Seq(at) /\ Len(s) \in Nat /\ (s = <<>> <=> Len(s) = 0)
  BY <1>2 DEF FoundUpto
<1>4. at # {} => nearest \in at /\ \A q \in at : nearest <= q
  <2> SUFFICES ASSUME at # {} PROVE nearest \in at /\ \A q \in at : nearest <= q
    OBVIOUS
  <2>1. \E p \in at : \A q \in at : p <= q
    BY <1>1, LeastNat
  <2> QED
    BY <2>1
<1>5. s # <<>> => s[1] \in at /\ \A q \in at : s[1] <= q
  <2> SUFFICES ASSUME s # <<>> PROVE s[1] \in at /\ \A q \in at : s[1] <= q
    OBVIOUS
  <2>1. s[1] \in at
    BY <1>3
  <2> QED
    BY <1>2, <2>1 DEF FoundUpto
<1> HIDE DEF nearest
<1>6. s = <<>> => at = {}
  <2>1. s = <<>> => \A q \in at : ~(q <= N)
    BY <1>2 DEF FoundUpto
  <2> QED
    BY <1>1, <2>1
<1>7. ASSUME at # {} PROVE nearest \in at /\ s # <<>> /\ s[1] = nearest
  <2>1. nearest \in at /\ s[1] \in at /\ nearest <= s[1] /\ s[1] <= nearest
    BY <1>4, <1>5, <1>6, <1>7
  <2>2. nearest \in Nat /\ s[1] \in Nat
    BY <1>1, <2>1
  <2> QED
    BY <1>6, <1>7, <2>1, <2>2
<1>8. ASSUME at # {} PROVE Len(s) = 1 <=> \A p \in at : p < nearest + w
  <2>1. nearest \in Nat
    BY <1>1, <1>7, <1>8
  <2>2. ASSUME Len(s) = 1, NEW p \in at PROVE p < nearest + w
    BY <1>1, <1>2, <1>7, <1>8, <2>2 DEF FoundUpto
  <2>3. ASSUME Len(s) # 1 PROVE \E p \in at : ~(p < nearest + w)
    <3>1. Len(s) \notin {0, 1}
      BY <1>3, <1>7, <1>8, <2>3
    <3>2. PICK p \in at : p >= s[1] + w
      BY <1>2, <3>1 DEF FoundUpto
    <3>3. p \in Nat /\ p >= nearest + w
      BY <1>1, <1>7, <1>8, <3>2
    <3> QED
      BY <1>1, <2>1, <3>3
  <2> QED
    BY <2>2, <2>3
<1> QED
  BY <1>5, <1>6, <1>7, <1>8 DEF SearchedOnce, s, at, w, nearest

\* What the old texts decide: they are found as they are exactly if each occurs once,
\* and apart from the others.
LEMMA OldTextsDoDecide ==
  ASSUME NEW Char, "nl" \in Char, NEW edits \in EditsOver(Char), NEW file, file.text \in Seq(Char)
  PROVE  OldTextsDecide(file, edits)
<1> DEFINE content == NormalizeToLf(file.text)
           M == Len(edits)
           Old(i) == NormalizeToLf(edits[i].old)
           At(i) == Occurrences(content, Old(i))
           Nearest(i) == CHOOSE p \in At(i) : \A q \in At(i) : p <= q
           error == EditFile(file, edits).error
           match == MatchWithFallback(content, edits)
           once == \A i \in DOMAIN edits : edits[i].old # <<>> /\ At(i) # {}
                     /\ \A p \in At(i) : p < Nearest(i) + Len(Old(i))
           apart == \A i, j \in DOMAIN edits : i # j =>
                      Nearest(i) + Len(Old(i)) <= Nearest(j) \/ Nearest(j) + Len(Old(j)) <= Nearest(i)
           exact == MatchExact(content, edits)
           found == [i \in 1 .. M |-> ExactSpans(content, Old(i))]
           spans == [i \in 1 .. M |-> found[i][1]]
           nearest == [i \in 1 .. M |-> [first |-> Nearest(i), next |-> Nearest(i) + Len(Old(i))]]
<1>1. M \in Nat /\ DOMAIN edits = 1 .. M
      /\ \A i \in 1 .. M : edits[i].old # <<>> => Old(i) \in Seq(Char) /\ Old(i) # <<>>
  BY EditsAre
<1>2. content \in Seq(Char)
  <2>1. \A s \in Seq(Char \ {"cr"}) : s \in Seq(Char)
    OBVIOUS
  <2> QED
    BY <2>1, NormalizedIs
<1>3. error = IF match.error # "none" THEN match.error
              ELSE IF SpliceTextSpans(content, match.spans, edits) = content THEN "no_change" ELSE "none"
  BY DEF EditFile
<1>4. match = IF \E i \in 1 .. M : edits[i].old = <<>> THEN [error |-> "empty", spans |-> <<>>]
              ELSE IF exact.error = "not_found" THEN MatchFuzzy(content, edits) ELSE exact
  BY <1>1 DEF MatchWithFallback
<1>5. exact = Match(found)
  BY <1>1 DEF MatchExact
<1>6. DOMAIN found = 1 .. M /\ \A i \in 1 .. M : found[i] = ExactSpans(content, Old(i))
  OBVIOUS
<1> HIDE DEF found, M, exact, match, error, content
<1>7. MatchDecides(found, M)
  BY <1>1, <1>6, MatchDoes
<1> USE DEF M
<1>8. ASSUME NEW i \in 1 .. M, edits[i].old # <<>>
      PROVE  /\ found[i] = <<>> <=> At(i) = {}
             /\ At(i) # {} => Nearest(i) \in At(i) /\ found[i][1] = nearest[i]
             /\ At(i) # {} => (Len(found[i]) = 1 <=> \A p \in At(i) : p < Nearest(i) + Len(Old(i)))
  <2> DEFINE s == FindTextStarts(content, Old(i))
  <2>1. SearchedOnce(s, At(i), Len(Old(i)))
    BY <1>1, <1>2, <1>8, OnceFound
  <2>2. s \in Seq(At(i))
    BY <1>1, <1>2, <1>8, SearchFinds DEF FoundUpto
  <2>3. found[i] = [k \in DOMAIN s |-> [first |-> s[k], next |-> s[k] + Len(Old(i))]]
    BY <1>6 DEF ExactSpans
  <2> HIDE DEF s, At, Old
  <2>4. Len(found[i]) = Len(s) /\ (found[i] = <<>> <=> s = <<>>)
    BY <2>2, <2>3
  <2>5. s # <<>> => found[i][1] = [first |-> s[1], next |-> s[1] + Len(Old(i))]
    BY <2>2, <2>3
  <2> QED
    BY <2>1, <2>4, <2>5 DEF SearchedOnce
<1>9. ASSUME NEW i \in 1 .. M, edits[i].old # <<>>, NEW p \in At(i) PROVE p \in Nat /\ Len(Old(i)) \in Nat \ {0}
  BY <1>1, <1>2, <1>9, OccurrencesWithin
<1>10. DOMAIN spans = 1 .. M /\ \A i \in 1 .. M : spans[i] = found[i][1]
  OBVIOUS
<1>11. DOMAIN nearest = 1 .. M
       /\ \A i \in 1 .. M : nearest[i] = [first |-> Nearest(i), next |-> Nearest(i) + Len(Old(i))]
  OBVIOUS
<1>12. once <=> \A i \in 1 .. M : edits[i].old # <<>> /\ At(i) # {}
                  /\ \A p \in At(i) : p < Nearest(i) + Len(Old(i))
  BY <1>1
<1>13. apart <=> \A i, j \in 1 .. M : i # j =>
                   Nearest(i) + Len(Old(i)) <= Nearest(j) \/ Nearest(j) + Len(Old(j)) <= Nearest(i)
  BY <1>1
<1>14. spans = [i \in 1 .. M |-> spans[i]] /\ nearest = [i \in 1 .. M |-> nearest[i]]
  OBVIOUS
<1>15. Match(found).error = "none" => Match(found).spans = spans /\ ~Overlap(spans)
  BY <1>7 DEF MatchDecides
<1>16. Match(found).error = "overlap" => Overlap(spans)
  BY <1>7 DEF MatchDecides
<1> HIDE DEF M, At, Old, Nearest, spans, nearest, once, apart
<1>17. ASSUME once, apart PROVE error \in {"none", "no_change"} /\ match.spans = nearest
  <2>1. ASSUME NEW i \in 1 .. M
        PROVE  /\ edits[i].old # <<>> /\ Nearest(i) \in At(i) /\ spans[i] = nearest[i]
               /\ Len(found[i]) = 1
    BY <1>8, <1>10, <1>12, <1>17
  <2>2. spans = nearest
    BY <1>14, <2>1
  <2>3. ASSUME NEW i \in 1 .. M PROVE Nearest(i) \in Nat /\ Len(Old(i)) \in Nat \ {0}
    BY <1>9, <2>1
  <2>4. ~Overlap(nearest)
    <3> SUFFICES ASSUME NEW i \in 1 .. M, NEW j \in 1 .. M,
                        Precedes(nearest, i, j), nearest[i].next > nearest[j].first
                 PROVE  FALSE
      BY <1>11 DEF Overlap
    <3>1. nearest[i].first = Nearest(i) /\ nearest[i].next = Nearest(i) + Len(Old(i))
          /\ nearest[j].first = Nearest(j)
      BY <1>11
    <3>2. Nearest(i) \in Nat /\ Nearest(j) \in Nat /\ Len(Old(i)) \in Nat \ {0} /\ Len(Old(j)) \in Nat \ {0}
      BY <2>3
    <3>3. Nearest(i) + Len(Old(i)) > Nearest(j)
      BY <3>1
    <3>4. Nearest(i) < Nearest(j) \/ (Nearest(i) = Nearest(j) /\ i < j)
      BY <3>1 DEF Precedes
    <3>5. i # j
      BY <3>2, <3>4
    <3>6. Nearest(i) + Len(Old(i)) <= Nearest(j) \/ Nearest(j) + Len(Old(j)) <= Nearest(i)
      BY <1>13, <1>17, <3>5
    <3> QED
      BY <3>2, <3>3, <3>4, <3>6
  <2>5. exact.error = "none" /\ exact.spans = nearest
    <3>1. Match(found).error \in {"none", "overlap"}
      BY <1>7, <2>1 DEF MatchDecides
    <3> QED
      BY <1>5, <1>15, <1>16, <2>2, <2>4, <3>1
  <2>6. match = exact
    BY <1>4, <2>1, <2>5
  <2> QED
    BY <1>3, <2>5, <2>6
<1>18. ASSUME error \in {"none", "no_change"}, ~once PROVE \E i \in 1 .. M : At(i) = {}
  <2> SUFFICES ASSUME \A i \in 1 .. M : At(i) # {} PROVE FALSE
    OBVIOUS
  <2>1. \A i \in 1 .. M : edits[i].old # <<>>
    <3> SUFFICES ASSUME \E i \in 1 .. M : edits[i].old = <<>> PROVE FALSE
      OBVIOUS
    <3>1. match.error = "empty"
      BY <1>4
    <3> QED
      BY <1>3, <1>18, <3>1
  <2>2. \A i \in 1 .. M : found[i] # <<>>
    BY <1>8, <2>1
  <2>3. exact.error \in {"none", "overlap", "duplicate"}
    BY <1>5, <1>7, <2>2 DEF MatchDecides
  <2>4. match = exact
    BY <1>4, <2>1, <2>3
  <2>5. exact.error = "none"
    BY <1>3, <1>18, <2>3, <2>4
  <2>6. \A i \in 1 .. M : Len(found[i]) = 1
    BY <1>5, <1>7, <2>5 DEF MatchDecides
  <2> QED
    BY <1>8, <1>12, <1>18, <2>1, <2>6
<1>19. match.spans = nearest <=> match.spans = [i \in DOMAIN edits |-> nearest[i]]
  BY <1>1, <1>14
<1> QED
  BY <1>1, <1>17, <1>18
     DEF OldTextsDecide, error, match, once, apart, nearest, At, Old, Nearest, content, M

\* An accepted call is the simultaneous replacement of what it matched.
LEMMA AcceptedDoesReplace ==
  ASSUME NEW Char, {"nl", "cr"} \subseteq Char, NEW edits \in EditsOver(Char),
         NEW bom, NEW text \in Seq(Char)
  PROVE  AcceptedEditReplacesAtOnce([bom |-> bom, text |-> text], edits)
<1> DEFINE file == [bom |-> bom, text |-> text]
           C == Char \ {"cr"}
           content == NormalizeToLf(text)
           match == MatchWithFallback(content, edits)
           spans == match.spans
           new == SpliceTextSpans(content, spans, edits)
           crlf == UsesCrlf(text)
           after == RestoreLineEndings(new, crlf)
           result == EditFile(file, edits)
<1> SUFFICES ASSUME result.error = "none", BeginApart(spans)
             PROVE  /\ result.file.bom = bom
                    /\ NormalizeToLf(result.file.text) = ReplacedAtOnce(content, spans, edits)
                    /\ UniformEndings(result.file.text)
                    /\ "nl" \in Range(result.file.text) => UsesCrlf(result.file.text) = crlf
  BY DEF AcceptedEditReplacesAtOnce
<1>1. content \in Seq(C) /\ content \in Seq(Char) /\ crlf \in BOOLEAN
  <2>1. content \in Seq(C)
    BY NormalizedIs
  <2>2. \A s \in Seq(C) : s \in Seq(Char)
    OBVIOUS
  <2> QED
    BY <2>1, <2>2 DEF UsesCrlf
<1>2. result = IF match.error # "none" THEN [error |-> match.error, file |-> file]
               ELSE IF new = content THEN [error |-> "no_change", file |-> file]
               ELSE [error |-> "none", file |-> [bom |-> bom, text |-> after]]
  BY DEF EditFile
<1> HIDE DEF result, match, content, new, crlf, after, file
<1>3. match.error = "none"
  BY <1>2
<1>4. result.file = [bom |-> bom, text |-> after]
  BY <1>2, <1>3
<1>5. Accepted(spans, Len(edits), Len(content))
  BY <1>1, <1>3, AcceptedSpans DEF match
<1>6. new = ReplacedAtOnce(content, spans, edits) /\ new \in Seq(C)
  BY <1>1, <1>5, SplicesAtOnce DEF new
<1>7. NormalizeToLf(after) = new
  BY <1>1, <1>6, RestoredAgain DEF after
<1>8. UniformEndings(after) /\ ("nl" \in Range(after) => UsesCrlf(after) = crlf)
  BY <1>1, <1>6, EndingsOfRestored DEF after
<1> QED
  BY <1>4, <1>6, <1>7, <1>8

\* EditsReplaceWhatTheyMatch for one call, over every alphabet: whatever the file and
\* however many edits, a call that is accepted is the simultaneous replacement of what
\* it matched in the original content, and old texts that occur once and apart decide.
THEOREM EveryEditReplaces ==
  ASSUME NEW Char, {"nl", "cr"} \subseteq Char, NEW edits \in EditsOver(Char),
         NEW bom, NEW text \in Seq(Char)
  PROVE  /\ AcceptedEditReplacesAtOnce([bom |-> bom, text |-> text], edits)
         /\ OldTextsDecide([bom |-> bom, text |-> text], edits)
<1>1. OldTextsDecide([bom |-> bom, text |-> text], edits)
  BY OldTextsDoDecide
<1> QED
  BY <1>1, AcceptedDoesReplace

-----------------------------------------------------------------------------
FileTypeOK ==
  /\ disk \in Seq(Calls \union {None})
  /\ queue \in Seq(Calls)
  /\ thread \in [Calls -> {"none", "queued", "begun", "reading", "matched", "opened", "done",
                           "refused", "broken", "dropped"}]
  /\ read \in [Calls -> Seq(Calls \union {None})]
  /\ inText \in [Calls -> SUBSET Edits]
  /\ written \in [Calls -> Nat]
  /\ caller \in [Calls -> Sessions \union {None}]
  /\ waiting \in [Sessions -> Calls \union {None}]
  /\ answer \in [Calls -> {"none", "ok", "error", "incomplete"}]
  /\ beneath \in [Calls -> SUBSET Calls]
  /\ missed \in [Calls -> SUBSET Calls]

\* A session waits for a call of its own that has no answer yet, and a call that
\* was not made has none.
WaitingAgrees ==
  /\ \A s \in Sessions : waiting[s] # None =>
       /\ answer[waiting[s]] = "none"
       /\ caller[waiting[s]] = s
       /\ thread[waiting[s]] # "none"
  /\ \A c \in Calls : thread[c] = "none" => answer[c] = "none"
  /\ \A c \in Calls : answer[c] = "ok" => thread[c] = "done"

\* Nobody but an aborted session has left a call that is still at work.
LiveIsAwaited ==
  \A c \in Calls : thread[c] \in Begun \union {"queued"} =>
    /\ caller[c] \in Sessions
    /\ waiting[caller[c]] = c \/ answer[c] = "incomplete"

\* An edit misses only what was written by another session, or while one of the
\* two calls had been given up.
MissedAgrees ==
  \A d, e \in Calls : e \in missed[d] =>
    /\ thread[d] # "none" /\ thread[e] # "none"
    /\ Overlapped(d, e)

\* Of two calls that write, each knows of the other, and so does an edit of all
\* that wrote while it read or held the text.
WritersAgree ==
  /\ \A d, e \in Calls : d \in Writing /\ e \in Writing /\ d # e => e \in beneath[d]
  /\ \A d, e \in Calls : d \in Writing /\ thread[e] = "done" => e \in beneath[d]
  /\ \A d, e \in Calls : d \in Holding /\ e \in Writing /\ d # e => e \in missed[d]

\* A call that wrote along with d cannot be an edit that missed nothing, and nor
\* can d.
MixedAgrees ==
  \A d, e \in Calls : d \in Writing /\ d # e /\ d \in beneath[e] =>
    /\ e \in Writes \/ missed[e] # {}
    /\ d \in Writes \/ missed[d] # {}

\* What a call that writes alone has written, and an edit that missed nothing has
\* read, is a first part.
PartsAgree ==
  /\ \A d \in Calls : d \in Writing /\ (\A e \in Calls \ {d} : d \notin beneath[e]) =>
       disk = [i \in 1 .. written[d] |-> d]
  /\ \A d \in Edits : thread[d] = "reading" /\ missed[d] = {} =>
       /\ Len(read[d]) <= Len(disk)
       /\ \A i \in 1 .. Len(read[d]) : read[d][i] = disk[i]

\* c was written over by a call that was cut off, or meant to, or was an edit that
\* missed something.
Gone(c) ==
  \E d \in Calls \ {c} :
    /\ c \in beneath[d]
    /\ thread[d] = "broken" \/ d \in Writes \/ missed[d] # {}

\* What an edit that missed nothing writes contains the edits made before, but for
\* those that were gone already.
TextsAgree ==
  \A d \in Edits : thread[d] \in {"matched", "opened"} /\ missed[d] = {} =>
    \A c \in Edits : thread[c] = "done" => c \in inText[d] \/ Gone(c)

\* An edit contains itself.
NewAgrees ==
  \A d \in Edits : thread[d] \in {"matched", "opened", "done"} => d \in inText[d]

\* The same of the file, when nobody writes.
DiskAgrees ==
  Writing = {} => \A c \in Edits : thread[c] = "done" => IsInFile(c) \/ Gone(c)

\* Only a call that has opened the file has written over another, one that had
\* opened it too.
OverAgrees ==
  \A d \in Calls : beneath[d] \subseteq Wrote /\ (beneath[d] # {} => d \in Wrote)

\* Nothing has been read before the file was opened to read it, nor written
\* before it was opened to write it.
FreshAgrees ==
  \A d \in Calls :
    /\ thread[d] \in {"none", "queued", "begun"} => read[d] = <<>>
    /\ d \notin Wrote => written[d] = 0

FileInv ==
  /\ FileTypeOK
  /\ WaitingAgrees
  /\ LiveIsAwaited
  /\ MissedAgrees
  /\ WritersAgree
  /\ MixedAgrees
  /\ PartsAgree
  /\ TextsAgree
  /\ NewAgrees
  /\ DiskAgrees
  /\ OverAgrees
  /\ FreshAgrees

-----------------------------------------------------------------------------
\* At first no call has been made, and the file is the original one.
LEMMA FileInvInit == FileInit => FileInv
<1> SUFFICES ASSUME FileInit PROVE FileInv
  OBVIOUS
<1>1. /\ \A c \in Calls : thread[c] = "none" /\ answer[c] = "none" /\ missed[c] = {} /\ beneath[c] = {}
      /\ Writing = {} /\ Holding = {}
  BY DEF FileInit, Writing, Holding, Calls
<1>2. FileTypeOK
  <2>1. disk \in Seq(Calls \union {None})
    BY FileAssumption DEF FileInit, Original
  <2>2. queue \in Seq(Calls) /\ read \in [Calls -> Seq(Calls \union {None})]
    BY DEF FileInit
  <2> QED
    BY <2>1, <2>2 DEF FileInit, FileTypeOK
<1>3. WaitingAgrees /\ LiveIsAwaited
  BY DEF FileInit, WaitingAgrees, LiveIsAwaited, Begun
<1>4. MissedAgrees /\ WritersAgree /\ MixedAgrees /\ OverAgrees
  BY <1>1 DEF MissedAgrees, WritersAgree, MixedAgrees, OverAgrees
<1>5. PartsAgree /\ TextsAgree /\ NewAgrees /\ DiskAgrees
  BY <1>1 DEF PartsAgree, TextsAgree, NewAgrees, DiskAgrees, Calls
<1>6. FreshAgrees
  BY DEF FileInit, FreshAgrees
<1> QED
  BY <1>2, <1>3, <1>4, <1>5, <1>6 DEF FileInv

\* What is gone stays so.
LEMMA GoneStays ==
  ASSUME NEW c \in Calls, Gone(c),
         \A d \in Calls : beneath[d] \subseteq beneath'[d] /\ missed[d] \subseteq missed'[d],
         \A d \in Calls : thread[d] = "broken" => thread'[d] = "broken"
  PROVE  Gone(c)'
BY DEF Gone

\* A step that touches neither the file nor what is known of the writers, and of
\* which no call comes to read, hold, write or have done anything, leaves what is
\* in the file explained.
QuietThreads ==
  \A c \in Calls :
    /\ thread'[c] = "done" <=> thread[c] = "done"
    /\ thread'[c] \in {"reading", "matched", "opened"} => thread'[c] = thread[c]
    /\ thread[c] = "opened" => thread'[c] \in {"opened", "broken"}
    /\ thread[c] = "broken" => thread'[c] = "broken"
    /\ thread'[c] \in {"none", "queued", "begun"} => thread[c] \in {"none", "queued", "begun"}

LEMMA QuietStep ==
  ASSUME FileInv, UNCHANGED bodyVars, QuietThreads
  PROVE  /\ WritersAgree' /\ MixedAgrees' /\ PartsAgree' /\ TextsAgree'
         /\ NewAgrees' /\ DiskAgrees' /\ OverAgrees' /\ FreshAgrees'
<1>1. UNCHANGED <<disk, read, inText, written, beneath, missed>>
  BY DEF bodyVars
<1>2. Writing' \subseteq Writing /\ Holding' \subseteq Holding /\ Wrote \subseteq Wrote'
  BY DEF Writing, Holding, Wrote, QuietThreads, Calls
<1>3. ASSUME NEW c \in Edits PROVE Gone(c) => Gone(c)'
  BY <1>1, GoneStays DEF QuietThreads, Calls
<1>4. WritersAgree' /\ MixedAgrees' /\ OverAgrees'
  BY <1>1, <1>2 DEF FileInv, WritersAgree, MixedAgrees, OverAgrees, QuietThreads
<1>5. PartsAgree'
  BY <1>1, <1>2 DEF FileInv, PartsAgree, QuietThreads, Calls
<1>6. TextsAgree' /\ NewAgrees'
  BY <1>1, <1>3 DEF FileInv, TextsAgree, NewAgrees, QuietThreads, Calls
<1>7. DiskAgrees'
  <2> SUFFICES ASSUME Writing' = {}, NEW c \in Edits, thread'[c] = "done"
               PROVE  IsInFile(c)' \/ Gone(c)'
    BY DEF DiskAgrees
  <2>1. c \in Calls /\ thread[c] = "done"
    BY DEF QuietThreads, Calls
  <2>2. CASE Writing = {}
    <3>1. IsInFile(c) => IsInFile(c)'
      BY <1>1 DEF IsInFile, WholeTexts, QuietThreads
    <3> QED
      BY <1>3, <2>1, <2>2, <3>1 DEF FileInv, DiskAgrees
  <2>3. CASE Writing # {}
    <3>1. PICK d \in Calls : thread[d] = "opened"
      BY <2>3 DEF Writing
    <3>2. thread'[d] = "broken"
      BY <3>1 DEF Writing, QuietThreads
    <3>3. c \in beneath'[d] /\ d # c
      BY <1>1, <2>1, <3>1 DEF FileInv, WritersAgree, Writing
    <3> QED
      BY <3>2, <3>3 DEF Gone
  <2> QED
    BY <2>2, <2>3
<1>8. FreshAgrees'
  BY <1>1, <1>2 DEF FileInv, FreshAgrees, QuietThreads
<1> QED
  BY <1>4, <1>5, <1>6, <1>7, <1>8

\* Nor does a step change what an edit may have missed, as long as no call's session
\* and no call that was given up is forgotten.
LEMMA QuietMissed ==
  ASSUME FileInv,
         UNCHANGED missed,
         \A c \in Calls : thread[c] # "none" => thread'[c] # "none" /\ caller'[c] = caller[c],
         \A c \in Calls : answer[c] = "incomplete" => answer'[c] = "incomplete"
  PROVE  MissedAgrees'
BY DEF FileInv, MissedAgrees, Overlapped, Calls

-----------------------------------------------------------------------------
\* A session makes a call.
LEMMA SubmitKeeps ==
  ASSUME FileInv, NEW s \in Sessions, NEW c \in Calls, Submit(s, c)
  PROVE  FileInv'
<1>1. FileTypeOK'
  BY DEF FileInv, FileTypeOK, Submit, bodyVars
<1>2. /\ thread[c] = "none" /\ waiting[s] = None /\ answer[c] = "none"
      /\ answer' = answer
      /\ \A d \in Calls : thread'[d] = IF d = c THEN "queued" ELSE thread[d]
      /\ \A d \in Calls : caller'[d] = IF d = c THEN s ELSE caller[d]
      /\ \A t \in Sessions : waiting'[t] = IF t = s THEN c ELSE waiting[t]
  BY DEF FileInv, FileTypeOK, WaitingAgrees, Submit
<1>3. \A t \in Sessions : waiting[t] \in Calls \union {None} /\ waiting[t] # c
  BY <1>2, FileAssumption DEF FileInv, FileTypeOK, WaitingAgrees
<1>4. WaitingAgrees'
  BY <1>2, <1>3 DEF FileInv, WaitingAgrees
<1>5. LiveIsAwaited'
  BY <1>2, FileAssumption DEF FileInv, LiveIsAwaited, Begun
<1>6. MissedAgrees'
  BY <1>2, QuietMissed DEF Submit, bodyVars
<1>7. QuietThreads
  BY <1>2 DEF QuietThreads
<1> QED
  BY <1>1, <1>4, <1>5, <1>6, <1>7, QuietStep DEF FileInv, Submit

\* A session hears the result of its call.
LEMMA DeliverKeeps ==
  ASSUME FileInv, NEW s \in Sessions, Deliver(s)
  PROVE  FileInv'
<1> DEFINE c == waiting[s]
<1>1. /\ c \in Calls /\ c # None
      /\ thread[c] \in {"done", "refused", "broken"}
      /\ caller[c] = s /\ answer[c] = "none"
  BY DEF FileInv, FileTypeOK, WaitingAgrees, Deliver
<1>2. FileTypeOK'
  BY <1>1 DEF FileInv, FileTypeOK, Deliver, bodyVars
<1>3. /\ UNCHANGED <<missed, thread, caller>>
      /\ \A d \in Calls : answer'[d] = IF d = c
           THEN (IF thread[c] = "done" THEN "ok" ELSE "error") ELSE answer[d]
      /\ \A t \in Sessions : waiting'[t] = IF t = s THEN None ELSE waiting[t]
  BY <1>1 DEF FileInv, FileTypeOK, Deliver, bodyVars
<1>4. \A t \in Sessions : waiting[t] \in Calls \union {None}
  BY DEF FileInv, FileTypeOK
<1>5. WaitingAgrees'
  BY <1>1, <1>3, <1>4 DEF FileInv, WaitingAgrees
<1>6. LiveIsAwaited'
  BY <1>1, <1>3 DEF FileInv, LiveIsAwaited, Begun
<1>7. MissedAgrees'
  BY <1>1, <1>3, QuietMissed
<1>8. QuietThreads
  BY <1>3 DEF QuietThreads
<1> QED
  BY <1>2, <1>5, <1>6, <1>7, <1>8, QuietStep DEF FileInv, Deliver

\* A session gives its call up.
LEMMA AbortKeeps ==
  ASSUME FileInv, NEW s \in Sessions, AbortCall(s)
  PROVE  FileInv'
<1> DEFINE c == waiting[s]
<1>1. c \in Calls /\ c # None /\ caller[c] = s /\ thread[c] # "none"
  BY DEF FileInv, FileTypeOK, WaitingAgrees, AbortCall
<1>2. FileTypeOK'
  BY <1>1 DEF FileInv, FileTypeOK, AbortCall, bodyVars
<1>3. /\ UNCHANGED <<missed, caller>>
      /\ \A d \in Calls : answer'[d] = IF d = c THEN "incomplete" ELSE answer[d]
      /\ \A d \in Calls : thread'[d] =
           IF d = c /\ thread[d] = "queued" THEN "dropped" ELSE thread[d]
      /\ \A t \in Sessions : waiting'[t] = IF t = s THEN None ELSE waiting[t]
  BY <1>1 DEF FileInv, FileTypeOK, AbortCall, bodyVars
<1>4. \A t \in Sessions : waiting[t] \in Calls \union {None}
  BY DEF FileInv, FileTypeOK
<1>5. WaitingAgrees'
  BY <1>1, <1>3, <1>4 DEF FileInv, WaitingAgrees
<1>6. LiveIsAwaited'
  BY <1>1, <1>3 DEF FileInv, LiveIsAwaited, Begun
<1>7. MissedAgrees'
  BY <1>1, <1>3, QuietMissed
<1>8. QuietThreads
  BY <1>3 DEF QuietThreads
<1> QED
  BY <1>2, <1>5, <1>6, <1>7, <1>8, QuietStep DEF FileInv, AbortCall

-----------------------------------------------------------------------------
\* A step of threads alone keeps what the sessions know, if no call that is at
\* work comes from nowhere and none that is done is undone.
LEMMA ThreadStep ==
  ASSUME FileInv,
         UNCHANGED <<caller, waiting, answer>>,
         \A c \in Calls : thread'[c] = "none" <=> thread[c] = "none",
         \A c \in Calls : thread[c] = "done" => thread'[c] = "done",
         \A c \in Calls : thread'[c] \in Begun \union {"queued"} =>
           thread[c] \in Begun \union {"queued"}
  PROVE  WaitingAgrees' /\ LiveIsAwaited'
<1>1. \A t \in Sessions : waiting[t] \in Calls \union {None}
  BY DEF FileInv, FileTypeOK
<1>2. WaitingAgrees'
  BY <1>1 DEF FileInv, WaitingAgrees
<1>3. LiveIsAwaited'
  BY DEF FileInv, LiveIsAwaited
<1> QED
  BY <1>2, <1>3

\* A worker takes the next call, or passes over one that was given up.
LEMMA TakeKeeps ==
  ASSUME FileInv, Take
  PROVE  FileInv'
<1> DEFINE c == Head(queue)
<1>1. c \in Calls /\ Tail(queue) \in Seq(Calls)
  BY DEF FileInv, FileTypeOK, Take
<1>2. FileTypeOK'
  BY <1>1 DEF FileInv, FileTypeOK, Take, bodyVars
<1>3. /\ UNCHANGED <<missed, caller, waiting, answer>>
      /\ \A d \in Calls : thread'[d] =
           IF d = c /\ thread[d] = "queued" THEN "begun" ELSE thread[d]
  BY <1>1 DEF FileInv, FileTypeOK, Take, bodyVars
<1>4. WaitingAgrees' /\ LiveIsAwaited'
  BY <1>3, ThreadStep DEF Begun
<1>5. MissedAgrees'
  BY <1>3, QuietMissed
<1>6. QuietThreads
  BY <1>3 DEF QuietThreads
<1> QED
  BY <1>2, <1>4, <1>5, <1>6, QuietStep DEF FileInv, Take

\* A call is refused, or its write breaks off.
LEMMA FailKeeps ==
  ASSUME FileInv, NEW c \in Calls, Refuse(c) \/ Break(c)
  PROVE  FileInv'
<1>1. FileTypeOK'
  BY DEF FileInv, FileTypeOK, Refuse, Break, bodyVars
<1>2. /\ UNCHANGED <<missed, caller, waiting, answer>> /\ UNCHANGED bodyVars
      /\ \/ /\ thread[c] \in {"begun", "reading", "matched"}
            /\ \A d \in Calls : thread'[d] = IF d = c THEN "refused" ELSE thread[d]
         \/ /\ thread[c] = "opened"
            /\ \A d \in Calls : thread'[d] = IF d = c THEN "broken" ELSE thread[d]
  BY DEF FileInv, FileTypeOK, Refuse, Break, bodyVars
<1>3. WaitingAgrees' /\ LiveIsAwaited'
  BY <1>2, ThreadStep DEF Begun
<1>4. MissedAgrees'
  BY <1>2, QuietMissed
<1>5. QuietThreads
  BY <1>2 DEF QuietThreads
<1> QED
  BY <1>1, <1>2, <1>3, <1>4, <1>5, QuietStep DEF FileInv

\* The process dies: nobody waits any more, and nobody is at work.
LEMMA DieKeeps ==
  ASSUME FileInv, Die
  PROVE  FileInv'
<1>1. FileTypeOK'
  <2>1. queue' \in Seq(Calls)
    BY DEF Die
  <2> QED
    BY <2>1 DEF FileInv, FileTypeOK, Die, bodyVars
<1>2. /\ UNCHANGED <<missed, caller, answer>> /\ UNCHANGED bodyVars
      /\ \A t \in Sessions : waiting'[t] = None
      /\ \A d \in Calls : thread'[d] =
           IF thread[d] = "opened" THEN "broken"
           ELSE IF thread[d] \in {"queued", "begun", "reading", "matched"} THEN "dropped"
           ELSE thread[d]
  BY DEF FileInv, FileTypeOK, Die, bodyVars
<1>3. WaitingAgrees' /\ LiveIsAwaited'
  BY <1>2 DEF FileInv, WaitingAgrees, LiveIsAwaited, Begun
<1>4. MissedAgrees'
  BY <1>2, QuietMissed
<1>5. QuietThreads
  BY <1>2 DEF QuietThreads
<1> QED
  BY <1>1, <1>2, <1>3, <1>4, <1>5, QuietStep DEF FileInv

-----------------------------------------------------------------------------
\* An edit opens the file to read it, and misses whatever is writing.
LEMMA StartReadingKeeps ==
  ASSUME FileInv, NEW c \in Edits, StartReading(c)
  PROVE  FileInv'
<1>1. FileTypeOK'
  BY DEF FileInv, FileTypeOK, StartReading, Writing, Calls
<1>2. /\ UNCHANGED <<disk, read, inText, written, beneath, caller, waiting, answer>>
      /\ c \in Calls /\ thread[c] = "begun"
      /\ \A d \in Calls : thread'[d] = IF d = c THEN "reading" ELSE thread[d]
      /\ \A d \in Calls : missed'[d] = IF d = c THEN missed[c] \union Writing ELSE missed[d]
  BY DEF FileInv, FileTypeOK, StartReading, Calls
<1>3. WaitingAgrees' /\ LiveIsAwaited'
  BY <1>2, ThreadStep DEF Begun
<1>4. Writing' = Writing /\ Wrote' = Wrote /\ Holding' = Holding \union {c}
  BY <1>2 DEF Writing, Wrote, Holding, Calls
<1>5. MissedAgrees'
  <2> SUFFICES ASSUME NEW d \in Calls, NEW e \in Calls, e \in missed'[d]
               PROVE  thread'[d] # "none" /\ thread'[e] # "none" /\ Overlapped(d, e)'
    BY DEF MissedAgrees
  <2>1. CASE e \in missed[d]
    BY <1>2, <2>1 DEF FileInv, MissedAgrees, Overlapped
  <2>2. CASE d = c /\ e \in Writing
    <3>1. thread[e] = "opened" /\ e # c
      BY <1>2, <2>2 DEF Writing
    <3>2. caller[e] # caller[c] \/ "incomplete" \in {answer[c], answer[e]}
      BY <1>2, <3>1 DEF FileInv, LiveIsAwaited, Begun
    <3> QED
      BY <1>2, <2>2, <3>1, <3>2 DEF Overlapped
  <2> QED
    BY <1>2, <2>1, <2>2
<1>6. \A d \in Edits : Gone(d) => Gone(d)'
  BY <1>2, GoneStays DEF Calls
<1>7. WritersAgree' /\ OverAgrees' /\ MixedAgrees'
  <2>1. \A d \in Calls : missed[d] \subseteq missed'[d]
    BY <1>2
  <2> QED
    BY <1>2, <1>4, <2>1 DEF FileInv, WritersAgree, OverAgrees, MixedAgrees
<1>8. PartsAgree'
  <2>1. \A d \in Edits : d # c => missed'[d] = missed[d] /\ thread'[d] = thread[d]
    BY <1>2 DEF Calls
  <2>2. read'[c] = <<>>
    BY <1>2 DEF FileInv, FreshAgrees
  <2>3. Len(disk) \in Nat
    BY DEF FileInv, FileTypeOK
  <2> QED
    BY <1>2, <1>4, <2>1, <2>2, <2>3 DEF FileInv, PartsAgree
<1>9. TextsAgree' /\ NewAgrees'
  BY <1>2, <1>6 DEF FileInv, TextsAgree, NewAgrees, Calls
<1>10. DiskAgrees'
  BY <1>2, <1>4, <1>6 DEF FileInv, DiskAgrees, IsInFile, WholeTexts, Calls
<1>11. FreshAgrees'
  BY <1>2, <1>4 DEF FileInv, FreshAgrees
<1> QED
  BY <1>1, <1>3, <1>5, <1>7, <1>8, <1>9, <1>10, <1>11 DEF FileInv

\* An edit reads one more piece.
LEMMA ReadPieceKeeps ==
  ASSUME FileInv, NEW c \in Edits, ReadPiece(c)
  PROVE  FileInv'
<1>1. /\ c \in Calls /\ thread[c] = "reading" /\ Len(read[c]) < Len(disk)
      /\ UNCHANGED <<disk, inText, written, beneath, missed, queue, thread, caller, waiting, answer>>
      /\ \A d \in Calls : read'[d] = IF d = c THEN Append(read[c], disk[Len(read[c]) + 1]) ELSE read[d]
  BY DEF FileInv, FileTypeOK, ReadPiece, Calls
<1>2. /\ disk \in Seq(Calls \union {None}) /\ read[c] \in Seq(Calls \union {None})
      /\ Len(read[c]) \in Nat /\ Len(disk) \in Nat /\ Len(read[c]) + 1 \in 1 .. Len(disk)
  BY <1>1 DEF FileInv, FileTypeOK
<1>3. FileTypeOK'
  <2>1. Append(read[c], disk[Len(read[c]) + 1]) \in Seq(Calls \union {None})
    BY <1>2
  <2>2. read' \in [Calls -> Seq(Calls \union {None})]
    BY <1>1, <2>1 DEF FileInv, FileTypeOK, ReadPiece
  <2> QED
    BY <1>1, <2>2 DEF FileInv, FileTypeOK
<1>4. WaitingAgrees' /\ LiveIsAwaited'
  BY <1>1, ThreadStep DEF Begun
<1>5. MissedAgrees'
  BY <1>1, QuietMissed
<1>6. Writing' = Writing /\ Wrote' = Wrote /\ Holding' = Holding
  BY <1>1 DEF Writing, Wrote, Holding
<1>7. WritersAgree' /\ OverAgrees' /\ MixedAgrees'
  BY <1>1, <1>6 DEF FileInv, WritersAgree, OverAgrees, MixedAgrees
<1>8. PartsAgree'
  <2>1. ASSUME missed[c] = {}
        PROVE  Len(read'[c]) <= Len(disk) /\ \A i \in 1 .. Len(read'[c]) : read'[c][i] = disk[i]
    <3>1. \A i \in 1 .. Len(read[c]) : read[c][i] = disk[i]
      BY <1>1, <2>1 DEF FileInv, PartsAgree
    <3>2. /\ Len(read'[c]) = Len(read[c]) + 1
          /\ \A i \in 1 .. Len(read[c]) : read'[c][i] = read[c][i]
          /\ read'[c][Len(read[c]) + 1] = disk[Len(read[c]) + 1]
      <4> DEFINE r == read[c]
                 x == disk[Len(read[c]) + 1]
      <4>1. /\ read \in [Calls -> Seq(Calls \union {None})] /\ disk \in Seq(Calls \union {None})
            /\ c \in Calls /\ thread[c] = "reading" /\ Len(read[c]) < Len(disk)
            /\ read' = [read EXCEPT ![c] = Append(@, disk[Len(@) + 1])]
        BY DEF FileInv, FileTypeOK, ReadPiece, Calls
      <4>2. r \in Seq(Calls \union {None})
        BY <4>1
      <4>3. Len(r) + 1 \in 1 .. Len(disk)
        BY <4>1, <4>2
      <4>4. x \in Calls \union {None}
        BY <4>1, <4>3
      <4>5. read'[c] = Append(r, x)
        BY <4>1
      <4> HIDE DEF r, x
      <4>6. /\ Len(Append(r, x)) = Len(r) + 1
            /\ \A i \in 1 .. Len(r) : Append(r, x)[i] = r[i]
            /\ Append(r, x)[Len(r) + 1] = x
        BY <4>2, <4>4
      <4> QED
        BY <4>5, <4>6 DEF r, x
    <3>3. \A i \in 1 .. Len(read[c]) + 1 : i \in 1 .. Len(read[c]) \/ i = Len(read[c]) + 1
      BY <1>2
    <3> QED
      BY <1>2, <3>1, <3>2, <3>3
  <2>2. \A d \in Edits : d # c => read'[d] = read[d]
    BY <1>1 DEF Calls
  <2> QED
    BY <1>1, <1>6, <2>1, <2>2 DEF FileInv, PartsAgree
<1>9. \A d \in Edits : Gone(d) => Gone(d)'
  BY <1>1, GoneStays DEF Calls
<1>10. TextsAgree' /\ NewAgrees' /\ DiskAgrees'
  BY <1>1, <1>6, <1>9 DEF FileInv, TextsAgree, NewAgrees, DiskAgrees, IsInFile, WholeTexts
<1>11. FreshAgrees'
  BY <1>1, <1>6 DEF FileInv, FreshAgrees
<1> QED
  BY <1>3, <1>4, <1>5, <1>7, <1>8, <1>10, <1>11 DEF FileInv

\* An edit finds its old text in what it has read.
LEMMA MatchKeeps ==
  ASSUME FileInv, NEW c \in Edits, MatchOldText(c)
  PROVE  FileInv'
<1>1. PICK found \in MayContain(read[c]) : inText' = [inText EXCEPT ![c] = found \union {c}]
  BY DEF MatchOldText
<1>2. /\ c \in Calls /\ thread[c] = "reading" /\ Len(read[c]) >= Len(disk) /\ read[c] # <<>>
      /\ UNCHANGED <<disk, written, beneath, missed, queue, caller, waiting, answer>>
      /\ \A d \in Calls : thread'[d] = IF d = c THEN "matched" ELSE thread[d]
      /\ \A d \in Calls : inText'[d] = IF d = c THEN found \union {c} ELSE inText[d]
      /\ \A d \in Calls : read'[d] = IF d = c THEN <<>> ELSE read[d]
  BY <1>1 DEF FileInv, FileTypeOK, MatchOldText, Calls
<1>3. FileTypeOK'
  <2>1. found \subseteq Edits
    <3>1. \A d \in Calls : inText[d] \subseteq Edits
      BY DEF FileInv, FileTypeOK
    <3> QED
      BY <1>1, <3>1 DEF MayContain, WholeTexts, Wrote
  <2>2. inText' \in [Calls -> SUBSET Edits]
    BY <1>1, <1>2, <2>1 DEF FileInv, FileTypeOK
  <2>3. read' \in [Calls -> Seq(Calls \union {None})]
    <3>1. <<>> \in Seq(Calls \union {None})
      OBVIOUS
    <3>2. /\ read \in [Calls -> Seq(Calls \union {None})] /\ c \in Calls
          /\ read' = [read EXCEPT ![c] = <<>>]
      BY DEF FileInv, FileTypeOK, MatchOldText, Calls
    <3> QED
      BY <3>1, <3>2, Zenon
  <2>4. thread' \in [Calls -> {"none", "queued", "begun", "reading", "matched", "opened", "done",
                               "refused", "broken", "dropped"}]
    BY DEF FileInv, FileTypeOK, MatchOldText
  <2> QED
    BY <1>2, <2>2, <2>3, <2>4 DEF FileInv, FileTypeOK
<1>4. WaitingAgrees' /\ LiveIsAwaited'
  BY <1>2, ThreadStep DEF Begun
<1>5. MissedAgrees'
  BY <1>2, QuietMissed
<1>6. Writing' = Writing /\ Wrote' = Wrote /\ Holding' = Holding
  BY <1>2 DEF Writing, Wrote, Holding, Calls
<1>7. WritersAgree' /\ OverAgrees' /\ MixedAgrees'
  BY <1>2, <1>6 DEF FileInv, WritersAgree, OverAgrees, MixedAgrees
<1>8. PartsAgree'
  BY <1>2, <1>6 DEF FileInv, PartsAgree, Calls
<1>9. \A d \in Edits : Gone(d) => Gone(d)'
  BY <1>2, GoneStays DEF Calls
<1>10. \A e \in Edits : IsInFile(e) => IsInFile(e)'
  BY <1>2 DEF IsInFile, WholeTexts, Calls
<1>11. TextsAgree'
  <2>1. ASSUME missed[c] = {}, NEW e \in Edits, thread[e] = "done"
        PROVE  e \in found \/ Gone(e)
    <3>1. Writing = {}
      <4>1. ASSUME NEW d \in Writing PROVE FALSE
        <5>1. d \in Calls /\ d # c /\ c \in Holding
          BY <1>2 DEF Writing, Holding
        <5>2. d \in missed[c]
          BY <1>2, <4>1, <5>1 DEF FileInv, WritersAgree
        <5> QED
          BY <2>1, <5>2
      <4> QED
        BY <4>1
    <3>2. read[c] = disk
      <4>1. Len(read[c]) <= Len(disk) /\ \A i \in 1 .. Len(read[c]) : read[c][i] = disk[i]
        BY <1>2, <2>1 DEF FileInv, PartsAgree
      <4>2. read[c] \in Seq(Calls \union {None}) /\ disk \in Seq(Calls \union {None})
        BY <1>2 DEF FileInv, FileTypeOK
      <4>3. Len(read[c]) = Len(disk)
        BY <1>2, <4>1, <4>2
      <4> QED
        BY <4>1, <4>2, <4>3, SeqEqual
    <3>3. CASE IsInFile(e)
      <4>1. PICK d \in WholeTexts(disk) : e \in inText[d]
        BY <3>3 DEF IsInFile
      <4>2. d \in Calls /\ disk = [i \in 1 .. written[d] |-> d] /\ written[d] \in Nat
        BY <4>1 DEF WholeTexts, FileInv, FileTypeOK
      <4>3. ASSUME NEW x \in WholeTexts(disk) PROVE x = d
        <5>1. x \in Calls /\ disk = [i \in 1 .. written[x] |-> x] /\ written[x] \in Nat
          BY <4>3 DEF WholeTexts, FileInv, FileTypeOK
        <5>2. disk # <<>> /\ disk \in Seq(Calls \union {None})
          BY <1>2, <3>2 DEF FileInv, FileTypeOK
        <5>3. 1 \in 1 .. Len(disk)
          <6>1. Len(disk) # 0 /\ Len(disk) \in Nat
            BY <5>2, EmptySeq
          <6> QED
            BY <6>1
        <5>4. 1 \in 1 .. written[d] /\ 1 \in 1 .. written[x]
          <6>1. DOMAIN disk = 1 .. Len(disk) /\ DOMAIN disk = 1 .. written[d] /\ DOMAIN disk = 1 .. written[x]
            BY <4>2, <5>1, <5>2
          <6> QED
            BY <5>3, <6>1
        <5>5. disk[1] = d /\ disk[1] = x
          BY <4>2, <5>1, <5>4
        <5> QED
          BY <5>5
      <4>4. found = inText[d]
        BY <1>1, <3>2, <4>1, <4>3 DEF MayContain
      <4> QED
        BY <4>1, <4>4
    <3>4. CASE ~IsInFile(e)
      BY <2>1, <3>1, <3>4 DEF FileInv, DiskAgrees
    <3> QED
      BY <3>3, <3>4
  <2> QED
    BY <1>2, <1>9, <2>1 DEF FileInv, TextsAgree, Calls
<1>12. NewAgrees' /\ DiskAgrees'
  BY <1>2, <1>6, <1>9, <1>10 DEF FileInv, NewAgrees, DiskAgrees, Calls
<1>13. FreshAgrees'
  BY <1>2, <1>6 DEF FileInv, FreshAgrees
<1> QED
  BY <1>3, <1>4, <1>5, <1>7, <1>8, <1>11, <1>12, <1>13 DEF FileInv

-----------------------------------------------------------------------------
\* A call opens the file, which empties it; it writes over what is done, and with
\* all that write.
LEMMA OpenKeeps ==
  ASSUME FileInv, NEW c \in Calls, Open(c)
  PROVE  FileInv'
<1>1. /\ UNCHANGED <<read, inText, written, queue, caller, waiting, answer>>
      /\ thread[c] = IF c \in Edits THEN "matched" ELSE "begun"
      /\ disk' = <<>>
      /\ \A d \in Calls : thread'[d] = IF d = c THEN "opened" ELSE thread[d]
      /\ \A d \in Calls : beneath'[d] =
           IF d = c THEN {e \in Calls : thread[e] \in {"opened", "done"}}
           ELSE IF d \in Writing THEN beneath[d] \union {c} ELSE beneath[d]
      /\ \A d \in Calls : missed'[d] =
           IF d \in Holding \ {c} THEN missed[d] \union {c} ELSE missed[d]
  BY DEF FileInv, FileTypeOK, Open
<1>2. FileTypeOK'
  <2>1. beneath' \in [Calls -> SUBSET Calls] /\ missed' \in [Calls -> SUBSET Calls]
    BY DEF FileInv, FileTypeOK, Open
  <2>2. disk' \in Seq(Calls \union {None})
    BY <1>1
  <2>3. thread' \in [Calls -> {"none", "queued", "begun", "reading", "matched", "opened", "done",
                               "refused", "broken", "dropped"}]
    BY DEF FileInv, FileTypeOK, Open
  <2> QED
    BY <1>1, <2>1, <2>2, <2>3 DEF FileInv, FileTypeOK
<1>3. WaitingAgrees' /\ LiveIsAwaited'
  BY <1>1, ThreadStep DEF Begun
<1>4. /\ c \notin Writing /\ beneath[c] = {} /\ c \notin Wrote /\ written[c] = 0
      /\ Writing' = Writing \union {c} /\ Wrote' = Wrote \union {c} /\ Holding' = Holding
      /\ c \in Holding <=> c \in Edits
  BY <1>1, FileAssumption DEF FileInv, OverAgrees, FreshAgrees, Writing, Wrote, Holding, Calls
<1>5. \A d \in Calls : beneath[d] \subseteq beneath'[d] /\ missed[d] \subseteq missed'[d]
  BY <1>1, <1>4
<1>6. \A d \in Edits : Gone(d) => Gone(d)'
  BY <1>1, <1>5, GoneStays DEF Calls
<1>7. MissedAgrees'
  <2> SUFFICES ASSUME NEW d \in Calls, NEW e \in Calls, e \in missed'[d]
               PROVE  thread'[d] # "none" /\ thread'[e] # "none" /\ Overlapped(d, e)'
    BY DEF MissedAgrees
  <2>1. CASE e \in missed[d]
    BY <1>1, <2>1 DEF FileInv, MissedAgrees, Overlapped
  <2>2. CASE d \in Holding \ {c} /\ e = c
    <3>1. thread[d] \in Begun /\ thread[c] \in Begun /\ d # c
      BY <1>1, <2>2 DEF Holding, Begun
    <3>2. caller[c] # caller[d] \/ "incomplete" \in {answer[d], answer[c]}
      BY <3>1 DEF FileInv, LiveIsAwaited
    <3> QED
      BY <1>1, <2>2, <3>1, <3>2 DEF Overlapped, Begun
  <2> QED
    BY <1>1, <2>1, <2>2
<1>8. WritersAgree'
  <2>1. ASSUME NEW d \in Calls, NEW e \in Calls, d \in Writing', e \in Writing', d # e
        PROVE  e \in beneath'[d]
    BY <1>1, <1>4, <2>1 DEF FileInv, WritersAgree, Writing
  <2>2. ASSUME NEW d \in Calls, NEW e \in Calls, d \in Writing', thread'[e] = "done"
        PROVE  e \in beneath'[d]
    <3>1. thread[e] = "done" /\ e # c
      BY <1>1, <2>2
    <3>2. CASE d = c
      BY <1>1, <3>1, <3>2
    <3>3. CASE d # c
      BY <1>1, <1>4, <1>5, <2>2, <3>1, <3>3 DEF FileInv, WritersAgree
    <3> QED
      BY <3>2, <3>3
  <2>3. ASSUME NEW d \in Calls, NEW e \in Calls, d \in Holding', e \in Writing', d # e
        PROVE  e \in missed'[d]
    BY <1>1, <1>4, <2>3 DEF FileInv, WritersAgree
  <2> QED
    BY <2>1, <2>2, <2>3 DEF WritersAgree
<1>9. MixedAgrees'
  <2> SUFFICES ASSUME NEW d \in Calls, NEW e \in Calls, d \in Writing', d # e, d \in beneath'[e]
               PROVE  (e \in Writes \/ missed'[e] # {}) /\ (d \in Writes \/ missed'[d] # {})
    BY DEF MixedAgrees
  <2>1. CASE d \in Writing /\ e = c
    <3>1. c \in missed'[d] \/ d \in Writes
      <4>1. d \in Edits => d \in Holding \ {c}
        BY <2>1, <1>4 DEF Writing, Holding
      <4> QED
        BY <1>1, <4>1 DEF Calls
    <3>2. d \in missed'[c] \/ c \in Writes
      <4>1. c \in Edits => d \in missed[c]
        BY <1>4, <2>1 DEF FileInv, WritersAgree
      <4> QED
        BY <1>5, <4>1 DEF Calls
    <3> QED
      BY <2>1, <3>1, <3>2
  <2>2. CASE d = c /\ e \in Writing
    <3>1. c \in missed'[e] \/ e \in Writes
      <4>1. e \in Edits => e \in Holding \ {c}
        BY <2>2, <1>4 DEF Writing, Holding
      <4> QED
        BY <1>1, <4>1 DEF Calls
    <3>2. e \in missed'[c] \/ c \in Writes
      <4>1. c \in Edits => e \in missed[c]
        BY <1>4, <2>2 DEF FileInv, WritersAgree
      <4> QED
        BY <1>5, <4>1 DEF Calls
    <3> QED
      BY <2>2, <3>1, <3>2
  <2>3. CASE d \in Writing /\ d \in beneath[e] /\ e # c
    <3>1. (e \in Writes \/ missed[e] # {}) /\ (d \in Writes \/ missed[d] # {})
      BY <2>3 DEF FileInv, MixedAgrees
    <3> QED
      BY <1>5, <3>1
  <2>4. CASE d = c /\ e \notin Writing
    <3>1. c \in beneath[e]
      BY <1>1, <2>4
    <3> QED
      BY <1>4, <3>1 DEF FileInv, OverAgrees
  <2> QED
    BY <1>1, <1>4, <2>1, <2>2, <2>3, <2>4
<1>10. PartsAgree'
  <2>1. ASSUME NEW d \in Calls, d \in Writing', \A e \in Calls \ {d} : d \notin beneath'[e]
        PROVE  disk' = [i \in 1 .. written'[d] |-> d]
    <3>1. CASE d = c
      <4>1. written'[d] = 0
        BY <1>1, <1>4, <3>1
      <4>2. 1 .. 0 = {} /\ [i \in 1 .. 0 |-> d] = <<>>
        OBVIOUS
      <4> QED
        BY <1>1, <4>1, <4>2
    <3>2. CASE d # c
      <4>1. d \in Writing /\ d \in beneath'[c]
        BY <1>1, <1>4, <2>1, <3>2 DEF Writing
      <4> QED
        BY <2>1, <3>2, <4>1
    <3> QED
      BY <3>1, <3>2
  <2>2. ASSUME NEW d \in Edits, thread'[d] = "reading", missed'[d] = {} PROVE FALSE
    <3>1. d \in Calls /\ d # c /\ d \in Holding
      BY <1>1, <2>2 DEF Holding, Calls
    <3> QED
      BY <1>1, <2>2, <3>1
  <2> QED
    BY <2>1, <2>2 DEF PartsAgree
<1>11. TextsAgree' /\ NewAgrees'
  <2>1. ASSUME NEW d \in Edits, thread'[d] \in {"matched", "opened"}, missed'[d] = {},
               NEW e \in Edits, thread'[e] = "done"
        PROVE  e \in inText'[d] \/ Gone(e)'
    <3>1. thread[d] \in {"matched", "opened"} /\ missed[d] = {} /\ thread[e] = "done"
      BY <1>1, <1>5, <2>1 DEF Calls
    <3> QED
      BY <1>1, <1>6, <3>1 DEF FileInv, TextsAgree
  <2>2. NewAgrees'
    BY <1>1 DEF FileInv, NewAgrees, Calls
  <2> QED
    BY <2>1, <2>2 DEF TextsAgree
<1>12. DiskAgrees'
  BY <1>4 DEF DiskAgrees
<1>13. OverAgrees'
  <2>1. \A d \in Calls : beneath'[d] \subseteq Wrote \union {c}
    BY <1>1 DEF FileInv, OverAgrees, Wrote
  <2>2. \A d \in Calls : beneath'[d] # {} => d \in Wrote \/ d = c
    BY <1>1 DEF FileInv, OverAgrees, Wrote, Writing
  <2> QED
    BY <1>4, <2>1, <2>2 DEF OverAgrees
<1>14. FreshAgrees'
  BY <1>1, <1>4 DEF FileInv, FreshAgrees
<1> QED
  BY <1>2, <1>3, <1>7, <1>8, <1>9, <1>10, <1>11, <1>12, <1>13, <1>14 DEF FileInv

\* A piece of a call's text reaches the file.
LEMMA WritePieceKeeps ==
  ASSUME FileInv, NEW c \in Calls, WritePiece(c)
  PROVE  FileInv'
<1> DEFINE place == written[c] + 1
           end == IF Len(disk) > place THEN Len(disk) ELSE place
<1>1. PICK piece \in IF place <= Len(disk) THEN {c, None} ELSE {c} :
        disk' = [i \in 1 .. end |->
          IF i = place THEN piece ELSE IF i <= Len(disk) THEN disk[i] ELSE None]
  BY DEF WritePiece
<1>2. /\ UNCHANGED <<read, inText, beneath, missed, queue, thread, caller, waiting, answer>>
      /\ thread[c] = "opened"
      /\ \A d \in Calls : written'[d] = IF d = c THEN place ELSE written[d]
      /\ written' \in [Calls -> Nat]
  BY DEF FileInv, FileTypeOK, WritePiece
<1>3. /\ place \in Nat /\ end \in Nat /\ place \in 1 .. end /\ Len(disk) \in Nat
      /\ piece \in Calls \union {None} /\ disk \in Seq(Calls \union {None})
      /\ (place > Len(disk) => end = place /\ piece = c)
  BY <1>1 DEF FileInv, FileTypeOK
<1> HIDE DEF place, end
<1>4. FileTypeOK'
  <2>1. disk' \in [1 .. end -> Calls \union {None}]
    <3>1. \A i \in 1 .. end : i <= Len(disk) => disk[i] \in Calls \union {None}
      BY <1>3
    <3> QED
      BY <1>1, <1>3, <3>1
  <2>2. disk' \in Seq(Calls \union {None})
    BY <1>3, <2>1
  <2> QED
    BY <1>2, <2>2 DEF FileInv, FileTypeOK
<1>5. WaitingAgrees' /\ LiveIsAwaited'
  BY <1>2, ThreadStep DEF Begun
<1>6. MissedAgrees'
  BY <1>2, QuietMissed
<1>7. /\ Writing' = Writing /\ Wrote' = Wrote /\ Holding' = Holding
      /\ c \in Writing
  BY <1>2 DEF Writing, Wrote, Holding
<1>8. WritersAgree' /\ OverAgrees' /\ MixedAgrees'
  BY <1>2, <1>7 DEF FileInv, WritersAgree, OverAgrees, MixedAgrees
<1>9. PartsAgree'
  <2>1. ASSUME NEW d \in Calls, d \in Writing, \A e \in Calls \ {d} : d \notin beneath[e]
        PROVE  disk' = [i \in 1 .. written'[d] |-> d]
    <3>1. d = c
      BY <1>7, <2>1 DEF FileInv, WritersAgree
    <3>2. disk = [i \in 1 .. written[c] |-> c] /\ written[c] \in Nat
      BY <2>1, <3>1 DEF FileInv, FileTypeOK, PartsAgree
    <3>3. Len(disk) = written[c] /\ place = written[c] + 1
      BY <3>2 DEF place
    <3>4. end = place /\ piece = c
      BY <1>3, <3>2, <3>3
    <3>5. \A i \in 1 .. place : i = place \/ (i <= Len(disk) /\ disk[i] = c)
      BY <3>2, <3>3
    <3>6. disk' = [i \in 1 .. place |-> c]
      BY <1>1, <3>4, <3>5
    <3> QED
      BY <1>2, <3>1, <3>6
  <2>2. ASSUME NEW d \in Edits, thread[d] = "reading", missed[d] = {} PROVE FALSE
    <3>1. d \in Calls /\ d # c /\ d \in Holding
      BY <1>2, <2>2 DEF Holding, Calls
    <3> QED
      BY <1>7, <2>2, <3>1 DEF FileInv, WritersAgree
  <2> QED
    BY <1>2, <1>7, <2>1, <2>2 DEF PartsAgree
<1>10. \A d \in Edits : Gone(d) => Gone(d)'
  BY <1>2, GoneStays DEF Calls
<1>11. TextsAgree' /\ NewAgrees' /\ DiskAgrees'
  BY <1>2, <1>7, <1>10 DEF FileInv, TextsAgree, NewAgrees, DiskAgrees
<1>12. FreshAgrees'
  BY <1>2, <1>7 DEF FileInv, FreshAgrees, Wrote
<1> QED
  BY <1>4, <1>5, <1>6, <1>8, <1>9, <1>11, <1>12 DEF FileInv

\* A call closes the file and is done.
LEMMA CloseKeeps ==
  ASSUME FileInv, NEW c \in Calls, Close(c)
  PROVE  FileInv'
<1>1. FileTypeOK'
  BY DEF FileInv, FileTypeOK, Close, bodyVars
<1>2. /\ UNCHANGED <<disk, read, inText, written, beneath, missed, queue, caller, waiting, answer>>
      /\ thread[c] = "opened"
      /\ \A d \in Calls : thread'[d] = IF d = c THEN "done" ELSE thread[d]
  BY DEF FileInv, FileTypeOK, Close, bodyVars
<1>3. WaitingAgrees' /\ LiveIsAwaited'
  BY <1>2, ThreadStep DEF Begun
<1>4. MissedAgrees'
  BY <1>2, QuietMissed
<1>5. /\ Writing' = Writing \ {c} /\ Wrote' = Wrote /\ Holding' = Holding \ {c}
      /\ c \in Writing
  BY <1>2 DEF Writing, Wrote, Holding, Calls
<1>6. WritersAgree' /\ OverAgrees' /\ MixedAgrees'
  <2>1. ASSUME NEW d \in Calls, NEW e \in Calls, d \in Writing', thread'[e] = "done"
        PROVE  e \in beneath'[d]
    BY <1>2, <1>5, <2>1 DEF FileInv, WritersAgree
  <2>2. WritersAgree'
    BY <1>2, <1>5, <2>1 DEF FileInv, WritersAgree
  <2> QED
    BY <1>2, <1>5, <2>2 DEF FileInv, OverAgrees, MixedAgrees
<1>7. PartsAgree' /\ NewAgrees' /\ FreshAgrees'
  BY <1>2, <1>5 DEF FileInv, PartsAgree, NewAgrees, FreshAgrees, Calls
<1>8. \A d \in Edits : Gone(d) => Gone(d)'
  BY <1>2, GoneStays DEF Calls
<1>9. TextsAgree'
  <2> SUFFICES ASSUME NEW d \in Edits, thread'[d] \in {"matched", "opened"}, missed'[d] = {},
                      NEW e \in Edits, thread'[e] = "done"
               PROVE  e \in inText'[d] \/ Gone(e)'
    BY DEF TextsAgree
  <2>1. d \in Calls /\ d # c /\ d \in Holding /\ thread[d] \in {"matched", "opened"}
    BY <1>2 DEF Holding, Calls
  <2>2. c \in missed[d]
    BY <1>5, <2>1 DEF FileInv, WritersAgree
  <2> QED
    BY <1>2, <2>2
<1>10. DiskAgrees'
  <2> SUFFICES ASSUME Writing' = {}, NEW e \in Edits, thread'[e] = "done"
               PROVE  IsInFile(e)' \/ Gone(e)'
    BY DEF DiskAgrees
  <2>1. e \in Calls /\ (e = c \/ (thread[e] = "done" /\ e # c /\ e \in beneath[c]))
    BY <1>2, <1>5 DEF FileInv, WritersAgree, Calls
  <2>2. CASE c \in Writes \/ missed[c] # {}
    <3>1. CASE e # c
      BY <1>2, <2>1, <2>2, <3>1 DEF Gone
    <3>2. CASE e = c /\ \E d \in Calls \ {c} : c \in beneath[d]
      <4>1. PICK d \in Calls \ {c} : c \in beneath[d]
        BY <3>2
      <4>2. d \in Writes \/ missed[d] # {}
        BY <1>5, <4>1 DEF FileInv, MixedAgrees
      <4> QED
        BY <1>2, <3>2, <4>1, <4>2 DEF Gone
    <3>3. CASE e = c /\ \A d \in Calls \ {c} : c \notin beneath[d]
      <4>1. disk = [i \in 1 .. written[c] |-> c]
        BY <1>5, <3>3 DEF FileInv, PartsAgree
      <4>2. c \in inText[c]
        BY <1>2, <3>3 DEF FileInv, NewAgrees
      <4> QED
        BY <1>2, <3>3, <4>1, <4>2 DEF IsInFile, WholeTexts
    <3> QED
      BY <2>1, <3>1, <3>2, <3>3
  <2>3. CASE c \notin Writes /\ missed[c] = {}
    <3>1. c \in Edits /\ \A d \in Calls \ {c} : c \notin beneath[d]
      BY <1>5, <2>3 DEF FileInv, MixedAgrees, Calls
    <3>2. disk = [i \in 1 .. written[c] |-> c]
      BY <1>5, <3>1 DEF FileInv, PartsAgree
    <3>3. c \in WholeTexts(disk)'
      BY <1>2, <3>2 DEF WholeTexts
    <3>4. e \in inText[c] \/ Gone(e)
      <4>1. CASE e = c
        BY <1>2, <3>1, <4>1 DEF FileInv, NewAgrees
      <4>2. CASE e # c
        BY <1>2, <2>1, <2>3, <3>1, <4>2 DEF FileInv, TextsAgree
      <4> QED
        BY <4>1, <4>2
    <3> QED
      BY <1>2, <1>8, <3>3, <3>4 DEF IsInFile
  <2> QED
    BY <2>2, <2>3
<1> QED
  BY <1>1, <1>3, <1>4, <1>6, <1>7, <1>9, <1>10 DEF FileInv

-----------------------------------------------------------------------------
\* Every reachable state of the file and its callers satisfies the invariant.
THEOREM FileInvHolds == FileSpec => []FileInv
<1>1. FileInv /\ [FileNext]_fileVars => FileInv'
  <2> SUFFICES ASSUME FileInv, [FileNext]_fileVars PROVE FileInv'
    OBVIOUS
  <2>1. CASE \E s \in Sessions : (\E c \in Calls : Submit(s, c)) \/ Deliver(s) \/ AbortCall(s)
    BY <2>1, SubmitKeeps, DeliverKeeps, AbortKeeps
  <2>2. CASE Take \/ Die
    BY <2>2, TakeKeeps, DieKeeps
  <2>3. CASE \E c \in Edits : StartReading(c) \/ ReadPiece(c) \/ MatchOldText(c)
    BY <2>3, StartReadingKeeps, ReadPieceKeeps, MatchKeeps
  <2>4. CASE \E c \in Calls : Refuse(c) \/ Break(c)
    BY <2>4, FailKeeps
  <2>5. CASE \E c \in Calls : Open(c) \/ WritePiece(c) \/ Close(c)
    BY <2>5, OpenKeeps, WritePieceKeeps, CloseKeeps
  <2>6. CASE UNCHANGED fileVars
    <3>1. UNCHANGED bodyVars /\ UNCHANGED <<queue, thread, caller, waiting, answer>>
      BY <2>6 DEF fileVars
    <3>2. FileTypeOK'
      BY <3>1 DEF FileInv, FileTypeOK, bodyVars
    <3>3. WaitingAgrees' /\ LiveIsAwaited' /\ MissedAgrees'
      BY <3>1, ThreadStep, QuietMissed DEF bodyVars
    <3>4. QuietThreads
      BY <3>1 DEF QuietThreads
    <3> QED
      BY <3>1, <3>2, <3>3, <3>4, QuietStep DEF FileInv
  <2> QED
    BY <2>1, <2>2, <2>3, <2>4, <2>5, <2>6 DEF FileNext
<1> QED
  BY FileInvInit, <1>1, PTL DEF FileSpec

\* An edit that was reported as done is lost only to a call that is still writing
\* or was cut off, to a write call, or to an edit that read or held the file while
\* a call of another session, or one of an aborted run, wrote it.
THEOREM FileEditsSurvive == FileSpec => []OnlyOverlapsLoseEdits
<1>1. FileInv => OnlyOverlapsLoseEdits
  <2> SUFFICES ASSUME FileInv, NEW c \in Edits, answer[c] = "ok", ~IsInFile(c)
               PROVE  \E d \in Calls \ {c} :
                        /\ c \in beneath[d]
                        /\ \/ thread[d] \in {"opened", "broken"}
                           \/ d \in Writes
                           \/ \E e \in Calls : Overlapped(d, e)
    BY DEF OnlyOverlapsLoseEdits
  <2>1. c \in Calls /\ thread[c] = "done"
    BY DEF FileInv, WaitingAgrees, Calls
  <2>2. CASE Writing = {}
    <3>1. PICK d \in Calls \ {c} :
            c \in beneath[d] /\ (thread[d] = "broken" \/ d \in Writes \/ missed[d] # {})
      BY <2>1, <2>2 DEF FileInv, DiskAgrees, Gone
    <3>2. ASSUME missed[d] # {} PROVE \E e \in Calls : Overlapped(d, e)
      <4>1. PICK e \in Calls : e \in missed[d]
        BY <3>2 DEF FileInv, FileTypeOK
      <4> QED
        BY <4>1 DEF FileInv, MissedAgrees
    <3> QED
      BY <3>1, <3>2
  <2>3. CASE Writing # {}
    <3>1. PICK d \in Calls : d \in Writing
      BY <2>3 DEF Writing
    <3>2. thread[d] = "opened" /\ d # c /\ c \in beneath[d]
      BY <2>1, <3>1 DEF FileInv, WritersAgree, Writing
    <3> QED
      BY <3>2
  <2> QED
    BY <2>2, <2>3
<1> QED
  BY FileInvHolds, <1>1, PTL

\* All calls are one session's, and none was given up.
OneSession ==
  /\ \A c, d \in Calls : thread[c] # "none" /\ thread[d] # "none" => caller[c] = caller[d]
  /\ \A c \in Calls : answer[c] # "incomplete"

\* Nothing but edits was written, and nothing is half written.
OnlyWholeEdits ==
  /\ \A d \in Writes : d \notin Wrote
  /\ \A d \in Calls : thread[d] \notin {"opened", "broken"}

EveryEditIsThere == \A c \in Edits : answer[c] = "ok" => IsInFile(c)

\* The tool calls of one run at a time, never aborted, lose no edit to another:
\* the file is whole, and contains every one that was reported as done.
THEOREM FileOneSessionLosesNothing ==
  FileSpec => [](OneSession /\ OnlyWholeEdits => EveryEditIsThere)
<1>1. FileInv /\ OnlyOverlapsLoseEdits => (OneSession /\ OnlyWholeEdits => EveryEditIsThere)
  <2> SUFFICES ASSUME FileInv, OnlyOverlapsLoseEdits, OneSession, OnlyWholeEdits,
                      NEW c \in Edits, answer[c] = "ok", ~IsInFile(c)
               PROVE  FALSE
    BY DEF EveryEditIsThere
  <2>1. PICK d \in Calls \ {c} :
          /\ c \in beneath[d]
          /\ thread[d] \in {"opened", "broken"} \/ d \in Writes \/ \E e \in Calls : Overlapped(d, e)
    BY DEF OnlyOverlapsLoseEdits
  <2>2. d \in Wrote
    BY <2>1 DEF FileInv, OverAgrees
  <2>3. ASSUME NEW e \in Calls, Overlapped(d, e) PROVE FALSE
    <3>1. thread[d] # "none" /\ thread[e] # "none"
      BY <2>3 DEF FileInv, MissedAgrees, Overlapped
    <3> QED
      BY <2>3, <3>1 DEF Overlapped, OneSession
  <2> QED
    BY <2>1, <2>2, <2>3 DEF OnlyWholeEdits
<1> QED
  BY FileInvHolds, FileEditsSurvive, <1>1, PTL

-----------------------------------------------------------------------------
\* The characters of the texts that are edited.
EditedChars == {"a", "b", "curly", "plain", "sp", "nl", "cr"}

\* What the functions of the tools are given.
GivenInv ==
  /\ input \in Inputs
  /\ input.tool = "read" => given \in Seq(Int)
  /\ input.tool = "image" => given \in Seq(Encodings)
  /\ input.tool = "edit" => given \in EditsOver(EditedChars)

\* An encoder that yields two candidates.
LEMMA PairsAreEncodings ==
  ASSUME NEW a \in Nat, NEW b \in Nat
  PROVE  <<a, b>> \in Encodings
<1> DEFINE pair == <<a, b>>
<1>1. pair \in Seq(Nat) /\ Len(pair) = 2
  OBVIOUS
<1> HIDE DEF pair
<1>2. pair # <<>>
  <2>1. Len(<<>>) = 0 /\ 2 # 0
    OBVIOUS
  <2> QED
    BY <1>1, <2>1, Zenon
<1> QED
  BY <1>1, <1>2 DEF Encodings, pair

\* The functions from 1..k, for k between two bounds, are sequences.
LEMMA SeqsAreSequences ==
  ASSUME NEW S, NEW m \in Nat, NEW n \in Nat, NEW s \in SeqsOf(S, m, n)
  PROVE  s \in Seq(S)
BY DEF SeqsOf

\* The edits that are drawn are made of the characters of the texts.
LEMMA EditsAreTyped ==
  ASSUME NEW most, NEW edit \in EditsOf(most)
  PROVE  edit \in [old : Seq(EditedChars), new : Seq(EditedChars)]
<1>1. /\ <<>> \in Seq(EditedChars) /\ <<"b">> \in Seq(EditedChars)
      /\ <<"a", "nl">> \in Seq(EditedChars)
  BY DEF EditedChars
<1>2. ASSUME NEW S, S \subseteq EditedChars, NEW m \in {0, 1}, NEW old \in SeqsOf(S, m, 2)
      PROVE  old \in Seq(EditedChars)
  <2>1. old \in Seq(S)
    <3>1. m \in Nat /\ 2 \in Nat
      OBVIOUS
    <3> QED
      BY <3>1, SeqsAreSequences
  <2> QED
    BY <1>2, <2>1
<1>3. CASE most = 1
  <2>1. edit \in [old : SeqsOf({"a", "plain", "sp", "nl"}, 0, 2), new : {<<>>, <<"a", "nl">>}]
    BY <1>3 DEF EditsOf
  <2>2. {"a", "plain", "sp", "nl"} \subseteq EditedChars /\ 0 \in {0, 1}
    BY DEF EditedChars
  <2>3. edit.old \in Seq(EditedChars)
    BY <1>2, <2>1, <2>2
  <2>4. edit.new \in Seq(EditedChars)
    BY <1>1, <2>1
  <2> QED
    BY <2>1, <2>3, <2>4
<1>4. CASE most # 1
  <2>1. edit \in [old : SeqsOf({"a", "sp", "nl"}, 1, 2), new : {<<>>, <<"b">>}]
    BY <1>4 DEF EditsOf
  <2>2. {"a", "sp", "nl"} \subseteq EditedChars /\ 1 \in {0, 1}
    BY DEF EditedChars
  <2>3. edit.old \in Seq(EditedChars)
    BY <1>2, <2>1, <2>2
  <2>4. edit.new \in Seq(EditedChars)
    BY <1>1, <2>1
  <2> QED
    BY <2>1, <2>3, <2>4
<1> QED
  BY <1>3, <1>4

\* Read is given limits, edit edits, and the encoders' sizes are sequences of numbers.
LEMMA GivenHolds == Spec => []GivenInv
<1> DEFINE R == [old : Seq(EditedChars), new : Seq(EditedChars)]
<1>1. Init => GivenInv
  <2> SUFFICES ASSUME Init PROVE GivenInv
    OBVIOUS
  <2>1. input \in Inputs /\ given = <<>>
    BY DEF Init
  <2>2. <<>> \in Seq(R)
    OBVIOUS
  <2> QED
    BY <2>1, <2>2 DEF GivenInv, EditsOver
<1>2. GivenInv /\ [Next]_<<input, given, outVars, fileVars>> => GivenInv'
  <2> SUFFICES ASSUME GivenInv, [Next]_<<input, given, outVars, fileVars>>
               PROVE  GivenInv'
    OBVIOUS
  <2>1. CASE NextPage
    <3>1. PICK limit \in MCLimits : given' = Append(given, limit) /\ input' = input
      BY <2>1 DEF NextPage, Give
    <3>2. input.tool = "read" /\ limit \in Int
      BY <2>1 DEF NextPage, MCLimits
    <3> QED
      BY <3>1, <3>2 DEF GivenInv
  <2>2. CASE NextEdit
    <3>1. PICK edit \in EditsOf(input.most) : given' = Append(given, edit) /\ input' = input
      BY <2>2 DEF NextEdit, Give
    <3>2. input.tool = "edit" /\ edit \in R
      BY <2>2, EditsAreTyped DEF NextEdit
    <3>3. given \in Seq(R)
      BY <3>2 DEF GivenInv, EditsOver
    <3>4. given' \in Seq(R)
      <4> HIDE DEF R
      <4> QED
        BY <3>1, <3>2, <3>3
    <3> QED
      BY <3>1, <3>2, <3>4 DEF GivenInv, EditsOver
  <2>3. CASE NextEncoding
    <3>1. PICK sizes \in {<<1, 1>>, <<3, 1>>, <<3, 2>>, <<2, 3>>} :
            given' = Append(given, sizes) /\ input' = input
      BY <2>3 DEF NextEncoding, Give
    <3>2. input.tool = "image"
      BY <2>3 DEF NextEncoding
    <3>3. /\ <<1, 1>> \in Encodings /\ <<3, 1>> \in Encodings
          /\ <<3, 2>> \in Encodings /\ <<2, 3>> \in Encodings
      BY PairsAreEncodings
    <3>4. sizes \in Encodings
      BY <3>3
    <3> QED
      BY <3>1, <3>2, <3>4 DEF GivenInv
  <2>4. CASE NextOutput \/ NextOnFile \/ UNCHANGED <<input, given, outVars, fileVars>>
    <3>1. input' = input /\ given' = given
      BY <2>4 DEF NextOutput, NextOnFile
    <3> QED
      BY <3>1 DEF GivenInv
  <2> QED
    BY <2>1, <2>2, <2>3, <2>4 DEF Next
<1> QED
  BY <1>1, <1>2, PTL DEF Spec

\* The files and listings that are drawn are texts, their lines as long as asked for.
LEMMA TextsAreTexts ==
  ASSUME NEW m \in Nat, NEW n \in Nat, NEW a \in Nat, NEW b \in Nat,
         NEW text \in TextsOf(SeqsOf(a .. b, m, n))
  PROVE  /\ text \in Seq(Seq(Nat))
         /\ \A i \in 1 .. Len(text) : Len(text[i]) \in a .. b
<1>1. PICK l \in SeqsOf(a .. b, m, n) : text = [i \in DOMAIN l |-> [c \in 1 .. l[i] |-> i]]
  BY DEF TextsOf
<1>2. l \in Seq(a .. b)
  BY <1>1, SeqsAreSequences
<1>3. DOMAIN l = 1 .. Len(l) /\ Len(l) \in Nat /\ \A i \in 1 .. Len(l) : l[i] \in a .. b
  BY <1>2
<1>4. ASSUME NEW i \in 1 .. Len(l)
      PROVE  [c \in 1 .. l[i] |-> i] \in Seq(Nat) /\ Len([c \in 1 .. l[i] |-> i]) = l[i]
  <2> DEFINE k == l[i]
  <2>1. k \in Nat /\ i \in Nat
    BY <1>3
  <2> HIDE DEF k
  <2>2. [c \in 1 .. k |-> i] \in Seq(Nat) /\ Len([c \in 1 .. k |-> i]) = k
    BY <2>1
  <2> QED
    BY <2>2 DEF k
<1>5. /\ text \in [1 .. Len(l) -> Seq(Nat)]
      /\ \A i \in 1 .. Len(l) : Len(text[i]) = l[i]
  BY <1>1, <1>3, <1>4
<1>6. text \in Seq(Seq(Nat)) /\ Len(text) = Len(l)
  BY <1>3, <1>5
<1> QED
  BY <1>3, <1>5, <1>6

\* So they do for files, limits and page lengths of every bound.
THEOREM ReadsFollowTheNotices == Spec => []NoticesLeadThroughTheFile
<1>1. GivenInv => NoticesLeadThroughTheFile
  <2> SUFFICES ASSUME GivenInv, input.tool = "read"
               PROVE  PagesAreTheFile(input.file, input.first, given)
    BY DEF NoticesLeadThroughTheFile
  <2>1. /\ input \in [tool : {"read"}, file : TextsOf(SeqsOf(0 .. LineBytes, 1, FileLines)),
                      first : -1 .. (FileLines + 1)]
        /\ given \in Seq(Int)
    BY DEF GivenInv, Inputs, EditInputs
  <2>2. FileLines \in Nat /\ LineBytes \in Nat /\ 0 \in Nat /\ 1 \in Nat
    BY BoundsAssumption
  <2>3. /\ input.file \in TextsOf(SeqsOf(0 .. LineBytes, 1, FileLines))
        /\ input.first \in -1 .. (FileLines + 1)
    BY <2>1
  <2>4. input.file \in Seq(Seq(Nat))
    BY <2>2, <2>3, TextsAreTexts
  <2>5. input.first \in Int
    BY <2>2, <2>3
  <2> QED
    BY <2>1, <2>4, <2>5, NoticesLeadThroughFiles
<1> QED
  BY GivenHolds, <1>1, PTL

\* No search passes a part of its results for the whole, for outputs of every bound.
THEOREM SearchesDoReport == Spec => []SearchesReportOmissions
<1>1. \A limit \in MCLimits : limit \in Int
  BY DEF MCLimits
<1>2. ASSUME GivenInv, input.tool = "find"
      PROVE  /\ MissingPathsAreReported(input.paths, input.limit)
             /\ LimitNoticeIsExact(input.paths, input.limit)
             /\ MissingEntriesAreReported(input.paths, input.limit)
  <2>1. input \in [tool : {"find"}, paths : TextsOf(SeqsOf(1 .. PathBytes, 0, MaxPaths)),
                   limit : MCLimits]
    BY <1>2 DEF GivenInv, Inputs, EditInputs
  <2>2. PathBytes \in Nat /\ MaxPaths \in Nat /\ 0 \in Nat /\ 1 \in Nat
    BY BoundsAssumption, FindAssumption
  <2>3. input.paths \in TextsOf(SeqsOf(1 .. PathBytes, 0, MaxPaths)) /\ input.limit \in Int
    BY <1>1, <2>1
  <2>4. /\ input.paths \in Seq(Seq(Nat))
        /\ \A i \in 1 .. Len(input.paths) : Len(input.paths[i]) \in 1 .. PathBytes
    BY <2>2, <2>3, TextsAreTexts
  <2>5. \A i \in 1 .. Len(input.paths) : Len(input.paths[i]) <= PathBytes
    BY <2>2, <2>4
  <2>6. MissingPathsAreReported(input.paths, input.limit) /\ LimitNoticeIsExact(input.paths, input.limit)
    BY <2>3, <2>4, <2>5, FindReportsOmissions
  <2>7. MissingEntriesAreReported(input.paths, input.limit)
    BY <2>3, <2>4, LsReportsOmissions
  <2> QED
    BY <2>6, <2>7
<1>3. ASSUME GivenInv, input.tool = "grep"
      PROVE  MatchesAreAccountedFor(input.events, input.limit)
  <2>1. input \in [tool : {"grep"}, events : SeqsOf(Events, 0, MaxEvents), limit : MCLimits]
    BY <1>3 DEF GivenInv, Inputs, EditInputs
  <2>2. input.events \in SeqsOf(Events, 0, MaxEvents) /\ input.limit \in Int
    BY <1>1, <2>1
  <2>3. MaxEvents \in Nat /\ 0 \in Nat
    BY BoundsAssumption
  <2>4. input.events \in Seq(Events)
    BY <2>2, <2>3, SeqsAreSequences
  <2> QED
    BY <2>2, <2>4, GrepReportsOmissions
<1>4. GivenInv => SearchesReportOmissions
  BY <1>2, <1>3 DEF SearchesReportOmissions
<1> QED
  BY GivenHolds, <1>4, PTL

\* No tool shadows another, and no typed run fails to start, for any tools.
THEOREM RegistriesAreSound == Spec => []RegistryIsSound
<1>1. GivenInv => RegistryIsSound
  <2> SUFFICES ASSUME GivenInv, input.tool = "registry"
               PROVE  AcceptedHarnessRunsTyped(input.tools) /\ CallsReachTheirTool(input.tools)
    BY DEF RegistryIsSound
  <2>1. input \in [tool : {"registry"}, tools : SeqsOf(Tools, 0, MaxTools)]
    BY DEF GivenInv, Inputs, EditInputs
  <2>2. input.tools \in SeqsOf(Tools, 0, MaxTools)
    BY <2>1
  <2>3. MaxTools \in Nat /\ 0 \in Nat
    BY BoundsAssumption
  <2>4. input.tools \in Seq(Tools)
    BY <2>2, <2>3, SeqsAreSequences
  <2> QED
    BY <2>4, EveryRegistryIsSound
<1> QED
  BY GivenHolds, <1>1, PTL

\* Every call of edit that is accepted replaces at once the only places of its old
\* texts, and a call whose old texts are there once is accepted.
THEOREM EditsDoReplace == Spec => []EditsReplaceWhatTheyMatch
<1>1. GivenInv => EditsReplaceWhatTheyMatch
  <2> SUFFICES ASSUME GivenInv, input.tool = "edit"
               PROVE  /\ AcceptedEditReplacesAtOnce(EditedFile, given)
                      /\ OldTextsDecide(EditedFile, given)
    BY DEF EditsReplaceWhatTheyMatch
  <2>1. input \in EditInputs /\ given \in EditsOver(EditedChars)
    BY DEF GivenInv, Inputs
  <2>2. \E S \in SUBSET EditedChars : input.text \in SeqsOf(S, 0, EditedText)
    <3>1. /\ {"a", "curly", "plain", "sp", "nl", "cr"} \in SUBSET EditedChars
          /\ {"a", "sp", "nl"} \in SUBSET EditedChars
      BY DEF EditedChars
    <3>2. \/ input.text \in SeqsOf({"a", "curly", "plain", "sp", "nl", "cr"}, 0, EditedText)
          \/ input.text \in SeqsOf({"a", "sp", "nl"}, 0, EditedText)
      BY <2>1 DEF EditInputs
    <3> QED
      BY <3>1, <3>2
  <2>3. PICK S \in SUBSET EditedChars : input.text \in SeqsOf(S, 0, EditedText)
    BY <2>2
  <2>4. input.text \in Seq(EditedChars)
    <3>1. \A k \in 0 .. EditedText : \A s \in [1 .. k -> S] : s \in Seq(EditedChars)
      BY <2>3
    <3> QED
      BY <2>3, <3>1 DEF SeqsOf
  <2>5. {"nl", "cr"} \subseteq EditedChars
    BY DEF EditedChars
  <2> DEFINE bom == input.bom
             text == input.text
  <2>6. EditedFile = [bom |-> bom, text |-> text]
    BY DEF EditedFile
  <2> HIDE DEF bom, text
  <2>7. text \in Seq(EditedChars)
    BY <2>4 DEF text
  <2>8. /\ AcceptedEditReplacesAtOnce([bom |-> bom, text |-> text], given)
        /\ OldTextsDecide([bom |-> bom, text |-> text], given)
    BY <2>1, <2>5, <2>7, EveryEditReplaces
  <2> QED
    BY <2>6, <2>8
<1> QED
  BY GivenHolds, <1>1, PTL

\* Every image ends in the box and below the limit or in an error, for boxes and
\* images of every size.
THEOREM ImagesDoFitOrFail == Spec => []ImagesFitOrFail
<1>1. GivenInv => ImagesFitOrFail
  <2> SUFFICES ASSUME GivenInv, input.tool = "image", Len(given) = Turns
               PROVE  ImageFitsOrFails(input, [k \in 0 .. (Turns - 1) |-> given[k + 1]])
    BY DEF ImagesFitOrFail
  <2>1. /\ input \in [tool : {"image"}, width : 1 .. MaxSide, height : 1 .. MaxSide,
                      turned : BOOLEAN, size : 1 .. MaxSize]
        /\ given \in Seq(Encodings)
    BY DEF GivenInv, Inputs, EditInputs
  <2>2. MaxSide \in Nat /\ MaxSize \in Nat
    BY BoundsAssumption
  <2>3. /\ input.width \in Nat \ {0} /\ input.height \in Nat \ {0}
        /\ input.turned \in BOOLEAN /\ input.size \in Nat
    BY <2>1, <2>2
  <2>4. Turns \in Nat /\ Turns >= MaxWidth /\ Turns >= MaxHeight
    BY BoxAssumption DEF Turns
  <2> DEFINE encoded == [k \in 0 .. (Turns - 1) |-> given[k + 1]]
  <2>5. encoded \in [0 .. Turns - 1 -> Encodings]
    BY <2>1, <2>4
  <2> HIDE DEF encoded
  <2>6. ImageFitsOrFails(input, encoded)
    BY <2>3, <2>4, <2>5, EveryImageFitsOrFails DEF IsImage
  <2> QED
    BY <2>6 DEF encoded
<1> QED
  BY GivenHolds, <1>1, PTL

-----------------------------------------------------------------------------
\* Induction over the sequences of a set: what holds of the empty one and is kept
\* when an element is appended holds of all.
LEMMA SequenceInduction ==
  ASSUME NEW S, NEW T, <<>> \in T,
         \A s \in Seq(S), e \in S : s \in T => Append(s, e) \in T
  PROVE  Seq(S) \subseteq T
<1> DEFINE P == {n \in Nat : \A s \in Seq(S) : Len(s) = n => s \in T}
<1>1. 0 \in P
  <2>1. \A s \in Seq(S) : Len(s) = 0 => s = <<>>
    BY EmptySeq
  <2> QED
    BY <2>1
<1>2. ASSUME NEW n \in Nat, n \in P PROVE n + 1 \in P
  <2> SUFFICES ASSUME NEW s \in Seq(S), Len(s) = n + 1
               PROVE  s \in T
    OBVIOUS
  <2>1. /\ SubSeq(s, 1, n) \in Seq(S) /\ Len(SubSeq(s, 1, n)) = n /\ s[n + 1] \in S
        /\ Append(SubSeq(s, 1, n), s[n + 1]) = s
    OBVIOUS
  <2>2. SubSeq(s, 1, n) \in T
    BY <1>2, <2>1
  <2> QED
    BY <2>1, <2>2
<1>3. Nat \subseteq P
  <2> HIDE DEF P
  <2> QED
    BY <1>1, <1>2, Induction
<1> QED
  <2> SUFFICES ASSUME NEW s \in Seq(S)
               PROVE  s \in T
    OBVIOUS
  <2>1. Len(s) \in Nat
    OBVIOUS
  <2> QED
    BY <1>3, <2>1

\* The empty text counts nothing.
LEMMA NoLines == ByteCount(<<>>) = 0 /\ BytesOfFirst(<<>>)[0] = 0
<1>1. <<>> \in Seq(Seq(Bytes)) /\ Len(<<>>) = 0
  OBVIOUS
<1>2. BytesOfFirst(<<>>)[0] = 0
  BY <1>1, ByteCounts
<1> QED
  BY <1>1, <1>2 DEF ByteCount

\* What one line more counts.
OneMore(lines, line) ==
  ByteCount(lines) + (IF lines = <<>> THEN 0 ELSE 1) + Len(line)

\* A line at the end of a text adds its bytes and a separator.
LEMMA CountAtTheEnd ==
  ASSUME NEW S, NEW lines \in Seq(Seq(S)), NEW line \in Seq(S)
  PROVE  ByteCount(Append(lines, line)) = OneMore(lines, line)
<1> DEFINE more == Append(lines, line)
           n == Len(lines)
<1>1. /\ more \in Seq(Seq(S)) /\ Len(more) = n + 1 /\ more[n + 1] = line /\ n \in Nat
      /\ SubSeq(more, 1, n) = lines
      /\ n = 0 <=> lines = <<>>
  <2>1. more \in Seq(Seq(S)) /\ Len(more) = n + 1 /\ more[n + 1] = line /\ n \in Nat
    OBVIOUS
  <2>2. SubSeq(more, 1, n) = lines
    OBVIOUS
  <2>3. n = 0 <=> lines = <<>>
    BY EmptySeq
  <2> QED
    BY <2>1, <2>2, <2>3
<1> HIDE DEF more, n
<1>2. BytesOfFirst(more)[n + 1] =
        BytesOfFirst(more)[(n + 1) - 1] + (IF n + 1 = 1 THEN 0 ELSE 1) + Len(more[n + 1])
  <2>1. n + 1 \in 1 .. Len(more)
    BY <1>1
  <2> QED
    BY <1>1, <2>1, ByteCounts
<1>3. ByteCount(SubSeq(more, 1, n)) = BytesOfFirst(more)[n]
  <2>1. n \in 0 .. Len(more)
    BY <1>1
  <2> QED
    BY <1>1, <2>1, BytesOfSome
<1>4. (n + 1) - 1 = n /\ (n + 1 = 1 <=> n = 0)
  BY <1>1
<1> QED
  BY <1>1, <1>2, <1>3, <1>4 DEF ByteCount, OneMore, more

\* What a text counts is a number.
LEMMA CountType ==
  ASSUME NEW S, NEW lines \in Seq(Seq(S))
  PROVE  ByteCount(lines) \in Nat
<1>1. Len(lines) \in 0 .. Len(lines)
  OBVIOUS
<1> QED
  BY <1>1, ByteCounts DEF ByteCount

\* A sequence with an element in front of it.
LEMMA InFront ==
  ASSUME NEW S, NEW e \in S, NEW s \in Seq(S)
  PROVE  /\ <<e>> \o s \in Seq(S) /\ Len(<<e>> \o s) = Len(s) + 1
         /\ (<<e>> \o s)[1] = e
         /\ \A i \in 1 .. Len(s) : (<<e>> \o s)[i + 1] = s[i]
         /\ <<e>> \o s # <<>>
         /\ <<e>> \o <<>> = Append(<<>>, e)
         /\ \A d \in S : <<e>> \o Append(s, d) = Append(<<e>> \o s, d)
<1>1. <<e>> \in Seq(S) /\ Len(<<e>>) = 1 /\ <<e>>[1] = e /\ <<e>> # <<>> /\ Len(s) \in Nat
  OBVIOUS
<1>2. /\ <<e>> \o s \in Seq(S) /\ Len(<<e>> \o s) = 1 + Len(s)
      /\ \A i \in 1 .. 1 + Len(s) : (<<e>> \o s)[i] = IF i <= 1 THEN <<e>>[i] ELSE s[i - 1]
  BY <1>1, ConcatProperties
<1>3. <<e>> \o s # <<>>
  BY <1>1, ConcatEqualIffEmpty
<1>4. <<e>> \o <<>> = Append(<<>>, e)
  <2>1. <<e>> \o <<>> = <<e>>
    BY <1>1, ConcatEmptySeq
  <2>2. Append(<<>>, e) = <<>> \o <<e>>
    <3>1. <<>> \in Seq(S)
      OBVIOUS
    <3> QED
      BY <3>1, AppendIsConcat
  <2>3. <<>> \o <<e>> = <<e>>
    BY <1>1, ConcatEmptySeq
  <2> QED
    BY <2>1, <2>2, <2>3, Zenon
<1>5. ASSUME NEW d \in S PROVE <<e>> \o Append(s, d) = Append(<<e>> \o s, d)
  <2>1. <<d>> \in Seq(S) /\ Append(s, d) = s \o <<d>>
    BY AppendIsConcat
  <2>2. Append(<<e>> \o s, d) = (<<e>> \o s) \o <<d>>
    BY <1>2, AppendIsConcat
  <2>3. (<<e>> \o s) \o <<d>> = <<e>> \o (s \o <<d>>)
    BY <1>1, <2>1, Associative DEF Associates
  <2> QED
    BY <2>1, <2>2, <2>3, Zenon
<1>6. (<<e>> \o s)[1] = e /\ \A i \in 1 .. Len(s) : (<<e>> \o s)[i + 1] = s[i]
  <2> DEFINE t == <<e>> \o s
  <2>1. \A i \in 1 .. 1 + Len(s) : t[i] = IF i <= 1 THEN <<e>>[i] ELSE s[i - 1]
    BY <1>2
  <2> HIDE DEF t
  <2>2. t[1] = e
    BY <1>1, <2>1
  <2>3. ASSUME NEW i \in 1 .. Len(s) PROVE t[i + 1] = s[i]
    <3>1. i + 1 \in 1 .. 1 + Len(s) /\ ~(i + 1 <= 1) /\ (i + 1) - 1 = i
      BY <1>1
    <3> QED
      BY <2>1, <3>1
  <2> QED
    BY <2>2, <2>3 DEF t
<1> QED
  BY <1>1, <1>2, <1>3, <1>4, <1>5, <1>6

\* So does a line at the beginning of a text.
LEMMA CountAtTheBeginning ==
  ASSUME NEW S, NEW line \in Seq(S), NEW lines \in Seq(Seq(S))
  PROVE  ByteCount(<<line>> \o lines) = OneMore(lines, line)
<1> DEFINE T == {s \in Seq(Seq(S)) : ByteCount(<<line>> \o s) = OneMore(s, line)}
<1>1. <<>> \in T
  <2>1. <<>> \in Seq(Seq(S))
    OBVIOUS
  <2>2. <<line>> \o <<>> = Append(<<>>, line)
    OBVIOUS
  <2> QED
    BY <2>1, <2>2, CountAtTheEnd
<1>2. ASSUME NEW s \in Seq(Seq(S)), NEW e \in Seq(S), s \in T PROVE Append(s, e) \in T
  <2> DEFINE f == <<line>> \o s
             g == <<line>> \o Append(s, e)
  <2>1. g = Append(f, e) /\ f \in Seq(Seq(S)) /\ f # <<>>
    BY InFront, SMTT(20)
  <2>7. Append(s, e) \in Seq(Seq(S)) /\ Append(s, e) # <<>>
    BY AppendProperties
  <2>3. ByteCount(f) = ByteCount(s) + (IF s = <<>> THEN 0 ELSE 1) + Len(line)
    BY <1>2 DEF OneMore
  <2> HIDE DEF f, g
  <2>2. ByteCount(g) = ByteCount(f) + 1 + Len(e)
    BY <2>1, CountAtTheEnd DEF OneMore
  <2>4. ByteCount(Append(s, e)) = ByteCount(s) + (IF s = <<>> THEN 0 ELSE 1) + Len(e)
    BY CountAtTheEnd DEF OneMore
  <2>5. ByteCount(s) \in Nat /\ Len(e) \in Nat /\ Len(line) \in Nat
    BY CountType
  <2>6. ByteCount(g) = ByteCount(Append(s, e)) + 1 + Len(line)
    BY <2>2, <2>3, <2>4, <2>5
  <2> QED
    BY <2>7, <2>6 DEF OneMore, g
<1>3. Seq(Seq(S)) \subseteq T
  <2> HIDE DEF T
  <2> QED
    BY <1>1, <1>2, SequenceInduction
<1> QED
  BY <1>3

\* The reverse of a sequence.
LEMMA Reversed ==
  ASSUME NEW S, NEW s \in Seq(S)
  PROVE  /\ Reverse(s) \in Seq(S) /\ Len(Reverse(s)) = Len(s)
         /\ \A i \in 1 .. Len(s) : Reverse(s)[i] = s[Len(s) - i + 1]
         /\ Reverse(Reverse(s)) = s
<1>1. /\ Reverse(s) \in Seq(S) /\ Len(Reverse(s)) = Len(s)
      /\ \A i \in 1 .. Len(s) : Reverse(s)[i] = s[Len(s) - i + 1]
  BY DEF Reverse
<1> DEFINE r == Reverse(s)
<1>2. /\ Reverse(r) \in Seq(S) /\ Len(Reverse(r)) = Len(r)
      /\ \A i \in 1 .. Len(r) : Reverse(r)[i] = r[Len(r) - i + 1]
  <2> HIDE DEF r
  <2>1. r \in Seq(S)
    BY <1>1 DEF r
  <2> QED
    BY <2>1 DEF Reverse
<1>3. \A i \in 1 .. Len(s) : Reverse(r)[i] = s[i]
  <2> SUFFICES ASSUME NEW i \in 1 .. Len(s)
               PROVE  Reverse(r)[i] = s[i]
    OBVIOUS
  <2>1. Len(s) - i + 1 \in 1 .. Len(s) /\ Len(s) - (Len(s) - i + 1) + 1 = i
    OBVIOUS
  <2>2. Reverse(r)[i] = r[Len(s) - i + 1]
    BY <1>1, <1>2
  <2>3. r[Len(s) - i + 1] = s[Len(s) - (Len(s) - i + 1) + 1]
    BY <1>1, <2>1
  <2> QED
    BY <2>1, <2>2, <2>3
<1> QED
  BY <1>1, <1>2, <1>3, SeqEqual

\* A text counts the same in either direction.
LEMMA CountReversed ==
  ASSUME NEW S, NEW lines \in Seq(Seq(S))
  PROVE  ByteCount(Reverse(lines)) = ByteCount(lines)
<1> DEFINE T == {s \in Seq(Seq(S)) : ByteCount(Reverse(s)) = ByteCount(s)}
<1>1. <<>> \in T
  <2>1. <<>> \in Seq(Seq(S)) /\ Reverse(<<>>) = <<>>
    BY DEF Reverse
  <2> QED
    BY <2>1
<1>2. ASSUME NEW s \in Seq(Seq(S)), NEW e \in Seq(S), s \in T PROVE Append(s, e) \in T
  <2> DEFINE r == Reverse(s)
             t == Append(s, e)
             n == Len(s)
  <2>1. r \in Seq(Seq(S)) /\ Len(r) = n /\ n \in Nat /\ \A i \in 1 .. n : r[i] = s[n - i + 1]
    BY Reversed
  <2>2. t \in Seq(Seq(S)) /\ Len(t) = n + 1 /\ t[n + 1] = e /\ \A i \in 1 .. n : t[i] = s[i]
    OBVIOUS
  <2> HIDE DEF r, t, n
  <2>3. /\ Reverse(t) \in Seq(Seq(S)) /\ Len(Reverse(t)) = n + 1
        /\ \A i \in 1 .. n + 1 : Reverse(t)[i] = t[(n + 1) - i + 1]
    <3>1. /\ Reverse(t) \in Seq(Seq(S)) /\ Len(Reverse(t)) = Len(t)
          /\ \A i \in 1 .. Len(t) : Reverse(t)[i] = t[Len(t) - i + 1]
      BY <2>2, Reversed
    <3> QED
      BY <2>2, <3>1
  <2> DEFINE f == <<e>> \o r
  <2>4. /\ f \in Seq(Seq(S)) /\ Len(f) = n + 1
        /\ \A i \in 1 .. n + 1 : f[i] = IF i = 1 THEN e ELSE r[i - 1]
    <3>1. /\ f \in Seq(Seq(S)) /\ Len(f) = Len(r) + 1 /\ f[1] = e
          /\ \A i \in 1 .. Len(r) : f[i + 1] = r[i]
      BY <2>1, InFront
    <3> HIDE DEF f
    <3>2. ASSUME NEW i \in 1 .. n + 1, i # 1 PROVE f[i] = r[i - 1]
      <4>1. i - 1 \in 1 .. Len(r) /\ (i - 1) + 1 = i
        BY <2>1, <3>2
      <4> QED
        BY <3>1, <4>1
    <3> QED
      BY <2>1, <3>1, <3>2
  <2> HIDE DEF f
  <2>5. ASSUME NEW i \in 1 .. n + 1 PROVE Reverse(t)[i] = f[i]
    <3>1. CASE i = 1
      <4>1. (n + 1) - i + 1 = n + 1
        BY <2>1, <3>1
      <4> QED
        BY <2>2, <2>3, <2>4, <3>1, <4>1
    <3>2. CASE i # 1
      <4>1. /\ i - 1 \in 1 .. n /\ n - (i - 1) + 1 = (n + 1) - i + 1
            /\ (n + 1) - i + 1 \in 1 .. n
        BY <2>1, <3>2
      <4>2. r[i - 1] = s[n - (i - 1) + 1]
        BY <2>1, <4>1
      <4>3. t[(n + 1) - i + 1] = s[(n + 1) - i + 1]
        BY <2>2, <4>1
      <4> QED
        BY <2>3, <2>4, <3>2, <4>1, <4>2, <4>3
    <3> QED
      BY <3>1, <3>2
  <2>6. Reverse(t) = f
    BY <2>3, <2>4, <2>5, SeqEqual
  <2>7. ByteCount(f) = ByteCount(r) + (IF r = <<>> THEN 0 ELSE 1) + Len(e)
    BY <2>1, CountAtTheBeginning DEF OneMore, f
  <2>8. ByteCount(t) = ByteCount(s) + (IF s = <<>> THEN 0 ELSE 1) + Len(e)
    BY CountAtTheEnd DEF OneMore, t
  <2>9. (r = <<>>) <=> (s = <<>>)
    <3>1. r = <<>> <=> Len(r) = 0
      BY <2>1, EmptySeq
    <3>2. s = <<>> <=> Len(s) = 0
      BY EmptySeq
    <3> QED
      BY <2>1, <3>1, <3>2 DEF n
  <2>10. ByteCount(Reverse(t)) = ByteCount(t)
    BY <1>2, <2>6, <2>7, <2>8, <2>9 DEF r
  <2> QED
    BY <2>2, <2>10 DEF t
<1>3. Seq(Seq(S)) \subseteq T
  <2> HIDE DEF T
  <2> QED
    BY <1>1, <1>2, SequenceInduction
<1> QED
  BY <1>3

\* More lines count no less.
LEMMA CountsGrow ==
  ASSUME NEW S, NEW lines \in Seq(Seq(S)), NEW j \in 0 .. Len(lines), NEW k \in 0 .. j
  PROVE  BytesOfFirst(lines)[k] <= BytesOfFirst(lines)[j]
<1> DEFINE f == BytesOfFirst(lines)
           P == {n \in Nat : n <= Len(lines) /\ k <= n => f[k] <= f[n]}
<1>1. /\ f \in [0 .. Len(lines) -> Nat] /\ f[0] = 0
      /\ \A n \in 1 .. Len(lines) : f[n] = f[n - 1] + (IF n = 1 THEN 0 ELSE 1) + Len(lines[n])
  BY ByteCounts
<1>2. /\ k \in Nat /\ j \in Nat /\ Len(lines) \in Nat /\ k \in 0 .. Len(lines) /\ k <= j
      /\ j <= Len(lines)
      /\ \A n \in 1 .. Len(lines) : Len(lines[n]) \in Nat
  OBVIOUS
<1> HIDE DEF f
<1>3. 0 \in P
  <2>1. k <= 0 => k = 0
    BY <1>2
  <2> QED
    BY <1>1, <2>1
<1>4. ASSUME NEW n \in Nat, n \in P PROVE n + 1 \in P
  <2> SUFFICES ASSUME n + 1 <= Len(lines), k <= n + 1
               PROVE  f[k] <= f[n + 1]
    OBVIOUS
  <2>1. CASE k = n + 1
    <3>1. f[k] \in Nat
      BY <1>1, <1>2
    <3> QED
      BY <2>1, <3>1
  <2>2. CASE k # n + 1
    <3>1. /\ k <= n /\ n \in 0 .. Len(lines) /\ n + 1 \in 1 .. Len(lines) /\ (n + 1) - 1 = n
          /\ n <= Len(lines)
      BY <1>2, <2>2
    <3>2. f[k] <= f[n]
      BY <1>4, <3>1
    <3>3. f[k] \in Nat /\ f[n] \in Nat /\ Len(lines[n + 1]) \in Nat
      BY <1>1, <1>2, <3>1
    <3> DEFINE before == f[n]
               after == f[n + 1]
               bytes == Len(lines[n + 1])
    <3>4. after = before + 0 + bytes \/ after = before + 1 + bytes
      BY <1>1, <3>1
    <3>5. f[k] <= before /\ f[k] \in Nat /\ before \in Nat /\ bytes \in Nat
      BY <3>2, <3>3
    <3> HIDE DEF before, after, bytes
    <3>6. f[k] <= after
      BY <3>4, <3>5
    <3> QED
      BY <3>6 DEF after
  <2> QED
    BY <2>1, <2>2
<1>5. Nat \subseteq P
  <2> HIDE DEF P
  <2> QED
    BY <1>3, <1>4, Induction
<1> QED
  BY <1>2, <1>5 DEF f

-----------------------------------------------------------------------------
\* The lines of a text: one at least.
Pages == {lines \in Seq(Seq(Bytes)) : Len(lines) \in Nat \ {0}}

\* What a byte more makes of the lines.
SplitOne(lines, b, next) ==
  /\ next \in Pages
  /\ b = "nl" =>
       /\ Len(next) = Len(lines) + 1 /\ next[Len(lines) + 1] = <<>>
       /\ \A i \in 1 .. Len(lines) : next[i] = lines[i]
       /\ next = Append(lines, <<>>)
  /\ b # "nl" =>
       /\ Len(next) = Len(lines)
       /\ next[Len(lines)] = Append(lines[Len(lines)], b)
       /\ \A i \in 1 .. Len(lines) - 1 : next[i] = lines[i]
       /\ next = Append(Front(lines), Append(Last(lines), b))

\* A byte begins a line or extends the last one.
LEMMA SplittingOne ==
  ASSUME NEW lines \in Pages, NEW b \in Bytes
  PROVE  SplitOne(lines, b, SplitByte(lines, b))
<1>1. lines \in Seq(Seq(Bytes)) /\ Len(lines) \in Nat /\ Len(lines) >= 1
  BY DEF Pages
<1>2. CASE b = "nl"
  <2> DEFINE next == Append(lines, <<>>)
  <2>1. <<>> \in Seq(Bytes)
    OBVIOUS
  <2>2. /\ next \in Seq(Seq(Bytes)) /\ Len(next) = Len(lines) + 1
        /\ next[Len(lines) + 1] = <<>>
        /\ \A i \in 1 .. Len(lines) : next[i] = lines[i]
    BY <1>1, <2>1
  <2>3. SplitByte(lines, b) = next
    BY <1>2 DEF SplitByte
  <2>4. next = Append(lines, <<>>)
    OBVIOUS
  <2> HIDE DEF next
  <2>5. next \in Pages
    BY <1>1, <2>2 DEF Pages
  <2> QED
    BY <1>2, <2>2, <2>3, <2>4, <2>5 DEF SplitOne
<1>3. CASE b # "nl"
  <2> DEFINE line == Append(Last(lines), b)
             next == Append(Front(lines), line)
             m == Len(lines)
  <2>1. line \in Seq(Bytes) /\ line = Append(lines[m], b)
    BY <1>1 DEF Last
  <2>2. /\ Front(lines) \in Seq(Seq(Bytes)) /\ Len(Front(lines)) = m - 1
        /\ \A i \in 1 .. m - 1 : Front(lines)[i] = lines[i]
    <3>1. /\ 1 \in Int /\ m - 1 \in Int /\ \A i \in 1 .. m - 1 : lines[i] \in Seq(Bytes)
          /\ (IF 1 <= m - 1 THEN (m - 1) - 1 + 1 ELSE 0) = m - 1
          /\ \A i \in 1 .. m - 1 : i \in 1 .. (m - 1) - 1 + 1 /\ 1 + i - 1 = i
      <4>1. m \in Nat /\ m >= 1 /\ \A i \in 1 .. m - 1 : lines[i] \in Seq(Bytes)
        BY <1>1
      <4> HIDE DEF m
      <4>2. /\ 1 \in Int /\ m - 1 \in Int
            /\ (IF 1 <= m - 1 THEN (m - 1) - 1 + 1 ELSE 0) = m - 1
            /\ \A i \in 1 .. m - 1 : i \in 1 .. (m - 1) - 1 + 1 /\ 1 + i - 1 = i
        BY <4>1
      <4> QED
        BY <4>1, <4>2
    <3> DEFINE front == SubSeq(lines, 1, m - 1)
    <3>2. /\ front \in Seq(Seq(Bytes)) /\ Len(front) = IF 1 <= m - 1 THEN (m - 1) - 1 + 1 ELSE 0
          /\ \A i \in 1 .. (m - 1) - 1 + 1 : front[i] = lines[1 + i - 1]
      BY <3>1, SubSeqProperties
    <3> HIDE DEF front, m
    <3>3. front \in Seq(Seq(Bytes)) /\ Len(front) = m - 1 /\ \A i \in 1 .. m - 1 : front[i] = lines[i]
      BY <3>1, <3>2
    <3> QED
      BY <3>3 DEF Front, front, m
  <2>6. SplitByte(lines, b) = next
    BY <1>3 DEF SplitByte
  <2> HIDE DEF line
  <2>3. /\ next \in Seq(Seq(Bytes)) /\ Len(next) = (m - 1) + 1
        /\ next[(m - 1) + 1] = line
        /\ \A i \in 1 .. m - 1 : next[i] = Front(lines)[i]
    BY <2>1, <2>2, AppendProperties
  <2>4. (m - 1) + 1 = m
    BY <1>1
  <2>7. next = Append(Front(lines), line)
    OBVIOUS
  <2> HIDE DEF next
  <2>5. next \in Pages
    BY <1>1, <2>3, <2>4 DEF Pages
  <2>8. next = Append(Front(lines), Append(Last(lines), b))
    BY <2>7 DEF line
  <2>9. Len(next) = m /\ next[m] = Append(lines[m], b) /\ \A i \in 1 .. m - 1 : next[i] = lines[i]
    BY <2>1, <2>2, <2>3, <2>4
  <2> QED
    BY <1>3, <2>5, <2>6, <2>8, <2>9 DEF SplitOne
<1> QED
  BY <1>2, <1>3

\* The text is split one byte after the other.
LEMMA Splitting ==
  ASSUME NEW text \in Seq(Bytes)
  PROVE  /\ LinesOfFirst(text)[0] = <<(<<>>)>>
         /\ \A n \in 1 .. Len(text) :
              LinesOfFirst(text)[n] = SplitByte(LinesOfFirst(text)[n - 1], text[n])
<1> DEFINE N == Len(text)
           Step(r, n) == SplitByte(r, text[n])
           step == [p \in Pages \X (1 .. N) |-> Step(p[1], p[2])]
           Right(f) == f = [n \in 0 .. N |-> IF n = 0 THEN <<(<<>>)>> ELSE Step(f[n - 1], n)]
           lines == LinesOfFirst(text)
<1>1. /\ N \in Nat /\ 0 \in 0 .. N
      /\ \A n \in 1 .. N : text[n] \in Bytes /\ n - 1 \in 0 .. N /\ n \in 0 .. N
  OBVIOUS
<1>2. <<(<<>>)>> \in Pages
  BY DEF Pages
<1> HIDE DEF N
<1>3. ASSUME NEW r \in Pages, NEW n \in 1 .. N PROVE Step(r, n) \in Pages
  BY <1>1, SplittingOne DEF SplitOne
<1>4. lines = CHOOSE f : Right(f)
  BY DEF LinesOfFirst, N
<1> HIDE DEF Step, lines
<1>5. step \in [Pages \X (1 .. N) -> Pages]
  BY <1>3
<1>6. PICK f \in [0 .. N -> Pages] : Recurses(f, <<(<<>>)>>, step, N)
  <2> HIDE DEF step
  <2> QED
    BY <1>1, <1>2, <1>5, Recursion
<1>7. Right(f)
  <2>1. ASSUME NEW n \in 0 .. N
        PROVE  f[n] = IF n = 0 THEN <<(<<>>)>> ELSE Step(f[n - 1], n)
    <3>1. CASE n = 0
      BY <1>6, <3>1 DEF Recurses
    <3>2. CASE n # 0
      <4>1. n \in 1 .. N /\ f[n - 1] \in Pages
        BY <1>1, <1>6, <3>2
      <4> QED
        BY <1>6, <3>2, <4>1 DEF Recurses
    <3> QED
      BY <3>1, <3>2
  <2> QED
    BY <1>6, <2>1
<1>8. Right(lines)
  <2> HIDE DEF Right
  <2> QED
    BY <1>4, <1>7
<1>9. lines[0] = <<(<<>>)>> /\ \A n \in 1 .. N : lines[n] = Step(lines[n - 1], n)
  BY <1>1, <1>8
<1> QED
  BY <1>9 DEF Step, N, lines

\* The lines of a text and of a text that is one byte longer.
LEMMA SplitMore ==
  ASSUME NEW text \in Seq(Bytes), NEW b \in Bytes
  PROVE  SplitLines(Append(text, b)) = SplitByte(SplitLines(text), b)
<1> DEFINE more == Append(text, b)
           N == Len(text)
           f == LinesOfFirst(text)
           g == LinesOfFirst(more)
           P == {n \in Nat : n <= N => g[n] = f[n]}
<1>1. /\ more \in Seq(Bytes) /\ Len(more) = N + 1 /\ more[N + 1] = b
      /\ \A n \in 1 .. N : more[n] = text[n]
      /\ N \in Nat
  OBVIOUS
<1> HIDE DEF more
<1>2. f[0] = <<(<<>>)>> /\ \A n \in 1 .. N : f[n] = SplitByte(f[n - 1], text[n])
  BY Splitting
<1>3. g[0] = <<(<<>>)>> /\ \A n \in 1 .. Len(more) : g[n] = SplitByte(g[n - 1], more[n])
  BY <1>1, Splitting
<1> HIDE DEF N, f, g
<1>4. 0 \in P
  BY <1>2, <1>3
<1>5. ASSUME NEW n \in Nat, n \in P PROVE n + 1 \in P
  <2> SUFFICES ASSUME n + 1 <= N
               PROVE  g[n + 1] = f[n + 1]
    OBVIOUS
  <2>1. n + 1 \in 1 .. N /\ n + 1 \in 1 .. Len(more) /\ (n + 1) - 1 = n /\ n <= N
    BY <1>1
  <2>2. g[n] = f[n]
    BY <1>5, <2>1
  <2> QED
    BY <1>1, <1>2, <1>3, <2>1, <2>2
<1>6. Nat \subseteq P
  <2> HIDE DEF P
  <2> QED
    BY <1>4, <1>5, Induction
<1>7. g[N] = f[N]
  BY <1>1, <1>6
<1>8. N + 1 \in 1 .. Len(more) /\ (N + 1) - 1 = N
  BY <1>1
<1> QED
  BY <1>1, <1>3, <1>7, <1>8 DEF SplitLines, more, N, f, g

\* The line of an empty text.
LEMMA SplitNothing == SplitLines(<<>>) = <<(<<>>)>>
<1>1. <<>> \in Seq(Bytes) /\ Len(<<>>) = 0
  OBVIOUS
<1> QED
  BY <1>1, Splitting DEF SplitLines

\* The lines of a text count its bytes, and there is one more than line ends.
Split(text) ==
  /\ SplitLines(text) \in Pages
  /\ ByteCount(SplitLines(text)) = Len(text)
  /\ Len(SplitLines(text)) = Newlines(text) + 1
  /\ Newlines(text) \in Nat

\* A byte more is a line end more, or not.
LEMMA NewlinesMore ==
  ASSUME NEW text \in Seq(Bytes), NEW b \in Bytes, Newlines(text) \in Nat
  PROVE  Newlines(Append(text, b)) = Newlines(text) + (IF b = "nl" THEN 1 ELSE 0)
<1> DEFINE n == Len(text)
           more == Append(text, b)
           before == {i \in DOMAIN text : text[i] = "nl"}
           after == {i \in DOMAIN more : more[i] = "nl"}
<1>1. /\ n \in Nat /\ DOMAIN text = 1 .. n /\ DOMAIN more = 1 .. n + 1 /\ more[n + 1] = b
      /\ \A i \in 1 .. n : more[i] = text[i]
  OBVIOUS
<1>2. IsFiniteSet(before)
  <2>1. IsFiniteSet(1 .. n) /\ before \subseteq 1 .. n
    BY <1>1, FS_Interval
  <2> QED
    BY <2>1, FS_Subset
<1>3. CASE b = "nl"
  <2>1. after = before \union {n + 1} /\ n + 1 \notin before
    <3>1. \A i : i \in 1 .. n + 1 <=> i \in 1 .. n \/ i = n + 1
      BY <1>1
    <3>2. n + 1 \notin 1 .. n
      BY <1>1
    <3> HIDE DEF more, n
    <3> QED
      BY <1>1, <1>3, <3>1, <3>2
  <2> HIDE DEF before, after
  <2>2. Cardinality(after) = Cardinality(before) + 1
    BY <1>2, <2>1, FS_AddElement
  <2> QED
    BY <1>3, <2>2 DEF Newlines, before, after
<1>4. CASE b # "nl"
  <2>1. after = before
    <3>1. \A i : i \in 1 .. n + 1 <=> i \in 1 .. n \/ i = n + 1
      BY <1>1
    <3> HIDE DEF more, n
    <3> QED
      BY <1>1, <1>4, <3>1
  <2>2. Newlines(more) = Newlines(text)
    BY <2>1 DEF Newlines
  <2> HIDE DEF more
  <2>3. Newlines(more) = Newlines(text) + 0
    BY <2>2
  <2> QED
    BY <1>4, <2>3 DEF more
<1> QED
  BY <1>3, <1>4

\* Every text is split into its lines.
LEMMA Splits ==
  ASSUME NEW text \in Seq(Bytes)
  PROVE  Split(text)
<1> DEFINE T == {t \in Seq(Bytes) : Split(t)}
<1>1. <<>> \in T
  <2>1. <<(<<>>)>> \in Pages
    BY DEF Pages
  <2>2. ByteCount(<<(<<>>)>>) = 0
    <3>1. <<(<<>>)>> = Append(<<>>, <<>>) /\ <<>> \in Seq(Seq(Bytes)) /\ <<>> \in Seq(Bytes)
          /\ Len(<<>>) = 0
      OBVIOUS
    <3>2. ByteCount(Append(<<>>, <<>>)) = OneMore(<<>>, <<>>)
      BY <3>1, CountAtTheEnd
    <3>3. OneMore(<<>>, <<>>) = 0
      BY <3>1, NoLines DEF OneMore
    <3> QED
      BY <3>1, <3>2, <3>3
  <2>3. Newlines(<<>>) = 0
    <3>1. {i \in DOMAIN <<>> : <<>>[i] = "nl"} = {}
      OBVIOUS
    <3> QED
      BY <3>1, FS_EmptySet DEF Newlines
  <2>4. Len(<<(<<>>)>>) = 1 /\ Len(<<>>) = 0 /\ <<>> \in Seq(Bytes)
    OBVIOUS
  <2>5. Split(<<>>)
    <3>1. 0 + 1 = 1 /\ 0 \in Nat
      OBVIOUS
    <3> QED
      BY <2>1, <2>2, <2>3, <2>4, <3>1, SplitNothing DEF Split
  <2> QED
    BY <2>4, <2>5
<1>2. ASSUME NEW s \in Seq(Bytes), NEW b \in Bytes, s \in T PROVE Append(s, b) \in T
  <2> DEFINE t == Append(s, b)
             lines == SplitLines(s)
             next == SplitLines(t)
             m == Len(lines)
  <2>1. /\ t \in Seq(Bytes) /\ Len(t) = Len(s) + 1 /\ Len(s) \in Nat
        /\ Newlines(t) = Newlines(s) + (IF b = "nl" THEN 1 ELSE 0)
    BY <1>2, NewlinesMore DEF Split
  <2>2. /\ lines \in Pages /\ ByteCount(lines) = Len(s) /\ m = Newlines(s) + 1
        /\ Newlines(s) \in Nat
    BY <1>2 DEF Split
  <2>3. SplitOne(lines, b, next)
    BY <2>2, SplitMore, SplittingOne
  <2>4. lines \in Seq(Seq(Bytes)) /\ m \in Nat /\ m >= 1 /\ lines # <<>>
    BY <2>2 DEF Pages
  <2> HIDE DEF t, lines, next
  <2>5. CASE b = "nl"
    <3>1. /\ next \in Pages /\ Len(next) = m + 1 /\ next = Append(lines, <<>>)
      BY <2>3, <2>5 DEF SplitOne
    <3>2. ByteCount(next) = ByteCount(lines) + 1 + 0
      <4>1. <<>> \in Seq(Bytes) /\ Len(<<>>) = 0
        OBVIOUS
      <4> QED
        BY <2>4, <3>1, <4>1, CountAtTheEnd DEF OneMore
    <3>3. ByteCount(next) = Len(t) /\ Len(next) = Newlines(t) + 1 /\ Newlines(t) \in Nat
      BY <2>1, <2>2, <2>5, <3>1, <3>2
    <3>4. Split(t)
      BY <3>1, <3>3 DEF Split, next
    <3> QED
      BY <2>1, <3>4 DEF t
  <2>6. CASE b # "nl"
    <3> DEFINE front == Front(lines)
               last == Last(lines)
    <3>1. /\ next \in Pages /\ Len(next) = m /\ next = Append(front, Append(last, b))
      BY <2>3, <2>6 DEF SplitOne
    <3>2. /\ front \in Seq(Seq(Bytes)) /\ last \in Seq(Bytes) /\ lines = Append(front, last)
          /\ Append(last, b) \in Seq(Bytes) /\ Len(Append(last, b)) = Len(last) + 1
          /\ Len(last) \in Nat
      BY <2>4 DEF Front, Last
    <3> HIDE DEF front, last
    <3> DEFINE base == ByteCount(front) + (IF front = <<>> THEN 0 ELSE 1)
    <3>3. ByteCount(next) = base + Len(Append(last, b))
      BY <3>1, <3>2, CountAtTheEnd DEF OneMore
    <3>4. ByteCount(lines) = base + Len(last)
      BY <3>2, CountAtTheEnd DEF OneMore
    <3>5. base \in Nat
      <4>1. ByteCount(front) \in Nat
        BY <3>2, CountType
      <4> QED
        BY <4>1
    <3> HIDE DEF base
    <3>6. ByteCount(next) = ByteCount(lines) + 1
      BY <3>2, <3>3, <3>4, <3>5
    <3>7. ByteCount(next) = Len(t) /\ Len(next) = Newlines(t) + 1 /\ Newlines(t) \in Nat
      BY <2>1, <2>2, <2>6, <3>1, <3>6
    <3>8. Split(t)
      BY <3>1, <3>7 DEF Split, next
    <3> QED
      BY <2>1, <3>8 DEF t
  <2> QED
    BY <2>5, <2>6
<1>3. Seq(Bytes) \subseteq T
  <2> HIDE DEF T
  <2> QED
    BY <1>1, <1>2, SequenceInduction
<1> QED
  BY <1>3

\* The lines of a text that goes on: its last line grows, and lines follow.
Joined(before, part, whole) ==
  /\ Len(whole) = Len(before) + Len(part) - 1
  /\ whole[Len(before)] = before[Len(before)] \o part[1]
  /\ \A i \in 2 .. Len(part) : whole[Len(before) - 1 + i] = part[i]

\* The lines of two texts make the lines of both together.
LEMMA SplitJoined ==
  ASSUME NEW before \in Seq(Bytes), NEW text \in Seq(Bytes)
  PROVE  Joined(SplitLines(before), SplitLines(text), SplitLines(before \o text))
<1> DEFINE A == SplitLines(before)
           a == Len(A)
           T == {t \in Seq(Bytes) : Joined(A, SplitLines(t), SplitLines(before \o t))}
<1>1. A \in Seq(Seq(Bytes)) /\ a \in Nat /\ a >= 1 /\ A[a] \in Seq(Bytes)
  <2>1. A \in Seq(Seq(Bytes)) /\ a \in Nat /\ a >= 1
    BY Splits DEF Split, Pages
  <2> QED
    BY <2>1
<1>2. <<>> \in T
  <2>1. before \o <<>> = before /\ A[a] \o <<>> = A[a] /\ <<>> \in Seq(Bytes)
    BY <1>1, ConcatEmptySeq
  <2>2. Len(<<(<<>>)>>) = 1 /\ <<(<<>>)>>[1] = <<>>
    OBVIOUS
  <2>3. Joined(A, <<(<<>>)>>, A)
    BY <1>1, <2>1, <2>2 DEF Joined
  <2> QED
    BY <2>1, <2>3, SplitNothing
<1>3. ASSUME NEW s \in Seq(Bytes), NEW b \in Bytes, s \in T PROVE Append(s, b) \in T
  <2> DEFINE B == SplitLines(s)
             C == SplitLines(before \o s)
             D == SplitLines(Append(s, b))
             E == SplitLines(before \o Append(s, b))
             n == Len(B)
  <2>1. /\ before \o s \in Seq(Bytes) /\ Append(s, b) \in Seq(Bytes)
        /\ before \o Append(s, b) = Append(before \o s, b)
    <3>1. before \o s \in Seq(Bytes)
      OBVIOUS
    <3>2. <<b>> \in Seq(Bytes) /\ Append(s, b) = s \o <<b>>
      BY AppendIsConcat
    <3>3. Append(before \o s, b) = (before \o s) \o <<b>>
      BY <3>1, AppendIsConcat
    <3>4. (before \o s) \o <<b>> = before \o (s \o <<b>>)
      <4>1. Associates(before, s, <<b>>)
        BY <3>2, Associative
      <4> QED
        BY <4>1 DEF Associates
    <3>5. Append(s, b) \in Seq(Bytes)
      OBVIOUS
    <3> QED
      BY <3>1, <3>2, <3>3, <3>4, <3>5, Zenon
  <2>2. B \in Pages /\ C \in Pages
    BY <2>1, Splits DEF Split
  <2>3. SplitOne(B, b, D) /\ SplitOne(C, b, E)
    BY <2>1, <2>2, SplitMore, SplittingOne
  <2>4. Joined(A, B, C)
    BY <1>3
  <2>5. n \in Nat /\ n >= 1 /\ Len(C) = a + n - 1 /\ B[1] \in Seq(Bytes)
        /\ C[a] = A[a] \o B[1] /\ \A i \in 2 .. n : C[a - 1 + i] = B[i]
    <3>1. n \in Nat /\ n >= 1 /\ B \in Seq(Seq(Bytes))
      BY <2>2 DEF Pages
    <3>2. B[1] \in Seq(Bytes)
      BY <3>1
    <3> QED
      BY <2>4, <3>1, <3>2 DEF Joined
  <2>7. n \in Nat /\ n >= 1 /\ Len(C) = a + n - 1
    BY <2>5
  <2>6. Joined(A, D, E)
    <3> HIDE DEF A, B, C, D, E
    <3>1. CASE b = "nl"
      <4>1. /\ Len(D) = n + 1 /\ D[n + 1] = <<>> /\ \A i \in 1 .. n : D[i] = B[i]
            /\ Len(E) = Len(C) + 1 /\ E[Len(C) + 1] = <<>>
            /\ \A i \in 1 .. Len(C) : E[i] = C[i]
        BY <2>3, <3>1 DEF SplitOne
      <4>2. Len(E) = a + Len(D) - 1 /\ a \in 1 .. Len(C) /\ 1 \in 1 .. n
        BY <1>1, <2>5, <4>1
      <4>3. E[a] = A[a] \o D[1]
        BY <2>5, <4>1, <4>2
      <4>4. ASSUME NEW i \in 2 .. n + 1 PROVE E[a - 1 + i] = D[i]
        <5>1. CASE i = n + 1
          <6>1. a - 1 + i = Len(C) + 1
            BY <1>1, <2>5, <5>1
          <6> QED
            BY <4>1, <5>1, <6>1
        <5>2. CASE i # n + 1
          <6>1. i \in 2 .. n /\ i \in 1 .. n /\ a - 1 + i \in 1 .. Len(C)
            BY <1>1, <2>5, <5>2
          <6> QED
            BY <2>5, <4>1, <6>1
        <5> QED
          BY <5>1, <5>2
      <4> QED
        BY <4>1, <4>2, <4>3, <4>4 DEF Joined
    <3>2. CASE b # "nl"
      <4>1. /\ Len(D) = n /\ D[n] = Append(B[n], b) /\ \A i \in 1 .. n - 1 : D[i] = B[i]
            /\ Len(E) = Len(C) /\ E[Len(C)] = Append(C[Len(C)], b)
            /\ \A i \in 1 .. Len(C) - 1 : E[i] = C[i]
        BY <2>3, <3>2 DEF SplitOne
      <4>2. Len(E) = a + Len(D) - 1
        BY <2>5, <4>1
      <4>3. E[a] = A[a] \o D[1]
        <5>1. CASE n = 1
          <6>1. Len(C) = a
            BY <1>1, <2>5, <5>1
          <6>2. E[a] = Append(A[a] \o B[1], b) /\ D[1] = Append(B[1], b)
            BY <2>5, <4>1, <5>1, <6>1
          <6>3. /\ Append(B[1], b) = B[1] \o <<b>> /\ <<b>> \in Seq(Bytes)
            BY <2>5, AppendIsConcat
          <6>4. Append(A[a] \o B[1], b) = (A[a] \o B[1]) \o <<b>>
            <7>1. A[a] \o B[1] \in Seq(Bytes)
              BY <1>1, <2>5
            <7> QED
              BY <7>1, AppendIsConcat
          <6>5. (A[a] \o B[1]) \o <<b>> = A[a] \o (B[1] \o <<b>>)
            <7>1. A[a] \in Seq(Bytes) /\ B[1] \in Seq(Bytes) /\ <<b>> \in Seq(Bytes)
              BY <1>1, <2>5, <6>3
            <7>2. Associates(A[a], B[1], <<b>>)
              BY <7>1, Associative
            <7> QED
              BY <7>2 DEF Associates
          <6> QED
            BY <6>2, <6>3, <6>4, <6>5, Zenon
        <5>2. CASE n # 1
          <6>1. a \in 1 .. Len(C) - 1 /\ 1 \in 1 .. n - 1
            <7> HIDE DEF n, a
            <7>1. a \in Nat /\ a >= 1
              BY <1>1 DEF a
            <7> QED
              BY <2>7, <5>2, <7>1
          <6> QED
            BY <2>5, <4>1, <6>1
        <5> QED
          BY <5>1, <5>2
      <4>4. ASSUME NEW i \in 2 .. n PROVE E[a - 1 + i] = D[i]
        <5>1. CASE i = n
          <6>1. a - 1 + i = Len(C)
            BY <1>1, <2>5, <5>1
          <6>2. C[Len(C)] = B[n]
            BY <2>5, <5>1, <6>1
          <6> QED
            BY <4>1, <5>1, <6>1, <6>2
        <5>2. CASE i # n
          <6>1. i \in 2 .. n /\ i \in 1 .. n - 1 /\ a - 1 + i \in 1 .. Len(C) - 1
            BY <1>1, <2>5, <5>2
          <6> QED
            BY <2>5, <4>1, <6>1
        <5> QED
          BY <5>1, <5>2
      <4> QED
        BY <4>1, <4>2, <4>3, <4>4 DEF Joined
    <3> QED
      BY <3>1, <3>2
  <2> QED
    BY <2>1, <2>6
<1>4. Seq(Bytes) \subseteq T
  <2> HIDE DEF T
  <2> QED
    BY <1>2, <1>3, SequenceInduction
<1> QED
  BY <1>4

-----------------------------------------------------------------------------
\* The last k lines, and what the last lines count, for every number of them.
End(lines, k) == SubSeq(lines, Len(lines) - k + 1, Len(lines))
Back(lines) == BytesOfFirst(Reverse(lines))

\* The last lines of a text.
LEMMA EndIs ==
  ASSUME NEW S, NEW s \in Seq(S), NEW k \in 0 .. Len(s)
  PROVE  /\ End(s, k) \in Seq(S) /\ Len(End(s, k)) = k
         /\ \A i \in 1 .. k : End(s, k)[i] = s[Len(s) - k + i]
<1> DEFINE n == Len(s)
           e == SubSeq(s, n - k + 1, n)
<1>1. n \in Nat /\ k \in Nat /\ k <= n /\ \A i \in n - k + 1 .. n : s[i] \in S
  <2>1. n \in Nat /\ k \in Nat /\ k <= n /\ \A i \in 1 .. n : s[i] \in S
    OBVIOUS
  <2> HIDE DEF n
  <2> QED
    BY <2>1
<1> HIDE DEF n
<1>2. /\ n - k + 1 \in Int /\ n \in Int
      /\ (IF n - k + 1 <= n THEN n - (n - k + 1) + 1 ELSE 0) = k
      /\ \A i \in 1 .. k : i \in 1 .. n - (n - k + 1) + 1 /\ (n - k + 1) + i - 1 = n - k + i
  BY <1>1
<1>3. /\ e \in Seq(S) /\ Len(e) = IF n - k + 1 <= n THEN n - (n - k + 1) + 1 ELSE 0
      /\ \A i \in 1 .. n - (n - k + 1) + 1 : e[i] = s[(n - k + 1) + i - 1]
  BY <1>1, <1>2, SubSeqProperties
<1> HIDE DEF e
<1>4. e \in Seq(S) /\ Len(e) = k
  BY <1>2, <1>3
<1>5. ASSUME NEW i \in 1 .. k PROVE e[i] = s[n - k + i]
  <2>1. i \in 1 .. n - (n - k + 1) + 1 /\ (n - k + 1) + i - 1 = n - k + i
    BY <1>2
  <2>2. e[i] = s[(n - k + 1) + i - 1]
    BY <1>3, <2>1
  <2> QED
    BY <2>1, <2>2
<1> QED
  BY <1>4, <1>5 DEF End, e, n

\* The same in a form that the provers apply at sight.
HasEnd(S, s, k) ==
  /\ End(s, k) \in Seq(S) /\ Len(End(s, k)) = k
  /\ \A i \in 1 .. k : End(s, k)[i] = s[Len(s) - k + i]

LEMMA EndOf ==
  ASSUME NEW S, NEW s \in Seq(S), NEW k \in 0 .. Len(s)
  PROVE  HasEnd(S, s, k)
BY EndIs DEF HasEnd

\* A text with these lines at the indices of the last ones of another is the end of it.
LEMMA IsTheEnd ==
  ASSUME NEW S, NEW s \in Seq(S), NEW e \in Seq(S), Len(e) <= Len(s),
         \A i \in 1 .. Len(e) : e[i] = s[Len(s) - Len(e) + i]
  PROVE  e = End(s, Len(e))
<1> DEFINE f == End(s, Len(e))
<1>1. Len(e) \in 0 .. Len(s)
  OBVIOUS
<1>2. f \in Seq(S) /\ Len(f) = Len(e) /\ \A i \in 1 .. Len(e) : f[i] = s[Len(s) - Len(e) + i]
  BY <1>1, EndIs
<1> HIDE DEF f
<1>3. \A i \in 1 .. Len(e) : e[i] = f[i]
  BY <1>2
<1>4. e = f
  BY <1>2, <1>3, SeqEqual
<1> QED
  BY <1>4 DEF f

\* The end of a text is the beginning of its reverse.
LEMMA EndReversed ==
  ASSUME NEW S, NEW s \in Seq(S), NEW k \in 0 .. Len(s)
  PROVE  Reverse(End(s, k)) = SubSeq(Reverse(s), 1, k) /\ Reverse(SubSeq(Reverse(s), 1, k)) = End(s, k)
<1> DEFINE e == End(s, k)
           r == Reverse(s)
           b == SubSeq(r, 1, k)
           n == Len(s)
<1>1. e \in Seq(S) /\ Len(e) = k /\ \A i \in 1 .. k : e[i] = s[n - k + i]
  BY EndIs
<1>2. r \in Seq(S) /\ Len(r) = n /\ \A i \in 1 .. n : r[i] = s[n - i + 1]
  BY Reversed
<1>3. n \in Nat /\ k \in Nat /\ k <= n
  OBVIOUS
<1> HIDE DEF e, r, n
<1>4. b \in Seq(S) /\ Len(b) = k /\ \A i \in 1 .. k : b[i] = r[i]
  BY <1>2, <1>3
<1> HIDE DEF b
<1>5. /\ Reverse(e) \in Seq(S) /\ Len(Reverse(e)) = k
      /\ \A i \in 1 .. k : Reverse(e)[i] = e[k - i + 1]
  BY <1>1, Reversed
<1>6. \A i \in 1 .. k : Reverse(e)[i] = b[i]
  <2> SUFFICES ASSUME NEW i \in 1 .. k
               PROVE  Reverse(e)[i] = b[i]
    OBVIOUS
  <2>1. /\ k - i + 1 \in 1 .. k /\ n - k + (k - i + 1) = n - i + 1 /\ i \in 1 .. n
    BY <1>3
  <2>2. Reverse(e)[i] = e[k - i + 1]
    BY <1>5
  <2>3. e[k - i + 1] = s[n - k + (k - i + 1)]
    BY <1>1, <2>1
  <2>4. b[i] = s[n - i + 1]
    BY <1>2, <1>4, <2>1
  <2> QED
    BY <2>1, <2>2, <2>3, <2>4
<1>7. Reverse(e) = b
  BY <1>4, <1>5, <1>6, SeqEqual
<1>8. Reverse(b) = e
  BY <1>1, <1>7, Reversed
<1> QED
  BY <1>7, <1>8 DEF e, b, r

\* What the last lines count, line by line.
LEMMA BackCounts ==
  ASSUME NEW S, NEW lines \in Seq(Seq(S))
  PROVE  /\ Back(lines) \in [0 .. Len(lines) -> Nat]
         /\ Back(lines)[0] = 0
         /\ \A k \in 1 .. Len(lines) :
              Back(lines)[k] = Back(lines)[k - 1] + (IF k = 1 THEN 0 ELSE 1)
                                 + Len(lines[Len(lines) - k + 1])
         /\ \A k \in 0 .. Len(lines) : ByteCount(End(lines, k)) = Back(lines)[k]
         /\ Back(lines)[Len(lines)] = ByteCount(lines)
         /\ \A j \in 0 .. Len(lines) : \A k \in 0 .. j : Back(lines)[k] <= Back(lines)[j]
<1> DEFINE r == Reverse(lines)
           n == Len(lines)
<1>1. r \in Seq(Seq(S)) /\ Len(r) = n /\ \A i \in 1 .. n : r[i] = lines[n - i + 1]
  BY Reversed
<1>2. ByteCount(r) = ByteCount(lines)
  BY CountReversed
<1>3. ASSUME NEW k \in 0 .. n PROVE ByteCount(End(lines, k)) = Back(lines)[k]
  <2>1. End(lines, k) \in Seq(Seq(S)) /\ Reverse(End(lines, k)) = SubSeq(r, 1, k)
    BY EndIs, EndReversed
  <2>2. ByteCount(Reverse(End(lines, k))) = ByteCount(End(lines, k))
    BY <2>1, CountReversed
  <2> HIDE DEF r
  <2>3. k \in 0 .. Len(r)
    BY <1>1
  <2>4. ByteCount(SubSeq(r, 1, k)) = BytesOfFirst(r)[k]
    BY <1>1, <2>3, BytesOfSome
  <2> QED
    BY <2>1, <2>2, <2>4 DEF Back, r
<1> HIDE DEF r
<1>4. /\ BytesOfFirst(r) \in [0 .. Len(r) -> Nat]
      /\ BytesOfFirst(r)[0] = 0
      /\ \A k \in 1 .. Len(r) :
           BytesOfFirst(r)[k] = BytesOfFirst(r)[k - 1] + (IF k = 1 THEN 0 ELSE 1) + Len(r[k])
  BY <1>1, ByteCounts
<1>5. Back(lines) = BytesOfFirst(r)
  BY DEF Back, r
<1>6. Back(lines)[n] = ByteCount(lines)
  BY <1>1, <1>2, <1>5 DEF ByteCount
<1>7. ASSUME NEW j \in 0 .. n, NEW k \in 0 .. j PROVE Back(lines)[k] <= Back(lines)[j]
  BY <1>1, <1>5, CountsGrow
<1> QED
  BY <1>1, <1>3, <1>4, <1>5, <1>6, <1>7

\* The last k lines are what truncation at the tail keeps, and it says why not more.
CutTail(lines, maxLines, t, k) ==
  /\ k \in 0 .. Len(lines)
  /\ t.lines = End(lines, k)
  /\ k <= maxLines
  /\ Back(lines)[k] <= MaxBytes
  /\ t.by \in {"none", "lines", "bytes"}
  /\ t.by = "none" <=> k = Len(lines)
  /\ t.by = "lines" => k = maxLines
  /\ t.by = "bytes" => Back(lines)[k + 1] > MaxBytes

\* A text that is truncated at its tail is cut before some number of its lines.
LEMMA TailTruncation ==
  ASSUME NEW S, NEW lines \in Seq(Seq(S)), Len(lines) >= 1, NEW maxLines \in Nat
  PROVE  \E k \in 0 .. Len(lines) :
           CutTail(lines, maxLines, TruncateText(lines, "tail", maxLines), k)
<1> DEFINE t == TruncateText(lines, "tail", maxLines)
           R == Reverse(lines)
           count == Back(lines)
           N == Len(lines)
<1> SUFFICES \E k \in 0 .. N : CutTail(lines, maxLines, t, k)
  OBVIOUS
<1>1. /\ N \in Nat /\ N \in 0 .. N /\ 0 \in 0 .. N /\ MaxBytes \in Nat /\ N # 0 /\ N >= 1
      /\ lines # <<>>
  <2>1. lines # <<>>
    BY EmptySeq
  <2> QED
    BY <2>1, LimitAssumption
<1>2. /\ \A n \in 0 .. N : count[n] \in Nat
      /\ count[0] = 0
      /\ count[1] = Len(R[1])
      /\ count[N] = ByteCount(lines)
  <2>1. /\ count \in [0 .. N -> Nat] /\ count[0] = 0 /\ count[N] = ByteCount(lines)
    BY BackCounts
  <2>2. R \in Seq(Seq(S)) /\ Len(R) = N
    BY Reversed
  <2> HIDE DEF R
  <2>3. /\ BytesOfFirst(R)[0] = 0
        /\ \A n \in 1 .. Len(R) :
             BytesOfFirst(R)[n] = BytesOfFirst(R)[n - 1] + (IF n = 1 THEN 0 ELSE 1) + Len(R[n])
    BY <2>2, ByteCounts
  <2>4. 1 \in 1 .. Len(R) /\ 1 - 1 = 0
    BY <1>1, <2>2
  <2>5. R[1] \in Seq(S)
    BY <2>2, <2>4
  <2>6. Len(R[1]) \in Nat
    BY <2>5
  <2>7. BytesOfFirst(R)[1] = Len(R[1])
    BY <2>3, <2>4, <2>6
  <2>8. count = BytesOfFirst(R)
    BY DEF Back, R
  <2> QED
    BY <2>1, <2>7, <2>8
<1>3. End(lines, N) = lines /\ End(lines, 0) = <<>>
  <2>1. End(lines, 0) \in Seq(Seq(S)) /\ Len(End(lines, 0)) = 0
    BY <1>1, EndIs
  <2>2. End(lines, 0) = <<>>
    BY <2>1, EmptySeq
  <2>3. N - N + 1 = 1
    BY <1>1
  <2>4. End(lines, N) = SubSeq(lines, 1, N)
    BY <2>3 DEF End
  <2> QED
    BY <2>2, <2>4, SubSeqFull
<1>4. /\ FitsLimits(lines, maxLines) <=> N <= maxLines /\ count[N] <= MaxBytes
      /\ EdgeLineExceedsLimit(lines, "tail") <=> Len(R[1]) > MaxBytes
  BY <1>2 DEF FitsLimits, EdgeLineExceedsLimit, FromEdge
<1>5. CASE FitsLimits(lines, maxLines)
  <2>1. t = [lines |-> lines, by |-> "none", edge |-> FALSE]
    BY <1>5 DEF TruncateText
  <2> HIDE DEF t, count
  <2>2. t.lines = lines /\ t.by = "none"
    BY <2>1
  <2>3. CutTail(lines, maxLines, t, N)
    BY <1>1, <1>3, <1>4, <1>5, <2>2 DEF CutTail, count
  <2> QED
    BY <1>1, <2>3
<1>6. CASE ~FitsLimits(lines, maxLines) /\ EdgeLineExceedsLimit(lines, "tail")
  <2>1. t = [lines |-> <<>>, by |-> "bytes", edge |-> TRUE]
    BY <1>6 DEF TruncateText
  <2> HIDE DEF t, count
  <2>2. t.lines = <<>> /\ t.by = "bytes"
    BY <2>1
  <2>3. 0 + 1 = 1 /\ 0 <= maxLines /\ 0 <= MaxBytes /\ 0 # N
    BY <1>1
  <2>4. count[0 + 1] > MaxBytes
    BY <1>2, <1>4, <1>6, <2>3
  <2>5. CutTail(lines, maxLines, t, 0)
    BY <1>1, <1>2, <1>3, <2>2, <2>3, <2>4 DEF CutTail, count
  <2> QED
    BY <1>1, <2>5
<1>7. CASE ~FitsLimits(lines, maxLines) /\ ~EdgeLineExceedsLimit(lines, "tail")
  <2> DEFINE r == Selections(R, maxLines)[N]
  <2>1. t = [lines |-> Reverse(r.kept), by |-> r.by, edge |-> FALSE]
    BY <1>7 DEF TruncateText, SelectOutputLines, FromEdge
  <2>2. R \in Seq(Seq(S)) /\ Len(R) = N
    BY Reversed
  <2>3. PICK k \in 0 .. N : Selected(R, maxLines, r, k, N)
    <3>1. \E k \in 0 .. Len(R) : Selected(R, maxLines, Selections(R, maxLines)[Len(R)], k, Len(R))
      <4> HIDE DEF R
      <4> QED
        BY <2>2, SelectingAll
    <3> QED
      BY <2>2, <3>1
  <2>4. BytesOfFirst(R) = count
    BY DEF Back
  <2>5. Reverse(SubSeq(R, 1, k)) = End(lines, k)
    BY EndReversed
  <2> HIDE DEF t, r, R, count
  <2>6. t.lines = Reverse(r.kept) /\ t.by = r.by
    BY <2>1
  <2>7. k <= maxLines /\ count[k] <= MaxBytes /\ k \in Nat
    BY <1>1, <2>3, <2>4 DEF Selected
  <2>8. r.stopped
    BY <1>4, <1>7, <2>3, <2>7 DEF Selected
  <2>9. /\ k # N /\ t.by \in {"lines", "bytes"}
        /\ t.by = "lines" => k = maxLines
        /\ t.by = "bytes" => count[k + 1] > MaxBytes
        /\ t.lines = End(lines, k)
    BY <1>1, <2>3, <2>4, <2>5, <2>6, <2>7, <2>8 DEF Selected
  <2>10. CutTail(lines, maxLines, t, k)
    BY <2>7, <2>9 DEF CutTail, count
  <2> QED
    BY <2>10
<1> QED
  BY <1>5, <1>6, <1>7

-----------------------------------------------------------------------------
\* The last k lines fit, and no more.
Best(all, maxLines, k) ==
  /\ k <= maxLines /\ Back(all)[k] <= MaxBytes
  /\ \A j \in 0 .. Len(all) : j <= maxLines /\ Back(all)[j] <= MaxBytes => j <= k

\* The lines of the buffer are the last ones of the output, as many as any limit
\* asks for; or a piece of the last one that is too long by itself.
Covered(all, lines) ==
  \/ \E m \in 1 .. Len(all) :
       /\ lines = End(all, m)
       /\ m = Len(all) \/ Back(all)[m + 1] > MaxBytes
  \/ Len(lines) = 1 /\ Back(lines)[1] > MaxBytes /\ Back(all)[1] > MaxBytes

\* What truncation makes of the lines of the buffer.
ShowsEnd(all, lines, maxLines, t, k) ==
  /\ k \in 0 .. Len(all)
  /\ Best(all, maxLines, k)
  /\ t.lines = End(all, k)
  /\ t.by \in {"none", "lines", "bytes"}
  /\ t.by # "none" => k # Len(all)

\* Truncating the lines of the buffer is as good as truncating all lines.
LEMMA TruncatingTheBuffer ==
  ASSUME NEW S, NEW all \in Seq(Seq(S)), Len(all) >= 1,
         NEW lines \in Seq(Seq(S)), Len(lines) >= 1,
         Covered(all, lines), NEW maxLines \in Nat
  PROVE  \E k \in 0 .. Len(all) :
           ShowsEnd(all, lines, maxLines, TruncateText(lines, "tail", maxLines), k)
<1> DEFINE t == TruncateText(lines, "tail", maxLines)
           count == Back(all)
           some == Back(lines)
           N == Len(all)
<1> SUFFICES \E k \in 0 .. N : ShowsEnd(all, lines, maxLines, t, k)
  OBVIOUS
<1>1. PICK k \in 0 .. Len(lines) : CutTail(lines, maxLines, t, k)
  BY TailTruncation
<1>2. /\ \A n \in 0 .. N : count[n] \in Nat
      /\ \A j \in 0 .. N : \A i \in 0 .. j : count[i] <= count[j]
      /\ count[0] = 0
      /\ \A n \in 0 .. N : ByteCount(End(all, n)) = count[n]
  BY BackCounts
<1>3. /\ \A n \in 0 .. Len(lines) : some[n] \in Nat
      /\ \A n \in 0 .. Len(lines) : ByteCount(End(lines, n)) = some[n]
      /\ some[0] = 0
  BY BackCounts
<1>4. N \in Nat /\ N >= 1 /\ Len(lines) \in Nat /\ MaxBytes \in Nat /\ k \in Nat
  BY LimitAssumption
<1> HIDE DEF t, count, some
<1>5. CASE \E m \in 1 .. N : lines = End(all, m) /\ (m = N \/ count[m + 1] > MaxBytes)
  <2>1. PICK m \in 1 .. N : lines = End(all, m) /\ (m = N \/ count[m + 1] > MaxBytes)
    BY <1>5
  <2>2. m \in 0 .. N /\ m \in Nat /\ m <= N
    BY <1>4
  <2>3. Len(lines) = m /\ \A i \in 1 .. m : lines[i] = all[N - m + i]
    BY <2>1, <2>2, EndIs
  <2>4. ASSUME NEW n \in 0 .. m PROVE End(lines, n) = End(all, n) /\ some[n] = count[n]
    <3> DEFINE e == End(lines, n)
    <3>1. n \in 0 .. Len(lines) /\ n \in 0 .. N
      BY <1>4, <2>2, <2>3
    <3>2. e \in Seq(Seq(S)) /\ Len(e) = n /\ \A i \in 1 .. n : e[i] = lines[m - n + i]
      <4>1. HasEnd(Seq(S), lines, n)
        BY <3>1, EndOf
      <4> QED
        BY <2>3, <4>1 DEF HasEnd
    <3> HIDE DEF e
    <3>3. \A i \in 1 .. n : e[i] = all[N - n + i]
      <4> SUFFICES ASSUME NEW i \in 1 .. n
                   PROVE  e[i] = all[N - n + i]
        OBVIOUS
      <4>1. m - n + i \in 1 .. m /\ N - m + (m - n + i) = N - n + i
        BY <1>4, <2>2
      <4> QED
        BY <2>3, <3>2, <4>1
    <3>4. Len(e) <= Len(all)
      BY <3>1, <3>2
    <3>5. e = End(all, n)
      BY <3>2, <3>3, <3>4, IsTheEnd
    <3> QED
      BY <1>2, <1>3, <3>1, <3>5 DEF e
  <2>5. /\ k \in 0 .. m /\ k \in 0 .. N /\ t.lines = End(all, k) /\ k <= maxLines
        /\ count[k] <= MaxBytes /\ t.by \in {"none", "lines", "bytes"}
        /\ (t.by = "none") <=> (k = m)
        /\ t.by = "lines" => k = maxLines
    <3>1. k \in 0 .. m
      BY <2>3
    <3>2. k \in 0 .. N
      BY <2>2, <3>1
    <3>3. some[k] = count[k] /\ End(lines, k) = End(all, k)
      BY <2>4, <3>1
    <3> QED
      BY <1>1, <2>3, <3>1, <3>2, <3>3 DEF CutTail, some
  <2>6. t.by = "bytes" => k + 1 \in 0 .. m /\ count[k + 1] > MaxBytes
    <3> SUFFICES ASSUME t.by = "bytes"
                 PROVE  k + 1 \in 0 .. m /\ count[k + 1] > MaxBytes
      OBVIOUS
    <3>1. k # m
      BY <2>5
    <3>2. k + 1 \in 0 .. m
      BY <1>4, <2>2, <2>5, <3>1
    <3>3. some[k + 1] > MaxBytes
      BY <1>1 DEF CutTail, some
    <3> QED
      BY <2>4, <3>2, <3>3
  <2>7. ASSUME NEW j \in 0 .. N, j <= maxLines, count[j] <= MaxBytes PROVE j <= k
    <3> SUFFICES ASSUME ~(j <= k)
                 PROVE  FALSE
      OBVIOUS
    <3>1. j \in Nat /\ k + 1 \in 0 .. j
      BY <1>4
    <3>2. CASE t.by = "lines"
      BY <1>4, <2>5, <2>7, <3>1, <3>2
    <3>3. CASE t.by = "bytes"
      <4>1. count[k + 1] <= count[j] /\ count[k + 1] > MaxBytes
        BY <1>2, <2>6, <3>1, <3>3
      <4>2. count[k + 1] \in Nat /\ count[j] \in Nat
        <5>1. k + 1 \in 0 .. N
          BY <1>4, <3>1
        <5> QED
          BY <1>2, <5>1
      <4> QED
        BY <1>4, <2>7, <4>1, <4>2
    <3>4. CASE t.by = "none"
      <4>1. k = m /\ m # N
        BY <1>4, <2>5, <3>1, <3>4
      <4>2. count[k + 1] > MaxBytes /\ count[k + 1] <= count[j]
        BY <1>2, <2>1, <3>1, <4>1
      <4>3. count[k + 1] \in Nat /\ count[j] \in Nat
        <5>1. k + 1 \in 0 .. N
          BY <1>4, <3>1
        <5> QED
          BY <1>2, <5>1
      <4> QED
        BY <1>4, <2>7, <4>2, <4>3
    <3> QED
      BY <2>5, <3>2, <3>3, <3>4
  <2>8. t.by # "none" => k # N
    <3> SUFFICES ASSUME t.by # "none", k = N
                 PROVE  FALSE
      OBVIOUS
    <3>1. k = m
      BY <1>4, <2>2, <2>5
    <3> QED
      BY <2>5, <3>1
  <2>9. Best(all, maxLines, k)
    BY <2>5, <2>7 DEF Best, count
  <2>10. ShowsEnd(all, lines, maxLines, t, k)
    BY <2>5, <2>8, <2>9 DEF ShowsEnd
  <2> QED
    BY <2>5, <2>10
<1>6. CASE Len(lines) = 1 /\ some[1] > MaxBytes /\ count[1] > MaxBytes
  <2>1. k = 0
    <3>1. some[k] <= MaxBytes
      BY <1>1 DEF CutTail, some
    <3>2. some[1] \in Nat /\ (k = 0 \/ k = 1)
      <4>1. 1 \in 0 .. Len(lines) /\ (k = 0 \/ k = 1)
        BY <1>4, <1>6
      <4> QED
        BY <1>3, <4>1
    <3> QED
      BY <1>4, <1>6, <3>1, <3>2
  <2>2. /\ t.lines = End(lines, 0) /\ 0 <= maxLines /\ t.by \in {"none", "lines", "bytes"}
        /\ 0 \in 0 .. N /\ 0 # N
    BY <1>1, <1>4, <2>1 DEF CutTail
  <2>3. End(lines, 0) = End(all, 0)
    <3>1. 0 \in 0 .. Len(lines) /\ 0 \in 0 .. Len(all)
      BY <1>4
    <3>2. End(lines, 0) \in Seq(Seq(S)) /\ Len(End(lines, 0)) = 0
          /\ End(all, 0) \in Seq(Seq(S)) /\ Len(End(all, 0)) = 0
      BY <3>1, EndIs
    <3> QED
      BY <3>2, EmptySeq
  <2>4. ASSUME NEW j \in 0 .. N, count[j] <= MaxBytes PROVE j <= 0
    <3> SUFFICES ASSUME ~(j <= 0)
                 PROVE  FALSE
      OBVIOUS
    <3>1. 1 \in 0 .. j /\ 1 \in 0 .. N
      BY <1>4
    <3>2. count[1] <= count[j] /\ count[1] \in Nat /\ count[j] \in Nat
      BY <1>2, <3>1
    <3> QED
      BY <1>4, <1>6, <2>4, <3>2
  <2>5. Best(all, maxLines, 0)
    BY <1>2, <1>4, <2>2, <2>4 DEF Best, count
  <2>6. ShowsEnd(all, lines, maxLines, t, 0)
    BY <2>2, <2>3, <2>5 DEF ShowsEnd
  <2> QED
    BY <2>2, <2>6
<1> QED
  BY <1>5, <1>6 DEF Covered, count, some

-----------------------------------------------------------------------------
\* No character is wider than three bytes.
NoLongRun(s) ==
  \A i \in 1 .. Len(s) - 2 : ~(s[i] = "cont" /\ s[i + 1] = "cont" /\ s[i + 2] = "cont")

\* Texts: sequences of whole characters, as far as it matters here.
Chars == {s \in Seq(Bytes) : (s # <<>> => s[1] # "cont") /\ NoLongRun(s)}

\* What a decoder may keep.
Pendings == {<<>>, <<"lead">>}
Decoders == [text : Chars, pending : Pendings]

\* Texts make texts.
LEMMA CharsJoin ==
  ASSUME NEW s \in Chars, NEW t \in Chars
  PROVE  s \o t \in Chars
<1> DEFINE m == Len(s)
           n == Len(t)
           u == s \o t
<1>1. /\ s \in Seq(Bytes) /\ t \in Seq(Bytes) /\ m \in Nat /\ n \in Nat
      /\ NoLongRun(s) /\ NoLongRun(t)
      /\ s # <<>> => s[1] # "cont"
      /\ t # <<>> => t[1] # "cont"
  BY DEF Chars
<1>2. /\ u \in Seq(Bytes) /\ Len(u) = m + n
      /\ \A i \in 1 .. m + n : u[i] = IF i <= m THEN s[i] ELSE t[i - m]
  BY <1>1, ConcatProperties
<1>3. (s # <<>> <=> m # 0) /\ (t # <<>> <=> n # 0) /\ (u # <<>> <=> m + n # 0)
  BY <1>1, <1>2, EmptySeq
<1> HIDE DEF u, m, n
<1>4. n # 0 => u[m + 1] # "cont"
  <2> SUFFICES ASSUME n # 0
               PROVE  u[m + 1] # "cont"
    OBVIOUS
  <2>1. m + 1 \in 1 .. m + n /\ ~(m + 1 <= m) /\ (m + 1) - m = 1
    BY <1>1
  <2>2. u[m + 1] = t[1]
    BY <1>2, <2>1
  <2> QED
    BY <1>1, <1>3, <2>2
<1>5. u # <<>> => u[1] # "cont"
  <2> SUFFICES ASSUME m + n # 0
               PROVE  u[1] # "cont"
    BY <1>3
  <2>1. CASE m = 0
    <3>1. n # 0 /\ m + 1 = 1
      BY <1>1, <2>1
    <3> QED
      BY <1>4, <3>1
  <2>2. CASE m # 0
    <3>1. 1 \in 1 .. m + n /\ 1 <= m
      BY <1>1, <2>2
    <3>2. u[1] = s[1]
      BY <1>2, <3>1
    <3> QED
      BY <1>1, <1>3, <2>2, <3>2
  <2> QED
    BY <2>1, <2>2
<1>7. ASSUME NEW i \in 1 .. m + n - 2,
             u[i] = "cont", u[i + 1] = "cont", u[i + 2] = "cont"
      PROVE  FALSE
  <2>1. /\ i \in Nat /\ i >= 1 /\ i + 2 <= m + n
        /\ i \in 1 .. m + n /\ i + 1 \in 1 .. m + n /\ i + 2 \in 1 .. m + n
    BY <1>1
  <2>2. CASE i + 2 <= m
    <3>1. i <= m /\ i + 1 <= m /\ i \in 1 .. m - 2
      BY <1>1, <2>1, <2>2
    <3>2. s[i] = "cont" /\ s[i + 1] = "cont" /\ s[i + 2] = "cont"
      BY <1>2, <1>7, <2>1, <2>2, <3>1
    <3> QED
      BY <1>1, <3>1, <3>2 DEF NoLongRun, m
  <2>3. CASE i > m
    <3>1. /\ ~(i <= m) /\ ~(i + 1 <= m) /\ ~(i + 2 <= m) /\ i - m \in 1 .. n - 2
          /\ (i + 1) - m = (i - m) + 1 /\ (i + 2) - m = (i - m) + 2
      BY <1>1, <2>1, <2>3
    <3>2. t[i - m] = "cont" /\ t[(i - m) + 1] = "cont" /\ t[(i - m) + 2] = "cont"
      BY <1>2, <1>7, <2>1, <3>1
    <3> QED
      BY <1>1, <3>1, <3>2 DEF NoLongRun, n
  <2>4. CASE i <= m /\ i + 2 > m
    <3>1. (m + 1 = i + 1 \/ m + 1 = i + 2) /\ n # 0
      BY <1>1, <2>1, <2>4
    <3>2. u[m + 1] = "cont"
      BY <1>7, <3>1
    <3> QED
      BY <1>4, <3>1, <3>2
  <2>5. i + 2 <= m \/ i > m \/ (i <= m /\ i + 2 > m)
    BY <1>1, <2>1
  <2> QED
    BY <2>2, <2>3, <2>4, <2>5
<1>6. NoLongRun(u)
  <2>1. Len(u) = m + n
    BY <1>2, Zenon
  <2>2. ASSUME NEW i \in 1 .. Len(u) - 2, u[i] = "cont", u[i + 1] = "cont", u[i + 2] = "cont"
        PROVE  FALSE
    <3>1. i \in 1 .. m + n - 2
      BY <1>1, <2>1
    <3> QED
      BY <1>7, <2>2, <3>1
  <2> QED
    BY <2>2 DEF NoLongRun
<1> QED
  BY <1>2, <1>5, <1>6 DEF Chars, u

\* The characters that the decoder appends.
LEMMA Characters ==
  /\ <<>> \in Chars /\ Replacement \in Chars /\ <<"lead">> \o <<"cont">> \in Chars
  /\ \A b \in {"nl", "a"} : <<b>> \in Chars
<1>1. <<>> \in Chars
  <2>1. <<>> \in Seq(Bytes) /\ Len(<<>>) = 0 /\ 1 .. 0 - 2 = {}
    OBVIOUS
  <2> QED
    BY <2>1 DEF Chars, NoLongRun
<1>2. Replacement \in Chars
  <2> DEFINE r == <<"lead", "cont", "cont">>
  <2>1. r \in Seq(Bytes) /\ Len(r) = 3 /\ r[1] = "lead"
    BY DEF Bytes
  <2> HIDE DEF r
  <2>2. NoLongRun(r)
    <3>1. 1 .. 3 - 2 = {1} /\ "lead" # "cont"
      OBVIOUS
    <3> QED
      BY <2>1, <3>1 DEF NoLongRun
  <2>3. r \in Chars
    <3>1. "lead" # "cont"
      OBVIOUS
    <3> QED
      BY <2>1, <2>2, <3>1 DEF Chars
  <2> QED
    BY <2>3 DEF Replacement, r
<1>3. <<"lead">> \o <<"cont">> \in Chars
  <2> DEFINE r == <<"lead">> \o <<"cont">>
  <2>1. r \in Seq(Bytes) /\ Len(r) = 2 /\ r[1] = "lead"
    BY DEF Bytes
  <2> HIDE DEF r
  <2>2. NoLongRun(r)
    <3>1. 1 .. 2 - 2 = {}
      OBVIOUS
    <3> QED
      BY <2>1, <3>1 DEF NoLongRun
  <2>3. r \in Chars
    <3>1. "lead" # "cont"
      OBVIOUS
    <3> QED
      BY <2>1, <2>2, <3>1 DEF Chars
  <2> QED
    BY <2>3 DEF r
<1>4. ASSUME NEW b \in {"nl", "a"} PROVE <<b>> \in Chars
  <2> DEFINE r == <<b>>
  <2>1. r \in Seq(Bytes) /\ Len(r) = 1 /\ r[1] = b /\ b # "cont"
    BY DEF Bytes
  <2> HIDE DEF r
  <2>2. NoLongRun(r)
    <3>1. 1 .. 1 - 2 = {}
      OBVIOUS
    <3> QED
      BY <2>1, <3>1 DEF NoLongRun
  <2>3. r \in Chars
    BY <2>1, <2>2 DEF Chars
  <2> QED
    BY <2>3 DEF r
<1> QED
  BY <1>1, <1>2, <1>3, <1>4

\* The decoder makes texts, byte by byte.
LEMMA DecodingOne ==
  ASSUME NEW d \in Decoders, NEW b \in Bytes
  PROVE  DecodeByte(d, b) \in Decoders
<1> DEFINE broken == IF d.pending = <<>> THEN <<>> ELSE Replacement
           next == DecodeByte(d, b)
<1>1. d.text \in Chars /\ d.pending \in Pendings /\ broken \in Chars
  <2>1. d.text \in Chars /\ d.pending \in Pendings
    BY DEF Decoders
  <2> QED
    BY <2>1, Characters
<1>2. d.pending = <<>> \/ d.pending = <<"lead">>
  BY <1>1 DEF Pendings
<1>3. <<>> \in Pendings /\ <<"lead">> \in Pendings /\ <<"lead">> # <<>>
  BY DEF Pendings
<1>4. CASE b = "cont" /\ d.pending # <<>>
  <2>1. next = [text |-> d.text \o d.pending \o <<b>>, pending |-> <<>>]
    BY <1>4 DEF DecodeByte
  <2> DEFINE piece == <<"lead">> \o <<"cont">>
  <2>2. d.text \o d.pending \o <<b>> = d.text \o piece
    <3>1. d.text \in Seq(Bytes) /\ <<"lead">> \in Seq(Bytes) /\ <<"cont">> \in Seq(Bytes)
      BY <1>1 DEF Chars, Bytes
    <3>2. (d.text \o <<"lead">>) \o <<"cont">> = d.text \o piece
      <4>1. Associates(d.text, <<"lead">>, <<"cont">>)
        BY <3>1, Associative
      <4>2. <<"lead">> \o <<"cont">> = piece
        OBVIOUS
      <4> QED
        BY <4>1, <4>2, Zenon DEF Associates
    <3> QED
      BY <1>2, <1>4, <3>2
  <2>3. piece \in Chars
    BY Characters
  <2> HIDE DEF piece
  <2>4. d.text \o piece \in Chars
    BY <1>1, <2>3, CharsJoin
  <2> HIDE DEF next
  <2>5. next \in Decoders
    BY <1>3, <2>1, <2>2, <2>4 DEF Decoders
  <2> QED
    BY <2>5 DEF next
<1>5. CASE b = "cont" /\ d.pending = <<>>
  <2>1. next = [text |-> d.text \o Replacement, pending |-> <<>>]
    BY <1>5 DEF DecodeByte
  <2>2. d.text \o Replacement \in Chars
    BY <1>1, Characters, CharsJoin
  <2> HIDE DEF next
  <2>3. next \in Decoders
    BY <1>3, <2>1, <2>2 DEF Decoders
  <2> QED
    BY <2>3 DEF next
<1>6. CASE b = "lead"
  <2>1. next = [text |-> d.text \o broken, pending |-> <<b>>]
    BY <1>6 DEF DecodeByte
  <2> HIDE DEF broken
  <2>2. d.text \o broken \in Chars
    BY <1>1, CharsJoin
  <2> HIDE DEF next
  <2>3. next \in Decoders
    BY <1>3, <1>6, <2>1, <2>2 DEF Decoders
  <2> QED
    BY <2>3 DEF next
<1>7. CASE b \in {"nl", "a"}
  <2>1. next = [text |-> d.text \o broken \o <<b>>, pending |-> <<>>]
    BY <1>7 DEF DecodeByte
  <2> HIDE DEF broken
  <2>2. d.text \o broken \in Chars
    BY <1>1, CharsJoin
  <2>3. <<b>> \in Chars
    BY <1>7, Characters
  <2>4. d.text \o broken \o <<b>> \in Chars
    BY <2>2, <2>3, CharsJoin
  <2> HIDE DEF next
  <2>5. next \in Decoders
    BY <1>3, <2>1, <2>4 DEF Decoders
  <2> QED
    BY <2>5 DEF next
<1> QED
  BY <1>4, <1>5, <1>6, <1>7 DEF Bytes

\* The decoder makes a text of a chunk.
LEMMA DecodingAll ==
  ASSUME NEW chunk \in Seq(Bytes), pending \in Pendings
  PROVE  Decode(chunk) \in Decoders
<1> DEFINE N == Len(chunk)
           base == [text |-> <<>>, pending |-> pending]
           Step(r, n) == DecodeByte(r, chunk[n])
           step == [p \in Decoders \X (1 .. N) |-> Step(p[1], p[2])]
           Right(f) == f = [n \in 0 .. N |-> IF n = 0 THEN base ELSE Step(f[n - 1], n)]
           dec == Decodings(chunk)
<1>1. /\ N \in Nat /\ 0 \in 0 .. N /\ N \in 0 .. N
      /\ \A n \in 1 .. N : chunk[n] \in Bytes /\ n - 1 \in 0 .. N /\ n \in 0 .. N
  OBVIOUS
<1>2. base \in Decoders
  BY Characters DEF Decoders
<1> HIDE DEF N
<1>3. ASSUME NEW r \in Decoders, NEW n \in 1 .. N PROVE Step(r, n) \in Decoders
  BY <1>1, DecodingOne
<1>4. dec = CHOOSE f : Right(f)
  BY DEF Decodings, N
<1> HIDE DEF Step, dec, base
<1>5. step \in [Decoders \X (1 .. N) -> Decoders]
  BY <1>3
<1>6. PICK f \in [0 .. N -> Decoders] : Recurses(f, base, step, N)
  <2> HIDE DEF step
  <2> QED
    BY <1>1, <1>2, <1>5, Recursion
<1>7. Right(f)
  <2>1. ASSUME NEW n \in 0 .. N
        PROVE  f[n] = IF n = 0 THEN base ELSE Step(f[n - 1], n)
    <3>1. CASE n = 0
      BY <1>6, <3>1 DEF Recurses
    <3>2. CASE n # 0
      <4>1. n \in 1 .. N /\ f[n - 1] \in Decoders
        BY <1>1, <1>6, <3>2
      <4> QED
        BY <1>6, <3>2, <4>1 DEF Recurses
    <3> QED
      BY <3>1, <3>2
  <2> QED
    BY <1>6, <2>1
<1>8. Right(dec)
  <2> HIDE DEF Right
  <2> QED
    BY <1>4, <1>7
<1>9. dec[0] = base /\ \A n \in 1 .. N : dec[n] = Step(dec[n - 1], n)
  BY <1>1, <1>8
<1>10. AllIn(dec, Decoders, N)
  <2>1. \A n \in 1 .. N : dec[n - 1] \in Decoders => dec[n] \in Decoders
    BY <1>3, <1>9
  <2> HIDE DEF Right
  <2> QED
    BY <1>1, <1>2, <1>9, <2>1, AlongTheFunction
<1> QED
  BY <1>1, <1>10 DEF AllIn, Decode, dec, N

\* The buffer is cut no more than two bytes behind its limit.
Trimmed(content, most, start) ==
  /\ start \in 0 .. Len(content)
  /\ Len(content) - start <= most
  /\ Len(content) <= most => start = 0
  /\ Len(content) > most => Len(content) - start >= most - 2

\* What trimming drops.
LEMMA Trimming ==
  ASSUME NEW content \in Seq(Bytes), NoLongRun(content), NEW most \in Nat, most >= 2
  PROVE  Trimmed(content, most, TrimStart(content, most))
<1> DEFINE n == Len(content)
           first == n - most
           T == {start \in first .. n : start = n \/ content[start + 1] # "cont"}
           Right(start) == /\ start = n \/ content[start + 1] # "cont"
                           /\ \A i \in first .. start - 1 : content[i + 1] = "cont"
<1>1. n \in Nat
  OBVIOUS
<1>2. CASE n <= most
  <2>1. TrimStart(content, most) = 0
    BY <1>2 DEF TrimStart
  <2> QED
    BY <1>1, <1>2, <2>1 DEF Trimmed
<1>3. CASE n > most
  <2>1. first \in Nat /\ first >= 1 /\ n \in first .. n
    BY <1>1, <1>3
  <2>2. TrimStart(content, most) = CHOOSE start \in first .. n : Right(start)
    BY <1>1, <1>3 DEF TrimStart
  <2>3. \E start \in first .. n : Right(start)
    <3>1. T \subseteq Nat /\ n \in T
      BY <1>1, <2>1
    <3>2. PICK start \in T : \A other \in T : start <= other
      <4> HIDE DEF T
      <4> QED
        BY <3>1, LeastNat
    <3>3. ASSUME NEW i \in first .. start - 1 PROVE content[i + 1] = "cont"
      <4>1. i \in first .. n /\ i # n /\ ~(start <= i)
        BY <1>1, <2>1, <3>2
      <4>2. i \notin T
        BY <3>2, <4>1
      <4> QED
        BY <4>1, <4>2
    <3> QED
      BY <3>2, <3>3
  <2> DEFINE s == TrimStart(content, most)
  <2>4. s \in first .. n /\ Right(s)
    <3> HIDE DEF Right
    <3> QED
      BY <2>2, <2>3
  <2> HIDE DEF s
  <2>5. s <= first + 2
    <3> SUFFICES ASSUME ~(s <= first + 2)
                 PROVE  FALSE
      OBVIOUS
    <3>1. /\ first \in first .. s - 1 /\ first + 1 \in first .. s - 1
          /\ first + 2 \in first .. s - 1
      BY <1>1, <2>1, <2>4
    <3>2. /\ content[first + 1] = "cont" /\ content[(first + 1) + 1] = "cont"
          /\ content[(first + 2) + 1] = "cont"
      BY <2>4, <3>1
    <3>3. /\ first + 1 \in 1 .. n - 2 /\ (first + 1) + 2 = (first + 2) + 1
      BY <1>1, <1>3, <2>1, <2>4
    <3> HIDE DEF first
    <3> QED
      BY <3>2, <3>3 DEF NoLongRun, n
  <2>6. /\ s \in 0 .. n /\ n - s <= most /\ n - s >= most - 2
    BY <1>1, <1>3, <2>1, <2>4, <2>5
  <2> QED
    BY <1>3, <2>6 DEF Trimmed, s
<1> QED
  BY <1>1, <1>2, <1>3

\* The accumulator: the buffer is the end of the output, it is long enough unless it
\* is the whole output, and the totals and the line boundary are those of the
\* output.
AccInv ==
  /\ stream \in Chars
  /\ pending \in Pendings
  /\ Len(tail) \in 0 .. Len(stream)
  /\ tail = End(stream, Len(tail))
  /\ Len(tail) <= MaxRollingBytes
  /\ Len(tail) # Len(stream) => Len(tail) > MaxBytes
  /\ atBoundary \in BOOLEAN
  /\ atBoundary <=> \/ Len(tail) = Len(stream)
                    \/ stream[Len(stream) - Len(tail)] = "nl"
  /\ totalBytes = Len(stream)
  /\ totalLines = IF stream = <<>> THEN 0 ELSE Len(SplitLines(stream))

\* Nothing was printed yet.
LEMMA AccInvInit == AccInit => AccInv
<1> SUFFICES ASSUME AccInit PROVE AccInv
  OBVIOUS
<1>1. /\ stream = <<>> /\ tail = <<>> /\ pending = <<>> /\ atBoundary = TRUE
      /\ totalBytes = 0 /\ totalLines = 0
  BY DEF AccInit
<1>2. Len(<<>>) = 0 /\ <<>> \in Seq(Bytes)
  OBVIOUS
<1>3. End(<<>>, 0) = <<>>
  <2>1. End(<<>>, 0) \in Seq(Bytes) /\ Len(End(<<>>, 0)) = 0
    <3>1. 0 \in 0 .. Len(<<>>)
      BY <1>2
    <3> QED
      BY <1>2, <3>1, EndIs
  <2> QED
    BY <2>1, EmptySeq
<1>4. <<>> \in Chars /\ <<>> \in Pendings /\ 0 <= MaxRollingBytes
  BY Characters, LimitAssumption DEF Pendings, MaxRollingBytes
<1> QED
  BY <1>1, <1>2, <1>3, <1>4 DEF AccInv

\* A text behind the last k elements is the end of what it is appended to.
Grown(S, s, k, e, t) ==
  /\ e \o t \in Seq(S) /\ Len(e \o t) = k + Len(t)
  /\ e \o t = End(s \o t, k + Len(t))
  /\ \A i \in 1 .. k + Len(t) : (e \o t)[i] = (s \o t)[Len(s) - k + i]

\* The buffer and a text are the end of the output and the text.
LEMMA EndGrows ==
  ASSUME NEW S, NEW s \in Seq(S), NEW k \in 0 .. Len(s), NEW e, e = End(s, k), NEW t \in Seq(S)
  PROVE  Grown(S, s, k, e, t)
<1> DEFINE n == Len(s)
           l == Len(t)
           c == e \o t
           u == s \o t
<1>1. e \in Seq(S) /\ Len(e) = k /\ \A i \in 1 .. k : e[i] = s[n - k + i]
  BY EndIs
<1>2. n \in Nat /\ l \in Nat /\ k \in Nat /\ k <= n
  OBVIOUS
<1>3. /\ c \in Seq(S) /\ Len(c) = k + l
      /\ \A i \in 1 .. k + l : c[i] = IF i <= k THEN e[i] ELSE t[i - k]
  <2>1. /\ c \in Seq(S) /\ Len(c) = Len(e) + Len(t)
        /\ \A i \in 1 .. Len(e) + Len(t) : c[i] = IF i <= Len(e) THEN e[i] ELSE t[i - Len(e)]
    BY <1>1, ConcatProperties
  <2> HIDE DEF c
  <2> QED
    BY <1>1, <2>1
<1>4. /\ u \in Seq(S) /\ Len(u) = n + l
      /\ \A i \in 1 .. n + l : u[i] = IF i <= n THEN s[i] ELSE t[i - n]
  BY ConcatProperties
<1> HIDE DEF n, l, c, u
<1>5. ASSUME NEW i \in 1 .. k + l PROVE c[i] = u[n - k + i]
  <2>1. n - k + i \in 1 .. n + l
    BY <1>2
  <2>2. CASE i <= k
    <3>1. n - k + i <= n /\ i \in 1 .. k
      BY <1>2, <2>2
    <3> QED
      BY <1>1, <1>3, <1>4, <2>1, <2>2, <3>1
  <2>3. CASE ~(i <= k)
    <3>1. ~(n - k + i <= n) /\ (n - k + i) - n = i - k
      BY <1>2, <2>3
    <3>2. c[i] = t[i - k]
      BY <1>3, <2>3
    <3>3. u[n - k + i] = t[(n - k + i) - n]
      <4> DEFINE a == n - k + i
      <4>1. a \in 1 .. n + l /\ ~(a <= n)
        BY <2>1, <3>1
      <4> HIDE DEF a
      <4>2. u[a] = t[a - n]
        BY <1>4, <4>1
      <4> QED
        BY <4>2 DEF a
    <3> QED
      BY <3>1, <3>2, <3>3
  <2> QED
    BY <2>2, <2>3
<1>6. c = End(u, k + l)
  <2>1. Len(c) <= Len(u) /\ Len(u) - Len(c) = n - k
    BY <1>2, <1>3, <1>4
  <2>2. \A i \in 1 .. Len(c) : c[i] = u[Len(u) - Len(c) + i]
    BY <1>3, <1>5, <2>1
  <2>3. c = End(u, Len(c))
    BY <1>3, <1>4, <2>1, <2>2, IsTheEnd
  <2> QED
    BY <1>3, <2>3
<1> QED
  BY <1>3, <1>5, <1>6 DEF Grown, c, u, n, l

\* The end of an end.
LEMMA EndOfEnd ==
  ASSUME NEW S, NEW s \in Seq(S), NEW k \in 0 .. Len(s), NEW e, e = End(s, k), NEW m \in 0 .. k
  PROVE  End(e, m) = End(s, m)
<1>1. e \in Seq(S) /\ Len(e) = k /\ \A i \in 1 .. k : e[i] = s[Len(s) - k + i]
  BY EndIs
<1>2. Len(s) \in Nat /\ k \in Nat /\ m \in Nat /\ m <= k /\ k <= Len(s) /\ m \in 0 .. Len(e)
  BY <1>1
<1> DEFINE f == End(e, m)
<1>3. f \in Seq(S) /\ Len(f) = m /\ \A i \in 1 .. m : f[i] = e[k - m + i]
  <2>1. f \in Seq(S) /\ Len(f) = m /\ \A i \in 1 .. m : f[i] = e[Len(e) - m + i]
    BY <1>1, <1>2, EndIs
  <2> HIDE DEF f
  <2> QED
    BY <1>1, <2>1
<1> HIDE DEF f
<1>4. \A i \in 1 .. m : f[i] = s[Len(s) - m + i]
  <2> SUFFICES ASSUME NEW i \in 1 .. m
               PROVE  f[i] = s[Len(s) - m + i]
    OBVIOUS
  <2>1. k - m + i \in 1 .. k /\ Len(s) - k + (k - m + i) = Len(s) - m + i
    BY <1>2
  <2> QED
    BY <1>1, <1>3, <2>1
<1>5. Len(f) <= Len(s)
  BY <1>2, <1>3
<1>6. f = End(s, Len(f))
  BY <1>3, <1>4, <1>5, IsTheEnd
<1> QED
  BY <1>3, <1>6 DEF f

\* Text that is appended keeps all this.
LEMMA AppendKeeps ==
  ASSUME AccInv, NEW text \in Chars, AppendDecodedText(text), pending' \in Pendings
  PROVE  AccInv'
<1> DEFINE n == Len(stream)
           l == Len(text)
           k == Len(tail)
           c == tail \o text
           u == stream \o text
           start == TrimStart(c, MaxRollingBytes)
           j == k + l - start
           b == n - k
<1>1. /\ stream \in Chars /\ stream \in Seq(Bytes) /\ text \in Seq(Bytes)
      /\ k \in 0 .. n /\ tail = End(stream, k)
  BY DEF AccInv, Chars
<1>2. /\ k <= MaxRollingBytes
      /\ k # n => k > MaxBytes
      /\ atBoundary \in BOOLEAN
      /\ atBoundary <=> k = n \/ stream[b] = "nl"
      /\ totalBytes = n
      /\ totalLines = IF stream = <<>> THEN 0 ELSE Len(SplitLines(stream))
  BY DEF AccInv
<1>3. /\ tail' = SubSeq(c, start + 1, Len(c))
      /\ atBoundary' = IF text = <<>> THEN atBoundary ELSE StartsAtLineBoundary(c, start, atBoundary)
      /\ totalBytes' = totalBytes + l
      /\ totalLines' = IF text = <<>> THEN totalLines
                       ELSE (IF totalLines = 0 THEN 1 ELSE totalLines) + Newlines(text)
      /\ stream' = u
  BY DEF AppendDecodedText
<1>4. n \in Nat /\ l \in Nat /\ k \in Nat /\ k <= n /\ b \in Nat /\ (k = n <=> b = 0)
      /\ MaxBytes \in Nat /\ MaxBytes > 2 /\ MaxRollingBytes = 2 * MaxBytes
  <2>1. n \in Nat /\ l \in Nat /\ k \in Nat /\ k <= n
    BY <1>1
  <2>2. MaxBytes \in Nat /\ MaxBytes > 2 /\ MaxRollingBytes = 2 * MaxBytes
    BY LimitAssumption, OutputAssumption DEF MaxRollingBytes
  <2> HIDE DEF n, l, k
  <2> QED
    BY <2>1, <2>2
<1>5. u \in Chars /\ u \in Seq(Bytes) /\ NoLongRun(u)
  <2>1. u \in Chars
    BY <1>1, CharsJoin
  <2> QED
    BY <2>1 DEF Chars
<1>6. /\ c \in Seq(Bytes) /\ Len(c) = k + l /\ c = End(u, k + l)
      /\ \A i \in 1 .. k + l : c[i] = u[b + i]
  <2>1. Grown(Bytes, stream, k, tail, text)
    BY <1>1, EndGrows
  <2> QED
    BY <2>1 DEF Grown
<1>7. /\ Len(u) = n + l /\ \A i \in 1 .. n : u[i] = stream[i]
  BY <1>1
<1> HIDE DEF n, l, k, c, u, start, b
<1>8. NoLongRun(c)
  <2>1. Len(c) = k + l /\ Len(u) = n + l
    BY <1>6, <1>7, Zenon
  <2>2. ASSUME NEW i \in 1 .. Len(c) - 2, c[i] = "cont", c[i + 1] = "cont", c[i + 2] = "cont"
        PROVE  FALSE
    <3>1. /\ i \in 1 .. k + l /\ i + 1 \in 1 .. k + l /\ i + 2 \in 1 .. k + l
          /\ b + i \in 1 .. Len(u) - 2 /\ b + (i + 1) = (b + i) + 1 /\ b + (i + 2) = (b + i) + 2
      BY <1>4, <2>1 DEF b
    <3>2. u[b + i] = "cont" /\ u[(b + i) + 1] = "cont" /\ u[(b + i) + 2] = "cont"
      BY <1>6, <2>2, <3>1
    <3>3. \A a \in 1 .. Len(u) - 2 : ~(u[a] = "cont" /\ u[a + 1] = "cont" /\ u[a + 2] = "cont")
      BY <1>5 DEF NoLongRun
    <3> QED
      BY <3>1, <3>2, <3>3, Zenon
  <2> QED
    BY <2>2 DEF NoLongRun
<1>9. Trimmed(c, MaxRollingBytes, start)
  <2>1. MaxRollingBytes \in Nat /\ MaxRollingBytes >= 2
    BY <1>4
  <2> QED
    BY <1>6, <1>8, <2>1, Trimming DEF start
<1>10. /\ start \in 0 .. k + l
       /\ k + l - start <= MaxRollingBytes
       /\ k + l <= MaxRollingBytes => start = 0
       /\ k + l > MaxRollingBytes => k + l - start >= MaxRollingBytes - 2
  <2>1. Len(c) = k + l
    BY <1>6, Zenon
  <2> QED
    BY <1>4, <1>9, <2>1 DEF Trimmed
<1>11. j \in 0 .. k + l /\ j \in Nat /\ start \in Nat /\ k + l - j = start
  BY <1>4, <1>10
<1> HIDE DEF j
<1>12. tail' = End(u, j) /\ Len(tail') = j /\ tail' \in Seq(Bytes)
  <2>1. tail' = End(c, j)
    <3>1. Len(c) = k + l
      BY <1>6, Zenon
    <3>2. Len(c) - j + 1 = start + 1
      BY <1>4, <1>11, <3>1
    <3> QED
      BY <1>3, <3>2 DEF End
  <2>2. k + l \in 0 .. Len(u)
    BY <1>4, <1>7
  <2>3. End(c, j) = End(u, j)
    BY <1>5, <1>6, <1>11, <2>2, EndOfEnd
  <2>4. End(c, j) \in Seq(Bytes) /\ Len(End(c, j)) = j
    <3>1. j \in 0 .. Len(c)
      BY <1>6, <1>11
    <3> QED
      BY <1>6, <3>1, EndIs
  <2> QED
    BY <2>1, <2>3, <2>4
<1>13. Len(stream') = n + l
  BY <1>3, <1>7
<1>14. j \in 0 .. n + l /\ j <= MaxRollingBytes /\ (j # n + l => j > MaxBytes)
  <2>1. start = 0 \/ start # 0
    OBVIOUS
  <2>2. CASE start = 0
    BY <1>2, <1>4, <1>10, <1>11, <2>2
  <2>3. CASE start # 0
    BY <1>4, <1>10, <1>11, <2>3
  <2> QED
    BY <2>1, <2>2, <2>3
<1>15. /\ atBoundary' \in BOOLEAN
       /\ atBoundary' <=> j = n + l \/ u[n + l - j] = "nl"
  <2>1. CASE start = 0
    <3>1. n + l - j = b /\ (j = n + l <=> k = n)
      BY <1>4, <1>11, <2>1 DEF b
    <3>2. atBoundary' = atBoundary
      BY <1>3, <2>1 DEF StartsAtLineBoundary
    <3>3. k # n => u[b] = stream[b]
      <4>1. k # n => b \in 1 .. n
        BY <1>4 DEF b
      <4> QED
        BY <1>7, <4>1
    <3> QED
      BY <1>2, <3>1, <3>2, <3>3
  <2>2. CASE start # 0
    <3>1. text # <<>>
      <4> SUFFICES ASSUME text = <<>>
                   PROVE  FALSE
        OBVIOUS
      <4>1. l = 0
        <5>1. Len(<<>>) = 0
          OBVIOUS
        <5> QED
          BY <5>1 DEF l
      <4> QED
        BY <1>2, <1>4, <1>10, <2>2, <4>1
    <3>2. (atBoundary') = (c[start] = "nl")
      BY <1>3, <2>2, <3>1 DEF StartsAtLineBoundary
    <3>3. start \in 1 .. k + l /\ b + start = n + l - j /\ j # n + l
      BY <1>4, <1>10, <1>11, <2>2 DEF b
    <3>4. c[start] = u[n + l - j]
      BY <1>6, <3>3
    <3> QED
      BY <3>2, <3>3, <3>4
  <2> QED
    BY <2>1, <2>2
<1>16. totalBytes' = n + l
  BY <1>2, <1>3
<1>17. totalLines' = IF u = <<>> THEN 0 ELSE Len(SplitLines(u))
  <2>1. CASE text = <<>>
    <3>1. u = stream
      BY <1>1, <2>1, ConcatEmptySeq DEF u
    <3> QED
      BY <1>2, <1>3, <2>1, <3>1
  <2>2. CASE text # <<>>
    <3>1. u # <<>>
      BY <1>1, <2>2, ConcatEqualIffEmpty DEF u
    <3> DEFINE p == Len(SplitLines(stream))
               q == Len(SplitLines(text))
    <3>2. Len(SplitLines(u)) = p + q - 1
      BY <1>1, SplitJoined DEF Joined, u
    <3>3. q = Newlines(text) + 1 /\ Newlines(text) \in Nat
      BY <1>1, Splits DEF Split
    <3>4. p \in Nat /\ p >= 1
      BY <1>1, Splits DEF Split, Pages
    <3>5. stream = <<>> => p = 1
      <4>1. Len(<<(<<>>)>>) = 1
        OBVIOUS
      <4> QED
        BY <4>1, SplitNothing
    <3> HIDE DEF p, q
    <3>6. (IF totalLines = 0 THEN 1 ELSE totalLines) = p
      <4>1. totalLines = IF stream = <<>> THEN 0 ELSE p
        BY <1>2 DEF p
      <4> QED
        BY <3>4, <3>5, <4>1
    <3>7. totalLines' = p + Newlines(text)
      BY <1>3, <2>2, <3>6
    <3>8. totalLines' = p + q - 1
      BY <3>3, <3>4, <3>7
    <3> QED
      BY <3>1, <3>2, <3>8
  <2> QED
    BY <2>1, <2>2
<1>18. /\ stream' \in Chars
       /\ pending' \in Pendings
       /\ Len(tail') \in 0 .. Len(stream')
       /\ tail' = End(stream', Len(tail'))
       /\ Len(tail') <= MaxRollingBytes
       /\ Len(tail') # Len(stream') => Len(tail') > MaxBytes
  BY <1>3, <1>5, <1>12, <1>13, <1>14
<1>19. /\ atBoundary' \in BOOLEAN
       /\ atBoundary' <=> \/ Len(tail') = Len(stream')
                          \/ stream'[Len(stream') - Len(tail')] = "nl"
  <2>1. stream' = u /\ Len(tail') = j
    BY <1>3, <1>12, Zenon
  <2>2. stream'[Len(stream') - Len(tail')] = u[n + l - j]
    BY <1>4, <1>11, <1>13, <2>1
  <2>3. Len(tail') = Len(stream') <=> j = n + l
    BY <1>13, <2>1, Zenon
  <2> QED
    BY <1>15, <2>2, <2>3
<1>20. /\ totalBytes' = Len(stream')
       /\ totalLines' = IF stream' = <<>> THEN 0 ELSE Len(SplitLines(stream'))
  BY <1>3, <1>13, <1>16, <1>17
<1> QED
  BY <1>18, <1>19, <1>20 DEF AccInv, MaxRollingBytes

\* Every step of the accumulator keeps it.
LEMMA AccInvNext == AccInv /\ AccNext => AccInv'
<1> SUFFICES ASSUME AccInv, AccNext PROVE AccInv'
  OBVIOUS
<1>1. pending \in Pendings
  BY DEF AccInv
<1>2. CASE Accumulate
  <2>1. PICK chunk \in Chunks : /\ pending' = Decode(chunk).pending
                                /\ AppendDecodedText(Decode(chunk).text)
    BY <1>2 DEF Accumulate
  <2>2. chunk \in Seq(Bytes)
    <3>1. PICK n \in 1 .. ChunkSize : chunk \in [1 .. n -> Bytes]
      BY DEF Chunks
    <3>2. n \in Nat
      BY OutputAssumption
    <3> QED
      BY <3>1, <3>2
  <2>3. Decode(chunk) \in Decoders
    BY <1>1, <2>2, DecodingAll
  <2>4. Decode(chunk).text \in Chars /\ Decode(chunk).pending \in Pendings
    BY <2>3 DEF Decoders
  <2> QED
    BY <2>1, <2>4, AppendKeeps
<1>3. CASE Finish
  <2>1. pending' = <<>> /\ AppendDecodedText(FlushedText)
    BY <1>3 DEF Finish
  <2>2. FlushedText \in Chars /\ <<>> \in Pendings
    BY Characters DEF FlushedText, Pendings
  <2> QED
    BY <2>1, <2>2, AppendKeeps
<1> QED
  BY <1>2, <1>3 DEF AccNext

\* After a line end there is an empty line.
LEMMA AfterALineEnd ==
  ASSUME NEW s \in Seq(Bytes), Len(s) >= 1, s[Len(s)] = "nl"
  PROVE  SplitLines(s)[Len(SplitLines(s))] = <<>>
<1> DEFINE n == Len(s)
           p == SubSeq(s, 1, n - 1)
           lines == SplitLines(p)
<1>1. p \in Seq(Bytes) /\ Append(p, "nl") = s /\ "nl" \in Bytes
  BY DEF Bytes
<1> HIDE DEF p, n
<1>2. lines \in Pages /\ SplitLines(s) = SplitByte(lines, "nl")
  BY <1>1, Splits, SplitMore DEF Split
<1> HIDE DEF lines
<1>3. SplitOne(lines, "nl", SplitLines(s))
  BY <1>1, <1>2, SplittingOne
<1> QED
  BY <1>3 DEF SplitOne

\* The lines of the buffer will do, whatever the limits.
LEMMA BufferCovers ==
  ASSUME AccInv
  PROVE  /\ SnapshotLines \in Seq(Seq(Bytes)) /\ Len(SnapshotLines) >= 1
         /\ Covered(SplitLines(stream), SnapshotLines)
<1> DEFINE k == Len(tail)
           d == Len(stream) - k
           p == SubSeq(stream, 1, d)
           A == SplitLines(p)
           B == SplitLines(tail)
           C == SplitLines(stream)
           a == Len(A)
           n == Len(B)
           N == Len(C)
           lines == SnapshotLines
<1>1. stream \in Seq(Bytes) /\ k \in 0 .. Len(stream) /\ tail = End(stream, k)
  BY DEF AccInv, Chars
<1>2. /\ k # Len(stream) => k > MaxBytes
      /\ atBoundary \in BOOLEAN
      /\ atBoundary <=> k = Len(stream) \/ stream[d] = "nl"
  BY DEF AccInv
<1>3. /\ k \in Nat /\ Len(stream) \in Nat /\ d \in Nat /\ MaxBytes \in Nat
      /\ (k = Len(stream) <=> d = 0) /\ d + 1 = Len(stream) - k + 1 /\ d <= Len(stream)
  BY <1>1, LimitAssumption
<1>4. tail \in Seq(Bytes)
  BY <1>1, EndIs
<1>5. p \in Seq(Bytes) /\ Len(p) = d /\ p \o tail = stream
  <2>1. p \in Seq(Bytes) /\ Len(p) = d
    BY <1>1, <1>3
  <2>2. tail = SubSeq(stream, d + 1, Len(stream))
    BY <1>1, <1>3 DEF End
  <2>3. /\ 1 \in 1 .. Len(stream) + 1 /\ d \in 1 - 1 .. Len(stream)
        /\ Len(stream) \in d .. Len(stream)
    BY <1>3
  <2>4. SubSeq(stream, 1, d) \o SubSeq(stream, d + 1, Len(stream)) = SubSeq(stream, 1, Len(stream))
    BY <1>1, <2>3, ConcatAdjacentSubSeq
  <2>5. SubSeq(stream, 1, Len(stream)) = stream
    BY <1>1, SubSeqFull
  <2> QED
    BY <2>1, <2>2, <2>4, <2>5
<1>6. Joined(A, B, C)
  <2>1. Joined(SplitLines(p), SplitLines(tail), SplitLines(p \o tail))
    <3> HIDE DEF p
    <3> QED
      BY <1>4, <1>5, SplitJoined
  <2> QED
    BY <1>5, <2>1
<1>7. /\ A \in Seq(Seq(Bytes)) /\ a \in Nat /\ a >= 1
      /\ B \in Seq(Seq(Bytes)) /\ n \in Nat /\ n >= 1
      /\ C \in Seq(Seq(Bytes)) /\ N \in Nat /\ N >= 1
      /\ ByteCount(B) = k
  <2>1. A \in Pages
    <3> HIDE DEF p
    <3> QED
      BY <1>5, Splits DEF Split
  <2>2. B \in Pages /\ C \in Pages /\ ByteCount(B) = k
    BY <1>1, <1>4, Splits DEF Split
  <2> HIDE DEF A, B, C, k
  <2> QED
    BY <2>1, <2>2 DEF Pages
<1>8. p = <<>> => A = <<(<<>>)>>
  BY SplitNothing
<1>9. d # 0 /\ atBoundary => A[a] = <<>>
  <2> SUFFICES ASSUME d # 0, atBoundary
               PROVE  A[a] = <<>>
    OBVIOUS
  <2>1. stream[d] = "nl"
    BY <1>2, <1>3
  <2>2. p[Len(p)] = "nl" /\ Len(p) >= 1
    <3>1. p[d] = stream[d]
      BY <1>1, <1>3
    <3> QED
      BY <1>3, <1>5, <2>1, <3>1
  <2> HIDE DEF p
  <2> QED
    BY <1>5, <2>2, AfterALineEnd
<1>10. lines = IF atBoundary \/ n = 1 THEN B ELSE Tail(B)
  BY DEF SnapshotLines
<1> HIDE DEF k, d, p, A, B, C, a, n, N, lines
<1>11. /\ N = a + n - 1
       /\ C[a] = A[a] \o B[1]
       /\ \A i \in 2 .. n : C[a - 1 + i] = B[i]
  BY <1>6 DEF Joined, a, n, N
<1>12. B[1] \in Seq(Bytes) /\ A[a] \in Seq(Bytes) /\ C[a] \in Seq(Bytes)
  <2>1. 1 \in 1 .. Len(B) /\ a \in 1 .. Len(A) /\ a \in 1 .. Len(C)
    BY <1>7, <1>11 DEF a, n, N
  <2> QED
    BY <1>7, <2>1, ElementOfSeq
<1>13. A[a] = <<>> => B = End(C, n) /\ n \in 1 .. N
  <2> SUFFICES ASSUME A[a] = <<>>
               PROVE  B = End(C, n) /\ n \in 1 .. N
    OBVIOUS
  <2>1. n \in 1 .. N
    BY <1>7, <1>11
  <2>2. C[a] = B[1]
    BY <1>11, <1>12, ConcatEmptySeq
  <2>3. ASSUME NEW i \in 1 .. n PROVE B[i] = C[N - n + i]
    <3>1. CASE i = 1
      <4>1. N - n + i = a
        BY <1>7, <1>11, <3>1
      <4> QED
        BY <2>2, <3>1, <4>1
    <3>2. CASE i # 1
      <4>1. N - n + i = a - 1 + i /\ i \in 2 .. n
        BY <1>7, <1>11, <3>2
      <4> QED
        BY <1>11, <4>1
    <3> QED
      BY <3>1, <3>2
  <2>4. B = End(C, Len(B))
    <3>1. Len(B) <= Len(C) /\ \A i \in 1 .. Len(B) : B[i] = C[Len(C) - Len(B) + i]
      BY <2>1, <2>3 DEF n, N
    <3> QED
      BY <1>7, <3>1, IsTheEnd
  <2> QED
    BY <2>1, <2>4 DEF n
<1>14. /\ \A i \in 0 .. N : Back(C)[i] \in Nat
       /\ \A i \in 1 .. N : Back(C)[i] = Back(C)[i - 1] + (IF i = 1 THEN 0 ELSE 1) + Len(C[N - i + 1])
       /\ \A i \in 0 .. N : ByteCount(End(C, i)) = Back(C)[i]
       /\ \A j \in 0 .. N : \A i \in 0 .. j : Back(C)[i] <= Back(C)[j]
       /\ Back(C)[0] = 0
  BY <1>7, BackCounts DEF N
<1>15. /\ \A i \in 1 .. n : Back(B)[i] = Back(B)[i - 1] + (IF i = 1 THEN 0 ELSE 1) + Len(B[n - i + 1])
       /\ \A i \in 0 .. n : ByteCount(End(B, i)) = Back(B)[i] /\ Back(B)[i] \in Nat
       /\ Back(B)[n] = k
       /\ Back(B)[0] = 0
  BY <1>7, BackCounts DEF n
<1>16. CASE atBoundary
  <2>1. lines = B
    BY <1>10, <1>16
  <2>2. A[a] = <<>>
    <3>1. CASE d = 0
      <4>1. p = <<>>
        BY <1>5, <3>1, EmptySeq
      <4>2. Len(<<(<<>>)>>) = 1 /\ <<(<<>>)>>[1] = <<>>
        OBVIOUS
      <4>3. A = <<(<<>>)>>
        BY <1>8, <4>1
      <4> QED
        BY <4>2, <4>3 DEF a
    <3>2. CASE d # 0
      BY <1>9, <1>16, <3>2
    <3> QED
      BY <3>1, <3>2
  <2>3. B = End(C, n) /\ n \in 1 .. N
    BY <1>13, <2>2
  <2>4. n = N \/ Back(C)[n + 1] > MaxBytes
    <3>1. CASE d = 0
      <4>1. tail = stream
        <5>1. p = <<>>
          BY <1>5, <3>1, EmptySeq
        <5> QED
          BY <1>4, <1>5, <5>1, ConcatEmptySeq
      <4> QED
        BY <4>1 DEF n, N, B, C
    <3>2. CASE d # 0
      <4> SUFFICES ASSUME n # N
                   PROVE  Back(C)[n + 1] > MaxBytes
        OBVIOUS
      <4>1. n \in 0 .. N /\ n + 1 \in 0 .. N /\ n \in 0 .. n + 1
        BY <1>7, <2>3
      <4>2. Back(C)[n] = k
        BY <1>7, <1>14, <2>3, <4>1
      <4>3. k > MaxBytes
        BY <1>2, <1>3, <3>2
      <4>4. Back(C)[n] <= Back(C)[n + 1] /\ Back(C)[n + 1] \in Nat
        BY <1>14, <4>1
      <4> QED
        BY <1>3, <4>2, <4>3, <4>4
    <3> QED
      BY <3>1, <3>2
  <2> QED
    BY <1>7, <2>1, <2>3, <2>4 DEF Covered, lines, C, N, n
<1>17. ASSUME ~atBoundary PROVE k > MaxBytes
  BY <1>2, <1>17
<1>18. CASE ~atBoundary /\ n = 1
  <2>1. lines = B
    BY <1>10, <1>18
  <2>2. Back(B)[1] > MaxBytes
    BY <1>15, <1>17, <1>18
  <2>3. Back(C)[1] > MaxBytes
    <3>1. 1 \in 1 .. n /\ 1 - 1 = 0 /\ n - 1 + 1 = 1 /\ N - 1 + 1 = a /\ 1 \in 1 .. N
      BY <1>7, <1>11, <1>18
    <3>2. Len(B[1]) \in Nat /\ Len(A[a]) \in Nat /\ Len(C[a]) = Len(A[a]) + Len(B[1])
      BY <1>11, <1>12, ConcatProperties, LenProperties
    <3>3. Back(B)[1] = Len(B[1])
      <4>1. Back(B)[1] = Back(B)[1 - 1] + (IF 1 = 1 THEN 0 ELSE 1) + Len(B[n - 1 + 1])
        BY <1>15, <3>1
      <4> QED
        BY <1>15, <3>1, <3>2, <4>1
    <3>4. Back(C)[1] = Len(C[a])
      <4>1. Back(C)[1] = Back(C)[1 - 1] + (IF 1 = 1 THEN 0 ELSE 1) + Len(C[N - 1 + 1])
        BY <1>14, <3>1
      <4>2. C[N - 1 + 1] = C[a] /\ Back(C)[1 - 1] = 0
        BY <1>14, <3>1, Zenon
      <4>3. \A x \in Nat : 0 + (IF 1 = 1 THEN 0 ELSE 1) + x = x
        OBVIOUS
      <4>4. Len(C[a]) \in Nat
        BY <1>12, LenProperties
      <4>5. Back(C)[1] = 0 + (IF 1 = 1 THEN 0 ELSE 1) + Len(C[a])
        BY <4>1, <4>2, Zenon
      <4> QED
        BY <4>3, <4>4, <4>5, Zenon
    <3>5. Len(B[1]) > MaxBytes
      BY <2>2, <3>3
    <3>6. Len(C[a]) > MaxBytes
      <4> DEFINE y == Len(B[1])
                 z == Len(A[a])
      <4>1. y \in Nat /\ z \in Nat /\ y > MaxBytes /\ Len(C[a]) = z + y
        BY <3>2, <3>5
      <4> HIDE DEF y, z
      <4>2. z + y > MaxBytes
        BY <1>3, <4>1
      <4> QED
        BY <4>1, <4>2
    <3> QED
      BY <3>4, <3>6
  <2>4. n = 1
    BY <1>18
  <2> QED
    BY <1>7, <2>1, <2>2, <2>3, <2>4 DEF Covered, lines, C, N, n
<1>19. CASE ~atBoundary /\ n # 1
  <2> DEFINE m == n - 1
  <2>1. m \in 1 .. N /\ m \in 0 .. N /\ m \in 0 .. n /\ m + 1 = n /\ n \in 1 .. N /\ m \in Nat /\ m >= 1
        /\ n \in 0 .. N
    BY <1>7, <1>11, <1>19
  <2>2. Tail(B) = End(B, m)
    <3>1. B # <<>>
      <4>1. Len(<<>>) = 0 /\ Len(B) # 0
        BY <1>7 DEF n
      <4> QED
        BY <4>1, Zenon
    <3>2. Tail(B) = SubSeq(B, 2, n)
      BY <1>7, <3>1, TailIsSubSeq DEF n
    <3>3. n - m + 1 = 2
      BY <1>7
    <3> QED
      BY <3>2, <3>3 DEF End, n
  <2>3. lines = End(B, m)
    BY <1>10, <1>19, <2>2
  <2> HIDE DEF m
  <2>4. lines \in Seq(Seq(Bytes)) /\ Len(lines) = m /\ \A i \in 1 .. m : lines[i] = B[n - m + i]
    <3>1. m \in 0 .. Len(B)
      BY <2>1 DEF n
    <3>2. /\ End(B, m) \in Seq(Seq(Bytes)) /\ Len(End(B, m)) = m
          /\ \A i \in 1 .. m : End(B, m)[i] = B[Len(B) - m + i]
      BY <1>7, <3>1, EndIs
    <3> QED
      BY <2>3, <3>2 DEF n
  <2>5. lines = End(C, m)
    <3>1. ASSUME NEW i \in 1 .. m PROVE lines[i] = C[N - m + i]
      <4>1. n - m + i = i + 1 /\ N - m + i = a - 1 + (i + 1) /\ i + 1 \in 2 .. n
        BY <1>7, <1>11, <2>1
      <4> QED
        BY <1>11, <2>4, <4>1
    <3>2. Len(lines) <= Len(C) /\ \A i \in 1 .. Len(lines) : lines[i] = C[Len(C) - Len(lines) + i]
      <4>1. m <= N
        BY <2>1
      <4> QED
        BY <2>4, <3>1, <4>1 DEF N
    <3>3. lines = End(C, Len(lines))
      BY <1>7, <2>4, <3>2, IsTheEnd
    <3> QED
      BY <2>4, <3>3
  <2>6. Back(C)[m + 1] > MaxBytes
    <3>1. Back(C)[m] = Back(B)[m]
      <4>1. ByteCount(End(C, m)) = Back(C)[m]
        BY <1>14, <2>1
      <4>2. ByteCount(End(B, m)) = Back(B)[m]
        BY <1>15, <2>1
      <4> QED
        BY <2>3, <2>5, <4>1, <4>2
    <3>2. N - n + 1 = a /\ n - n + 1 = 1 /\ n - 1 = m /\ n \in 1 .. n
      BY <1>7, <1>11, <2>1
    <3>3. Back(C)[n] = Back(C)[m] + 1 + Len(C[a])
      <4>1. Back(C)[n] = Back(C)[n - 1] + (IF n = 1 THEN 0 ELSE 1) + Len(C[N - n + 1])
        BY <1>14, <2>1
      <4> QED
        BY <1>19, <3>2, <4>1
    <3>4. Back(B)[n] = Back(B)[m] + 1 + Len(B[1])
      <4>1. Back(B)[n] = Back(B)[n - 1] + (IF n = 1 THEN 0 ELSE 1) + Len(B[n - n + 1])
        BY <1>15, <3>2
      <4> QED
        BY <1>19, <3>2, <4>1
    <3>5. Len(B[1]) \in Nat /\ Len(A[a]) \in Nat /\ Len(C[a]) = Len(A[a]) + Len(B[1])
      BY <1>11, <1>12, ConcatProperties, LenProperties
    <3>6. Back(B)[m] \in Nat
      BY <1>15, <2>1
    <3>7. Back(B)[n] > MaxBytes
      BY <1>15, <1>17, <1>19
    <3> DEFINE x == Back(B)[m]
               y == Len(B[1])
               z == Len(A[a])
    <3>8. x \in Nat /\ y \in Nat /\ z \in Nat /\ x + 1 + y > MaxBytes
      BY <3>4, <3>5, <3>6, <3>7
    <3>9. Back(C)[n] = x + 1 + (z + y)
      BY <3>1, <3>3, <3>5
    <3> HIDE DEF x, y, z
    <3>10. Back(C)[n] > MaxBytes
      BY <1>3, <3>8, <3>9
    <3> QED
      BY <2>1, <3>10
  <2>7. Covered(C, lines)
    BY <2>1, <2>5, <2>6 DEF Covered, N
  <2> QED
    BY <2>1, <2>4, <2>7 DEF lines, C
<1> QED
  BY <1>16, <1>18, <1>19

\* What the snapshot reports, and shows.
LEMMA SnapshotShows ==
  ASSUME AccInv
  PROVE  SnapshotIsTailOfOutput /\ TruncationIsReported
<1> DEFINE all == SplitLines(stream)
           lines == SnapshotLines
           t == TruncateText(lines, "tail", MaxLines)
           N == Len(all)
<1>1. /\ all \in Seq(Seq(Bytes)) /\ N \in Nat /\ N >= 1 /\ ByteCount(all) = Len(stream)
      /\ stream \in Seq(Bytes)
  <2>1. stream \in Seq(Bytes)
    BY DEF AccInv, Chars
  <2>2. all \in Pages /\ ByteCount(all) = Len(stream)
    BY <2>1, Splits DEF Split
  <2> HIDE DEF all
  <2> QED
    BY <2>1, <2>2 DEF Pages
<1>2. lines \in Seq(Seq(Bytes)) /\ Len(lines) >= 1 /\ Covered(all, lines)
  BY BufferCovers
<1>3. MaxLines \in Nat /\ MaxLines >= 1 /\ MaxBytes \in Nat
  BY OutputAssumption, LimitAssumption
<1>4. /\ totalBytes = Len(stream)
      /\ totalLines = IF stream = <<>> THEN 0 ELSE N
  BY DEF AccInv
<1> HIDE DEF all, lines
<1>5. PICK k \in 0 .. N : ShowsEnd(all, lines, MaxLines, t, k)
  BY <1>1, <1>2, <1>3, TruncatingTheBuffer DEF N
<1>6. \E l, b, e : t = [lines |-> l, by |-> b, edge |-> e]
  BY DEF TruncateText
<1>7. Snapshot.lines = t.lines /\ Snapshot.by = TruncatedBy(t)
  <2>1. Snapshot = [t EXCEPT !.by = TruncatedBy(t)]
    BY DEF Snapshot, lines
  <2> DEFINE by == TruncatedBy(t)
  <2> HIDE DEF by, t
  <2>2. Snapshot = [t EXCEPT !.by = by]
    BY <2>1 DEF by, t
  <2>3. PICK l, b, e : t = [lines |-> l, by |-> b, edge |-> e]
    BY <1>6 DEF t
  <2>4. [t EXCEPT !.by = by] = [lines |-> l, by |-> by, edge |-> e]
    BY <2>3
  <2>5. Snapshot.lines = l /\ Snapshot.by = by /\ t.lines = l
    BY <2>2, <2>3, <2>4
  <2> QED
    BY <2>5 DEF by, t
<1> HIDE DEF t, N
<1>8. /\ k \in 0 .. N /\ k \in Nat /\ k <= MaxLines /\ Back(all)[k] <= MaxBytes
      /\ \A j \in 0 .. N : j <= MaxLines /\ Back(all)[j] <= MaxBytes => j <= k
      /\ t.lines = End(all, k)
      /\ t.by \in {"none", "lines", "bytes"}
      /\ t.by # "none" => k # N
  BY <1>5 DEF ShowsEnd, Best, N
<1>9. /\ \A j \in 0 .. N : ByteCount(End(all, j)) = Back(all)[j] /\ Len(End(all, j)) = j
      /\ Back(all)[N] = Len(stream)
      /\ End(all, N) = all
  <2>1. /\ \A j \in 0 .. N : ByteCount(End(all, j)) = Back(all)[j]
        /\ Back(all)[N] = Len(stream)
    BY <1>1, BackCounts DEF N
  <2>2. \A j \in 0 .. N : Len(End(all, j)) = j
    BY <1>1, EndIs DEF N
  <2>3. N - N + 1 = 1 /\ SubSeq(all, 1, N) = all
    BY <1>1, SubSeqFull DEF N
  <2>4. End(all, N) = all
    BY <2>3 DEF End, N
  <2> QED
    BY <2>1, <2>2, <2>4
<1>10. SnapshotIsTailOfOutput
  <2> DEFINE fits == {i \in 0 .. N : FitsLimits(End(all, i), MaxLines)}
             best == CHOOSE i \in fits : \A j \in fits : j <= i
  <2>1. fits = {i \in 0 .. N : i <= MaxLines /\ Back(all)[i] <= MaxBytes}
    BY <1>9 DEF FitsLimits
  <2>2. k \in fits /\ \A j \in fits : j <= k
    BY <1>8, <2>1
  <2>3. \A i \in fits : i \in Nat
    BY <1>1, <2>1
  <2> HIDE DEF fits
  <2>4. best \in fits /\ \A j \in fits : j <= best
    BY <2>2
  <2> HIDE DEF best
  <2>5. best = k
    <3>1. best <= k /\ k <= best /\ best \in Nat
      BY <2>2, <2>3, <2>4
    <3> QED
      BY <1>8, <3>1
  <2>6. Snapshot.lines = End(all, best)
    BY <1>7, <1>8, <2>5
  <2> QED
    BY <2>6 DEF SnapshotIsTailOfOutput, End, all, N, best, fits
<1>11. (Snapshot.by # "none") = (k # N)
  <2>1. CASE t.by # "none"
    <3>1. TruncatedBy(t) = t.by
      BY <2>1 DEF TruncatedBy
    <3> QED
      BY <1>7, <1>8, <2>1, <3>1
  <2>2. CASE t.by = "none"
    <3>1. TruncatedBy(t) = IF totalLines > MaxLines THEN "lines"
                           ELSE IF totalBytes > MaxBytes THEN "bytes" ELSE "none"
      BY <2>2 DEF TruncatedBy
    <3>2. totalLines \in Nat /\ totalBytes \in Nat
      BY <1>1, <1>4
    <3>3. CASE k = N
      <4>1. ~(totalLines > MaxLines) /\ ~(totalBytes > MaxBytes)
        BY <1>1, <1>3, <1>4, <1>8, <1>9, <3>3
      <4> QED
        BY <1>7, <3>1, <3>3, <4>1
    <3>4. CASE k # N
      <4>1. N \in 0 .. N /\ ~(N <= k)
        BY <1>1, <1>8, <3>4
      <4>2. ~(N <= MaxLines) \/ ~(Len(stream) <= MaxBytes)
        BY <1>8, <1>9, <4>1
      <4>3. stream # <<>>
        <5> SUFFICES ASSUME stream = <<>>
                     PROVE  FALSE
          OBVIOUS
        <5>1. N = 1 /\ Len(stream) = 0
          <6>1. Len(<<(<<>>)>>) = 1 /\ Len(<<>>) = 0
            OBVIOUS
          <6> QED
            BY <6>1, SplitNothing DEF N, all
        <5> QED
          BY <1>3, <4>2, <5>1
      <4>4. totalLines > MaxLines \/ totalBytes > MaxBytes
        BY <1>1, <1>3, <1>4, <4>2, <4>3
      <4> QED
        BY <1>7, <3>1, <3>4, <4>4
    <3> QED
      BY <3>3, <3>4
  <2> QED
    BY <2>1, <2>2
<1>12. (Snapshot.lines # all) = (k # N)
  <2>1. CASE k = N
    BY <1>7, <1>8, <1>9, <2>1
  <2>2. CASE k # N
    <3>1. Len(Snapshot.lines) = k /\ Len(all) = N
      BY <1>7, <1>8, <1>9 DEF N
    <3> QED
      BY <2>2, <3>1
  <2> QED
    BY <2>1, <2>2
<1>13. Snapshot.by # "none" => Snapshot.lines = SubSeq(all, totalLines - Len(Snapshot.lines) + 1, totalLines)
  <2> SUFFICES ASSUME Snapshot.by # "none"
               PROVE  Snapshot.lines = SubSeq(all, totalLines - Len(Snapshot.lines) + 1, totalLines)
    OBVIOUS
  <2>1. k # N /\ Snapshot.lines = End(all, k) /\ Len(Snapshot.lines) = k
    BY <1>7, <1>8, <1>9, <1>11
  <2>2. stream # <<>>
    <3> SUFFICES ASSUME stream = <<>>
                 PROVE  FALSE
      OBVIOUS
    <3>1. N = 1 /\ Len(stream) = 0
      <4>1. Len(<<(<<>>)>>) = 1 /\ Len(<<>>) = 0
        OBVIOUS
      <4> QED
        BY <4>1, SplitNothing DEF N, all
    <3>2. N \in 0 .. N /\ N <= MaxLines /\ Back(all)[N] <= MaxBytes
      BY <1>3, <1>9, <3>1
    <3> QED
      BY <1>1, <1>8, <2>1, <3>2
  <2>3. totalLines = Len(all)
    BY <1>4, <2>2 DEF N
  <2> QED
    BY <2>1, <2>3 DEF End
<1>14. TruncationIsReported
  <2>1. (Snapshot.by # "none") = (Snapshot.lines # all)
    BY <1>11, <1>12
  <2> QED
    BY <1>13, <2>1 DEF TruncationIsReported, all
<1> QED
  BY <1>10, <1>14

\* However the pipe cuts the output, the snapshot shows the end of it.
LEMMA AccInvHolds == Spec => []AccInv
<1>1. Init => AccInv
  BY AccInvInit DEF Init
<1>2. AccInv /\ [Next]_<<input, given, outVars, fileVars>> => AccInv'
  <2> SUFFICES ASSUME AccInv, [Next]_<<input, given, outVars, fileVars>>
               PROVE  AccInv'
    OBVIOUS
  <2>1. CASE NextOutput
    BY <2>1, AccInvNext DEF NextOutput
  <2>2. CASE UNCHANGED outVars
    BY <2>2 DEF outVars, AccInv, MaxRollingBytes
  <2>3. NextPage \/ NextEdit \/ NextEncoding \/ NextOnFile \/ UNCHANGED <<input, given, outVars, fileVars>>
          => UNCHANGED outVars
    BY DEF NextPage, NextEdit, NextEncoding, NextOnFile, Give
  <2> QED
    BY <2>1, <2>2, <2>3 DEF Next
<1> QED
  BY <1>1, <1>2, PTL DEF Spec

\* However the pipe cuts the output of a command and whatever has left the rolling
\* buffer, bash shows the longest end of it that fits and says what it left out.
THEOREM OutputsEndIsShown == Spec => []OutputEndIsShown
<1>1. AccInv => OutputEndIsShown
  BY SnapshotShows DEF OutputEndIsShown
<1> QED
  BY <1>1, AccInvHolds, PTL

\* In the runs of the tools too: their steps on the file are those of FileTools.
THEOREM FilesOfTheRuns == Spec => []OnlyOverlapsLoseEdits
<1>1. Init => FileInit
  BY DEF Init
<1>2. [Next]_<<input, given, outVars, fileVars>> => [FileNext]_fileVars
  BY DEF Next, NextPage, NextEdit, NextEncoding, NextOutput, NextOnFile, Give
<1>3. Spec => FileSpec
  BY <1>1, <1>2, PTL DEF Spec, FileSpec
<1> QED
  BY <1>3, FileEditsSurvive, PTL
=============================================================================
