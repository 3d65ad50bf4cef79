----------------------------- MODULE StreamProofs -----------------------------
(***************************************************************************)
(* What a consumer of streams may rely on.  First the provider's: for any  *)
(* items, fragments and way of ending, the blocks are the items and the    *)
(* events follow the blocks, and the next request gives the items back.    *)
(* Then the live log: for any number of consumers and events, no wake-up   *)
(* is lost and streams end whole.                                          *)
(***************************************************************************)
EXTENDS OpenAIRequest, EventStream, FiniteSetTheorems, TLAPS

-----------------------------------------------------------------------------
(* Induction.                                                              *)

\* Every set of naturals that is not empty has a least element: the finite sets
\* are well-founded under inclusion, and these are ordered as the intervals below
\* them are.
LEMMA LeastNat ==
  ASSUME NEW T, T \subseteq Nat, T # {}
  PROVE  \E x \in T : \A y \in T : x <= y
<1> DEFINE I == {1 .. n : n \in T}
<1>1. I \subseteq FiniteSubsetsOf(Nat) /\ I # {}
  <2>1. ASSUME NEW n \in T PROVE 1 .. n \in FiniteSubsetsOf(Nat)
    BY FS_Interval DEF FiniteSubsetsOf
  <2> QED
    BY <2>1
<1>2. IsWellFoundedOn(StrictSubsetOrdering(Nat), FiniteSubsetsOf(Nat))
  BY FS_StrictSubsetOrderingWellFounded
<1> HIDE DEF I
<1>3. PICK X \in I : \A Y \in I : ~(<<Y, X>> \in StrictSubsetOrdering(Nat))
  BY <1>1, <1>2, WFMin
<1>4. PICK n \in T : X = 1 .. n
  BY DEF I
<1>5. ASSUME NEW m \in T, ~(n <= m) PROVE FALSE
  <2>1. m \in Nat /\ n \in Nat /\ m < n
    BY <1>5
  <2>2. 1 .. m \in I
    BY DEF I
  <2>3. 1 .. m \subseteq 1 .. n /\ 1 .. m # 1 .. n /\ 1 .. n \subseteq Nat
    <3>1. n \in 1 .. n /\ n \notin 1 .. m
      BY <2>1
    <3> QED
      BY <2>1, <3>1
  <2>4. <<1 .. m, 1 .. n>> \in StrictSubsetOrdering(Nat)
    BY <2>3 DEF StrictSubsetOrdering
  <2> QED
    BY <1>3, <1>4, <2>2, <2>4
<1> QED
  BY <1>5

\* Induction, over the numbers of a set.
LEMMA Induction ==
  ASSUME NEW P, 0 \in P, \A n \in Nat : n \in P => n + 1 \in P
  PROVE  Nat \subseteq P
<1> SUFFICES ASSUME NEW k \in Nat, k \notin P
             PROVE  FALSE
  OBVIOUS
<1> DEFINE T == {n \in Nat : n \notin P}
<1>1. PICK n \in T : \A m \in T : n <= m
  BY LeastNat
<1>2. n \in Nat /\ n # 0 /\ n \notin P
  OBVIOUS
<1>3. n - 1 \in Nat /\ n - 1 \notin T
  BY <1>1, <1>2
<1> HIDE DEF T
<1>4. n - 1 \in P
  BY <1>3 DEF T
<1> QED
  BY <1>2, <1>3, <1>4

\* The function begins with base and goes on by step.
Recurses(f, base, step, N) ==
  /\ f[0] = base
  /\ \A n \in 1 .. N : f[n] = step[<<f[n - 1], n>>]

\* There is such a function.
LEMMA Recursion ==
  ASSUME NEW A, NEW base \in A, NEW N \in Nat, NEW step \in [A \X (1 .. N) -> A]
  PROVE  \E f \in [0 .. N -> A] : Recurses(f, base, step, N)
<1> DEFINE Upto(k, f) == \A n \in 0 .. k : f[n] = IF n = 0 THEN base ELSE step[<<f[n - 1], n>>]
           P == {k \in Nat : k <= N => \E f \in [0 .. k -> A] : Upto(k, f)}
<1>1. 0 \in P
  <2>1. [n \in 0 .. 0 |-> base] \in [0 .. 0 -> A]
    OBVIOUS
  <2>2. Upto(0, [n \in 0 .. 0 |-> base])
    OBVIOUS
  <2> QED
    BY <2>1, <2>2
<1>2. ASSUME NEW k \in Nat, k \in P PROVE k + 1 \in P
  <2> SUFFICES ASSUME k + 1 <= N
               PROVE  \E f \in [0 .. k + 1 -> A] : Upto(k + 1, f)
    OBVIOUS
  <2>1. PICK f \in [0 .. k -> A] : Upto(k, f)
    BY <1>2
  <2> DEFINE g == [n \in 0 .. k + 1 |-> IF n = k + 1 THEN step[<<f[k], k + 1>>] ELSE f[n]]
  <2>2. k + 1 \in 1 .. N /\ k \in 0 .. k /\ k + 1 \in 0 .. k + 1 /\ (k + 1) - 1 = k
    OBVIOUS
  <2>3. step[<<f[k], k + 1>>] \in A
    BY <2>2
  <2>4. g \in [0 .. k + 1 -> A]
    BY <2>3
  <2>5. g[k + 1] = step[<<f[k], k + 1>>] /\ \A n \in 0 .. k : g[n] = f[n]
    BY <2>2
  <2> HIDE DEF g
  <2>6. ASSUME NEW n \in 0 .. k + 1
        PROVE  g[n] = IF n = 0 THEN base ELSE step[<<g[n - 1], n>>]
    <3>1. CASE n = k + 1
      BY <2>2, <2>5, <3>1
    <3>2. CASE n # k + 1
      <4>1. n \in 0 .. k /\ (n # 0 => n - 1 \in 0 .. k)
        BY <3>2
      <4> QED
        BY <2>1, <2>5, <4>1
    <3> QED
      BY <3>1, <3>2
  <2> QED
    BY <2>4, <2>6
<1>3. N \in P
  <2> HIDE DEF P
  <2> QED
    BY <1>1, <1>2, Induction
<1>4. PICK f \in [0 .. N -> A] : Upto(N, f)
  BY <1>3
<1>5. Recurses(f, base, step, N)
  <2>1. 0 \in 0 .. N /\ \A n \in 1 .. N : n \in 0 .. N /\ n # 0
    OBVIOUS
  <2> QED
    BY <1>4, <2>1 DEF Recurses
<1> QED
  BY <1>5

\* What holds of the first value and is passed on holds of all.
AllIn(f, A, N) == \A n \in 0 .. N : f[n] \in A

\* What holds at the beginning and passes from one value to the next holds of all.
LEMMA AlongTheFunction ==
  ASSUME NEW A, NEW N \in Nat, NEW f, f[0] \in A,
         \A n \in 1 .. N : f[n - 1] \in A => f[n] \in A
  PROVE  AllIn(f, A, N)
<1> DEFINE P == {n \in Nat : n <= N => f[n] \in A}
<1>1. 0 \in P
  OBVIOUS
<1>2. ASSUME NEW n \in Nat, n \in P PROVE n + 1 \in P
  <2>1. CASE n + 1 <= N
    <3>1. n + 1 \in 1 .. N /\ (n + 1) - 1 = n /\ f[n] \in A
      BY <1>2, <2>1
    <3> QED
      BY <3>1
  <2>2. CASE ~(n + 1 <= N)
    BY <2>2
  <2> QED
    BY <2>1, <2>2
<1>3. Nat \subseteq P
  <2> HIDE DEF P
  <2> QED
    BY <1>1, <1>2, Induction
<1>4. \A n \in 0 .. N : n \in P /\ n <= N
  BY <1>3
<1> QED
  BY <1>4 DEF AllIn
-----------------------------------------------------------------------------
(* Sequences that are joined.                                              *)

\* What joins two sequences.
IsJoin(u, s, t) ==
  /\ Len(s) \in Nat /\ Len(t) \in Nat
  /\ Len(u) = Len(s) + Len(t)
  /\ \A p \in 1 .. Len(s) : u[p] = s[p]
  /\ \A k \in 1 .. Len(t) : u[Len(s) + k] = t[k]

\* Joining is what it says.
LEMMA JoinFacts ==
  ASSUME NEW S, NEW s \in Seq(S), NEW t \in Seq(S)
  PROVE  s \o t \in Seq(S) /\ IsJoin(s \o t, s, t)
BY DEF IsJoin

\* What is empty joins to nothing more.
LEMMA EmptyJoin ==
  ASSUME NEW S, NEW s \in Seq(S)
  PROVE  <<>> \o s = s /\ s \o <<>> = s
OBVIOUS

\* Elements of sequences of sequences.
LEMMA PartsAndPrefixes ==
  ASSUME NEW S, NEW parts \in Seq(Seq(S)), NEW f \in [0 .. Len(parts) -> Seq(S)]
  PROVE  /\ Len(parts) \in Nat
         /\ \A n \in 1 .. Len(parts) : parts[n] \in Seq(S) /\ n - 1 \in 0 .. Len(parts)
         /\ \A n \in 0 .. Len(parts) : f[n] \in Seq(S) /\ Len(f[n]) \in Nat
<1>1. Len(parts) \in Nat /\ \A n \in 1 .. Len(parts) : parts[n] \in Seq(S)
  OBVIOUS
<1>2. \A n \in 0 .. Len(parts) : f[n] \in Seq(S)
  OBVIOUS
<1>3. \A s \in Seq(S) : Len(s) \in Nat
  OBVIOUS
<1> QED
  BY <1>1, <1>2, <1>3

\* f joins the parts one after another.
Flattens(f, parts) ==
  /\ f[0] = <<>>
  /\ \A n \in 1 .. Len(parts) : f[n] = f[n - 1] \o parts[n]

\* FlattenSeq does so.
LEMMA FlattenSeqFacts ==
  ASSUME NEW S, NEW parts \in Seq(Seq(S))
  PROVE  \E f \in [0 .. Len(parts) -> Seq(S)] :
           Flattens(f, parts) /\ FlattenSeq(parts) = f[Len(parts)]
<1> DEFINE N == Len(parts)
           step == [p \in Seq(S) \X (1 .. N) |-> p[1] \o parts[p[2]]]
           Right(g) == g = [i \in 1 .. N |-> IF i = 1 THEN parts[i] ELSE g[i - 1] \o parts[i]]
           flat == CHOOSE g : Right(g)
<1>1. /\ N \in Nat /\ 0 \in 0 .. N /\ \A n \in 1 .. N : n - 1 \in 0 .. N /\ n \in 0 .. N
      /\ \A n \in 1 .. N : parts[n] \in Seq(S)
      /\ <<>> \in Seq(S)
  OBVIOUS
<1>2. FlattenSeq(parts) = IF N = 0 THEN parts ELSE flat[N]
  BY DEF FlattenSeq
<1>3. N = 0 => parts = <<>>
  OBVIOUS
<1> HIDE DEF N, flat
<1>4. step \in [Seq(S) \X (1 .. N) -> Seq(S)]
  BY <1>1
<1>5. PICK f \in [0 .. N -> Seq(S)] : Recurses(f, <<>>, step, N)
  <2> HIDE DEF step
  <2> QED
    BY <1>1, <1>4, Recursion
<1>6. f[0] = <<>> /\ \A n \in 1 .. N : f[n] = f[n - 1] \o parts[n]
  <2>1. ASSUME NEW n \in 1 .. N PROVE f[n] = f[n - 1] \o parts[n]
    <3>1. f[n - 1] \in Seq(S) /\ f[n] = step[<<f[n - 1], n>>]
      BY <1>1, <1>5 DEF Recurses
    <3> QED
      BY <3>1
  <2> QED
    BY <1>5, <2>1 DEF Recurses
<1>7. Flattens(f, parts)
  BY <1>6 DEF Flattens, N
<1>8. CASE N = 0
  <2>1. FlattenSeq(parts) = f[N]
    BY <1>2, <1>3, <1>6, <1>8
  <2> QED
    BY <1>5, <1>7, <2>1 DEF N
<1>9. CASE N # 0
  <2> DEFINE g == [i \in 1 .. N |-> f[i]]
  <2>1. ASSUME NEW i \in 1 .. N
        PROVE  g[i] = IF i = 1 THEN parts[i] ELSE g[i - 1] \o parts[i]
    <3>1. g[i] = f[i - 1] \o parts[i] /\ parts[i] \in Seq(S)
      BY <1>1, <1>6
    <3>2. CASE i = 1
      <4>1. f[i - 1] = <<>>
        BY <1>6, <3>2
      <4> QED
        BY <3>1, <3>2, <4>1
    <3>3. CASE i # 1
      <4>1. i - 1 \in 1 .. N
        BY <1>1, <3>3
      <4> QED
        BY <3>1, <3>3, <4>1
    <3> QED
      BY <3>2, <3>3
  <2>2. Right(g)
    BY <2>1
  <2> HIDE DEF g
  <2>3. Right(flat)
    <3> HIDE DEF Right
    <3> QED
      BY <2>2 DEF flat
  <2>4. \A i \in 1 .. N : flat[i] = IF i = 1 THEN parts[i] ELSE flat[i - 1] \o parts[i]
    BY <2>3
  <2> HIDE DEF Right
  <2> DEFINE P == {n \in Nat : n + 1 <= N => flat[n + 1] = f[n + 1]}
  <2>5. 0 \in P
    <3>1. 1 \in 1 .. N
      BY <1>1, <1>9
    <3>2. f[1] = f[1 - 1] \o parts[1] /\ parts[1] \in Seq(S) /\ flat[1] = parts[1]
      BY <1>1, <1>6, <2>4, <3>1
    <3>3. f[1 - 1] = <<>>
      BY <1>6
    <3>4. flat[1] = f[1]
      BY <3>2, <3>3, EmptyJoin
    <3> QED
      BY <3>4
  <2>6. ASSUME NEW n \in Nat, n \in P PROVE n + 1 \in P
    <3> SUFFICES ASSUME (n + 1) + 1 <= N
                 PROVE  flat[(n + 1) + 1] = f[(n + 1) + 1]
      OBVIOUS
    <3> DEFINE i == (n + 1) + 1
    <3>1. i \in 1 .. N /\ i # 1 /\ i - 1 = n + 1 /\ n + 1 <= N
      BY <1>1
    <3>2. flat[i - 1] = f[i - 1]
      BY <2>6, <3>1
    <3> HIDE DEF i
    <3>3. flat[i] = f[i]
      BY <1>6, <2>4, <3>1, <3>2
    <3> QED
      BY <3>3 DEF i
  <2>7. N - 1 \in P
    <3>1. N - 1 \in Nat
      BY <1>1, <1>9
    <3> HIDE DEF P
    <3> QED
      BY <2>5, <2>6, <3>1, Induction
  <2>8. flat[N] = f[N]
    <3>1. (N - 1) + 1 = N
      BY <1>1
    <3> QED
      BY <1>1, <2>7, <3>1
  <2> QED
    BY <1>2, <1>5, <1>7, <1>9, <2>8 DEF N
<1> QED
  BY <1>8, <1>9

\* The n-th part stays where it was put.
StaysAt(f, parts, n, m) ==
  /\ Len(f[n]) <= Len(f[m])
  /\ \A p \in 1 .. Len(f[n]) : f[m][p] = f[n][p]

\* What has been joined stays in its place.
LEMMA FlattenedStays ==
  ASSUME NEW S, NEW parts \in Seq(Seq(S)), NEW f \in [0 .. Len(parts) -> Seq(S)],
         Flattens(f, parts), NEW n \in 0 .. Len(parts)
  PROVE  \A m \in n .. Len(parts) : StaysAt(f, parts, n, m)
<1> DEFINE N == Len(parts)
           P == {k \in Nat : n + k <= N => StaysAt(f, parts, n, n + k)}
<1>1. 0 \in P
  <2>1. n + 0 = n /\ Len(f[n]) <= Len(f[n])
    OBVIOUS
  <2> QED
    BY <2>1 DEF StaysAt
<1>2. ASSUME NEW k \in Nat, k \in P PROVE k + 1 \in P
  <2> SUFFICES ASSUME n + (k + 1) <= N
               PROVE  StaysAt(f, parts, n, n + (k + 1))
    OBVIOUS
  <2> DEFINE m == n + (k + 1)
  <2>1. m \in 1 .. N /\ m - 1 = n + k /\ n + k <= N /\ m - 1 \in 0 .. N /\ m \in 0 .. N
    OBVIOUS
  <2>2. StaysAt(f, parts, n, m - 1)
    BY <1>2, <2>1
  <2> HIDE DEF m
  <2>3. parts[m] \in Seq(S) /\ f[m - 1] \in Seq(S)
    BY <2>1, PartsAndPrefixes
  <2>4. f[m] = f[m - 1] \o parts[m]
    BY <2>1 DEF Flattens
  <2>5. IsJoin(f[m], f[m - 1], parts[m])
    BY <2>3, <2>4, JoinFacts
  <2>6. Len(f[n]) \in Nat
    BY PartsAndPrefixes
  <2> HIDE DEF N
  <2>7. StaysAt(f, parts, n, m)
    <3>1. Len(f[n]) <= Len(f[m]) /\ 1 .. Len(f[n]) \subseteq 1 .. Len(f[m - 1])
      <4>1. /\ Len(f[m]) = Len(f[m - 1]) + Len(parts[m]) /\ Len(f[n]) <= Len(f[m - 1])
            /\ Len(f[m - 1]) \in Nat /\ Len(parts[m]) \in Nat
        BY <2>2, <2>5 DEF StaysAt, IsJoin
      <4>2. \A x, y, z \in Nat : z <= x => z <= x + y /\ 1 .. z \subseteq 1 .. x
        OBVIOUS
      <4> QED
        BY <2>6, <4>1, <4>2
    <3>2. \A p \in 1 .. Len(f[n]) : f[m][p] = f[n][p]
      BY <2>2, <2>5, <3>1 DEF StaysAt, IsJoin
    <3> QED
      BY <3>1, <3>2 DEF StaysAt
  <2> QED
    BY <2>7 DEF m
<1>3. Nat \subseteq P
  <2> HIDE DEF P
  <2> QED
    BY <1>1, <1>2, Induction
<1> SUFFICES ASSUME NEW m \in n .. N
             PROVE  StaysAt(f, parts, n, m)
  OBVIOUS
<1>4. m - n \in Nat /\ n + (m - n) = m /\ m <= N
  OBVIOUS
<1>5. m - n \in P
  BY <1>3, <1>4
<1> QED
  BY <1>4, <1>5

\* The elements of a part are found behind those of the parts before it.
HoldsPart(all, before, part) ==
  /\ Len(before) + Len(part) <= Len(all)
  /\ \A k \in 1 .. Len(part) : all[Len(before) + k] = part[k]

\* Each part is there whole.
LEMMA FlattenedParts ==
  ASSUME NEW S, NEW parts \in Seq(Seq(S)), NEW f \in [0 .. Len(parts) -> Seq(S)],
         Flattens(f, parts), NEW n \in 1 .. Len(parts)
  PROVE  HoldsPart(f[Len(parts)], f[n - 1], parts[n])
<1> DEFINE N == Len(parts)
<1>1. n \in 0 .. N /\ N \in n .. N /\ n - 1 \in 0 .. N
  OBVIOUS
<1>2. StaysAt(f, parts, n, N)
  BY <1>1, FlattenedStays
<1>3. f[n - 1] \in Seq(S) /\ parts[n] \in Seq(S) /\ f[n] = f[n - 1] \o parts[n]
  BY PartsAndPrefixes DEF Flattens
<1> DEFINE before == f[n - 1]
           part == parts[n]
<1>5. IsJoin(f[n], before, part)
  BY <1>3, JoinFacts
<1> HIDE DEF N, before, part
<1>6. \A k \in 1 .. Len(part) : Len(before) + k \in 1 .. Len(f[n])
  BY <1>5 DEF IsJoin
<1>7. HoldsPart(f[N], before, part)
  <2>2. Len(before) + Len(part) <= Len(f[N])
    BY <1>2, <1>5 DEF StaysAt, IsJoin
  <2>3. \A k \in 1 .. Len(part) : f[N][Len(before) + k] = part[k]
    BY <1>2, <1>5, <1>6 DEF StaysAt, IsJoin
  <2> QED
    BY <2>2, <2>3 DEF HoldsPart
<1> QED
  BY <1>7 DEF N, before, part
-----------------------------------------------------------------------------
(* Counting.                                                               *)

\* How many of the first j numbers are in T.
Count(T, j) == Cardinality({k \in 1 .. j : k \in T})

\* One number more.
LEMMA CountStep ==
  ASSUME NEW T, NEW j \in Nat
  PROVE  /\ Count(T, j) \in 0 .. j
         /\ Count(T, 0) = 0
         /\ j + 1 \in T => Count(T, j + 1) = Count(T, j) + 1
         /\ j + 1 \notin T => Count(T, j + 1) = Count(T, j)
<1> DEFINE U(n) == {k \in 1 .. n : k \in T}
<1>1. IsFiniteSet(U(j)) /\ Cardinality(U(j)) \in 0 .. j
  <2>1. IsFiniteSet(1 .. j) /\ Cardinality(1 .. j) = j
    BY FS_Interval
  <2>2. U(j) \subseteq 1 .. j
    OBVIOUS
  <2> HIDE DEF U
  <2>3. IsFiniteSet(U(j)) /\ Cardinality(U(j)) <= j
    BY <2>1, <2>2, FS_Subset
  <2> QED
    BY <2>3, FS_CardinalityType
<1>2. U(0) = {}
  OBVIOUS
<1>3. j + 1 \in T => U(j + 1) = U(j) \union {j + 1} /\ j + 1 \notin U(j)
  OBVIOUS
<1>4. j + 1 \notin T => U(j + 1) = U(j)
  OBVIOUS
<1>5. Count(T, j) = Cardinality(U(j)) /\ Count(T, 0) = Cardinality(U(0))
      /\ Count(T, j + 1) = Cardinality(U(j + 1))
  BY DEF Count
<1> HIDE DEF U
<1>6. j + 1 \in T => Cardinality(U(j + 1)) = Cardinality(U(j)) + 1
  BY <1>1, <1>3, FS_AddElement
<1>7. Cardinality(U(0)) = 0
  BY <1>2, FS_EmptySet
<1> QED
  BY <1>1, <1>4, <1>5, <1>6, <1>7

\* The numbers of T below n are counted up to the count of n, without a gap.
CountsAll(T, n) ==
  /\ \A j \in 1 .. n : j \in T => Count(T, j) \in 1 .. Count(T, n)
  /\ \A p \in 1 .. Count(T, n) : \E j \in 1 .. n : j \in T /\ Count(T, j) = p
  /\ \A i, j \in 1 .. n : i \in T /\ j \in T /\ Count(T, i) = Count(T, j) => i = j

\* Counting is one to one.
LEMMA CountFacts ==
  ASSUME NEW T, NEW n \in Nat
  PROVE  CountsAll(T, n)
<1> DEFINE P == {m \in Nat : CountsAll(T, m)}
<1>1. 0 \in P
  <2>1. Count(T, 0) = 0 /\ 1 .. 0 = {}
    BY CountStep
  <2> QED
    BY <2>1 DEF CountsAll
<1>2. ASSUME NEW m \in Nat, m \in P PROVE m + 1 \in P
  <2>1. /\ Count(T, m) \in Nat
        /\ m + 1 \in T => Count(T, m + 1) = Count(T, m) + 1
        /\ m + 1 \notin T => Count(T, m + 1) = Count(T, m)
    BY CountStep
  <2>2. CountsAll(T, m)
    BY <1>2
  <2>3. \A j \in 1 .. m + 1 : j \in 1 .. m \/ j = m + 1
    OBVIOUS
  <2>4. 1 .. m \subseteq 1 .. m + 1 /\ m + 1 \in 1 .. m + 1
    OBVIOUS
  <2>5. CASE m + 1 \notin T
    <3>1. \A j \in 1 .. m + 1 : j \in T => j \in 1 .. m
      BY <2>3, <2>5
    <3>2. CountsAll(T, m + 1)
      BY <2>1, <2>2, <2>4, <2>5, <3>1 DEF CountsAll
    <3> QED
      BY <3>2
  <2>6. CASE m + 1 \in T
    <3> DEFINE c == Count(T, m)
               d == Count(T, m + 1)
    <3>0. c \in Nat /\ d = c + 1
      BY <2>1, <2>6
    <3>1. \A j \in 1 .. m : j \in T => Count(T, j) \in 1 .. c
      BY <2>2 DEF CountsAll
    <3>2. \A p \in 1 .. c : \E j \in 1 .. m : j \in T /\ Count(T, j) = p
      BY <2>2 DEF CountsAll
    <3>3. \A i, j \in 1 .. m : i \in T /\ j \in T /\ Count(T, i) = Count(T, j) => i = j
      BY <2>2 DEF CountsAll
    <3>4. Count(T, m + 1) = d
      OBVIOUS
    <3> HIDE DEF c, d
    <3>5. 1 .. d = 1 .. c \union {d} /\ d \notin 1 .. c /\ d \in 1 .. d
      BY <3>0
    <3>6. \A j \in 1 .. m + 1 : j \in T => Count(T, j) \in 1 .. d
      BY <2>3, <3>1, <3>4, <3>5
    <3>7. \A p \in 1 .. d : \E j \in 1 .. m + 1 : j \in T /\ Count(T, j) = p
      BY <2>4, <2>6, <3>2, <3>4, <3>5
    <3>8. \A i, j \in 1 .. m + 1 : i \in T /\ j \in T /\ Count(T, i) = Count(T, j) => i = j
      BY <2>3, <3>1, <3>3, <3>4, <3>5
    <3>9. CountsAll(T, m + 1)
      BY <3>4, <3>6, <3>7, <3>8 DEF CountsAll
    <3> QED
      BY <3>9
  <2> QED
    BY <2>5, <2>6
<1>3. Nat \subseteq P
  <2> HIDE DEF P
  <2> QED
    BY <1>1, <1>2, Induction
<1> QED
  BY <1>3
-----------------------------------------------------------------------------
(* The state of the assembler.                                             *)

Content == Seq(Fragments)
SentItems ==
  [kind : Kinds \union {"other"}, id : Nat, parts : Content,
   phase : {"open", "final", "done"}, final : Content]
KnownMetadata == [id : Nat, content : Content]
Blocks == [kind : Kinds, body : Content, call : Nat, metadata : KnownMetadata]
Reasons == {"stop", "tool_use", "length"}
ProviderEvents ==
  [type : {"stream_start"}]
    \union [type : {"start", "delta", "end"}, kind : Kinds, index : Nat]
    \union [type : {"stream_done"}, reason : Reasons, blocks : Seq(Blocks)]
    \union [type : {"stream_error"}, blocks : Seq(Blocks)]

ProviderTypeOK ==
  /\ sent \in Seq(SentItems)
  /\ started \in BOOLEAN
  /\ over \in BOOLEAN
  /\ blocks \in Seq(Blocks)
  /\ active \in Nat
  /\ events \in Seq(ProviderEvents)

\* Only a call knows its content before it is done.
PhasesAgree(items) == \A i \in DOMAIN items : items[i].phase = "final" => items[i].kind = "tool"

\* The block of the open item is the last one, and it is active.
Opened(items, bs) ==
  IF items # <<>> /\ Last(items).phase # "done" /\ Last(items).kind \in Kinds
  THEN Len(bs) ELSE 0

Terminal(e) == e.type \in {"stream_done", "stream_error"}

-----------------------------------------------------------------------------
(* Places.                                                                 *)

\* What Append does to a sequence.
LEMMA AppendFacts ==
  ASSUME NEW S, NEW s \in Seq(S), NEW e \in S
  PROVE  /\ Append(s, e) \in Seq(S)
         /\ Len(Append(s, e)) = Len(s) + 1
         /\ Append(s, e)[Len(s) + 1] = e
         /\ \A i \in 1 .. Len(s) : Append(s, e)[i] = s[i]
         /\ Append(s, e) # <<>>
         /\ Last(Append(s, e)) = e
<1>1. Len(Append(s, e)) = Len(s) + 1 /\ Len(s) \in Nat /\ Append(s, e)[Len(s) + 1] = e
  OBVIOUS
<1>2. Append(s, e) # <<>>
  BY <1>1
<1> QED
  BY <1>1, <1>2 DEF Last

\* One more item takes one more place when it becomes a block.
LEMMA PlaceStep ==
  ASSUME NEW items, NEW j \in Nat
  PROVE  /\ Place(items, j) \in 0 .. j
         /\ Place(items, j + 1) = Place(items, j) + (IF items[j + 1].kind \in Kinds THEN 1 ELSE 0)
<1> DEFINE T == {i \in 1 .. j : items[i].kind \in Kinds}
           U == {i \in 1 .. j + 1 : items[i].kind \in Kinds}
<1>1. IsFiniteSet(T) /\ Cardinality(T) \in 0 .. j
  <2>1. IsFiniteSet(1 .. j) /\ Cardinality(1 .. j) = j
    BY FS_Interval
  <2>2. T \subseteq 1 .. j
    OBVIOUS
  <2>3. IsFiniteSet(T) /\ Cardinality(T) <= j
    BY <2>1, <2>2, FS_Subset
  <2> QED
    BY <2>3, FS_CardinalityType
<1>0. Place(items, j) = Cardinality(T) /\ Place(items, j + 1) = Cardinality(U)
  BY DEF Place
<1>2. CASE items[j + 1].kind \in Kinds
  <2>1. U = T \union {j + 1} /\ j + 1 \notin T
    BY <1>2
  <2>2. Cardinality(U) = Cardinality(T) + 1
    <3> HIDE DEF T, U
    <3> QED
      BY <1>1, <2>1, FS_AddElement
  <2> QED
    BY <1>0, <1>1, <1>2, <2>2
<1>3. CASE items[j + 1].kind \notin Kinds
  <2>1. U = T
    BY <1>3
  <2> HIDE DEF T, U
  <2> QED
    BY <1>0, <1>1, <1>3, <2>1
<1> QED
  BY <1>2, <1>3

\* A place depends on the kinds of the items up to there.
LEMMA PlaceSame ==
  ASSUME NEW items, NEW more, NEW j \in Nat, \A i \in 1 .. j : more[i].kind = items[i].kind
  PROVE  Place(more, j) = Place(items, j)
BY DEF Place

\* Items that become blocks have places of their own.
LEMMA PlaceGrows ==
  ASSUME NEW items, NEW j \in Nat, NEW n \in Nat, j <= n
  PROVE  /\ Place(items, j) <= Place(items, n)
         /\ j < n /\ items[n].kind \in Kinds => Place(items, j) < Place(items, n)
         /\ 0 < j /\ items[j].kind \in Kinds => 0 < Place(items, j)
<1>1. \A m \in Nat : /\ Place(items, m) \in Nat /\ IsFiniteSet({i \in 1 .. m : items[i].kind \in Kinds})
  <2> SUFFICES ASSUME NEW m \in Nat
               PROVE  /\ Place(items, m) \in Nat
                      /\ IsFiniteSet({i \in 1 .. m : items[i].kind \in Kinds})
    OBVIOUS
  <2>1. IsFiniteSet(1 .. m) /\ {i \in 1 .. m : items[i].kind \in Kinds} \subseteq 1 .. m
    BY FS_Interval
  <2>2. Place(items, m) \in Nat
    BY PlaceStep
  <2> QED
    BY <2>1, <2>2, FS_Subset
<1>2. \A l, m \in Nat : l <= m => Place(items, l) <= Place(items, m)
  <2> SUFFICES ASSUME NEW l \in Nat, NEW m \in Nat, l <= m
               PROVE  Place(items, l) <= Place(items, m)
    OBVIOUS
  <2>1. {i \in 1 .. l : items[i].kind \in Kinds} \subseteq {i \in 1 .. m : items[i].kind \in Kinds}
    OBVIOUS
  <2> QED
    BY <1>1, <2>1, FS_Subset DEF Place
<1>3. ASSUME NEW m \in Nat, 0 < m, items[m].kind \in Kinds
      PROVE  m - 1 \in Nat /\ Place(items, m) = Place(items, m - 1) + 1
  <2>1. m - 1 \in Nat /\ (m - 1) + 1 = m
    BY <1>3
  <2>2. Place(items, (m - 1) + 1) =
          Place(items, m - 1) + (IF items[(m - 1) + 1].kind \in Kinds THEN 1 ELSE 0)
    BY <2>1, PlaceStep
  <2> QED
    BY <1>3, <2>1, <2>2
<1>4. ASSUME j < n, items[n].kind \in Kinds
      PROVE  Place(items, j) < Place(items, n)
  <2>1. n - 1 \in Nat /\ j <= n - 1 /\ Place(items, n) = Place(items, n - 1) + 1
    BY <1>3, <1>4
  <2>2. Place(items, j) <= Place(items, n - 1)
    BY <1>2, <2>1
  <2>3. Place(items, j) \in Nat /\ Place(items, n - 1) \in Nat
    BY <1>1, <2>1
  <2> QED
    BY <2>1, <2>2, <2>3
<1>5. ASSUME 0 < j, items[j].kind \in Kinds
      PROVE  0 < Place(items, j)
  <2>1. j - 1 \in Nat /\ Place(items, j) = Place(items, j - 1) + 1
    BY <1>3, <1>5
  <2>2. Place(items, j - 1) \in Nat
    BY <1>1, <2>1
  <2> QED
    BY <2>1, <2>2
<1> QED
  BY <1>2, <1>4, <1>5
-----------------------------------------------------------------------------
(* Blocks.                                                                 *)

\* One more item.
LEMMA ItemsAppend ==
  ASSUME NEW items \in Seq(SentItems), NEW item \in SentItems,
         NEW bs \in Seq(Blocks), BlocksAreTheItems(bs, items)
  PROVE  /\ item.kind \notin Kinds => BlocksAreTheItems(bs, Append(items, item))
         /\ \A block \in Blocks : block = Shown(item) /\ item.kind \in Kinds =>
              BlocksAreTheItems(Append(bs, block), Append(items, item))
<1> DEFINE more == Append(items, item)
           n == Len(items)
<1>1. /\ more \in Seq(SentItems) /\ Len(more) = n + 1 /\ more[n + 1] = item
      /\ \A i \in 1 .. n : more[i] = items[i]
      /\ n \in Nat
  BY AppendFacts
<1> HIDE DEF more
<1>2. /\ Place(more, n) = Place(items, n)
      /\ \A j \in 1 .. n : Place(more, j) = Place(items, j)
  <2>1. ASSUME NEW j \in 1 .. n PROVE Place(more, j) = Place(items, j)
    <3>1. j \in Nat /\ \A i \in 1 .. j : more[i].kind = items[i].kind
      BY <1>1
    <3> QED
      BY <3>1, PlaceSame
  <2>2. Place(more, n) = Place(items, n)
    BY <1>1, PlaceSame
  <2> QED
    BY <2>1, <2>2
<1>3. /\ Place(more, n + 1) = Place(more, n) + (IF item.kind \in Kinds THEN 1 ELSE 0)
      /\ Place(items, n) \in Nat
  <2>1. n \in Nat /\ more[n + 1] = item
    BY <1>1
  <2> HIDE DEF n
  <2>2. Place(more, n + 1) = Place(more, n) + (IF more[n + 1].kind \in Kinds THEN 1 ELSE 0)
    BY <2>1, PlaceStep
  <2>3. Place(items, n) \in 0 .. n
    BY <2>1, PlaceStep
  <2> QED
    BY <2>1, <2>2, <2>3
<1>4. Len(bs) = Place(items, n)
  BY DEF BlocksAreTheItems
<1>5. \A j \in 1 .. n : items[j].kind \in Kinds => bs[Place(items, j)] = Shown(items[j])
  BY DEF BlocksAreTheItems
<1>6. ASSUME item.kind \notin Kinds
      PROVE  BlocksAreTheItems(bs, more)
  <2>1. Len(bs) = Place(more, Len(more))
    BY <1>1, <1>2, <1>3, <1>4, <1>6
  <2>2. ASSUME NEW j \in 1 .. n + 1, more[j].kind \in Kinds
        PROVE  bs[Place(more, j)] = Shown(more[j])
    <3>1. j \in 1 .. n
      BY <1>1, <1>6, <2>2
    <3>2. more[j] = items[j] /\ Place(more, j) = Place(items, j)
      BY <1>1, <1>2, <3>1
    <3> QED
      BY <1>5, <2>2, <3>1, <3>2
  <2>3. DOMAIN more = 1 .. n + 1
    BY <1>1
  <2> QED
    BY <2>1, <2>2, <2>3 DEF BlocksAreTheItems
<1>7. ASSUME NEW block \in Blocks, block = Shown(item), item.kind \in Kinds
      PROVE  BlocksAreTheItems(Append(bs, block), more)
  <2> DEFINE cs == Append(bs, block)
  <2>1. /\ Len(cs) = Len(bs) + 1 /\ cs[Len(bs) + 1] = block
        /\ \A i \in 1 .. Len(bs) : cs[i] = bs[i]
    BY AppendFacts
  <2> HIDE DEF cs
  <2>2. Len(cs) = Place(more, Len(more))
    BY <1>1, <1>2, <1>3, <1>4, <1>7, <2>1
  <2>3. ASSUME NEW j \in 1 .. n + 1, more[j].kind \in Kinds
        PROVE  cs[Place(more, j)] = Shown(more[j])
    <3>1. CASE j = n + 1
      BY <1>1, <1>2, <1>3, <1>4, <1>7, <2>1, <3>1
    <3>2. CASE j # n + 1
      <4>1. j \in 1 .. n
        BY <1>1, <3>2
      <4>2. more[j] = items[j] /\ Place(more, j) = Place(items, j) /\ items[j].kind \in Kinds
        BY <1>1, <1>2, <2>3, <4>1
      <4>3. Place(items, j) \in 1 .. Len(bs)
        <5>1. j \in Nat /\ j <= n /\ 0 < j
          BY <1>1, <4>1
        <5>2. Place(items, j) <= Place(items, n) /\ 0 < Place(items, j)
          BY <1>1, <4>2, <5>1, PlaceGrows
        <5>3. Place(items, j) \in Nat
          BY <5>1, PlaceStep
        <5> QED
          BY <1>3, <1>4, <5>2, <5>3
      <4> QED
        BY <1>5, <2>1, <4>1, <4>2, <4>3
    <3> QED
      BY <3>1, <3>2
  <2>4. DOMAIN more = 1 .. n + 1
    BY <1>1
  <2> QED
    BY <2>2, <2>3, <2>4 DEF BlocksAreTheItems, cs
<1> QED
  BY <1>6, <1>7 DEF more

\* The last item changes, and with it the last block.
LEMMA LastChanges ==
  ASSUME NEW items \in Seq(SentItems), items # <<>>, NEW item \in SentItems,
         item.kind = Last(items).kind,
         NEW bs \in Seq(Blocks), BlocksAreTheItems(bs, items)
  PROVE  /\ item.kind \notin Kinds =>
              BlocksAreTheItems(bs, [items EXCEPT ![Len(items)] = item])
         /\ item.kind \in Kinds =>
              /\ Len(bs) \in 1 .. Len(bs) /\ bs[Len(bs)] = Shown(Last(items))
              /\ Shown(item) \in Blocks =>
                   BlocksAreTheItems([bs EXCEPT ![Len(bs)] = Shown(item)],
                                     [items EXCEPT ![Len(items)] = item])
<1> DEFINE n == Len(items)
           more == [items EXCEPT ![n] = item]
<1>1. /\ n \in Nat \ {0} /\ n \in 1 .. n /\ more \in Seq(SentItems) /\ Len(more) = n /\ more[n] = item
      /\ \A i \in 1 .. n : i # n => more[i] = items[i]
      /\ items[n] = Last(items)
  BY DEF Last
<1> HIDE DEF more
<1>2. \A j \in 1 .. n : Place(more, j) = Place(items, j)
  <2>1. ASSUME NEW j \in 1 .. n PROVE Place(more, j) = Place(items, j)
    <3>1. j \in Nat /\ \A i \in 1 .. j : more[i].kind = items[i].kind
      BY <1>1
    <3> QED
      BY <3>1, PlaceSame
  <2> QED
    BY <2>1
<1>3. Len(bs) = Place(items, n)
  BY DEF BlocksAreTheItems
<1>4. \A j \in 1 .. n : items[j].kind \in Kinds => bs[Place(items, j)] = Shown(items[j])
  BY DEF BlocksAreTheItems
<1>5. DOMAIN more = 1 .. n
  BY <1>1
<1>6. ASSUME item.kind \notin Kinds
      PROVE  BlocksAreTheItems(bs, more)
  <2>1. ASSUME NEW j \in 1 .. n, more[j].kind \in Kinds
        PROVE  bs[Place(more, j)] = Shown(more[j])
    <3>1. j # n /\ more[j] = items[j] /\ Place(more, j) = Place(items, j)
      BY <1>1, <1>2, <1>6, <2>1
    <3> QED
      BY <1>4, <2>1, <3>1
  <2>2. Len(bs) = Place(more, Len(more))
    BY <1>1, <1>2, <1>3
  <2> QED
    BY <1>5, <2>1, <2>2 DEF BlocksAreTheItems
<1>7. ASSUME item.kind \in Kinds
      PROVE  /\ Len(bs) \in 1 .. Len(bs) /\ bs[Len(bs)] = Shown(Last(items))
             /\ Shown(item) \in Blocks =>
                  BlocksAreTheItems([bs EXCEPT ![Len(bs)] = Shown(item)], more)
  <2>1. items[n].kind \in Kinds
    BY <1>1, <1>7
  <2>2. 0 < Place(items, n)
    BY <1>1, <2>1, PlaceGrows
  <2>3. Len(bs) \in Nat /\ Len(bs) \in 1 .. Len(bs)
    BY <1>3, <2>2
  <2>4. bs[Len(bs)] = Shown(Last(items))
    BY <1>1, <1>3, <1>4, <2>1
  <2>5. ASSUME Shown(item) \in Blocks
        PROVE  BlocksAreTheItems([bs EXCEPT ![Len(bs)] = Shown(item)], more)
    <3> DEFINE cs == [bs EXCEPT ![Len(bs)] = Shown(item)]
    <3>1. /\ cs \in Seq(Blocks) /\ Len(cs) = Len(bs) /\ cs[Len(bs)] = Shown(item)
          /\ \A i \in 1 .. Len(bs) : i # Len(bs) => cs[i] = bs[i]
      BY <2>3, <2>5
    <3> HIDE DEF cs
    <3>2. ASSUME NEW j \in 1 .. n, more[j].kind \in Kinds
          PROVE  cs[Place(more, j)] = Shown(more[j])
      <4>1. CASE j = n
        BY <1>1, <1>2, <1>3, <3>1, <4>1
      <4>2. CASE j # n
        <5>1. more[j] = items[j] /\ Place(more, j) = Place(items, j) /\ items[j].kind \in Kinds
          BY <1>1, <1>2, <3>2, <4>2
        <5>2. j \in Nat /\ 0 < j /\ j < n /\ j <= n
          BY <1>1, <4>2
        <5>3. Place(items, j) < Place(items, n) /\ 0 < Place(items, j)
          BY <1>1, <2>1, <5>1, <5>2, PlaceGrows
        <5>4. Place(items, j) \in Nat /\ Place(items, n) \in Nat
          <6>1. j \in Nat /\ n \in Nat
            BY <1>1, <5>2
          <6> HIDE DEF n
          <6>2. Place(items, j) \in 0 .. j
            BY <6>1, PlaceStep
          <6>3. Place(items, n) \in 0 .. n
            BY <6>1, PlaceStep
          <6> QED
            BY <6>1, <6>2, <6>3
        <5>5. Place(items, j) \in 1 .. Len(bs) /\ Place(items, j) # Len(bs)
          BY <1>3, <5>3, <5>4
        <5> QED
          BY <1>4, <3>1, <5>1, <5>5
      <4> QED
        BY <4>1, <4>2
    <3>3. Len(cs) = Place(more, Len(more))
      BY <1>1, <1>2, <1>3, <3>1
    <3> QED
      BY <1>5, <3>2, <3>3 DEF BlocksAreTheItems, cs
  <2> QED
    BY <2>3, <2>4, <2>5
<1> QED
  BY <1>6, <1>7 DEF more
-----------------------------------------------------------------------------
(* Events.                                                                 *)

StartsOf(es, n) == {i \in 1 .. n : es[i].type = "start"}

EndedBy(es, n, b) == \E i \in 1 .. n : es[i].type = "end" /\ es[i].index = b

\* What EventsFollowBlocks says of the n-th event, but for the terminal ones.
Placed(es, n) ==
  /\ es[n].type = "stream_start" => n = 1
  /\ es[n].type = "start" =>
       /\ \A i \in StartsOf(es, n - 1) : EndedBy(es, n - 1, es[i].index)
       /\ es[n].index = 1 + Cardinality(StartsOf(es, n - 1))
  /\ es[n].type \in {"delta", "end"} =>
       /\ \E i \in StartsOf(es, n - 1) : es[i].index = es[n].index /\ es[i].kind = es[n].kind
       /\ ~EndedBy(es, n - 1, es[n].index)

\* The starts and ends in es are those of the blocks bs, act being the open one.
Booked(es, bs, act) ==
  /\ Cardinality(StartsOf(es, Len(es))) = Len(bs)
  /\ \A i \in StartsOf(es, Len(es)) : es[i].index \in 1 .. Len(bs)
  /\ \A b \in 1 .. Len(bs) :
       /\ \E i \in StartsOf(es, Len(es)) : es[i].index = b /\ es[i].kind = bs[b].kind
       /\ EndedBy(es, Len(es), b) <=> b # act
  /\ \A n \in DOMAIN es : Placed(es, n)

\* The terminal event, if any, is the last one and carries the blocks.
TerminalsLast(es, bs, ended) ==
  \A i \in DOMAIN es : Terminal(es[i]) => ended /\ i = Len(es) /\ es[i].blocks = bs

\* The events before an appended one are judged as before.
LEMMA EarlierEvents ==
  ASSUME NEW es \in Seq(ProviderEvents), NEW e \in ProviderEvents
  PROVE  /\ \A n \in 0 .. Len(es) :
              /\ StartsOf(Append(es, e), n) = StartsOf(es, n)
              /\ \A b : EndedBy(Append(es, e), n, b) <=> EndedBy(es, n, b)
         /\ \A n \in 1 .. Len(es) : Placed(Append(es, e), n) <=> Placed(es, n)
         /\ IsFiniteSet(StartsOf(es, Len(es)))
         /\ StartsOf(Append(es, e), Len(es) + 1) =
              StartsOf(es, Len(es)) \union (IF e.type = "start" THEN {Len(es) + 1} ELSE {})
         /\ \A b : EndedBy(Append(es, e), Len(es) + 1, b) <=>
              EndedBy(es, Len(es), b) \/ (e.type = "end" /\ e.index = b)
<1> DEFINE more == Append(es, e)
           m == Len(es)
<1>1. /\ more \in Seq(ProviderEvents) /\ Len(more) = m + 1 /\ more[m + 1] = e /\ m \in Nat
      /\ \A i \in 1 .. m : more[i] = es[i]
  BY AppendFacts
<1> HIDE DEF more, m
<1>2. ASSUME NEW n \in 0 .. m
      PROVE  /\ StartsOf(more, n) = StartsOf(es, n)
             /\ \A b : EndedBy(more, n, b) <=> EndedBy(es, n, b)
  <2>1. \A i \in 1 .. n : more[i] = es[i]
    BY <1>1
  <2> QED
    BY <2>1 DEF StartsOf, EndedBy
<1>3. ASSUME NEW n \in 1 .. m
      PROVE  Placed(more, n) <=> Placed(es, n)
  <2>1. n - 1 \in 0 .. m /\ more[n] = es[n] /\ \A i \in 1 .. n - 1 : more[i] = es[i]
    BY <1>1
  <2>2. StartsOf(more, n - 1) = StartsOf(es, n - 1)
    BY <1>2, <2>1
  <2>3. \A i \in StartsOf(es, n - 1) : more[i] = es[i]
    BY <2>1 DEF StartsOf
  <2>4. \A b : EndedBy(more, n - 1, b) <=> EndedBy(es, n - 1, b)
    BY <1>2, <2>1
  <2> QED
    BY <2>1, <2>2, <2>3, <2>4 DEF Placed
<1>4. IsFiniteSet(StartsOf(es, m))
  <2>1. IsFiniteSet(1 .. m) /\ StartsOf(es, m) \subseteq 1 .. m
    BY <1>1, FS_Interval DEF StartsOf
  <2> QED
    BY <2>1, FS_Subset
<1>5. StartsOf(more, m + 1) =
        StartsOf(es, m) \union (IF e.type = "start" THEN {m + 1} ELSE {})
  BY <1>1 DEF StartsOf
<1>6. \A b : EndedBy(more, m + 1, b) <=> EndedBy(es, m, b) \/ (e.type = "end" /\ e.index = b)
  BY <1>1 DEF EndedBy
<1> QED
  BY <1>2, <1>3, <1>4, <1>5, <1>6 DEF more, m

\* The same blocks but for what is in them.
SameKinds(bs, cs) == Len(cs) = Len(bs) /\ \A b \in 1 .. Len(bs) : cs[b].kind = bs[b].kind

\* What books a sequence of events whose length, and whose blocks' number, are known.
LEMMA ThenBooked ==
  ASSUME NEW es, NEW bs, NEW act, NEW m, NEW k, Len(es) = m, Len(bs) = k,
         Cardinality(StartsOf(es, m)) = k,
         \A i \in StartsOf(es, m) : es[i].index \in 1 .. k,
         \A b \in 1 .. k :
           /\ \E i \in StartsOf(es, m) : es[i].index = b /\ es[i].kind = bs[b].kind
           /\ EndedBy(es, m, b) <=> b # act,
         \A n \in DOMAIN es : Placed(es, n)
  PROVE  Booked(es, bs, act)
BY DEF Booked

\* A block starts: its event numbers it next.
LEMMA BookedStart ==
  ASSUME NEW es \in Seq(ProviderEvents), NEW bs \in Seq(Blocks), Booked(es, bs, 0),
         NEW block \in Blocks
  PROVE  Booked(Append(es, Indexed("start", block.kind, Len(bs) + 1)), Append(bs, block),
                Len(bs) + 1)
<1> DEFINE e == Indexed("start", block.kind, Len(bs) + 1)
           more == Append(es, e)
           cs == Append(bs, block)
           m == Len(es)
           k == Len(bs)
<1>1. /\ e \in ProviderEvents /\ e.type = "start" /\ e.index = k + 1 /\ e.kind = block.kind
      /\ k \in Nat /\ m \in Nat
  BY DEF ProviderEvents, Indexed, Blocks
<1> HIDE DEF e
<1>2. /\ Len(more) = m + 1 /\ more[m + 1] = e /\ DOMAIN more = 1 .. m + 1
      /\ \A i \in 1 .. m : more[i] = es[i]
  BY <1>1, AppendFacts
<1>3. /\ Len(cs) = k + 1 /\ cs[k + 1] = block /\ \A b \in 1 .. k : cs[b] = bs[b]
  BY AppendFacts
<1>4. /\ \A b : EndedBy(more, m, b) <=> EndedBy(es, m, b)
      /\ StartsOf(more, m) = StartsOf(es, m)
      /\ \A n \in 1 .. m : Placed(more, n) <=> Placed(es, n)
      /\ IsFiniteSet(StartsOf(es, m))
      /\ StartsOf(more, m + 1) = StartsOf(es, m) \union {m + 1}
      /\ \A b : EndedBy(more, m + 1, b) <=> EndedBy(es, m, b)
  <2>1. m \in 0 .. m
    BY <1>1
  <2> HIDE DEF m
  <2> QED
    BY <1>1, <2>1, EarlierEvents DEF m
<1>5. /\ Cardinality(StartsOf(es, m)) = k
      /\ \A i \in StartsOf(es, m) : es[i].index \in 1 .. k
      /\ \A b \in 1 .. k : EndedBy(es, m, b)
      /\ \A b \in 1 .. k :
           \E i \in StartsOf(es, m) : es[i].index = b /\ es[i].kind = bs[b].kind
      /\ \A n \in 1 .. m : Placed(es, n)
  BY <1>1 DEF Booked
<1>6. \A i \in StartsOf(es, m) : i \in 1 .. m /\ more[i] = es[i]
  BY <1>2 DEF StartsOf
<1> HIDE DEF more, cs, m, k
<1>7. Cardinality(StartsOf(more, m + 1)) = k + 1
  <2>1. m + 1 \notin StartsOf(es, m)
    BY <1>1 DEF StartsOf
  <2> QED
    BY <1>4, <1>5, <2>1, FS_AddElement
<1>8. ASSUME NEW i \in StartsOf(more, m + 1) PROVE more[i].index \in 1 .. k + 1
  <2>1. CASE i = m + 1
    BY <1>1, <1>2, <2>1
  <2>2. CASE i # m + 1
    <3>1. i \in StartsOf(es, m) /\ more[i] = es[i] /\ es[i].index \in 1 .. k
      BY <1>4, <1>5, <1>6, <2>2
    <3> QED
      BY <1>1, <3>1
  <2> QED
    BY <2>1, <2>2
<1>9. ASSUME NEW b \in 1 .. k + 1
      PROVE  /\ \E i \in StartsOf(more, m + 1) : more[i].index = b /\ more[i].kind = cs[b].kind
             /\ EndedBy(more, m + 1, b) <=> b # k + 1
  <2>1. CASE b = k + 1
    <3>1. ~EndedBy(es, m, k + 1)
      <4> SUFFICES ASSUME NEW i \in 1 .. m, es[i].type = "end", es[i].index = k + 1
                   PROVE  FALSE
        BY DEF EndedBy
      <4>1. Placed(es, i)
        BY <1>5
      <4>2. PICK j \in StartsOf(es, i - 1) : es[j].index = es[i].index
        BY <4>1 DEF Placed
      <4>3. j \in StartsOf(es, m)
        BY <1>1, <4>2 DEF StartsOf
      <4> QED
        BY <1>1, <1>5, <4>2, <4>3
    <3> QED
      BY <1>1, <1>2, <1>3, <1>4, <2>1, <3>1
  <2>2. CASE b # k + 1
    <3>1. b \in 1 .. k
      BY <1>1, <2>2
    <3>2. PICK i \in StartsOf(es, m) : es[i].index = b /\ es[i].kind = bs[b].kind
      BY <1>5, <3>1
    <3> QED
      BY <1>3, <1>4, <1>5, <1>6, <2>2, <3>1, <3>2
  <2> QED
    BY <2>1, <2>2
<1>10. Placed(more, m + 1)
  <2>1. (m + 1) - 1 = m
    BY <1>1
  <2>2. \A i \in StartsOf(more, m) : EndedBy(more, m, more[i].index)
    BY <1>4, <1>5, <1>6
  <2> QED
    BY <1>1, <1>2, <1>4, <1>5, <2>1, <2>2 DEF Placed
<1>11. \A n \in DOMAIN more : Placed(more, n)
  BY <1>1, <1>2, <1>4, <1>5, <1>10
<1>12. Booked(more, cs, k + 1)
  BY <1>2, <1>3, <1>7, <1>8, <1>9, <1>11, ThenBooked
<1> QED
  BY <1>12 DEF more, cs, k, e

\* A first event, a delta of the open block or a terminal event.
LEMMA BookedOther ==
  ASSUME NEW es \in Seq(ProviderEvents), NEW bs \in Seq(Blocks), NEW act \in Nat,
         Booked(es, bs, act), NEW cs \in Seq(Blocks), SameKinds(bs, cs), NEW e \in ProviderEvents,
         \/ e.type = "stream_start" /\ es = <<>>
         \/ e.type = "delta" /\ act \in 1 .. Len(bs) /\ e.index = act /\ e.kind = bs[act].kind
         \/ e.type \in {"stream_done", "stream_error"}
  PROVE  Booked(Append(es, e), cs, act)
<1> DEFINE more == Append(es, e)
           m == Len(es)
           k == Len(bs)
<1>1. k \in Nat /\ m \in Nat /\ e.type \notin {"start", "end"}
  OBVIOUS
<1>2. /\ Len(more) = m + 1 /\ more[m + 1] = e /\ DOMAIN more = 1 .. m + 1
      /\ \A i \in 1 .. m : more[i] = es[i]
  BY <1>1, AppendFacts
<1>3. /\ \A b : EndedBy(more, m, b) <=> EndedBy(es, m, b)
      /\ StartsOf(more, m) = StartsOf(es, m)
      /\ \A n \in 1 .. m : Placed(more, n) <=> Placed(es, n)
      /\ StartsOf(more, m + 1) = StartsOf(es, m)
      /\ \A b : EndedBy(more, m + 1, b) <=> EndedBy(es, m, b)
  <2>1. m \in 0 .. m
    BY <1>1
  <2> HIDE DEF m
  <2> QED
    BY <1>1, <2>1, EarlierEvents DEF m
<1>4. /\ Cardinality(StartsOf(es, m)) = k
      /\ \A i \in StartsOf(es, m) : es[i].index \in 1 .. k
      /\ \A b \in 1 .. k : EndedBy(es, m, b) <=> b # act
      /\ \A b \in 1 .. k :
           \E i \in StartsOf(es, m) : es[i].index = b /\ es[i].kind = bs[b].kind
      /\ \A n \in 1 .. m : Placed(es, n)
  BY <1>1 DEF Booked
<1>5. \A i \in StartsOf(es, m) : i \in 1 .. m /\ more[i] = es[i]
  BY <1>2 DEF StartsOf
<1>6. Len(cs) = k /\ \A b \in 1 .. k : cs[b].kind = bs[b].kind
  BY DEF SameKinds
<1>7. es = <<>> => m = 0
  OBVIOUS
<1> HIDE DEF more, m, k
<1>8. \A i \in StartsOf(more, m + 1) : more[i].index \in 1 .. k
  BY <1>3, <1>4, <1>5
<1>9. ASSUME NEW b \in 1 .. k
      PROVE  /\ \E i \in StartsOf(more, m + 1) : more[i].index = b /\ more[i].kind = cs[b].kind
             /\ EndedBy(more, m + 1, b) <=> b # act
  <2>1. PICK i \in StartsOf(es, m) : es[i].index = b /\ es[i].kind = bs[b].kind
    BY <1>4
  <2> QED
    BY <1>3, <1>4, <1>5, <1>6, <2>1
<1>10. Placed(more, m + 1)
  <2>1. (m + 1) - 1 = m
    BY <1>1
  <2>2. CASE e.type = "stream_start" /\ es = <<>>
    BY <1>1, <1>2, <1>7, <2>2 DEF Placed
  <2>3. CASE e.type = "delta" /\ act \in 1 .. k /\ e.index = act /\ e.kind = bs[act].kind
    <3>1. PICK i \in StartsOf(es, m) : es[i].index = act /\ es[i].kind = bs[act].kind
      BY <1>4, <2>3
    <3>2. ~EndedBy(es, m, act)
      BY <1>4, <2>3
    <3> QED
      BY <1>2, <1>3, <1>5, <2>1, <2>3, <3>1, <3>2 DEF Placed
  <2>4. CASE e.type \in {"stream_done", "stream_error"}
    BY <1>2, <2>4 DEF Placed
  <2> QED
    BY <2>2, <2>3, <2>4 DEF k
<1>11. \A n \in DOMAIN more : Placed(more, n)
  BY <1>1, <1>2, <1>3, <1>4, <1>10
<1>12. Cardinality(StartsOf(more, m + 1)) = k
  BY <1>3, <1>4
<1>13. Booked(more, cs, act)
  BY <1>2, <1>6, <1>8, <1>9, <1>11, <1>12, ThenBooked
<1> QED
  BY <1>13 DEF more

\* The open block ends.
LEMMA BookedEnd ==
  ASSUME NEW es \in Seq(ProviderEvents), NEW bs \in Seq(Blocks), NEW act \in 1 .. Len(bs),
         Booked(es, bs, act), NEW cs \in Seq(Blocks), SameKinds(bs, cs)
  PROVE  Booked(Append(es, Indexed("end", bs[act].kind, act)), cs, 0)
<1> DEFINE e == Indexed("end", bs[act].kind, act)
           more == Append(es, e)
           m == Len(es)
           k == Len(bs)
<1>1. /\ e \in ProviderEvents /\ e.type = "end" /\ e.index = act /\ e.kind = bs[act].kind
      /\ k \in Nat /\ m \in Nat /\ act \in 1 .. k
  <2>1. bs[act] \in Blocks /\ act \in Nat /\ k \in Nat /\ m \in Nat
    OBVIOUS
  <2>2. bs[act].kind \in Kinds
    BY <2>1 DEF Blocks
  <2> QED
    BY <2>1, <2>2 DEF ProviderEvents, Indexed
<1> HIDE DEF e
<1>2. /\ Len(more) = m + 1 /\ more[m + 1] = e /\ DOMAIN more = 1 .. m + 1
      /\ \A i \in 1 .. m : more[i] = es[i]
  BY <1>1, AppendFacts
<1>3. /\ \A b : EndedBy(more, m, b) <=> EndedBy(es, m, b)
      /\ StartsOf(more, m) = StartsOf(es, m)
      /\ \A n \in 1 .. m : Placed(more, n) <=> Placed(es, n)
      /\ StartsOf(more, m + 1) = StartsOf(es, m)
      /\ \A b : EndedBy(more, m + 1, b) <=> EndedBy(es, m, b) \/ b = act
  <2>1. m \in 0 .. m
    BY <1>1
  <2> HIDE DEF m
  <2> QED
    BY <1>1, <2>1, EarlierEvents DEF m
<1>4. /\ Cardinality(StartsOf(es, m)) = k
      /\ \A i \in StartsOf(es, m) : es[i].index \in 1 .. k
      /\ \A b \in 1 .. k : EndedBy(es, m, b) <=> b # act
      /\ \A b \in 1 .. k :
           \E i \in StartsOf(es, m) : es[i].index = b /\ es[i].kind = bs[b].kind
      /\ \A n \in 1 .. m : Placed(es, n)
  BY <1>1 DEF Booked
<1>5. \A i \in StartsOf(es, m) : i \in 1 .. m /\ more[i] = es[i]
  BY <1>2 DEF StartsOf
<1>6. Len(cs) = k /\ \A b \in 1 .. k : cs[b].kind = bs[b].kind
  BY DEF SameKinds
<1> HIDE DEF more, m, k
<1>7. \A i \in StartsOf(more, m + 1) : more[i].index \in 1 .. k
  BY <1>3, <1>4, <1>5
<1>8. ASSUME NEW b \in 1 .. k
      PROVE  /\ \E i \in StartsOf(more, m + 1) : more[i].index = b /\ more[i].kind = cs[b].kind
             /\ EndedBy(more, m + 1, b) <=> b # 0
  <2>1. PICK i \in StartsOf(es, m) : es[i].index = b /\ es[i].kind = bs[b].kind
    BY <1>4
  <2>2. b # 0
    BY <1>1
  <2> QED
    BY <1>3, <1>4, <1>5, <1>6, <2>1, <2>2
<1>9. Placed(more, m + 1)
  <2>1. (m + 1) - 1 = m
    BY <1>1
  <2>2. PICK i \in StartsOf(es, m) : es[i].index = act /\ es[i].kind = bs[act].kind
    BY <1>1, <1>4
  <2>3. ~EndedBy(es, m, act)
    BY <1>1, <1>4
  <2> QED
    BY <1>1, <1>2, <1>3, <1>5, <2>1, <2>2, <2>3, SMTT(20) DEF Placed
<1>10. \A n \in DOMAIN more : Placed(more, n)
  BY <1>1, <1>2, <1>3, <1>4, <1>9
<1>11. Cardinality(StartsOf(more, m + 1)) = k
  BY <1>3, <1>4
<1>12. Booked(more, cs, 0)
  BY <1>2, <1>6, <1>7, <1>8, <1>10, <1>11, ThenBooked
<1> QED
  BY <1>12 DEF more, e

\* One more event, which is terminal only when the response has ended.
LEMMA TerminalsAppend ==
  ASSUME NEW es \in Seq(ProviderEvents), NEW bs, TerminalsLast(es, bs, FALSE),
         NEW e \in ProviderEvents, NEW cs, NEW ended \in BOOLEAN,
         Terminal(e) => ended /\ e.blocks = cs
  PROVE  TerminalsLast(Append(es, e), cs, ended)
<1> DEFINE more == Append(es, e)
           m == Len(es)
<1>1. /\ Len(more) = m + 1 /\ more[m + 1] = e /\ m \in Nat /\ more \in Seq(ProviderEvents)
      /\ \A i \in 1 .. m : more[i] = es[i]
  BY AppendFacts
<1> HIDE DEF more
<1>2. ASSUME NEW i \in 1 .. m + 1, Terminal(more[i])
      PROVE  ended /\ i = m + 1 /\ more[i].blocks = cs
  <2>1. i = m + 1
    BY <1>1, <1>2 DEF TerminalsLast
  <2> QED
    BY <1>1, <1>2, <2>1
<1>3. DOMAIN more = 1 .. m + 1
  BY <1>1
<1> QED
  BY <1>1, <1>2, <1>3 DEF TerminalsLast, more

\* The books are about the blocks' kinds, not their contents.
LEMMA BookedSame ==
  ASSUME NEW es, NEW bs, NEW cs, NEW act, SameKinds(bs, cs), Booked(es, bs, act)
  PROVE  Booked(es, cs, act)
BY DEF SameKinds, Booked

\* Before the end no event is terminal, whatever the blocks are.
LEMMA TerminalsSame ==
  ASSUME NEW es, NEW bs, NEW cs, TerminalsLast(es, bs, FALSE)
  PROVE  TerminalsLast(es, cs, FALSE)
BY DEF TerminalsLast
-----------------------------------------------------------------------------
\* The inductive invariant.
ProviderInv ==
  /\ ProviderTypeOK
  /\ PhasesAgree(sent)
  /\ BlocksAreTheItems(blocks, sent)
  /\ active = Opened(sent, blocks)
  /\ ~started /\ ~over => events = <<>>
  /\ sent # <<>> => started
  /\ Booked(events, blocks, active)
  /\ TerminalsLast(events, blocks, over)

\* Before the response there is nothing to book.
LEMMA ProviderInit ==
  ASSUME Init
  PROVE  ProviderInv
<1>1. /\ sent = <<>> /\ blocks = <<>> /\ events = <<>> /\ active = 0 /\ ~over /\ ~started
      /\ Len(<<>>) = 0
  BY DEF Init
<1>2. ProviderTypeOK
  <2>1. <<>> \in Seq(SentItems) /\ <<>> \in Seq(Blocks) /\ <<>> \in Seq(ProviderEvents)
    OBVIOUS
  <2>2. started \in BOOLEAN /\ over \in BOOLEAN
    BY DEF Init
  <2>3. active \in Nat
    BY <1>1
  <2> QED
    BY <1>1, <2>1, <2>2, <2>3 DEF ProviderTypeOK
<1>3. BlocksAreTheItems(blocks, sent)
  <2>1. Place(sent, 0) \in 0 .. 0
    BY PlaceStep
  <2> QED
    BY <1>1, <2>1 DEF BlocksAreTheItems
<1>4. Booked(events, blocks, active)
  <2>1. StartsOf(events, Len(events)) = {}
    BY <1>1 DEF StartsOf
  <2>2. Cardinality({}) = 0
    BY FS_EmptySet
  <2>3. Len(blocks) = 0 /\ 1 .. 0 = {} /\ DOMAIN events = {}
    BY <1>1
  <2> QED
    BY <2>1, <2>2, <2>3 DEF Booked
<1> QED
  BY <1>1, <1>2, <1>3, <1>4 DEF ProviderInv, PhasesAgree, Opened, TerminalsLast

\* The response is created.
LEMMA CreatedStep ==
  ASSUME ProviderInv, Created
  PROVE  ProviderInv'
<1>1. [type |-> "stream_start"] \in ProviderEvents
  BY DEF ProviderEvents
<1>2. /\ events' = Append(events, [type |-> "stream_start"]) /\ events = <<>> /\ ~over
      /\ started' = TRUE /\ UNCHANGED <<sent, blocks, active, over>>
  BY DEF Created, Yields, ProviderInv
<1>3. events \in Seq(ProviderEvents) /\ blocks \in Seq(Blocks) /\ active \in Nat /\ over = FALSE
  BY <1>2 DEF ProviderInv, ProviderTypeOK
<1>4. Booked(events', blocks, active)
  <2>1. SameKinds(blocks, blocks)
    BY DEF SameKinds
  <2> QED
    BY <1>1, <1>2, <1>3, <2>1, BookedOther DEF ProviderInv
<1>5. TerminalsLast(events', blocks, over)
  <2>1. ~Terminal([type |-> "stream_start"]) /\ TerminalsLast(events, blocks, FALSE)
    BY <1>3 DEF Terminal, ProviderInv
  <2> QED
    BY <1>1, <1>2, <1>3, <2>1, TerminalsAppend
<1>6. ProviderTypeOK'
  BY <1>1, <1>2 DEF ProviderInv, ProviderTypeOK
<1> QED
  BY <1>2, <1>4, <1>5, <1>6 DEF ProviderInv

\* A new item, and the block it opens.
LEMMA NewItemFacts ==
  ASSUME ProviderTypeOK, NEW kind \in Kinds \union {"other"}, NEW arguments \in Arguments
  PROVE  /\ NewItem(kind, arguments) \in SentItems /\ NewItem(kind, arguments).kind = kind
         /\ NewItem(kind, arguments).id = Len(sent) + 1 /\ NewItem(kind, arguments).phase = "open"
         /\ kind \in Kinds =>
              /\ Shown(NewItem(kind, arguments)) \in Blocks
              /\ Shown(NewItem(kind, arguments)).kind = kind
<1>1. Len(sent) + 1 \in Nat /\ <<>> \in Content
  BY DEF ProviderTypeOK, Content
<1>2. arguments \in Content
  <2>1. \A a \in Fragments : <<a>> \in Content
    BY DEF Content
  <2> QED
    BY <1>1, <2>1 DEF Arguments
<1>3. NewItem(kind, arguments) \in SentItems
  BY <1>1, <1>2 DEF NewItem, SentItems
<1>4. kind \in Kinds => Shown(NewItem(kind, arguments)) \in Blocks
  BY <1>1, <1>2 DEF NewItem, Shown, Blocks, KnownMetadata, NoMetadata
<1> QED
  BY <1>3, <1>4 DEF NewItem, Shown

\* An item is added.
LEMMA ItemAddedStep ==
  ASSUME ProviderInv, NEW kind \in Kinds \union {"other"}, NEW arguments \in Arguments,
         ItemAdded(kind, arguments)
  PROVE  ProviderInv'
<1>1. /\ ProviderTypeOK /\ PhasesAgree(sent) /\ BlocksAreTheItems(blocks, sent)
      /\ Booked(events, blocks, active) /\ over = FALSE /\ started = TRUE
      /\ TerminalsLast(events, blocks, FALSE)
      /\ active = 0
  BY DEF ProviderInv, ProviderTypeOK, ItemAdded, Opened, OpenItem
<1>2. /\ sent \in Seq(SentItems) /\ blocks \in Seq(Blocks) /\ events \in Seq(ProviderEvents)
      /\ started' = started /\ over' = over
      /\ sent' = Append(sent, NewItem(kind, arguments))
  BY <1>1 DEF ProviderTypeOK, ItemAdded
<1>3. /\ NewItem(kind, arguments) \in SentItems /\ NewItem(kind, arguments).kind = kind
      /\ NewItem(kind, arguments).id = Len(sent) + 1 /\ NewItem(kind, arguments).phase = "open"
      /\ kind \in Kinds =>
           /\ Shown(NewItem(kind, arguments)) \in Blocks
           /\ Shown(NewItem(kind, arguments)).kind = kind
  BY <1>1, NewItemFacts
<1>4. /\ sent' \in Seq(SentItems) /\ sent' # <<>> /\ Last(sent') = NewItem(kind, arguments)
      /\ Len(sent') = Len(sent) + 1 /\ sent'[Len(sent) + 1] = NewItem(kind, arguments)
      /\ \A i \in 1 .. Len(sent) : sent'[i] = sent[i]
  BY <1>2, <1>3, AppendFacts
<1>5. PhasesAgree(sent')
  <2>1. DOMAIN sent' = 1 .. Len(sent) + 1 /\ DOMAIN sent = 1 .. Len(sent) /\ Len(sent) \in Nat
    BY <1>2, <1>4
  <2>2. ASSUME NEW i \in DOMAIN sent', sent'[i].phase = "final"
        PROVE  sent'[i].kind = "tool"
    <3>1. i # Len(sent) + 1
      BY <1>3, <1>4, <2>2
    <3> QED
      BY <1>1, <1>4, <2>1, <2>2, <3>1 DEF PhasesAgree
  <2> QED
    BY <2>2 DEF PhasesAgree
<1>6. CASE kind \notin Kinds
  <2>1. UNCHANGED <<blocks, active, events>>
    BY <1>6 DEF ItemAdded
  <2>2. BlocksAreTheItems(blocks', sent')
    BY <1>1, <1>2, <1>3, <1>6, <2>1, ItemsAppend
  <2>3. active' = Opened(sent', blocks')
    BY <1>1, <1>3, <1>4, <1>6, <2>1 DEF Opened
  <2>4. ProviderTypeOK'
    BY <1>1, <1>2, <1>4, <2>1 DEF ProviderTypeOK
  <2> QED
    BY <1>1, <1>2, <1>5, <2>1, <2>2, <2>3, <2>4 DEF ProviderInv
<1>7. CASE kind \in Kinds
  <2>1. /\ blocks' = Append(blocks, NewBlock(kind)) /\ active' = Len(blocks')
        /\ events' = Append(events, Indexed("start", kind, active'))
    BY <1>7 DEF ItemAdded, StartBlock, AppendActive, Yields
  <2>2. NewBlock(kind) = Shown(NewItem(kind, arguments))
    <3>1. kind # "tool" => arguments = <<>>
      BY DEF ItemAdded
    <3> QED
      BY <1>3, <1>4, <1>7, <3>1 DEF NewBlock, Shown, NewItem, Kinds
  <2>3. NewBlock(kind) \in Blocks /\ NewBlock(kind).kind = kind
    BY <1>3, <1>7, <2>2
  <2>4. blocks' \in Seq(Blocks) /\ Len(blocks') = Len(blocks) + 1 /\ Len(blocks) \in Nat
    BY <1>2, <2>1, <2>3, AppendFacts
  <2>5. BlocksAreTheItems(blocks', sent')
    BY <1>1, <1>2, <1>3, <1>7, <2>1, <2>2, <2>3, ItemsAppend
  <2>6. active' = Opened(sent', blocks')
    BY <1>3, <1>4, <1>7, <2>1 DEF Opened
  <2>7. Booked(events', blocks', active')
    <3>1. Booked(Append(events, Indexed("start", NewBlock(kind).kind, Len(blocks) + 1)),
                 Append(blocks, NewBlock(kind)), Len(blocks) + 1)
      BY <1>1, <1>2, <2>3, BookedStart
    <3> QED
      BY <2>1, <2>3, <2>4, <3>1
  <2>8. /\ Indexed("start", kind, active') \in ProviderEvents
        /\ ~Terminal(Indexed("start", kind, active'))
    BY <1>7, <2>1, <2>4 DEF Indexed, ProviderEvents, Terminal
  <2>9. TerminalsLast(events', blocks', FALSE)
    BY <1>1, <1>2, <2>1, <2>8, TerminalsAppend
  <2>10. ProviderTypeOK'
    BY <1>1, <1>2, <1>4, <2>1, <2>4, <2>8 DEF ProviderTypeOK
  <2> QED
    BY <1>1, <1>2, <1>5, <2>5, <2>6, <2>7, <2>9, <2>10 DEF ProviderInv
<1> QED
  BY <1>6, <1>7

\* What an item's end can carry is content.
LEMMA FinalsType ==
  ASSUME NEW item \in SentItems
  PROVE  Finals(item) \subseteq Content
<1>1. <<>> \in Content /\ \A a \in Fragments : <<a>> \in Content
  BY DEF Content
<1>2. item.parts \in Content /\ item.final \in Content /\ item.kind \in Kinds \union {"other"}
  BY DEF SentItems
<1> QED
  BY <1>1, <1>2 DEF Finals, Arguments, Kinds

\* The open item takes its next form: the assembler has its block at hand.
LEMMA OpenItemChanges ==
  ASSUME ProviderInv, OpenItem, NEW item \in SentItems,
         item.kind = Last(sent).kind, item.phase = "final" => item.kind = "tool",
         sent' = [sent EXCEPT ![Len(sent)] = item]
  PROVE  /\ sent' \in Seq(SentItems) /\ sent' # <<>> /\ Last(sent') = item /\ PhasesAgree(sent')
         /\ item.kind \notin Kinds => active = 0 /\ BlocksAreTheItems(blocks, sent')
         /\ item.kind \in Kinds =>
              /\ active \in 1 .. Len(blocks) /\ active = Len(blocks)
              /\ blocks[active] = Shown(Last(sent)) /\ IsActive(item.kind)
              /\ Shown(item) \in Blocks =>
                   BlocksAreTheItems([blocks EXCEPT ![active] = Shown(item)], sent')
<1>1. /\ sent \in Seq(SentItems) /\ sent # <<>> /\ blocks \in Seq(Blocks)
      /\ BlocksAreTheItems(blocks, sent) /\ PhasesAgree(sent)
  BY DEF ProviderInv, ProviderTypeOK, OpenItem
<1>2. /\ sent' \in Seq(SentItems) /\ Len(sent') = Len(sent) /\ sent'[Len(sent)] = item
      /\ \A i \in 1 .. Len(sent) : i # Len(sent) => sent'[i] = sent[i]
      /\ Len(sent) \in 1 .. Len(sent) /\ Last(sent) = sent[Len(sent)]
  BY <1>1 DEF Last
<1>3. sent' # <<>> /\ Last(sent') = item
  <2>1. Len(sent') \in 1 .. Len(sent')
    BY <1>2
  <2>2. Last(sent') = sent'[Len(sent')]
    BY DEF Last
  <2> QED
    BY <1>2, <2>1, <2>2
<1>4. PhasesAgree(sent')
  BY <1>1, <1>2 DEF PhasesAgree
<1>5. active = IF item.kind \in Kinds THEN Len(blocks) ELSE 0
  BY DEF ProviderInv, Opened, OpenItem
<1>6. CASE item.kind \notin Kinds
  BY <1>1, <1>2, <1>3, <1>4, <1>5, <1>6, LastChanges
<1>7. CASE item.kind \in Kinds
  <2>1. /\ Len(blocks) \in 1 .. Len(blocks) /\ blocks[Len(blocks)] = Shown(Last(sent))
        /\ Shown(item) \in Blocks =>
             BlocksAreTheItems([blocks EXCEPT ![Len(blocks)] = Shown(item)],
                               [sent EXCEPT ![Len(sent)] = item])
    BY <1>1, <1>7, LastChanges
  <2>2. IsActive(item.kind)
    BY <1>5, <1>7, <2>1 DEF IsActive, Shown
  <2> QED
    BY <1>2, <1>3, <1>4, <1>5, <1>7, <2>1, <2>2
<1> QED
  BY <1>6, <1>7

\* A block, by its fields.
BlockOf(kind, body, call, metadata) ==
  [kind |-> kind, body |-> body, call |-> call, metadata |-> metadata]

\* Replacing the active block by one of its kind.
LEMMA BlockReplaced ==
  ASSUME NEW bs \in Seq(Blocks), NEW act \in 1 .. Len(bs), NEW block \in Blocks,
         block.kind = bs[act].kind
  PROVE  /\ [bs EXCEPT ![act] = block] \in Seq(Blocks)
         /\ Len([bs EXCEPT ![act] = block]) = Len(bs)
         /\ SameKinds(bs, [bs EXCEPT ![act] = block])
BY DEF SameKinds

\* A fragment of the open item.
LEMMA ItemDeltaStep ==
  ASSUME ProviderInv, NEW part \in Fragments, ItemDelta(part)
  PROVE  ProviderInv'
<1> DEFINE item == [Last(sent) EXCEPT !.parts = Append(Last(sent).parts, part)]
<1>1. /\ sent \in Seq(SentItems) /\ sent # <<>> /\ blocks \in Seq(Blocks)
      /\ events \in Seq(ProviderEvents) /\ Booked(events, blocks, active) /\ over = FALSE
      /\ TerminalsLast(events, blocks, FALSE) /\ OpenItem
      /\ over' = over /\ started' = started
  BY DEF ProviderInv, ProviderTypeOK, OpenItem, ItemDelta
<1>2. Last(sent) \in SentItems /\ Last(sent).phase = "open"
  BY <1>1 DEF Last, ItemDelta
<1>3. Append(Last(sent).parts, part) \in Content
  BY <1>2 DEF SentItems, Content
<1>4. /\ item \in SentItems /\ item.kind = Last(sent).kind /\ item.phase = "open"
      /\ item.id = Last(sent).id /\ item.parts = Append(Last(sent).parts, part)
      /\ item.final = Last(sent).final
  BY <1>2, <1>3 DEF SentItems
<1>5. sent' = [sent EXCEPT ![Len(sent)] = item]
  BY <1>1 DEF ItemDelta, Last
<1> HIDE DEF item
<1>6. /\ sent' \in Seq(SentItems) /\ sent' # <<>> /\ Last(sent') = item /\ PhasesAgree(sent')
      /\ item.kind \notin Kinds => active = 0 /\ BlocksAreTheItems(blocks, sent')
      /\ item.kind \in Kinds =>
           /\ active \in 1 .. Len(blocks) /\ active = Len(blocks)
           /\ blocks[active] = Shown(Last(sent)) /\ IsActive(item.kind)
           /\ Shown(item) \in Blocks =>
                BlocksAreTheItems([blocks EXCEPT ![active] = Shown(item)], sent')
  BY <1>1, <1>4, <1>5, OpenItemChanges
<1>7. CASE item.kind \notin Kinds
  <2>1. UNCHANGED <<blocks, active, events>>
    BY <1>4, <1>6, <1>7 DEF ItemDelta, AppendDelta, IsActive
  <2>2. active' = Opened(sent', blocks')
    BY <1>6, <1>7, <2>1 DEF Opened
  <2>3. ProviderTypeOK'
    BY <1>1, <1>6, <2>1 DEF ProviderInv, ProviderTypeOK
  <2> QED
    BY <1>1, <1>6, <1>7, <2>1, <2>2, <2>3 DEF ProviderInv
<1>8. CASE item.kind \in Kinds
  <2>1. /\ blocks' = IF item.kind = "tool" THEN blocks
                     ELSE [blocks EXCEPT ![active].body = Append(blocks[active].body, part)]
        /\ events' = Append(events, Indexed("delta", item.kind, active))
        /\ active' = active
    BY <1>4, <1>6, <1>8 DEF ItemDelta, AppendDelta, Yields
  <2>2. blocks[active] = Shown(Last(sent)) /\ active \in 1 .. Len(blocks)
        /\ blocks[active] \in Blocks
    BY <1>1, <1>6, <1>8
  <2>3. ASSUME item.kind = "tool"
      PROVE  /\ blocks' = [blocks EXCEPT ![active] = Shown(item)]
             /\ Shown(item) \in Blocks /\ Shown(item).kind = blocks[active].kind
    <3>1. Shown(item) = blocks[active]
      BY <1>2, <1>4, <2>2, <2>3 DEF Shown
    <3> QED
      BY <1>1, <2>1, <2>2, <2>3, <3>1
  <2>4. ASSUME item.kind # "tool"
      PROVE  /\ blocks' = [blocks EXCEPT ![active] = Shown(item)]
             /\ Shown(item) \in Blocks /\ Shown(item).kind = blocks[active].kind
    <3> DEFINE block == [blocks[active] EXCEPT !.body = Append(blocks[active].body, part)]
    <3>1. blocks[active].body = Last(sent).parts
      BY <1>2, <1>4, <2>2, <2>4 DEF Shown
    <3>2. blocks' = [blocks EXCEPT ![active] = block]
      BY <2>1, <2>2, <2>4
    <3>3. Shown(item) = block
      <4> DEFINE shown(body) == [kind |-> item.kind, body |-> body, call |-> 0,
                                 metadata |-> NoMetadata]
      <4>1. blocks[active] = shown(Last(sent).parts)
        BY <1>2, <1>4, <2>2, <2>4 DEF Shown
      <4>2. block = shown(Append(Last(sent).parts, part))
        BY <4>1, SMTT(20)
      <4>3. Shown(item) = shown(Append(Last(sent).parts, part))
        BY <1>4, <2>4 DEF Shown
      <4> QED
        BY <4>2, <4>3
    <3>4. block \in Blocks /\ block.kind = blocks[active].kind
      BY <1>3, <2>2, <3>1 DEF Blocks
    <3> QED
      BY <3>2, <3>3, <3>4
  <2>5. /\ blocks' = [blocks EXCEPT ![active] = Shown(item)]
        /\ Shown(item) \in Blocks /\ Shown(item).kind = blocks[active].kind
    BY <2>3, <2>4
  <2>6. blocks' \in Seq(Blocks) /\ Len(blocks') = Len(blocks) /\ SameKinds(blocks, blocks')
    BY <1>1, <2>2, <2>5, BlockReplaced
  <2>7. active' = Opened(sent', blocks')
    BY <1>4, <1>6, <1>8, <2>1, <2>6 DEF Opened
  <2> DEFINE e == Indexed("delta", item.kind, active)
  <2>8. e \in ProviderEvents /\ ~Terminal(e) /\ e.type = "delta" /\ e.index = active
        /\ e.kind = blocks[active].kind
    <3>1. active \in Nat /\ blocks[active].kind = item.kind
      BY <1>4, <2>2 DEF Shown
    <3>2. e \in ProviderEvents
      BY <1>8, <3>1 DEF Indexed, ProviderEvents
    <3> QED
      BY <3>1, <3>2 DEF Indexed, Terminal
  <2> HIDE DEF e
  <2>9. Booked(events', blocks', active')
    <3>1. active \in Nat
      BY <2>2
    <3> QED
      BY <1>1, <2>1, <2>2, <2>6, <2>8, <3>1, BookedOther DEF e
  <2>10. TerminalsLast(events', blocks', FALSE)
    BY <1>1, <2>1, <2>8, TerminalsAppend DEF e
  <2>11. ProviderTypeOK'
    BY <1>1, <1>6, <2>1, <2>6, <2>8 DEF ProviderInv, ProviderTypeOK, e
  <2>12. BlocksAreTheItems(blocks', sent')
    BY <1>6, <1>8, <2>5
  <2> QED
    BY <1>1, <1>6, <2>7, <2>9, <2>10, <2>11, <2>12 DEF ProviderInv
<1> QED
  BY <1>7, <1>8

\* The arguments of a call are complete.
LEMMA ArgumentsDoneStep ==
  ASSUME ProviderInv, NEW arguments, ArgumentsDone(arguments)
  PROVE  ProviderInv'
<1> DEFINE item == [Last(sent) EXCEPT !.phase = "final", !.final = arguments]
<1>1. /\ sent \in Seq(SentItems) /\ sent # <<>> /\ blocks \in Seq(Blocks)
      /\ events \in Seq(ProviderEvents) /\ Booked(events, blocks, active) /\ over = FALSE
      /\ TerminalsLast(events, blocks, FALSE) /\ OpenItem
      /\ over' = over /\ started' = started /\ active' = active /\ events' = events
  BY DEF ProviderInv, ProviderTypeOK, OpenItem, ArgumentsDone
<1>2. Last(sent) \in SentItems /\ Last(sent).phase = "open" /\ Last(sent).kind = "tool"
  BY <1>1 DEF Last, ArgumentsDone
<1>3. arguments \in Content
  BY <1>2, FinalsType DEF ArgumentsDone
<1>4. /\ item \in SentItems /\ item.kind = Last(sent).kind /\ item.phase = "final"
      /\ item.id = Last(sent).id /\ item.final = arguments /\ item.kind = "tool"
  BY <1>2, <1>3 DEF SentItems
<1>5. sent' = [sent EXCEPT ![Len(sent)] = item]
  BY <1>1 DEF ArgumentsDone, Last
<1> HIDE DEF item
<1>6. item.kind \in Kinds
  BY <1>4 DEF Kinds
<1>7. /\ sent' \in Seq(SentItems) /\ sent' # <<>> /\ Last(sent') = item /\ PhasesAgree(sent')
      /\ active \in 1 .. Len(blocks) /\ active = Len(blocks)
      /\ blocks[active] = Shown(Last(sent)) /\ IsActive("tool")
      /\ Shown(item) \in Blocks =>
           BlocksAreTheItems([blocks EXCEPT ![active] = Shown(item)], sent')
  BY <1>1, <1>4, <1>5, <1>6, OpenItemChanges
<1> DEFINE block == [blocks[active] EXCEPT !.body = arguments]
<1>8. blocks' = [blocks EXCEPT ![active] = block]
  BY <1>7 DEF ArgumentsDone
<1>9. /\ Shown(item) = block /\ block \in Blocks /\ block.kind = blocks[active].kind
  <2> DEFINE shown(body) == [kind |-> item.kind, body |-> body, call |-> item.id,
                             metadata |-> NoMetadata]
  <2>1. blocks[active] = shown(Last(sent).final)
    BY <1>2, <1>4, <1>7 DEF Shown
  <2>2. block = shown(arguments)
    BY <2>1
  <2>3. Shown(item) = shown(arguments)
    BY <1>4 DEF Shown
  <2>4. blocks[active] \in Blocks
    BY <1>1, <1>7
  <2> QED
    BY <1>3, <2>2, <2>3, <2>4 DEF Blocks
<1> HIDE DEF block
<1>10. blocks' \in Seq(Blocks) /\ Len(blocks') = Len(blocks) /\ SameKinds(blocks, blocks')
  BY <1>1, <1>7, <1>8, <1>9, BlockReplaced
<1>11. active' = Opened(sent', blocks')
  BY <1>1, <1>4, <1>6, <1>7, <1>10 DEF Opened
<1>12. Booked(events', blocks', active') /\ TerminalsLast(events', blocks', FALSE)
  BY <1>1, <1>10, BookedSame, TerminalsSame
<1>13. ProviderTypeOK'
  BY <1>1, <1>7, <1>10 DEF ProviderInv, ProviderTypeOK
<1>14. BlocksAreTheItems(blocks', sent')
  BY <1>7, <1>8, <1>9
<1> QED
  BY <1>1, <1>7, <1>11, <1>12, <1>13, <1>14 DEF ProviderInv

\* The open item is done.
LEMMA ItemDoneStep ==
  ASSUME ProviderInv, NEW final, ItemDone(final)
  PROVE  ProviderInv'
<1> DEFINE item == [Last(sent) EXCEPT !.phase = "done", !.final = final]
<1>1. /\ sent \in Seq(SentItems) /\ sent # <<>> /\ blocks \in Seq(Blocks)
      /\ events \in Seq(ProviderEvents) /\ Booked(events, blocks, active) /\ over = FALSE
      /\ TerminalsLast(events, blocks, FALSE) /\ OpenItem /\ PhasesAgree(sent)
      /\ over' = over /\ started' = started
  BY DEF ProviderInv, ProviderTypeOK, OpenItem, ItemDone
<1>2. Last(sent) \in SentItems /\ Last(sent).phase \in {"open", "final"}
  <2>1. Last(sent) \in SentItems
    BY <1>1 DEF Last
  <2> QED
    BY <1>1, <2>1 DEF OpenItem, SentItems
<1>3. final \in Content
  BY <1>2, FinalsType DEF ItemDone
<1>4. /\ item \in SentItems /\ item.kind = Last(sent).kind /\ item.phase = "done"
      /\ item.id = Last(sent).id /\ item.final = final /\ item.parts = Last(sent).parts
  BY <1>2, <1>3 DEF SentItems
<1>5. sent' = [sent EXCEPT ![Len(sent)] = item]
  BY <1>1 DEF ItemDone, Last
<1> HIDE DEF item
<1>6. /\ sent' \in Seq(SentItems) /\ sent' # <<>> /\ Last(sent') = item /\ PhasesAgree(sent')
      /\ item.kind \notin Kinds => active = 0 /\ BlocksAreTheItems(blocks, sent')
      /\ item.kind \in Kinds =>
           /\ active \in 1 .. Len(blocks) /\ active = Len(blocks)
           /\ blocks[active] = Shown(Last(sent)) /\ IsActive(item.kind)
           /\ Shown(item) \in Blocks =>
                BlocksAreTheItems([blocks EXCEPT ![active] = Shown(item)], sent')
  BY <1>1, <1>4, <1>5, OpenItemChanges
<1>7. CASE item.kind \notin Kinds
  <2>1. UNCHANGED <<blocks, active, events>>
    BY <1>4, <1>6, <1>7 DEF ItemDone, FinalizeBlock, IsActive
  <2>2. active' = Opened(sent', blocks')
    BY <1>6, <1>7, <2>1 DEF Opened
  <2>3. ProviderTypeOK'
    BY <1>1, <1>6, <2>1 DEF ProviderInv, ProviderTypeOK
  <2> QED
    BY <1>1, <1>6, <1>7, <2>1, <2>2, <2>3 DEF ProviderInv
<1>8. CASE item.kind \in Kinds
  <2> DEFINE block == [blocks[active] EXCEPT !.body = FinalBody(Last(sent).kind, final),
                                             !.metadata = Metadata(Last(sent), final)]
  <2>1. /\ blocks' = [blocks EXCEPT ![active].body = FinalBody(Last(sent).kind, final),
                                    ![active].metadata = Metadata(Last(sent), final)]
        /\ events' = Append(events, Indexed("end", item.kind, active))
        /\ active' = 0
    BY <1>4, <1>6, <1>8 DEF ItemDone, FinalizeBlock, Yields
  <2>2. blocks[active] = Shown(Last(sent)) /\ active \in 1 .. Len(blocks)
        /\ blocks[active] \in Blocks
    BY <1>1, <1>6, <1>8
  <2>3. blocks' = [blocks EXCEPT ![active] = block]
    BY <2>1, <2>2
  <2>4. Last(sent).phase = "final" => item.kind = "tool"
    BY <1>1, <1>4 DEF PhasesAgree, Last
  <2>5. FinalBody(Last(sent).kind, final) = Shown(item).body
    BY <1>2, <1>4, <2>2, <2>4 DEF Shown, FinalBody
  <2>6. Metadata(Last(sent), final) = Shown(item).metadata
    BY <1>4 DEF Shown, Metadata
  <2>7. Shown(item) = block
    <3> DEFINE call == IF item.kind = "tool" THEN item.id ELSE 0
    <3>1. /\ blocks[active] =
               BlockOf(item.kind, Shown(Last(sent)).body, call, Shown(Last(sent)).metadata)
          /\ Shown(item) = BlockOf(item.kind, Shown(item).body, call, Shown(item).metadata)
      BY <1>4, <2>2 DEF Shown, BlockOf
    <3> HIDE DEF call
    <3>2. block = BlockOf(item.kind, FinalBody(Last(sent).kind, final), call,
                          Metadata(Last(sent), final))
      <4> DEFINE half == [blocks[active] EXCEPT !.body = FinalBody(Last(sent).kind, final)]
      <4>1. half = BlockOf(item.kind, FinalBody(Last(sent).kind, final), call,
                           Shown(Last(sent)).metadata)
        BY <3>1 DEF BlockOf
      <4>2. block = [half EXCEPT !.metadata = Metadata(Last(sent), final)]
        OBVIOUS
      <4> HIDE DEF half, block
      <4>3. [half EXCEPT !.metadata = Metadata(Last(sent), final)]
              = BlockOf(item.kind, FinalBody(Last(sent).kind, final), call,
                        Metadata(Last(sent), final))
        BY <4>1 DEF BlockOf
      <4> QED
        BY <4>2, <4>3
    <3> QED
      BY <2>5, <2>6, <3>1, <3>2
  <2>8. Shown(item) \in Blocks /\ Shown(item).kind = blocks[active].kind
    <3>1. Shown(item).body \in Content /\ Shown(item).call \in Nat
      BY <1>3, <1>4 DEF Shown, SentItems
    <3>2. Shown(item).metadata \in KnownMetadata
      BY <1>3, <1>4 DEF Shown, SentItems, Metadata, KnownMetadata, Content
    <3>3. Shown(item).kind = item.kind /\ blocks[active].kind = item.kind
      BY <1>4, <2>2 DEF Shown
    <3> QED
      BY <1>8, <3>1, <3>2, <3>3 DEF Shown, Blocks
  <2> HIDE DEF block
  <2>9. blocks' \in Seq(Blocks) /\ Len(blocks') = Len(blocks) /\ SameKinds(blocks, blocks')
    BY <1>1, <2>2, <2>3, <2>7, <2>8, BlockReplaced
  <2>10. active' = Opened(sent', blocks')
    BY <1>4, <1>6, <2>1 DEF Opened
  <2> DEFINE e == Indexed("end", item.kind, active)
  <2>11. e \in ProviderEvents /\ ~Terminal(e)
    <3>1. active \in Nat
      BY <2>2
    <3> QED
      BY <1>8, <3>1 DEF Indexed, ProviderEvents, Terminal
  <2> HIDE DEF e
  <2>12. Booked(events', blocks', active')
    <3>1. blocks[active].kind = item.kind
      BY <1>4, <2>2 DEF Shown
    <3> QED
      BY <1>1, <2>1, <2>2, <2>9, <3>1, BookedEnd
  <2>13. TerminalsLast(events', blocks', FALSE)
    BY <1>1, <2>1, <2>11, TerminalsAppend DEF e
  <2>14. ProviderTypeOK'
    BY <1>1, <1>6, <2>1, <2>9, <2>11 DEF ProviderInv, ProviderTypeOK, e
  <2>15. BlocksAreTheItems(blocks', sent')
    BY <1>6, <1>8, <2>3, <2>7, <2>8
  <2> QED
    BY <1>1, <1>6, <2>10, <2>12, <2>13, <2>14, <2>15 DEF ProviderInv
<1> QED
  BY <1>7, <1>8

\* The response ends, at any point.
LEMMA EndsStep ==
  ASSUME ProviderInv, NEW e \in ProviderEvents, Terminal(e), e.blocks = blocks, Ends(e)
  PROVE  ProviderInv'
<1>1. /\ blocks \in Seq(Blocks) /\ events \in Seq(ProviderEvents) /\ active \in Nat
      /\ Booked(events, blocks, active) /\ TerminalsLast(events, blocks, FALSE)
      /\ events' = Append(events, e) /\ over' = TRUE
      /\ UNCHANGED <<sent, started, blocks, active>>
  BY DEF ProviderInv, ProviderTypeOK, Ends, Yields
<1>2. Booked(events', blocks, active)
  <2>1. SameKinds(blocks, blocks) /\ e.type \in {"stream_done", "stream_error"}
    BY DEF SameKinds, Terminal
  <2> QED
    BY <1>1, <2>1, BookedOther
<1>3. TerminalsLast(events', blocks, TRUE)
  BY <1>1, TerminalsAppend
<1>4. ProviderTypeOK'
  BY <1>1 DEF ProviderInv, ProviderTypeOK
<1> QED
  BY <1>1, <1>2, <1>3, <1>4 DEF ProviderInv

\* Every step keeps the invariant, one step of the proof per action.
LEMMA ProviderNext ==
  ASSUME ProviderInv, Next
  PROVE  ProviderInv'
<1>1. blocks \in Seq(Blocks)
  BY DEF ProviderInv, ProviderTypeOK
<1>2. CASE Created
  BY <1>2, CreatedStep
<1>3. ASSUME NEW kind \in Kinds \union {"other"}, NEW arguments \in Arguments,
             ItemAdded(kind, arguments)
      PROVE  ProviderInv'
  BY <1>3, ItemAddedStep
<1>4. ASSUME NEW part \in Fragments, ItemDelta(part) PROVE ProviderInv'
  BY <1>4, ItemDeltaStep
<1>5. ASSUME NEW arguments, ArgumentsDone(arguments) PROVE ProviderInv'
  BY <1>5, ArgumentsDoneStep
<1>6. ASSUME NEW final, ItemDone(final) PROVE ProviderInv'
  BY <1>6, ItemDoneStep
<1>7. ASSUME NEW reason \in Reasons, Ends(StreamDone(reason)) PROVE ProviderInv'
  <2>1. /\ StreamDone(reason) \in ProviderEvents /\ Terminal(StreamDone(reason))
        /\ StreamDone(reason).blocks = blocks
    BY <1>1 DEF StreamDone, ProviderEvents, Terminal
  <2> QED
    BY <1>7, <2>1, EndsStep
<1>8. CASE Completed
  <2>1. StopReason \in Reasons
    BY DEF StopReason, Reasons
  <2> QED
    BY <1>7, <1>8, <2>1 DEF Completed
<1>9. CASE CutAtLength
  <2>1. "length" \in Reasons
    BY DEF Reasons
  <2> QED
    BY <1>7, <1>9, <2>1 DEF CutAtLength
<1>10. CASE Fails
  <2> DEFINE e == [type |-> "stream_error", blocks |-> blocks]
  <2>1. e \in ProviderEvents /\ Terminal(e) /\ e.blocks = blocks
    BY <1>1 DEF ProviderEvents, Terminal
  <2>2. Ends(e)
    BY <1>10 DEF Fails
  <2> HIDE DEF e
  <2> QED
    BY <2>1, <2>2, EndsStep
<1> QED
  BY <1>2, <1>3, <1>4, <1>5, <1>6, <1>8, <1>9, <1>10 DEF Next

\* What the assembler's bookkeeping relies on, in every state: the open item's
\* block is the last and the active one, the blocks are the items, and the
\* events number them.
THEOREM ProviderInvariant == Spec => []ProviderInv
<1>1. ProviderInv /\ [Next]_vars => ProviderInv'
  <2> SUFFICES ASSUME ProviderInv, UNCHANGED vars
               PROVE  ProviderInv'
    BY ProviderNext
  <2> QED
    BY DEF vars, ProviderInv, ProviderTypeOK
<1> QED
  BY ProviderInit, <1>1, PTL DEF Spec

\* Whatever the service streams and wherever it stops, the blocks that a
\* terminal event hands over are the response's items, in order, each with its
\* authoritative content or with what had been streamed of it.
THEOREM TerminalBlocksAreItems == Spec => []TerminalBlocksAreTheItems
<1>1. ProviderInv => TerminalBlocksAreTheItems
  BY DEF ProviderInv, TerminalBlocksAreTheItems, TerminalsLast, Terminal
<1> QED
  BY <1>1, ProviderInvariant, PTL

\* A consumer can follow any stream by content_index alone: blocks are numbered
\* in the order they start, do not overlap, and the terminal event is the last.
THEOREM EventsAlwaysFollowBlocks == Spec => []EventsFollowBlocks
<1>1. ProviderInv => EventsFollowBlocks
  <2> SUFFICES ASSUME ProviderInv, NEW n \in DOMAIN events
               PROVE  /\ events[n].type = "stream_start" => n = 1
                      /\ events[n].type \in {"stream_done", "stream_error"} => n = Len(events)
                      /\ events[n].type = "start" =>
                           /\ \A i \in Starts(n - 1) : Ended(n - 1, events[i].index)
                           /\ events[n].index = 1 + Cardinality(Starts(n - 1))
                      /\ events[n].type \in {"delta", "end"} =>
                           /\ \E i \in Starts(n - 1) :
                                events[i].index = events[n].index /\ events[i].kind = events[n].kind
                           /\ ~Ended(n - 1, events[n].index)
    BY DEF EventsFollowBlocks
  <2>1. Placed(events, n)
    BY DEF ProviderInv, Booked
  <2>2. Terminal(events[n]) => n = Len(events)
    BY DEF ProviderInv, TerminalsLast
  <2>3. /\ Starts(n - 1) = StartsOf(events, n - 1)
        /\ \A b : Ended(n - 1, b) <=> EndedBy(events, n - 1, b)
    BY DEF Starts, StartsOf, Ended, EndedBy
  <2> QED
    BY <2>1, <2>2, <2>3 DEF Placed, Terminal
<1> QED
  BY <1>1, ProviderInvariant, PTL
-----------------------------------------------------------------------------
(* The next request.                                                       *)

\* What a request is made of.
Ids ==
  {ItemId(n) : n \in Nat} \union {CallId(n) : n \in Nat}
    \union {FallbackId(t, k) : t \in Nat, k \in Nat}
RequestItems ==
  [type : {"user"}] \union [type : {"output"}, call : Nat]
    \union [type : {"reasoning", "text"}, id : Ids, body : Content]
    \union [type : {"tool"}, id : Ids, body : Content, call : Nat]

\* The items carry their positions as ids.
Numbered(items) == \A j \in DOMAIN items : items[j].id = j

Blocked(items) == {k \in Nat : items[k].kind \in Kinds}
KeptOf(items) == {k \in Nat : Kept(items[k])}
CallsOf(items) == {k \in Nat : items[k].kind = "tool"}

\* Places are counts.
LEMMA PlacesCount ==
  ASSUME NEW items, NEW j \in Nat
  PROVE  /\ Place(items, j) = Count(Blocked(items), j)
         /\ KeptPlace(items, j) = Count(KeptOf(items), j)
         /\ CallPlace(items, j) = Count(CallsOf(items), j)
<1>1. {i \in 1 .. j : items[i].kind \in Kinds} = {k \in 1 .. j : k \in Blocked(items)}
  BY DEF Blocked
<1>2. {k \in 1 .. j : Kept(items[k])} = {k \in 1 .. j : k \in KeptOf(items)}
  BY DEF KeptOf
<1>3. {k \in 1 .. j : items[k].kind = "tool"} = {k \in 1 .. j : k \in CallsOf(items)}
  BY DEF CallsOf
<1> QED
  BY <1>1, <1>2, <1>3 DEF Place, KeptPlace, CallPlace, Count

\* Of the parts, one for every block, those of T have one element: what they
\* join to holds these at their counts.
Selects(all, parts, items, T) ==
  /\ Len(all) = Count(T, Len(items))
  /\ \A j \in 1 .. Len(items) : j \in T => all[Count(T, j)] = parts[Place(items, j)][1]

OnePerItem(parts, items, T) ==
  /\ Len(parts) = Place(items, Len(items))
  /\ \A j \in 1 .. Len(items) :
       /\ j \in T => items[j].kind \in Kinds
       /\ items[j].kind \in Kinds =>
            Len(parts[Place(items, j)]) = IF j \in T THEN 1 ELSE 0

\* The items of T take their counts.
LEMMA PartsOfItems ==
  ASSUME NEW S, NEW items \in Seq(SentItems), NEW parts \in Seq(Seq(S)), NEW T,
         OnePerItem(parts, items, T)
  PROVE  FlattenSeq(parts) \in Seq(S) /\ Selects(FlattenSeq(parts), parts, items, T)
<1> DEFINE N == Len(items)
           M == Len(parts)
<1>1. PICK f \in [0 .. M -> Seq(S)] : Flattens(f, parts) /\ FlattenSeq(parts) = f[M]
  BY FlattenSeqFacts
<1>2. N \in Nat /\ M \in Nat /\ M = Place(items, N)
  BY DEF OnePerItem
<1>3. ASSUME NEW j \in Nat, j + 1 <= N
      PROVE  /\ items[j + 1].kind \notin Kinds =>
                  Place(items, j + 1) = Place(items, j) /\ j + 1 \notin T
             /\ items[j + 1].kind \in Kinds =>
                  /\ Place(items, j + 1) \in 1 .. M /\ Place(items, j + 1) - 1 = Place(items, j)
                  /\ Len(parts[Place(items, j + 1)]) = IF j + 1 \in T THEN 1 ELSE 0
  <2>1. j + 1 \in 1 .. N
    BY <1>2, <1>3
  <2>2. /\ Place(items, j) \in 0 .. j
        /\ Place(items, j + 1) = Place(items, j) + (IF items[j + 1].kind \in Kinds THEN 1 ELSE 0)
    BY PlaceStep
  <2>3. j + 1 \in Nat /\ Place(items, j + 1) <= Place(items, N)
    BY <1>2, <1>3, PlaceGrows
  <2>4. items[j + 1].kind \notin Kinds => j + 1 \notin T
    BY <2>1 DEF OnePerItem
  <2>5. items[j + 1].kind \in Kinds =>
          Len(parts[Place(items, j + 1)]) = IF j + 1 \in T THEN 1 ELSE 0
    BY <2>1 DEF OnePerItem
  <2>6. items[j + 1].kind \notin Kinds => Place(items, j + 1) = Place(items, j)
    BY <2>2
  <2>7. items[j + 1].kind \in Kinds =>
          Place(items, j + 1) \in 1 .. M /\ Place(items, j + 1) - 1 = Place(items, j)
    <3> DEFINE p == Place(items, j)
               q == Place(items, j + 1)
    <3>1. p \in Nat /\ q = p + (IF items[j + 1].kind \in Kinds THEN 1 ELSE 0) /\ q <= M
      BY <1>2, <2>2, <2>3
    <3> HIDE DEF p, q, M, N
    <3>2. items[j + 1].kind \in Kinds => q \in 1 .. M /\ q - 1 = p
      BY <1>2, <3>1
    <3> QED
      BY <3>2 DEF p, q
  <2> QED
    BY <2>4, <2>5, <2>6, <2>7
<1>4. \A j \in Nat : j + 1 <= N /\ items[j + 1].kind \in Kinds =>
        IsJoin(f[Place(items, j + 1)], f[Place(items, j)], parts[Place(items, j + 1)])
  <2> SUFFICES ASSUME NEW j \in Nat, j + 1 <= N, items[j + 1].kind \in Kinds
               PROVE  IsJoin(f[Place(items, j + 1)], f[Place(items, j)], parts[Place(items, j + 1)])
    OBVIOUS
  <2> DEFINE q == Place(items, j + 1)
  <2>1. q \in 1 .. M /\ q - 1 = Place(items, j)
    BY <1>3
  <2> HIDE DEF q
  <2>2. f[q] = f[q - 1] \o parts[q]
    BY <1>1, <2>1 DEF Flattens
  <2>3. f[q - 1] \in Seq(S) /\ parts[q] \in Seq(S)
    BY <2>1, PartsAndPrefixes
  <2>4. IsJoin(f[q], f[q - 1], parts[q])
    BY <2>2, <2>3, JoinFacts
  <2> QED
    BY <2>1, <2>4 DEF q
<1> DEFINE P == {j \in Nat : j <= N => Len(f[Place(items, j)]) = Count(T, j)}
<1>5. 0 \in P
  <2>1. Place(items, 0) \in 0 .. 0 /\ Count(T, 0) = 0
    BY PlaceStep, CountStep
  <2>2. f[0] = <<>> /\ Len(<<>>) = 0
    BY <1>1 DEF Flattens
  <2> QED
    BY <2>1, <2>2
<1>6. ASSUME NEW j \in Nat, j \in P PROVE j + 1 \in P
  <2> SUFFICES ASSUME j + 1 <= N
               PROVE  Len(f[Place(items, j + 1)]) = Count(T, j + 1)
    OBVIOUS
  <2>1. Len(f[Place(items, j)]) = Count(T, j) /\ Count(T, j) \in Nat
    <3>1. j <= N
      BY <1>2
    <3> QED
      BY <1>6, <3>1, CountStep
  <2>2. /\ j + 1 \in T => Count(T, j + 1) = Count(T, j) + 1
        /\ j + 1 \notin T => Count(T, j + 1) = Count(T, j)
    BY CountStep
  <2>3. CASE items[j + 1].kind \notin Kinds
    BY <1>3, <2>1, <2>2, <2>3
  <2>4. CASE items[j + 1].kind \in Kinds
    <3>1. Len(f[Place(items, j + 1)]) = Len(f[Place(items, j)]) + Len(parts[Place(items, j + 1)])
      BY <1>4, <2>4 DEF IsJoin
    <3>2. Len(parts[Place(items, j + 1)]) = IF j + 1 \in T THEN 1 ELSE 0
      BY <1>3, <2>4
    <3> QED
      BY <2>1, <2>2, <3>1, <3>2
  <2> QED
    BY <2>3, <2>4
<1>7. \A j \in 0 .. N : Len(f[Place(items, j)]) = Count(T, j)
  <2> HIDE DEF P
  <2>1. Nat \subseteq P
    BY <1>5, <1>6, Induction
  <2>2. \A j \in 0 .. N : j \in Nat /\ j <= N
    BY <1>2
  <2> QED
    BY <2>1, <2>2 DEF P
<1>8. ASSUME NEW j \in 1 .. N, j \in T
      PROVE  f[M][Count(T, j)] = parts[Place(items, j)][1]
  <2> DEFINE i == j - 1
  <2>1. i \in Nat /\ i + 1 = j /\ i \in 0 .. N /\ i + 1 <= N
    BY <1>2
  <2>2. items[j].kind \in Kinds
    BY <1>8 DEF OnePerItem
  <2> HIDE DEF i
  <2> DEFINE q == Place(items, j)
  <2>3. q \in 1 .. M /\ q - 1 = Place(items, i) /\ Len(parts[q]) = 1
    BY <1>3, <1>8, <2>1, <2>2
  <2>4. Len(f[q - 1]) = Count(T, i)
    BY <1>7, <2>1, <2>3
  <2>5. Count(T, j) = Count(T, i) + 1
    BY <1>8, <2>1, CountStep
  <2> HIDE DEF q
  <2>6. HoldsPart(f[M], f[q - 1], parts[q])
    BY <1>1, <2>3, FlattenedParts
  <2>7. 1 \in 1 .. Len(parts[q])
    BY <2>3
  <2>8. f[M][Len(f[q - 1]) + 1] = parts[q][1]
    BY <2>6, <2>7 DEF HoldsPart
  <2> QED
    BY <2>4, <2>5, <2>8 DEF q
<1>9. Len(f[M]) = Count(T, N)
  BY <1>2, <1>7
<1>10. f[M] \in Seq(S)
  BY <1>1, <1>2
<1> QED
  BY <1>1, <1>8, <1>9, <1>10 DEF Selects

\* What the request makes of an item's block, the k-th of its turn.
SaidOf(item, turn, k) ==
  LET id == IF item.phase = "done" THEN ItemId(item.id)
            ELSE IF item.kind = "text" THEN FallbackId(turn, k) ELSE CallId(item.id)
  IN  CASE item.kind = "reasoning" -> [type |-> "reasoning", id |-> id, body |-> item.final]
        [] item.kind = "text" -> [type |-> "text", body |-> Shown(item).body, id |-> id]
        [] OTHER -> [type |-> "tool", body |-> Shown(item).body, call |-> item.id, id |-> id]

\* One item's block.
LEMMA BlockIsSaid ==
  ASSUME NEW item \in SentItems, item.kind \in Kinds, item.id # 0, NEW turn \in Nat, NEW k \in Nat
  PROVE  /\ SerializeBlock(Shown(item), turn, k) =
              IF Kept(item) THEN <<SaidOf(item, turn, k)>> ELSE <<>>
         /\ Kept(item) => SaidOf(item, turn, k) \in RequestItems
         /\ GivesBack(SaidOf(item, turn, k), item)
<1> DEFINE said == SaidOf(item, turn, k)
           block == Shown(item)
<1>1. /\ item.kind \in {"reasoning", "text", "tool"} /\ item.final \in Content
      /\ item.parts \in Content /\ item.id \in Nat
  BY DEF SentItems, Kinds
<1>2. /\ block.kind = item.kind /\ block.body \in Content
      /\ item.kind = "tool" => block.call = item.id
      /\ block.metadata = IF item.phase = "done" THEN Metadata(item, item.final) ELSE NoMetadata
  BY <1>1 DEF Shown
<1>3. /\ Metadata(item, item.final).id = item.id /\ Metadata(item, item.final) # NoMetadata
      /\ item.kind = "reasoning" => Metadata(item, item.final).content = item.final
  BY DEF Metadata, NoMetadata
<1>4. /\ ItemId(item.id) \in Ids /\ CallId(item.id) \in Ids /\ FallbackId(turn, k) \in Ids
  BY <1>1 DEF Ids
<1>5. CASE item.kind = "reasoning"
  <2>1. said.type = "reasoning" /\ said.body = item.final /\ (item.phase = "done" => said.id = ItemId(item.id))
    BY <1>5 DEF SaidOf
  <2>2. GivesBack(said, item)
    BY <1>5, <2>1 DEF GivesBack
  <2>3. CASE item.phase = "done"
    <3>1. said = [type |-> "reasoning", id |-> ItemId(item.id), body |-> item.final]
      BY <1>5, <2>3 DEF SaidOf
    <3>2. SerializeBlock(block, turn, k) = <<said>>
      BY <1>2, <1>3, <1>5, <2>3, <3>1 DEF SerializeBlock
    <3>3. said \in RequestItems
      BY <1>1, <1>4, <3>1 DEF RequestItems
    <3> QED
      BY <1>5, <2>2, <2>3, <3>2, <3>3 DEF Kept
  <2>4. CASE item.phase # "done"
    <3>1. SerializeBlock(block, turn, k) = <<>>
      BY <1>2, <1>5, <2>4 DEF SerializeBlock
    <3> QED
      BY <1>5, <2>2, <2>4, <3>1 DEF Kept
  <2> QED
    BY <2>3, <2>4
<1>6. CASE item.kind = "text"
  <2> DEFINE id == IF item.phase = "done" THEN ItemId(item.id) ELSE FallbackId(turn, k)
  <2>1. said = [type |-> "text", body |-> block.body, id |-> id]
    BY <1>6 DEF SaidOf
  <2>2. GivesBack(said, item)
    BY <1>6, <2>1 DEF GivesBack
  <2>3. SerializeBlock(block, turn, k) = <<said>>
    BY <1>2, <1>3, <1>6, <2>1 DEF SerializeBlock
  <2>4. said \in RequestItems
    BY <1>2, <1>4, <2>1 DEF RequestItems
  <2> QED
    BY <1>6, <2>2, <2>3, <2>4 DEF Kept, Kinds
<1>7. CASE item.kind = "tool"
  <2> DEFINE id == IF item.phase = "done" THEN ItemId(item.id) ELSE CallId(item.id)
  <2>1. said = [type |-> "tool", body |-> block.body, call |-> item.id, id |-> id]
    BY <1>7 DEF SaidOf
  <2>2. GivesBack(said, item)
    BY <1>7, <2>1 DEF GivesBack
  <2>3. SerializeBlock(block, turn, k) = <<said>>
    BY <1>2, <1>3, <1>7, <2>1 DEF SerializeBlock
  <2>4. said \in RequestItems
    BY <1>1, <1>2, <1>4, <2>1 DEF RequestItems
  <2> QED
    BY <1>7, <2>2, <2>3, <2>4 DEF Kept, Kinds
<1> QED
  BY <1>1, <1>5, <1>6, <1>7

\* The items of a turn that is replayed.
TurnIsSaid(said, items, turn) ==
  /\ said \in Seq(RequestItems)
  /\ Len(said) = KeptPlace(items, Len(items))
  /\ \A j \in 1 .. Len(items) :
       Kept(items[j]) => said[KeptPlace(items, j)] = SaidOf(items[j], turn, Place(items, j))

\* Where the items' blocks are.
LEMMA BlockPlaces ==
  ASSUME NEW items \in Seq(SentItems), NEW bs \in Seq(Blocks), BlocksAreTheItems(bs, items),
         NEW j \in 1 .. Len(items), items[j].kind \in Kinds
  PROVE  Place(items, j) \in 1 .. Len(bs) /\ bs[Place(items, j)] = Shown(items[j])
<1>1. Len(items) \in Nat /\ j \in Nat /\ 0 < j /\ j <= Len(items) /\ j \in DOMAIN items
  OBVIOUS
<1>2. Place(items, j) \in 0 .. j /\ Place(items, Len(items)) \in 0 .. Len(items)
  BY <1>1, PlaceStep
<1>3. Place(items, j) <= Place(items, Len(items)) /\ 0 < Place(items, j)
  BY <1>1, PlaceGrows
<1>4. Len(bs) = Place(items, Len(items)) /\ bs[Place(items, j)] = Shown(items[j])
  BY <1>1 DEF BlocksAreTheItems
<1> QED
  BY <1>1, <1>2, <1>3, <1>4

\* The items of a response are said in their order.
LEMMA TurnFromItems ==
  ASSUME NEW items \in Seq(SentItems), Numbered(items), NEW bs \in Seq(Blocks),
         BlocksAreTheItems(bs, items), NEW turn \in Nat
  PROVE  TurnIsSaid(SerializeTurn(bs, turn), items, turn)
<1> DEFINE T == KeptOf(items)
           parts == [k \in DOMAIN bs |-> SerializeBlock(bs[k], turn, k)]
           said == SerializeTurn(bs, turn)
<1>1. \A j \in 1 .. Len(items) : items[j] \in SentItems /\ items[j].id # 0 /\ j \in Nat
  BY DEF Numbered
<1>2. \A j \in 1 .. Len(items) : j \in T <=> Kept(items[j])
  BY <1>1 DEF KeptOf
<1>3. \A j \in 1 .. Len(items) : Kept(items[j]) => items[j].kind \in Kinds
  BY DEF Kept
<1>4. ASSUME NEW j \in 1 .. Len(items), items[j].kind \in Kinds
      PROVE  /\ Place(items, j) \in 1 .. Len(bs)
             /\ parts[Place(items, j)] =
                  IF Kept(items[j]) THEN <<SaidOf(items[j], turn, Place(items, j))>> ELSE <<>>
  <2> DEFINE q == Place(items, j)
  <2>1. q \in 1 .. Len(bs) /\ bs[q] = Shown(items[j])
    BY <1>4, BlockPlaces
  <2> HIDE DEF q
  <2>2. parts[q] = SerializeBlock(Shown(items[j]), turn, q) /\ q \in Nat
    BY <2>1
  <2>3. parts[q] = IF Kept(items[j]) THEN <<SaidOf(items[j], turn, q)>> ELSE <<>>
    BY <1>1, <1>4, <2>2, BlockIsSaid
  <2> QED
    BY <2>1, <2>3 DEF q
<1>5. \A k \in 1 .. Len(bs) : SerializeBlock(bs[k], turn, k) \in Seq(RequestItems)
  <2> SUFFICES ASSUME NEW k \in 1 .. Len(bs)
               PROVE  SerializeBlock(bs[k], turn, k) \in Seq(RequestItems)
    OBVIOUS
  <2>1. CountsAll(Blocked(items), Len(items)) /\ Len(items) \in Nat
    BY CountFacts
  <2>2. Len(bs) = Count(Blocked(items), Len(items))
    BY <2>1, PlacesCount DEF BlocksAreTheItems
  <2>3. PICK j \in 1 .. Len(items) : j \in Blocked(items) /\ Count(Blocked(items), j) = k
    BY <2>1, <2>2 DEF CountsAll
  <2>4. Place(items, j) = k /\ items[j].kind \in Kinds
    BY <1>1, <2>3, PlacesCount DEF Blocked
  <2>5. bs[k] = Shown(items[j]) /\ k \in Nat
    BY <2>4, BlockPlaces
  <2>6. SerializeBlock(bs[k], turn, k) =
          IF Kept(items[j]) THEN <<SaidOf(items[j], turn, k)>> ELSE <<>>
    BY <1>1, <2>4, <2>5, BlockIsSaid
  <2>7. Kept(items[j]) => SaidOf(items[j], turn, k) \in RequestItems
    BY <1>1, <2>4, <2>5, BlockIsSaid
  <2> QED
    BY <2>6, <2>7
<1>6. parts \in Seq(Seq(RequestItems)) /\ Len(parts) = Len(bs)
  BY <1>5
<1>7. said = FlattenSeq(parts)
  BY DEF SerializeTurn
<1> HIDE DEF parts, said
<1>8. OnePerItem(parts, items, T)
  <2>1. \A s : Len(<<s>>) = 1 /\ Len(<<>>) = 0
    OBVIOUS
  <2>2. Len(parts) = Place(items, Len(items))
    BY <1>6 DEF BlocksAreTheItems
  <2>3. \A j \in 1 .. Len(items) : items[j].kind \in Kinds =>
          Len(parts[Place(items, j)]) = IF j \in T THEN 1 ELSE 0
    BY <1>2, <1>4, <2>1
  <2>4. \A j \in 1 .. Len(items) : j \in T => items[j].kind \in Kinds
    BY <1>2, <1>3
  <2> QED
    BY <2>2, <2>3, <2>4 DEF OnePerItem
<1>9. said \in Seq(RequestItems) /\ Selects(said, parts, items, T)
  BY <1>6, <1>7, <1>8, PartsOfItems
<1>10. \A j \in 0 .. Len(items) : KeptPlace(items, j) = Count(T, j)
  BY PlacesCount
<1>11. Len(said) = KeptPlace(items, Len(items))
  BY <1>9, <1>10 DEF Selects
<1>12. ASSUME NEW j \in 1 .. Len(items), Kept(items[j])
       PROVE  said[KeptPlace(items, j)] = SaidOf(items[j], turn, Place(items, j))
  <2>1. said[Count(T, j)] = parts[Place(items, j)][1]
    BY <1>2, <1>9, <1>12 DEF Selects
  <2>2. parts[Place(items, j)] = <<SaidOf(items[j], turn, Place(items, j))>>
    BY <1>3, <1>4, <1>12
  <2>3. KeptPlace(items, j) = Count(T, j)
    BY <1>10
  <2> QED
    BY <2>1, <2>2, <2>3
<1> QED
  BY <1>9, <1>11, <1>12 DEF TurnIsSaid, said

\* The results of a turn are those of its calls.
Results == [role : {"tool_result"}, call : Nat]

ResultsFollow(results, items) ==
  /\ results \in Seq(Results)
  /\ Len(results) = CallPlace(items, Len(items))
  /\ \A j \in 1 .. Len(items) :
       items[j].kind = "tool" => results[CallPlace(items, j)].call = items[j].id

\* The calls of a response are answered in their order.
LEMMA ResultsFromItems ==
  ASSUME NEW items \in Seq(SentItems), NEW bs \in Seq(Blocks), BlocksAreTheItems(bs, items)
  PROVE  ResultsFollow(ToolResults(bs), items)
<1> DEFINE T == CallsOf(items)
           Part(k) == IF bs[k].kind = "tool" THEN <<ResultOf(bs[k])>> ELSE <<>>
           parts == [k \in DOMAIN bs |-> Part(k)]
           results == ToolResults(bs)
<1>1. \A j \in 1 .. Len(items) : items[j] \in SentItems /\ j \in Nat
  OBVIOUS
<1>2. \A j \in 1 .. Len(items) : j \in T <=> items[j].kind = "tool"
  BY <1>1 DEF CallsOf
<1>3. ASSUME NEW j \in 1 .. Len(items), items[j].kind \in Kinds
      PROVE  parts[Place(items, j)] =
               IF items[j].kind = "tool" THEN <<ResultOf(Shown(items[j]))>> ELSE <<>>
  <2> DEFINE q == Place(items, j)
  <2>1. q \in 1 .. Len(bs) /\ bs[q] = Shown(items[j])
    BY <1>3, BlockPlaces
  <2> HIDE DEF q
  <2>2. Shown(items[j]).kind = items[j].kind
    BY DEF Shown
  <2>3. parts[q] = IF items[j].kind = "tool" THEN <<ResultOf(Shown(items[j]))>> ELSE <<>>
    BY <2>1, <2>2
  <2> QED
    BY <2>3 DEF q
<1>4. parts \in Seq(Seq(Results)) /\ Len(parts) = Len(bs)
  <2>1. ASSUME NEW k \in 1 .. Len(bs)
        PROVE  Part(k) \in Seq(Results)
    <3>1. bs[k] \in Blocks
      OBVIOUS
    <3>2. ResultOf(bs[k]) \in Results
      BY <3>1 DEF Blocks, ResultOf, Results
    <3> QED
      BY <3>2
  <2> HIDE DEF Part
  <2> QED
    BY <2>1
<1>5. results = FlattenSeq(parts)
  BY DEF ToolResults
<1> HIDE DEF parts, results
<1>6. OnePerItem(parts, items, T)
  <2>1. \A s : Len(<<s>>) = 1 /\ Len(<<>>) = 0
    OBVIOUS
  <2>2. Len(parts) = Place(items, Len(items))
    BY <1>4 DEF BlocksAreTheItems
  <2>3. \A j \in 1 .. Len(items) : items[j].kind \in Kinds =>
          Len(parts[Place(items, j)]) = IF j \in T THEN 1 ELSE 0
    BY <1>2, <1>3, <2>1
  <2>4. \A j \in 1 .. Len(items) : j \in T => items[j].kind \in Kinds
    BY <1>2 DEF Kinds
  <2> QED
    BY <2>2, <2>3, <2>4 DEF OnePerItem
<1>7. results \in Seq(Results) /\ Selects(results, parts, items, T)
  BY <1>4, <1>5, <1>6, PartsOfItems
<1>8. \A j \in 0 .. Len(items) : CallPlace(items, j) = Count(T, j)
  BY PlacesCount
<1>9. Len(results) = CallPlace(items, Len(items))
  BY <1>7, <1>8 DEF Selects
<1>10. ASSUME NEW j \in 1 .. Len(items), items[j].kind = "tool"
       PROVE  results[CallPlace(items, j)].call = items[j].id
  <2>1. results[Count(T, j)] = parts[Place(items, j)][1]
    BY <1>2, <1>7, <1>10 DEF Selects
  <2>2. parts[Place(items, j)] = <<ResultOf(Shown(items[j]))>>
    BY <1>3, <1>10 DEF Kinds
  <2>3. ResultOf(Shown(items[j])).call = items[j].id
    BY <1>10 DEF ResultOf, Shown
  <2>4. CallPlace(items, j) = Count(T, j)
    BY <1>8
  <2> QED
    BY <2>1, <2>2, <2>3, <2>4
<1> QED
  BY <1>7, <1>9, <1>10 DEF ResultsFollow, results

\* The history, and what its entries become.
Entries ==
  [role : {"user"}] \union Results
    \union [role : {"assistant"}, blocks : Seq(Blocks), status : {"completed", "error"}]

CutMessage == [kind |-> "text", body |-> <<>>, call |-> 0, metadata |-> NoMetadata]

CutTurn == [role |-> "assistant", blocks |-> <<CutMessage>>, status |-> "completed"]

OtherMessage == [type |-> "text", body |-> <<>>, id |-> FallbackId(0, 1)]

\* The request: the first two messages and the answer between them, what the turn
\* becomes, and an output for every result.
RequestOf(request, said, results) ==
  /\ request \in Seq(RequestItems)
  /\ Len(request) = 3 + Len(said) + Len(results)
  /\ request[1] = [type |-> "user"] /\ request[2] = OtherMessage /\ request[3] = [type |-> "user"]
  /\ \A p \in 1 .. Len(said) : request[3 + p] = said[p]
  /\ \A m \in 1 .. Len(results) :
       request[3 + Len(said) + m] = [type |-> "output", call |-> results[m].call]

\* The other turn's message gets an id of its own.
LEMMA CutTurnIsSaid ==
  /\ CutTurn \in Entries
  /\ SerializeTurn(<<CutMessage>>, 0) = <<OtherMessage>>
  /\ OtherMessage \in RequestItems
<1>1. CutMessage \in Blocks
  BY DEF CutMessage, Blocks, Kinds, Content, KnownMetadata, NoMetadata
<1>2. CutTurn \in Entries
  BY <1>1 DEF CutTurn, Entries
<1>3. SerializeBlock(CutMessage, 0, 1) = <<OtherMessage>>
  BY DEF SerializeBlock, CutMessage, OtherMessage
<1> DEFINE parts == [k \in DOMAIN <<CutMessage>> |-> SerializeBlock(<<CutMessage>>[k], 0, k)]
<1>4. DOMAIN <<CutMessage>> = 1 .. 1 /\ <<CutMessage>>[1] = CutMessage
  OBVIOUS
<1>5. Len(parts) = 1 /\ parts[1] = <<OtherMessage>>
  BY <1>3, <1>4
<1>6. OtherMessage \in RequestItems
  <2>1. FallbackId(0, 1) \in Ids /\ <<>> \in Content
    BY DEF Ids, Content
  <2> QED
    BY <2>1 DEF OtherMessage, RequestItems
<1>7. parts \in Seq(Seq(RequestItems))
  <2>1. parts = [k \in 1 .. 1 |-> SerializeBlock(<<CutMessage>>[k], 0, k)]
    BY <1>4
  <2>2. \A k \in 1 .. 1 : SerializeBlock(<<CutMessage>>[k], 0, k) \in Seq(RequestItems)
    <3>1. <<OtherMessage>> \in Seq(RequestItems) /\ \A k \in 1 .. 1 : k = 1
      BY <1>6
    <3> QED
      BY <1>3, <1>4, <3>1
  <2> QED
    BY <2>1, <2>2
<1> HIDE DEF parts
<1>8. PICK f \in [0 .. Len(parts) -> Seq(RequestItems)] :
        Flattens(f, parts) /\ FlattenSeq(parts) = f[Len(parts)]
  BY <1>7, FlattenSeqFacts
<1>9. f[1] = f[1 - 1] \o parts[1] /\ f[1 - 1] = <<>>
  BY <1>5, <1>8 DEF Flattens
<1>10. FlattenSeq(parts) = <<OtherMessage>>
  <2>1. <<OtherMessage>> \in Seq(RequestItems)
    BY <1>6
  <2> QED
    BY <1>5, <1>8, <1>9, <2>1, EmptyJoin
<1>11. SerializeTurn(<<CutMessage>>, 0) = FlattenSeq(parts)
  BY DEF SerializeTurn, parts
<1> QED
  BY <1>2, <1>6, <1>10, <1>11

\* The history after a turn and its results, the other turn before it.
HistoryOf(turn, results) ==
  <<[role |-> "user"], CutTurn>> \o (<<[role |-> "user"], turn>> \o results)

HistoryIs(history, turn, results) ==
  /\ history \in Seq(Entries)
  /\ Len(history) = 4 + Len(results)
  /\ history[1] = [role |-> "user"] /\ history[2] = CutTurn
  /\ history[3] = [role |-> "user"] /\ history[4] = turn
  /\ \A m \in 1 .. Len(results) : history[4 + m] = results[m]

\* Where the entries are.
LEMMA HistoryEntries ==
  ASSUME NEW turn \in Entries, NEW results \in Seq(Results)
  PROVE  HistoryIs(HistoryOf(turn, results), turn, results)
<1> DEFINE user == [role |-> "user"]
           first == <<user, CutTurn>>
           second == <<user, turn>>
           rest == second \o results
           history == HistoryOf(turn, results)
<1>1. user \in Entries /\ CutTurn \in Entries /\ Results \subseteq Entries
  BY CutTurnIsSaid DEF Entries
<1>2. results \in Seq(Entries)
  BY <1>1
<1> HIDE DEF user
<1>3. /\ first \in Seq(Entries) /\ Len(first) = 2 /\ first[1] = user /\ first[2] = CutTurn
      /\ second \in Seq(Entries) /\ Len(second) = 2 /\ second[1] = user /\ second[2] = turn
  BY <1>1
<1> HIDE DEF first, second
<1>4. rest \in Seq(Entries) /\ IsJoin(rest, second, results)
  BY <1>2, <1>3, JoinFacts
<1>5. history = first \o rest
  BY DEF HistoryOf, first, second, user
<1> HIDE DEF rest, history
<1>6. history \in Seq(Entries) /\ IsJoin(history, first, rest)
  BY <1>3, <1>4, <1>5, JoinFacts
<1>7. Len(history) = 4 + Len(results) /\ Len(rest) = 2 + Len(results) /\ Len(results) \in Nat
  BY <1>3, <1>4, <1>6 DEF IsJoin
<1>8. \A k \in 1 .. Len(rest) : history[2 + k] = rest[k]
  BY <1>3, <1>6 DEF IsJoin
<1>9. \A m \in 1 .. Len(results) : rest[2 + m] = results[m]
  BY <1>3, <1>4 DEF IsJoin
<1>10. history[1] = user /\ history[2] = CutTurn
  BY <1>3, <1>6 DEF IsJoin
<1>11. rest[1] = user /\ rest[2] = turn
  BY <1>3, <1>4 DEF IsJoin
<1>12. history[3] = user /\ history[4] = turn
  <2>1. 1 \in 1 .. Len(rest) /\ 2 \in 1 .. Len(rest) /\ 2 + 1 = 3 /\ 2 + 2 = 4
    BY <1>7
  <2> QED
    BY <1>8, <1>11, <2>1
<1>13. ASSUME NEW m \in 1 .. Len(results) PROVE history[4 + m] = results[m]
  <2>1. 2 + m \in 1 .. Len(rest) /\ 2 + (2 + m) = 4 + m
    BY <1>7
  <2> QED
    BY <1>8, <1>9, <2>1
<1> QED
  BY <1>6, <1>7, <1>10, <1>12, <1>13 DEF HistoryIs, user, history

\* One turn was completed before this one.
LEMMA TurnsBefore ==
  ASSUME NEW turn \in Entries, NEW results \in Seq(Results), NEW history,
         HistoryIs(history, turn, results)
  PROVE  CompletedTurns(history, 1) = 0 /\ CompletedTurns(history, 3) = 1
<1> DEFINE Done(n) == {i \in 1 .. n : history[i].role = "assistant" /\ history[i].status = "completed"}
<1>1. /\ history[1].role = "user" /\ history[3].role = "user"
      /\ history[2].role = "assistant" /\ history[2].status = "completed"
  BY DEF HistoryIs, CutTurn
<1>2. 1 .. 1 = {1} /\ 1 .. 3 = {1, 2, 3}
  OBVIOUS
<1>3. Done(1) = {} /\ Done(3) = {2}
  BY <1>1, <1>2
<1>4. Cardinality({}) = 0 /\ Cardinality({2}) = 1
  BY FS_EmptySet, FS_Singleton
<1> QED
  BY <1>3, <1>4 DEF CompletedTurns

\* What the entries of the history become.
LEMMA RequestFromHistory ==
  ASSUME NEW turn \in Entries, turn.role = "assistant", NEW results \in Seq(Results),
         NEW said \in Seq(RequestItems),
         said = IF turn.status = "completed" THEN SerializeTurn(turn.blocks, 1) ELSE <<>>
  PROVE  RequestOf(SerializeHistoryItems(HistoryOf(turn, results)), said, results)
<1> DEFINE history == HistoryOf(turn, results)
           Part(i) == SerializeEntry(history[i], CompletedTurns(history, i - 1))
           parts == [i \in DOMAIN history |-> Part(i)]
           request == SerializeHistoryItems(history)
           R == Len(results)
           L == Len(said)
           user == <<[type |-> "user"]>>
           Output(m) == [type |-> "output", call |-> results[m].call]
<1>1. HistoryIs(history, turn, results) /\ R \in Nat /\ L \in Nat
  BY HistoryEntries
<1>2. /\ history \in Seq(Entries) /\ Len(history) = 4 + R
      /\ history[1].role = "user" /\ history[2] = CutTurn /\ history[3].role = "user"
      /\ history[4] = turn /\ \A m \in 1 .. R : history[4 + m] = results[m]
  BY <1>1 DEF HistoryIs
<1>3. CompletedTurns(history, 1) = 0 /\ CompletedTurns(history, 3) = 1
  BY <1>1, TurnsBefore
<1>4. request = FlattenSeq(parts)
  BY DEF SerializeHistoryItems
<1> HIDE DEF history
<1>5. Part(1) = user /\ Part(3) = user
  BY <1>2 DEF SerializeEntry
<1>6. Part(2) = <<OtherMessage>>
  BY <1>2, <1>3, CutTurnIsSaid DEF SerializeEntry, CutTurn
<1>7. Part(4) = said
  BY <1>2, <1>3 DEF SerializeEntry
<1>8. \A m \in 1 .. R : Part(4 + m) = <<Output(m)>>
  <2> SUFFICES ASSUME NEW m \in 1 .. R PROVE Part(4 + m) = <<Output(m)>>
    OBVIOUS
  <2>1. history[4 + m] = results[m] /\ results[m] \in Results
    BY <1>2
  <2>2. results[m].role = "tool_result"
    BY <2>1 DEF Results
  <2> QED
    BY <2>1, <2>2 DEF SerializeEntry
<1>9. /\ user \in Seq(RequestItems) /\ <<OtherMessage>> \in Seq(RequestItems)
      /\ \A m \in 1 .. R : <<Output(m)>> \in Seq(RequestItems)
  <2>1. [type |-> "user"] \in RequestItems /\ OtherMessage \in RequestItems
    BY CutTurnIsSaid DEF RequestItems
  <2>2. ASSUME NEW m \in 1 .. R PROVE Output(m) \in RequestItems
    <3>1. results[m] \in Results
      OBVIOUS
    <3>2. results[m].call \in Nat
      BY <3>1 DEF Results
    <3> QED
      BY <3>2 DEF RequestItems
  <2> HIDE DEF Output
  <2> QED
    BY <2>1, <2>2
<1> HIDE DEF Part, Output, request, R, L
<1>10. parts \in Seq(Seq(RequestItems)) /\ Len(parts) = 4 + R
       /\ \A i \in 1 .. 4 + R : parts[i] = Part(i)
  <2>1. DOMAIN history = 1 .. 4 + R
    BY <1>2
  <2>2. ASSUME NEW i \in 1 .. 4 + R PROVE Part(i) \in Seq(RequestItems)
    <3>1. CASE i \in {1, 2, 3, 4}
      BY <1>5, <1>6, <1>7, <1>9, <3>1
    <3>2. CASE i \notin {1, 2, 3, 4}
      <4>1. i - 4 \in 1 .. R /\ 4 + (i - 4) = i
        BY <1>1, <3>2
      <4> QED
        BY <1>8, <1>9, <4>1
    <3> QED
      BY <3>1, <3>2
  <2>3. parts = [i \in 1 .. 4 + R |-> Part(i)] /\ 4 + R \in Nat
    BY <1>1, <2>1
  <2> HIDE DEF parts
  <2> QED
    BY <2>2, <2>3
<1> HIDE DEF parts
<1>11. PICK f \in [0 .. 4 + R -> Seq(RequestItems)] : Flattens(f, parts) /\ FlattenSeq(parts) = f[4 + R]
  BY <1>10, FlattenSeqFacts
<1>12. \A i \in 1 .. 4 + R :
         /\ IsJoin(f[i], f[i - 1], parts[i]) /\ HoldsPart(f[4 + R], f[i - 1], parts[i])
         /\ Len(f[i - 1]) \in Nat
  <2> SUFFICES ASSUME NEW i \in 1 .. 4 + R
               PROVE  /\ IsJoin(f[i], f[i - 1], parts[i]) /\ HoldsPart(f[4 + R], f[i - 1], parts[i])
                      /\ Len(f[i - 1]) \in Nat
    OBVIOUS
  <2>1. f[i - 1] \in Seq(RequestItems) /\ parts[i] \in Seq(RequestItems) /\ Len(f[i - 1]) \in Nat
    BY <1>10, PartsAndPrefixes
  <2>2. f[i] = f[i - 1] \o parts[i]
    BY <1>10, <1>11 DEF Flattens
  <2>3. HoldsPart(f[4 + R], f[i - 1], parts[i])
    BY <1>10, <1>11, FlattenedParts
  <2> QED
    BY <2>1, <2>2, <2>3, JoinFacts
<1>13. /\ {1, 2, 3, 4} \subseteq 1 .. 4 + R
       /\ \A m \in 1 .. R : 4 + m \in 1 .. 4 + R /\ (4 + m) - 1 = 4 + (m - 1)
  BY <1>1
<1>14. \A s : Len(<<s>>) = 1 /\ Len(<<>>) = 0 /\ <<s>>[1] = s
  OBVIOUS
<1>15. Len(f[0]) = 0 /\ Len(f[1]) = 1 /\ Len(f[2]) = 2 /\ Len(f[3]) = 3 /\ Len(f[4]) = 3 + L
  <2>0. Len(f[0]) = 0
    BY <1>11, <1>14 DEF Flattens
  <2>1. Len(f[1]) = Len(f[0]) + 1
    <3>1. IsJoin(f[1], f[1 - 1], parts[1]) /\ parts[1] = user
      BY <1>5, <1>10, <1>12, <1>13
    <3> QED
      BY <1>14, <3>1 DEF IsJoin
  <2>2. Len(f[2]) = Len(f[1]) + 1
    <3>1. IsJoin(f[2], f[2 - 1], parts[2]) /\ parts[2] = <<OtherMessage>>
      BY <1>6, <1>10, <1>12, <1>13
    <3> QED
      BY <1>14, <3>1 DEF IsJoin
  <2>3. Len(f[3]) = Len(f[2]) + 1
    <3>1. IsJoin(f[3], f[3 - 1], parts[3]) /\ parts[3] = user
      BY <1>5, <1>10, <1>12, <1>13
    <3> QED
      BY <1>14, <3>1 DEF IsJoin
  <2>4. Len(f[4]) = Len(f[3]) + L
    <3>1. IsJoin(f[4], f[4 - 1], parts[4]) /\ parts[4] = said
      BY <1>7, <1>10, <1>12, <1>13
    <3> QED
      BY <3>1 DEF IsJoin, L
  <2> QED
    BY <1>1, <2>0, <2>1, <2>2, <2>3, <2>4
<1>16. \A m \in 0 .. R : Len(f[4 + m]) = (3 + L) + m
  <2> DEFINE P == {m \in Nat : m <= R => Len(f[4 + m]) = (3 + L) + m}
  <2>1. 0 \in P
    BY <1>1, <1>15
  <2>2. ASSUME NEW m \in Nat, m \in P PROVE m + 1 \in P
    <3> SUFFICES ASSUME m + 1 <= R
                 PROVE  Len(f[4 + (m + 1)]) = (3 + L) + (m + 1)
      OBVIOUS
    <3> DEFINE i == 4 + (m + 1)
    <3>1. i \in 1 .. 4 + R /\ i - 1 = 4 + m /\ m <= R /\ m + 1 \in 1 .. R
      BY <1>1
    <3>2. Len(f[i - 1]) = (3 + L) + m
      BY <2>2, <3>1
    <3>3. parts[i] = <<Output(m + 1)>>
      BY <1>8, <1>10, <3>1
    <3> HIDE DEF i
    <3>4. Len(f[i]) = Len(f[i - 1]) + 1
      BY <1>12, <1>14, <3>1, <3>3 DEF IsJoin
    <3>5. Len(f[i]) = (3 + L) + (m + 1)
      BY <1>1, <3>2, <3>4
    <3> QED
      BY <3>5 DEF i
  <2>3. \A m \in 0 .. R : m \in Nat /\ m <= R
    BY <1>1
  <2>4. Nat \subseteq P
    <3> HIDE DEF P
    <3> QED
      BY <2>1, <2>2, Induction
  <2> QED
    BY <2>3, <2>4
<1>17. Len(request) = (3 + L) + R
  <2>1. R \in 0 .. R /\ request = f[4 + R]
    BY <1>1, <1>4, <1>11
  <2> QED
    BY <1>16, <2>1
<1>18. request[1] = [type |-> "user"] /\ request[2] = OtherMessage /\ request[3] = [type |-> "user"]
  <2>0. request = f[4 + R] /\ 1 \in 1 .. 1
    BY <1>4, <1>11
  <2>1. HoldsPart(request, f[1 - 1], parts[1]) /\ parts[1] = user
    BY <1>5, <1>10, <1>12, <1>13, <2>0
  <2>2. HoldsPart(request, f[2 - 1], parts[2]) /\ parts[2] = <<OtherMessage>>
    BY <1>6, <1>10, <1>12, <1>13, <2>0
  <2>3. HoldsPart(request, f[3 - 1], parts[3]) /\ parts[3] = user
    BY <1>5, <1>10, <1>12, <1>13, <2>0
  <2>4. 0 + 1 = 1 /\ 1 + 1 = 2 /\ 2 + 1 = 3 /\ 1 - 1 = 0 /\ 2 - 1 = 1 /\ 3 - 1 = 2
    OBVIOUS
  <2>5. request[Len(f[0]) + 1] = user[1]
    BY <1>14, <2>0, <2>1, <2>4 DEF HoldsPart
  <2>6. request[Len(f[1]) + 1] = <<OtherMessage>>[1]
    BY <1>14, <2>0, <2>2, <2>4 DEF HoldsPart
  <2>7. request[Len(f[2]) + 1] = user[1]
    BY <1>14, <2>0, <2>3, <2>4 DEF HoldsPart
  <2> QED
    BY <1>14, <1>15, <2>4, <2>5, <2>6, <2>7
<1>19. \A p \in 1 .. L : request[3 + p] = said[p]
  <2>1. HoldsPart(request, f[4 - 1], parts[4]) /\ parts[4] = said
    BY <1>4, <1>7, <1>10, <1>11, <1>12, <1>13
  <2>2. 4 - 1 = 3
    OBVIOUS
  <2> QED
    BY <1>15, <2>1, <2>2 DEF HoldsPart, L
<1>20. \A m \in 1 .. R : request[(3 + L) + m] = Output(m)
  <2> SUFFICES ASSUME NEW m \in 1 .. R PROVE request[(3 + L) + m] = Output(m)
    OBVIOUS
  <2> DEFINE i == 4 + m
  <2>1. i \in 1 .. 4 + R /\ i - 1 = 4 + (m - 1) /\ m - 1 \in 0 .. R /\ 1 \in 1 .. 1
    BY <1>1, <1>13
  <2>2. parts[i] = <<Output(m)>>
    BY <1>8, <1>10, <2>1
  <2>3. Len(f[i - 1]) = (3 + L) + (m - 1)
    BY <1>16, <2>1
  <2> HIDE DEF i
  <2>4. HoldsPart(request, f[i - 1], parts[i])
    BY <1>4, <1>11, <1>12, <2>1
  <2>5. request[Len(f[i - 1]) + 1] = Output(m)
    BY <1>14, <2>1, <2>2, <2>4 DEF HoldsPart
  <2>6. ((3 + L) + (m - 1)) + 1 = (3 + L) + m
    BY <1>1
  <2> QED
    BY <2>3, <2>5, <2>6
<1>21. request \in Seq(RequestItems)
  <2>1. 4 + R \in 0 .. 4 + R
    BY <1>1
  <2> QED
    BY <1>4, <1>11, <2>1
<1> QED
  BY <1>17, <1>18, <1>19, <1>20, <1>21 DEF RequestOf, R, L, Output, request, history

\* Ids are of three families, and of different items they differ.
LEMMA IdFamilies ==
  ASSUME NEW m, NEW n, NEW k, NEW l, NEW t, NEW u
  PROVE  /\ ItemId(m) = ItemId(n) => m = n
         /\ CallId(m) = CallId(n) => m = n
         /\ FallbackId(t, k) = FallbackId(u, l) => t = u /\ k = l
         /\ ItemId(m) # CallId(n)
         /\ ItemId(m) # FallbackId(t, k)
         /\ CallId(m) # FallbackId(t, k)
<1>1. "item" # "call" /\ "item" # "msg" /\ "call" # "msg"
  OBVIOUS
<1>2. \A x, y : <<x, y>>[1] = x /\ <<x, y>>[2] = y
  OBVIOUS
<1>3. \A x, y, z : <<x, y, z>>[1] = x /\ <<x, y, z>>[2] = y /\ <<x, y, z>>[3] = z
  OBVIOUS
<1>4. ItemId(m)[1] = "item" /\ ItemId(m)[2] = m /\ ItemId(n)[2] = n
  BY <1>2 DEF ItemId
<1>5. CallId(n)[1] = "call" /\ CallId(m)[1] = "call" /\ CallId(m)[2] = m /\ CallId(n)[2] = n
  BY <1>2 DEF CallId
<1>6. /\ FallbackId(t, k)[1] = "msg" /\ FallbackId(t, k)[2] = t /\ FallbackId(t, k)[3] = k
      /\ FallbackId(u, l)[2] = u /\ FallbackId(u, l)[3] = l
  BY <1>3 DEF FallbackId
<1> QED
  BY <1>1, <1>4, <1>5, <1>6

\* Every item said is some item's.
LEMMA SaidItems ==
  ASSUME NEW items \in Seq(SentItems), NEW said, TurnIsSaid(said, items, 1),
         NEW p \in 1 .. Len(said)
  PROVE  \E j \in 1 .. Len(items) :
           /\ Kept(items[j]) /\ p = KeptPlace(items, j)
           /\ said[p] = SaidOf(items[j], 1, Place(items, j))
<1>1. CountsAll(KeptOf(items), Len(items)) /\ Len(items) \in Nat
  BY CountFacts
<1>2. \A j \in 0 .. Len(items) : KeptPlace(items, j) = Count(KeptOf(items), j)
  BY PlacesCount
<1>3. Len(items) \in 0 .. Len(items) /\ \A j \in 1 .. Len(items) : j \in 0 .. Len(items)
  BY <1>1
<1>4. p \in 1 .. Count(KeptOf(items), Len(items))
  BY <1>2, <1>3 DEF TurnIsSaid
<1>5. PICK j \in 1 .. Len(items) : j \in KeptOf(items) /\ Count(KeptOf(items), j) = p
  BY <1>1, <1>4 DEF CountsAll
<1>6. Kept(items[j]) /\ p = KeptPlace(items, j)
  BY <1>2, <1>3, <1>5 DEF KeptOf
<1> QED
  BY <1>6 DEF TurnIsSaid

\* Different items that become blocks have different places.
LEMMA PlacesDiffer ==
  ASSUME NEW items \in Seq(SentItems), NEW i \in 1 .. Len(items), NEW j \in 1 .. Len(items),
         items[i].kind \in Kinds, items[j].kind \in Kinds, Place(items, i) = Place(items, j)
  PROVE  i = j
<1>1. CountsAll(Blocked(items), Len(items)) /\ i \in Nat /\ j \in Nat
  BY CountFacts
<1>2. Count(Blocked(items), i) = Count(Blocked(items), j)
  BY <1>1, PlacesCount
<1>3. i \in Blocked(items) /\ j \in Blocked(items)
  BY <1>1 DEF Blocked
<1> QED
  BY <1>1, <1>2, <1>3 DEF CountsAll

\* Two items of one turn get different ids, and neither gets the other turn's.
LEMMA SaidIdsDiffer ==
  ASSUME NEW items \in Seq(SentItems), Numbered(items),
         NEW i \in 1 .. Len(items), NEW j \in 1 .. Len(items),
         Kept(items[i]), Kept(items[j])
  PROVE  /\ SaidOf(items[i], 1, Place(items, i)).id = SaidOf(items[j], 1, Place(items, j)).id =>
              i = j
         /\ SaidOf(items[i], 1, Place(items, i)).id # OtherMessage.id
<1> DEFINE IdOf(k) ==
             IF items[k].phase = "done" THEN ItemId(k)
             ELSE IF items[k].kind = "text" THEN FallbackId(1, Place(items, k)) ELSE CallId(k)
<1>1. ASSUME NEW k \in 1 .. Len(items)
      PROVE  SaidOf(items[k], 1, Place(items, k)).id = IdOf(k)
  <2>1. items[k].id = k
    BY DEF Numbered
  <2> QED
    BY <2>1 DEF SaidOf
<1>2. OtherMessage.id = FallbackId(0, 1) /\ 0 # 1
  BY DEF OtherMessage
<1>3. items[i].kind \in Kinds /\ items[j].kind \in Kinds
  BY DEF Kept
<1>4. Place(items, i) = Place(items, j) => i = j
  BY <1>3, PlacesDiffer
<1>5. IdOf(i) = IdOf(j) => i = j
  BY <1>4, IdFamilies
<1>6. IdOf(i) # FallbackId(0, 1)
  BY <1>2, IdFamilies
<1> QED
  BY <1>1, <1>2, <1>5, <1>6

\* No two items of the request that follow from a response have one id.
IdsAreDistinct(request) ==
  \A j, k \in DOMAIN request :
    j # k /\ {request[j].type, request[k].type} \subseteq Kinds => request[j].id # request[k].id

\* So no id comes twice.
LEMMA RequestIdsDiffer ==
  ASSUME NEW items \in Seq(SentItems), Numbered(items), NEW results \in Seq(Results),
         NEW said \in Seq(RequestItems), NEW request, RequestOf(request, said, results),
         said = <<>> \/ TurnIsSaid(said, items, 1)
  PROVE  IdsAreDistinct(request)
<1> DEFINE L == Len(said)
           R == Len(results)
           Source(j, p) == /\ Kept(items[j]) /\ p = 3 + KeptPlace(items, j)
                           /\ request[p] = SaidOf(items[j], 1, Place(items, j))
<1>1. L \in Nat /\ R \in Nat /\ DOMAIN request = 1 .. (3 + L) + R
  BY DEF RequestOf
<1>2. ASSUME NEW p \in DOMAIN request, request[p].type \in Kinds
      PROVE  p = 2 \/ \E j \in 1 .. Len(items) : Source(j, p)
  <2>1. CASE p = 1 \/ p = 3
    <3>1. request[p].type = "user"
      BY <2>1 DEF RequestOf
    <3> QED
      BY <1>2, <3>1 DEF Kinds
  <2>2. CASE p \in 4 .. 3 + L
    <3> DEFINE q == p - 3
    <3>1. q \in 1 .. L /\ 3 + q = p
      BY <1>1, <2>2
    <3>2. request[3 + q] = said[q]
      BY <3>1 DEF RequestOf
    <3>3. TurnIsSaid(said, items, 1)
      <4>1. Len(<<>>) = 0 /\ 1 .. 0 = {}
        OBVIOUS
      <4> QED
        BY <3>1, <4>1
    <3> HIDE DEF q
    <3>4. PICK j \in 1 .. Len(items) :
            /\ Kept(items[j]) /\ q = KeptPlace(items, j)
            /\ said[q] = SaidOf(items[j], 1, Place(items, j))
      BY <3>1, <3>3, SaidItems
    <3> QED
      BY <3>1, <3>2, <3>4
  <2>3. CASE p \in (3 + L) + 1 .. (3 + L) + R
    <3> DEFINE m == p - (3 + L)
    <3>1. m \in 1 .. R /\ (3 + L) + m = p
      <4> HIDE DEF L, R
      <4>1. p \in Int
        BY <1>1, <2>3
      <4> QED
        BY <1>1, <2>3, <4>1
    <3> HIDE DEF m
    <3>2. \A n \in 1 .. R : request[(3 + L) + n] = [type |-> "output", call |-> results[n].call]
      BY DEF RequestOf
    <3>3. request[(3 + L) + m].type = "output"
      <4> HIDE DEF L, R
      <4>1. request[(3 + L) + m] = [type |-> "output", call |-> results[m].call]
        BY <3>1, <3>2
      <4> QED
        BY <4>1
    <3> QED
      BY <1>2, <3>1, <3>3 DEF Kinds
  <2>4. p = 1 \/ p = 2 \/ p = 3 \/ p \in 4 .. 3 + L \/ p \in (3 + L) + 1 .. (3 + L) + R
    BY <1>1
  <2> QED
    BY <2>1, <2>2, <2>3, <2>4
<1> SUFFICES ASSUME NEW p \in DOMAIN request, NEW q \in DOMAIN request, p # q,
                    request[p].type \in Kinds, request[q].type \in Kinds
             PROVE  request[p].id # request[q].id
  BY DEF IdsAreDistinct
<1>3. request[2] = OtherMessage
  BY DEF RequestOf
<1>4. ASSUME NEW j \in 1 .. Len(items), NEW r, Source(j, r)
      PROVE  request[r].id # OtherMessage.id
  BY <1>4, SaidIdsDiffer
<1>5. CASE p = 2
  <2>1. PICK j \in 1 .. Len(items) : Source(j, q)
    BY <1>2, <1>5
  <2> HIDE DEF Source
  <2> QED
    BY <1>3, <1>4, <1>5, <2>1
<1>6. CASE q = 2
  <2>1. PICK j \in 1 .. Len(items) : Source(j, p)
    BY <1>2, <1>6
  <2> HIDE DEF Source
  <2> QED
    BY <1>3, <1>4, <1>6, <2>1
<1>7. CASE p # 2 /\ q # 2
  <2>1. PICK i \in 1 .. Len(items) : Source(i, p)
    BY <1>2, <1>7
  <2>2. PICK j \in 1 .. Len(items) : Source(j, q)
    BY <1>2, <1>7
  <2>3. i # j
    BY <2>1, <2>2
  <2>4. SaidOf(items[i], 1, Place(items, i)).id # SaidOf(items[j], 1, Place(items, j)).id
    BY <2>1, <2>2, <2>3, SaidIdsDiffer
  <2> QED
    BY <2>1, <2>2, <2>4
<1> QED
  BY <1>5, <1>6, <1>7

\* An item is numbered when it is added, and keeps its number.
LEMMA NumberedNext ==
  ASSUME ProviderTypeOK, Numbered(sent), [Next]_vars
  PROVE  Numbered(sent)'
<1>1. sent \in Seq(SentItems) /\ Len(sent) \in Nat /\ DOMAIN sent = 1 .. Len(sent)
  BY DEF ProviderTypeOK
<1>2. ASSUME NEW kind \in Kinds \union {"other"}, NEW arguments \in Arguments,
             ItemAdded(kind, arguments)
      PROVE  Numbered(sent)'
  <2>1. NewItem(kind, arguments) \in SentItems /\ NewItem(kind, arguments).id = Len(sent) + 1
    BY <1>2, NewItemFacts
  <2>2. sent' = Append(sent, NewItem(kind, arguments))
    BY <1>2 DEF ItemAdded
  <2>3. /\ Len(sent') = Len(sent) + 1 /\ sent' \in Seq(SentItems)
        /\ sent'[Len(sent) + 1] = NewItem(kind, arguments)
        /\ \A j \in 1 .. Len(sent) : sent'[j] = sent[j]
    BY <1>1, <2>1, <2>2, AppendFacts
  <2>4. DOMAIN sent' = 1 .. Len(sent) + 1
    BY <2>3
  <2>5. ASSUME NEW j \in 1 .. Len(sent) + 1 PROVE sent'[j].id = j
    <3>1. CASE j = Len(sent) + 1
      BY <2>1, <2>3, <3>1
    <3>2. CASE j # Len(sent) + 1
      <4>1. j \in 1 .. Len(sent)
        BY <1>1, <3>2
      <4> QED
        BY <1>1, <2>3, <4>1 DEF Numbered
    <3> QED
      BY <3>1, <3>2
  <2> QED
    BY <2>4, <2>5 DEF Numbered
<1>3. ASSUME UNCHANGED sent PROVE Numbered(sent)'
  BY <1>3 DEF Numbered
<1>4. ASSUME DOMAIN sent' = DOMAIN sent, \A j \in DOMAIN sent : sent'[j].id = sent[j].id
      PROVE  Numbered(sent)'
  BY <1>4 DEF Numbered
<1>5. ASSUME OpenItem PROVE Len(sent) \in 1 .. Len(sent)
  <2>1. sent # <<>> => Len(sent) # 0
    BY <1>1
  <2> QED
    BY <1>1, <1>5, <2>1 DEF OpenItem
<1>6. ASSUME NEW part, ItemDelta(part) PROVE Numbered(sent)'
  <2>1. OpenItem /\ sent' = [sent EXCEPT ![Len(sent)].parts = Append(Last(sent).parts, part)]
    BY <1>6 DEF ItemDelta
  <2> QED
    BY <1>1, <1>4, <1>5, <2>1
<1>7. ASSUME NEW arguments, ArgumentsDone(arguments) PROVE Numbered(sent)'
  <2>1. OpenItem /\ sent' = [sent EXCEPT ![Len(sent)].phase = "final",
                                         ![Len(sent)].final = arguments]
    BY <1>7 DEF ArgumentsDone
  <2> QED
    BY <1>1, <1>4, <1>5, <2>1
<1>8. ASSUME NEW final, ItemDone(final) PROVE Numbered(sent)'
  <2>1. OpenItem /\ sent' = [sent EXCEPT ![Len(sent)].phase = "done", ![Len(sent)].final = final]
    BY <1>8 DEF ItemDone
  <2> QED
    BY <1>1, <1>4, <1>5, <2>1
<1> QED
  BY <1>2, <1>3, <1>6, <1>7, <1>8
     DEF Next, vars, Created, Completed, CutAtLength, Fails, Ends

\* Whatever the response was and however it ended, the next request gives every
\* item back that it can, under ids that do not collide, with an output for every
\* call, and nothing of a response that failed.
THEOREM ReplayAlwaysKeepsTheItems == Spec => []ReplayKeepsTheItems
<1>1. Init => Numbered(sent)
  BY DEF Init, Numbered
<1>2. ProviderInv /\ Numbered(sent) /\ [Next]_vars => Numbered(sent)'
  BY NumberedNext DEF ProviderInv
<1>3. ProviderInv /\ Numbered(sent) => ReplayKeepsTheItems
  <2> SUFFICES ASSUME ProviderInv, Numbered(sent), NEW i \in DOMAIN events,
                      events[i].type \in {"stream_done", "stream_error"}
               PROVE  LET request == SerializeHistoryItems(LongHistoryAfter(events[i]))
                      IN  /\ IF events[i].type = "stream_done" THEN FollowUp(request, sent)
                             ELSE Len(request) = 3
                          /\ IdsAreDistinct(request)
    BY DEF ReplayKeepsTheItems, IdsAreDistinct
  <2> DEFINE e == events[i]
             done == e.type = "stream_done"
             turn == TurnOf(e)
             results == IF done THEN ToolResults(blocks) ELSE <<>>
             said == IF done THEN SerializeTurn(blocks, 1) ELSE <<>>
             request == SerializeHistoryItems(LongHistoryAfter(e))
  <2>1. sent \in Seq(SentItems) /\ blocks \in Seq(Blocks) /\ BlocksAreTheItems(blocks, sent)
    BY DEF ProviderInv, ProviderTypeOK
  <2>2. e.blocks = blocks
    BY DEF ProviderInv, TerminalsLast, Terminal
  <2>3. TurnIsSaid(SerializeTurn(blocks, 1), sent, 1)
    BY <2>1, TurnFromItems
  <2>4. ResultsFollow(ToolResults(blocks), sent)
    BY <2>1, ResultsFromItems
  <2>5. /\ turn = [role |-> "assistant", blocks |-> blocks,
                   status |-> IF done THEN "completed" ELSE "error"]
        /\ turn.role = "assistant" /\ turn.blocks = blocks
        /\ turn.status = "completed" <=> done
    BY <2>2 DEF TurnOf
  <2>6. turn \in Entries
    BY <2>1, <2>5 DEF Entries
  <2>7. results \in Seq(Results) /\ said \in Seq(RequestItems)
    BY <2>3, <2>4 DEF TurnIsSaid, ResultsFollow
  <2>8. LongHistoryAfter(e) = HistoryOf(turn, results)
    BY <2>2 DEF LongHistoryAfter, HistoryAfter, HistoryOf, CutTurn, CutMessage
  <2>9. said = IF turn.status = "completed" THEN SerializeTurn(turn.blocks, 1) ELSE <<>>
    BY <2>5
  <2> HIDE DEF turn, results, said, done, e
  <2>10. RequestOf(request, said, results)
    BY <2>5, <2>6, <2>7, <2>8, <2>9, RequestFromHistory
  <2> HIDE DEF request
  <2>11. said = <<>> \/ TurnIsSaid(said, sent, 1)
    BY <2>3 DEF said
  <2>12. IdsAreDistinct(request)
    BY <2>1, <2>7, <2>10, <2>11, RequestIdsDiffer
  <2>13. ASSUME ~done PROVE Len(request) = 3
    <3>1. Len(said) = 0 /\ Len(results) = 0
      BY <2>13 DEF said, results
    <3> QED
      BY <2>10, <3>1 DEF RequestOf
  <2>14. ASSUME done PROVE FollowUp(request, sent)
    <3>1. TurnIsSaid(said, sent, 1) /\ ResultsFollow(results, sent)
      BY <2>3, <2>4, <2>14 DEF said, results
    <3> DEFINE kept == KeptPlace(sent, Len(sent))
               calls == CallPlace(sent, Len(sent))
    <3>2. Len(said) = kept /\ Len(results) = calls /\ Len(request) = 3 + kept + calls
      BY <2>10, <3>1 DEF TurnIsSaid, ResultsFollow, RequestOf
    <3>3. \A p \in 1 .. kept : request[3 + p] = said[p]
      BY <2>10, <3>2 DEF RequestOf
    <3>4. \A m \in 1 .. calls :
            request[3 + kept + m] = [type |-> "output", call |-> results[m].call]
      BY <2>10, <3>2 DEF RequestOf
    <3>5. CountsAll(KeptOf(sent), Len(sent)) /\ CountsAll(CallsOf(sent), Len(sent))
      BY <2>1, CountFacts
    <3>6. \A j \in 0 .. Len(sent) : /\ KeptPlace(sent, j) = Count(KeptOf(sent), j)
                                    /\ CallPlace(sent, j) = Count(CallsOf(sent), j)
      BY PlacesCount
    <3>7. /\ Len(sent) \in 0 .. Len(sent) /\ DOMAIN sent = 1 .. Len(sent)
          /\ \A j \in 1 .. Len(sent) : j \in 0 .. Len(sent) /\ j \in Nat
      BY <2>1
    <3>8. ASSUME NEW j \in DOMAIN sent, Kept(sent[j])
          PROVE  GivesBack(request[3 + KeptPlace(sent, j)], sent[j])
      <4>1. sent[j] \in SentItems /\ sent[j].id # 0 /\ sent[j].kind \in Kinds
        BY <2>1, <3>7, <3>8 DEF Numbered, Kept
      <4>2. KeptPlace(sent, j) \in 1 .. kept
        <5>1. j \in KeptOf(sent) /\ j \in 1 .. Len(sent)
          BY <3>7, <3>8 DEF KeptOf
        <5>2. Count(KeptOf(sent), j) \in 1 .. Count(KeptOf(sent), Len(sent))
          BY <3>5, <5>1 DEF CountsAll
        <5> QED
          BY <3>6, <3>7, <5>1, <5>2
      <4>3. request[3 + KeptPlace(sent, j)] = SaidOf(sent[j], 1, Place(sent, j))
        BY <3>1, <3>3, <3>7, <3>8, <4>2 DEF TurnIsSaid
      <4>4. Place(sent, j) \in Nat
        BY <3>7, PlaceStep
      <4> QED
        BY <4>1, <4>3, <4>4, BlockIsSaid
    <3>9. ASSUME NEW j \in DOMAIN sent, sent[j].kind = "tool"
          PROVE  request[3 + kept + CallPlace(sent, j)] = [type |-> "output", call |-> sent[j].id]
      <4>1. CallPlace(sent, j) \in 1 .. calls
        <5>1. j \in CallsOf(sent) /\ j \in 1 .. Len(sent)
          BY <3>7, <3>9 DEF CallsOf
        <5>2. Count(CallsOf(sent), j) \in 1 .. Count(CallsOf(sent), Len(sent))
          BY <3>5, <5>1 DEF CountsAll
        <5> QED
          BY <3>6, <3>7, <5>1, <5>2
      <4>2. results[CallPlace(sent, j)].call = sent[j].id
        BY <3>1, <3>7, <3>9 DEF ResultsFollow
      <4> QED
        BY <3>4, <4>1, <4>2
    <3> QED
      BY <3>2, <3>8, <3>9 DEF FollowUp
  <2> QED
    BY <2>12, <2>13, <2>14 DEF done, e, request
<1> QED
  BY <1>1, <1>2, <1>3, ProviderInvariant, PTL DEF Spec
-----------------------------------------------------------------------------
(* The live log.                                                           *)

\* A consumer is in one of its states and has not run ahead of the log.
LogTypeOK ==
    /\ emitted \in Nat
    /\ finalized \in BOOLEAN
    /\ pc \in [Consumers -> {"new", "ready", "yielded", "waiting", "done", "gone"}]
    /\ index \in [Consumers -> Nat]
    /\ \A c \in Consumers : index[c] <= emitted

LogInv == LogTypeOK /\ NoLostWakeup /\ EndedStreamIsWhole

-----------------------------------------------------------------------------
\* Nobody waits or is done when a run's log has its first event.
LEMMA LogInvInit == LogInit => LogInv
<1> SUFFICES ASSUME LogInit PROVE LogInv
  OBVIOUS
<1>1. \A c \in Consumers : pc[c] = "new" /\ index[c] = 0
  BY DEF LogInit
<1>2. emitted \in Nat /\ 0 <= emitted
  BY DEF LogInit
<1>3. finalized \in BOOLEAN
  BY DEF LogInit
<1>4. /\ pc \in [Consumers -> {"new", "ready", "yielded", "waiting", "done", "gone"}]
      /\ index \in [Consumers -> Nat]
  BY DEF LogInit
<1>5. LogTypeOK
  BY <1>1, <1>2, <1>3, <1>4 DEF LogTypeOK
<1>6. NoLostWakeup /\ EndedStreamIsWhole
  BY <1>1 DEF NoLostWakeup, EndedStreamIsWhole
<1> QED
  BY <1>5, <1>6 DEF LogInv

\* What wakes every waiter leaves the others where they were.
LEMMA WokenType ==
    ASSUME LogTypeOK
    PROVE  /\ Woken \in [Consumers -> {"new", "ready", "yielded", "done", "gone"}]
           /\ \A c \in Consumers : Woken[c] = "done" => pc[c] = "done"
BY DEF LogTypeOK, Woken

\* Every step keeps the invariant, one step of the proof per action.
LEMMA LogInvNext == LogInv /\ [LogNext]_logVars => LogInv'
<1> SUFFICES ASSUME LogInv, [LogNext]_logVars PROVE LogInv'
  OBVIOUS
<1> USE DEF LogInv, LogTypeOK, NoLostWakeup, EndedStreamIsWhole
<1>1. CASE Emit
  BY <1>1, WokenType DEF Emit, Publish
<1>2. CASE Finalize
  BY <1>2, WokenType DEF Finalize, Publish
<1>3. ASSUME NEW c \in Consumers, Subscribe(c) PROVE LogInv'
  BY <1>3 DEF Subscribe
<1>4. ASSUME NEW c \in Consumers, Yield(c) PROVE LogInv'
  BY <1>4 DEF Yield
<1>5. ASSUME NEW c \in Consumers, Stop(c) PROVE LogInv'
  BY <1>5 DEF Stop
<1>6. ASSUME NEW c \in Consumers, Wait(c) PROVE LogInv'
  BY <1>6 DEF Wait
<1>7. ASSUME NEW c \in Consumers, Leave(c) PROVE LogInv'
  BY <1>7 DEF Leave
<1>8. CASE UNCHANGED logVars
  BY <1>8 DEF logVars
<1> QED
  BY <1>1, <1>2, <1>3, <1>4, <1>5, <1>6, <1>7, <1>8 DEF LogNext, Consume

-----------------------------------------------------------------------------
\* The invariant holds in every reachable state.
THEOREM LogInvariant == LogSpec => []LogInv
BY LogInvInit, LogInvNext, PTL DEF LogSpec

\* However many consumers clear the shared flag, none waits for a wake-up that
\* has already been given.
THEOREM LogNoLostWakeup == LogSpec => []NoLostWakeup
BY LogInvariant, PTL DEF LogInv

\* A stream that ends has delivered the whole log with its terminal event.
THEOREM LogEndsWhole == LogSpec => []EndedStreamIsWhole
BY LogInvariant, PTL DEF LogInv
=============================================================================
