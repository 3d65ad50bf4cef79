-------------------------- MODULE CappedExecuteProofs --------------------------
(***************************************************************************)
(* What execute returns is honest, for pipes, caps and reads of any size   *)
(* and however much a search writes.  CappedInv is inductive: a coroutine  *)
(* that has left stdout behind, and was not cancelled, has a process that  *)
(* writes no more, so what it counted then is still all there is.          *)
(***************************************************************************)
EXTENDS CappedExecute, WellFoundedInduction, TLAPS

LEMMA LeastNat ==
  ASSUME NEW T, T \subseteq Nat, T # {}
  PROVE  \E m \in T : \A n \in T : m <= n
<1> DEFINE R == OpToRel(<, Nat)
<1>1. IsWellFoundedOn(R, Nat)
  BY NatLessThanWellFounded
<1>2. \A x, y \in Nat : x < y => <<x, y>> \in R
  BY DEF OpToRel
<1> HIDE DEF R
<1>3. PICK m \in T : \A n \in T : ~(<<n, m>> \in R)
  BY <1>1, WFMin
<1>4. \A n \in T : ~(n < m)
  BY <1>2, <1>3
<1> QED
  BY <1>3, <1>4

LEMMA MaxFacts ==
  ASSUME NEW N \in Nat, NEW T, T \subseteq 0..N, T # {}
  PROVE  Max(T) \in T /\ \A n \in T : n <= Max(T)
<1> DEFINE U == {N - n : n \in T}
<1>1. \A n \in T : n \in 0..N /\ N - n \in Nat
  OBVIOUS
<1>2. U \subseteq Nat /\ U # {}
  BY <1>1
<1>3. PICK k \in U : \A n \in U : k <= n
  BY <1>2, LeastNat
<1>4. PICK m \in T : k = N - m
  OBVIOUS
<1>5. \A n \in T : m >= n
  BY <1>1, <1>3, <1>4
<1> QED
  BY <1>4, <1>5 DEF Max

LEMMA MinOfTwo ==
  ASSUME NEW a \in Nat, NEW b \in Nat
  PROVE  Min({a, b}) = IF a <= b THEN a ELSE b
<1>1. \A x \in {a, b} : (\A y \in {a, b} : x <= y) => x = IF a <= b THEN a ELSE b
  OBVIOUS
<1>2. \E x \in {a, b} : \A y \in {a, b} : x <= y
  OBVIOUS
<1> QED
  BY <1>1, <1>2 DEF Min

\* What is kept is a prefix of the data and ends with a newline.
LEMMA CompleteLinesFacts ==
  ASSUME NEW data \in Seq({"x", "nl"}), CompleteLines(data) # <<>>
  PROVE  /\ CompleteLines(data) \in Seq({"x", "nl"})
         /\ Len(CompleteLines(data)) \in 1..Len(data)
         /\ Last(CompleteLines(data)) = "nl"
         /\ \A i \in 1..Len(CompleteLines(data)) : CompleteLines(data)[i] = data[i]
<1> DEFINE T == {0} \union {i \in DOMAIN data : data[i] = "nl"}
           n == Max(T)
<1>1. Len(data) \in Nat /\ T \subseteq 0..Len(data) /\ T # {}
  OBVIOUS
<1>2. n \in T
  BY <1>1, MaxFacts
<1>3. CompleteLines(data) = SubSeq(data, 1, n)
  BY DEF CompleteLines
<1>4. n \in 0..Len(data)
  BY <1>1, <1>2
<1> HIDE DEF n
<1>5. /\ CompleteLines(data) \in Seq({"x", "nl"}) /\ Len(CompleteLines(data)) = n
      /\ \A i \in 1..n : CompleteLines(data)[i] = data[i]
  BY <1>3, <1>4
<1>6. n # 0
  BY <1>5
<1>7. data[n] = "nl"
  BY <1>2, <1>6
<1> QED
  BY <1>4, <1>5, <1>6, <1>7 DEF Last
-----------------------------------------------------------------------------
TypeOK ==
  /\ out \in Seq({"x", "nl"}) /\ errWritten \in Nat
  /\ process \in {"running", "zombie", "reaped"}
  /\ code \in {"none", "allowed", "refused", "killed"}
  /\ outRead \in Nat /\ buffered \in Nat
  /\ errRead \in Nat /\ errKept \in Nat /\ errDone \in BOOLEAN
  /\ pc \in {"stdout", "waiting", "stderr", "returned"} /\ capped \in BOOLEAN
  /\ result \in {"none", "whole", "cut", "noline", "error", "cancelled"}

\* Nothing is read that was not written; of stderr the beginning is kept.
ReadsAgree ==
  /\ outRead + buffered <= Len(out)
  /\ errRead <= errWritten
  /\ errKept = IF ErrCap <= errRead THEN ErrCap ELSE errRead

\* Where the coroutine is, and what it knows there.
CoroutineAgrees ==
  /\ pc = "returned" <=> result # "none"
  /\ pc = "stdout" => ~capped /\ buffered = 0
  /\ pc # "stdout" /\ result # "cancelled" =>
       process # "running" /\ (capped \/ outRead = Len(out))
  /\ errDone /\ result # "cancelled" => process # "running" /\ errRead = errWritten

\* What a result rests on.
ResultAgrees ==
  /\ result = "whole" => ~capped /\ code = "allowed"
  /\ result = "cut" => CompleteLines(Collected) # <<>>
  /\ result = "error" => errDone

CappedInv == TypeOK /\ ReadsAgree /\ CoroutineAgrees /\ ResultAgrees

LEMMA Caps == OutCap \in Nat /\ ErrCap \in Nat /\ ChunkSize \in Nat
BY CapAssumption

LEMMA CappedInvInit == Init => CappedInv
<1> SUFFICES ASSUME Init PROVE CappedInv
  OBVIOUS
<1>1. <<>> \in Seq({"x", "nl"}) /\ Len(<<>>) = 0
  OBVIOUS
<1>2. TypeOK
  BY <1>1 DEF Init, TypeOK
<1>3. ReadsAgree
  BY <1>1, Caps DEF Init, ReadsAgree
<1>4. CoroutineAgrees /\ ResultAgrees
  BY DEF Init, CoroutineAgrees, ResultAgrees
<1> QED
  BY <1>2, <1>3, <1>4 DEF CappedInv

LEMMA ProcessKeeps ==
  ASSUME CappedInv, WriteUnit \/ Exit \/ Reap
  PROVE  CappedInv'
<1> USE DEF CappedInv
<1>1. CASE WriteUnit
  <2>1. /\ process = "running" /\ process' = process /\ code' = code /\ outRead' = outRead
        /\ buffered' = buffered /\ UNCHANGED coroutine
        /\ errRead' = errRead /\ errKept' = errKept /\ errDone' = errDone
    BY <1>1 DEF WriteUnit, stderrTask
  <2>2. pc' = pc /\ capped' = capped /\ result' = result
    BY <2>1 DEF coroutine
  <2>3. \/ \E unit \in {"x", "nl"} : out' = Append(out, unit) /\ errWritten' = errWritten
        \/ out' = out /\ errWritten' = errWritten + 1
    BY <1>1 DEF WriteUnit
  <2>4. /\ out' \in Seq({"x", "nl"}) /\ errWritten' \in Nat
        /\ Len(out) <= Len(out') /\ errWritten <= errWritten'
    BY <2>3, SMTT(20) DEF TypeOK
  <2>5. TypeOK'
    BY <2>1, <2>2, <2>4 DEF TypeOK
  <2>6. ReadsAgree'
    BY <2>1, <2>4 DEF ReadsAgree, TypeOK
  <2>7. CoroutineAgrees'
    BY <2>1, <2>2 DEF CoroutineAgrees
  <2>8. ResultAgrees'
    BY <2>1, <2>2 DEF CoroutineAgrees, ResultAgrees
  <2> QED
    BY <2>5, <2>6, <2>7, <2>8
<1>2. CASE Exit \/ Reap
  <2>1. /\ UNCHANGED coroutine /\ outRead' = outRead /\ buffered' = buffered
        /\ out' = out /\ errWritten' = errWritten
        /\ errRead' = errRead /\ errKept' = errKept /\ errDone' = errDone
    BY <1>2 DEF Exit, Reap, stderrTask
  <2>2. pc' = pc /\ capped' = capped /\ result' = result
    BY <2>1 DEF coroutine
  <2>3. /\ process' \in {"zombie", "reaped"} /\ code' \in {"none", "allowed", "refused", "killed"}
        /\ process # "running" => code' = code
        /\ process = "running" => code' # "none"
    BY <1>2 DEF Exit, Reap, TypeOK
  <2>4. TypeOK' /\ ReadsAgree'
    BY <2>1, <2>2, <2>3 DEF TypeOK, ReadsAgree
  <2> QED
    BY <2>1, <2>2, <2>3, <2>4
       DEF CoroutineAgrees, ResultAgrees, Collected, CompleteLines
<1> QED
  BY <1>1, <1>2

LEMMA BufferKeeps ==
  ASSUME CappedInv, Buffer
  PROVE  CappedInv'
<1> USE DEF CappedInv
<1>1. /\ pc # "stdout" /\ OutInPipe > 0 /\ buffered' = buffered + 1
      /\ UNCHANGED coroutine /\ outRead' = outRead
      /\ out' = out /\ errWritten' = errWritten /\ process' = process /\ code' = code
      /\ errRead' = errRead /\ errKept' = errKept /\ errDone' = errDone
  BY DEF Buffer, child, stderrTask
<1>2. pc' = pc /\ capped' = capped /\ result' = result
  BY <1>1 DEF coroutine
<1>3. TypeOK'
  BY <1>1, <1>2 DEF TypeOK
<1>4. ReadsAgree'
  <2>1. Len(out) \in Nat /\ outRead \in Nat /\ buffered \in Nat
    BY DEF TypeOK
  <2> QED
    BY <1>1, <2>1 DEF ReadsAgree, OutInPipe
<1> QED
  BY <1>1, <1>2, <1>3, <1>4
     DEF CoroutineAgrees, ResultAgrees, Collected, CompleteLines

LEMMA StderrKeeps ==
  ASSUME CappedInv, Stderr
  PROVE  CappedInv'
<1> USE DEF CappedInv
<1>1. /\ ~errDone /\ UNCHANGED coroutine /\ outRead' = outRead /\ buffered' = buffered
      /\ out' = out /\ errWritten' = errWritten /\ process' = process /\ code' = code
  BY DEF Stderr, ReadStderr, StderrEnds, child
<1>2. pc' = pc /\ capped' = capped /\ result' = result
  BY <1>1 DEF coroutine
<1>3. errRead \in Nat /\ errKept \in Nat /\ errWritten \in Nat
  BY DEF TypeOK
<1>4. CASE ReadStderr
  <2>1. PICK n \in 1..ChunkSize :
          n <= ErrInPipe /\ errRead' = errRead + n /\ errKept' = Min({ErrCap, errKept + n})
    BY <1>4 DEF ReadStderr
  <2>2. errDone' = errDone
    BY <1>4 DEF ReadStderr
  <2>3. n \in Nat
    BY <2>1, Caps
  <2>4. errKept' = IF ErrCap <= errKept + n THEN ErrCap ELSE errKept + n
    BY <1>3, <2>1, <2>3, Caps, MinOfTwo
  <2>5. /\ errRead' <= errWritten
        /\ errKept' = IF ErrCap <= errRead' THEN ErrCap ELSE errRead'
    <3>1. n <= errWritten - errRead
      BY <2>1 DEF ErrInPipe
    <3>2. errRead' <= errWritten
      BY <1>3, <2>1, <2>3, <3>1
    <3>3. errKept = IF ErrCap <= errRead THEN ErrCap ELSE errRead
      BY DEF ReadsAgree
    <3>4. ErrCap <= errKept + n <=> ErrCap <= errRead + n
      BY <1>3, <2>3, <3>3, Caps
    <3>5. errKept' = IF ErrCap <= errRead' THEN ErrCap ELSE errRead'
      BY <1>3, <2>1, <2>3, <2>4, <3>3, <3>4, Caps
    <3> QED
      BY <3>2, <3>5
  <2>6. errRead' \in Nat /\ errKept' \in Nat
    BY <1>3, <2>1, <2>3, <2>4, Caps
  <2>7. TypeOK' /\ ReadsAgree'
    BY <1>1, <1>2, <2>2, <2>5, <2>6 DEF TypeOK, ReadsAgree
  <2> QED
    BY <1>1, <1>2, <2>2, <2>7 DEF CoroutineAgrees, ResultAgrees, Collected, CompleteLines
<1>5. CASE StderrEnds
  <2>1. ErrInPipe = 0 /\ process # "running" /\ errDone' = TRUE
        /\ errRead' = errRead /\ errKept' = errKept
    BY <1>5 DEF StderrEnds
  <2>2. errRead = errWritten
    BY <1>3, <2>1 DEF ErrInPipe
  <2>3. TypeOK' /\ ReadsAgree'
    BY <1>1, <1>2, <2>1 DEF TypeOK, ReadsAgree
  <2> QED
    BY <1>1, <1>2, <2>1, <2>2, <2>3
       DEF CoroutineAgrees, ResultAgrees, Collected, CompleteLines
<1> QED
  BY <1>4, <1>5 DEF Stderr

LEMMA CoroutineKeeps ==
  ASSUME CappedInv, Coroutine
  PROVE  CappedInv'
<1> USE DEF CappedInv
<1>1. /\ out' = out /\ errWritten' = errWritten /\ buffered' = buffered
      /\ errRead' = errRead /\ errKept' = errKept /\ errDone' = errDone
  BY DEF Coroutine, ReadStdout, StdoutEnds, WaitReturns, Return, child, stderrTask
<1>2. Len(out) \in Nat /\ outRead \in Nat /\ buffered \in Nat
  BY DEF TypeOK
<1>3. CASE ReadStdout
  <2>1. PICK n \in 1..ChunkSize :
          n <= OutInPipe /\ outRead' = outRead + n /\ capped' = (outRead + n >= OutCap)
    BY <1>3 DEF ReadStdout
  <2>2. n \in Nat
    BY <2>1, Caps
  <2>3. outRead' \in Nat /\ outRead' + buffered' <= Len(out')
    BY <1>1, <1>2, <2>1, <2>2 DEF OutInPipe
  <2>4. pc = "stdout" /\ result' = result /\ capped' \in BOOLEAN
    BY <1>3, <2>1 DEF ReadStdout
  <2>5. \/ capped' /\ pc' = "waiting" /\ Kill
        \/ ~capped' /\ UNCHANGED <<pc, process, code>>
    BY <1>3, <2>4 DEF ReadStdout
  <2>6. /\ process' \in {"running", "zombie", "reaped"}
        /\ code' \in {"none", "allowed", "refused", "killed"}
        /\ capped' => pc' = "waiting" /\ process' # "running"
        /\ ~capped' => pc' = pc
        /\ process # "running" => process' # "running"
    BY <2>5 DEF Kill, TypeOK
  <2>7. TypeOK'
    BY <1>1, <2>3, <2>4, <2>6 DEF TypeOK
  <2>8. ReadsAgree'
    BY <1>1, <2>3 DEF ReadsAgree
  <2>9. result = "none"
    BY <2>4 DEF CoroutineAgrees
  <2>10. CoroutineAgrees' /\ ResultAgrees'
    BY <1>1, <2>4, <2>6, <2>9 DEF CoroutineAgrees, ResultAgrees
  <2> QED
    BY <2>7, <2>8, <2>10
<1>4. CASE StdoutEnds
  <2>1. /\ pc = "stdout" /\ OutInPipe = 0 /\ process # "running" /\ pc' = "waiting"
        /\ outRead' = outRead /\ capped' = capped /\ result' = result
        /\ process' = process /\ code' = code
    BY <1>4 DEF StdoutEnds, child
  <2>2. result = "none" /\ outRead = Len(out)
    BY <1>2, <2>1 DEF CoroutineAgrees, OutInPipe
  <2>3. TypeOK' /\ ReadsAgree'
    BY <1>1, <2>1 DEF TypeOK, ReadsAgree
  <2> QED
    BY <1>1, <2>1, <2>2, <2>3 DEF CoroutineAgrees, ResultAgrees
<1>5. CASE WaitReturns
  <2>1. /\ pc = "waiting" /\ pc' = "stderr"
        /\ outRead' = outRead /\ capped' = capped /\ result' = result
        /\ process' = process /\ code' = code
    BY <1>5 DEF WaitReturns, child
  <2>2. TypeOK' /\ ReadsAgree'
    BY <1>1, <2>1 DEF TypeOK, ReadsAgree
  <2> QED
    BY <1>1, <2>1, <2>2 DEF CoroutineAgrees, ResultAgrees
<1>6. CASE Return
  <2>1. /\ pc = "stderr" /\ errDone /\ pc' = "returned" /\ result' = Outcome
        /\ outRead' = outRead /\ capped' = capped
        /\ process' = process /\ code' = code
    BY <1>6 DEF Return, child
  <2>2. result = "none"
    BY <2>1 DEF CoroutineAgrees
  <2>3. /\ result' \in {"whole", "cut", "noline", "error"}
        /\ result' = "whole" => ~capped /\ code = "allowed"
        /\ result' = "cut" => CompleteLines(Collected) # <<>>
    BY <2>1 DEF Outcome, TypeOK
  <2>4. TypeOK' /\ ReadsAgree'
    BY <1>1, <2>1, <2>3 DEF TypeOK, ReadsAgree
  <2>5. CoroutineAgrees'
    BY <1>1, <2>1, <2>2, <2>3 DEF CoroutineAgrees
  <2>6. Collected' = Collected
    BY <1>1, <2>1 DEF Collected
  <2>7. ResultAgrees'
    BY <1>1, <2>1, <2>3, <2>6 DEF ResultAgrees, CompleteLines
  <2> QED
    BY <2>4, <2>5, <2>7
<1> QED
  BY <1>3, <1>4, <1>5, <1>6 DEF Coroutine

LEMMA AbortKeeps ==
  ASSUME CappedInv, Abort
  PROVE  CappedInv'
<1> USE DEF CappedInv
<1>1. /\ pc # "returned" /\ pc' = "returned" /\ result' = "cancelled"
      /\ out' = out /\ errWritten' = errWritten /\ process' = process /\ code' = code
      /\ outRead' = outRead /\ buffered' = buffered /\ capped' = capped
      /\ errRead' = errRead /\ errKept' = errKept /\ errDone' \in BOOLEAN
  BY DEF Abort, child
<1> QED
  BY <1>1 DEF TypeOK, ReadsAgree, CoroutineAgrees, ResultAgrees

LEMMA CappedInvNext == CappedInv /\ [Next]_vars => CappedInv'
<1> SUFFICES ASSUME CappedInv, [Next]_vars PROVE CappedInv'
  OBVIOUS
<1>1. CASE UNCHANGED vars
  BY <1>1 DEF vars, child, stderrTask, coroutine, CappedInv, TypeOK, ReadsAgree,
              CoroutineAgrees, ResultAgrees, Collected, CompleteLines
<1> QED
  BY <1>1, ProcessKeeps, BufferKeeps, StderrKeeps, CoroutineKeeps, AbortKeeps
     DEF Next, Process
-----------------------------------------------------------------------------
\* The inductive invariant, in every behaviour.
THEOREM CappedInvariant == Spec => []CappedInv
BY CappedInvInit, CappedInvNext, PTL DEF Spec

\* No caller of execute mistakes a part for the whole, or parses half a line.
THEOREM CappedOutputIsHonest == Spec => []ReturnedOutputIsHonest
<1>1. ASSUME CappedInv PROVE ReturnedOutputIsHonest
  <2> USE DEF CappedInv
  <2>1. out \in Seq({"x", "nl"}) /\ outRead \in Nat /\ buffered \in Nat
        /\ outRead + buffered <= Len(out)
    BY <1>1 DEF TypeOK, ReadsAgree
  <2>2. /\ Collected \in Seq({"x", "nl"}) /\ Len(Collected) = outRead
        /\ \A i \in 1..outRead : Collected[i] = out[i]
    BY <2>1 DEF Collected
  <2>3. ASSUME result = "whole"
        PROVE  Collected = out /\ process # "running" /\ code = "allowed"
    <3>1. process # "running" /\ code = "allowed" /\ outRead = Len(out)
      BY <1>1, <2>3 DEF CoroutineAgrees, ResultAgrees
    <3>2. Collected = out
      BY <2>1, <3>1 DEF Collected
    <3> QED
      BY <3>1, <3>2
  <2>4. ASSUME result = "cut"
        PROVE  /\ CompleteLines(Collected) # <<>> /\ Last(CompleteLines(Collected)) = "nl"
               /\ IsPrefix(CompleteLines(Collected), out)
    <3> DEFINE kept == CompleteLines(Collected)
    <3>1. kept # <<>>
      BY <1>1, <2>4 DEF ResultAgrees
    <3>2. /\ Len(kept) \in 1..outRead /\ Last(kept) = "nl"
          /\ \A i \in 1..Len(kept) : kept[i] = Collected[i]
      BY <2>2, <3>1, CompleteLinesFacts
    <3>3. kept \in Seq({"x", "nl"})
      BY <2>2, <3>1, CompleteLinesFacts
    <3> HIDE DEF kept
    <3>4. Len(kept) \in Nat /\ Len(kept) <= Len(out) /\ Len(out) \in Nat
      BY <2>1, <3>2
    <3>5. \A i \in 1..Len(kept) : kept[i] = out[i]
      BY <2>1, <2>2, <3>2
    <3>6. SubSeq(kept, 1, Len(kept)) = SubSeq(out, 1, Len(kept))
      BY <2>1, <3>3, <3>4, <3>5
    <3>7. IsPrefix(kept, out)
      BY <3>4, <3>6 DEF IsPrefix
    <3> QED
      BY <3>1, <3>2, <3>7 DEF kept
  <2> QED
    BY <2>3, <2>4 DEF ReturnedOutputIsHonest
<1> QED
  BY <1>1, CappedInvariant, PTL

\* A search that failed is reported with the words it failed with.
THEOREM CappedErrorCarriesStderr == Spec => []ErrorCarriesStderr
<1>1. ASSUME CappedInv, result = "error"
      PROVE  process # "running" /\ errKept = Min({ErrCap, errWritten})
  <2>1. process # "running" /\ errRead = errWritten /\ errWritten \in Nat
        /\ errKept = IF ErrCap <= errRead THEN ErrCap ELSE errRead
    BY <1>1 DEF CappedInv, TypeOK, ReadsAgree, CoroutineAgrees, ResultAgrees
  <2> QED
    BY <2>1, Caps, MinOfTwo
<1>2. CappedInv => ErrorCarriesStderr
  BY <1>1 DEF ErrorCarriesStderr
<1> QED
  BY <1>2, CappedInvariant, PTL
=============================================================================
