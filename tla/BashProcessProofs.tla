-------------------------- MODULE BashProcessProofs --------------------------
(***************************************************************************)
(* What a call of the bash tool guarantees, for any number of chunks and   *)
(* of aborts.                                                              *)
(***************************************************************************)
EXTENDS BashProcess, TLAPS

\* A shell that no longer runs has ended in some way.
DeadHasCode == shell # "running" => code # "none"

\* A reader that is done has everything, for ever; one is cancelled only by
\* the abort that ends the call.
ReaderAgrees ==
  /\ reader = "done" => read = written /\ ~PipeIsOpen
  /\ reader = "cancelled" => pc = "returned" /\ result = "cancelled"

\* The coroutine leaves its waits for a reaped shell, or aborted.
PcAgrees ==
  /\ pc # "returned" => result = "none"
  /\ pc = "draining" /\ aborts = 0 => Reaped
  /\ aborts > 0 => pc \in {"draining", "returned"}

ReportAgrees == result \in {"ok", "failed", "timeout"} => reader = "done" /\ Reaped

BashInv ==
  /\ TypeOK
  /\ DeadHasCode
  /\ ReaderAgrees
  /\ PcAgrees
  /\ ReportAgrees
  /\ NoSignalAfterReaping
  /\ SecondAbortFrees

-----------------------------------------------------------------------------
\* A call begins with nothing read, signalled or aborted.
LEMMA BashInvInit == Init => BashInv
<1> SUFFICES ASSUME Init PROVE BashInv
  OBVIOUS
<1>1. TypeOK
  <2>1. 0 \in 0..MaxChunks /\ 0 \in 0..0 /\ 0 \in 0..MaxAborts
    BY BoundsAssumption
  <2>2. written \in 0..MaxChunks /\ read \in 0..written /\ aborts \in 0..MaxAborts
    BY <2>1 DEF Init
  <2>3. /\ world \in World /\ timedOut \in BOOLEAN
        /\ signalled \subseteq {"running", "zombie", "reaped"}
    BY DEF Init
  <2>4. /\ shell \in {"running", "zombie", "reaped"}
        /\ code \in {"none", "zero", "nonzero", "signal"}
        /\ child \in {"none", "running", "gone"}
        /\ reader \in {"reading", "done", "cancelled"}
        /\ pc \in {"waiting", "stopping", "killing", "draining", "returned"}
        /\ result \in {"none", "ok", "failed", "timeout", "cancelled"}
    BY DEF Init
  <2> QED
    BY <2>2, <2>3, <2>4 DEF TypeOK
<1>2. DeadHasCode /\ ReaderAgrees /\ PcAgrees /\ ReportAgrees
  BY DEF Init, DeadHasCode, ReaderAgrees, PcAgrees, ReportAgrees
<1>3. NoSignalAfterReaping /\ SecondAbortFrees
  BY DEF Init, NoSignalAfterReaping, SecondAbortFrees
<1> QED
  BY <1>1, <1>2, <1>3 DEF BashInv

\* Every step keeps the invariant, one step of the proof per action.
LEMMA BashInvNext == BashInv /\ [Next]_vars => BashInv'
<1> SUFFICES ASSUME BashInv, [Next]_vars PROVE BashInv'
  OBVIOUS
<1> USE BoundsAssumption
        DEF BashInv, TypeOK, DeadHasCode, ReaderAgrees, PcAgrees, ReportAgrees,
            NoSignalAfterReaping, SecondAbortFrees, Reaped, PipeIsOpen, ChildWrites,
            vars, process, coroutine
<1>1. CASE WriteChunk
  BY <1>1 DEF WriteChunk
<1>2. CASE ShellExits
  BY <1>2 DEF ShellExits
<1>3. CASE ChildExits
  BY <1>3 DEF ChildExits
<1>4. CASE Reap
  BY <1>4 DEF Reap
<1>5. CASE ReadChunk
  BY <1>5 DEF ReadChunk
<1>6. CASE ReadEnds
  BY <1>6 DEF ReadEnds
<1>7. CASE WaitReturns
  BY <1>7 DEF WaitReturns, WaitDone
<1>8. CASE TimeoutFires
  BY <1>8 DEF TimeoutFires, Signal, SignalGroup
<1>9. CASE StopReturns
  BY <1>9 DEF StopReturns, WaitDone
<1>10. CASE GraceEnds
  BY <1>10 DEF GraceEnds, Signal, SignalGroup
<1>11. CASE KillReturns
  BY <1>11 DEF KillReturns, WaitDone
<1>12. CASE DrainReturns
  <2>1. code \in {"zero", "nonzero", "signal"} => Exited(code) \in {"ok", "failed"}
    BY DEF Exited
  <2> QED
    BY <1>12, <2>1 DEF DrainReturns
<1>13. CASE Abort
  BY <1>13 DEF Abort
<1>14. CASE Returned
  BY <1>14 DEF Returned
<1>15. CASE UNCHANGED vars
  BY <1>15
<1> QED
  BY <1>1, <1>2, <1>3, <1>4, <1>5, <1>6, <1>7, <1>8, <1>9, <1>10, <1>11, <1>12, <1>13,
     <1>14, <1>15
  DEF Next, Processes, Reader, Timers, Coroutine

-----------------------------------------------------------------------------
\* The invariant holds in every reachable state of a call.
THEOREM BashInvariant == Spec => []BashInv
BY BashInvInit, BashInvNext, PTL DEF Spec

\* Every reachable state of a call is well typed.
THEOREM BashTypeCorrect == Spec => []TypeOK
BY BashInvariant, PTL DEF BashInv

\* When an exit or a timeout is reported, the output is whole and cannot grow.
THEOREM BashOutputIsWhole == Spec => []ReportedOutputIsWhole
<1>1. BashInv => ReportedOutputIsWhole
  BY DEF BashInv, ReportAgrees, ReaderAgrees, ReportedOutputIsWhole
<1> QED
  BY <1>1, BashInvariant, PTL

\* When an exit or a timeout is reported, the shell is dead and reaped.
THEOREM BashShellIsReaped == Spec => []ReportedShellIsReaped
<1>1. BashInv => ReportedShellIsReaped
  BY DEF BashInv, ReportAgrees, DeadHasCode, ReportedShellIsReaped, Reaped
<1> QED
  BY <1>1, BashInvariant, PTL

\* No signal is ever sent to the group of a shell that has been reaped.
THEOREM BashSignalsAreSafe == Spec => []NoSignalAfterReaping
BY BashInvariant, PTL DEF BashInv

\* The second abort ends the call, whatever the processes do.
THEOREM BashSecondAbortFrees == Spec => []SecondAbortFrees
BY BashInvariant, PTL DEF BashInv
=============================================================================
