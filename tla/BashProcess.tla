----------------------------- MODULE BashProcess -----------------------------
(***************************************************************************)
(* One call of the bash tool: tile/tools/bash.py, from the moment the      *)
(* shell has been spawned to the return of _execute.  Four parties run     *)
(* concurrently: the coroutine (pc), the reader task that drains the       *)
(* merged output pipe (reader), the shell, and a child the shell may have  *)
(* left in the background with the pipe inherited.  The event loop reaps   *)
(* the dead shell at some later moment, and only then is                   *)
(* process.returncode set.  The run may be aborted at any await.           *)
(*                                                                         *)
(* Platform: POSIX (_supports_process_groups() is true).  Output is        *)
(* counted in chunks; its text is the business of OutputAccumulator.       *)
(***************************************************************************)
EXTENDS Naturals

CONSTANTS
  MaxChunks,    \* bound: chunks the processes print
  MaxAborts     \* bound: RunHandle.abort() calls that reach this tool

\* The bounds are numbers.
ASSUME BoundsAssumption == MaxChunks \in Nat /\ MaxAborts \in Nat

VARIABLES
  world,     \* what the command is like; chosen once
  shell,     \* "running", "zombie" (dead, not reaped) or "reaped" (returncode set)
  code,      \* how the shell ended: "none", "zero", "nonzero" or "signal"
  child,     \* the background child: "none", "running" or "gone"
  written,   \* chunks written to the pipe
  read,      \* chunks the reader has accumulated
  reader,    \* output_task: "reading", "done" or "cancelled"
  pc,        \* where _wait_for_process is suspended, or "returned"
  timedOut,  \* timed_out
  aborts,    \* CancelledErrors delivered so far
  result,    \* "none", "ok", "failed", "timeout" or "cancelled"
  signalled  \* the states of the shell at which killpg was called

process == <<shell, code, child, written>>
coroutine == <<pc, timedOut, aborts, result>>
vars == <<world, process, read, reader, coroutine, signalled>>

\* What the spawned command may be like.  waitNeedsPipes: Python releases
\* differ in whether Process.wait() also waits for the pipes to close.
\* A process that hangs never ends by itself; a child that is away has left
\* the shell's session; holdsPipe: it inherited the shell's stdout.
World ==
  [waitNeedsPipes: BOOLEAN, shellHangs: BOOLEAN, shellIgnoresTerm: BOOLEAN,
   childHangs: BOOLEAN, childIgnoresTerm: BOOLEAN, childAway: BOOLEAN,
   holdsPipe: BOOLEAN]

ChildWrites == child = "running" /\ world.holdsPipe
PipeIsOpen == shell = "running" \/ ChildWrites
Reaped == shell = "reaped"
Exited(how) == [zero |-> "ok", nonzero |-> "failed", signal |-> "failed"][how]

\* The task around process.wait() has finished.
WaitDone == Reaped /\ (world.waitNeedsPipes => reader = "done")

Init ==
  /\ world \in World
  /\ child \in {"none", "running"}
  /\ shell = "running" /\ code = "none"
  /\ written = 0 /\ read = 0 /\ reader = "reading"
  /\ pc = "waiting" /\ timedOut = FALSE /\ aborts = 0 /\ result = "none"
  /\ signalled = {}

-----------------------------------------------------------------------------
(* The processes and the event loop's child watcher.                       *)

\* A process that holds the pipe prints (the shell, or a child with the pipe).
WriteChunk ==
  /\ PipeIsOpen /\ written < MaxChunks
  /\ written' = written + 1
  /\ UNCHANGED <<world, shell, code, child, read, reader, coroutine, signalled>>

ShellExits ==
  /\ shell = "running" /\ ~world.shellHangs
  /\ shell' = "zombie"
  /\ code' \in {"zero", "nonzero"}
  /\ UNCHANGED <<world, child, written, read, reader, coroutine, signalled>>

ChildExits ==
  /\ child = "running" /\ ~world.childHangs
  /\ child' = "gone"
  /\ UNCHANGED <<world, shell, code, written, read, reader, coroutine, signalled>>

Reap ==
  /\ shell = "zombie"
  /\ shell' = "reaped"
  /\ UNCHANGED <<world, code, child, written, read, reader, coroutine, signalled>>

-----------------------------------------------------------------------------
(* _read_output, the reader task.                                          *)

ReadChunk ==
  /\ reader = "reading" /\ read < written
  /\ read' = read + 1
  /\ UNCHANGED <<world, process, reader, coroutine, signalled>>

\* An empty chunk: nobody holds the pipe any more and it has been emptied.
ReadEnds ==
  /\ reader = "reading" /\ read = written /\ ~PipeIsOpen
  /\ reader' = "done"
  /\ UNCHANGED <<world, process, read, coroutine, signalled>>

-----------------------------------------------------------------------------
(* _terminate_process and _kill_process.                                   *)

\* os.killpg on the shell's group; a zombie still leads its group.
SignalGroup(shellObeys, childObeys) ==
  /\ signalled' = signalled \union {shell}
  /\ IF shell = "running" /\ shellObeys
       THEN shell' = "zombie" /\ code' = "signal"
       ELSE UNCHANGED <<shell, code>>
  /\ child' = IF child = "running" /\ ~world.childAway /\ childObeys THEN "gone"
              ELSE child
  /\ UNCHANGED written

\* Mutant: a helper without the early return.
SignalAnyway(shellObeys, childObeys) == SignalGroup(shellObeys, childObeys)

\* Both helpers return early once the return code is known.
Signal(shellObeys, childObeys) ==
  \/ /\ ~Reaped
     /\ SignalGroup(shellObeys, childObeys)
  \/ Reaped /\ UNCHANGED <<process, signalled>>

-----------------------------------------------------------------------------
(* _wait_for_process and _stop_timed_out_process.                          *)

\* asyncio.wait_for returned in time: on to the finally clause.
WaitReturns ==
  /\ pc = "waiting" /\ WaitDone
  /\ pc' = "draining"
  /\ UNCHANGED <<world, process, read, reader, timedOut, aborts, result, signalled>>

\* The timer wins, possibly over an exit the coroutine has not seen yet.
TimeoutFires ==
  /\ pc = "waiting"
  /\ pc' = "stopping" /\ timedOut' = TRUE
  /\ Signal(~world.shellIgnoresTerm, ~world.childIgnoresTerm)
  /\ UNCHANGED <<world, read, reader, aborts, result>>

\* asyncio.wait saw the exit within the second of grace.
StopReturns ==
  /\ pc = "stopping" /\ WaitDone
  /\ pc' = "draining"
  /\ UNCHANGED <<world, process, read, reader, timedOut, aborts, result, signalled>>

\* Mutant: no escalation: the grace second over, the timeout is reported as it is.
GraceEndsUnkilled ==
  /\ pc = "stopping" /\ ~WaitDone
  /\ pc' = "draining"
  /\ UNCHANGED <<world, process, read, reader, timedOut, aborts, result, signalled>>

\* The second of grace is over and wait_task is not done: SIGKILL.
GraceEnds ==
  /\ pc = "stopping" /\ ~WaitDone
  /\ pc' = "killing"
  /\ Signal(TRUE, TRUE)
  /\ UNCHANGED <<world, read, reader, timedOut, aborts, result>>

KillReturns ==
  /\ pc = "killing" /\ WaitDone
  /\ pc' = "draining"
  /\ UNCHANGED <<world, process, read, reader, timedOut, aborts, result, signalled>>

\* Mutant: no finally clause: the reader is not awaited.
DrainUnawaited ==
  /\ pc = "draining"
  /\ pc' = "returned"
  /\ result' = IF aborts > 0 THEN "cancelled"
               ELSE IF timedOut THEN "timeout"
               ELSE Exited(code)
  /\ UNCHANGED <<world, process, read, reader, timedOut, aborts, signalled>>

\* `await output_task` returned.  A CancelledError that was on its way through
\* the finally clause goes on; otherwise _raise_for_execution_failure decides.
DrainReturns ==
  /\ pc = "draining" /\ reader # "reading"
  /\ pc' = "returned"
  /\ result' = IF aborts > 0 THEN "cancelled"
               ELSE IF timedOut THEN "timeout"
               ELSE Exited(code)
  /\ UNCHANGED <<world, process, read, reader, timedOut, aborts, signalled>>

\* RunHandle.abort() cancels whatever the coroutine awaits.  At the three
\* waits the error enters the finally clause, which waits for the reader; at
\* `await output_task` it cancels the reader too.  No process is signalled.
Abort ==
  /\ pc # "returned" /\ aborts < MaxAborts
  /\ aborts' = aborts + 1
  /\ IF pc = "draining"
       THEN /\ pc' = "returned" /\ result' = "cancelled"
            /\ reader' = IF reader = "reading" THEN "cancelled" ELSE reader
       ELSE pc' = "draining" /\ UNCHANGED <<result, reader>>
  /\ UNCHANGED <<world, process, read, timedOut, signalled>>

\* The call is over; the processes it may have left behind run on.
Returned == pc = "returned" /\ UNCHANGED vars

Processes == WriteChunk \/ ShellExits \/ ChildExits \/ Reap
Reader == ReadChunk \/ ReadEnds
Timers == TimeoutFires \/ GraceEnds
Coroutine == WaitReturns \/ StopReturns \/ KillReturns \/ DrainReturns
Next == Processes \/ Reader \/ Timers \/ Coroutine \/ Abort \/ Returned

\* The loop keeps running: it reaps, reads, fires timers and resumes the
\* coroutine; a process that does not hang ends in the end.
Fairness ==
  /\ WF_vars(ShellExits) /\ WF_vars(ChildExits) /\ WF_vars(Reap)
  /\ WF_vars(Reader) /\ WF_vars(Timers) /\ WF_vars(Coroutine)

Spec == Init /\ [][Next]_vars /\ Fairness

-----------------------------------------------------------------------------
(* Properties.                                                             *)

\* Every variable has its type.
TypeOK ==
  /\ world \in World
  /\ shell \in {"running", "zombie", "reaped"}
  /\ code \in {"none", "zero", "nonzero", "signal"}
  /\ child \in {"none", "running", "gone"}
  /\ written \in 0..MaxChunks /\ read \in 0..written
  /\ reader \in {"reading", "done", "cancelled"}
  /\ pc \in {"waiting", "stopping", "killing", "draining", "returned"}
  /\ timedOut \in BOOLEAN /\ aborts \in 0..MaxAborts
  /\ result \in {"none", "ok", "failed", "timeout", "cancelled"}
  /\ signalled \subseteq {"running", "zombie", "reaped"}

\* Output the command printed is never lost: when the tool reports an exit or
\* a timeout, every chunk has been accumulated and no process can add one.
ReportedOutputIsWhole ==
  result \in {"ok", "failed", "timeout"} => read = written /\ ~PipeIsOpen

\* A call that reports an outcome leaves no live shell behind: even a shell
\* that ignores SIGTERM is dead and reaped, so process.returncode is the real
\* exit status when _raise_for_execution_failure reads it.
ReportedShellIsReaped ==
  result \in {"ok", "failed", "timeout"} => Reaped /\ code # "none"

\* killpg is never called once the shell is reaped, when its process id may
\* already belong to somebody else, whatever exits during the grace second.
NoSignalAfterReaping == "reaped" \notin signalled

\* Whatever the processes do, a second abort() ends the call: the first moves
\* it to the finally clause at the latest, the second cancels the reader.
SecondAbortFrees == aborts >= 2 => pc = "returned"

\* Only an open pipe can hold the tool for ever: either the call returns, or
\* from some point on a live background child keeps the pipe it inherited, or
\* the call was aborted once, which ends its timeout, over a hung shell.
OnlyAnOpenPipeWedges ==
  <>[](\/ pc = "returned"
       \/ ChildWrites
       \/ aborts = 1 /\ shell = "running" /\ world.shellHangs)

\* bash.py:26: "Timeout applied when the model omits one, so hung commands
\* cannot wedge a run."  Refuted: a background child that outlives the shell
\* with the pipe open is out of reach of both helpers, which return early once
\* the shell's return code is set, and the finally clause waits for its EOF.
HungCommandCannotWedge == <>(pc = "returned")
=============================================================================
