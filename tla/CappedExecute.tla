---------------------------- MODULE CappedExecute ----------------------------
(***************************************************************************)
(* execute() of tile/tools/support/executables.py: grep and find run rg or *)
(* fd with two pipes, collect stdout up to a cap, drain stderr beside it,  *)
(* and kill the process when the cap is reached.  Concurrent parties: the  *)
(* coroutine (pc), stderr_task, the process, and the event loop, which     *)
(* reaps the process and keeps filling the stdout reader's buffer when     *)
(* nobody reads it any more.                                               *)
(*                                                                         *)
(* Bytes come in units: "x" and "nl" go to stdout, "e" to stderr.  The     *)
(* reader's buffer is part of the pipe while the coroutine reads.          *)
(***************************************************************************)
EXTENDS Integers, Sequences, SequencesExt, FiniteSetsExt

CONSTANTS
  OutCap,      \* STDOUT_BYTE_CAP
  ErrCap,      \* STDERR_BYTE_CAP
  PipeCap,     \* units a pipe holds
  BufferCap,   \* units asyncio buffers of a stream nobody reads
  ChunkSize,   \* units of one read
  MaxUnits     \* bound: units the process writes

\* Linux pipes hold 64 KB; a StreamReader buffers 128 KB before it pauses.
ASSUME CapAssumption ==
  /\ {OutCap, ErrCap, PipeCap, BufferCap, ChunkSize, MaxUnits} \subseteq Nat
  /\ PipeCap <= BufferCap /\ OutCap > 0

VARIABLES
  waitNeedsPipes,  \* Python releases differ in what Process.wait() waits for
  next,      \* what the process does next: write a unit, which it may block on, or exit
  out,       \* what it has written to stdout
  errWritten,  \* units it has written to stderr
  process,   \* "running", "zombie" or "reaped" (returncode set)
  code,      \* "none", "allowed", "refused" or "killed"
  outRead,   \* units of stdout collected
  buffered,  \* units of stdout read by the loop but by nobody else
  errRead, errKept, errDone,   \* stderr_task: read, kept, finished
  pc,        \* "stdout", "waiting", "stderr" or "returned"
  capped,
  result     \* "none", "whole", "cut", "noline", "error" or "cancelled"

child == <<next, out, errWritten, process, code>>
stderrTask == <<errRead, errKept, errDone>>
coroutine == <<pc, capped, result>>
vars == <<waitNeedsPipes, child, outRead, buffered, stderrTask, coroutine>>

OutInPipe == Len(out) - outRead - buffered
ErrInPipe == errWritten - errRead
Collected == SubSeq(out, 1, outRead)

\* Process.wait(), which may also wait for the event loop to see both pipes end.
WaitDone ==
  /\ process = "reaped"
  /\ waitNeedsPipes => OutInPipe = 0 /\ ErrInPipe = 0

\* _decode_complete_lines: up to and with the last newline, <<>> without one.
CompleteLines(data) ==
  SubSeq(data, 1, Max({0} \union {i \in DOMAIN data : data[i] = "nl"}))

\* What a process that has written n units may do next.
NextUnits(n) == IF n < MaxUnits THEN {"x", "nl", "e", "exit"} ELSE {"exit"}

Init ==
  /\ waitNeedsPipes \in BOOLEAN
  /\ next \in NextUnits(0) /\ out = <<>> /\ errWritten = 0
  /\ process = "running" /\ code = "none"
  /\ outRead = 0 /\ buffered = 0
  /\ errRead = 0 /\ errKept = 0 /\ errDone = FALSE
  /\ pc = "stdout" /\ capped = FALSE /\ result = "none"

-----------------------------------------------------------------------------
(* The process and the event loop.                                         *)

\* The process writes its next unit, unless that pipe is full.
WriteUnit ==
  /\ process = "running"
  /\ \/ /\ next \in {"x", "nl"} /\ OutInPipe < PipeCap
        /\ out' = Append(out, next) /\ UNCHANGED errWritten
     \/ /\ next = "e" /\ ErrInPipe < PipeCap
        /\ errWritten' = errWritten + 1 /\ UNCHANGED out
  /\ next' \in NextUnits(Len(out) + errWritten + 1)
  /\ UNCHANGED <<waitNeedsPipes, process, code, outRead, buffered, stderrTask, coroutine>>

Exit ==
  /\ process = "running" /\ next = "exit"
  /\ process' = "zombie" /\ code' \in {"allowed", "refused"}
  /\ UNCHANGED <<waitNeedsPipes, next, out, errWritten, outRead, buffered, stderrTask, coroutine>>

Reap ==
  /\ process = "zombie"
  /\ process' = "reaped"
  /\ UNCHANGED <<waitNeedsPipes, next, out, errWritten, code, outRead, buffered, stderrTask, coroutine>>

\* The transport empties the pipe into the reader's buffer, then pauses.
Buffer ==
  /\ pc # "stdout" /\ OutInPipe > 0 /\ buffered < BufferCap
  /\ buffered' = buffered + 1
  /\ UNCHANGED <<waitNeedsPipes, child, outRead, stderrTask, coroutine>>

-----------------------------------------------------------------------------
(* stderr_task, also when nobody waits for it any more.                    *)

\* Mutant: stderr is read once the process has ended.
ReadStderrAfterwards ==
  /\ pc = "stderr" /\ ~errDone
  /\ \E n \in 1..ChunkSize :
       /\ n <= ErrInPipe
       /\ errRead' = errRead + n
       /\ errKept' = Min({ErrCap, errKept + n})
  /\ UNCHANGED <<waitNeedsPipes, child, outRead, buffered, errDone, coroutine>>

ReadStderr ==
  /\ ~errDone
  /\ \E n \in 1..ChunkSize :
       /\ n <= ErrInPipe
       /\ errRead' = errRead + n
       /\ errKept' = Min({ErrCap, errKept + n})
  /\ UNCHANGED <<waitNeedsPipes, child, outRead, buffered, errDone, coroutine>>

StderrEnds ==
  /\ ~errDone /\ ErrInPipe = 0 /\ process # "running"
  /\ errDone' = TRUE
  /\ UNCHANGED <<waitNeedsPipes, child, outRead, buffered, errRead, errKept, coroutine>>

-----------------------------------------------------------------------------
(* The coroutine.                                                          *)

\* _kill_process: nothing once the return code is known, and nothing to a zombie.
Kill ==
  IF process = "running" THEN process' = "zombie" /\ code' = "killed"
  ELSE UNCHANGED <<process, code>>

\* A chunk of _read_capped_stdout; at the cap, the kill that follows it.
ReadStdout ==
  /\ pc = "stdout"
  /\ \E n \in 1..ChunkSize :
       /\ n <= OutInPipe
       /\ outRead' = outRead + n
       /\ capped' = (outRead + n >= OutCap)
  /\ IF capped' THEN pc' = "waiting" /\ Kill
     ELSE UNCHANGED <<pc, process, code>>
  /\ UNCHANGED <<waitNeedsPipes, next, out, errWritten, buffered, stderrTask, result>>

\* Mutant: the exit of the process is taken for the end of its output.
StdoutEndsAtExit ==
  /\ pc = "stdout" /\ process # "running"
  /\ pc' = "waiting"
  /\ UNCHANGED <<waitNeedsPipes, child, outRead, buffered, stderrTask, capped, result>>

StdoutEnds ==
  /\ pc = "stdout" /\ OutInPipe = 0 /\ process # "running"
  /\ pc' = "waiting"
  /\ UNCHANGED <<waitNeedsPipes, child, outRead, buffered, stderrTask, capped, result>>

WaitReturns ==
  /\ pc = "waiting" /\ WaitDone
  /\ pc' = "stderr"
  /\ UNCHANGED <<waitNeedsPipes, child, outRead, buffered, stderrTask, capped, result>>

\* What execute returns or raises, once it knows how the process ended.
Outcome ==
  CASE capped /\ CompleteLines(Collected) = <<>> -> "noline"
    [] capped /\ CompleteLines(Collected) # <<>> -> "cut"
    [] ~capped /\ code = "allowed" -> "whole"
    [] OTHER -> "error"

\* Mutant: the message is made of what stderr_task has so far.
ReturnAtOnce ==
  /\ pc = "stderr"
  /\ pc' = "returned" /\ result' = Outcome
  /\ UNCHANGED <<waitNeedsPipes, child, outRead, buffered, stderrTask, capped>>

Return ==
  /\ pc = "stderr" /\ errDone
  /\ pc' = "returned" /\ result' = Outcome
  /\ UNCHANGED <<waitNeedsPipes, child, outRead, buffered, stderrTask, capped>>

\* The run is aborted: CancelledError leaves execute at the await it is at,
\* cancelling stderr_task only if that is what it awaits.  Nothing is signalled.
Abort ==
  /\ pc # "returned"
  /\ pc' = "returned" /\ result' = "cancelled"
  /\ errDone' = (errDone \/ pc = "stderr")
  /\ UNCHANGED <<waitNeedsPipes, child, outRead, buffered, errRead, errKept, capped>>

Process == WriteUnit \/ Exit
Stderr == ReadStderr \/ StderrEnds
Coroutine == ReadStdout \/ StdoutEnds \/ WaitReturns \/ Return
Next == Process \/ Reap \/ Buffer \/ Stderr \/ Coroutine \/ Abort

\* A search that can write goes on and ends; the event loop keeps running.
Fairness ==
  /\ WF_vars(Process) /\ WF_vars(Reap) /\ WF_vars(Buffer)
  /\ WF_vars(Stderr) /\ WF_vars(Coroutine)

Spec == Init /\ [][Next]_vars /\ Fairness

-----------------------------------------------------------------------------
\* Output returned as whole is all that the process ever wrote, and the
\* process ended by itself in a way the tool allows.  Output returned at the
\* cap is complete lines of what it wrote: no parser sees half a line.
ReturnedOutputIsHonest ==
  LET kept == CompleteLines(Collected)
  IN  /\ result = "whole" =>
           Collected = out /\ process # "running" /\ code = "allowed"
      /\ result = "cut" => kept # <<>> /\ Last(kept) = "nl" /\ IsPrefix(kept, out)

\* A failure carries what the process had to say of it: all of stderr up to
\* its cap, although the exit may overtake the pipe.
ErrorCarriesStderr ==
  result = "error" => process # "running" /\ errKept = Min({ErrCap, errWritten})

\* execute returns: neither full pipe can hold a search that goes on, and a
\* killed process is waited for successfully with stdout left unread.
CallReturns == <>(pc = "returned")
=============================================================================
