-------------------------------- MODULE Capture --------------------------------
(***************************************************************************)
(* What find and grep get to see of the output of fd and rg: execute       *)
(* (tile/tools/support/executables.py) collects it up to a cap, kills the  *)
(* executable there, and passes on the complete lines without a word about *)
(* the rest.  CappedExecute models how; this is the outcome.               *)
(***************************************************************************)
EXTENDS Truncation

CONSTANT OutCap   \* STDOUT_BYTE_CAP

ASSUME CaptureAssumption == OutCap \in Nat

FirstLines(lines, n) == SubSeq(lines, 1, IF n < Len(lines) THEN n ELSE Len(lines))

\* Bytes on stdout, every line with its newline.
StdoutBytes(lines) == IF lines = <<>> THEN 0 ELSE ByteCount(lines) + 1

\* What execute may return: everything below the cap, or the complete lines of
\* the bytes it had collected when it reached the cap.  It may raise instead.
Captured(lines) ==
  IF StdoutBytes(lines) < OutCap THEN {lines}
  ELSE {FirstLines(lines, k) : k \in
          {k \in 1..Len(lines) :
             \E collected \in OutCap..StdoutBytes(lines) :
               /\ StdoutBytes(FirstLines(lines, k)) <= collected
               /\ k < Len(lines) => StdoutBytes(FirstLines(lines, k + 1)) > collected}}
=============================================================================
