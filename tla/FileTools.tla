------------------------------- MODULE FileTools -------------------------------
(***************************************************************************)
(* The edit and write tools (tile/tools/edit.py, tile/tools/write.py) on   *)
(* one file.  The body of a call runs in a worker thread; the run's task   *)
(* waits for it, and goes on without it when the run is aborted.  Sessions *)
(* that share a working directory call the tools independently.            *)
(*                                                                         *)
(* A file is read and written piece by piece, in any number of pieces up   *)
(* to a bound, and the pieces of several calls mix.  Of a file the model   *)
(* keeps whose piece lies at each place; None is a piece of the original   *)
(* file, a hole, or a place where pieces of two calls overlap.  The new    *)
(* texts of some edits are in the text of a call; each edit has an old     *)
(* text of its own, not empty (EditText has the matching), and leaves a    *)
(* text that is not empty.                                                 *)
(***************************************************************************)
EXTENDS Integers, Sequences, FiniteSets

CONSTANTS
  Edits, Writes,   \* calls, of the edit and of the write tool
  Sessions,
  Workers,         \* threads of the event loop's default executor
  MaxPieces,       \* bound: pieces of a text
  None             \* no call, no session

Calls == Edits \union Writes

ASSUME FileAssumption ==
  /\ None \notin Calls \union Sessions
  /\ Edits \intersect Writes = {}
  /\ MaxPieces \in Nat \ {0}

VARIABLES
  disk,      \* the file: the call whose piece lies at each place
  queue,     \* calls that wait for a worker, first in first out
  thread,    \* where the body of each call is
  read,      \* the pieces each edit has read so far
  inText,    \* the edits whose new texts are in the text each call writes
  written,   \* the pieces of that text that have reached the file
  caller,    \* the session that made each call
  waiting,   \* the call each session's task awaits
  answer,    \* what the history says of each call
  beneath,   \* history: the calls that were done or writing while each call wrote
  missed     \* history: the calls that wrote while each edit read or held the text

bodyVars == <<disk, read, inText, written, beneath, missed>>
fileVars == <<bodyVars, queue, thread, caller, waiting, answer>>

Original == [i \in 1..MaxPieces |-> None]

Begun == {"begun", "reading", "matched", "opened"}
Writing == {d \in Calls : thread[d] = "opened"}
Wrote == {d \in Calls : thread[d] \in {"opened", "done", "broken"}}
Holding == {d \in Edits : thread[d] \in {"reading", "matched", "opened"}}

FileInit ==
  /\ disk = Original
  /\ queue = <<>>
  /\ thread = [c \in Calls |-> "none"]
  /\ read = [c \in Calls |-> <<>>]
  /\ inText = [c \in Calls |-> {}]
  /\ written = [c \in Calls |-> 0]
  /\ caller = [c \in Calls |-> None]
  /\ waiting = [s \in Sessions |-> None]
  /\ answer = [c \in Calls |-> "none"]
  /\ beneath = [c \in Calls |-> {}]
  /\ missed = [c \in Calls |-> {}]

-----------------------------------------------------------------------------
(* The run's task.                                                         *)

\* Mutant: the tool calls of a turn are started together.
SubmitAlongside(s, c) ==
  /\ thread[c] = "none"
  /\ thread' = [thread EXCEPT ![c] = "queued"]
  /\ queue' = Append(queue, c)
  /\ caller' = [caller EXCEPT ![c] = s]
  /\ waiting' = [waiting EXCEPT ![s] = c]
  /\ UNCHANGED <<bodyVars, answer>>

\* asyncio.to_thread; a run executes one tool call at a time.
Submit(s, c) ==
  /\ waiting[s] = None
  /\ thread[c] = "none"
  /\ thread' = [thread EXCEPT ![c] = "queued"]
  /\ queue' = Append(queue, c)
  /\ caller' = [caller EXCEPT ![c] = s]
  /\ waiting' = [waiting EXCEPT ![s] = c]
  /\ UNCHANGED <<bodyVars, answer>>

\* fn returns a result, or raises what ToolExecutor.execute makes an error of.
Deliver(s) ==
  LET c == waiting[s]
  IN  /\ c # None
      /\ thread[c] \in {"done", "refused", "broken"}
      /\ answer' = [answer EXCEPT ![c] = IF thread[c] = "done" THEN "ok" ELSE "error"]
      /\ waiting' = [waiting EXCEPT ![s] = None]
      /\ UNCHANGED <<bodyVars, queue, thread, caller>>

\* The await is cancelled, and with it a body that no worker has taken yet, which
\* stays in the queue; one that has begun goes on.  The history is healed: "did
\* not complete".
AbortCall(s) ==
  LET c == waiting[s]
  IN  /\ c # None
      /\ answer' = [answer EXCEPT ![c] = "incomplete"]
      /\ waiting' = [waiting EXCEPT ![s] = None]
      /\ thread' = IF thread[c] = "queued" THEN [thread EXCEPT ![c] = "dropped"] ELSE thread
      /\ UNCHANGED <<bodyVars, queue, caller>>

-----------------------------------------------------------------------------
(* The body of a call, in its thread.                                      *)

\* A worker passes over what was cancelled meanwhile.
Take ==
  /\ queue # <<>> /\ Cardinality({c \in Calls : thread[c] \in Begun}) < Workers
  /\ thread' = [thread EXCEPT ![Head(queue)] = IF @ = "queued" THEN "begun" ELSE @]
  /\ queue' = Tail(queue)
  /\ UNCHANGED <<bodyVars, caller, waiting, answer>>

\* _read_text opens the file, which may be in the middle of a write,
StartReading(c) ==
  /\ thread[c] = "begun"
  /\ thread' = [thread EXCEPT ![c] = "reading"]
  /\ missed' = [missed EXCEPT ![c] = @ \union Writing]
  /\ UNCHANGED <<disk, read, inText, written, beneath, queue, caller, waiting, answer>>

\* reads a piece after the other,
ReadPiece(c) ==
  /\ thread[c] = "reading" /\ Len(read[c]) < Len(disk)
  /\ read' = [read EXCEPT ![c] = Append(@, disk[Len(@) + 1])]
  /\ UNCHANGED <<disk, inText, written, beneath, missed, queue, thread, caller, waiting,
                 answer>>

\* The calls whose whole text this is.
WholeTexts(pieces) ==
  {d \in Calls : thread[d] = "done" /\ pieces = [i \in 1..written[d] |-> d]}

\* The edits whose new texts may be in what was read: those of the call whose
\* whole text it is; of a part or a mixture, any that have been written.
MayContain(pieces) ==
  IF WholeTexts(pieces) # {} THEN {inText[d] : d \in WholeTexts(pieces)}
  ELSE SUBSET UNION {inText[d] : d \in Wrote}

\* and at the end of the file finds the old text in what it has read.
MatchOldText(c) ==
  /\ thread[c] = "reading" /\ Len(read[c]) >= Len(disk) /\ read[c] # <<>>
  /\ thread' = [thread EXCEPT ![c] = "matched"]
  /\ \E found \in MayContain(read[c]) : inText' = [inText EXCEPT ![c] = found \union {c}]
  /\ read' = [read EXCEPT ![c] = <<>>]
  /\ UNCHANGED <<disk, written, beneath, missed, queue, caller, waiting, answer>>

\* The old text is not there, or the file cannot be read, created or opened.
Refuse(c) ==
  /\ thread[c] \in {"begun", "reading", "matched"}
  /\ thread' = [thread EXCEPT ![c] = "refused"]
  /\ UNCHANGED <<bodyVars, queue, caller, waiting, answer>>

\* open("w") truncates the file.
Open(c) ==
  /\ thread[c] = IF c \in Edits THEN "matched" ELSE "begun"
  /\ thread' = [thread EXCEPT ![c] = "opened"]
  /\ disk' = <<>>
  /\ beneath' = [d \in Calls |->
       IF d = c THEN {e \in Calls : thread[e] \in {"opened", "done"}}
       ELSE IF d \in Writing THEN beneath[d] \union {c} ELSE beneath[d]]
  /\ missed' = [d \in Calls |->
       IF d \in Holding \ {c} THEN missed[d] \union {c} ELSE missed[d]]
  /\ UNCHANGED <<read, inText, written, queue, caller, waiting, answer>>

\* Part of the text reaches the file, at the position of this call's own file
\* object: behind the end when another call has truncated the file meanwhile,
\* and over all or some of what lies there.
WritePiece(c) ==
  LET place == written[c] + 1
      end == IF Len(disk) > place THEN Len(disk) ELSE place
  IN  /\ thread[c] = "opened" /\ written[c] < MaxPieces
      /\ written' = [written EXCEPT ![c] = place]
      /\ \E piece \in IF place <= Len(disk) THEN {c, None} ELSE {c} :
           disk' = [i \in 1..end |->
             IF i = place THEN piece ELSE IF i <= Len(disk) THEN disk[i] ELSE None]
      /\ UNCHANGED <<read, inText, beneath, missed, queue, thread, caller, waiting, answer>>

\* The rest of the text has reached the file when it has been closed: there are
\* no more pieces.
Close(c) ==
  /\ thread[c] = "opened" /\ (c \in Edits => written[c] > 0)
  /\ thread' = [thread EXCEPT ![c] = "done"]
  /\ UNCHANGED <<bodyVars, queue, caller, waiting, answer>>

\* The disk is full: what was written stays.
Break(c) ==
  /\ thread[c] = "opened"
  /\ thread' = [thread EXCEPT ![c] = "broken"]
  /\ UNCHANGED <<bodyVars, queue, caller, waiting, answer>>

\* The process dies, and with it every run and thread.
Die ==
  /\ thread' = [c \in Calls |->
       IF thread[c] = "opened" THEN "broken"
       ELSE IF thread[c] \in {"queued", "begun", "reading", "matched"} THEN "dropped"
       ELSE thread[c]]
  /\ queue' = <<>>
  /\ waiting' = [s \in Sessions |-> None]
  /\ UNCHANGED <<bodyVars, caller, answer>>

FileNext ==
  \/ \E s \in Sessions : (\E c \in Calls : Submit(s, c)) \/ Deliver(s) \/ AbortCall(s)
  \/ Take \/ Die
  \/ \E c \in Edits : StartReading(c) \/ ReadPiece(c) \/ MatchOldText(c)
  \/ \E c \in Calls : Refuse(c) \/ Open(c) \/ WritePiece(c) \/ Close(c) \/ Break(c)

FileSpec == FileInit /\ [][FileNext]_fileVars

-----------------------------------------------------------------------------
\* The file is the whole text of one call, with the new text of c in it.
IsInFile(c) == \E d \in WholeTexts(disk) : c \in inText[d]

\* d had read or held the text of the file while e wrote it, and e was a call of
\* another session, or one of the two belonged to an aborted run, so that the
\* history calls it incomplete.
Overlapped(d, e) ==
  e \in missed[d] /\ (caller[e] # caller[d] \/ "incomplete" \in {answer[d], answer[e]})

\* An edit that the model was told succeeded is in a file that is whole, unless
\* a call that wrote after it, or along with it, is still writing or was cut
\* off, which leaves a part or a mixture; or is a write call, which means to
\* replace the file; or is an edit that had read or held the file while another
\* call wrote it, one of another session or one that had been given up.  Within
\* one session that is never aborted, no edit is lost to another.
OnlyOverlapsLoseEdits ==
  \A c \in Edits : answer[c] = "ok" =>
    \/ IsInFile(c)
    \/ \E d \in Calls \ {c} :
         /\ c \in beneath[d]
         /\ \/ thread[d] \in {"opened", "broken"}
            \/ d \in Writes
            \/ \E e \in Calls : Overlapped(d, e)
=============================================================================
