----------------------------- MODULE SQLiteStore -----------------------------
(***************************************************************************)
(* SQLiteStore (tile/store/sqlite.py) statement by statement, over the     *)
(* connections that several processes hold on one database file.           *)
(*                                                                         *)
(* A mutating call runs inside immediate_transaction: BEGIN IMMEDIATE      *)
(* takes the one write lock, the statements change a private view of the   *)
(* database, and COMMIT publishes it.  Any exception rolls the view back,  *)
(* and so does the death of the process.  Between statements the other     *)
(* connections run.  Constraints that the schema declares are guards of    *)
(* the statements they police.                                             *)
(***************************************************************************)
EXTENDS Integers, Sequences, FiniteSets

CONSTANTS Conns, Sessions, Runs, Items, Deltas, Outcomes, Aborted, Times, NULL

ASSUME SQLiteAssumption ==
    /\ NULL \notin Conns
    /\ Deltas \subseteq Seq(Items)
    /\ Aborted \in Outcomes
    /\ Times \subseteq Int
    /\ NULL \notin Outcomes
    /\ NULL \notin Times
    /\ NULL \notin [created : Times, updated : Times]
    /\ NULL \notin [session : Sessions, started : Times,
                    ended : Times \cup {NULL}, outcome : Outcomes \cup {NULL}]

VARIABLES
    db,       \* the committed tables
    writer,   \* the connection that holds the write lock, or NULL
    view,     \* the writer's uncommitted tables
    call,     \* connection -> the call it is executing, or NULL
    pc,       \* connection -> the statement it executes next
    snapshot  \* connection -> the history its start_run has read

vars == <<db, writer, view, call, pc, snapshot>>

\* _history_for_session: ORDER BY position
HistoryIn(tables, s) ==
    LET rows == {x \in tables.rows : x.session = s}
    IN  [i \in 1 .. Cardinality(rows) |->
            LET row == CHOOSE x \in rows :
                         Cardinality({y \in rows : y.position < x.position}) = i - 1
            IN  [run |-> row.run, item |-> row.item]]

Store == INSTANCE TileStore
           WITH sessions <- db.sessions, runs <- db.runs,
                history <- [s \in Sessions |-> HistoryIn(db, s)]

Calls ==
    [op : {"create_session", "abort_active_run"}, session : Sessions]
      \cup [op : {"start_run"}, session : Sessions, run : Runs]
      \cup [op : {"finish_run"}, session : Sessions, run : Runs,
            outcome : Outcomes, delta : Deltas]
      \cup [op : {"fork_session"}, session : Sessions, source : Sessions]

EmptyDb == [sessions |-> [s \in Sessions |-> NULL],
            runs |-> [r \in Runs |-> NULL],
            rows |-> {}]

Init ==
    /\ db = EmptyDb
    /\ writer = NULL
    /\ view = NULL
    /\ call = [c \in Conns |-> NULL]
    /\ pc = [c \in Conns |-> "idle"]
    /\ snapshot = [c \in Conns |-> NULL]
-----------------------------------------------------------------------------
(* Reads inside a transaction.                                             *)

HasSession(s) == view.sessions[s] # NULL

Active(r) == view.runs[r] # NULL /\ view.runs[r].outcome = NULL

ActiveRuns(s) == {r \in Runs : Active(r) /\ view.runs[r].session = s}

\* Mutant: the first position is one.
NextPositionFromOne(s) ==
    LET used == {x.position : x \in {y \in view.rows : y.session = s}}
    IN  1 + IF used = {} THEN 0 ELSE CHOOSE p \in used : \A q \in used : q <= p

\* Mutant: the delta begins at the last position instead of behind it.
NextPositionAtLast(s) ==
    LET used == {x.position : x \in {y \in view.rows : y.session = s}}
    IN  IF used = {} THEN 0 ELSE CHOOSE p \in used : \A q \in used : q <= p

NextPosition(s) ==
    LET used == {x.position : x \in {y \in view.rows : y.session = s}}
    IN  IF used = {} THEN 0 ELSE 1 + CHOOSE p \in used : \A q \in used : q <= p
-----------------------------------------------------------------------------
(* Transaction control.                                                    *)

Invoke(c, k) ==
    /\ pc[c] = "idle"
    /\ call' = [call EXCEPT ![c] = k]
    /\ pc' = [pc EXCEPT ![c] = "begin"]
    /\ UNCHANGED <<db, writer, view, snapshot>>

\* Mutant: start_run reads the history ahead of its transaction.
BeginAfterRead(c) ==
    LET s == call[c].session
    IN  /\ pc[c] = "begin"
        /\ writer = NULL
        /\ IF call[c].op = "start_run" /\ snapshot[c] = NULL
           THEN /\ snapshot' = [snapshot EXCEPT ![c] = HistoryIn(db, s)]
                /\ UNCHANGED <<db, writer, view, call, pc>>
           ELSE /\ UNCHANGED <<db, call, snapshot>>
                /\ writer' = c
                /\ view' = db
                /\ LET passes == /\ call[c].op = "start_run"
                                 /\ (HasSession(s) /\ ActiveRuns(s) = {})'
                   IN  pc' = [pc EXCEPT ![c] =
                         IF call[c].op = "create_session" \/ passes THEN "write" ELSE "check"]

Begin(c) ==
    /\ pc[c] = "begin"
    /\ writer = NULL
    /\ writer' = c
    /\ view' = db
    /\ pc' = [pc EXCEPT ![c] = IF call[c].op = "create_session" THEN "write" ELSE "check"]
    /\ UNCHANGED <<db, call, snapshot>>

Return(c) ==
    /\ call' = [call EXCEPT ![c] = NULL]
    /\ pc' = [pc EXCEPT ![c] = "idle"]
    /\ snapshot' = [snapshot EXCEPT ![c] = NULL]

\* The busy timeout ends before the writer does.
Busy(c) ==
    /\ pc[c] = "begin"
    /\ writer # NULL
    /\ Return(c)
    /\ UNCHANGED <<db, writer, view>>

Commit(c) ==
    /\ pc[c] = "commit"
    /\ db' = view
    /\ writer' = NULL
    /\ view' = NULL
    /\ Return(c)

\* Mutant: what was written before the failure is published.
RollbackPublishes(c) ==
    /\ pc[c] \notin {"idle", "begin"}
    /\ db' = view
    /\ writer' = NULL
    /\ view' = NULL
    /\ Return(c)

\* A domain error, a constraint, an I/O error, a reader whose lock outlasts
\* the COMMIT's busy timeout, or the death of the process.
Rollback(c) ==
    /\ pc[c] \notin {"idle", "begin"}
    /\ writer' = NULL
    /\ view' = NULL
    /\ Return(c)
    /\ UNCHANGED db
-----------------------------------------------------------------------------
(* Statements.  A statement whose guard fails raises, hence rolls back.    *)

Goto(c, label) == pc' = [pc EXCEPT ![c] = label]

\* Mutant: the active run is left to the index.
CheckStartUnchecked(c) ==
    LET s == call[c].session
    IN  /\ call[c].op = "start_run"
        /\ HasSession(s)
        /\ snapshot' = [snapshot EXCEPT ![c] = HistoryIn(view, s)]
        /\ Goto(c, "write")
        /\ UNCHANGED call

CheckStart(c) ==
    LET s == call[c].session
    IN  /\ call[c].op = "start_run"
        /\ HasSession(s)
        /\ ActiveRuns(s) = {}
        /\ snapshot' = [snapshot EXCEPT ![c] = HistoryIn(view, s)]
        /\ Goto(c, "write")
        /\ UNCHANGED call

CheckFinish(c) ==
    /\ call[c].op = "finish_run"
    /\ Active(call[c].run)
    /\ view.runs[call[c].run].session = call[c].session
    /\ Goto(c, "write")
    /\ UNCHANGED <<call, snapshot>>

\* With nothing to abort the transaction commits as it began.
CheckAbort(c) ==
    LET s == call[c].session
    IN  /\ call[c].op = "abort_active_run"
        /\ HasSession(s)
        /\ \/ /\ ActiveRuns(s) = {}
              /\ Goto(c, "commit")
              /\ UNCHANGED call
           \/ \E r \in ActiveRuns(s) :
                /\ Goto(c, "write")
                /\ call' = [call EXCEPT ![c] =
                     [op |-> "abort_active_run", session |-> s, run |-> r, outcome |-> Aborted]]
        /\ UNCHANGED snapshot

CheckFork(c) ==
    /\ call[c].op = "fork_session"
    /\ HasSession(call[c].source)
    /\ ~HasSession(call[c].session)
    /\ Goto(c, "write")
    /\ UNCHANGED <<call, snapshot>>

Check(c) ==
    /\ pc[c] = "check"
    /\ CheckStart(c) \/ CheckFinish(c) \/ CheckAbort(c) \/ CheckFork(c)
    /\ UNCHANGED <<db, writer, view>>

\* PRIMARY KEY of sessions
InsertSession(c) ==
    /\ call[c].op \in {"create_session", "fork_session"}
    /\ ~HasSession(call[c].session)
    /\ \E t \in Times :
         view' = [view EXCEPT !.sessions[call[c].session] = Store!NewSession(t)]
    /\ Goto(c, IF call[c].op = "fork_session" THEN "history" ELSE "commit")

\* PRIMARY KEY of runs, and the index one_active_run_per_session
InsertRun(c) ==
    /\ call[c].op = "start_run"
    /\ view.runs[call[c].run] = NULL
    /\ ActiveRuns(call[c].session) = {}
    /\ \E t \in Times :
         view' = [view EXCEPT !.runs[call[c].run] = Store!NewRun(call[c].session, t)]
    /\ Goto(c, "commit")

\* UPDATE runs ... AND status = 'active'
FinalizeActiveRun(c) ==
    LET r == call[c].run
    IN  /\ call[c].op \in {"finish_run", "abort_active_run"}
        /\ Active(r)
        /\ \E t \in Times :
             view' = [view EXCEPT !.runs[r] = Store!TerminalRun(@, call[c].outcome, t)]
        /\ Goto(c, IF call[c].op = "finish_run" THEN "history" ELSE "touch")

Write(c) ==
    /\ pc[c] = "write"
    /\ InsertSession(c) \/ InsertRun(c) \/ FinalizeActiveRun(c)
    /\ UNCHANGED <<db, writer, call, snapshot>>

\* UNIQUE (session_id, position) admits the rows.
Unused(rows) ==
    \A x \in rows, y \in view.rows :
      ~(x.session = y.session /\ x.position = y.position)

Insert(c, rows, label) ==
    /\ Unused(rows)
    /\ view' = [view EXCEPT !.rows = @ \cup rows]
    /\ Goto(c, label)

DeltaRows(s, first, r, d) ==
    {[session |-> s, position |-> first + i - 1, run |-> r, item |-> d[i]] : i \in DOMAIN d}

FinishRows(k) == DeltaRows(k.session, NextPosition(k.session), k.run, k.delta)

ForkRows(k) == {[x EXCEPT !.session = k.session] :
                  x \in {y \in view.rows : y.session = k.source}}

InsertHistoryDelta(c) ==
    /\ call[c].op = "finish_run"
    /\ Insert(c, FinishRows(call[c]), "touch")

CopyHistoryItems(c) ==
    /\ call[c].op = "fork_session"
    /\ Insert(c, ForkRows(call[c]), "commit")

History(c) ==
    /\ pc[c] = "history"
    /\ InsertHistoryDelta(c) \/ CopyHistoryItems(c)
    /\ UNCHANGED <<db, writer, call, snapshot>>

TouchSession(c) ==
    /\ pc[c] = "touch"
    /\ view' = [view EXCEPT !.sessions[call[c].session] =
                  Store!Touched(@, view.runs[call[c].run].ended)]
    /\ Goto(c, "commit")
    /\ UNCHANGED <<db, writer, call, snapshot>>
-----------------------------------------------------------------------------
Step(c) ==
    \/ Begin(c) \/ Busy(c) \/ Check(c) \/ Write(c) \/ History(c) \/ TouchSession(c)
    \/ Commit(c) \/ Rollback(c)

Next ==
    \E c \in Conns :
        \/ \E k \in Calls : Invoke(c, k)
        \/ Step(c)

Spec == Init /\ [][Next]_vars

-----------------------------------------------------------------------------
\* Positions of a session's committed rows count up from 0 without a gap or
\* a repeat, through appends, forks and rolled back attempts at either.
PositionsDense ==
    \A s \in Sessions :
        LET rows == {x \in db.rows : x.session = s}
        IN  {x.position : x \in rows} = 0 .. Cardinality(rows) - 1

\* The schema's constraints are a second line of defence that the code's own
\* checks leave idle: start_run meets no active run at its INSERT (it
\* would surface as a persistence error instead of ActiveRunError), and none of
\* the positions that finish_run numbers on, or that fork_session copies, is taken
\* when its history INSERT reaches the table.
IndexesStayIdle ==
    \A c \in Conns :
        /\ pc[c] = "write" /\ call[c].op = "start_run"
             => ActiveRuns(call[c].session) = {}
        /\ pc[c] = "history" /\ call[c].op = "finish_run" => Unused(FinishRows(call[c]))
        /\ pc[c] = "history" /\ call[c].op = "fork_session" => Unused(ForkRows(call[c]))

\* The history that start_run returns is its session's history at the very
\* moment the run becomes visible.
StartSnapshotIsAtomic ==
    [][\A c \in Conns :
         snapshot[c] # NULL /\ db' # db /\ writer = c
           => snapshot[c] = HistoryIn(db', call[c].session)]_vars

\* Statement by statement, crash by crash, the tables change exactly as the
\* atomic operations of TileStore change them.
StoreSpec == Store!StoreSpec

=============================================================================
