------------------------------ MODULE TileStore ------------------------------
(***************************************************************************)
(* What a Store promises (tile/store/base.py): sessions, runs and each     *)
(* session's committed history, changed only by atomic operations.         *)
(*                                                                         *)
(* A row that is absent is NULL.  A run row keeps the columns the code     *)
(* branches on; its status column is "active" exactly when its outcome is  *)
(* NULL (the CHECK of schema.py).  A history is the sequence of its rows   *)
(* in position order; positions themselves are the business of             *)
(* SQLiteStore, which implements this module.                              *)
(*                                                                         *)
(* Every operation reads the wall clock once.  The clock may step back, so *)
(* the reading is any t \in Times.                                         *)
(***************************************************************************)
EXTENDS Integers, Sequences

CONSTANTS
    Sessions,   \* session ids
    Runs,       \* run ids
    Items,      \* conversation items
    Deltas,     \* history deltas a caller may commit
    Outcomes,   \* terminal outcomes of a run
    Aborted,    \* the outcome a durable abort records
    Times,      \* wall-clock readings
    NULL        \* an absent row or column

ASSUME StoreAssumption ==
    /\ Deltas \subseteq Seq(Items)
    /\ Aborted \in Outcomes
    /\ Times \subseteq Int
    /\ NULL \notin Outcomes
    /\ NULL \notin Times
    /\ NULL \notin [created : Times, updated : Times]
    /\ NULL \notin [session : Sessions, started : Times,
                    ended : Times \cup {NULL}, outcome : Outcomes \cup {NULL}]

VARIABLES
    sessions,   \* session id -> its row, or NULL
    runs,       \* run id -> its row, or NULL
    history     \* session id -> committed history rows in position order

storeVars == <<sessions, runs, history>>

SessionRow == [created : Times, updated : Times]

RunRow == [session : Sessions, started : Times,
           ended : Times \cup {NULL}, outcome : Outcomes \cup {NULL}]

HistoryRow == [run : Runs, item : Items]
-----------------------------------------------------------------------------
Exists(s) == sessions[s] # NULL

IsActive(r) == runs[r] # NULL /\ runs[r].outcome = NULL

IsEnded(r) == runs[r] # NULL /\ runs[r].outcome # NULL

ActiveIn(r, s) == IsActive(r) /\ runs[r].session = s

Latest(t1, t2) == IF t1 < t2 THEN t2 ELSE t1

NewSession(t) == [created |-> t, updated |-> t]

NewRun(s, t) == [session |-> s, started |-> t, ended |-> NULL, outcome |-> NULL]

\* A run never ends before it started, whatever the clock reads.
TerminalRun(row, o, t) ==
    [row EXCEPT !.ended = Latest(t, row.started), !.outcome = o]

\* A session's update time never goes back.
Touched(row, t) == [row EXCEPT !.updated = Latest(row.updated, t)]

RowsFor(r, d) == [i \in DOMAIN d |-> [run |-> r, item |-> d[i]]]
-----------------------------------------------------------------------------
StoreInit ==
    /\ sessions = [s \in Sessions |-> NULL]
    /\ runs = [r \in Runs |-> NULL]
    /\ history = [s \in Sessions |-> <<>>]

CreateSession(s, t) ==
    /\ ~Exists(s)
    /\ sessions' = [sessions EXCEPT ![s] = NewSession(t)]
    /\ UNCHANGED <<runs, history>>

\* Mutant: the active run is not looked for.
StartRunUnchecked(s, r, t) ==
    /\ Exists(s)
    /\ runs[r] = NULL
    /\ runs' = [runs EXCEPT ![r] = NewRun(s, t)]
    /\ UNCHANGED <<sessions, history>>

StartRun(s, r, t) ==
    /\ Exists(s)
    /\ \A q \in Runs : ~ActiveIn(q, s)
    /\ runs[r] = NULL
    /\ runs' = [runs EXCEPT ![r] = NewRun(s, t)]
    /\ UNCHANGED <<sessions, history>>

\* The active run of a session ends: its record and its session's update time
\* change together.
EndRun(s, r, o, t) ==
    LET ended == TerminalRun(runs[r], o, t)
    IN  /\ runs' = [runs EXCEPT ![r] = ended]
        /\ sessions' = [sessions EXCEPT ![s] = Touched(@, ended.ended)]

AppendRows(s, r, d) == history' = [history EXCEPT ![s] = @ \o RowsFor(r, d)]

\* Mutant: a late finish is not told from a timely one.
FinishRunUnfenced(s, r, o, d, t) ==
    /\ runs[r] # NULL
    /\ runs[r].session = s
    /\ EndRun(s, r, o, t)
    /\ AppendRows(s, r, d)

FinishRun(s, r, o, d, t) ==
    /\ ActiveIn(r, s)
    /\ EndRun(s, r, o, t)
    /\ AppendRows(s, r, d)

\* The run that a durable abort ends commits no history: its task, if one
\* still runs, is not consulted.
AbortRun(s, r, t) ==
    /\ Exists(s)
    /\ ActiveIn(r, s)
    /\ EndRun(s, r, Aborted, t)
    /\ UNCHANGED history

\* Mutant: a fork may overwrite.
ForkSessionOver(source, target, t) ==
    /\ Exists(source)
    /\ sessions' = [sessions EXCEPT ![target] = NewSession(t)]
    /\ history' = [history EXCEPT ![target] = history[source]]
    /\ UNCHANGED runs

ForkSession(source, target, t) ==
    /\ Exists(source)
    /\ ~Exists(target)
    /\ sessions' = [sessions EXCEPT ![target] = NewSession(t)]
    /\ history' = [history EXCEPT ![target] = history[source]]
    /\ UNCHANGED runs

StoreNext ==
    \E t \in Times, s \in Sessions :
        \/ CreateSession(s, t)
        \/ \E r \in Runs : StartRun(s, r, t)
        \/ \E r \in Runs, o \in Outcomes, d \in Deltas : FinishRun(s, r, o, d, t)
        \/ \E r \in Runs : AbortRun(s, r, t)
        \/ \E target \in Sessions : ForkSession(s, target, t)

StoreSpec == StoreInit /\ [][StoreNext]_storeVars
-----------------------------------------------------------------------------
\* Every variable holds rows of its table.
StoreTypeOK ==
    /\ sessions \in [Sessions -> SessionRow \cup {NULL}]
    /\ runs \in [Runs -> RunRow \cup {NULL}]
    /\ history \in [Sessions -> Seq(HistoryRow)]

\* A session owns at most one active run (one_active_run_per_session), however
\* starts, finishes, durable aborts and forks follow each other.
OneActiveRun ==
    \A q, r \in Runs, s \in Sessions : ActiveIn(q, s) /\ ActiveIn(r, s) => q = r

\* The clock may step back between any two operations, yet a run never ends
\* before it started, and no run ended after its session was last updated.
TimesAgree ==
    /\ \A s \in Sessions :
         Exists(s) => sessions[s].created <= sessions[s].updated
    /\ \A r \in Runs :
         IsEnded(r) => /\ runs[r].started <= runs[r].ended
                       /\ runs[r].ended <= sessions[runs[r].session].updated

\* No history row, in the run's own session or in a fork of it, belongs to a
\* run that is still active: a run's delta becomes visible with its outcome.
RowsAreOfEndedRuns ==
    \A s \in Sessions : \A i \in DOMAIN history[s] : IsEnded(history[s][i].run)

\* A run commits its rows together, so in every session they are adjacent.
RunRowsAdjacent ==
    \A s \in Sessions : \A i, j \in DOMAIN history[s] :
        history[s][i].run = history[s][j].run
            => \A k \in i .. j : history[s][k].run = history[s][i].run

RunsHaveSessions == \A r \in Runs : runs[r] # NULL => Exists(runs[r].session)

EndTimesAgree == \A r \in Runs : IsEnded(r) => runs[r].ended # NULL

NoHistoryBeforeSession == \A s \in Sessions : ~Exists(s) => history[s] = <<>>

\* The inductive invariant behind the properties above and below.
StoreInv ==
    /\ StoreTypeOK
    /\ RunsHaveSessions
    /\ EndTimesAgree
    /\ NoHistoryBeforeSession
    /\ OneActiveRun
    /\ TimesAgree
    /\ RowsAreOfEndedRuns
    /\ RunRowsAdjacent

KeepsEndedRuns ==
    \A r \in Runs :
        IsEnded(r) =>
          /\ runs'[r] = runs[r]
          /\ \A i \in DOMAIN history'[runs[r].session] :
               history'[runs[r].session][i].run = r
                   => i \in DOMAIN history[runs[r].session]

\* Once ended, a run keeps its outcome and its end time for ever and its own
\* session never gains another row of it: later finishes and aborts are fenced.
EndedRunIsFenced == [][KeepsEndedRuns]_storeVars

KeepsHistory ==
    \A s \in Sessions :
        /\ Len(history[s]) <= Len(history'[s])
        /\ \A i \in DOMAIN history[s] : history'[s][i] = history[s][i]

\* Committed history is append-only: no operation rewrites or drops a row, a
\* fork included.
HistoryAppendOnly == [][KeepsHistory]_storeVars
=============================================================================
