-------------------------- MODULE RunLifecycleProofs --------------------------
(***************************************************************************)
(* Theorems about the store contract (TileStore) and about the live runs   *)
(* that are built on it (RunLifecycle).                                    *)
(***************************************************************************)
EXTENDS RunLifecycle, TLAPS

(***************************************************************************)
(* The Store's promises hold for every set of sessions, runs, items and    *)
(* clock readings.  StoreInv is inductive: an append lands on rows of      *)
(* ended runs only, so a run's rows stay adjacent; a session that does not *)
(* exist owns no run and no row, so a fork overwrites nothing.             *)
(***************************************************************************)

LEMMA RowsForFacts ==
    ASSUME NEW r \in Runs, NEW d \in Deltas
    PROVE  /\ RowsFor(r, d) \in Seq(HistoryRow)
           /\ Len(RowsFor(r, d)) = Len(d)
           /\ \A i \in 1 .. Len(d) : RowsFor(r, d)[i].run = r
<1>1. d \in Seq(Items)
  BY StoreAssumption
<1>2. DOMAIN d = 1 .. Len(d) /\ \A i \in 1 .. Len(d) : d[i] \in Items
  BY <1>1
<1>3. RowsFor(r, d) = [i \in 1 .. Len(d) |-> [run |-> r, item |-> d[i]]]
  BY <1>2 DEF RowsFor
<1>4. \A i \in 1 .. Len(d) : [run |-> r, item |-> d[i]] \in HistoryRow
  BY <1>2 DEF HistoryRow
<1>5. Len(d) \in Nat
  BY <1>1
<1> QED
  BY <1>3, <1>4, <1>5

LEMMA LatestFacts ==
    ASSUME NEW t1 \in Times, NEW t2 \in Times
    PROVE  /\ Latest(t1, t2) \in Times
           /\ t1 <= Latest(t1, t2)
           /\ t2 <= Latest(t1, t2)
BY StoreAssumption DEF Latest

\* What the terminal update writes.
LEMMA TerminalRunFacts ==
    ASSUME NEW row \in RunRow, NEW o \in Outcomes, NEW t \in Times
    PROVE  LET ended == TerminalRun(row, o, t)
           IN  /\ ended \in RunRow
               /\ ended # NULL
               /\ ended.session = row.session
               /\ ended.started = row.started
               /\ ended.outcome = o
               /\ ended.ended \in Times
               /\ row.started <= ended.ended
<1>1. row.started \in Times
  BY DEF RunRow
<1>2. Latest(t, row.started) \in Times /\ row.started <= Latest(t, row.started)
  BY <1>1, LatestFacts
<1>3. TerminalRun(row, o, t) \in RunRow
  BY <1>2 DEF TerminalRun, RunRow
<1> QED
  BY <1>2, <1>3, StoreAssumption DEF TerminalRun, RunRow

LEMMA TouchedFacts ==
    ASSUME NEW row \in SessionRow, NEW t \in Times
    PROVE  /\ Touched(row, t) \in SessionRow
           /\ Touched(row, t) # NULL
           /\ Touched(row, t).created = row.created
           /\ row.updated <= Touched(row, t).updated
           /\ t <= Touched(row, t).updated
<1>1. Latest(row.updated, t) \in Times /\ row.updated <= Latest(row.updated, t)
                                       /\ t <= Latest(row.updated, t)
  BY LatestFacts DEF SessionRow
<1> QED
  BY <1>1, StoreAssumption DEF Touched, SessionRow

LEMMA NewSessionFacts ==
    ASSUME NEW t \in Times
    PROVE  /\ NewSession(t) \in SessionRow
           /\ NewSession(t) # NULL
           /\ NewSession(t).created <= NewSession(t).updated
BY StoreAssumption DEF NewSession, SessionRow

LEMMA NewRunFacts ==
    ASSUME NEW s \in Sessions, NEW t \in Times
    PROVE  /\ NewRun(s, t) \in RunRow
           /\ NewRun(s, t) # NULL
           /\ NewRun(s, t).session = s
           /\ NewRun(s, t).outcome = NULL
BY StoreAssumption DEF NewRun, RunRow
-----------------------------------------------------------------------------
LEMMA StoreInvInit == StoreInit => StoreInv
BY DEF StoreInit, StoreInv, StoreTypeOK, RunsHaveSessions, EndTimesAgree,
       NoHistoryBeforeSession, OneActiveRun, TimesAgree, RowsAreOfEndedRuns,
       RunRowsAdjacent, Exists, IsActive, IsEnded, ActiveIn

LEMMA CreateSessionKeepsInv ==
    ASSUME StoreInv, NEW s \in Sessions, NEW t \in Times, CreateSession(s, t)
    PROVE  StoreInv'
<1> USE DEF StoreInv
<1>1. /\ sessions' = [sessions EXCEPT ![s] = NewSession(t)]
      /\ runs' = runs /\ history' = history /\ ~Exists(s)
  BY DEF CreateSession
<1>2. StoreTypeOK'
  BY <1>1, NewSessionFacts DEF StoreTypeOK
<1>3. \A u \in Sessions : Exists(u) => Exists(u)' /\ sessions'[u] = sessions[u]
  BY <1>1, NewSessionFacts DEF StoreTypeOK, Exists
<1>4. RunsHaveSessions'
  BY <1>1, <1>3 DEF RunsHaveSessions, StoreTypeOK, RunRow
<1>5. EndTimesAgree' /\ OneActiveRun' /\ RowsAreOfEndedRuns' /\ RunRowsAdjacent'
  BY <1>1 DEF EndTimesAgree, OneActiveRun, RowsAreOfEndedRuns, RunRowsAdjacent,
              IsEnded, IsActive, ActiveIn
<1>6. NoHistoryBeforeSession'
  BY <1>1, <1>3 DEF NoHistoryBeforeSession
<1>7. TimesAgree'
  <2>1. ASSUME NEW u \in Sessions, Exists(u)' PROVE (sessions[u].created <= sessions[u].updated)'
    BY <1>1, <1>3, <2>1, NewSessionFacts DEF TimesAgree, StoreTypeOK, Exists
  <2>2. ASSUME NEW r \in Runs, IsEnded(r)'
        PROVE  (/\ runs[r].started <= runs[r].ended
                /\ runs[r].ended <= sessions[runs[r].session].updated)'
    <3>1. IsEnded(r) /\ runs[r] # NULL /\ runs[r].session \in Sessions
      BY <1>1, <2>2 DEF IsEnded, StoreTypeOK, RunRow
    <3> QED
      BY <1>1, <1>3, <3>1 DEF TimesAgree, RunsHaveSessions
  <2> QED
    BY <2>1, <2>2 DEF TimesAgree
<1> QED
  BY <1>2, <1>4, <1>5, <1>6, <1>7

LEMMA StartRunKeepsInv ==
    ASSUME StoreInv, NEW s \in Sessions, NEW r \in Runs, NEW t \in Times, StartRun(s, r, t)
    PROVE  StoreInv'
<1> USE DEF StoreInv
<1>1. /\ runs' = [runs EXCEPT ![r] = NewRun(s, t)]
      /\ sessions' = sessions /\ history' = history
      /\ Exists(s) /\ runs[r] = NULL /\ \A q \in Runs : ~ActiveIn(q, s)
  BY DEF StartRun
<1>2. /\ runs'[r] \in RunRow /\ runs'[r].session = s /\ runs'[r].outcome = NULL
      /\ \A q \in Runs \ {r} : runs'[q] = runs[q]
  BY <1>1, NewRunFacts DEF StoreTypeOK
<1>3. StoreTypeOK'
  BY <1>1, <1>2 DEF StoreTypeOK
<1>4. \A q \in Runs : IsEnded(q)' <=> IsEnded(q)
  BY <1>1, <1>2 DEF IsEnded
<1>5. \A q \in Runs : IsEnded(q) => runs'[q] = runs[q]
  BY <1>1, <1>2 DEF IsEnded
<1>6. RunsHaveSessions' /\ NoHistoryBeforeSession'
  BY <1>1, <1>2 DEF RunsHaveSessions, NoHistoryBeforeSession, Exists
<1>7. EndTimesAgree' /\ TimesAgree'
  BY <1>1, <1>4, <1>5 DEF EndTimesAgree, TimesAgree, Exists
<1>8. OneActiveRun'
  BY <1>1, <1>2 DEF OneActiveRun, ActiveIn, IsActive
<1>9. RowsAreOfEndedRuns'
  <2> SUFFICES ASSUME NEW u \in Sessions, NEW i \in DOMAIN history[u]
               PROVE  runs'[history[u][i].run] # NULL /\ runs'[history[u][i].run].outcome # NULL
    BY <1>1 DEF RowsAreOfEndedRuns, IsEnded
  <2>1. history[u][i] \in HistoryRow /\ IsEnded(history[u][i].run)
    BY DEF StoreTypeOK, RowsAreOfEndedRuns
  <2> QED
    BY <1>5, <2>1 DEF HistoryRow, IsEnded
<1>10. RunRowsAdjacent'
  BY <1>1 DEF RunRowsAdjacent
<1> QED
  BY <1>3, <1>6, <1>7, <1>8, <1>9, <1>10

\* The active run r of s ends and adds rows of its own: a finish, or an abort,
\* which adds none.
LEMMA EndingKeepsInv ==
    ASSUME StoreInv,
           NEW s \in Sessions, NEW r \in Runs, NEW o \in Outcomes, NEW t \in Times,
           NEW rows \in Seq(HistoryRow), \A i \in 1 .. Len(rows) : rows[i].run = r,
           ActiveIn(r, s),
           runs' = [runs EXCEPT ![r] = TerminalRun(runs[r], o, t)],
           sessions' = [sessions EXCEPT ![s] = Touched(@, TerminalRun(runs[r], o, t).ended)],
           history' = [history EXCEPT ![s] = @ \o rows]
    PROVE  StoreInv'
<1> USE DEF StoreInv
<1> DEFINE ended == TerminalRun(runs[r], o, t)
<1>1. runs[r] \in RunRow /\ runs[r].session = s /\ runs[r].outcome = NULL /\ IsActive(r)
  BY DEF ActiveIn, IsActive, StoreTypeOK
<1>2. /\ ended \in RunRow /\ ended # NULL /\ ended.session = s /\ ended.outcome = o
      /\ ended.ended \in Times /\ ended.started <= ended.ended
  BY <1>1, TerminalRunFacts
<1>3. /\ runs'[r] = ended
      /\ \A q \in Runs \ {r} : runs'[q] = runs[q]
  BY DEF StoreTypeOK
<1> HIDE DEF ended
<1>4. o # NULL /\ ended.ended # NULL
  BY <1>2, StoreAssumption
<1>5. Exists(s) /\ sessions[s] \in SessionRow
  BY <1>1 DEF RunsHaveSessions, ActiveIn, IsActive, StoreTypeOK, Exists
<1>6. /\ sessions'[s] = Touched(sessions[s], ended.ended)
      /\ \A u \in Sessions \ {s} : sessions'[u] = sessions[u]
  BY DEF StoreTypeOK, ended
<1>7. /\ sessions'[s] \in SessionRow /\ sessions'[s] # NULL
      /\ sessions'[s].created = sessions[s].created
      /\ sessions[s].updated <= sessions'[s].updated
      /\ ended.ended <= sessions'[s].updated
  BY <1>2, <1>5, <1>6, TouchedFacts
<1>8. /\ history'[s] = history[s] \o rows
      /\ \A u \in Sessions \ {s} : history'[u] = history[u]
  BY DEF StoreTypeOK
<1>9. StoreTypeOK'
  <2>1. runs' \in [Runs -> RunRow \cup {NULL}]
    BY <1>2 DEF StoreTypeOK, ended
  <2>2. sessions' \in [Sessions -> SessionRow \cup {NULL}]
    BY <1>6, <1>7 DEF StoreTypeOK, ended
  <2>3. history' \in [Sessions -> Seq(HistoryRow)]
    BY DEF StoreTypeOK
  <2> QED
    BY <2>1, <2>2, <2>3 DEF StoreTypeOK
<1>10. \A q \in Runs : IsEnded(q)' <=> (q = r \/ IsEnded(q))
  BY <1>2, <1>3, <1>4 DEF IsEnded
<1>11. \A u \in Sessions : Exists(u)' <=> Exists(u)
  BY <1>5, <1>6, <1>7 DEF Exists
<1>12. RunsHaveSessions'
  BY <1>1, <1>2, <1>3, <1>5, <1>11 DEF RunsHaveSessions, Exists, StoreTypeOK, RunRow
<1>13. EndTimesAgree'
  BY <1>3, <1>4, <1>10 DEF EndTimesAgree
<1>14. NoHistoryBeforeSession'
  BY <1>5, <1>8, <1>11 DEF NoHistoryBeforeSession
<1>15. OneActiveRun'
  BY <1>2, <1>3, <1>4 DEF OneActiveRun, ActiveIn, IsActive
<1>16. TimesAgree'
  <2>1. ASSUME NEW u \in Sessions, Exists(u)'
        PROVE  (sessions[u].created <= sessions[u].updated)'
    <3>1. Exists(u) /\ sessions[u].created <= sessions[u].updated /\ sessions[u] \in SessionRow
      BY <1>11, <2>1 DEF TimesAgree, StoreTypeOK, Exists
    <3>2. CASE u = s
      <4>1. {sessions[s].created, sessions[s].updated, sessions'[s].updated} \subseteq Int
        BY <1>5, <1>7, StoreAssumption DEF SessionRow
      <4> QED
        BY <1>7, <3>1, <3>2, <4>1
    <3>3. CASE u # s
      BY <1>6, <3>1, <3>3
    <3> QED
      BY <3>2, <3>3
  <2>2. ASSUME NEW q \in Runs, IsEnded(q)'
        PROVE  /\ (runs[q].started <= runs[q].ended)'
               /\ (runs[q].ended <= sessions[runs[q].session].updated)'
    <3>1. CASE q = r
      BY <1>2, <1>3, <1>7, <3>1
    <3>2. CASE q # r
      <4>1. /\ runs'[q] = runs[q] /\ IsEnded(q) /\ runs[q] \in RunRow
            /\ runs[q].started <= runs[q].ended
            /\ runs[q].ended <= sessions[runs[q].session].updated
        BY <1>3, <1>10, <2>2, <3>2 DEF TimesAgree, IsEnded, StoreTypeOK
      <4>2. CASE runs[q].session = s
        <5>1. {runs[q].ended, sessions[s].updated, sessions'[s].updated} \subseteq Int
          BY <1>5, <1>7, <4>1, StoreAssumption DEF SessionRow, RunRow, EndTimesAgree
        <5> QED
          BY <1>7, <4>1, <4>2, <5>1
      <4>3. CASE runs[q].session # s
        BY <1>6, <4>1, <4>3 DEF RunRow
      <4> QED
        BY <4>2, <4>3
    <3> QED
      BY <3>1, <3>2
  <2> QED
    BY <2>1, <2>2 DEF TimesAgree
<1>17. \A i \in DOMAIN history'[s] :
         \/ i \in DOMAIN history[s] /\ history'[s][i] = history[s][i] /\ history[s][i].run # r
         \/ i \notin DOMAIN history[s] /\ Len(history[s]) < i /\ history'[s][i].run = r
  <2>1. history[s] \in Seq(HistoryRow)
    BY DEF StoreTypeOK
  <2>2. ASSUME NEW i \in DOMAIN history[s] PROVE history'[s][i] = history[s][i]
    BY <1>8, <2>1
  <2>3. \A i \in DOMAIN history[s] : history[s][i].run # r
    BY <1>1 DEF RowsAreOfEndedRuns, IsEnded, IsActive
  <2>4. ASSUME NEW i \in DOMAIN history'[s], i \notin DOMAIN history[s]
        PROVE  Len(history[s]) < i /\ history'[s][i].run = r
    BY <1>8, <2>1, <2>4
  <2> QED
    BY <2>2, <2>3, <2>4
<1>18. RowsAreOfEndedRuns'
  <2> SUFFICES ASSUME NEW u \in Sessions, NEW i \in DOMAIN history'[u],
                      NEW q, q = history'[u][i].run
               PROVE  IsEnded(q)'
    BY DEF RowsAreOfEndedRuns, IsEnded
  <2>1. ASSUME i \in DOMAIN history[u], q = history[u][i].run
        PROVE  IsEnded(q)'
    <3>1. history[u][i] \in HistoryRow /\ IsEnded(history[u][i].run)
      BY <2>1 DEF StoreTypeOK, RowsAreOfEndedRuns
    <3> QED
      BY <1>10, <2>1, <3>1 DEF HistoryRow
  <2>2. CASE u # s
    BY <1>8, <2>1, <2>2
  <2>3. CASE u = s /\ i \in DOMAIN history[s]
    BY <1>17, <2>1, <2>3
  <2>4. CASE u = s /\ i \notin DOMAIN history[s]
    BY <1>10, <1>17, <2>4
  <2> QED
    BY <2>2, <2>3, <2>4
<1>19. RunRowsAdjacent'
  <2> SUFFICES ASSUME NEW u \in Sessions,
                      NEW i \in DOMAIN history'[u], NEW j \in DOMAIN history'[u],
                      history'[u][i].run = history'[u][j].run, NEW k \in i .. j
               PROVE  history'[u][k].run = history'[u][i].run
    BY DEF RunRowsAdjacent
  <2>1. CASE u # s
    BY <1>8, <2>1 DEF RunRowsAdjacent
  <2>2. CASE u = s
    <3>1. history[s] \in Seq(HistoryRow) /\ history'[s] \in Seq(HistoryRow)
      BY <1>9 DEF StoreTypeOK
    <3>2. k \in DOMAIN history'[s]
      BY <2>2, <3>1
    <3>3. CASE i \in DOMAIN history[s]
      <4>1. j \in DOMAIN history[s] /\ k \in DOMAIN history[s]
        BY <1>17, <2>2, <3>1, <3>2, <3>3
      <4> QED
        BY <1>17, <2>2, <3>2, <3>3, <4>1 DEF RunRowsAdjacent
    <3>4. CASE i \notin DOMAIN history[s]
      BY <1>17, <2>2, <3>1, <3>2, <3>4, SMTT(20)
    <3> QED
      BY <3>3, <3>4
  <2> QED
    BY <2>1, <2>2
<1> QED
  BY <1>9, <1>12, <1>13, <1>14, <1>15, <1>16, <1>18, <1>19

LEMMA ForkSessionKeepsInv ==
    ASSUME StoreInv, NEW source \in Sessions, NEW target \in Sessions, NEW t \in Times,
           ForkSession(source, target, t)
    PROVE  StoreInv'
<1> USE DEF StoreInv
<1>1. /\ sessions' = [sessions EXCEPT ![target] = NewSession(t)]
      /\ history' = [history EXCEPT ![target] = history[source]]
      /\ runs' = runs /\ Exists(source) /\ ~Exists(target)
  BY DEF ForkSession
<1>2. \A u \in Sessions :
         /\ u = target => sessions'[u] = NewSession(t) /\ history'[u] = history[source]
         /\ u # target => sessions'[u] = sessions[u] /\ history'[u] = history[u]
  BY <1>1 DEF StoreTypeOK
<1>3. \A u \in Sessions : Exists(u)' <=> (u = target \/ Exists(u))
  BY <1>2, NewSessionFacts DEF Exists
<1>4. StoreTypeOK'
  BY <1>1, NewSessionFacts DEF StoreTypeOK
<1>5. \A u \in Sessions : \E v \in Sessions : history'[u] = history[v]
  BY <1>2
<1>6. EndTimesAgree' /\ OneActiveRun'
  BY <1>1 DEF EndTimesAgree, OneActiveRun, IsEnded, IsActive, ActiveIn
<1>7. RunsHaveSessions'
  BY <1>1, <1>3 DEF RunsHaveSessions, StoreTypeOK, RunRow
<1>8. NoHistoryBeforeSession'
  BY <1>2, <1>3 DEF NoHistoryBeforeSession
<1>9. RowsAreOfEndedRuns'
  BY <1>1, <1>5 DEF RowsAreOfEndedRuns, IsEnded
<1>10. RunRowsAdjacent'
  BY <1>5 DEF RunRowsAdjacent
<1>11. TimesAgree'
  <2>1. ASSUME NEW u \in Sessions, Exists(u)'
        PROVE  (sessions[u].created <= sessions[u].updated)'
    BY <1>2, <1>3, <2>1, NewSessionFacts DEF TimesAgree
  <2>2. ASSUME NEW r \in Runs, IsEnded(r)'
        PROVE  /\ (runs[r].started <= runs[r].ended)'
               /\ (runs[r].ended <= sessions[runs[r].session].updated)'
    <3>1. IsEnded(r) /\ runs[r] # NULL /\ runs[r].session \in Sessions
      BY <1>1, <2>2 DEF IsEnded, StoreTypeOK, RunRow
    <3> QED
      BY <1>1, <1>2, <3>1 DEF TimesAgree, RunsHaveSessions
  <2> QED
    BY <2>1, <2>2 DEF TimesAgree
<1> QED
  BY <1>4, <1>6, <1>7, <1>8, <1>9, <1>10, <1>11

LEMMA StoreInvStep ==
    ASSUME StoreInv, [StoreNext]_storeVars
    PROVE  StoreInv'
<1>1. ASSUME NEW t \in Times, NEW s \in Sessions, CreateSession(s, t)
      PROVE  StoreInv'
  BY <1>1, CreateSessionKeepsInv
<1>2. ASSUME NEW t \in Times, NEW s \in Sessions, NEW r \in Runs, StartRun(s, r, t)
      PROVE  StoreInv'
  BY <1>2, StartRunKeepsInv
<1>3. ASSUME NEW t \in Times, NEW s \in Sessions, NEW r \in Runs,
             NEW o \in Outcomes, NEW d \in Deltas, FinishRun(s, r, o, d, t)
      PROVE  StoreInv'
  <2>1. RowsFor(r, d) \in Seq(HistoryRow)
        /\ \A i \in 1 .. Len(RowsFor(r, d)) : RowsFor(r, d)[i].run = r
    BY RowsForFacts
  <2> QED
    BY <1>3, <2>1, EndingKeepsInv DEF FinishRun, EndRun, AppendRows
<1>4. ASSUME NEW t \in Times, NEW s \in Sessions, NEW r \in Runs, AbortRun(s, r, t)
      PROVE  StoreInv'
  <2>1. history[s] \in Seq(HistoryRow) /\ history \in [Sessions -> Seq(HistoryRow)]
    BY DEF StoreInv, StoreTypeOK
  <2>2. history' = [history EXCEPT ![s] = @ \o << >>]
    BY <1>4, <2>1 DEF AbortRun, EndRun
  <2>3. /\ ActiveIn(r, s)
        /\ runs' = [runs EXCEPT ![r] = TerminalRun(runs[r], Aborted, t)]
        /\ sessions' = [sessions EXCEPT ![s] = Touched(@, TerminalRun(runs[r], Aborted, t).ended)]
    BY <1>4 DEF AbortRun, EndRun
  <2>4. Aborted \in Outcomes
    BY StoreAssumption
  <2>5. << >> \in Seq(HistoryRow) /\ Len(<< >>) = 0
    OBVIOUS
  <2>6. ASSUME NEW rows \in Seq(HistoryRow), Len(rows) = 0,
               history' = [history EXCEPT ![s] = @ \o rows]
        PROVE  StoreInv'
    <3>1. \A i \in 1 .. Len(rows) : rows[i].run = r
      BY <2>6
    <3> QED
      BY <2>3, <2>4, <2>6, <3>1, EndingKeepsInv
  <2> QED
    BY <2>2, <2>5, <2>6
<1>5. ASSUME NEW t \in Times, NEW s \in Sessions, NEW target \in Sessions,
             ForkSession(s, target, t)
      PROVE  StoreInv'
  BY <1>5, ForkSessionKeepsInv
<1>6. ASSUME UNCHANGED storeVars
      PROVE  StoreInv'
  BY <1>6 DEF storeVars, StoreInv, StoreTypeOK, RunsHaveSessions, EndTimesAgree,
              NoHistoryBeforeSession, OneActiveRun, TimesAgree, RowsAreOfEndedRuns,
              RunRowsAdjacent, Exists, IsActive, IsEnded, ActiveIn
<1> QED
  BY <1>1, <1>2, <1>3, <1>4, <1>5, <1>6 DEF StoreNext
-----------------------------------------------------------------------------
\* Whatever the sessions, runs, deltas and clock readings, every state of the
\* store satisfies the inductive invariant.
THEOREM StoreInvariant == StoreSpec => []StoreInv
<1>1. StoreInit => StoreInv
  BY StoreInvInit
<1>2. StoreInv /\ [StoreNext]_storeVars => StoreInv'
  BY StoreInvStep
<1> QED
  BY <1>1, <1>2, PTL DEF StoreSpec

\* The tables hold rows of their types (store/models.py, store/schema.py).
THEOREM StoreTypeCorrect == StoreSpec => []StoreTypeOK
BY StoreInvariant, PTL DEF StoreInv

\* start_run keeps each session down to one active run, whatever finishes,
\* durable aborts and forks come between.
THEOREM StoreOneActiveRun == StoreSpec => []OneActiveRun
BY StoreInvariant, PTL DEF StoreInv

\* _finalize_active_run and _touch_session order every timestamp the right way
\* round although the clock may step back between any two calls.
THEOREM StoreTimesAgree == StoreSpec => []TimesAgree
BY StoreInvariant, PTL DEF StoreInv

\* finish_run makes a run's rows visible together with its outcome, and no
\* other run's rows ever come between them.
THEOREM StoreRowsWhole == StoreSpec => [](RowsAreOfEndedRuns /\ RunRowsAdjacent)
BY StoreInvariant, PTL DEF StoreInv

LEMMA AppendKeepsRows ==
    ASSUME NEW h \in Seq(HistoryRow), NEW rows \in Seq(HistoryRow)
    PROVE  /\ Len(h) <= Len(h \o rows)
           /\ \A i \in DOMAIN h : (h \o rows)[i] = h[i]
           /\ \A i \in DOMAIN (h \o rows) :
                i \notin DOMAIN h => \E j \in 1 .. Len(rows) : (h \o rows)[i] = rows[j]
<1>1. \A i \in DOMAIN (h \o rows) :
        i \notin DOMAIN h => i - Len(h) \in 1 .. Len(rows) /\ (h \o rows)[i] = rows[i - Len(h)]
  OBVIOUS
<1> QED
  BY <1>1

\* finish_run appends after everything committed, and fork_session writes only
\* to a session that has no rows yet.
THEOREM StoreHistoryAppendOnly == StoreSpec => HistoryAppendOnly
<1>1. ASSUME StoreInv, StoreNext
      PROVE  KeepsHistory
  <2> USE DEF StoreInv
  <2>1. history \in [Sessions -> Seq(HistoryRow)]
    BY <1>1 DEF StoreTypeOK
  <2>2. ASSUME history' = history
        PROVE  KeepsHistory
    BY <2>1, <2>2 DEF KeepsHistory
  <2>3. ASSUME NEW t \in Times, NEW s \in Sessions, NEW r \in Runs,
               NEW o \in Outcomes, NEW d \in Deltas, FinishRun(s, r, o, d, t)
        PROVE  KeepsHistory
    <3>1. RowsFor(r, d) \in Seq(HistoryRow)
      BY RowsForFacts
    <3>2. history' = [history EXCEPT ![s] = history[s] \o RowsFor(r, d)]
      BY <2>3 DEF FinishRun, EndRun, AppendRows
    <3>3. history[s] \in Seq(HistoryRow)
      BY <2>1
    <3>4. \A u \in Sessions : history'[u] = IF u = s THEN history[s] \o RowsFor(r, d)
                                                   ELSE history[u]
      BY <2>1, <3>2
    <3>5. /\ Len(history[s]) <= Len(history[s] \o RowsFor(r, d))
          /\ \A i \in DOMAIN history[s] : (history[s] \o RowsFor(r, d))[i] = history[s][i]
      BY <3>1, <3>3, AppendKeepsRows
    <3>6. ASSUME NEW u \in Sessions, u # s
          PROVE  history'[u] = history[u] /\ Len(history[u]) \in Nat
      BY <2>1, <3>4, <3>6
    <3>7. history'[s] = history[s] \o RowsFor(r, d)
      BY <3>4
    <3>8. ASSUME NEW u \in Sessions
          PROVE  /\ Len(history[u]) <= Len(history'[u])
                 /\ \A i \in DOMAIN history[u] : history'[u][i] = history[u][i]
      <4>1. CASE u = s
        BY <3>5, <3>7, <4>1
      <4>2. CASE u # s
        BY <3>6, <4>2
      <4> QED
        BY <4>1, <4>2
    <3> QED
      BY <3>8 DEF KeepsHistory
  <2>4. ASSUME NEW t \in Times, NEW s \in Sessions, NEW target \in Sessions,
               ForkSession(s, target, t)
        PROVE  KeepsHistory
    <3>1. history[target] = << >>
      BY <1>1, <2>4 DEF ForkSession, NoHistoryBeforeSession
    <3> QED
      BY <2>1, <2>4, <3>1 DEF ForkSession, KeepsHistory
  <2> QED
    BY <1>1, <2>2, <2>3, <2>4 DEF StoreNext, CreateSession, StartRun, AbortRun, EndRun
<1>2. StoreInv /\ [StoreNext]_storeVars => [KeepsHistory]_storeVars
  BY <1>1
<1> QED
  BY <1>2, StoreInvariant, PTL DEF StoreSpec, HistoryAppendOnly

\* finish_run and abort_active_run accept an active run only, so the outcome, the
\* end and the rows that a run ended with are final.
THEOREM StoreEndedRunIsFenced == StoreSpec => EndedRunIsFenced
<1>1. ASSUME StoreInv, StoreNext, NEW r \in Runs, IsEnded(r)
      PROVE  /\ runs'[r] = runs[r]
             /\ \A i \in DOMAIN history'[runs[r].session] :
                  history'[runs[r].session][i].run = r => i \in DOMAIN history[runs[r].session]
  <2> USE DEF StoreInv
  <2> DEFINE own == runs[r].session
  <2>1. own \in Sessions /\ Exists(own) /\ ~IsActive(r)
    BY <1>1 DEF IsEnded, IsActive, RunsHaveSessions, StoreTypeOK, RunRow
  <2>2. history \in [Sessions -> Seq(HistoryRow)] /\ runs \in [Runs -> RunRow \cup {NULL}]
    BY <1>1 DEF StoreTypeOK
  <2>3. ASSUME NEW t \in Times, NEW s \in Sessions, CreateSession(s, t)
        PROVE  runs' = runs /\ history' = history
    BY <2>3 DEF CreateSession
  <2>4. ASSUME NEW t \in Times, NEW s \in Sessions, NEW q \in Runs, StartRun(s, q, t)
        PROVE  runs'[r] = runs[r] /\ history' = history
    BY <1>1, <2>2, <2>4 DEF StartRun, IsEnded
  <2>5. ASSUME NEW t \in Times, NEW s \in Sessions, NEW q \in Runs, AbortRun(s, q, t)
        PROVE  runs'[r] = runs[r] /\ history' = history
    BY <2>1, <2>2, <2>5 DEF AbortRun, ActiveIn, EndRun
  <2>6. ASSUME NEW t \in Times, NEW s \in Sessions, NEW q \in Runs,
               NEW o \in Outcomes, NEW d \in Deltas, FinishRun(s, q, o, d, t)
        PROVE  /\ runs'[r] = runs[r]
               /\ \A i \in DOMAIN history'[own] :
                    history'[own][i].run = r => i \in DOMAIN history[own]
    <3>1. q # r /\ runs'[r] = runs[r]
      BY <2>1, <2>2, <2>6 DEF FinishRun, ActiveIn, EndRun, AppendRows
    <3>2. /\ RowsFor(q, d) \in Seq(HistoryRow)
          /\ \A i \in 1 .. Len(RowsFor(q, d)) : RowsFor(q, d)[i].run = q
      BY RowsForFacts
    <3>3. history' = [history EXCEPT ![s] = history[s] \o RowsFor(q, d)]
      BY <2>6 DEF FinishRun, EndRun, AppendRows
    <3>4. CASE own = s
      <4>1. history[s] \in Seq(HistoryRow) /\ history'[s] = history[s] \o RowsFor(q, d)
        BY <2>2, <3>3
      <4>2. ASSUME NEW i \in DOMAIN history'[s], i \notin DOMAIN history[s]
            PROVE  history'[s][i].run = q
        BY <3>2, <4>1, <4>2, AppendKeepsRows
      <4> QED
        BY <3>1, <3>4, <4>2
    <3>5. CASE own # s
      BY <2>1, <2>2, <3>1, <3>3, <3>5
    <3> QED
      BY <3>4, <3>5
  <2>7. ASSUME NEW t \in Times, NEW s \in Sessions, NEW target \in Sessions,
               ForkSession(s, target, t)
        PROVE  runs' = runs /\ history'[own] = history[own]
    BY <2>1, <2>2, <2>7 DEF ForkSession
  <2> QED
    BY <1>1, <2>3, <2>4, <2>5, <2>6, <2>7 DEF StoreNext
<1>2. StoreInv /\ [StoreNext]_storeVars => [KeepsEndedRuns]_storeVars
  BY <1>1 DEF KeepsEndedRuns
<1> QED
  BY <1>2, StoreInvariant, PTL DEF StoreSpec, EndedRunIsFenced
-----------------------------------------------------------------------------
(***************************************************************************)
(* What a run's handle and the store promise each other, for every set of  *)
(* processes, sessions and runs.  LifecycleInv is inductive: a run that    *)
(* may still commit is the one active run of its session, and only such a  *)
(* run, or a fork of a session that did not exist, changes a history.      *)
(***************************************************************************)

LEMMA HealedFacts ==
    ASSUME NEW d \in Seq(Items), Len(d) \in 1 .. MaxDelta, NEW h \in Healed(d)
    PROVE  h \in Seq(Items) /\ h \in Deltas
<1>1. PICK k \in 0 .. MaxHealed : h = d \o [i \in 1 .. k |-> Unanswered]
  BY DEF Healed
<1>2. Unanswered \in Items /\ MaxHealed \in Nat /\ MaxDelta \in Nat
  BY RunAssumption
<1>3. /\ [i \in 1 .. k |-> Unanswered] \in Seq(Items)
      /\ Len([i \in 1 .. k |-> Unanswered]) = k
  BY <1>2
<1>4. h \in Seq(Items) /\ Len(h) = Len(d) + k
  BY <1>1, <1>3
<1>5. Len(h) \in 1 .. MaxDelta + MaxHealed /\ h \in [1 .. Len(h) -> Items]
  BY <1>2, <1>4
<1>6. h \in UNION {[1 .. n -> Items] : n \in 1 .. MaxDelta + MaxHealed}
  BY <1>5
<1> QED
  BY <1>4, <1>6, RunAssumption

\* What a run commits is a delta that its task emitted, healed.
LEMMA FinalizeFacts ==
    ASSUME LifecycleInv, NEW r \in Runs, NEW d \in Healed(delta[r]), phase[r] = "done"
    PROVE  /\ d \in Seq(Items) /\ d \in Deltas
           /\ taskOutcome[r] \in Outcomes
           /\ runs[r] \in RunRow /\ runs[r] # NULL /\ runs[r].session \in Sessions
<1>1. delta[r] \in Seq(Items) /\ Len(delta[r]) \in 1 .. MaxDelta
      /\ taskOutcome[r] \in Outcomes /\ runs[r] # NULL
  BY DEF LifecycleInv, TypeOK, PhaseAgrees
<1>2. runs[r] \in RunRow
  BY <1>1 DEF LifecycleInv, StoreInv, StoreTypeOK
<1> QED
  BY <1>1, <1>2, HealedFacts DEF RunRow

\* Every step of the processes is a step of the store, or leaves it alone.
LEMMA StepIsStoreStep ==
    ASSUME LifecycleInv, [Next]_vars
    PROVE  [StoreNext]_storeVars
<1>1. ASSUME NEW t \in Times, NEW s \in Sessions, Create(s, t)
      PROVE  StoreNext
  BY <1>1 DEF Create, StoreNext
<1>2. ASSUME NEW t \in Times, NEW s \in Sessions, NEW target \in Sessions, Fork(s, target, t)
      PROVE  StoreNext
  BY <1>2 DEF Fork, StoreNext
<1>3. ASSUME NEW t \in Times, NEW s \in Sessions, NEW r \in Runs, DurableAbort(s, r, t)
      PROVE  StoreNext
  BY <1>3 DEF DurableAbort, StoreNext
<1>4. ASSUME NEW t \in Times, NEW s \in Sessions, NEW p \in Procs, NEW r \in Runs,
             Accept(p, s, r, t)
      PROVE  StoreNext
  BY <1>4 DEF Accept, StoreNext
<1>5. ASSUME NEW r \in Runs, NEW d \in Healed(delta[r]), NEW t \in Times,
             FinalizeCommits(r, d, t)
      PROVE  StoreNext
  <2>1. phase[r] = "done" /\ FinishRun(runs[r].session, r, taskOutcome[r], d, t)
    BY <1>5 DEF FinalizeCommits
  <2>2. taskOutcome[r] \in Outcomes /\ d \in Deltas /\ runs[r].session \in Sessions
    BY <2>1, FinalizeFacts
  <2> QED
    BY <2>1, <2>2 DEF StoreNext
<1>6. ASSUME \/ \E r \in Runs : \/ \E item \in Items : Observe(r, item)
                                \/ Cancel(r)
                                \/ \E o \in Outcomes : TaskEnds(r, o)
                                \/ \E d \in Healed(delta[r]) :
                                     FinalizeFenced(r, d) \/ FinalizeFaults(r, d)
             \/ \E p \in Procs : Crash(p)
             \/ UNCHANGED vars
      PROVE  UNCHANGED storeVars
  BY <1>6 DEF Observe, Cancel, TaskEnds, FinalizeFenced, FinalizeFaults, Crash, vars, storeVars
<1> QED
  BY <1>1, <1>2, <1>3, <1>4, <1>5, <1>6 DEF Next, Finalize
-----------------------------------------------------------------------------
LEMMA LifecycleInit == Init => LifecycleInv
<1> SUFFICES ASSUME Init PROVE LifecycleInv
  OBVIOUS
<1>1. StoreInv
  BY StoreInvInit DEF Init
<1>2. TypeOK
  BY <1>1 DEF Init, TypeOK, StoreInv
<1>3. PhaseAgrees /\ FencedAgrees
  BY DEF Init, StoreInit, PhaseAgrees, FencedAgrees, IsEnded
<1>4. SnapshotIsCurrent /\ ResultIsDurable /\ UncommittedRunsHaveNoRows
  BY StoreAssumption
     DEF Init, StoreInit, SnapshotIsCurrent, ResultIsDurable, UncommittedRunsHaveNoRows
<1> QED
  BY <1>1, <1>2, <1>3, <1>4 DEF LifecycleInv

\* Steps that leave the store, and who ended what, alone.
LEMMA MemoryStepKeepsInv ==
    ASSUME LifecycleInv, UNCHANGED storeVars, UNCHANGED fenced,
           TypeOK', PhaseAgrees',
           \A r \in Runs :
               /\ phase'[r] \in {"running", "done"} =>
                    phase[r] \in {"running", "done"} /\ base'[r] = base[r]
               /\ result'[r] # NULL => 
                    \/ result'[r] = result[r]
                    \/ /\ phase[r] = "done"
                       /\ result'[r] \in Outcomes => IsEnded(r) /\ result'[r] = runs[r].outcome
    PROVE  LifecycleInv'
<1> USE DEF LifecycleInv
<1>1. sessions' = sessions /\ runs' = runs /\ history' = history /\ fenced' = fenced
  BY DEF storeVars
<1>2. StoreInv'
  BY StoreInvStep
<1>3. FencedAgrees'
  BY <1>1, RunAssumption DEF FencedAgrees, IsEnded, PhaseAgrees
<1>4. SnapshotIsCurrent'
  BY <1>1 DEF SnapshotIsCurrent, IsActive
<1>5. ResultIsDurable'
  BY <1>1, StoreAssumption DEF ResultIsDurable, IsEnded
<1>6. UncommittedRunsHaveNoRows'
  <2>1. ASSUME NEW r \in Runs, result'[r] = Faulted
        PROVE  IsActive(r) \/ r \in fenced \/ result[r] = Faulted
    <3>1. result[r] = Faulted \/ phase[r] = "done"
      BY <2>1, RunAssumption
    <3>2. runs[r] # NULL
      BY <3>1, RunAssumption DEF PhaseAgrees
    <3> QED
      BY <3>1, <3>2 DEF FencedAgrees, IsActive, IsEnded
  <2> QED
    BY <1>1, <2>1 DEF UncommittedRunsHaveNoRows, IsActive
<1> QED
  BY <1>2, <1>3, <1>4, <1>5, <1>6

LEMMA TaskStepKeepsInv ==
    ASSUME LifecycleInv, NEW r \in Runs,
           \/ \E item \in Items : Observe(r, item)
           \/ Cancel(r)
           \/ \E o \in Outcomes : TaskEnds(r, o)
    PROVE  LifecycleInv'
<1> USE DEF LifecycleInv
<1>1. UNCHANGED storeVars /\ UNCHANGED fenced
  BY DEF Observe, Cancel, TaskEnds
<1>2. CASE \E item \in Items : Observe(r, item)
  <2>1. PICK item \in Items : Observe(r, item)
    BY <1>2
  <2>2. delta[r] \in Seq(Items) /\ Len(delta[r]) \in 1 .. MaxDelta /\ Len(delta[r]) < MaxDelta
    BY <2>1 DEF Observe, TypeOK, PhaseAgrees
  <2>3. /\ Append(delta[r], item) \in Seq(Items)
        /\ Len(Append(delta[r], item)) \in 1 .. MaxDelta
    BY <2>2, RunAssumption
  <2>4. /\ delta' = [delta EXCEPT ![r] = Append(delta[r], item)]
        /\ UNCHANGED <<sessions, runs, history, owner, phase, base, cancelled, taskOutcome,
                       result, fenced>>
    BY <2>1 DEF Observe, storeVars
  <2>5. TypeOK'
    BY <2>3, <2>4 DEF TypeOK, StoreTypeOK
  <2>6. PhaseAgrees'
    BY <2>3, <2>4 DEF TypeOK, PhaseAgrees
  <2> QED
    BY <1>1, <2>4, <2>5, <2>6, MemoryStepKeepsInv
<1>3. CASE Cancel(r)
  <2>1. /\ cancelled' \in SUBSET Runs
        /\ UNCHANGED <<sessions, runs, history, owner, phase, base, delta, taskOutcome,
                       result, fenced>>
    BY <1>3 DEF Cancel, storeVars, TypeOK
  <2>2. TypeOK' /\ PhaseAgrees'
    BY <2>1 DEF TypeOK, StoreTypeOK, PhaseAgrees
  <2> QED
    BY <1>1, <2>1, <2>2, MemoryStepKeepsInv
<1>4. CASE \E o \in Outcomes : TaskEnds(r, o)
  <2>1. PICK o \in Outcomes : TaskEnds(r, o)
    BY <1>4
  <2>2. /\ phase[r] = "running"
        /\ phase' = [phase EXCEPT ![r] = "done"]
        /\ taskOutcome' = [taskOutcome EXCEPT ![r] = o]
        /\ UNCHANGED <<sessions, runs, history, owner, base, delta, cancelled, result, fenced>>
    BY <2>1 DEF TaskEnds, storeVars
  <2>3. TypeOK'
    BY <2>2 DEF TypeOK, StoreTypeOK
  <2>4. PhaseAgrees'
    BY <2>2 DEF TypeOK, PhaseAgrees
  <2> QED
    BY <1>1, <2>2, <2>3, <2>4, MemoryStepKeepsInv DEF TypeOK
<1> QED
  BY <1>2, <1>3, <1>4

\* Settling touches its own run's memory only.
LEMMA SettleKeepsMemory ==
    ASSUME LifecycleInv, NEW r \in Runs, NEW o \in Outcomes \cup {Faulted},
           NEW d \in Seq(Items), phase[r] = "done", Settle(r, o, d)
    PROVE  /\ owner' \in [Runs -> Procs \cup {NULL}]
           /\ phase' \in [Runs -> {"none", "running", "done", "finalized"}]
           /\ base' \in [Runs -> Seq(HistoryRow)]
           /\ delta' \in [Runs -> Seq(Items)]
           /\ cancelled' \in SUBSET Runs
           /\ taskOutcome' \in [Runs -> Outcomes \cup {NULL}]
           /\ result' \in [Runs -> Outcomes \cup {Faulted, NULL}]
           /\ phase'[r] = "finalized" /\ result'[r] = o /\ delta'[r] = d
           /\ \A q \in Runs \ {r} :
                phase'[q] = phase[q] /\ result'[q] = result[q] /\ delta'[q] = delta[q]
           /\ base' = base /\ owner' = owner /\ taskOutcome' = taskOutcome
BY DEF LifecycleInv, TypeOK, Settle

LEMMA UncommittedFinalizeKeepsInv ==
    ASSUME LifecycleInv, NEW r \in Runs, NEW d \in Healed(delta[r]),
           FinalizeFenced(r, d) \/ FinalizeFaults(r, d)
    PROVE  LifecycleInv'
<1> USE DEF LifecycleInv
<1>1. /\ UNCHANGED storeVars /\ UNCHANGED fenced /\ phase[r] = "done"
      /\ sessions' = sessions /\ runs' = runs /\ history' = history
  BY DEF FinalizeFenced, FinalizeFaults, storeVars
<1>2. d \in Seq(Items) /\ runs[r] \in RunRow
  BY <1>1, FinalizeFacts
<1>3. PICK o \in Outcomes \cup {Faulted} :
        Settle(r, o, d) /\ (o \in Outcomes => IsEnded(r) /\ o = runs[r].outcome)
  <2>1. CASE FinalizeFenced(r, d)
    BY <1>2, <2>1 DEF FinalizeFenced, IsEnded, RunRow
  <2>2. CASE FinalizeFaults(r, d)
    BY <2>2, RunAssumption DEF FinalizeFaults
  <2> QED
    BY <2>1, <2>2
<1>4. TypeOK'
  BY <1>1, <1>2, <1>3, SettleKeepsMemory DEF TypeOK, StoreTypeOK
<1>5. PhaseAgrees'
  BY <1>1, <1>2, <1>3, SettleKeepsMemory, ZenonT(60) DEF PhaseAgrees
<1>6. \A q \in Runs :
        /\ phase'[q] \in {"running", "done"} =>
             phase[q] \in {"running", "done"} /\ base'[q] = base[q]
        /\ result'[q] # NULL => 
             \/ result'[q] = result[q]
             \/ /\ phase[q] = "done"
                /\ result'[q] \in Outcomes => IsEnded(q) /\ result'[q] = runs[q].outcome
  BY <1>1, <1>2, <1>3, SettleKeepsMemory
<1> QED
  BY <1>1, <1>4, <1>5, <1>6, MemoryStepKeepsInv

LEMMA CrashKeepsInv ==
    ASSUME LifecycleInv, NEW p \in Procs, Crash(p)
    PROVE  LifecycleInv'
<1> USE DEF LifecycleInv
<1> DEFINE lost == {r \in Runs : owner[r] = p}
<1>1. /\ owner' = [r \in Runs |-> IF r \in lost THEN NULL ELSE owner[r]]
      /\ phase' = [r \in Runs |-> IF r \in lost THEN "none" ELSE phase[r]]
      /\ base' = [r \in Runs |-> IF r \in lost THEN << >> ELSE base[r]]
      /\ delta' = [r \in Runs |-> IF r \in lost THEN << >> ELSE delta[r]]
      /\ cancelled' = cancelled \ lost
      /\ taskOutcome' = [r \in Runs |-> IF r \in lost THEN NULL ELSE taskOutcome[r]]
      /\ result' = [r \in Runs |-> IF r \in lost THEN NULL ELSE result[r]]
      /\ UNCHANGED storeVars /\ UNCHANGED fenced
      /\ sessions' = sessions /\ runs' = runs /\ history' = history
  BY DEF Crash, storeVars
<1>2. << >> \in Seq(HistoryRow) /\ << >> \in Seq(Items)
  OBVIOUS
<1>3. TypeOK'
  BY <1>1, <1>2 DEF TypeOK, StoreTypeOK
<1>4. \A r \in Runs : r \notin lost =>
        /\ owner'[r] = owner[r] /\ phase'[r] = phase[r] /\ base'[r] = base[r]
        /\ delta'[r] = delta[r] /\ taskOutcome'[r] = taskOutcome[r] /\ result'[r] = result[r]
  BY <1>1
<1>5. \A r \in lost : phase'[r] = "none" /\ result'[r] = NULL
  BY <1>1
<1>6. PhaseAgrees'
  BY <1>1, <1>4, <1>5 DEF PhaseAgrees
<1> HIDE DEF lost
<1> QED
  BY <1>1, <1>3, <1>4, <1>5, <1>6, MemoryStepKeepsInv

\* Steps of the store that leave every run's record and memory alone.
LEMMA SessionStepKeepsInv ==
    ASSUME LifecycleInv, NEW s \in Sessions, NEW t \in Times,
           \/ Create(s, t)
           \/ \E target \in Sessions : Fork(s, target, t)
    PROVE  LifecycleInv'
<1> USE DEF LifecycleInv
<1>1. /\ runs' = runs /\ owner' = owner /\ phase' = phase /\ base' = base /\ delta' = delta
      /\ cancelled' = cancelled /\ taskOutcome' = taskOutcome /\ result' = result
      /\ fenced' = fenced
  BY DEF Create, Fork, CreateSession, ForkSession, runVars
<1>2. StoreInv'
  <2>1. Next
    BY DEF Next
  <2> QED
    BY <2>1, StepIsStoreStep, StoreInvStep
<1>3. history \in [Sessions -> Seq(HistoryRow)]
  BY DEF TypeOK, StoreTypeOK
<1>4. \A u \in Sessions : Exists(u) => history'[u] = history[u]
  BY <1>3 DEF Create, Fork, CreateSession, ForkSession
<1>5. \A u \in Sessions : \E v \in Sessions : history'[u] = history[v]
  BY <1>3 DEF Create, Fork, CreateSession, ForkSession
<1>6. TypeOK' /\ PhaseAgrees' /\ FencedAgrees' /\ ResultIsDurable'
  BY <1>1, <1>2 DEF StoreInv, TypeOK, PhaseAgrees, FencedAgrees, ResultIsDurable, IsEnded
<1>7. SnapshotIsCurrent'
  <2> SUFFICES ASSUME NEW r \in Runs, IsActive(r), phase[r] \in {"running", "done"}
               PROVE  base[r] = history'[runs[r].session]
    BY <1>1 DEF SnapshotIsCurrent, IsActive
  <2>1. runs[r].session \in Sessions /\ Exists(runs[r].session)
    BY DEF IsActive, StoreInv, StoreTypeOK, RunsHaveSessions, RunRow
  <2> QED
    BY <1>4, <2>1 DEF SnapshotIsCurrent
<1>8. UncommittedRunsHaveNoRows'
  BY <1>1, <1>5 DEF UncommittedRunsHaveNoRows, IsActive
<1> QED
  BY <1>2, <1>6, <1>7, <1>8

LEMMA DurableAbortKeepsInv ==
    ASSUME LifecycleInv, NEW s \in Sessions, NEW r \in Runs, NEW t \in Times,
           DurableAbort(s, r, t)
    PROVE  LifecycleInv'
<1> USE DEF LifecycleInv
<1>1. /\ owner' = owner /\ phase' = phase /\ base' = base /\ delta' = delta
      /\ cancelled' = cancelled /\ taskOutcome' = taskOutcome /\ result' = result
      /\ fenced' = fenced \cup {r} /\ history' = history
      /\ runs' = [runs EXCEPT ![r] = TerminalRun(runs[r], Aborted, t)]
      /\ IsActive(r)
  BY DEF DurableAbort, AbortRun, ActiveIn, runVars, EndRun
<1>2. StoreInv'
  <2>1. Next
    BY DEF Next
  <2> QED
    BY <2>1, StepIsStoreStep, StoreInvStep
<1>3. TypeOK'
  BY <1>1, <1>2 DEF StoreInv, TypeOK
<1>4. /\ runs'[r] # NULL /\ runs'[r].outcome # NULL /\ runs'[r].session = runs[r].session
      /\ \A q \in Runs \ {r} : runs'[q] = runs[q]
  <2>1. runs[r] \in RunRow /\ runs \in [Runs -> RunRow \cup {NULL}]
    BY <1>1 DEF StoreInv, StoreTypeOK, IsActive
  <2> QED
    BY <1>1, <2>1, TerminalRunFacts, StoreAssumption
<1>5. result[r] \notin Outcomes
  BY <1>1 DEF ResultIsDurable, IsActive, IsEnded
<1>6. PhaseAgrees'
  BY <1>1, <1>4 DEF PhaseAgrees
<1>7. FencedAgrees'
  BY <1>1, <1>4 DEF FencedAgrees, IsEnded
<1>8. SnapshotIsCurrent'
  BY <1>1, <1>4 DEF SnapshotIsCurrent, IsActive
<1>9. ResultIsDurable'
  BY <1>1, <1>4, <1>5 DEF ResultIsDurable, IsEnded
<1>10. UncommittedRunsHaveNoRows'
  BY <1>1, <1>4 DEF UncommittedRunsHaveNoRows, IsActive
<1> QED
  BY <1>2, <1>3, <1>6, <1>7, <1>8, <1>9, <1>10

LEMMA AcceptKeepsInv ==
    ASSUME LifecycleInv, NEW p \in Procs, NEW s \in Sessions, NEW r \in Runs,
           NEW t \in Times, Accept(p, s, r, t)
    PROVE  LifecycleInv'
<1> USE DEF LifecycleInv
<1>1. /\ owner' = [owner EXCEPT ![r] = p]
      /\ phase' = [phase EXCEPT ![r] = "running"]
      /\ base' = [base EXCEPT ![r] = history[s]]
      /\ delta' = [delta EXCEPT ![r] = <<Prompt>>]
      /\ cancelled' = cancelled /\ taskOutcome' = taskOutcome /\ result' = result
      /\ fenced' = fenced /\ history' = history
      /\ runs' = [runs EXCEPT ![r] = NewRun(s, t)]
      /\ runs[r] = NULL
  BY DEF Accept, StartRun
<1>2. StoreInv'
  <2>1. Next
    BY DEF Next
  <2> QED
    BY <2>1, StepIsStoreStep, StoreInvStep
<1>3. /\ <<Prompt>> \in Seq(Items) /\ Len(<<Prompt>>) \in 1 .. MaxDelta
      /\ history[s] \in Seq(HistoryRow) /\ p # NULL
  BY RunAssumption DEF TypeOK, StoreTypeOK
<1>4. TypeOK'
  BY <1>1, <1>2, <1>3 DEF StoreInv, TypeOK
<1>5. /\ runs'[r] # NULL /\ runs'[r].outcome = NULL /\ runs'[r].session = s
      /\ \A q \in Runs \ {r} : runs'[q] = runs[q]
  BY <1>1, NewRunFacts DEF StoreInv, StoreTypeOK
<1>6. /\ phase'[r] = "running" /\ base'[r] = history[s] /\ owner'[r] = p
      /\ delta'[r] = <<Prompt>>
      /\ \A q \in Runs \ {r} : /\ phase'[q] = phase[q] /\ base'[q] = base[q]
                               /\ owner'[q] = owner[q] /\ delta'[q] = delta[q]
  BY <1>1 DEF TypeOK
<1>7. result[r] = NULL /\ r \notin fenced
  BY <1>1 DEF PhaseAgrees, FencedAgrees, IsEnded
<1>8. PhaseAgrees'
  BY <1>1, <1>3, <1>5, <1>6, <1>7, ZenonT(60) DEF PhaseAgrees
<1>9. FencedAgrees'
  BY <1>1, <1>5, <1>6, <1>7 DEF FencedAgrees, IsEnded
<1>10. SnapshotIsCurrent'
  BY <1>1, <1>5, <1>6 DEF SnapshotIsCurrent, IsActive
<1>11. ResultIsDurable'
  BY <1>1, <1>5, <1>7, StoreAssumption DEF ResultIsDurable, IsEnded
<1>12. UncommittedRunsHaveNoRows'
  <2> SUFFICES ASSUME NEW q \in Runs, IsActive(q)' \/ q \in fenced' \/ result'[q] = Faulted
               PROVE  \A u \in Sessions : \A i \in DOMAIN history[u] : history[u][i].run # q
    BY <1>1 DEF UncommittedRunsHaveNoRows
  <2>1. CASE q = r
    BY <1>1, <2>1 DEF StoreInv, RowsAreOfEndedRuns, IsEnded
  <2>2. CASE q # r
    BY <1>1, <1>5, <2>2 DEF UncommittedRunsHaveNoRows, IsActive
  <2> QED
    BY <2>1, <2>2
<1> QED
  BY <1>2, <1>4, <1>8, <1>9, <1>10, <1>11, <1>12

LEMMA FinalizeCommitsKeepsInv ==
    ASSUME LifecycleInv, NEW r \in Runs, NEW d \in Healed(delta[r]), NEW t \in Times,
           FinalizeCommits(r, d, t)
    PROVE  LifecycleInv'
<1> USE DEF LifecycleInv
<1> DEFINE s == runs[r].session
           o == taskOutcome[r]
<1>1. /\ phase[r] = "done" /\ Settle(r, o, d) /\ fenced' = fenced /\ IsActive(r)
      /\ runs' = [runs EXCEPT ![r] = TerminalRun(runs[r], o, t)]
      /\ history' = [history EXCEPT ![s] = @ \o RowsFor(r, d)]
  BY DEF FinalizeCommits, FinishRun, ActiveIn, EndRun, AppendRows
<1>2. /\ d \in Seq(Items) /\ d \in Deltas /\ o \in Outcomes
      /\ runs[r] \in RunRow /\ s \in Sessions
  BY <1>1, FinalizeFacts
<1>3. StoreInv'
  <2>1. Next
    BY DEF Next, Finalize
  <2> QED
    BY <2>1, StepIsStoreStep, StoreInvStep
<1>4. /\ phase'[r] = "finalized" /\ result'[r] = o
      /\ \A q \in Runs \ {r} :
           phase'[q] = phase[q] /\ result'[q] = result[q] /\ delta'[q] = delta[q]
      /\ base' = base /\ owner' = owner /\ taskOutcome' = taskOutcome
  BY <1>1, <1>2, SettleKeepsMemory
<1>5. TypeOK'
  BY <1>1, <1>2, <1>3, SettleKeepsMemory DEF StoreInv, TypeOK
<1>6. /\ runs'[r] # NULL /\ runs'[r].outcome = o /\ o # NULL /\ runs'[r].session = s
      /\ \A q \in Runs \ {r} : runs'[q] = runs[q]
  <2>1. runs \in [Runs -> RunRow \cup {NULL}]
    BY DEF StoreInv, StoreTypeOK
  <2> QED
    BY <1>1, <1>2, <2>1, TerminalRunFacts, StoreAssumption
<1>7. r \notin fenced
  BY <1>1 DEF FencedAgrees, IsActive, IsEnded
<1> HIDE DEF s, o
<1>8. PhaseAgrees'
  BY <1>1, <1>4, <1>6 DEF PhaseAgrees
<1>9. FencedAgrees'
  BY <1>1, <1>2, <1>4, <1>6, <1>7, RunAssumption DEF FencedAgrees, IsEnded
<1>10. SnapshotIsCurrent'
  <2> SUFFICES ASSUME NEW q \in Runs, IsActive(q)', phase'[q] \in {"running", "done"}
               PROVE  base[q] = history'[runs'[q].session]
    BY <1>4 DEF SnapshotIsCurrent
  <2>1. q # r /\ IsActive(q) /\ phase[q] \in {"running", "done"} /\ runs'[q] = runs[q]
    BY <1>4, <1>6 DEF IsActive
  <2>2. runs[q].session # s
    BY <1>1, <1>2, <2>1 DEF s, StoreInv, OneActiveRun, ActiveIn
  <2>3. runs[q].session \in Sessions
    BY <2>1 DEF IsActive, StoreInv, StoreTypeOK, RunRow
  <2> QED
    BY <1>1, <2>1, <2>2, <2>3 DEF SnapshotIsCurrent, TypeOK, StoreTypeOK
<1>11. ResultIsDurable'
  BY <1>4, <1>6 DEF ResultIsDurable, IsEnded
<1>12. UncommittedRunsHaveNoRows'
  <2> SUFFICES ASSUME NEW q \in Runs, IsActive(q)' \/ q \in fenced' \/ result'[q] = Faulted,
                      NEW u \in Sessions, NEW i \in DOMAIN history'[u]
               PROVE  history'[u][i].run # q
    BY DEF UncommittedRunsHaveNoRows
  <2>1. q # r /\ (IsActive(q) \/ q \in fenced \/ result[q] = Faulted)
    BY <1>1, <1>2, <1>4, <1>6, <1>7, RunAssumption DEF IsActive
  <2>2. history \in [Sessions -> Seq(HistoryRow)] /\ RowsFor(r, d) \in Seq(HistoryRow)
    BY <1>2, RowsForFacts DEF TypeOK, StoreTypeOK
  <2>3. CASE u # s
    BY <1>1, <2>1, <2>2, <2>3 DEF UncommittedRunsHaveNoRows
  <2>4. CASE u = s
    <3>1. history[s] \in Seq(HistoryRow) /\ history'[s] = history[s] \o RowsFor(r, d)
      BY <1>1, <1>2, <2>2
    <3>2. CASE i \in DOMAIN history[s]
      BY <1>2, <2>1, <2>2, <2>4, <3>1, <3>2, AppendKeepsRows DEF UncommittedRunsHaveNoRows
    <3>3. CASE i \notin DOMAIN history[s]
      <4> DEFINE rows == RowsFor(r, d)
      <4>1. i \in DOMAIN (history[s] \o rows) /\ rows \in Seq(HistoryRow)
        BY <2>2, <2>4, <3>1
      <4>2. \A j \in 1 .. Len(rows) : rows[j].run = r
        BY <1>2, RowsForFacts
      <4>3. history'[u][i] = (history[s] \o rows)[i]
        BY <2>4, <3>1
      <4> HIDE DEF rows
      <4>4. PICK j \in 1 .. Len(rows) : (history[s] \o rows)[i] = rows[j]
        BY <3>1, <3>3, <4>1, AppendKeepsRows
      <4> QED
        BY <2>1, <4>2, <4>3, <4>4
    <3> QED
      BY <3>2, <3>3
  <2> QED
    BY <2>3, <2>4
<1> QED
  BY <1>3, <1>5, <1>8, <1>9, <1>10, <1>11, <1>12

LEMMA LifecycleStep ==
    ASSUME LifecycleInv, [Next]_vars
    PROVE  LifecycleInv'
<1>1. ASSUME NEW t \in Times, NEW s \in Sessions,
             Create(s, t) \/ \E target \in Sessions : Fork(s, target, t)
      PROVE  LifecycleInv'
  BY <1>1, SessionStepKeepsInv
<1>2. ASSUME NEW t \in Times, NEW s \in Sessions, NEW r \in Runs, DurableAbort(s, r, t)
      PROVE  LifecycleInv'
  BY <1>2, DurableAbortKeepsInv
<1>3. ASSUME NEW t \in Times, NEW s \in Sessions, NEW p \in Procs, NEW r \in Runs,
             Accept(p, s, r, t)
      PROVE  LifecycleInv'
  BY <1>3, AcceptKeepsInv
<1>4. ASSUME NEW r \in Runs,
             \/ \E item \in Items : Observe(r, item)
             \/ Cancel(r)
             \/ \E o \in Outcomes : TaskEnds(r, o)
      PROVE  LifecycleInv'
  BY <1>4, TaskStepKeepsInv
<1>5. ASSUME NEW r \in Runs, NEW d \in Healed(delta[r]), NEW t \in Times,
             FinalizeCommits(r, d, t)
      PROVE  LifecycleInv'
  BY <1>5, FinalizeCommitsKeepsInv
<1>6. ASSUME NEW r \in Runs, NEW d \in Healed(delta[r]),
             FinalizeFenced(r, d) \/ FinalizeFaults(r, d)
      PROVE  LifecycleInv'
  BY <1>6, UncommittedFinalizeKeepsInv
<1>7. ASSUME NEW p \in Procs, Crash(p)
      PROVE  LifecycleInv'
  BY <1>7, CrashKeepsInv
<1>8. ASSUME UNCHANGED vars
      PROVE  LifecycleInv'
  <2>1. /\ UNCHANGED storeVars /\ UNCHANGED fenced
        /\ sessions' = sessions /\ runs' = runs /\ history' = history
        /\ owner' = owner /\ phase' = phase /\ base' = base /\ delta' = delta
        /\ cancelled' = cancelled /\ taskOutcome' = taskOutcome /\ result' = result
    BY <1>8 DEF vars, storeVars
  <2>2. TypeOK' /\ PhaseAgrees'
    BY <2>1 DEF LifecycleInv, TypeOK, StoreTypeOK, PhaseAgrees
  <2> QED
    BY <2>1, <2>2, MemoryStepKeepsInv
<1> QED
  BY <1>1, <1>2, <1>3, <1>4, <1>5, <1>6, <1>7, <1>8 DEF Next, Finalize
-----------------------------------------------------------------------------
\* The inductive invariant, in every behaviour of any number of processes.
THEOREM LifecycleInvariant == Spec => []LifecycleInv
<1>1. Init => LifecycleInv
  BY LifecycleInit
<1>2. LifecycleInv /\ [Next]_vars => LifecycleInv'
  BY LifecycleStep
<1> QED
  BY <1>1, <1>2, PTL DEF Spec

\* Accepting, cancelling, finalizing and crashing, together with what other
\* processes do, use the store as its contract allows: all that is proved of
\* StoreSpec holds of the runtime.
THEOREM LifecycleImplementsStore == Spec => StoreSpec
<1>1. Init => StoreInit
  BY DEF Init
<1>2. LifecycleInv /\ [Next]_vars => [StoreNext]_storeVars
  BY StepIsStoreStep
<1> QED
  BY <1>1, <1>2, LifecycleInvariant, PTL DEF Spec, StoreSpec

\* Memory and tables hold values of their types.
THEOREM LifecycleTypeCorrect == Spec => []TypeOK
BY LifecycleInvariant, PTL DEF LifecycleInv

\* Nothing moves a session's history under a run that may still commit.
THEOREM LifecycleSnapshotIsCurrent == Spec => []SnapshotIsCurrent
BY LifecycleInvariant, PTL DEF LifecycleInv

\* RunHandle.wait never returns an outcome other than the one recorded.
THEOREM LifecycleResultIsDurable == Spec => []ResultIsDurable
BY LifecycleInvariant, PTL DEF LifecycleInv

\* Aborted, faulted and unfinished runs leave no trace in any history.
THEOREM LifecycleUncommittedHaveNoRows == Spec => []UncommittedRunsHaveNoRows
BY LifecycleInvariant, PTL DEF LifecycleInv

\* A run goes from active to ended by its own finalization, from the process
\* that still holds it, or by a durable abort.
LEMMA EndedByWhom ==
    ASSUME LifecycleInv, Next, NEW r \in Runs, IsActive(r), IsEnded(r)'
    PROVE  \/ r \in fenced'
           \/ \E d \in Healed(delta[r]), t \in Times : FinalizeCommits(r, d, t)
<1> USE DEF LifecycleInv
<1>1. runs \in [Runs -> RunRow \cup {NULL}] /\ runs[r] # NULL
  BY DEF StoreInv, StoreTypeOK, IsActive
<1>2. runs'[r] # runs[r]
  BY DEF IsActive, IsEnded
<1>3. ASSUME NEW t \in Times, NEW s \in Sessions,
             \/ Create(s, t)
             \/ \E target \in Sessions : Fork(s, target, t)
             \/ \E p \in Procs, q \in Runs : Accept(p, s, q, t)
      PROVE  FALSE
  <2>1. runs'[r] = runs[r]
    BY <1>1, <1>3 DEF Create, Fork, Accept, CreateSession, ForkSession, StartRun
  <2> QED
    BY <1>2, <2>1
<1>4. ASSUME NEW t \in Times, NEW s \in Sessions, NEW q \in Runs, DurableAbort(s, q, t)
      PROVE  r \in fenced'
  BY <1>1, <1>2, <1>4 DEF DurableAbort, AbortRun, EndRun
<1>5. ASSUME NEW q \in Runs, NEW d \in Healed(delta[q]), NEW t \in Times,
             FinalizeCommits(q, d, t)
      PROVE  q = r
  <2>1. runs' = [runs EXCEPT ![q] = TerminalRun(runs[q], taskOutcome[q], t)]
    BY <1>5 DEF FinalizeCommits, FinishRun, EndRun, AppendRows
  <2> QED
    BY <1>1, <1>2, <2>1
<1>6. ASSUME \/ \E q \in Runs : \/ \E item \in Items : Observe(q, item)
                                \/ Cancel(q)
                                \/ \E o \in Outcomes : TaskEnds(q, o)
                                \/ \E d \in Healed(delta[q]) :
                                     FinalizeFenced(q, d) \/ FinalizeFaults(q, d)
             \/ \E p \in Procs : Crash(p)
      PROVE  FALSE
  BY <1>2, <1>6 DEF Observe, Cancel, TaskEnds, FinalizeFenced, FinalizeFaults, Crash, storeVars
<1> QED
  BY <1>3, <1>4, <1>5, <1>6 DEF Next, Finalize

\* The delta of a run lands directly on the history its model was shown.
THEOREM LifecycleCommitExtendsSnapshot == Spec => CommitExtendsSnapshot
<1>1. ASSUME LifecycleInv, Next, NEW r \in Runs, IsActive(r), IsEnded(r)', r \notin fenced'
      PROVE  history'[runs[r].session] = base[r] \o RowsFor(r, delta'[r])
  <2> USE DEF LifecycleInv
  <2>1. PICK d \in Healed(delta[r]), t \in Times : FinalizeCommits(r, d, t)
    BY <1>1, EndedByWhom
  <2>2. phase[r] = "done" /\ Settle(r, taskOutcome[r], d)
        /\ history' = [history EXCEPT ![runs[r].session] = @ \o RowsFor(r, d)]
    BY <2>1 DEF FinalizeCommits, FinishRun, EndRun, AppendRows
  <2>3. d \in Seq(Items) /\ taskOutcome[r] \in Outcomes /\ runs[r].session \in Sessions
    BY <1>1, <2>2, FinalizeFacts
  <2>4. delta'[r] = d
    BY <1>1, <2>2, <2>3, SettleKeepsMemory
  <2>5. base[r] = history[runs[r].session]
    BY <1>1, <2>2 DEF SnapshotIsCurrent
  <2>6. history \in [Sessions -> Seq(HistoryRow)]
    BY <1>1 DEF TypeOK, StoreTypeOK
  <2> QED
    BY <2>2, <2>3, <2>4, <2>5, <2>6
<1>2. LifecycleInv /\ [Next]_vars => [ExtendsSnapshot]_vars
  BY <1>1 DEF ExtendsSnapshot
<1> QED
  BY <1>2, LifecycleInvariant, PTL DEF Spec, CommitExtendsSnapshot

\* A crash or a finalization fault leaves the run to a durable abort.
THEOREM LifecycleOrphanEndsByAbort == Spec => OrphanEndsByAbort
<1>1. ASSUME LifecycleInv, Next, NEW r \in Runs, IsActive(r), IsEnded(r)',
             owner[r] = NULL \/ result[r] # NULL
      PROVE  r \in fenced'
  <2>1. phase[r] # "done"
    BY <1>1 DEF LifecycleInv, PhaseAgrees
  <2> QED
    BY <1>1, <2>1, EndedByWhom DEF FinalizeCommits
<1>2. LifecycleInv /\ [Next]_vars => [FencesOrphans]_vars
  BY <1>1 DEF FencesOrphans
<1> QED
  BY <1>2, LifecycleInvariant, PTL DEF Spec, OrphanEndsByAbort

\* RunHandle.wait answers the same to every caller, for as long as the process
\* lives.
THEOREM LifecycleSettledOnce == Spec => SettledOnce
<1>1. ASSUME LifecycleInv, Next, NEW r \in Runs, result[r] # NULL, owner'[r] = owner[r]
      PROVE  result'[r] = result[r] /\ delta'[r] = delta[r]
  <2> USE DEF LifecycleInv, TypeOK
  <2>1. phase[r] = "finalized" /\ runs[r] # NULL /\ owner[r] # NULL
    BY <1>1 DEF PhaseAgrees
  <2>2. ASSUME NEW t \in Times, NEW s \in Sessions,
               \/ Create(s, t)
               \/ \E target \in Sessions : Fork(s, target, t)
               \/ \E q \in Runs : DurableAbort(s, q, t)
        PROVE  result' = result /\ delta' = delta
    BY <2>2 DEF Create, Fork, DurableAbort, runVars
  <2>3. ASSUME NEW t \in Times, NEW s \in Sessions, NEW p \in Procs, NEW q \in Runs,
               Accept(p, s, q, t)
        PROVE  result'[r] = result[r] /\ delta'[r] = delta[r]
    BY <1>1, <2>1, <2>3 DEF Accept, StartRun
  <2>4. ASSUME NEW q \in Runs,
               \/ \E item \in Items : Observe(q, item)
               \/ Cancel(q)
               \/ \E o \in Outcomes : TaskEnds(q, o)
        PROVE  result'[r] = result[r] /\ delta'[r] = delta[r]
    BY <1>1, <2>1, <2>4 DEF Observe, Cancel, TaskEnds
  <2>5. ASSUME NEW q \in Runs, Finalize(q)
        PROVE  result'[r] = result[r] /\ delta'[r] = delta[r]
    BY <1>1, <2>1, <2>5
       DEF Finalize, FinalizeCommits, FinalizeFenced, FinalizeFaults, Settle
  <2>6. ASSUME NEW p \in Procs, Crash(p)
        PROVE  result'[r] = result[r] /\ delta'[r] = delta[r]
    BY <1>1, <2>1, <2>6 DEF Crash
  <2> QED
    BY <1>1, <2>2, <2>3, <2>4, <2>5, <2>6 DEF Next
<1>2. LifecycleInv /\ [Next]_vars => [KeepsResults]_vars
  BY <1>1 DEF KeepsResults
<1> QED
  BY <1>2, LifecycleInvariant, PTL DEF Spec, SettledOnce
-----------------------------------------------------------------------------
(* A committed delta stands whole, and goes on standing.                   *)

LEMMA HealedHead ==
    ASSUME NEW d \in Seq(Items), Len(d) \in 1 .. MaxDelta, NEW h \in Healed(d)
    PROVE  Head(h) = Head(d)
<1>1. PICK k \in 0 .. MaxHealed : h = d \o [i \in 1 .. k |-> Unanswered]
  BY DEF Healed
<1>2. [i \in 1 .. k |-> Unanswered] \in Seq(Items)
  BY RunAssumption
<1> QED
  BY <1>1, <1>2

\* Rows of another run leave it standing.
LEMMA StandsAfterAppend ==
    ASSUME NEW h \in Seq(HistoryRow), NEW r \in Runs, NEW d \in Seq(Items),
           NEW n \in 0 .. Len(h), StandsWhole(h, r, d, n),
           NEW q \in Runs, q # r, NEW e \in Deltas
    PROVE  n \in 0 .. Len(h \o RowsFor(q, e)) /\ StandsWhole(h \o RowsFor(q, e), r, d, n)
<1> DEFINE rows == RowsFor(q, e)
<1>1. rows \in Seq(HistoryRow) /\ \A i \in 1 .. Len(rows) : rows[i].run = q
  BY RowsForFacts
<1> HIDE DEF rows
<1>2. /\ Len(h \o rows) = Len(h) + Len(rows)
      /\ \A i \in DOMAIN h : i \in DOMAIN (h \o rows) /\ (h \o rows)[i] = h[i]
      /\ \A i \in DOMAIN (h \o rows) \ DOMAIN h : (h \o rows)[i].run = q
  BY <1>1, AppendKeepsRows
<1>3. \A i \in n + 1 .. n + Len(d) : i \in DOMAIN h
  <2>1. ASSUME NEW i \in n + 1 .. n + Len(d) PROVE i \in DOMAIN h
    <3>1. i - n \in DOMAIN d /\ n + (i - n) = i
      OBVIOUS
    <3> QED
      BY <3>1 DEF StandsWhole
  <2> QED
    BY <2>1
<1>4. n \in 0 .. Len(h \o rows)
  BY <1>1, <1>2
<1>5. ASSUME NEW i \in DOMAIN (h \o rows)
      PROVE  (h \o rows)[i].run = r <=> i \in n + 1 .. n + Len(d)
  <2>1. CASE i \in DOMAIN h
    BY <1>2, <2>1 DEF StandsWhole
  <2>2. CASE i \notin DOMAIN h
    BY <1>2, <1>3, <1>5, <2>2
  <2> QED
    BY <2>1, <2>2
<1>6. ASSUME NEW i \in DOMAIN d
      PROVE  n + i \in DOMAIN (h \o rows) /\ (h \o rows)[n + i].item = d[i]
  BY <1>2 DEF StandsWhole
<1>7. StandsWhole(h \o rows, r, d, n)
  BY <1>5, <1>6 DEF StandsWhole
<1> QED
  BY <1>4, <1>7 DEF rows

\* A delta that is appended where its run had no row stands whole.
LEMMA StandsWhenAppended ==
    ASSUME NEW h \in Seq(HistoryRow), NEW r \in Runs, NEW d \in Deltas,
           \A i \in DOMAIN h : h[i].run # r
    PROVE  /\ Len(h) \in 0 .. Len(h \o RowsFor(r, d))
           /\ StandsWhole(h \o RowsFor(r, d), r, d, Len(h))
<1> DEFINE rows == RowsFor(r, d)
<1>1. d \in Seq(Items)
  BY StoreAssumption
<1>2. rows \in Seq(HistoryRow) /\ Len(rows) = Len(d) /\ \A i \in 1 .. Len(d) : rows[i].run = r
  BY RowsForFacts
<1>3. \A i \in DOMAIN d : rows[i].item = d[i]
  BY DEF RowsFor
<1> HIDE DEF rows
<1>4. Len(h) \in Nat /\ Len(d) \in Nat /\ DOMAIN h = 1 .. Len(h) /\ DOMAIN d = 1 .. Len(d)
  BY <1>1
<1>5. DOMAIN (h \o rows) = 1 .. Len(h) + Len(d)
  <2>1. h \o rows \in Seq(HistoryRow) /\ Len(h \o rows) = Len(h) + Len(rows)
    BY <1>2
  <2> QED
    BY <1>2, <2>1
<1>6. /\ \A i \in 1 .. Len(h) : (h \o rows)[i] = h[i]
      /\ \A i \in 1 .. Len(d) : (h \o rows)[Len(h) + i] = rows[i]
  BY <1>2
<1>7. ASSUME NEW i \in DOMAIN (h \o rows)
      PROVE  (h \o rows)[i].run = r <=> i \in Len(h) + 1 .. Len(h) + Len(d)
  <2>1. CASE i \in 1 .. Len(h)
    BY <1>4, <1>6, <2>1
  <2>2. CASE i \notin 1 .. Len(h)
    <3>1. i - Len(h) \in 1 .. Len(d) /\ i = Len(h) + (i - Len(h))
      BY <1>4, <1>5, <1>7, <2>2
    <3>2. (h \o rows)[i] = rows[i - Len(h)]
      BY <1>6, <3>1
    <3> QED
      BY <1>2, <1>4, <3>1, <3>2
  <2> QED
    BY <2>1, <2>2
<1>8. \A i \in DOMAIN d :
        Len(h) + i \in DOMAIN (h \o rows) /\ (h \o rows)[Len(h) + i].item = d[i]
  BY <1>3, <1>4, <1>5, <1>6
<1>9. Len(h) \in 0 .. Len(h \o rows)
  BY <1>2, <1>4
<1>10. StandsWhole(h \o rows, r, d, Len(h))
  BY <1>7, <1>8 DEF StandsWhole
<1> QED
  BY <1>9, <1>10 DEF rows

\* What a step does to the history of a session that exists.
LEMMA StoreStepExtends ==
    ASSUME StoreInv, [StoreNext]_storeVars, NEW s \in Sessions, Exists(s)
    PROVE  \/ history'[s] = history[s]
           \/ \E q \in Runs, e \in Deltas :
                ActiveIn(q, s) /\ history'[s] = history[s] \o RowsFor(q, e)
<1>1. history \in [Sessions -> Seq(HistoryRow)]
  BY DEF StoreInv, StoreTypeOK
<1>2. ASSUME NEW t \in Times, NEW u \in Sessions,
             \/ CreateSession(u, t)
             \/ \E r \in Runs : StartRun(u, r, t) \/ AbortRun(u, r, t)
      PROVE  history'[s] = history[s]
  BY <1>2 DEF CreateSession, StartRun, AbortRun
<1>3. ASSUME NEW t \in Times, NEW u \in Sessions, NEW target \in Sessions,
             ForkSession(u, target, t)
      PROVE  history'[s] = history[s]
  BY <1>1, <1>3 DEF ForkSession
<1>4. ASSUME NEW t \in Times, NEW u \in Sessions, NEW r \in Runs, NEW o \in Outcomes,
             NEW e \in Deltas, FinishRun(u, r, o, e, t)
      PROVE  \/ history'[s] = history[s]
             \/ ActiveIn(r, s) /\ history'[s] = history[s] \o RowsFor(r, e)
  BY <1>1, <1>4 DEF FinishRun, AppendRows
<1>5. CASE UNCHANGED storeVars
  BY <1>5 DEF storeVars
<1> QED
  BY <1>2, <1>3, <1>4, <1>5 DEF StoreNext

\* What a step does to the delta and the result of a run: nothing, or it works
\* on a run that is not settled, or it settles one whose task is done.
LEMMA MemoryStep ==
    ASSUME LifecycleInv, [Next]_vars, NEW r \in Runs, phase'[r] # "none"
    PROVE  \/ /\ phase[r] # "none" /\ delta'[r] = delta[r] /\ result'[r] = result[r]
              /\ fenced \subseteq fenced'
           \/ result'[r] = NULL /\ delta'[r] \in Seq(Items) /\ Len(delta'[r]) # 0
              /\ Head(delta'[r]) = IF phase[r] = "none" THEN Prompt ELSE Head(delta[r])
           \/ \E d \in Healed(delta[r]) :
                /\ delta'[r] = d /\ Head(d) = Head(delta[r]) /\ phase[r] = "done"
                /\ \/ \E t \in Times : FinalizeCommits(r, d, t)
                   \/ FinalizeFenced(r, d) /\ fenced' = fenced
                   \/ result'[r] = Faulted
<1> USE DEF LifecycleInv
<1>1. /\ delta \in [Runs -> Seq(Items)] /\ phase \in [Runs -> {"none", "running", "done", "finalized"}]
      /\ result \in [Runs -> Outcomes \cup {Faulted, NULL}]
      /\ taskOutcome \in [Runs -> Outcomes \cup {NULL}]
  BY DEF TypeOK
<1>2. ASSUME NEW t \in Times, NEW s \in Sessions,
             \/ Create(s, t)
             \/ \E target \in Sessions : Fork(s, target, t)
             \/ \E q \in Runs : DurableAbort(s, q, t)
      PROVE  phase' = phase /\ result' = result /\ delta' = delta /\ fenced \subseteq fenced'
  BY <1>2 DEF Create, Fork, DurableAbort, runVars
<1>3. ASSUME NEW t \in Times, NEW s \in Sessions, NEW p \in Procs, NEW q \in Runs,
             Accept(p, s, q, t)
      PROVE  \/ /\ phase'[r] = phase[r] /\ delta'[r] = delta[r] /\ result'[r] = result[r]
                /\ fenced \subseteq fenced'
             \/ result'[r] = NULL /\ delta'[r] = <<Prompt>> /\ phase[r] = "none"
  <2>1. runs[q] = NULL
    BY <1>3 DEF Accept, StartRun
  <2>2. phase[q] = "none" /\ result[q] = NULL
    BY <2>1 DEF PhaseAgrees
  <2> QED
    BY <1>1, <1>3, <2>2 DEF Accept
<1>4. ASSUME NEW q \in Runs,
             \/ \E item \in Items : Observe(q, item)
             \/ Cancel(q)
             \/ \E o \in Outcomes : TaskEnds(q, o)
      PROVE  \/ /\ phase[r] # "none" /\ delta'[r] = delta[r] /\ result'[r] = result[r]
                /\ fenced \subseteq fenced'
             \/ /\ result'[r] = NULL /\ phase[r] = "running"
                /\ \E item \in Items : delta'[r] = Append(delta[r], item)
  <2>1. phase[q] = "running" => result[q] = NULL
    BY DEF PhaseAgrees
  <2> QED
    BY <1>1, <1>4, <2>1 DEF Observe, Cancel, TaskEnds
<1>5. ASSUME NEW q \in Runs, NEW d \in Healed(delta[q]),
             \/ \E t \in Times : FinalizeCommits(q, d, t)
             \/ FinalizeFenced(q, d)
             \/ FinalizeFaults(q, d)
      PROVE  \/ /\ q # r /\ phase'[r] = phase[r] /\ delta'[r] = delta[r] /\ result'[r] = result[r]
                /\ fenced \subseteq fenced'
             \/ /\ q = r /\ delta'[r] = d /\ phase[r] = "done"
                /\ \/ \E t \in Times : FinalizeCommits(q, d, t)
                   \/ FinalizeFenced(q, d) /\ fenced' = fenced
                   \/ result'[r] = Faulted
  BY <1>1, <1>5 DEF FinalizeCommits, FinalizeFenced, FinalizeFaults, Settle
<1>6. ASSUME NEW p \in Procs, Crash(p)
      PROVE  phase'[r] = phase[r] /\ delta'[r] = delta[r] /\ result'[r] = result[r]
             /\ fenced' = fenced
  BY <1>6 DEF Crash
<1>7. CASE UNCHANGED vars
  BY <1>7 DEF vars
<1>8. ASSUME NEW item \in Items, phase[r] = "running"
      PROVE  /\ Append(delta[r], item) \in Seq(Items) /\ Len(Append(delta[r], item)) # 0
             /\ Head(Append(delta[r], item)) = Head(delta[r])
  <2>1. delta[r] \in Seq(Items) /\ Len(delta[r]) \in 1 .. MaxDelta
    BY <1>1, <1>8 DEF PhaseAgrees
  <2> QED
    BY <2>1, RunAssumption
<1>9. <<Prompt>> \in Seq(Items) /\ Len(<<Prompt>>) # 0 /\ Head(<<Prompt>>) = Prompt
  BY RunAssumption
<1>10. ASSUME phase[r] = "done", NEW d \in Healed(delta[r])
       PROVE  Head(d) = Head(delta[r])
  <2>1. delta[r] \in Seq(Items) /\ Len(delta[r]) \in 1 .. MaxDelta
    BY <1>1, <1>10 DEF PhaseAgrees
  <2> QED
    BY <2>1, HealedHead
<1>11. CASE \E t \in Times, s \in Sessions :
              \/ Create(s, t)
              \/ \E target \in Sessions : Fork(s, target, t)
              \/ \E q \in Runs : DurableAbort(s, q, t)
              \/ \E p \in Procs, q \in Runs : Accept(p, s, q, t)
  BY <1>2, <1>3, <1>9, <1>11
<1>12. CASE \E q \in Runs :
              \/ \E item \in Items : Observe(q, item)
              \/ Cancel(q)
              \/ \E o \in Outcomes : TaskEnds(q, o)
  BY <1>4, <1>8, <1>12
<1>13. CASE \E q \in Runs : Finalize(q)
  BY <1>5, <1>10, <1>13 DEF Finalize
<1>14. CASE \E p \in Procs : Crash(p)
  BY <1>6, <1>14
<1> QED
  BY <1>7, <1>11, <1>12, <1>13, <1>14 DEF Next

\* The record of an ended run is final.
LEMMA EndedRunStays ==
    ASSUME StoreInv, [StoreNext]_storeVars, NEW r \in Runs, IsEnded(r)
    PROVE  runs'[r] = runs[r]
<1>1. runs \in [Runs -> RunRow \cup {NULL}]
  BY DEF StoreInv, StoreTypeOK
<1>2. ASSUME NEW t \in Times, NEW s \in Sessions,
             \/ CreateSession(s, t)
             \/ \E target \in Sessions : ForkSession(s, target, t)
      PROVE  runs'[r] = runs[r]
  BY <1>2 DEF CreateSession, ForkSession
<1>3. ASSUME NEW t \in Times, NEW s \in Sessions, NEW q \in Runs,
             \/ StartRun(s, q, t)
             \/ AbortRun(s, q, t)
             \/ \E o \in Outcomes, d \in Deltas : FinishRun(s, q, o, d, t)
      PROVE  runs'[r] = runs[r]
  <2>1. q # r
    BY <1>3 DEF StartRun, AbortRun, FinishRun, ActiveIn, IsActive, IsEnded
  <2> QED
    BY <1>1, <1>3, <2>1 DEF StartRun, AbortRun, FinishRun, EndRun
<1>4. CASE UNCHANGED storeVars
  BY <1>4 DEF storeVars
<1> QED
  BY <1>2, <1>3, <1>4 DEF StoreNext

LEMMA CommitInvStep ==
    ASSUME CommitInv, [Next]_vars
    PROVE  CommitInv'
<1> USE DEF CommitInv
<1>1. LifecycleInv' /\ [StoreNext]_storeVars
  BY LifecycleStep, StepIsStoreStep
<1>2. ASSUME NEW r \in Runs, phase'[r] # "none"
      PROVE  Head(delta'[r]) = Prompt
  BY <1>2, MemoryStep DEF PromptFirst
<1>3. ASSUME NEW r \in Runs, result'[r] \in Outcomes, r \notin fenced'
      PROVE  \E n \in 0 .. Len(history'[runs'[r].session]) :
               StandsWhole(history'[runs'[r].session], r, delta'[r], n)
  <2>1. phase'[r] # "none" /\ result'[r] \notin {NULL, Faulted}
    BY <1>1, <1>3, StoreAssumption, RunAssumption DEF LifecycleInv, PhaseAgrees
  <2>2. /\ runs \in [Runs -> RunRow \cup {NULL}] /\ history \in [Sessions -> Seq(HistoryRow)]
        /\ delta \in [Runs -> Seq(Items)]
    BY DEF LifecycleInv, TypeOK, StoreTypeOK
  <2>3. CASE delta'[r] = delta[r] /\ result'[r] = result[r] /\ r \notin fenced
    <3> DEFINE s == runs[r].session
    <3>1. IsEnded(r) /\ runs'[r] = runs[r] /\ s \in Sessions /\ Exists(s)
      <4>1. IsEnded(r)
        BY <1>3, <2>3 DEF LifecycleInv, ResultIsDurable
      <4>2. runs'[r] = runs[r]
        BY <1>1, <4>1, EndedRunStays DEF LifecycleInv
      <4>3. s \in Sessions /\ Exists(s)
        BY <2>2, <4>1 DEF IsEnded, RunRow, LifecycleInv, StoreInv, RunsHaveSessions
      <4> QED
        BY <4>1, <4>2, <4>3
    <3>2. PICK n \in 0 .. Len(history[s]) : StandsWhole(history[s], r, delta[r], n)
      BY <1>3, <2>3 DEF CommittedDeltaIsWhole
    <3>3. CASE history'[s] = history[s]
      BY <2>3, <3>1, <3>2, <3>3
    <3>4. ASSUME NEW q \in Runs, NEW e \in Deltas,
                 ActiveIn(q, s), history'[s] = history[s] \o RowsFor(q, e)
          PROVE  \E m \in 0 .. Len(history'[s]) : StandsWhole(history'[s], r, delta[r], m)
      <4>1. q # r
        BY <3>1, <3>4 DEF ActiveIn, IsActive, IsEnded
      <4>2. history[s] \in Seq(HistoryRow) /\ delta[r] \in Seq(Items)
        BY <2>2, <3>1
      <4> HIDE DEF s
      <4> QED
        BY <3>2, <3>4, <4>1, <4>2, StandsAfterAppend
    <3> QED
      BY <1>1, <2>3, <3>1, <3>3, <3>4, StoreStepExtends DEF LifecycleInv
  <2>4. ASSUME NEW d \in Healed(delta[r]), NEW t \in Times, delta'[r] = d,
               FinalizeCommits(r, d, t)
        PROVE  \E n \in 0 .. Len(history'[runs'[r].session]) :
                 StandsWhole(history'[runs'[r].session], r, delta'[r], n)
    <3> DEFINE s == runs[r].session
    <3>1. /\ phase[r] = "done" /\ ActiveIn(r, s)
          /\ runs' = [runs EXCEPT ![r] = TerminalRun(runs[r], taskOutcome[r], t)]
          /\ history' = [history EXCEPT ![s] = @ \o RowsFor(r, d)]
      BY <2>4 DEF FinalizeCommits, FinishRun, EndRun, AppendRows
    <3>2. /\ d \in Deltas /\ taskOutcome[r] \in Outcomes
          /\ runs[r] \in RunRow /\ s \in Sessions
      BY <3>1, FinalizeFacts
    <3>3. runs'[r].session = s
      BY <2>2, <3>1, <3>2, TerminalRunFacts
    <3>4. \A i \in DOMAIN history[s] : history[s][i].run # r
      BY <3>1, <3>2 DEF LifecycleInv, UncommittedRunsHaveNoRows, ActiveIn
    <3>5. history[s] \in Seq(HistoryRow) /\ history'[s] = history[s] \o RowsFor(r, d)
      BY <2>2, <3>1, <3>2
    <3> HIDE DEF s
    <3> QED
      BY <2>4, <3>2, <3>3, <3>4, <3>5, StandsWhenAppended
  <2>5. ASSUME NEW d \in Healed(delta[r]), FinalizeFenced(r, d), fenced' = fenced
        PROVE  FALSE
    BY <1>3, <2>5 DEF FinalizeFenced, LifecycleInv, FencedAgrees
  <2> QED
    BY <1>3, <2>1, <2>3, <2>4, <2>5, MemoryStep
<1>4. PromptFirst'
  BY <1>2 DEF PromptFirst
<1>5. CommittedDeltaIsWhole'
  <2>1. ASSUME NEW r \in Runs, result'[r] \in Outcomes
        PROVE  phase'[r] # "none"
    BY <1>1, <2>1, StoreAssumption DEF LifecycleInv, PhaseAgrees
  <2> QED
    BY <1>2, <1>3, <2>1 DEF CommittedDeltaIsWhole
<1> QED
  BY <1>1, <1>4, <1>5

\* RunExecution commits a run's delta whole, and nothing that other runs,
\* processes and forks do later takes it apart.
THEOREM LifecycleCommittedDeltaIsWhole == Spec => []CommittedDeltaIsWhole
<1>1. Init => CommitInv
  <2>1. Init => PromptFirst /\ CommittedDeltaIsWhole
    BY StoreAssumption DEF Init, PromptFirst, CommittedDeltaIsWhole
  <2> QED
    BY <2>1, LifecycleInit DEF CommitInv
<1>2. CommitInv /\ [Next]_vars => CommitInv'
  BY CommitInvStep
<1>3. CommitInv => CommittedDeltaIsWhole
  BY DEF CommitInv
<1> QED
  BY <1>1, <1>2, <1>3, PTL DEF Spec
=============================================================================
