---------------------------- MODULE RunLifecycle ----------------------------
(***************************************************************************)
(* Runs alive in processes over one durable Store (tile/runtime).          *)
(*                                                                         *)
(* A process accepts a prompt (AgentHarness.prompt), which durably starts  *)
(* a run and leaves a RunExecution in its memory: the history snapshot the *)
(* run reasons over, the delta it produces, its task, and the result its   *)
(* handle reports.  Meanwhile other processes share the database: they     *)
(* start runs, fork sessions and durably abort runs they do not own.  A    *)
(* process may crash at any point, and a store operation may fail.         *)
(*                                                                         *)
(* Each action runs between two awaits of one event loop, so it is atomic  *)
(* within its process; it holds at most one committing store operation, so *)
(* other processes see it as atomic too.  The task itself is abstracted to *)
(* the items it emits and the outcome it ends with: AgentLoop refines it.  *)
(***************************************************************************)
EXTENDS TileStore

CONSTANTS
    Procs,      \* processes sharing the database
    Prompt,     \* the user message that opens every delta
    Unanswered, \* the error result that heals an interrupted tool call
    Faulted,    \* the result of a run whose finalization failed
    MaxDelta,   \* bound: items a task emits before it is healed, prompt included
    MaxHealed   \* bound: tool calls a task leaves unanswered

ASSUME RunAssumption ==
    /\ {Prompt, Unanswered} \subseteq Items
    /\ Faulted \notin Outcomes
    /\ NULL \notin Procs
    /\ Faulted \notin Outcomes \cup {NULL}
    /\ MaxDelta \in Nat \ {0}
    /\ MaxHealed \in Nat
    \* whatever a run may produce, it may commit
    /\ \A d \in UNION {[1 .. n -> Items] : n \in 1 .. MaxDelta + MaxHealed} : d \in Deltas

VARIABLES
    owner,       \* run -> the process whose memory holds its RunExecution
    phase,       \* run -> "none", "running", "done" or "finalized"
    base,        \* run -> the committed history its working history starts from
    delta,       \* run -> _RunHistory.delta
    cancelled,   \* the runs whose task has been sent a cancellation
    taskOutcome, \* run -> the outcome its finished task implies
    result,      \* run -> what RunHandle.wait returns
    fenced       \* history variable: the runs that a durable abort ended

runVars == <<owner, phase, base, delta, cancelled, taskOutcome, result>>

vars == <<sessions, runs, history, owner, phase, base, delta, cancelled,
          taskOutcome, result, fenced>>

Init ==
    /\ StoreInit
    /\ owner = [r \in Runs |-> NULL]
    /\ phase = [r \in Runs |-> "none"]
    /\ base = [r \in Runs |-> <<>>]
    /\ delta = [r \in Runs |-> <<>>]
    /\ cancelled = {}
    /\ taskOutcome = [r \in Runs |-> NULL]
    /\ result = [r \in Runs |-> NULL]
    /\ fenced = {}
-----------------------------------------------------------------------------
(* Operations on the shared store that involve no execution.               *)

Create(s, t) ==
    /\ CreateSession(s, t)
    /\ UNCHANGED <<runVars, fenced>>

Fork(source, target, t) ==
    /\ ForkSession(source, target, t)
    /\ UNCHANGED <<runVars, fenced>>

\* SessionRepository.abort_active_run: ends the record and leaves the task,
\* which the caller may not even share a process with, alone.
DurableAbort(s, r, t) ==
    /\ AbortRun(s, r, t)
    /\ fenced' = fenced \cup {r}
    /\ UNCHANGED runVars
-----------------------------------------------------------------------------
(* One run, in the process that owns it.                                   *)

\* Mutant: the snapshot keeps bare items.
AcceptItems(p, s, r, t) ==
    /\ StartRun(s, r, t)
    /\ owner' = [owner EXCEPT ![r] = p]
    /\ phase' = [phase EXCEPT ![r] = "running"]
    /\ base' = [base EXCEPT ![r] =
                  [i \in DOMAIN history[s] |-> [item |-> history[s][i].item]]]
    /\ delta' = [delta EXCEPT ![r] = <<Prompt>>]
    /\ UNCHANGED <<cancelled, taskOutcome, result, fenced>>

Accept(p, s, r, t) ==
    /\ StartRun(s, r, t)
    /\ owner' = [owner EXCEPT ![r] = p]
    /\ phase' = [phase EXCEPT ![r] = "running"]
    /\ base' = [base EXCEPT ![r] = history[s]]
    /\ delta' = [delta EXCEPT ![r] = <<Prompt>>]
    /\ UNCHANGED <<cancelled, taskOutcome, result, fenced>>

Observe(r, item) ==
    /\ phase[r] = "running"
    /\ Len(delta[r]) < MaxDelta
    /\ delta' = [delta EXCEPT ![r] = Append(@, item)]
    /\ UNCHANGED <<storeVars, owner, phase, base, cancelled, taskOutcome, result, fenced>>

\* RunHandle.abort; it does nothing once the task is done.
Cancel(r) ==
    /\ phase[r] = "running"
    /\ cancelled' = cancelled \cup {r}
    /\ UNCHANGED <<storeVars, owner, phase, base, delta, taskOutcome, result, fenced>>

\* The task may end cancelled without Cancel (a tool raises CancelledError),
\* and may end otherwise after it (a tool swallows the cancellation).
TaskEnds(r, o) ==
    /\ phase[r] = "running"
    /\ phase' = [phase EXCEPT ![r] = "done"]
    /\ taskOutcome' = [taskOutcome EXCEPT ![r] = o]
    /\ UNCHANGED <<storeVars, owner, base, delta, cancelled, result, fenced>>

Settle(r, o, d) ==
    /\ phase' = [phase EXCEPT ![r] = "finalized"]
    /\ delta' = [delta EXCEPT ![r] = d]
    /\ result' = [result EXCEPT ![r] = o]
    /\ UNCHANGED <<owner, base, cancelled, taskOutcome>>

Healed(d) == {d \o [i \in 1 .. k |-> Unanswered] : k \in 0 .. MaxHealed}

\* Mutant: the delta is read before it is healed.
FinalizeCommitsUnhealed(r, d, t) ==
    /\ phase[r] = "done"
    /\ FinishRun(runs[r].session, r, taskOutcome[r], delta[r], t)
    /\ Settle(r, taskOutcome[r], d)
    /\ UNCHANGED fenced

FinalizeCommits(r, d, t) ==
    /\ phase[r] = "done"
    /\ FinishRun(runs[r].session, r, taskOutcome[r], d, t)
    /\ Settle(r, taskOutcome[r], d)
    /\ UNCHANGED fenced

\* Mutant: a stale writer reports its own outcome.
FinalizeFencedUnread(r, d) ==
    /\ phase[r] = "done"
    /\ IsEnded(r)
    /\ Settle(r, taskOutcome[r], d)
    /\ UNCHANGED <<storeVars, fenced>>

\* RunAlreadyEndedError: the recorded outcome is authoritative.
FinalizeFenced(r, d) ==
    /\ phase[r] = "done"
    /\ IsEnded(r)
    /\ Settle(r, runs[r].outcome, d)
    /\ UNCHANGED <<storeVars, fenced>>

\* Mutant: the failed transaction leaves its history behind.
FinalizeFaultsPartly(r, d) ==
    /\ phase[r] = "done"
    /\ Settle(r, Faulted, d)
    /\ AppendRows(runs[r].session, r, d)
    /\ UNCHANGED <<sessions, runs, fenced>>

\* Mutant: a faulted finalization may be tried again.
FinalizeFaultsRetried(r, d) ==
    /\ phase[r] = "done"
    /\ result' = [result EXCEPT ![r] = Faulted]
    /\ UNCHANGED <<storeVars, owner, phase, base, delta, cancelled, taskOutcome, fenced>>

\* Any other store failure rolls back; the run stays active.
FinalizeFaults(r, d) ==
    /\ phase[r] = "done"
    /\ Settle(r, Faulted, d)
    /\ UNCHANGED <<storeVars, fenced>>

\* Mutant: a run that was ended elsewhere is left unsettled.
FinalizeIfActive(r) ==
    /\ IsActive(r)
    /\ \E d \in Healed(delta[r]) :
         \/ \E t \in Times : FinalizeCommits(r, d, t)
         \/ FinalizeFaults(r, d)

Finalize(r) ==
    \E d \in Healed(delta[r]) :
        \/ \E t \in Times : FinalizeCommits(r, d, t)
        \/ FinalizeFenced(r, d)
        \/ FinalizeFaults(r, d)

\* The process dies; only what it committed is left of its runs.
Crash(p) ==
    LET lost == {r \in Runs : owner[r] = p}
        Forget(f, value) == [r \in Runs |-> IF r \in lost THEN value ELSE f[r]]
    IN  /\ lost # {}
        /\ owner' = Forget(owner, NULL)
        /\ phase' = Forget(phase, "none")
        /\ base' = Forget(base, <<>>)
        /\ delta' = Forget(delta, <<>>)
        /\ cancelled' = cancelled \ lost
        /\ taskOutcome' = Forget(taskOutcome, NULL)
        /\ result' = Forget(result, NULL)
        /\ UNCHANGED <<storeVars, fenced>>
-----------------------------------------------------------------------------
Next ==
    \/ \E t \in Times, s \in Sessions :
         \/ Create(s, t)
         \/ \E target \in Sessions : Fork(s, target, t)
         \/ \E r \in Runs : DurableAbort(s, r, t)
         \/ \E p \in Procs, r \in Runs : Accept(p, s, r, t)
    \/ \E r \in Runs :
         \/ \E item \in Items : Observe(r, item)
         \/ Cancel(r)
         \/ \E o \in Outcomes : TaskEnds(r, o)
         \/ Finalize(r)
    \/ \E p \in Procs : Crash(p)

Spec == Init /\ [][Next]_vars

\* The event loop delivers a requested cancellation (assuming no tool
\* swallows it or refuses to unwind) and runs the done callback of a task.
\* Nothing obliges a task that was not cancelled to end.
Fairness ==
    \A r \in Runs :
        /\ WF_vars(r \in cancelled /\ TaskEnds(r, Aborted))
        /\ WF_vars(Finalize(r))

FairSpec == Spec /\ Fairness
-----------------------------------------------------------------------------
\* The memory of every process, and the store, hold values of their types.
TypeOK ==
    /\ StoreTypeOK
    /\ owner \in [Runs -> Procs \cup {NULL}]
    /\ phase \in [Runs -> {"none", "running", "done", "finalized"}]
    /\ base \in [Runs -> Seq(HistoryRow)]
    /\ delta \in [Runs -> Seq(Items)]
    /\ cancelled \in SUBSET Runs
    /\ taskOutcome \in [Runs -> Outcomes \cup {NULL}]
    /\ result \in [Runs -> Outcomes \cup {Faulted, NULL}]
    /\ fenced \in SUBSET Runs

\* While a run may still commit, the snapshot its model reasons over is its
\* session's whole committed history: no other run, fork or abort moved it.
SnapshotIsCurrent ==
    \A r \in Runs :
        IsActive(r) /\ phase[r] \in {"running", "done"}
            => base[r] = history[runs[r].session]

\* An outcome that a handle reports is the outcome the store records, even
\* when a durable abort won the race against the task.
ResultIsDurable ==
    \A r \in Runs :
        result[r] \in Outcomes => IsEnded(r) /\ runs[r].outcome = result[r]

\* A run that is active, was durably aborted, or whose finalization faulted
\* has committed nothing: no session, forks included, holds a row of it.
UncommittedRunsHaveNoRows ==
    \A r \in Runs :
        IsActive(r) \/ r \in fenced \/ result[r] = Faulted
            => \A s \in Sessions : \A i \in DOMAIN history[s] : history[s][i].run # r

\* What a run's memory says of its place in its life.
PhaseAgrees ==
    \A r \in Runs :
        /\ phase[r] # "none" => runs[r] # NULL /\ owner[r] # NULL
        /\ phase[r] \in {"running", "done"} => Len(delta[r]) \in 1 .. MaxDelta
        /\ phase[r] = "done" => taskOutcome[r] \in Outcomes
        /\ result[r] # NULL => phase[r] = "finalized"

\* Only a durable abort ends a run ahead of its own finalization.
FencedAgrees ==
    \A r \in Runs :
        /\ r \in fenced => IsEnded(r)
        /\ IsEnded(r) /\ (phase[r] \in {"running", "done"} \/ result[r] = Faulted)
             => r \in fenced

\* The inductive invariant behind the properties that are proved.
LifecycleInv ==
    /\ StoreInv
    /\ TypeOK
    /\ PhaseAgrees
    /\ FencedAgrees
    /\ SnapshotIsCurrent
    /\ ResultIsDurable
    /\ UncommittedRunsHaveNoRows

\* d stands in the history h, from position n + 1 on, and r has no other row.
StandsWhole(h, r, d, n) ==
    /\ \A i \in DOMAIN h : h[i].run = r <=> i \in n + 1 .. n + Len(d)
    /\ \A i \in DOMAIN d : n + i \in DOMAIN h /\ h[n + i].item = d[i]

\* A run that committed did so whole: its session holds its healed delta,
\* prompt first, exactly once and in order.
CommittedDeltaIsWhole ==
    \A r \in Runs :
        result[r] \in Outcomes /\ r \notin fenced
            => LET h == history[runs[r].session]
               IN  /\ \E n \in 0 .. Len(h) : StandsWhole(h, r, delta[r], n)
                   /\ Head(delta[r]) = Prompt

PromptFirst == \A r \in Runs : phase[r] # "none" => Head(delta[r]) = Prompt

\* The inductive invariant behind CommittedDeltaIsWhole.
CommitInv == LifecycleInv /\ PromptFirst /\ CommittedDeltaIsWhole

ExtendsSnapshot ==
    \A r \in Runs :
        IsActive(r) /\ IsEnded(r)' /\ r \notin fenced'
            => history'[runs[r].session] = base[r] \o RowsFor(r, delta'[r])

\* When a run's delta is committed it lands directly on the snapshot its
\* model saw: the session's history is the serial composition of its runs.
CommitExtendsSnapshot == [][ExtendsSnapshot]_vars

FencesOrphans ==
    \A r \in Runs :
        IsActive(r) /\ IsEnded(r)' /\ (owner[r] = NULL \/ result[r] # NULL)
            => r \in fenced'

\* A run whose process crashed, or whose finalization faulted, is ended by a
\* durable abort or not at all: it never commits late.
OrphanEndsByAbort == [][FencesOrphans]_vars

KeepsResults ==
    \A r \in Runs :
        result[r] # NULL /\ owner'[r] = owner[r]
            => result'[r] = result[r] /\ delta'[r] = delta[r]

\* What a handle has reported never changes, and no run is settled twice.
SettledOnce == [][KeepsResults]_vars

\* A run that was told to abort reports a result, unless its process dies.
AbortReturns ==
    \A r \in Runs : r \in cancelled ~> result[r] # NULL \/ owner[r] = NULL

=============================================================================
