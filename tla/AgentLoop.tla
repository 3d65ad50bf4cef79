------------------------------ MODULE AgentLoop ------------------------------
(***************************************************************************)
(* One run's task, from its creation to its settlement: the prompt program *)
(* (runtime/execution.py), the agent loop (agent.py), the tool executor's  *)
(* outcomes, the run's two local histories (runtime/history.py) and the    *)
(* event log they are projected from.                                      *)
(*                                                                         *)
(* pc names the await at which the task is suspended; an action is the     *)
(* code that runs from there to the next await, so it may publish several  *)
(* events at once.  A cancellation is delivered at an await only.          *)
(*                                                                         *)
(* A provider turn is reduced to the call ids of its tool calls, a tool    *)
(* execution to what the prompt program tells apart.                       *)
(***************************************************************************)
EXTENDS Integers, Sequences, FiniteSets, SequencesExt

CONSTANTS
    CallIds,       \* ids a provider may give its tool calls, fresh or not
    MaxCalls,      \* bound: tool calls in one turn
    MaxTurns,      \* bound: provider turns of the whole run
    MaxFollowUps   \* MAX_RESULT_FOLLOW_UPS

ASSUME LoopAssumption ==
    MaxCalls \in Nat /\ MaxTurns \in Nat /\ MaxFollowUps \in Nat

VARIABLES
    typed,         \* whether the prompt requires a result
    pc,            \* the await the task is suspended at
    cancel,        \* whether task.cancel() has been called
    turnStarted,   \* whether the provider stream has yielded its start
    turns,         \* provider requests made so far
    followUps,     \* follow-up messages sent so far
    runHistory,    \* run_agent's history, the next request's input
    working,       \* _RunHistory.working, after the committed prefix
    delta,         \* _RunHistory.delta
    calls,         \* tool calls of the current turn
    executions,    \* executions of the current turn so far
    attempt,       \* executions of the current attempt's earlier turns
    outcome,       \* the outcome the task ended with, or "none"
    log            \* RunExecution._events

vars == <<typed, pc, cancel, turnStarted, turns, followUps, runHistory, working,
          delta, calls, executions, attempt, outcome, log>>

User == [kind |-> "user"]
Turn(cs) == [kind |-> "turn", calls |-> cs]
Result(c) == [kind |-> "result", call |-> c]

Event(name) == [event |-> name]
EventWith(name, item) == [event |-> name, item |-> item]

\* What a finished execution means to the loop: "plain" covers every result
\* and error without terminate, "stop" a terminating custom tool.
Verdicts == IF typed THEN {"plain", "stop", "complete", "fail"} ELSE {"plain", "stop"}

\* "closing", "failing" and "cancelling" are the close of the provider stream: of
\* a turn that is whole, that failed, and whose tool calls were cancelled.
Awaits == {"created", "requesting", "streaming", "executing", "closing", "failing", "cancelling"}
-----------------------------------------------------------------------------
(* RunExecution._emit: the replayable payload of an event goes to both     *)
(* histories, the event to the log.                                        *)

Replayable(e) ==
    e.event \in {"MessageEnd", "ToolEnd", "FollowUp"} /\ "item" \in DOMAIN e

\* The member of a set of positions that n - 1 others precede.
Nth(positions, n) ==
    CHOOSE i \in positions : Cardinality({j \in positions : j < i}) = n - 1

ItemsOf(es) ==
    LET kept == {i \in DOMAIN es : Replayable(es[i])}
    IN  [n \in 1 .. Cardinality(kept) |-> es[Nth(kept, n)].item]

Emit(es) ==
    /\ log' = log \o es
    /\ delta' = delta \o ItemsOf(es)
    /\ working' = working \o ItemsOf(es)

Silent == UNCHANGED <<log, delta, working>>

End(o) ==
    /\ pc' = "done"
    /\ outcome' = o
-----------------------------------------------------------------------------
Init ==
    /\ typed \in BOOLEAN
    /\ pc = "created"
    /\ cancel = FALSE
    /\ turnStarted = FALSE
    /\ turns = 0
    /\ followUps = 0
    /\ runHistory = <<>>
    /\ working = <<User>>
    /\ delta = <<User>>
    /\ calls = <<>>
    /\ executions = <<>>
    /\ attempt = <<>>
    /\ outcome = "none"
    /\ log = <<Event("RunStart")>>

\* RunHandle.abort, from another task of the event loop
Abort ==
    /\ pc \in Awaits
    /\ cancel' = TRUE
    /\ UNCHANGED <<typed, pc, turnStarted, turns, followUps, runHistory, working,
                   delta, calls, executions, attempt, outcome, log>>

\* Mutant: an interrupted attempt counts as the run's end.
CancelledIsCompleted ==
    /\ pc \in Awaits
    /\ cancel \/ pc = "executing"
    /\ End("completed")
    /\ Silent
    /\ UNCHANGED <<typed, cancel, turnStarted, turns, followUps, runHistory, calls,
                   executions, attempt>>

\* CancelledError rises through every layer; nothing is published for it.  A
\* tool may also raise it by itself; its turn's stream is closed on the way.
Cancelled ==
    /\ pc \in Awaits
    /\ cancel \/ pc = "executing"
    /\ IF pc = "executing" THEN pc' = "cancelling" /\ UNCHANGED outcome ELSE End("aborted")
    /\ Silent
    /\ UNCHANGED <<typed, cancel, turnStarted, turns, followUps, runHistory, calls,
                   executions, attempt>>

\* _run_attempt: an attempt starts from the working history of the moment,
\* es being published just before it.
StartAttempt(es) ==
    /\ Emit(es \o <<Event("AgentStart")>>)
    /\ runHistory' = working \o ItemsOf(es)
    /\ pc' = "requesting"
    /\ turns' = turns + 1
    /\ turnStarted' = FALSE
    /\ calls' = <<>>
    /\ executions' = <<>>
    /\ attempt' = <<>>
    /\ UNCHANGED outcome

\* Composing the system prompt reads project files, and may fail.
AttemptFails(es) ==
    /\ Emit(es)
    /\ End("execution_failed")
    /\ UNCHANGED <<turnStarted, turns, runHistory, calls, executions, attempt>>

Begin ==
    /\ pc = "created"
    /\ ~cancel
    /\ StartAttempt(<<>>) \/ AttemptFails(<<>>)
    /\ UNCHANGED <<typed, cancel, followUps>>
-----------------------------------------------------------------------------
(* One provider turn.                                                      *)

KeepTurn == UNCHANGED <<typed, cancel, turns, followUps, runHistory, attempt>>

StreamOpens ==
    /\ pc = "requesting"
    /\ pc' = "streaming"
    /\ Silent
    /\ UNCHANGED <<turnStarted, calls, executions, outcome>>
    /\ KeepTurn

StreamStarts ==
    /\ pc = "streaming"
    /\ ~turnStarted
    /\ turnStarted' = TRUE
    /\ Emit(<<Event("TurnStart"), Event("MessageStart")>>)
    /\ UNCHANGED <<pc, calls, executions, outcome>>
    /\ KeepTurn

\* stream_done: the turn is published and its first tool call starts.
StreamDone(cs) ==
    /\ pc = "streaming"
    /\ turnStarted
    /\ calls' = cs
    /\ executions' = <<>>
    /\ IF cs = <<>>
       THEN /\ Emit(<<EventWith("MessageEnd", Turn(cs)), Event("TurnEnd")>>)
            /\ pc' = "closing"
       ELSE /\ Emit(<<EventWith("MessageEnd", Turn(cs)), Event("ToolStart")>>)
            /\ pc' = "executing"
    /\ UNCHANGED <<turnStarted, outcome>>
    /\ KeepTurn

\* stream_error, which a provider may yield before its stream_start: the failed
\* turn is published but not replayable.
StreamError ==
    /\ pc = "streaming"
    /\ Emit(<<Event("MessageEnd")>>)
    /\ pc' = "failing"
    /\ UNCHANGED <<turnStarted, calls, executions, outcome>>
    /\ KeepTurn

\* The stream of a turn that failed or was cancelled has been closed.
StreamCloses ==
    /\ pc \in {"failing", "cancelling"}
    /\ End(IF pc = "failing" THEN "turn_failed" ELSE "aborted")
    /\ Silent
    /\ UNCHANGED <<turnStarted, calls, executions>>
    /\ KeepTurn

\* The request or the stream raises, the stream ends without a terminal event,
\* or closing the stream raises, whatever it is closed for.
StreamRaises ==
    /\ pc \in {"requesting", "streaming", "closing", "failing", "cancelling"}
    /\ End("execution_failed")
    /\ Silent
    /\ UNCHANGED <<turnStarted, calls, executions>>
    /\ KeepTurn

\* Mutant: the turn's end is published ahead of its last tool's.
TurnEndsEarly(ended) == <<Event("TurnEnd"), ended>>

TurnEnds(ended) == <<ended, Event("TurnEnd")>>

ToolReturns(verdict) ==
    LET ended == EventWith("ToolEnd", Result(calls[Len(executions) + 1]))
    IN  /\ pc = "executing"
        /\ executions' = Append(executions, verdict)
        /\ IF Len(executions') < Len(calls)
           THEN /\ Emit(<<ended, Event("ToolStart")>>)
                /\ UNCHANGED pc
           ELSE /\ Emit(TurnEnds(ended))
                /\ pc' = "closing"
        /\ UNCHANGED <<turnStarted, calls, outcome>>
        /\ KeepTurn
-----------------------------------------------------------------------------
(* The turn's stream is closed: another turn, another attempt, or the end. *)

Terminates == \E i \in DOMAIN executions : executions[i] # "plain"

ShouldContinue == executions # <<>> /\ ~Terminates

\* Mutant: only the turn is kept.
TurnItemsWithoutResults == <<Turn(calls)>>

TurnItems == <<Turn(calls)>> \o [i \in DOMAIN executions |-> Result(calls[i])]

NextTurn ==
    /\ pc = "closing"
    /\ ShouldContinue
    /\ turns < MaxTurns
    /\ pc' = "requesting"
    /\ turns' = turns + 1
    /\ turnStarted' = FALSE
    /\ runHistory' = runHistory \o TurnItems
    /\ attempt' = attempt \o executions
    /\ calls' = <<>>
    /\ executions' = <<>>
    /\ Silent
    /\ UNCHANGED <<typed, cancel, followUps, outcome>>

\* _result_outcome: the first result call of the attempt decides.
ResultOutcome ==
    LET verdicts == attempt \o executions
        decisive == {i \in DOMAIN verdicts : verdicts[i] \in {"complete", "fail"}}
    IN  IF decisive = {} THEN "none"
        ELSE IF verdicts[Nth(decisive, 1)] = "complete" THEN "completed" ELSE "agent_failed"

\* Mutant: one reminder too many.
OutOfAttemptsLate == followUps > MaxFollowUps

OutOfAttempts == followUps = MaxFollowUps

AttemptEnds ==
    /\ pc = "closing"
    /\ ~ShouldContinue
    /\ UNCHANGED <<typed, cancel>>
    /\ IF ~typed \/ ResultOutcome # "none" \/ OutOfAttempts
       THEN /\ Emit(<<Event("AgentEnd")>>)
            /\ End(IF ~typed THEN "completed"
                   ELSE IF ResultOutcome # "none" THEN ResultOutcome ELSE "no_result")
            /\ UNCHANGED <<turnStarted, turns, followUps, runHistory, calls,
                           executions, attempt>>
       ELSE /\ turns < MaxTurns
            /\ followUps' = followUps + 1
            /\ LET es == <<Event("AgentEnd"), EventWith("FollowUp", User)>>
               IN  StartAttempt(es) \/ AttemptFails(es)
-----------------------------------------------------------------------------
(* RunExecution._finalize, once the task is done (RunLifecycle has the     *)
(* store's side of it).                                                    *)

\* Mutant: an interrupted run is not healed.
NoHealing == <<>>

\* _unanswered_tool_calls: the places <<i, k>> of the calls, the k-th of the turn
\* at i, that no result of the whole delta answers.
Unanswered ==
    LET answered == {delta[i].call : i \in {j \in DOMAIN delta : delta[j].kind = "result"}}
    IN  {p \in (DOMAIN delta) \X (1 .. MaxCalls) :
           /\ delta[p[1]].kind = "turn"
           /\ p[2] \in DOMAIN delta[p[1]].calls
           /\ delta[p[1]].calls[p[2]] \notin answered}

Precedes(p, q) == p[1] < q[1] \/ (p[1] = q[1] /\ p[2] < q[2])

\* heal: each of them, in order, is answered by an error result.
Healing ==
    LET place(n) == CHOOSE p \in Unanswered :
                      Cardinality({q \in Unanswered : Precedes(q, p)}) = n - 1
    IN  [n \in 1 .. Cardinality(Unanswered) |->
           Result(delta[place(n)[1]].calls[place(n)[2]])]

Finalize ==
    /\ pc = "done"
    /\ pc' = "settled"
    /\ delta' = delta \o Healing
    /\ working' = working \o Healing
    /\ log' = log \o <<Event("RunEnd")>>
    /\ UNCHANGED <<typed, cancel, turnStarted, turns, followUps, runHistory, calls,
                   executions, attempt, outcome>>
-----------------------------------------------------------------------------
Next ==
    \/ Abort
    \/ Cancelled
    \/ Begin
    \/ StreamOpens
    \/ StreamStarts
    \/ \E cs \in BoundedSeq(CallIds, MaxCalls) : StreamDone(cs)
    \/ StreamError
    \/ StreamCloses
    \/ StreamRaises
    \/ \E verdict \in Verdicts : ToolReturns(verdict)
    \/ NextTurn
    \/ AttemptEnds
    \/ Finalize

Spec == Init /\ [][Next]_vars
-----------------------------------------------------------------------------
Scopes == {"RunEnd", "AgentEnd", "TurnEnd", "MessageEnd", "ToolEnd"}

\* run_agent rebuilds by hand the history that the events project, and a later
\* attempt starts from the projection: at every request the two agree, and
\* they differ from what will be committed by the committed prefix only, so
\* the model always sees what the session will record.
HistoriesAgree ==
    /\ working = delta
    /\ pc \in {"requesting", "streaming"} => runHistory = working

Follows(d, i, cs) ==
    /\ i + Len(cs) <= Len(d)
    /\ \A k \in DOMAIN cs : d[i + k] = Result(cs[k])

UniqueCalls(d) ==
    \A i, j \in DOMAIN d : d[i].kind = "turn" /\ d[j].kind = "turn" =>
        \A m \in DOMAIN d[i].calls, n \in DOMAIN d[j].calls :
            d[i].calls[m] = d[j].calls[n] => i = j /\ m = n

Replays(d) ==
    \A i \in DOMAIN d :
        /\ d[i].kind = "turn" => Follows(d, i, d[i].calls)
        /\ d[i].kind = "result" => \E j \in 1 .. i - 1 :
             d[j].kind = "turn" /\ i - j \in DOMAIN d[j].calls

\* Wherever a run is interrupted, the delta it settles with can be replayed:
\* each tool call is answered exactly once, right after its turn and in order,
\* and no result lacks its call.  (Provided the provider does not repeat an id:
\* heal looks answers up by id over the whole delta, history.py:98.)
SettledDeltaReplays == pc = "settled" /\ UniqueCalls(delta) => Replays(delta)

\* The scopes still open after each event, innermost last; a scope is named by
\* the event that closes it.
Parent(name) ==
    CASE name = "AgentStart" -> "RunEnd"
      [] name = "TurnStart" -> "AgentEnd"
      [] name = "MessageStart" -> "TurnEnd"
      [] name = "ToolStart" -> "TurnEnd"
      [] name = "FollowUp" -> "RunEnd"

Closer(name) ==
    CASE name = "RunStart" -> "RunEnd"
      [] name = "AgentStart" -> "AgentEnd"
      [] name = "TurnStart" -> "TurnEnd"
      [] name = "MessageStart" -> "MessageEnd"
      [] name = "ToolStart" -> "ToolEnd"

Innermost(open) == IF open = <<>> THEN "none" ELSE Last(open)

FailedMessage(e) == e.event = "MessageEnd" /\ "item" \notin DOMAIN e

\* "bad" once an event is out of place; the run's end closes everything.  The
\* end of a failed message is left out: a stream whose first event is an error
\* ends a message that never started (agent.py:255).
AfterEvent(open, e) ==
    IF open = <<"bad">> \/ FailedMessage(e)
    THEN open
    ELSE CASE e.event = "RunStart" -> IF open = <<>> THEN <<"RunEnd">> ELSE <<"bad">>
           [] e.event = "RunEnd" -> IF open = <<>> THEN <<"bad">> ELSE <<>>
           [] e.event = "FollowUp" -> IF Innermost(open) = "RunEnd" THEN open ELSE <<"bad">>
           [] e.event \in Scopes \ {"RunEnd"} ->
                IF Innermost(open) = e.event THEN Front(open) ELSE <<"bad">>
           [] OTHER -> IF Innermost(open) = Parent(e.event)
                         THEN Append(open, Closer(e.event)) ELSE <<"bad">>

OpenScopes(es) ==
    LET open[i \in 0 .. Len(es)] == IF i = 0 THEN <<>> ELSE AfterEvent(open[i - 1], es[i])
    IN  open[Len(es)]

\* Events nest as run > attempt > turn > message / tool, through failures and
\* cancellations that leave scopes open, and only the run's end closes what is
\* open.
EventsNest == OpenScopes(log) # <<"bad">>

Count(name) == Cardinality({i \in DOMAIN log : log[i].event = name})

\* A typed run gives up only after MaxFollowUps reminders, each followed by an
\* attempt, and it never ends on a reminder nobody could answer.
GivesUpAfterLastAttempt ==
    /\ outcome = "no_result" =>
         Count("FollowUp") = MaxFollowUps /\ Count("AgentEnd") = MaxFollowUps + 1
    /\ outcome \in {"no_result", "completed", "agent_failed"} =>
         Last(delta).kind # "user" /\ Count("AgentStart") = Count("FollowUp") + 1

\* A run is recorded completed, or failed by its agent, only when its last turn
\* is whole: every call of every turn was executed, nothing was healed.
CompletedIsWhole ==
    outcome \in {"completed", "agent_failed", "no_result"} =>
        /\ Count("ToolStart") = Count("ToolEnd")
        /\ pc = "done" /\ UniqueCalls(delta) => Replays(delta)
-----------------------------------------------------------------------------
(* What the invariants rest on: LoopInv is inductive (AgentLoopProofs).    *)

Turns == [kind : {"turn"}, calls : BoundedSeq(CallIds, MaxCalls)]
Items == {User} \union Turns \union [kind : {"result"}, call : CallIds]

EventNames == Scopes \union {"RunStart", "AgentStart", "TurnStart", "MessageStart",
                             "ToolStart", "FollowUp"}
Events == [event : EventNames] \union [event : EventNames, item : Items]

\* The agent's own endings; the others interrupt it.
Endings == {"completed", "agent_failed", "no_result"}
Interrupted == {"aborted", "turn_failed", "execution_failed"}

TypeOK ==
    /\ {typed, cancel, turnStarted} \subseteq BOOLEAN
    /\ pc \in Awaits \union {"done", "settled"}
    /\ {turns, followUps} \subseteq Nat
    /\ {runHistory, working, delta} \subseteq Seq(Items)
    /\ calls \in BoundedSeq(CallIds, MaxCalls)
    /\ {executions, attempt} \subseteq Seq({"plain", "stop", "complete", "fail"})
    /\ outcome \in {"none"} \union Endings \union Interrupted
    /\ log \in Seq(Events)
    /\ pc \in Awaits => outcome = "none"

\* The provider has seen all but the items of the turn under way.
HistoryAgrees ==
    /\ working = delta
    /\ pc \in {"requesting", "streaming", "failing"} => runHistory = delta
    /\ pc \in {"executing", "cancelling", "closing"} => delta = runHistory \o TurnItems
    /\ pc \in {"executing", "cancelling"} => Len(executions) < Len(calls)
    /\ pc = "closing" => Len(executions) = Len(calls)

\* What the provider has seen can be replayed, and a task leaves nothing behind
\* it but an unfinished last turn.
DeltaAgrees ==
    /\ Replays(runHistory)
    /\ pc = "created" => Replays(delta)
    /\ pc = "done" => \/ Replays(delta)
                      \/ delta = runHistory \o TurnItems /\ Len(executions) < Len(calls)
    /\ SettledDeltaReplays
    /\ outcome \in Endings => Replays(delta) /\ Last(delta).kind # "user"

\* The scopes that are open at an await; a request starts with no message.
ScopesAt(await) ==
    CASE await = "created" -> <<"RunEnd">>
      [] await \in {"streaming", "failing"} /\ turnStarted ->
           <<"RunEnd", "AgentEnd", "TurnEnd", "MessageEnd">>
      [] await \in {"executing", "cancelling"} -> <<"RunEnd", "AgentEnd", "TurnEnd", "ToolEnd">>
      [] OTHER -> <<"RunEnd", "AgentEnd">>

ScopesAgree ==
    /\ pc \in Awaits => OpenScopes(log) = ScopesAt(pc)
    /\ pc = "done" => OpenScopes(log) \notin {<<"bad">>, <<>>}
    /\ pc = "settled" => OpenScopes(log) = <<>>
    /\ pc = "requesting" => ~turnStarted

CountsAgree ==
    /\ Count("FollowUp") = followUps
    /\ pc = "created" => followUps = 0 /\ Count("AgentStart") = 0 /\ Count("AgentEnd") = 0
    /\ pc \in Awaits \ {"created"} =>
         Count("AgentStart") = followUps + 1 /\ Count("AgentEnd") = followUps
    /\ pc \in Awaits =>
         Count("ToolStart")
           = Count("ToolEnd") + (IF pc \in {"executing", "cancelling"} THEN 1 ELSE 0)
    /\ outcome \in Endings =>
         /\ Count("AgentStart") = followUps + 1
         /\ Count("ToolStart") = Count("ToolEnd")
    /\ outcome = "no_result" => followUps = MaxFollowUps /\ Count("AgentEnd") = followUps + 1

LoopInv == TypeOK /\ HistoryAgrees /\ DeltaAgrees /\ ScopesAgree /\ CountsAgree
=============================================================================
