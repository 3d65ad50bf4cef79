----------------------------- MODULE EventStream -----------------------------
(***************************************************************************)
(* The live event log of one RunExecution and the consumers that read it   *)
(* through RunHandle.events (runtime/run_execution.py).  All of them share *)
(* one asyncio.Event, which each clears before it drains the log.          *)
(*                                                                         *)
(* Everything runs on one event loop: an action is the code between two    *)
(* points where another task may run.  A consumer is suspended inside      *)
(* `yield`, for as long as its caller likes, or inside Event.wait.         *)
(* Event.set wakes whoever waits, and a later clear does not undo that.    *)
(***************************************************************************)
EXTENDS Naturals

CONSTANTS
    Consumers,   \* iterations over RunHandle.events
    MaxEvents    \* bound: events of the run, the terminal one included

VARIABLES
    emitted,     \* how many events are in the log
    finalized,   \* the asyncio.Event _finalized
    changed,     \* the asyncio.Event _changed
    pc,          \* consumer -> "new", "ready", "yielded", "waiting", "done" or "gone"
    index        \* consumer -> how many events it has yielded

logVars == <<emitted, finalized, changed, pc, index>>

LogInit ==
    /\ emitted = 1
    /\ finalized = FALSE
    /\ changed = TRUE
    /\ pc = [c \in Consumers |-> "new"]
    /\ index = [c \in Consumers |-> 0]
-----------------------------------------------------------------------------
\* Mutant: one waiter is woken, as a condition's notify would.
WakeOne ==
    IF \E c \in Consumers : pc[c] = "waiting"
    THEN [pc EXCEPT ![CHOOSE c \in Consumers : pc[c] = "waiting"] = "ready"]
    ELSE pc

Woken == [c \in Consumers |-> IF pc[c] = "waiting" THEN "ready" ELSE pc[c]]

Publish ==
    /\ emitted' = emitted + 1
    /\ changed' = TRUE
    /\ pc' = Woken
    /\ UNCHANGED index

Emit ==
    /\ ~finalized
    /\ emitted + 1 < MaxEvents
    /\ Publish
    /\ UNCHANGED finalized

\* The terminal event and _finalized.set() are one step of the done callback.
Finalize ==
    /\ ~finalized
    /\ Publish
    /\ finalized' = TRUE
-----------------------------------------------------------------------------
\* A consumer that is about to enter the loop has just cleared _changed.
Cleared(c) == IF pc[c] = "ready" THEN FALSE ELSE changed

Subscribe(c) ==
    /\ pc[c] = "new"
    /\ pc' = [pc EXCEPT ![c] = "ready"]
    /\ UNCHANGED <<emitted, finalized, changed, index>>

Yield(c) ==
    /\ pc[c] \in {"ready", "yielded"}
    /\ index[c] < emitted
    /\ changed' = Cleared(c)
    /\ index' = [index EXCEPT ![c] = @ + 1]
    /\ pc' = [pc EXCEPT ![c] = "yielded"]
    /\ UNCHANGED <<emitted, finalized>>

\* Mutant: the end of the run is noticed ahead of its last events.
StopAtOnce(c) ==
    /\ pc[c] \in {"ready", "yielded"}
    /\ finalized
    /\ changed' = Cleared(c)
    /\ pc' = [pc EXCEPT ![c] = "done"]
    /\ UNCHANGED <<emitted, finalized, index>>

Stop(c) ==
    /\ pc[c] \in {"ready", "yielded"}
    /\ index[c] = emitted
    /\ finalized
    /\ changed' = Cleared(c)
    /\ pc' = [pc EXCEPT ![c] = "done"]
    /\ UNCHANGED <<emitted, finalized, index>>

\* Were _changed set by now, wait() would return at once, the loop would clear
\* it, find nothing to drain, and wait.
Wait(c) ==
    /\ pc[c] \in {"ready", "yielded"}
    /\ index[c] = emitted
    /\ ~finalized
    /\ changed' = FALSE
    /\ pc' = [pc EXCEPT ![c] = "waiting"]
    /\ UNCHANGED <<emitted, finalized, index>>

\* The caller breaks out of its loop, or is cancelled.
Leave(c) ==
    /\ pc[c] \in {"yielded", "waiting"}
    /\ pc' = [pc EXCEPT ![c] = "gone"]
    /\ UNCHANGED <<emitted, finalized, changed, index>>
-----------------------------------------------------------------------------
Consume(c) == Yield(c) \/ Stop(c) \/ Wait(c)

LogNext ==
    \/ Emit
    \/ Finalize
    \/ \E c \in Consumers : Subscribe(c) \/ Consume(c) \/ Leave(c)

LogSpec == LogInit /\ [][LogNext]_logVars

\* The loop runs whoever is ready, callers keep asking for the next event, and
\* the run ends.
FairLogSpec ==
    LogSpec /\ WF_logVars(Finalize) /\ \A c \in Consumers : WF_logVars(Consume(c))
-----------------------------------------------------------------------------
\* No wake-up is lost: a consumer waits only when it has seen every event and
\* another is still to come, although other consumers clear the shared flag.
NoLostWakeup ==
    \A c \in Consumers : pc[c] = "waiting" => index[c] = emitted /\ ~finalized

\* A stream that ends has delivered the whole log, terminal event included,
\* however late its consumer arrived.
EndedStreamIsWhole ==
    \A c \in Consumers : pc[c] = "done" => finalized /\ index[c] = emitted

\* Every consumer that stays comes to the end of the log.
StreamEnds == \A c \in Consumers : pc[c] = "ready" ~> pc[c] \in {"done", "gone"}
=============================================================================
