----------------------------- MODULE OpenAIStream -----------------------------
(***************************************************************************)
(* From the OpenAI response stream to the provider events that the agent   *)
(* loop consumes: sdk_event_adapter.py normalizes each raw event on its    *)
(* own, stream_assembler.py folds the normalized events into blocks.       *)
(*                                                                         *)
(* The service (external) streams its output items one after another and   *)
(* may end the response at any point: complete, cut at the token limit,    *)
(* stopped by the content filter, or failed.  Each raw event is handled    *)
(* before the next is read, so an action is one raw event and everything   *)
(* the adapter and the assembler do with it.                               *)
(*                                                                         *)
(* Text and reasoning are sequences of fragments.  The arguments of a tool *)
(* call are what they parse to: <<>> is {}, also when they do not parse.   *)
(***************************************************************************)
EXTENDS Naturals, FiniteSets, Sequences, SequencesExt

CONSTANTS
    Fragments,  \* pieces of text, and argument objects
    MaxItems,   \* bound: output items of a response
    MaxParts    \* bound: fragments of an item

VARIABLES
    sent,       \* the service's output items so far
    started,    \* whether ResponseCreatedEvent has been sent
    blocks,     \* StreamAssemblyState.blocks
    active,     \* active_block_index + 1, or 0
    events,     \* the provider events yielded so far
    over        \* whether the response has ended

vars == <<sent, started, blocks, active, events, over>>

\* What a call's arguments parse to.
Arguments == {<<>>} \cup {<<a>> : a \in Fragments}

\* The items that become blocks; the service also has others (web searches...).
Kinds == {"reasoning", "text", "tool"}

\* An item: its id (and, for a call, its call_id), the fragments streamed for
\* it, and its final content, known from its phase "final" on (for a call, from
\* the arguments' end; before, the arguments it was added with).
NewItem(kind, arguments) ==
    [kind |-> kind, id |-> Len(sent) + 1, parts |-> <<>>, phase |-> "open",
     final |-> arguments]

OpenItem == sent # <<>> /\ Last(sent).phase # "done"

Init ==
    /\ sent = <<>>
    /\ started = FALSE
    /\ blocks = <<>>
    /\ active = 0
    /\ events = <<>>
    /\ over = FALSE
-----------------------------------------------------------------------------
(* The assembler.                                                          *)

\* _active_block: the block that is active, if it is of the event's kind
IsActive(kind) == active # 0 /\ blocks[active].kind = kind

Yields(event) == events' = Append(events, event)

Indexed(name, kind, i) == [type |-> name, kind |-> kind, index |-> i]

\* provider_metadata: none, the id of a message or call, or the whole of a
\* reasoning item (its signature).
NoMetadata == [id |-> 0, content |-> <<>>]

\* Mutant: reasoning that shows no summary is not kept.
MetadataIfShown(item, final) ==
    IF item.kind = "reasoning" /\ final = <<>> THEN NoMetadata
    ELSE [id |-> item.id, content |-> IF item.kind = "reasoning" THEN final ELSE <<>>]

Metadata(item, final) ==
    [id |-> item.id, content |-> IF item.kind = "reasoning" THEN final ELSE <<>>]

\* A call's block has the call_id and the arguments its item was added with; the
\* others open empty, as an added message's content is still to come.
NewBlock(kind) ==
    [kind |-> kind, body |-> Last(sent').final,
     call |-> IF kind = "tool" THEN Last(sent').id ELSE 0, metadata |-> NoMetadata]

\* Mutant: the item's own position in the response is the block's.
AppendActiveAtOutputIndex(kind) ==
    /\ blocks' = Append(blocks, NewBlock(kind))
    /\ active' = Len(sent')

AppendActive(kind) ==
    /\ blocks' = Append(blocks, NewBlock(kind))
    /\ active' = Len(blocks')

StartBlock(kind) ==
    /\ AppendActive(kind)
    /\ Yields(Indexed("start", kind, active'))

AppendDelta(kind, part) ==
    IF IsActive(kind)
    THEN /\ blocks' = IF kind = "tool" THEN blocks
                      ELSE [blocks EXCEPT ![active].body = Append(blocks[active].body, part)]
         /\ Yields(Indexed("delta", kind, active))
         /\ UNCHANGED active
    ELSE UNCHANGED <<blocks, active, events>>

\* Mutant: the streamed body is trusted.
StreamedBody(kind, final) == blocks[active].body

\* The DONE event's content replaces what the deltas built, except that an
\* empty reasoning summary leaves the streamed reasoning in place.
FinalBody(kind, final) ==
    IF kind = "reasoning" /\ final = <<>> THEN blocks[active].body ELSE final

FinalizeBlock(item, final) ==
    IF IsActive(item.kind)
    THEN /\ blocks' = [blocks EXCEPT ![active].body = FinalBody(item.kind, final),
                                     ![active].metadata = Metadata(item, final)]
         /\ Yields(Indexed("end", item.kind, active))
         /\ active' = 0
    ELSE UNCHANGED <<blocks, active, events>>
-----------------------------------------------------------------------------
(* Raw events, as the adapter maps them.                                   *)

Created ==
    /\ ~started /\ ~over
    /\ started' = TRUE
    /\ Yields([type |-> "stream_start"])
    /\ UNCHANGED <<sent, blocks, active, over>>

\* A call may be added with arguments; they are usually still to come.
ItemAdded(kind, arguments) ==
    /\ started /\ ~over /\ ~OpenItem
    /\ Len(sent) < MaxItems
    /\ kind # "tool" => arguments = <<>>
    /\ sent' = Append(sent, NewItem(kind, arguments))
    /\ IF kind \in Kinds THEN StartBlock(kind) ELSE UNCHANGED <<blocks, active, events>>
    /\ UNCHANGED <<started, over>>

\* Refusals arrive as text.
ItemDelta(part) ==
    /\ ~over /\ OpenItem
    /\ Last(sent).phase = "open"
    /\ Len(Last(sent).parts) < MaxParts
    /\ sent' = [sent EXCEPT ![Len(sent)].parts = Append(Last(sent).parts, part)]
    /\ AppendDelta(Last(sent).kind, part)
    /\ UNCHANGED <<started, over>>

\* What a finished item contains: a message, its streamed parts; reasoning, a
\* summary or nothing; a call, its arguments.
Finals(item) ==
    IF item.phase = "final" THEN {item.final}
    ELSE CASE item.kind = "text" -> {item.parts}
           [] item.kind = "reasoning" -> {item.parts, <<>>}
           [] item.kind = "tool" -> Arguments
           [] item.kind = "other" -> {<<>>}

ArgumentsDone(arguments) ==
    /\ ~over /\ OpenItem
    /\ Last(sent).kind = "tool" /\ Last(sent).phase = "open"
    /\ arguments \in Finals(Last(sent))
    /\ sent' = [sent EXCEPT ![Len(sent)].phase = "final", ![Len(sent)].final = arguments]
    /\ blocks' = IF IsActive("tool") THEN [blocks EXCEPT ![active].body = arguments]
                 ELSE blocks
    /\ UNCHANGED <<started, active, events, over>>

ItemDone(final) ==
    /\ ~over /\ OpenItem
    /\ final \in Finals(Last(sent))
    /\ sent' = [sent EXCEPT ![Len(sent)].phase = "done", ![Len(sent)].final = final]
    /\ FinalizeBlock(Last(sent), final)
    /\ UNCHANGED <<started, over>>

Ends(event) ==
    /\ ~over
    /\ over' = TRUE
    /\ Yields(event)
    /\ UNCHANGED <<sent, started, blocks, active>>

StreamDone(reason) == [type |-> "stream_done", reason |-> reason, blocks |-> blocks]

StopReason ==
    IF \E i \in DOMAIN sent : sent[i].kind = "tool" THEN "tool_use" ELSE "stop"

Completed == started /\ ~OpenItem /\ Ends(StreamDone(StopReason))

\* The token limit cuts the response anywhere, inside an item included.
CutAtLength == started /\ Ends(StreamDone("length"))

\* The content filter, a failed response, or an error event, which needs no
\* response to have been created.
Fails == Ends([type |-> "stream_error", blocks |-> blocks])

\* What an item's end can carry, whichever the item.
Contents == {<<>>} \cup UNION {Finals(sent[i]) : i \in DOMAIN sent}

Next ==
    \/ Created
    \/ \E kind \in Kinds \cup {"other"}, arguments \in Arguments : ItemAdded(kind, arguments)
    \/ \E part \in Fragments : ItemDelta(part)
    \/ \E arguments \in Contents : ArgumentsDone(arguments)
    \/ \E final \in Contents : ItemDone(final)
    \/ Completed
    \/ CutAtLength
    \/ Fails

Spec == Init /\ [][Next]_vars
-----------------------------------------------------------------------------
\* What the user should see of an item: its authoritative content once the
\* service has given it, what was streamed until then.
Shown(item) ==
    [kind |-> item.kind,
     body |-> IF /\ item.kind # "tool"
                 /\ item.phase = "open" \/ (item.kind = "reasoning" /\ item.final = <<>>)
              THEN item.parts ELSE item.final,
     call |-> IF item.kind = "tool" THEN item.id ELSE 0,
     metadata |-> IF item.phase = "done" THEN Metadata(item, item.final) ELSE NoMetadata]

\* The place of the j-th item among those that become blocks.
Place(items, j) == Cardinality({i \in 1 .. j : items[i].kind \in Kinds})

BlocksAreTheItems(bs, items) ==
    /\ Len(bs) = Place(items, Len(items))
    /\ \A j \in DOMAIN items :
         items[j].kind \in Kinds => bs[Place(items, j)] = Shown(items[j])

\* The blocks of every terminal event, a failure's and a cut's included, are
\* the response's items, in order, each with its authoritative content or with
\* what had been streamed of it.
TerminalBlocksAreTheItems ==
    \A i \in DOMAIN events : events[i].type \in {"stream_done", "stream_error"} =>
        BlocksAreTheItems(events[i].blocks, sent)

Starts(n) == {i \in 1 .. n : events[i].type = "start"}

Ended(n, block) == \E i \in 1 .. n : events[i].type = "end" /\ events[i].index = block

\* A consumer can follow the stream by content_index alone: blocks are numbered
\* in the order they start, a block's deltas and end come after its start and
\* carry its kind, none comes after its end, blocks do not overlap, and the
\* terminal event is the last.
EventsFollowBlocks ==
    \A n \in DOMAIN events :
        LET e == events[n]
        IN  /\ e.type = "stream_start" => n = 1
            /\ e.type \in {"stream_done", "stream_error"} => n = Len(events)
            /\ e.type = "start" =>
                 /\ \A i \in Starts(n - 1) : Ended(n - 1, events[i].index)
                 /\ e.index = 1 + Cardinality(Starts(n - 1))
            /\ e.type \in {"delta", "end"} =>
                 /\ \E i \in Starts(n - 1) :
                      events[i].index = e.index /\ events[i].kind = e.kind
                 /\ ~Ended(n - 1, e.index)

\* docs/openai-stream-event-lifecycle.md: a turn cut at the token limit ends
\* with TurnEndEvent(tool_executions=[]).  The agent executes every tool call
\* among the blocks of a stream_done, the one that was cut short included.
CutTurnRunsNoTools ==
    \A i \in DOMAIN events :
        events[i].type = "stream_done" /\ events[i].reason = "length" =>
            \A k \in DOMAIN events[i].blocks : events[i].blocks[k].kind # "tool"
=============================================================================
