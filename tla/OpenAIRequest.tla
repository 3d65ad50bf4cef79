----------------------------- MODULE OpenAIRequest -----------------------------
(***************************************************************************)
(* The way back (providers/openai/serialization.py): the turn that a       *)
(* stream ended in is committed, its calls are answered, and the next      *)
(* request replays both to the service.  Of every block the request needs  *)
(* what the stream put into its metadata when the item was done; a block   *)
(* whose item was cut off has none.  What a result contains is left out.   *)
(***************************************************************************)
EXTENDS OpenAIStream

\* The turn that a terminal event ends in (AssistantTurn.from_stream_done and
\* from_stream_error).
TurnOf(event) ==
    [role |-> "assistant", blocks |-> event.blocks,
     status |-> IF event.type = "stream_done" THEN "completed" ELSE "error"]

ResultOf(block) == [role |-> "tool_result", call |-> block.call]

\* The results of the calls among the blocks, in the order of the blocks.
ToolResults(content) ==
    FlattenSeq([k \in DOMAIN content |->
        IF content[k].kind = "tool" THEN <<ResultOf(content[k])>> ELSE <<>>])

\* What the history holds after a turn: the turn, and a result for every call
\* that it executed.
HistoryAfter(event) ==
    <<[role |-> "user"], TurnOf(event)>>
      \o (IF event.type = "stream_done" THEN ToolResults(event.blocks) ELSE <<>>)

\* _build_fallback_message_id
FallbackId(turn, k) == <<"msg", turn, k>>

ItemId(id) == <<"item", id>>

CallId(call) == <<"call", call>>

\* One block of a turn, as _serialize_assistant_turn and the functions below it
\* make it: no item for reasoning without a signature; the id of the item, or
\* else one made up for a message, or else a call's call_id.
SerializeBlock(block, turn, k) ==
    LET known == block.metadata # NoMetadata
    IN  CASE block.kind = "reasoning" /\ known ->
               <<[type |-> "reasoning", id |-> ItemId(block.metadata.id),
                  body |-> block.metadata.content]>>
          [] block.kind = "reasoning" /\ ~known -> <<>>
          [] block.kind = "text" ->
               <<[type |-> "text", body |-> block.body,
                  id |-> IF known THEN ItemId(block.metadata.id) ELSE FallbackId(turn, k)]>>
          [] OTHER ->
               <<[type |-> "tool", body |-> block.body, call |-> block.call,
                  id |-> IF known THEN ItemId(block.metadata.id) ELSE CallId(block.call)]>>

SerializeTurn(content, turn) ==
    FlattenSeq([k \in DOMAIN content |-> SerializeBlock(content[k], turn, k)])

\* assistant_turn_index after the first n entries of the history.
CompletedTurns(history, n) ==
    Cardinality({i \in 1 .. n :
                   history[i].role = "assistant" /\ history[i].status = "completed"})

\* One entry of the history; a turn that failed is not replayed.
SerializeEntry(entry, turn) ==
    CASE entry.role = "user" -> <<[type |-> "user"]>>
      [] entry.role = "tool_result" -> <<[type |-> "output", call |-> entry.call]>>
      [] entry.role = "assistant" ->
           IF entry.status = "completed" THEN SerializeTurn(entry.blocks, turn) ELSE <<>>

SerializeHistoryItems(history) ==
    FlattenSeq([i \in DOMAIN history |->
        SerializeEntry(history[i], CompletedTurns(history, i - 1))])

\* The history when another turn came before, whose message was cut off.
LongHistoryAfter(event) ==
    LET cut == [kind |-> "text", body |-> <<>>, call |-> 0, metadata |-> NoMetadata]
    IN  <<[role |-> "user"],
          [role |-> "assistant", blocks |-> <<cut>>, status |-> "completed"]>>
          \o HistoryAfter(event)
-----------------------------------------------------------------------------
\* The items that a request gives back: reasoning only when it has its signature.
Kept(item) == item.kind \in Kinds /\ (item.kind = "reasoning" => item.phase = "done")

\* The places of the j-th item, and of its call, among those given back.
KeptPlace(items, j) == Cardinality({k \in 1 .. j : Kept(items[k])})

CallPlace(items, j) == Cardinality({k \in 1 .. j : items[k].kind = "tool"})

\* What the request says of an item: its final content (of reasoning, the hidden
\* one), or what had come of it, and the id the service gave it, once it is done.
GivesBack(said, item) ==
    /\ said.type = item.kind
    /\ said.body = IF item.kind = "reasoning" THEN item.final ELSE Shown(item).body
    /\ item.kind = "tool" => said.call = item.id
    /\ item.phase = "done" => said.id = ItemId(item.id)

\* What follows the user's message, the other turn's and the user's next.
FollowUp(request, items) ==
    LET kept == KeptPlace(items, Len(items))
    IN  /\ Len(request) = 3 + kept + CallPlace(items, Len(items))
        /\ \A j \in DOMAIN items :
             /\ Kept(items[j]) => GivesBack(request[3 + KeptPlace(items, j)], items[j])
             /\ items[j].kind = "tool" =>
                  request[3 + kept + CallPlace(items, j)]
                    = [type |-> "output", call |-> items[j].id]

\* The request after a response gives back to the service what it said: every
\* finished item, in order, under its own id and with its final content (hidden
\* reasoning included, whose summary the user never saw), an unfinished message
\* or call once, as far as it came, under an id that no other item of the request
\* has, and one output for every call, in their order.  A failed response leaves
\* nothing behind.
ReplayKeepsTheItems ==
    \A i \in DOMAIN events : events[i].type \in {"stream_done", "stream_error"} =>
        LET request == SerializeHistoryItems(LongHistoryAfter(events[i]))
        IN  /\ IF events[i].type = "stream_done" THEN FollowUp(request, sent)
               ELSE Len(request) = 3
            /\ \A j, k \in DOMAIN request :
                 j # k /\ {request[j].type, request[k].type} \subseteq Kinds =>
                   request[j].id # request[k].id
=============================================================================
