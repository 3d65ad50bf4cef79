----------------------------- MODULE GrepResults -----------------------------
(***************************************************************************)
(* The grep tool's results (tile/tools/grep.py): rg's JSON lines are parsed *)
(* one after the other until the match limit, formatted with a limit on    *)
(* the characters of a line, and cut at the byte limit.  What is parsed    *)
(* are the lines execute has captured; when it met its cap, which is not   *)
(* told, nothing in the result says that rg had printed more.              *)
(*                                                                         *)
(* What a line says is reduced to what the tool tells apart ("plain",      *)
(* "long": over the character limit) and to two ways in which rg may write *)
(* it: "bytes" for text that is not UTF-8, {"bytes": ...} in the JSON, and *)
(* "separated" for text that contains U+0085, U+2028 or U+2029, which JSON *)
(* does not escape.                                                        *)
(***************************************************************************)
EXTENDS Capture, FiniteSets

CONSTANTS
  LineLimit,    \* bytes of a line cut at GREP_LINE_CHARACTER_LIMIT
  EventBytes    \* bytes an event may have in rg's output

ASSUME GrepAssumption == LineLimit \in Nat /\ EventBytes \subseteq Nat

\* rg also prints begin, end and summary events.
Events ==
  [kind : {"match", "context"}, text : {"plain", "long", "bytes", "separated"}, bytes : EventBytes]
    \union [kind : {"begin"}, text : {"plain"}, bytes : EventBytes]

\* The lines of rg's output, of which only the length matters to the capture.
JsonLines(events) == [i \in DOMAIN events |-> [b \in 1..events[i].bytes |-> i]]

\* execute: the events of which the tool gets the lines
CapturedEvents(events) ==
  {FirstLines(events, Len(output)) : output \in Captured(JsonLines(events))}

\* _parse_line returns a Line: the event is a search event, it is one line for
\* str.splitlines, and its text is the kind SearchEvent declares.
Parses(event) == event.kind # "begin" /\ event.text \in {"plain", "long"}

\* Mutant: the limit is noticed when the last match it allows is met.
ParseEventEarly(events, limit, results, i) ==
  LET match == events[i].kind = "match"
      full == match /\ results.matches + 1 >= limit
  IN  IF results.truncated \/ ~Parses(events[i]) THEN results
      ELSE [lines |-> Append(results.lines, i), truncated |-> full,
            matches |-> results.matches + (IF match THEN 1 ELSE 0)]

\* One turn of the loop of _parse_output; it breaks at the first match beyond
\* the limit.  A line is represented by the number of its event.
ParseEvent(events, limit, results, i) ==
  LET match == events[i].kind = "match"
  IN  IF results.truncated \/ ~Parses(events[i]) THEN results
      ELSE IF match /\ results.matches >= limit
        THEN [lines |-> results.lines, truncated |-> TRUE, matches |-> results.matches]
      ELSE [lines |-> Append(results.lines, i), truncated |-> FALSE,
            matches |-> results.matches + (IF match THEN 1 ELSE 0)]

\* The results after every number of events.
Parsings(events, limit) ==
  LET results[i \in 0..Len(events)] ==
        IF i = 0 THEN [lines |-> <<>>, truncated |-> FALSE, matches |-> 0]
        ELSE ParseEvent(events, limit, results[i - 1], i)
  IN  results

ParseOutput(events, limit) == Parsings(events, limit)[Len(events)]

IsLong(events, i) == events[i].text = "long"

\* _format_line: a plain line of two bytes; a long one cut, and marked.
FormatLine(events, i) ==
  [b \in 1..(IF IsLong(events, i) THEN LineLimit + 1 ELSE 1) |-> i]

\* _build_notices
Notices(events, results, truncation) ==
  (IF results.truncated THEN {"matches"} ELSE {})
    \union (IF truncation.by # "none" THEN {"bytes"} ELSE {})
    \union (IF \E i \in Range(results.lines) : IsLong(events, i) THEN {"characters"} ELSE {})

\* _build_result; without lines it says "No matches found" and nothing else.
Grep(captured, limit) ==
  LET results == ParseOutput(captured, EffectiveLimit(limit))
      formatted == [n \in DOMAIN results.lines |-> FormatLine(captured, results.lines[n])]
      truncation == TruncateText(formatted, "head", Len(formatted))
  IN  IF results.lines = <<>> THEN [lines |-> <<>>, notices |-> {}]
      ELSE [lines |-> truncation.lines, notices |-> Notices(captured, results, truncation)]

-----------------------------------------------------------------------------
\* The matches the tool can read.  A match whose text has a Unicode line
\* separator is not among them: str.splitlines breaks its JSON in two, and
\* _parse_line drops both parts without a notice.
Readable(events) == {i \in DOMAIN events : events[i].kind = "match" /\ Parses(events[i])}

\* With the line of this event rg has printed more than the cap.
BehindCap(events, i) == StdoutBytes(FirstLines(JsonLines(events), i)) > OutCap

\* Of the matches rg printed and the tool can read, none within the capture's cap
\* is missing from a result without a notice, and none is shown cut without one:
\* what is lost in silence lies behind the cap.  The notice of the match limit
\* stands exactly when a further match was captured behind the last the limit
\* allows, so that the larger limit it proposes shows more of them.
MatchesAreAccountedFor(events, limit) ==
  \A captured \in CapturedEvents(events) :
    LET result == Grep(captured, limit)
        shown == {result.lines[n][1] : n \in DOMAIN result.lines}
    IN  /\ result.notices = {} =>
             \A i \in Readable(events) :
               (i \in shown /\ ~IsLong(events, i)) \/ BehindCap(events, i)
        /\ ("matches" \in result.notices) =
             (Cardinality(Readable(captured)) > EffectiveLimit(limit))
=============================================================================
