------------------------------- MODULE EditText -------------------------------
(***************************************************************************)
(* What the edit tool (tile/tools/edit.py) makes of a file and a list of   *)
(* replacements.  All old texts are searched in the original content, as   *)
(* they are and, when one of them is not there, all of them again as runs  *)
(* of whole lines that are compared after normalisation.  Every old text   *)
(* must be found once, the places found must not overlap, and they are     *)
(* replaced from the last to the first.                                    *)
(*                                                                         *)
(* A text is a sequence of characters: "nl", "cr", "sp" (any space that    *)
(* rstrip removes), "a" and other letters, and "curly", a character that   *)
(* normalises to "plain".  A file is a byte order mark or none and a text. *)
(* A span is the first position it covers and the first behind it.         *)
(***************************************************************************)
EXTENDS Integers, FiniteSets, Sequences, SequencesExt

\* The numbers of a set up to n, in their order.
InOrder(numbers, n) == FlattenSeq([k \in 1..n |-> IF k \in numbers THEN <<k>> ELSE <<>>])

Ends(text, c) == text # <<>> /\ Last(text) = c

\* _normalize_to_lf: CRLF, then what is left of CR
NormalizeToLf(text) ==
  FlattenSeq([i \in DOMAIN text |->
    IF text[i] # "cr" THEN <<text[i]>>
    ELSE IF i < Len(text) /\ text[i + 1] = "nl" THEN <<>> ELSE <<"nl">>])

\* _detect_line_ending: whether the first newline belongs to a CRLF
UsesCrlf(text) ==
  \E i \in DOMAIN text :
    /\ text[i] = "nl" /\ i > 1 /\ text[i - 1] = "cr"
    /\ \A j \in 1..(i - 1) : text[j] # "nl"

\* _restore_line_endings
RestoreLineEndings(text, crlf) ==
  FlattenSeq([i \in DOMAIN text |->
    IF crlf /\ text[i] = "nl" THEN <<"cr", "nl">> ELSE <<text[i]>>])

-----------------------------------------------------------------------------
(* Where an old text is found.                                             *)

Occurrences(content, old) ==
  {i \in 1..(Len(content) - Len(old) + 1) : SubSeq(content, i, i + Len(old) - 1) = old}

\* _find_text_starts: the search goes on behind each occurrence it finds.
FindTextStarts(content, old) ==
  LET found[i \in 0..Len(content)] ==
        IF i = 0 THEN <<>>
        ELSE IF i \in Occurrences(content, old)
                  /\ (found[i - 1] # <<>> => i >= Last(found[i - 1]) + Len(old))
             THEN Append(found[i - 1], i) ELSE found[i - 1]
  IN  found[Len(content)]

ExactSpans(content, old) ==
  [k \in DOMAIN FindTextStarts(content, old) |->
     [first |-> FindTextStarts(content, old)[k],
      next |-> FindTextStarts(content, old)[k] + Len(old)]]

\* _terminated_lines and _line_start_offsets
LineStarts(text) ==
  InOrder({i \in DOMAIN text : i = 1 \/ text[i - 1] = "nl"}, Len(text))

TerminatedLines(text) ==
  LET starts == LineStarts(text)
  IN  [k \in DOMAIN starts |->
         SubSeq(text, starts[k], IF k < Len(starts) THEN starts[k + 1] - 1 ELSE Len(text))]

\* _normalize_for_fuzzy_match, for one line
NormalizeForFuzzyMatch(line) ==
  LET mapped == [i \in DOMAIN line |-> IF line[i] = "curly" THEN "plain" ELSE line[i]]
      body == IF Ends(mapped, "nl") THEN Front(mapped) ELSE mapped
      length == CHOOSE n \in 0..Len(body) :
                  /\ n = 0 \/ body[n] # "sp"
                  /\ \A i \in (n + 1)..Len(body) : body[i] = "sp"
  IN  SubSeq(body, 1, length) \o (IF Ends(mapped, "nl") THEN <<"nl">> ELSE <<>>)

NormalizedLines(text) ==
  LET lines == TerminatedLines(text)
  IN  [k \in DOMAIN lines |-> NormalizeForFuzzyMatch(lines[k])]

\* _last_window_line_matches
LastLineMatches(line, old) ==
  line = old \/ (~Ends(old, "nl") /\ line = Append(old, "nl"))

\* _window_matches_at
WindowMatchesAt(lines, window, k) ==
  /\ \A j \in 1..(Len(window) - 1) : lines[k + j - 1] = window[j]
  /\ LastLineMatches(lines[k + Len(window) - 1], Last(window))

\* _find_window_starts
FindWindowStarts(lines, window) ==
  InOrder({k \in 1..(Len(lines) - Len(window) + 1) : WindowMatchesAt(lines, window, k)},
          Len(lines))

\* _window_char_span: a newline that the old text does not claim stays outside.
WindowCharSpan(content, window, k) ==
  LET last == k + Len(window) - 1
      line == TerminatedLines(content)[last]
      unclaimed == ~Ends(Last(window), "nl") /\ Ends(line, "nl")
  IN  [first |-> LineStarts(content)[k],
       next |-> LineStarts(content)[last] + Len(line) - (IF unclaimed THEN 1 ELSE 0)]

FuzzySpans(content, old) ==
  LET window == NormalizedLines(old)
      starts == FindWindowStarts(NormalizedLines(content), window)
  IN  [n \in DOMAIN starts |-> WindowCharSpan(content, window, starts[n])]

-----------------------------------------------------------------------------
(* One span for every edit, or the error that is raised.                   *)

Precedes(spans, i, j) ==
  spans[i].first < spans[j].first \/ (spans[i].first = spans[j].first /\ i < j)

\* Mutant: only spans that begin together are seen to overlap.
OverlapByStart(spans) ==
  \E i, j \in DOMAIN spans : i # j /\ spans[i].first = spans[j].first

\* _validate_non_overlapping compares neighbours; neighbours in order are all
\* in order.
Overlap(spans) ==
  \E i, j \in DOMAIN spans : Precedes(spans, i, j) /\ spans[i].next > spans[j].first

\* _match_exact_spans or _match_fuzzy_spans, found[i] being where edit i was
\* found: the first edit that was not found once decides.
Match(found) ==
  LET bad == {i \in DOMAIN found : Len(found[i]) # 1}
      first == CHOOSE i \in bad : \A j \in bad : i <= j
      spans == [i \in DOMAIN found |-> found[i][1]]
  IN  IF bad # {}
        THEN [error |-> IF found[first] = <<>> THEN "not_found" ELSE "duplicate",
              spans |-> <<>>]
      ELSE IF Overlap(spans) THEN [error |-> "overlap", spans |-> <<>>]
      ELSE [error |-> "none", spans |-> spans]

MatchExact(content, edits) ==
  Match([i \in DOMAIN edits |-> ExactSpans(content, NormalizeToLf(edits[i].old))])

MatchFuzzy(content, edits) ==
  Match([i \in DOMAIN edits |-> FuzzySpans(content, NormalizeToLf(edits[i].old))])

\* _apply_replacements_with_fallback, up to the splice
MatchWithFallback(content, edits) ==
  IF \E i \in DOMAIN edits : edits[i].old = <<>>
    THEN [error |-> "empty", spans |-> <<>>]
  ELSE LET exact == MatchExact(content, edits)
       IN  IF exact.error = "not_found" THEN MatchFuzzy(content, edits) ELSE exact

ReplaceSpan(text, span, new) ==
  SubSeq(text, 1, span.first - 1) \o new \o SubSeq(text, span.next, Len(text))

\* The text after the first n spans of an order.
SplicedInOrder(content, spans, edits, order) ==
  LET spliced[n \in 0..Len(order)] ==
        IF n = 0 THEN content
        ELSE ReplaceSpan(spliced[n - 1], spans[order[n]], NormalizeToLf(edits[order[n]].new))
  IN  spliced[Len(order)]

\* Mutant: the spans in the order of the edits, with their original offsets.
SpliceInEditOrder(content, spans, edits) ==
  SplicedInOrder(content, spans, edits, InOrder(DOMAIN spans, Len(spans)))

\* By descending start, a stable sort.
SplicedBefore(spans, i, j) ==
  spans[i].first > spans[j].first \/ (spans[i].first = spans[j].first /\ i < j)

SpliceOrder(spans) ==
  [k \in DOMAIN spans |->
     CHOOSE i \in DOMAIN spans :
       Cardinality({j \in DOMAIN spans : SplicedBefore(spans, j, i)}) = k - 1]

\* _splice_text_spans
SpliceTextSpans(content, spans, edits) ==
  SplicedInOrder(content, spans, edits, SpliceOrder(spans))

\* _edit_file: the file afterwards, unchanged when an error is raised.
EditFile(file, edits) ==
  LET content == NormalizeToLf(file.text)
      match == MatchWithFallback(content, edits)
      new == SpliceTextSpans(content, match.spans, edits)
  IN  IF match.error # "none" THEN [error |-> match.error, file |-> file]
      ELSE IF new = content THEN [error |-> "no_change", file |-> file]
      ELSE [error |-> "none",
            file |-> [file EXCEPT !.text = RestoreLineEndings(new, UsesCrlf(@))]]

-----------------------------------------------------------------------------
\* The content with every span replaced at once: what precedes a position, then
\* the character there unless a span covers it.
ReplacedAtOnce(content, spans, edits) ==
  LET Inserted(p) ==
        FlattenSeq([i \in DOMAIN spans |->
          IF spans[i].first = p THEN NormalizeToLf(edits[i].new) ELSE <<>>])
      Uncovered(p) == p <= Len(content)
                        /\ \A i \in DOMAIN spans : p < spans[i].first \/ p >= spans[i].next
  IN  FlattenSeq([p \in 1..(Len(content) + 1) |->
        Inserted(p) \o (IF Uncovered(p) THEN <<content[p]>> ELSE <<>>)])

\* Each position where the replacements begin is one edit's.
BeginApart(spans) ==
  \A i, j \in DOMAIN spans : i # j => spans[i].first # spans[j].first

\* The file's newlines are all "\n" or all "\r\n".
UniformEndings(text) ==
  text = RestoreLineEndings(NormalizeToLf(text), UsesCrlf(text))

\* An accepted call is the simultaneous replacement of what it matched in the
\* original content, wherever the places lie, and leaves the rest of a file
\* with uniform line endings as it was, byte order mark and endings included.
AcceptedEditReplacesAtOnce(file, edits) ==
  LET content == NormalizeToLf(file.text)
      spans == MatchWithFallback(content, edits).spans
      result == EditFile(file, edits)
  IN  result.error = "none" /\ BeginApart(spans) =>
        /\ result.file.bom = file.bom
        /\ NormalizeToLf(result.file.text) = ReplacedAtOnce(content, spans, edits)
        /\ UniformEndings(file.text) /\ "nl" \in Range(file.text) =>
             /\ UniformEndings(result.file.text)
             /\ "nl" \in Range(result.file.text) =>
                  UsesCrlf(result.file.text) = UsesCrlf(file.text)

\* A request whose old texts each occur once, apart from one another, is never
\* refused nor matched loosely, and one that is carried out replaced the only
\* place of each old text, or (without the fallback) the first of several that
\* overlap one another: those count as one.
OldTextsDecide(file, edits) ==
  LET content == NormalizeToLf(file.text)
      Old(i) == NormalizeToLf(edits[i].old)
      At(i) == Occurrences(content, Old(i))
      Nearest(i) == CHOOSE p \in At(i) : \A q \in At(i) : p <= q
      error == EditFile(file, edits).error
      spans == MatchWithFallback(content, edits).spans
      once == \A i \in DOMAIN edits : edits[i].old # <<>> /\ At(i) # {}
                /\ \A p \in At(i) : p < Nearest(i) + Len(Old(i))
      apart == \A i, j \in DOMAIN edits : i # j =>
                 Nearest(i) + Len(Old(i)) <= Nearest(j) \/ Nearest(j) + Len(Old(j)) <= Nearest(i)
  IN  /\ once /\ apart =>
           /\ error \in {"none", "no_change"}
           /\ spans = [i \in DOMAIN edits |->
                         [first |-> Nearest(i), next |-> Nearest(i) + Len(Old(i))]]
      /\ error \in {"none", "no_change"} /\ ~once =>
           \E i \in DOMAIN edits : At(i) = {}

\* The same of every accepted call, also when two replacements begin together and
\* either may come first: a blank line that is matched after normalisation is a
\* span without characters, and what follows it may be another edit's.
AllReplacementsSurvive(file, edits) ==
  LET content == NormalizeToLf(file.text)
      spans == MatchWithFallback(content, edits).spans
      result == EditFile(file, edits)
  IN  result.error = "none" =>
        \E order \in SetToSeqs(DOMAIN edits) :
          NormalizeToLf(result.file.text)
            = ReplacedAtOnce(content, [k \in DOMAIN order |-> spans[order[k]]],
                             [k \in DOMAIN order |-> edits[order[k]]])
=============================================================================
