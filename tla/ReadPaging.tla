------------------------------ MODULE ReadPaging ------------------------------
(***************************************************************************)
(* The read tool's text path (tile/tools/read.py), a function of the file, *)
(* an offset and a limit, and a model that follows its notices: it calls   *)
(* the tool with the offset the notice of the last page names, until a     *)
(* page has no notice.  The notice for a line over the byte limit names no *)
(* offset: it gives a shell command that prints the line's first bytes,    *)
(* and there the reading stops.  A file is content.split("\n"), the        *)
(* sequence of its lines in UTF-8; it does not change meanwhile.           *)
(***************************************************************************)
EXTENDS Truncation

\* _start_index, and the selected content
StartIndex(offset) == IF offset <= 1 THEN 0 ELSE offset - 1
Selection(file, offset) == SubSeq(file, StartIndex(offset) + 1, Len(file))

\* _select_content raises ToolError.
BeyondEnd(file, offset) == StartIndex(offset) >= Len(file)

\* _build_result
Page(file, offset, limit) ==
  TruncateText(Selection(file, offset), "head", EffectiveLimit(limit))

\* Mutant: continuing at the last line shown instead of behind it.
NextOffsetRepeating(offset, page) == StartIndex(offset) + Len(page.lines)

\* _format_truncated_selection: end_line + 1
NextOffset(offset, page) == StartIndex(offset) + 1 + Len(page.lines)

\* What the command of _format_first_line_too_large prints of the line:
\* sed -n '<line>p' <path> | head -c <OUTPUT_BYTE_LIMIT>
HeadOfLine(line) == SubSeq(line, 1, MaxBytes)

\* One call of a model that has read r.shown so far and now asks for r.offset.
\* r.end says why it reads no further: it has the end of the file, it met a
\* line over the limit, or the tool refused an offset beyond the end.
Read(file, r, limit) ==
  LET page == Page(file, r.offset, limit)
      wide == file[StartIndex(r.offset) + 1]
  IN  IF r.end # "none" THEN r
      ELSE IF BeyondEnd(file, r.offset)
        THEN [offset |-> r.offset, shown |-> r.shown, end |-> "beyond"]
      ELSE IF page.edge
        THEN [offset |-> r.offset, shown |-> Append(r.shown, HeadOfLine(wide)),
              end |-> "line"]
      ELSE [offset |-> NextOffset(r.offset, page), shown |-> r.shown \o page.lines,
            end |-> IF page.by = "none" THEN "file" ELSE "none"]

\* What a model has read after every number of calls, with the limits it passes.
Readings(file, first, limits) ==
  LET reading[n \in 0..Len(limits)] ==
        IF n = 0 THEN [offset |-> first, shown |-> <<>>, end |-> "none"]
        ELSE Read(file, reading[n - 1], limits[n])
  IN  reading

ReadAll(file, first, limits) == Readings(file, first, limits)[Len(limits)]

-----------------------------------------------------------------------------
\* The lines of a text that are over the byte limit.
WideLines(lines) == {i \in DOMAIN lines : Len(lines[i]) > MaxBytes}

\* Where the notices lead: to the end of the text, or to its first line over the
\* limit and no further than that line's first bytes.
NoticesLeadTo(lines) ==
  LET wide == CHOOSE i \in WideLines(lines) : \A j \in WideLines(lines) : i <= j
  IN  IF WideLines(lines) = {} THEN lines
      ELSE Append(SubSeq(lines, 1, wide - 1), HeadOfLine(lines[wide]))

\* Following the notices shows every line from the first offset once and in
\* order, whatever limits the calls use, to the end of the file or to the first
\* line over the byte limit, of which it shows the first bytes; what is behind
\* that line is reached only by an offset the model thinks of itself, and then
\* the same holds from there.  The model is told that it has everything exactly
\* when no line is over the limit, no notice leads beyond the end, and every
\* call shows a line, so that as many calls as there are lines are enough.
\* Only a first offset of the model's own choosing is ever refused.
PagesAreTheFile(file, first, limits) ==
  LET last == ReadAll(file, first, limits)
      all == Selection(file, first)
  IN  IF BeyondEnd(file, first)
        THEN (last.end = "beyond") = (limits # <<>>) /\ last.shown = <<>>
        ELSE /\ IsPrefix(last.shown, NoticesLeadTo(all))
             /\ last.end # "beyond"
             /\ last.end # "none" =>
                  /\ last.shown = NoticesLeadTo(all)
                  /\ (last.end = "file") = (WideLines(all) = {})
             /\ Len(limits) >= Len(file) => last.end # "none"
=============================================================================
