------------------------------ MODULE Truncation ------------------------------
(***************************************************************************)
(* tile/tools/support/truncation.py: keeping one edge of a text within a   *)
(* line and a byte limit.  A text is the sequence of its lines, that is    *)
(* text.split("\n"), and a line the sequence of its bytes; the lines of a  *)
(* text determine it, so "\n".join is not needed.                          *)
(***************************************************************************)
EXTENDS Integers, Sequences, SequencesExt

CONSTANT MaxBytes   \* OUTPUT_BYTE_LIMIT

ASSUME LimitAssumption == MaxBytes \in Nat

\* max(1, params.limit), the limit find, grep and read work with.
EffectiveLimit(limit) == IF limit < 1 THEN 1 ELSE limit

\* For every n, the bytes of the first n lines and of the separators between them.
BytesOfFirst(lines) ==
  LET bytes[n \in 0..Len(lines)] ==
        IF n = 0 THEN 0
        ELSE bytes[n - 1] + (IF n = 1 THEN 0 ELSE 1) + Len(lines[n])
  IN  bytes

\* len(text.encode("utf-8"))
ByteCount(lines) == BytesOfFirst(lines)[Len(lines)]

FitsLimits(lines, maxLines) ==
  Len(lines) <= maxLines /\ ByteCount(lines) <= MaxBytes

\* The lines in the order the selection looks at them.
FromEdge(lines, keep) == IF keep = "head" THEN lines ELSE Reverse(lines)

EdgeLineExceedsLimit(lines, keep) ==
  Len(FromEdge(lines, keep)[1]) > MaxBytes

\* One turn of the loop of _select_output_lines; it breaks when it has stopped.
SelectLine(maxLines, sel, line) ==
  LET bytes == sel.bytes + (IF sel.kept = <<>> THEN 0 ELSE 1) + Len(line)
      full == sel.stopped \/ Len(sel.kept) >= maxLines
      over == ~full /\ bytes > MaxBytes
      taken == ~full /\ ~over
  IN  [kept |-> IF taken THEN Append(sel.kept, line) ELSE sel.kept,
       bytes |-> IF taken THEN bytes ELSE sel.bytes,
       by |-> IF over THEN "bytes" ELSE sel.by,
       stopped |-> full \/ over]

\* The state of the loop after every number of turns.
Selections(lines, maxLines) ==
  LET sel[n \in 0..Len(lines)] ==
        IF n = 0 THEN [kept |-> <<>>, bytes |-> 0, by |-> "lines", stopped |-> FALSE]
        ELSE SelectLine(maxLines, sel[n - 1], lines[n])
  IN  sel

SelectOutputLines(lines, keep, maxLines) ==
  LET sel == Selections(FromEdge(lines, keep), maxLines)[Len(lines)]
  IN  [kept |-> FromEdge(sel.kept, keep), by |-> sel.by]

\* truncate_text: the lines kept, why the others were dropped, and whether the
\* edge line alone is over the byte limit.
TruncateText(lines, keep, maxLines) ==
  IF FitsLimits(lines, maxLines)
    THEN [lines |-> lines, by |-> "none", edge |-> FALSE]
  ELSE IF EdgeLineExceedsLimit(lines, keep)
    THEN [lines |-> <<>>, by |-> "bytes", edge |-> TRUE]
  ELSE LET sel == SelectOutputLines(lines, keep, maxLines)
       IN  [lines |-> sel.kept, by |-> sel.by, edge |-> FALSE]
=============================================================================
