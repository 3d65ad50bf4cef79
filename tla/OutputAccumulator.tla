-------------------------- MODULE OutputAccumulator --------------------------
(***************************************************************************)
(* tile/tools/support/output_accumulator.py: the bash tool feeds it the    *)
(* output of a command in chunks the pipe cuts anywhere, also inside a     *)
(* character; it keeps a bounded tail of the decoded text and, from that   *)
(* tail alone, reports the end of the whole output with its line numbers.  *)
(*                                                                         *)
(* Bytes come in four kinds: "nl", "a" (one-byte character), "lead" and    *)
(* "cont" (the two bytes of a wider character).  `stream` is not in the    *)
(* code: it is the whole decoded text, which the code forgets.             *)
(***************************************************************************)
EXTENDS Truncation, FiniteSets

CONSTANTS
  MaxLines,    \* max_lines
  MaxRaw,      \* bound: bytes the command prints
  ChunkSize    \* bound: bytes of one chunk

\* The rolling buffer must hold MaxBytes after losing a cut character.
ASSUME OutputAssumption ==
  MaxLines \in Nat \ {0} /\ MaxBytes > 2 /\ ChunkSize \in Nat /\ MaxRaw \in Nat

VARIABLES
  raw,          \* bytes received so far
  pending,      \* the decoder's buffer: <<>> or <<"lead">>
  tail,         \* _tail_buffer
  atBoundary,   \* _tail_starts_at_line_boundary
  totalBytes,   \* _total_bytes
  totalLines,   \* _total_lines
  finished,     \* _finished
  stream        \* history: all the decoded text

Bytes == {"nl", "a", "lead", "cont"}
Chunks == UNION {[1..n -> Bytes] : n \in 1..ChunkSize}

\* Mutant: a rolling buffer of just the limit.
MaxRollingHalved == MaxBytes

\* _max_rolling_bytes
MaxRollingBytes == 2 * MaxBytes

\* The lines of the bytes so far, and one byte more.
SplitByte(lines, b) ==
  IF b = "nl" THEN Append(lines, <<>>) ELSE Append(Front(lines), Append(Last(lines), b))

\* For every n, the lines of the first n bytes of a text.
LinesOfFirst(text) ==
  LET lines[n \in 0..Len(text)] ==
        IF n = 0 THEN <<(<<>>)>> ELSE SplitByte(lines[n - 1], text[n])
  IN  lines

\* text.split("\n")
SplitLines(text) == LinesOfFirst(text)[Len(text)]

\* text.count("\n")
Newlines(text) == Cardinality({i \in DOMAIN text : text[i] = "nl"})

-----------------------------------------------------------------------------
(* The incremental UTF-8 decoder with errors="replace".                    *)

\* U+FFFD, three bytes when encoded again.
Replacement == <<"lead", "cont", "cont">>

DecodeByte(d, b) ==
  LET broken == IF d.pending = <<>> THEN <<>> ELSE Replacement
  IN  CASE b = "cont" /\ d.pending # <<>> ->
             [text |-> d.text \o d.pending \o <<b>>, pending |-> <<>>]
        [] b = "cont" /\ d.pending = <<>> ->
             [text |-> d.text \o Replacement, pending |-> <<>>]
        [] b = "lead" -> [text |-> d.text \o broken, pending |-> <<b>>]
        [] OTHER -> [text |-> d.text \o broken \o <<b>>, pending |-> <<>>]

\* For every n, the decoder after the first n bytes of a chunk.
Decodings(chunk) ==
  LET d[n \in 0..Len(chunk)] ==
        IF n = 0 THEN [text |-> <<>>, pending |-> pending] ELSE DecodeByte(d[n - 1], chunk[n])
  IN  d

Decode(chunk) == Decodings(chunk)[Len(chunk)]

\* decode(b"", final=True): a character cut short is replaced.
FlushedText == IF pending = <<>> THEN <<>> ELSE Replacement

-----------------------------------------------------------------------------
(* The rolling tail.                                                       *)

\* _trim_start and _utf8_boundary_at_or_after, as a number of bytes to drop.
TrimStart(content, maxBytes) ==
  IF Len(content) <= maxBytes THEN 0
  ELSE CHOOSE start \in (Len(content) - maxBytes)..Len(content) :
         /\ start = Len(content) \/ content[start + 1] # "cont"
         /\ \A i \in (Len(content) - maxBytes)..(start - 1) : content[i + 1] = "cont"

\* _starts_at_line_boundary
StartsAtLineBoundary(content, start, previous) ==
  IF start = 0 THEN previous ELSE content[start] = "nl"

\* _append_decoded_text; an empty text changes nothing.
AppendDecodedText(text) ==
  LET content == tail \o text
      start == TrimStart(content, MaxRollingBytes)
  IN  /\ tail' = SubSeq(content, start + 1, Len(content))
      /\ atBoundary' = IF text = <<>> THEN atBoundary
                       ELSE StartsAtLineBoundary(content, start, atBoundary)
      /\ totalBytes' = totalBytes + Len(text)
      /\ totalLines' = IF text = <<>> THEN totalLines
                       ELSE (IF totalLines = 0 THEN 1 ELSE totalLines) + Newlines(text)
      /\ stream' = stream \o text

-----------------------------------------------------------------------------
AccInit ==
  /\ raw = 0 /\ pending = <<>> /\ tail = <<>> /\ atBoundary = TRUE
  /\ totalBytes = 0 /\ totalLines = 0 /\ finished = FALSE /\ stream = <<>>

\* accumulate(chunk); after finish it raises and changes nothing.
Accumulate ==
  /\ ~finished
  /\ \E chunk \in Chunks :
       /\ raw + Len(chunk) <= MaxRaw
       /\ raw' = raw + Len(chunk)
       /\ pending' = Decode(chunk).pending
       /\ AppendDecodedText(Decode(chunk).text)
  /\ UNCHANGED finished

\* finish() the first time; a second call only takes another snapshot.
Finish ==
  /\ ~finished
  /\ finished' = TRUE /\ pending' = <<>>
  /\ AppendDecodedText(FlushedText)
  /\ UNCHANGED raw

AccNext == Accumulate \/ Finish

-----------------------------------------------------------------------------
(* snapshot().                                                             *)

\* _snapshot_text: the tail, without a first line that is cut.
SnapshotLines ==
  LET lines == SplitLines(tail)
  IN  IF atBoundary \/ Len(lines) = 1 THEN lines ELSE Tail(lines)

\* Mutant: only the retained tail is asked whether anything was dropped.
TruncatedByTail(truncation) == truncation.by

\* _truncated_by
TruncatedBy(truncation) ==
  IF truncation.by # "none" THEN truncation.by
  ELSE IF totalLines > MaxLines THEN "lines"
  ELSE IF totalBytes > MaxBytes THEN "bytes"
  ELSE "none"

\* snapshot and _with_total_metadata
Snapshot ==
  LET truncation == TruncateText(SnapshotLines, "tail", MaxLines)
  IN  [truncation EXCEPT !.by = TruncatedBy(truncation)]

-----------------------------------------------------------------------------
(* Properties.                                                             *)

\* However the output was cut into chunks and whatever the rolling buffer has
\* dropped, the snapshot shows what truncating the whole output would show:
\* the longest run of complete last lines within both limits.
SnapshotIsTailOfOutput ==
  LET all == SplitLines(stream)
      fits == {k \in 0..Len(all) :
                 FitsLimits(SubSeq(all, Len(all) - k + 1, Len(all)), MaxLines)}
      best == CHOOSE k \in fits : \A j \in fits : j <= k
  IN  Snapshot.lines = SubSeq(all, Len(all) - best + 1, Len(all))

\* The snapshot says "truncated" exactly when it does not show the whole
\* output, also when what was lost had left the rolling buffer long ago, and
\* the line numbers of bash's notice, total_lines - output_lines + 1 to
\* total_lines (bash.py:207-208), are those of the lines it shows.
TruncationIsReported ==
  LET all == SplitLines(stream)
  IN  /\ (Snapshot.by # "none") = (Snapshot.lines # all)
      /\ Snapshot.by # "none" =>
           Snapshot.lines = SubSeq(all, totalLines - Len(Snapshot.lines) + 1, totalLines)
=============================================================================
