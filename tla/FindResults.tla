----------------------------- MODULE FindResults -----------------------------
(***************************************************************************)
(* The find tool (tile/tools/find.py): fd is asked for one path more than  *)
(* the limit, its output is captured up to a cap (CappedExecute), and one  *)
(* head truncation decides both what is shown and what the notice says.    *)
(* A path is the sequence of its bytes after normalisation and contains no *)
(* line separator.  The ls tool (tile/tools/ls.py) truncates in the same   *)
(* way the sorted entries of a directory, all of which it has.             *)
(***************************************************************************)
EXTENDS Capture

CONSTANT PathBytes   \* bound: bytes of a path

\* 16 MB of stdout against 50 KB of result and 4 KB of path.
ASSUME FindAssumption ==
  PathBytes \in Nat /\ OutCap > MaxBytes + PathBytes + 1

\* Mutant: exactly as many results as are shown.
PrintedExactly(paths, limit) == FirstLines(paths, limit)

\* --max-results limit + 1
Printed(paths, limit) == FirstLines(paths, limit + 1)

\* _build_result
Found(output, limit) ==
  IF output = <<>> THEN [lines |-> <<>>, by |-> "none", edge |-> FALSE]
  ELSE TruncateText(output, "head", limit)

\* fn, for paths that match in the order fd prints them
FindPaths(paths, limit) ==
  {Found(output, EffectiveLimit(limit)) :
     output \in Captured(Printed(paths, EffectiveLimit(limit)))}

\* ls: fn, _build_result
ListEntries(entries, limit) == Found(entries, EffectiveLimit(limit))

-----------------------------------------------------------------------------
\* The tool never passes a part for the whole: what it shows is the first
\* matching paths, and a notice stands exactly when there are more, although
\* fd stops early and the capture at its cap reports nothing itself.
MissingPathsAreReported(paths, limit) ==
  \A result \in FindPaths(paths, limit) :
    /\ IsPrefix(result.lines, paths)
    /\ (result.by # "none") = (result.lines # paths)

\* "limit results limit reached" stands only when exactly that many are shown
\* and another one exists, so that the larger limit it proposes shows more.
LimitNoticeIsExact(paths, limit) ==
  \A result \in FindPaths(paths, limit) :
    result.by = "lines" =>
      Len(result.lines) = EffectiveLimit(limit) /\ Len(paths) > EffectiveLimit(limit)

\* The same holds of a directory: ls shows its first entries, says so when there
\* are more, and the limit that it proposes, twice this one, shows more of them
\* or meets the byte limit.
MissingEntriesAreReported(entries, limit) ==
  LET result == ListEntries(entries, limit)
      next == ListEntries(entries, 2 * EffectiveLimit(limit))
  IN  /\ IsPrefix(result.lines, entries)
      /\ (result.by # "none") = (result.lines # entries)
      /\ result.by = "lines" =>
           Len(next.lines) > Len(result.lines) \/ next.by = "bytes"
=============================================================================
