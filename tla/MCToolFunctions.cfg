\* Files of up to 3 lines and paths of up to 2 bytes against a byte limit of 3:
\* either limit is met first, both are met together, a line is too large, the
\* capture reaches its cap within the output of fd and of rg, before and behind
\* a match, and two cut long matches do not fit.  Two tools make every pair of
\* names that collides or does not.  Texts of up to 4 characters are edited at
\* one or two places.  A box of 4 by 3 is left by either side, or both, and a
\* pixel is reached in three turns.  8 bytes of output pass a rolling buffer of
\* 6.  Three calls on one file by two sessions, on two workers, in texts of up
\* to 2 pieces: a read that meets a write between its pieces, two writes that
\* mix, a cut off write that an edit builds on.
SPECIFICATION Spec
SYMMETRY Symmetry
CONSTANTS
  MaxBytes = 3
  FileLines = 3
  LineBytes = 4
  MaxPaths = 5
  PathBytes = 2
  OutCap = 7
  MaxEvents = 3
  EventBytes = {1, 4}
  LineLimit = 1
  Bases = {"read", "complete", "fail"}
  Cases = {"lower", "upper"}
  MaxTools = 2
  EditedText = 4
  MaxWidth = 4
  MaxHeight = 3
  MaxBase64Bytes = 2
  MaxSide = 9
  MaxSize = 3
  MaxLines = 2
  MaxRaw = 8
  ChunkSize = 2
  Edits = {e1, e2}
  Writes = {w1}
  Sessions = {s1, s2}
  Workers = 2
  MaxPieces = 2
  None = None
INVARIANTS
  NoticesLeadThroughTheFile
  SearchesReportOmissions
  RegistryIsSound
  EditsReplaceWhatTheyMatch
  ImagesFitOrFail
  OutputEndIsShown
  OnlyOverlapsLoseEdits
CHECK_DEADLOCK FALSE
