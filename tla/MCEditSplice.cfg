\* Only the edit tool matters: texts of two characters, all else at its least.
SPECIFICATION Spec
CONSTANTS
  MaxBytes = 3
  FileLines = 1
  LineBytes = 1
  MaxPaths = 1
  PathBytes = 2
  OutCap = 7
  MaxEvents = 0
  EventBytes = {1}
  LineLimit = 1
  Bases = {"read", "complete", "fail"}
  Cases = {"lower", "upper"}
  MaxTools = 0
  EditedText = 2
  MaxWidth = 4
  MaxHeight = 3
  MaxBase64Bytes = 2
  MaxSide = 1
  MaxSize = 3
  MaxLines = 2
  MaxRaw = 1
  ChunkSize = 1
  Edits = {e1}
  Writes = {w1}
  Sessions = {s1, s2}
  Workers = 2
  MaxPieces = 1
  None = None
INVARIANT
  SplicedOffsetsStayStable
CHECK_DEADLOCK FALSE
