SPECIFICATION Spec
CONSTANTS
  MaxChunks = 2
  MaxAborts = 2
INVARIANTS
  ReportedOutputIsWhole
  NoSignalAfterReaping
PROPERTY
  OnlyAnOpenPipeWedges
CHECK_DEADLOCK FALSE
