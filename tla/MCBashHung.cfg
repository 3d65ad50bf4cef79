SPECIFICATION Spec
CONSTANTS
  MaxChunks = 1
  MaxAborts = 0
PROPERTIES
  HungCommandCannotWedge
CHECK_DEADLOCK FALSE
