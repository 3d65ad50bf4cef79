\* Up to 8 units written fill both pipes (2) and reach the caps (3 and 2).
\* CHECK_DEADLOCK is off: a call returns once, and an aborted one may leave a
\* process behind that is blocked on the pipe nobody reads.
SPECIFICATION Spec
CONSTANTS
  OutCap = 3
  ErrCap = 2
  PipeCap = 2
  BufferCap = 2
  ChunkSize = 2
  MaxUnits = 8
INVARIANTS
  ReturnedOutputIsHonest
  ErrorCarriesStderr
PROPERTY
  CallReturns
CHECK_DEADLOCK FALSE
