SPECIFICATION Spec
CONSTANTS
  Openers = {p1, p2, p3}
  NULL = NULL
INVARIANTS
  NoPartialSchema
  IncompatibleFileIsUntouched
  OpenedStoreIsComplete
