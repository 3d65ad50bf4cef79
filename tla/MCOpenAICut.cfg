SPECIFICATION Spec
CONSTANTS
    Fragments = {x, y}
    MaxItems = 2
    MaxParts = 1
INVARIANT
    CutTurnRunsNoTools
CHECK_DEADLOCK FALSE
