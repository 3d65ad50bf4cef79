SPECIFICATION Spec
CONSTANTS
    Fragments = {x, y}
    MaxItems = 3
    MaxParts = 2
INVARIANTS
    TerminalBlocksAreTheItems
    EventsFollowBlocks
    ReplayKeepsTheItems
CHECK_DEADLOCK FALSE
