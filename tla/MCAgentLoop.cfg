SPECIFICATION Spec
CONSTANTS
    CallIds = {a, b, c}
    MaxCalls = 2
    MaxTurns = 3
    MaxFollowUps = 1
SYMMETRY Symmetry
INVARIANTS
    HistoriesAgree
    SettledDeltaReplays
    EventsNest
    GivesUpAfterLastAttempt
    CompletedIsWhole
CHECK_DEADLOCK FALSE
