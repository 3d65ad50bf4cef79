SPECIFICATION FairLogSpec
CONSTANTS
    Consumers = {c1, c2, c3}
    MaxEvents = 4
INVARIANTS
    NoLostWakeup
    EndedStreamIsWhole
PROPERTY StreamEnds
CHECK_DEADLOCK FALSE
