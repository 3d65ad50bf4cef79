SPECIFICATION Spec
CONSTANTS
    Conns = {c1, c2}
    Sessions = {s1, s2}
    Runs = {r1, r2}
    Items = {"user", "turn"}
    Deltas <- MCDeltas
    Outcomes = {"completed", "aborted"}
    Aborted = "aborted"
    Times = {1}
    NULL = NULL
SYMMETRY Symmetry
INVARIANTS
    PositionsDense
    IndexesStayIdle
PROPERTIES
    StartSnapshotIsAtomic
    StoreSpec
CHECK_DEADLOCK FALSE
