\* Two runs of two processes over two sessions: a run ended from outside while
\* its task goes on, a fork between two runs, a crash with a run on either side.
\* One kind of item is enough: rows differ by their run and their number.
\* CHECK_DEADLOCK is off: both runs may be over and both sessions exist.
SPECIFICATION FairSpec
CONSTANTS
    Sessions = {s1, s2}
    Runs = {r1, r2}
    Items = {"item"}
    Prompt = "item"
    Unanswered = "item"
    Deltas <- MCDeltas
    Outcomes = {"completed", "aborted"}
    Aborted = "aborted"
    Faulted = "faulted"
    Procs = {p1, p2}
    Times = {1}
    MaxDelta = 2
    MaxHealed = 1
    NULL = NULL
INVARIANTS
    OneActiveRun
    SnapshotIsCurrent
    ResultIsDurable
    UncommittedRunsHaveNoRows
    CommittedDeltaIsWhole
PROPERTIES
    EndedRunIsFenced
    CommitExtendsSnapshot
    OrphanEndsByAbort
    AbortReturns
CHECK_DEADLOCK FALSE
