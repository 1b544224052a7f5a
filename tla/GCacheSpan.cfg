SPECIFICATION Spec
CONSTANTS
    Thread = {t1, t2}
    Frame = {f1, f2}
    Req = {r1, r2}
    NumPages = 3
    FilePages = 4
    BlockPages = 2
    MaxSpan = 2
    MaxPending = 1
    MaxGoal = 1
    MaxUnderlying = 4
    Ops = {"write", "compute"}
    LargeWrite = TRUE
    Voter = FALSE
    None = None
SYMMETRY Symmetry
CHECK_DEADLOCK FALSE
INVARIANTS RefAccounting PendingMeansOneIO AssertionsHold
PROPERTIES CompletedOnce
