SPECIFICATION Spec
CONSTANTS
    Thread = {t1}
    Frame = {f1, f2}
    Req = {r1, r2, r3, r4}
    NumPages = 3
    FilePages = 3
    BlockPages = 1
    MaxSpan = 1
    MaxPending = 2
    MaxGoal = 1
    MaxUnderlying = 4
    Ops = {"write"}
    LargeWrite = FALSE
    Voter = TRUE
    None = None
SYMMETRY Symmetry
CHECK_DEADLOCK FALSE
INVARIANTS ReadKeepsDirtyData
