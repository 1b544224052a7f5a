SPECIFICATION Spec
CONSTANTS
    Thread = {t1, t2}
    Frame = {f1, f2}
    Req = {r1, r2, r3}
    NumPages = 2
    FilePages = 2
    BlockPages = 1
    MaxSpan = 1
    MaxPending = 2
    MaxGoal = 1
    MaxUnderlying = 4
    Ops = {"read", "write"}
    LargeWrite = FALSE
    Voter = FALSE
    None = None
SYMMETRY Symmetry
CHECK_DEADLOCK FALSE
INVARIANTS TypeOK NoStrandedRequest WriteBackCarriesItsPage NoLostWrite
