SPECIFICATION Spec
CONSTANTS
    Thread = {t1, t2}
    Frame = {f1}
    Req = {r1, r2}
    NumPages = 2
    FilePages = 2
    BlockPages = 2
    MaxSpan = 2
    MaxPending = 2
    MaxGoal = 1
    MaxUnderlying = 4
    Ops = {"write", "compute"}
    LargeWrite = FALSE
    Voter = FALSE
    None = None
SYMMETRY Symmetry
CHECK_DEADLOCK FALSE
PROPERTIES ImplementsPageProtocol
