SPECIFICATION FairSpec
CONSTANTS
    Thread = {t1, t2}
    Frame = {f1}
    Req = {r1, r2}
    NumPages = 2
    FilePages = 2
    BlockPages = 2
    MaxSpan = 2
    MaxPending = 1
    MaxGoal = 1
    MaxUnderlying = 4
    Ops = {"write"}
    LargeWrite = FALSE
    Voter = FALSE
    None = None
CHECK_DEADLOCK FALSE
PROPERTIES AllRequestsComplete
