SPECIFICATION Spec
CONSTANTS
    NumLocal <- MCNumLocal
    RangeSize = 2
    NumParts = 4
    Word = 256
    MaxVertices = 20
    NumBitsLong = 2
    MaxActiveV = 2
    VertexBufSize = 4
    VPart = {3}
    NumVParts = 2
    Elevators = {TRUE, FALSE}
    MaxLevel = 2
INVARIANTS TypeOK FetchedOnce NeverStuck SetIsActivated VerticesAreOwn
CHECK_DEADLOCK FALSE
