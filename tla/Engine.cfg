SPECIFICATION Spec
CONSTANTS
    v1 = v1
    v2 = v2
    v3 = v3
    None = None
    NumThreads = 2
    Vertex = {v1, v2, v3}
    Owner <- MCOwner
    Edges <- MCEdges
    EndVertices = {v1}
    Programs = {{"activate", "message"}, {"flush"}}
    MaxProcessing = 2
    SerialRuns = {TRUE, FALSE}
    MaxLevel = 1
INVARIANTS TypeOK SerialExecution AssertionsHold StolenAreAway SendersFlushed
PROPERTIES ImplementsVertexLevels StopsUnlessSpinning
