SPECIFICATION Spec
CONSTANTS
    Frame = {f1, f2}
    Page = {p1, p2, p3}
    Req = {r1, r2, r3}
    None = None
SYMMETRY Symmetry
INVARIANTS TypeOK FlagProtocol OnePageOneFrame ReadsFillEmptyFrames WaitersAnswered
PROPERTIES InUseNotEvicted
