SPECIFICATION Spec
CONSTANTS
    N = 2
    Page = {p1, p2, p3, p4, p5}
    Boundary = {p1}
    Writes = TRUE
    None = None
SYMMETRY Symmetry
INVARIANTS TypeOK WarmUpFillsCell GivesUpOnce LifoListComplete GhostsAreEvicted
PROPERTIES InUseNotEvicted
