SPECIFICATION Spec
CONSTANTS
    Pid = {p1, p2, p3}
    NoPid = NoPid
    Overlap = TRUE
INVARIANTS
    MutualExclusion
