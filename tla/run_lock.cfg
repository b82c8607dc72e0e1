SPECIFICATION FairSpec
CONSTANTS
    Pid = {p1, p2, p3}
    NoPid = NoPid
    Overlap = FALSE
INVARIANTS
    MutualExclusion
    HolderOnDisk
PROPERTIES
    AcquireEnds
