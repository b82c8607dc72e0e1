SPECIFICATION FairSpec
CHECK_DEADLOCK FALSE
CONSTANTS
    P = 2
    MaxFix = 1
    MaxTestFix = 1
    MaxE2eFix = 1
    MaxScans = 2
    MaxRuns = 2
    MaxLosses = 1
INVARIANTS
    TypeOK
    CompletedIsEarned
    FreshRunBuiltLast
    FirstCauseTold
PROPERTIES
    RunEnds
