SPECIFICATION FairSpec
CHECK_DEADLOCK FALSE
CONSTANTS
    N = 4
    SpecStage = 2
    PlanStage = 3
    BuildStage = 4
    Audited = {3}
    Policy <- LedgerPolicy
    MaxCycles <- ShortCycles
    MaxVerifyCycles <- MixedVerify
    InfraCap = 1
    LedgerStages = {}
    FixStages = {4}
    RedraftEvery = {}
    MayBeNotReady = TRUE
    Kills = FALSE
    Lossy = TRUE
    PersistFails = TRUE
    MaxRuns = 2
    MaxReq = 2
PROPERTIES
    RunTerminates
