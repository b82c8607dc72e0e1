SPECIFICATION Spec
CHECK_DEADLOCK FALSE
CONSTANTS
    N = 4
    SpecStage = 2
    PlanStage = 3
    BuildStage = 4
    Audited = {3}
    Policy <- LedgerPolicy
    MaxCycles <- ShortCycles
    MaxVerifyCycles <- MixedVerify
    InfraCap = 1
    LedgerStages = {}
    FixStages = {4}
    RedraftEvery = {}
    MayBeNotReady = TRUE
    Kills = TRUE
    Lossy = FALSE
    PersistFails = FALSE
    MaxRuns = 2
    MaxReq = 2
INVARIANTS
    ConsumedWasChecked
