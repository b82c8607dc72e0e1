SPECIFICATION Spec
CHECK_DEADLOCK FALSE
CONSTANTS
    N = 4
    SpecStage = 2
    PlanStage = 3
    BuildStage = 4
    Audited = {2}
    Policy <- MixedPolicy
    MaxCycles <- ShortCycles
    MaxVerifyCycles <- TwoVerify
    InfraCap = 1
    LedgerStages = {2}
    FixStages = {4}
    RedraftEvery = {4}
    MayBeNotReady = FALSE
    Kills = TRUE
    Lossy = TRUE
    PersistFails = FALSE
    MaxRuns = 2
    MaxReq = 2
INVARIANTS
    TypeOK
    UpstreamApproved
    ConsumedWasChecked
    DiskApprovalsChecked
    ApprovalsCurrent
    FirstDraftSetAside
PROPERTIES
    ApprovalsSurviveReattach
    KeepsApprovalChain
