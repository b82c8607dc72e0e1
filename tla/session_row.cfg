SPECIFICATION Spec
CHECK_DEADLOCK FALSE
CONSTANTS
    MaxConfirms = 3
    MaxRuns = 4
INVARIANTS
    TypeOK
    OneReopenPerConfirmation
    NoVerdictWhileRunning
