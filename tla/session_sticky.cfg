SPECIFICATION Spec
CHECK_DEADLOCK FALSE
CONSTANTS
    MaxConfirms = 1
    MaxRuns = 3
INVARIANTS
    ConfirmedNotTurnedAway
