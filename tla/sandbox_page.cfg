SPECIFICATION Spec
CONSTANTS
    Callers = {c1}
    Others = {"reaper", "watcher", "viewer"}
    Attempts = 2
    MaxContainers = 2
    SweepFails = FALSE
    KillFails = FALSE
PROPERTIES
    PhantomsGoAway
    LockIsGivenBack
