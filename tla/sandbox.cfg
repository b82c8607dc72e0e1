SPECIFICATION Spec
CONSTANTS
    Callers = {c1}
    Others = {"watcher", "closer", "ender", "run"}
    Attempts = 2
    MaxContainers = 2
    SweepFails = FALSE
    KillFails = FALSE
INVARIANTS
    TypeOK
    PhantomAnnounced
    RegisteredIsKnown
    OneTurn
