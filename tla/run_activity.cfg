SPECIFICATION Spec
CHECK_DEADLOCK FALSE
CONSTANTS
    Request = {r1, r2}
    Post = {p1, p2}
    Cap = 2
    Last = 3
    MaxRuns = 3
    MaxReviews = 2
SYMMETRY Symmetry
INVARIANTS
    TypeOK
    OneDriver
    NobodyWaitsForNothing
    StreamAccepted
    EndedByItsRun
    AnswersTheStage
    NothingRunsWhenDown
