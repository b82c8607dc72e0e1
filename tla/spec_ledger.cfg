SPECIFICATION Spec
CHECK_DEADLOCK FALSE
CONSTANTS
    Titles = {sign_in}
    Texts = {wording_a, wording_b}
    MaxStories = 2
    MaxCriteria = 2
    MaxRuns = 2
    MaxLaps = 3
    MaxAccidents = 1
SYMMETRY TextSymmetry
INVARIANTS
    TypeOK
    ParkedTogether
    ResolvedIsMeasured
    LapCanBeRepeated
PROPERTIES
    RetiredForGood
    StampsOutliveRejection
