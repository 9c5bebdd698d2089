SPECIFICATION Spec
CONSTANTS
    Schedules = {night, noon}
    NoDropin = NoDropin
    CanDie = FALSE
    MaxCalls = 1
SYMMETRY Symmetry
CHECK_DEADLOCK FALSE
INVARIANTS
    HalfPairIsReported
