SPECIFICATION Spec
CONSTANTS
    Targets = {world, config}
    CanDie = FALSE
    TimerRuns = FALSE
SYMMETRY Symmetry
CHECK_DEADLOCK FALSE
INVARIANTS
    NoFailureBringsServerDown
