SPECIFICATION Spec
CONSTANTS
    Schedules = {night, noon}
    NoDropin = NoDropin
    CanDie = TRUE
    MaxCalls = 3
SYMMETRY Symmetry
CHECK_DEADLOCK FALSE
INVARIANTS
    VerdictMatchesSchedule
    OldScheduleRecoverable
