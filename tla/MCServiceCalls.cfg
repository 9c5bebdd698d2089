SPECIFICATION CallSpec
CONSTANTS
    Targets = {world, config, mods}
    CanDie = TRUE
    TimerRuns = TRUE
CHECK_DEADLOCK FALSE
INVARIANTS
    CallTypeOK
    OldDataKept
    VerdictMatchesData
    RunsOnWholeData
PROPERTIES
    
    InstallsOnStoppedServer
    VerdictMatchesService
    CaughtBackupErrorLeavesServerUp
    CallTerminates
