SPECIFICATION FairSpec
CONSTANTS
    Requests = {r1}
    Collector = Collector
    LastTime = 2
    Files = 3
    Listed = 2
    Capacity = 1
    FileLimit = 1
    Window = 1
    Retention = 1
    Days = 1
    Grace = 1
    MaxRotations = 2
    MaxFaults = 1
CHECK_DEADLOCK FALSE
INVARIANTS
    RangesDisjoint
    CoveredIsStored
    ClaimIsKept
PROPERTIES
    LoginsArrive
