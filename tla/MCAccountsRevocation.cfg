SPECIFICATION Spec
CONSTANTS
    Calls = {c1, c2, c3}
    First = First
    Threads = 2
    Limit = 1
    MaxFaults = 1
SYMMETRY Symmetry
CHECK_DEADLOCK FALSE
INVARIANTS
    RevokedStaysRevoked
    RevocationIsComplete
    FailuresBounded
PROPERTIES
    TicketHonoured
