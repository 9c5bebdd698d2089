SPECIFICATION Spec
CONSTANTS
    Chats = {c1, c2}
    RequestLimits = {1, 2}
    TokenLimits = {1, 2}
    MaxTokens = {1, 2}
    Inputs = {0}
    Outputs = {0, 2}
    PerMinute = 1
    LastDay = 2
    MaxFaults = 1
    Nobody = Nobody
SYMMETRY Symmetry
CHECK_DEADLOCK FALSE
INVARIANTS
    RequestsWithinLimit
    OutputWithinLimit
    ReservationsExact
