SPECIFICATION Spec
CONSTANTS
    Calls = {c1, c2, c3}
    Users = {u1}
    Fingerprints = {f1, f2}
    Approved = f1
    MaxFaults = 1
SYMMETRY CallSymmetry
CHECK_DEADLOCK FALSE
INVARIANTS
    TypeOK
    NoFalseSuccess
    StaleReviewOnlyInWindow
    HelperSerialized
    ExecutedOnce
    TwoApprovals
PROPERTIES
    ExpiredIsClosed
    LifecycleSpec
