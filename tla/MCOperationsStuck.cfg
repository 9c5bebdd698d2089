SPECIFICATION FairSpec
CONSTANTS
    Calls = {c1, c2}
    Users = {u1}
    Fingerprints = {f1}
    Approved = f1
    MaxFaults = 1
CHECK_DEADLOCK FALSE
PROPERTIES
    ExecutingResolves
