SPECIFICATION Spec
CONSTANTS
    Uploads = {u1, u2}
    Requests = {r1, r2}
    Contents = {jar1, jar2, bad}
    ValidJars = {jar1, jar2}
    Names = {x, y}
    Own = Own
    Absent = Absent
    Torn = Torn
    MaxFaults = 1
SYMMETRY Symmetry
CHECK_DEADLOCK FALSE
INVARIANTS
    TypeOK
    
    InstalledAsReviewed
PROPERTIES
    NothingLost
