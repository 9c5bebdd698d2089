SPECIFICATION Spec
CONSTANTS
    Names = {n1}
    Files = {f1, f2}
    MaxVersion = 2
    Absent = Absent
SYMMETRY Symmetry
CHECK_DEADLOCK FALSE
INVARIANTS
    MarkersVouchForSound
    ExtractedIsVerified
    ListedVerifiedIsSound
