CONSTANTS
    r1 = r1
    r2 = r2
    r3 = r3
    r4 = r4
    Requests <- MCFour
    Leftovers <- MCOld
    LeftoverStamp = 9
    NoOne = NoOne
    ScanLimit = 3
    JobLimit = 2
    MaxCrashes = 2
SPECIFICATION Spec
INVARIANTS
    OneHelper
    LiveTicketKept
    JobsBounded
PROPERTIES
    AdmissionInOrder
    RefusedForCause
SYMMETRY MCSymmetry
CHECK_DEADLOCK FALSE
