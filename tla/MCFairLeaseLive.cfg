CONSTANTS
    r1 = r1
    r2 = r2
    r3 = r3
    r4 = r4
    Requests <- MCThree
    Leftovers <- MCOld
    LeftoverStamp = 0
    NoOne = NoOne
    ScanLimit = 1
    JobLimit = 1
    MaxCrashes = 1
SPECIFICATION FairSpec
PROPERTIES
    EveryRequestEnds
CHECK_DEADLOCK FALSE
