CONSTANTS
    r1 = r1
    f = f
    g = g
    NoCall = NoCall
    NoWrite = NoWrite
    Reg <- OneReg
    Val <- TwoVals
    Target <- TwoTargets
    QSIZE = 3
    MAXLAT = 2
    MAXWRITE = 3

SPECIFICATION Spec
INVARIANT TypeOK
INVARIANT OneWakeup
INVARIANT WakeupFollowsWrite
INVARIANT NothingBeyondMaxLat
PROPERTY ImplementsEquals
CHECK_DEADLOCK FALSE
SYMMETRY TargetSymmetry
