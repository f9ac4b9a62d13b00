SPECIFICATION FairStalls
CONSTANTS
    Reg = {r1, r2}
    RegId = {r1, r2}
    Val = {0}
    Target <- NoTarget
    NoCall = NoCall
    NoWrite = NoWrite
    NoReg = NoReg
    QSIZE = 2
    MAXLAT = 1
    MAXWRITE = 6
    Cluster = {c1, c2}
    MAXREQ = 2
INVARIANTS StallsTypeOK OutstandingExact InOrder BackPressure BusyIsOwed
PROPERTIES StallsServed
CHECK_DEADLOCK FALSE
