SPECIFICATION SpecStalls
CONSTANTS
    Reg = {r1, r2}
    RegId = {r1, r2}
    Val = {0}
    Target <- NoTarget
    NoCall = NoCall
    NoWrite = NoWrite
    NoReg = NoReg
    QSIZE = 3
    MAXLAT = 2
    MAXWRITE = 6
    Cluster = {c1, c2}
    MAXREQ = 2
INVARIANTS DrainCompletes
CHECK_DEADLOCK FALSE
