CONSTANTS
    r1 = r1
    r2 = r2
    f = f
    Setjmp = Setjmp
    Longjmp = Longjmp
    Epilogue = Epilogue
    NoCall = NoCall
    NoWrite = NoWrite
    NoBuffer = NoBuffer
    Reg <- TwoRegs
    Val <- OneVal
    Target <- AllTargets
    Programs <- OnlySetjmp
    QSIZE = 3
    MAXLAT = 2
    MAXWRITE = 3
    PLEN = 2
    MAXACT = 2

SPECIFICATION PSpec
INVARIANT CheckpointIsQuiet
CHECK_DEADLOCK FALSE
