CONSTANTS
    main = main
    f = f
    k1 = k1
    k2 = k2
    None = None
    Func <- MCFunc
    Main <- main
    Key <- OneKey
    PV <- NoPV
    Programs <- OnlyVirtual
    MAXDEPTH = 4
    CROSSNATIVE = TRUE

SPECIFICATION Spec
INVARIANT WrapperGuards
CHECK_DEADLOCK FALSE
