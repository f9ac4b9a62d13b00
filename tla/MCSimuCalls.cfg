CONSTANTS
    main = main
    f = f
    k1 = k1
    k2 = k2
    None = None
    Func <- MCFunc
    Main <- main
    Key <- TwoKeys
    PV <- LastPVs
    Programs <- AllKinds
    MAXDEPTH = 4
    CROSSNATIVE = FALSE

SPECIFICATION FairSpec
INVARIANT TypeOK DepthExact StacksAgree RegFilesOwned
PROPERTY LandsHome ImplementsC LongjmpLands PVPreserved
CHECK_DEADLOCK FALSE
