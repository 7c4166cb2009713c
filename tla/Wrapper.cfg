SPECIFICATION WFairSpec
CONSTANTS
    h1 = h1
    c1 = c1
    c2 = c2
    w1 = w1
    p1 = p1
    main = main
    Free = Free
    Restarters <- HandlerAndCallback
    Callbacks <- OneCallback
    Stoppers <- Main
    Writers <- Nobody
    Probers <- Nobody
    MaxRestarts = 2
    Changes <- Writes
    MaxChanges = 2
INVARIANTS
    HarmNeedsOrphan
PROPERTIES
    NoCallbackAfterStop
    SeenChangeIsLoaded
    ShutdownCompletes
    StopTargetsOneChild
CHECK_DEADLOCK FALSE
