SPECIFICATION WFairSpec
CONSTANTS
    h1 = h1
    c1 = c1
    c2 = c2
    w1 = w1
    p1 = p1
    main = main
    Free = Free
    Restarters <- OneCallback
    Callbacks <- OneCallback
    Stoppers <- Main
    Writers <- Nobody
    Probers <- Nobody
    MaxRestarts = 2
    Changes <- Swaps
    MaxChanges = 1
PROPERTIES
    SeenChangeIsLoaded
CHECK_DEADLOCK FALSE
