SPECIFICATION FairSpec
CONSTANTS
    r1 = r1
    r2 = r2
    s1 = s1
    w1 = w1
    p1 = p1
    Free = Free
    Restarters <- OneRestarter
    Stoppers <- Main
    Writers <- OneWriter
    Probers <- Nobody
    MaxRestarts = 1
PROPERTIES
    StopTerminates
