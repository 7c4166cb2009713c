SPECIFICATION Spec
CONSTANTS
    r1 = r1
    r2 = r2
    s1 = s1
    w1 = w1
    p1 = p1
    Free = Free
    Restarters <- TwoRestarters
    Stoppers <- Nobody
    Writers <- Nobody
    Probers <- Nobody
    MaxRestarts = 2
INVARIANTS
    OneClaude
CHECK_DEADLOCK FALSE
