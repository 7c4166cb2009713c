SPECIFICATION Spec
CONSTANTS
    r1 = r1
    r2 = r2
    m1 = m1
    m2 = m2
    m3 = m3
    m4 = m4
    a = a
    NoName = NoName
    Requests = {r1, r2}
    Machines = {m1, m2, m3, m4}
    Members = {m1, m2, m3, m4}
    Hosts = {m4}
    Names = {a}
    minReadyNodes = 4
    MaxCreates = 0
    MaxRequests = 3
    MaxFailures = 0
    MaxCrashes = 0
SYMMETRY Interchangeable
INVARIANTS
    KeepsMinimum
CHECK_DEADLOCK FALSE
