SPECIFICATION Spec
CONSTANTS
    r1 = r1
    r2 = r2
    m1 = m1
    m2 = m2
    m3 = m3
    m4 = m4
    a = a
    NoName = NoName
    Requests = {r1, r2}
    Machines = {m1, m2, m3, m4}
    Members = {m1, m2, m3}
    Hosts = {m4}
    Names = {a}
    minReadyNodes = 3
    MaxCreates = 2
    MaxRequests = 3
    MaxFailures = 1
    MaxCrashes = 1
SYMMETRY Interchangeable
INVARIANTS
    TypeOK
    ReadyFloor
    PendingIsWorkedOn
PROPERTIES
    NoLostUpdate
CHECK_DEADLOCK FALSE
