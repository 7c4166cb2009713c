SPECIFICATION IdentitySpec
CONSTANTS
    r1 = r1
    r2 = r2
    r3 = r3
    u1 = u1
    u2 = u2
    u3 = u3
    g1 = g1
    g2 = g2
    a1 = a1
    a2 = a2
    b1 = b1
    b2 = b2
    Original = Original
    Garbled = Garbled
    Nothing = Nothing
    Requests = {r1, r2, r3}
    Users = {u1, u2, u3}
    Residents <- Staff
    Groups = {g1, g2}
    Instances = {a1, a2}
    Replicas = {b1, b2}
    Last = 3
    MaxConcurrent = 3
    MaxFailures = 1
    Reliable = {}
    Workloads <- AllWorkloads
SYMMETRY Interchangeable
INVARIANTS
    LoginMeansUser
    OverIsOver
    KeysAgree
    SchemaInOrder
PROPERTIES
    OnlyWhatWasAsked
CHECK_DEADLOCK FALSE
