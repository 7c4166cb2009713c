SPECIFICATION FairSpec
CONSTANTS
    s1 = s1
    s2 = s2
    nodes = nodes
    p1 = p1
    p2 = p2
    ready = ready
    error = error
    Publishers = {p1, p2}
    Sessions = {s1, s2}
    Channels = {nodes}
    Types = {ready, error}
    Topic <- MCTopic
    Filter <- MCFilter
    Capacity = 2
    MaxEvents <- MCMaxEvents
INVARIANTS
    TypeOK
    PublisherOrder
    TargetsSubscribed
PROPERTIES
    PublishReturns
    GoneIsRemoved
CHECK_DEADLOCK FALSE
