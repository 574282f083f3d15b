\* Three workloads on one conversation and one key; the server restarts once.
SPECIFICATION Spec
CONSTANTS
    r1 = r1
    r2 = r2
    r3 = r3
    r4 = r4
    t1 = t1
    t2 = t2
    a1 = a1
    d1 = d1
    x1 = x1
    u1 = u1
    c1 = c1
    k1 = k1
    None = None
    Absent = Absent
    Gone = Gone
    Convs = {c1}
    Keys = {k1}
    Tasks <- AllTasks
    Workloads <- AllWorkloads
    Kind <- Kinds
    ConvOf <- Conversations
    KeyOf <- KeysUsed
    HashOf <- FirstOf
    InputId <- FirstOf
    PrevOf <- Previous
    Stores <- Stored
    MaxItems = 4
    MaxCrashes = 1
CHECK_DEADLOCK FALSE
INVARIANT HistoryIsolated
INVARIANT OncePerKey
INVARIANT TurnsAreDurable
PROPERTY EveryRequestEnds
