\* Four servers, two or three handlers at once, three requests.
SPECIFICATION Spec
CONSTANTS
    c1 = c1
    c2 = c2
    c3 = c3
    Clients = {c1, c2, c3}
    a = a
    b = b
    f = f
    g = g
    Ids = {a, b}
    Files = {f, g}
    Sites <- AllSites
    NoId = NoId
    NoFile = NoFile
    MaxRequests = 3
CHECK_DEADLOCK FALSE
INVARIANT RegistriesAgree
INVARIANT InUseStays
PROPERTY UnloadAnswersFreed
PROPERTY LoadAnswersServable
PROPERTY RequestsEnd
