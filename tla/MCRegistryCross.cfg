\* A load, a generation and a handler that shows the active model wait for each other.
SPECIFICATION Spec
CONSTANTS
    c1 = c1
    c2 = c2
    c3 = c3
    Clients = {c1, c2, c3}
    a = a
    b = b
    f = f
    g = g
    Ids = {a, b}
    Files = {f, g}
    Sites <- Crossing
    NoId = NoId
    NoFile = NoFile
    MaxRequests = 3
CHECK_DEADLOCK FALSE
PROPERTY RequestsEnd
