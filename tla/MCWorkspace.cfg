\* Two turns of a session; three sorts of clients.
SPECIFICATION Spec
CONSTANTS
    m0 = m0
    m1 = m1
    t1 = t1
    c1 = c1
    d1 = d1
    Msgs = {m0, m1}
    Sends = {t1}
    MsgOf <- OwnIds
    Cancels = {c1}
    Deletes = {d1}
    First = m0
    None = None
    Outcomes = {"answered", "aborted", "driver_error"}
    Sites <- AllSites
CHECK_DEADLOCK FALSE
INVARIANT AnsweredIsStored
INVARIANT SessionSound
PROPERTY CancelIsKept
PROPERTY TurnsEnd
PROPERTY DeleteSparesActive
