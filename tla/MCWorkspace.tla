----------------------------- MODULE MCWorkspace -----------------------------
(* Values for TLC: clients of one session.                                 *)
EXTENDS WorkspaceSession

CONSTANTS m0, m1, t1, c1, d1

OwnIds == [t \in Sends |-> m1]

Site(requests, patient, faulty, slow) ==
    [requests |-> requests, patient |-> patient, faults |-> faulty, pauses |-> slow]

AllSites ==
    { Site({t1}, TRUE, 1, 1),      \* the database fails once, and a client stops reading
      Site({c1}, TRUE, 1, 1),      \* the same under a cancel request
      Site({t1, c1}, TRUE, 0, 1),  \* a message, then a cancel request, or the other way,
                                   \* and a client that stops reading
      Site({t1, c1}, FALSE, 0, 0), \* a cancel request overlaps a message
      Site({t1, d1}, TRUE, 0, 0) } \* the thread is deleted between messages
=============================================================================
