----------------------------- MODULE MCSidecar -----------------------------
(* Instances of Sidecar for TLC. *)
EXTENDS Sidecar

\* Users who wait for a restart to end where there are job objects, users who do not
\* where there are none.  A build with job objects does all that one without does:
\* an assignment may fail.
AllSites ==
    { [windows |-> TRUE, impatient |-> FALSE],
      [windows |-> FALSE, impatient |-> TRUE] }
=============================================================================
