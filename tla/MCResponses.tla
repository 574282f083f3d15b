---------------------------- MODULE MCResponses ----------------------------
(* Instances of ResponsesStore for TLC. *)
EXTENDS ResponsesStore, TLC

CONSTANTS r1, r2, r3, r4, t1, t2, a1, d1, x1, u1, c1, k1

AllTasks == {r1, r2, r3, r4, t1, t2, a1, d1, x1, u1}

\* r2 repeats r1 under one key, client item id included; r3 uses the key for
\* something else; r4 continues the response of r1.
Retries == {r1, r2, r3, r4}
\* Two turns of one conversation, one of them stored, and its other handlers.
Talk == {t1, t2, a1, d1, x1}
\* Requests whose locks overlap pairwise, and one that only changes metadata.
Overlaps == {r1, t1, r3, u1}
AllWorkloads == {Retries, Talk, Overlaps}

Kinds == [[t \in AllTasks |-> "create"] EXCEPT ![a1] = "add", ![d1] = "deleteItem",
                        ![x1] = "deleteConversation", ![u1] = "update"]
Conversations == [t \in AllTasks |-> IF t \in {r3, r4} THEN None ELSE c1]
KeysUsed == [t \in AllTasks |-> IF t \in {r1, r2, r3} THEN k1 ELSE None]
FirstOf == [t \in AllTasks |-> IF t = r2 THEN r1 ELSE t]
Previous == [t \in AllTasks |-> IF t = r4 THEN r1 ELSE None]
Stored == {r1, r2, r3, t2}
=============================================================================
