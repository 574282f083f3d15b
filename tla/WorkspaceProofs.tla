-------------------------- MODULE WorkspaceProofs --------------------------
(***************************************************************************)
(* Proofs about WorkspaceSession, for every set of requests, messages and  *)
(* clients and every bound on database errors.                             *)
(***************************************************************************)
EXTENDS WorkspaceSession, SequenceTheorems, TLAPS

(***************************************************************************)
(* The inductive invariant.                                                *)
(***************************************************************************)

Places == {"unsent", "done", "lookup", "locking", "context", "install",
           "look", "config", "state", "save", "finish", "delete"}

\* The tables of the runs all have one entry for each installed run.
Tables ==
    /\ runs \in Seq(Msgs) /\ flag \subseteq Installed /\ full \subseteq Installed
    /\ deadline \in [Installed -> {"armed", "erring", "over"}]
    /\ worker \in [Installed -> {"unborn", "starting", "running", "sent", "undelivered",
                                 "ended"}]
    /\ result \in [Installed -> Outcomes \cup {"error", None}]
    /\ inbox \in [Installed -> Outcomes \cup {None}]
    /\ forwarder \in [Installed -> {"unborn", "open", "saved", "unsaved", "telling",
                                    "aborting", "aborted", "unaborted", "gone"}]
    /\ sse \in [Installed -> BOOLEAN]
    /\ told \in [Installed -> Outcomes \cup {"error", None}]

Typed ==
    /\ Tables
    /\ status \in Blocking \cup {"idle", "cancelled", "failed"}
    /\ current \in Msgs \cup {None}
    /\ slot \in Installed \cup {0} /\ control \in Installed
    /\ stored \in [Msgs -> Outcomes \cup {None}] /\ thread \in BOOLEAN
    /\ seen \in [Cancels -> Installed \cup {0}]
    /\ holder \in Sends \cup {None}
    /\ request \in [Requests -> Places]
    /\ site \in Sites /\ faults \in 0 .. site.faults /\ pauses \in Nat

\* How far a run can be: its two threads begin together, and nothing of it exists
\* before.  The run in the slot is the newest one, and nobody has claimed it.
Phases ==
    /\ \A r \in Installed :
         /\ worker[r] = "unborn" <=> forwarder[r] = "unborn"
         /\ worker[r] \in {"unborn", "starting"} => result[r] = None
         /\ worker[r] \in {"unborn", "starting", "running"} => inbox[r] = None
         /\ forwarder[r] \in {"saved", "unsaved", "telling"} => inbox[r] # None
         /\ forwarder[r] # "gone" => told[r] = None
    /\ slot # 0 => slot = control /\ worker[slot] = "unborn"
    /\ status = "waiting" => slot # 0 /\ current = runs[slot]
    /\ \A c \in Cancels : request[c] \in {"save", "finish"} => seen[c] # 0

\* A patient client has one request under way.  While it deletes the thread, no
\* turn is; a message that has read its context finds the thread at its end.
Patience ==
    site.patient =>
        /\ \A p, q \in Requests :
              request[p] \notin {"unsent", "done"} /\ request[q] \notin {"unsent", "done"}
                  => p = q
        /\ \A q \in Requests : request[q] = "delete" => status \notin Blocking
        /\ \A q \in Requests : request[q] = "install" => thread
        /\ status = "waiting" => thread

\* A deadline that could not save its turn met a database error.
ErringCost ==
    \A r \in Installed :
        deadline[r] = "erring" /\ (site.patient \/ thread) => faults < site.faults

IInv == Typed /\ Phases /\ BusyHasTurn /\ Patience /\ ErringCost

\* No message is repeated: every request carries an id of its own.
NoRepeats == \A t, u \in Sends : MsgOf[t] = MsgOf[u] => t = u

\* Then every run has an id of its own, and what is saved is saved for a run.
IdsInUse ==
    /\ \A q, r \in Installed : runs[q] = runs[r] => q = r
    /\ \A r \in Installed :
         runs[r] = First \/ \E t \in Sends : runs[r] = MsgOf[t] /\ request[t] = "done"
    /\ \A m \in Msgs : stored[m] # None => \E r \in Installed : runs[r] = m

\* A run whose loop will not answer: its flag was set before the loop began.
Doomed(r) ==
    /\ r \in flag
    /\ result[r] # "answered" /\ inbox[r] # "answered" /\ told[r] # "answered"
    /\ worker[r] = "running" => result[r] # None

\* A cancel request on its way sets the flag of the run it may find unclaimed
\* before anyone can claim it, so that the outcome it saves is not contradicted.
CancelDooms ==
    \A c \in Cancels :
        /\ request[c] \in {"look", "config"} /\ slot # 0 => slot \in flag
        /\ seen[c] # 0 => Doomed(seen[c])

\* What is saved for a run before its forwarder saves it is an abort of a run that
\* cannot answer any more.
SavedFirst ==
    thread =>
        \A r \in Installed :
            /\ stored[runs[r]] # None =>
                 /\ status = "waiting" /\ slot = r => Doomed(r)
                 /\ forwarder[r] = "open" => Doomed(r)
            /\ inbox[r] = "answered" /\ forwarder[r] \in {"saved", "telling"}
                 => stored[runs[r]] = "answered"
            /\ told[r] = "answered" => stored[runs[r]] = "answered"

StoreInv == IdsInUse /\ (site.patient => CancelDooms /\ SavedFirst)

(***************************************************************************)
(* What every step preserves, conjunct by conjunct.                        *)
(***************************************************************************)

\* What the assumptions on the constants say, as the steps below need it.
LEMMA ConstantFacts ==
    /\ None \notin Msgs /\ None \notin Outcomes /\ First \in Msgs
    /\ None # "error" /\ None # "answered"
    /\ \A t \in Sends : MsgOf[t] \in Msgs /\ MsgOf[t] # First
    /\ "aborted" \in Outcomes /\ "driver_error" \in Outcomes /\ "error" \notin Outcomes
    /\ Sends \subseteq Requests /\ Cancels \subseteq Requests /\ Deletes \subseteq Requests
    /\ \A s \in Sites : s.faults \in Nat /\ s.pauses \in Nat
BY WorkspaceAssumption DEF Requests

\* A table of the runs with one entry more.
LEMMA AppendTable ==
    ASSUME NEW n \in Nat, NEW f, f = [i \in 1 .. n |-> f[i]], NEW x
    PROVE  Append(f, x) = [i \in 1 .. n + 1 |-> IF i = n + 1 THEN x ELSE f[i]]
<1> DEFINE S == {f[i] : i \in 1 .. n} \cup {x}
<1>1. f \in [1 .. n -> S] /\ x \in S
  OBVIOUS
<1> HIDE DEF S
<1>2. f \in Seq(S) /\ Len(f) = n
  BY <1>1, SeqDef, LenProperties
<1>3. /\ Append(f, x) \in Seq(S) /\ Len(Append(f, x)) = n + 1
      /\ \A i \in 1 .. n : Append(f, x)[i] = f[i]
      /\ Append(f, x)[n + 1] = x
  BY <1>1, <1>2, AppendProperties
<1>4. Append(f, x) \in [1 .. n + 1 -> S]
  BY <1>3, LenProperties
<1> QED BY <1>3, <1>4

LEMMA AppendTyped ==
    ASSUME NEW S, NEW n \in Nat, NEW f \in [1 .. n -> S], NEW x \in S
    PROVE  Append(f, x) \in [1 .. n + 1 -> S]
<1>1. Append(f, x) = [i \in 1 .. n + 1 |-> IF i = n + 1 THEN x ELSE f[i]]
  BY AppendTable
<1> QED BY <1>1

\* install_turn: every table has an entry for the new run, which comes after the
\* ones that were there, and the entries of those stay.
LEMMA InstallRun ==
    ASSUME Typed, NEW t \in Sends, Install(t), status \notin Blocking
    PROVE  LET k == Len(runs) + 1
           IN  /\ Tables' /\ Len(runs') = k
               /\ Installed' = Installed \cup {k} /\ k \notin Installed /\ k # 0
               /\ slot' = k /\ control' = k /\ status' = "waiting" /\ current' = MsgOf[t]
               /\ \A r \in Installed :
                    /\ runs'[r] = runs[r] /\ deadline'[r] = deadline[r]
                    /\ worker'[r] = worker[r] /\ result'[r] = result[r]
                    /\ inbox'[r] = inbox[r] /\ forwarder'[r] = forwarder[r]
                    /\ told'[r] = told[r]
               /\ runs'[k] = MsgOf[t] /\ deadline'[k] = "armed"
               /\ worker'[k] = "unborn" /\ result'[k] = None /\ inbox'[k] = None
               /\ forwarder'[k] = "unborn" /\ told'[k] = None
<1> DEFINE n == Len(runs)
<1>1. /\ runs' = Append(runs, MsgOf[t]) /\ flag' = flag /\ full' = full
      /\ deadline' = Append(deadline, "armed") /\ worker' = Append(worker, "unborn")
      /\ result' = Append(result, None) /\ inbox' = Append(inbox, None)
      /\ forwarder' = Append(forwarder, "unborn") /\ sse' = Append(sse, FALSE)
      /\ told' = Append(told, None)
      /\ slot' = Len(runs') /\ control' = Len(runs') /\ status' = "waiting"
      /\ current' = MsgOf[t]
  BY DEF Install, streamVars
<1>2. /\ runs' \in Seq(Msgs) /\ Len(runs') = n + 1 /\ n \in Nat
      /\ Installed = 1 .. n /\ Installed' = 1 .. n + 1
      /\ \A r \in 1 .. n : runs'[r] = runs[r]
      /\ runs'[n + 1] = MsgOf[t]
  BY <1>1, AppendProperties, LenProperties, ConstantFacts DEF Typed, Tables, Installed
<1> HIDE DEF n
<1>3. /\ deadline' \in [1 .. n + 1 -> {"armed", "erring", "over"}]
      /\ deadline'[n + 1] = "armed" /\ \A r \in 1 .. n : deadline'[r] = deadline[r]
  <2>1. deadline = [i \in 1 .. n |-> deadline[i]]
    BY <1>2 DEF Typed, Tables
  <2>2. deadline' = [i \in 1 .. n + 1 |-> IF i = n + 1 THEN "armed" ELSE deadline[i]]
    BY <1>1, <1>2, <2>1, AppendTable
  <2> QED BY <1>2, <2>2 DEF Typed, Tables
<1>4. /\ worker' \in [1 .. n + 1 -> {"unborn", "starting", "running", "sent",
                                     "undelivered", "ended"}]
      /\ worker'[n + 1] = "unborn" /\ \A r \in 1 .. n : worker'[r] = worker[r]
  <2>1. worker = [i \in 1 .. n |-> worker[i]]
    BY <1>2 DEF Typed, Tables
  <2>2. worker' = [i \in 1 .. n + 1 |-> IF i = n + 1 THEN "unborn" ELSE worker[i]]
    BY <1>1, <1>2, <2>1, AppendTable
  <2> QED BY <1>2, <2>2 DEF Typed, Tables
<1>5. /\ result' \in [1 .. n + 1 -> Outcomes \cup {"error", None}]
      /\ result'[n + 1] = None /\ \A r \in 1 .. n : result'[r] = result[r]
  <2>1. result = [i \in 1 .. n |-> result[i]]
    BY <1>2 DEF Typed, Tables
  <2>2. result' = [i \in 1 .. n + 1 |-> IF i = n + 1 THEN None ELSE result[i]]
    BY <1>1, <1>2, <2>1, AppendTable
  <2> QED BY <1>2, <2>2 DEF Typed, Tables
<1>6. /\ told' \in [1 .. n + 1 -> Outcomes \cup {"error", None}]
      /\ told'[n + 1] = None /\ \A r \in 1 .. n : told'[r] = told[r]
  <2>1. told = [i \in 1 .. n |-> told[i]]
    BY <1>2 DEF Typed, Tables
  <2>2. told' = [i \in 1 .. n + 1 |-> IF i = n + 1 THEN None ELSE told[i]]
    BY <1>1, <1>2, <2>1, AppendTable
  <2> QED BY <1>2, <2>2 DEF Typed, Tables
<1>7. /\ inbox' \in [1 .. n + 1 -> Outcomes \cup {None}]
      /\ inbox'[n + 1] = None /\ \A r \in 1 .. n : inbox'[r] = inbox[r]
  <2>1. inbox = [i \in 1 .. n |-> inbox[i]]
    BY <1>2 DEF Typed, Tables
  <2>2. inbox' = [i \in 1 .. n + 1 |-> IF i = n + 1 THEN None ELSE inbox[i]]
    BY <1>1, <1>2, <2>1, AppendTable
  <2> QED BY <1>2, <2>2 DEF Typed, Tables
<1>8. /\ forwarder' \in [1 .. n + 1 -> {"unborn", "open", "saved", "unsaved", "telling",
                                        "aborting", "aborted", "unaborted", "gone"}]
      /\ forwarder'[n + 1] = "unborn" /\ \A r \in 1 .. n : forwarder'[r] = forwarder[r]
  <2>1. forwarder = [i \in 1 .. n |-> forwarder[i]]
    BY <1>2 DEF Typed, Tables
  <2>2. forwarder' = [i \in 1 .. n + 1 |-> IF i = n + 1 THEN "unborn" ELSE forwarder[i]]
    BY <1>1, <1>2, <2>1, AppendTable
  <2> QED BY <1>2, <2>2 DEF Typed, Tables
<1>9. sse' \in [1 .. n + 1 -> BOOLEAN]
  BY <1>1, <1>2, AppendTyped DEF Typed, Tables
<1>10. flag' \subseteq 1 .. n + 1 /\ full' \subseteq 1 .. n + 1
  BY <1>1, <1>2 DEF Typed, Tables
<1>11. Tables'
  BY <1>2, <1>3, <1>4, <1>5, <1>6, <1>7, <1>8, <1>9, <1>10 DEF Tables
<1>12. 1 .. n + 1 = 1 .. n \cup {n + 1} /\ n + 1 \notin 1 .. n /\ n + 1 # 0
  BY <1>2
<1> QED
  BY <1>1, <1>2, <1>3, <1>4, <1>5, <1>6, <1>7, <1>8, <1>11, <1>12 DEF n

\* An event on its way to the forwarder is an outcome.
LEMMA InboxType ==
    ASSUME Typed, NEW r \in Installed, inbox[r] # None
    PROVE  inbox[r] \in Outcomes
BY DEF Typed, Tables

\* What a transaction that goes through, and one that does not, leave behind.
LEMMA StoreTypes ==
    ASSUME Typed, site' = site
    PROVE  /\ \A m, o : o \in Outcomes /\ Saved(m, o) =>
                /\ stored' \in [Msgs -> Outcomes \cup {None}]
                /\ thread' \in BOOLEAN /\ faults' \in 0 .. site'.faults
           /\ NotSaved =>
                /\ stored' \in [Msgs -> Outcomes \cup {None}]
                /\ thread' \in BOOLEAN /\ faults' \in 0 .. site'.faults
<1>1. site.faults \in Nat
  BY ConstantFacts DEF Typed
<1>2. ASSUME NEW m, NEW o \in Outcomes, Saved(m, o)
      PROVE  /\ stored' \in [Msgs -> Outcomes \cup {None}]
             /\ thread' \in BOOLEAN /\ faults' \in 0 .. site'.faults
  BY <1>2 DEF Saved, Typed
<1>3. ASSUME NotSaved
      PROVE  /\ stored' \in [Msgs -> Outcomes \cup {None}]
             /\ thread' \in BOOLEAN /\ faults' \in 0 .. site'.faults
  <2>1. faults' \in 0 .. site.faults
    BY <1>1, <1>3 DEF NotSaved, Typed
  <2> QED BY <2>1, <1>3 DEF NotSaved, Typed
<1> QED BY <1>2, <1>3

\* Every step keeps the types and one entry for each run in every table.
LEMMA TypedStep ==
    ASSUME IInv, Next
    PROVE  Typed'
<1>a. Typed /\ Phases /\ site' = site
  BY DEF IInv, Next
<1>b. Len(runs) \in Nat /\ \A r \in Installed : runs[r] \in Msgs
  BY <1>a, LenProperties, ElementOfSeq DEF Typed, Tables, Installed
<1> USE <1>a, <1>b, ConstantFacts
    DEF Typed, Tables, Phases, Blocking, Places, Installed,
        sessionVars, runVars, streamVars, storeVars, requestVars
<1>1. CASE Claim
  BY <1>1 DEF Claim
<1>2. ASSUME NEW r \in Installed, Start(r) PROVE Typed'
  <2>0. \/ result' = result
        \/ result' = [result EXCEPT ![r] = "error"]
        \/ result' = [result EXCEPT ![r] = "aborted"]
    BY <1>2 DEF Start
  <2>1. result' \in [Installed -> Outcomes \cup {"error", None}]
    <3>1. CASE result' = result
      BY <3>1
    <3>2. CASE result' = [result EXCEPT ![r] = "error"]
      BY <3>2
    <3>3. CASE result' = [result EXCEPT ![r] = "aborted"]
      BY <3>3
    <3> QED BY <2>0, <3>1, <3>2, <3>3
  <2>2. worker' = [worker EXCEPT ![r] = "running"]
    BY <1>2 DEF Start
  <2> QED BY <1>2, <2>1, <2>2 DEF Start
<1>3. ASSUME NEW r \in Installed, Loop(r) PROVE Typed'
  BY <1>3 DEF Loop
<1>4. ASSUME NEW r \in Installed, Report(r) PROVE Typed'
  <2>1. inbox' \in [Installed -> Outcomes \cup {None}]
    BY <1>4 DEF Report
  <2>2. \/ worker' = [worker EXCEPT ![r] = "undelivered"]
        \/ worker' = [worker EXCEPT ![r] = "sent"]
    BY <1>4 DEF Report
  <2> QED BY <1>4, <2>1, <2>2 DEF Report
<1>5. ASSUME NEW r \in Installed, WorkerEnds(r) PROVE Typed'
  BY <1>5 DEF WorkerEnds, Finish
<1>6. ASSUME NEW r \in Installed, Panic(r) PROVE Typed'
  BY <1>6 DEF Panic
<1>7. ASSUME NEW r \in Installed, Save(r) PROVE Typed'
  <2>0. inbox[r] \in Outcomes
    <3>1. inbox[r] # None
      BY <1>7 DEF Save
    <3> HIDE DEF Typed, Tables, Phases
    <3> QED BY <3>1, InboxType
  <2>1. /\ stored' \in [Msgs -> Outcomes \cup {None}]
        /\ thread' \in BOOLEAN /\ faults' \in 0 .. site'.faults
    BY <1>7, <2>0, StoreTypes DEF Save
  <2> QED BY <1>7, <2>1 DEF Save
<1>8. ASSUME NEW r \in Installed, Complete(r) PROVE Typed'
  BY <1>8 DEF Complete, Finish
<1>9. ASSUME NEW r \in Installed, Tell(r) PROVE Typed'
  BY <1>9 DEF Tell, Leave
<1>10. ASSUME NEW r \in Installed, GiveUp(r) PROVE Typed'
  BY <1>10 DEF GiveUp, Finish, Leave
<1>11. ASSUME NEW r \in Installed, Break(r) PROVE Typed'
  BY <1>11 DEF Break
<1>12. ASSUME NEW r \in Installed, SaveAborted(r) PROVE Typed'
  <2>1. /\ stored' \in [Msgs -> Outcomes \cup {None}]
        /\ thread' \in BOOLEAN /\ faults' \in 0 .. site'.faults
    BY <1>12, StoreTypes DEF SaveAborted
  <2> QED BY <1>12, <2>1 DEF SaveAborted
<1>13. ASSUME NEW r \in Installed, CompleteAborted(r) PROVE Typed'
  BY <1>13 DEF CompleteAborted, Finish, Leave
<1>14. ASSUME NEW r \in Installed, Wait(r) \/ Read(r) \/ StreamDrops(r) PROVE Typed'
  <2>1. CASE Wait(r)
    BY <2>1 DEF Wait
  <2>2. CASE Read(r)
    BY <2>2 DEF Read
  <2>3. CASE StreamDrops(r)
    BY <2>3 DEF StreamDrops
  <2> QED BY <1>14, <2>1, <2>2, <2>3
<1>15. ASSUME NEW r \in Installed, Expire(r) PROVE Typed'
  <2>1. /\ stored' \in [Msgs -> Outcomes \cup {None}]
        /\ thread' \in BOOLEAN /\ faults' \in 0 .. site'.faults
    BY <1>15, StoreTypes DEF Expire
  <2>2. /\ status' \in {status, "cancelled"} /\ current' \in {current, None}
        /\ flag' \in {flag, flag \cup {control}}
        /\ deadline' \in [Installed -> {"armed", "erring", "over"}]
    BY <1>15 DEF Expire
  <2> QED BY <1>15, <2>1, <2>2 DEF Expire
<1>16. ASSUME NEW r \in Installed, ExpireFails(r) PROVE Typed'
  BY <1>16 DEF ExpireFails
<1>17. ASSUME NEW t \in Sends, Send(t) PROVE Typed'
  BY <1>17 DEF Send, Goto
<1>18. ASSUME NEW t \in Sends, LookUp(t) PROVE Typed'
  BY <1>18 DEF LookUp, Goto
<1>19. ASSUME NEW t \in Sends, Lock(t) PROVE Typed'
  BY <1>19 DEF Lock, Goto
<1>20. ASSUME NEW t \in Sends, Refuse(t) PROVE Typed'
  BY <1>20 DEF Refuse, Goto
<1>21. ASSUME NEW t \in Sends, ReadContext(t) PROVE Typed'
  BY <1>21 DEF ReadContext, Goto
<1>22. ASSUME NEW t \in Sends, Install(t) PROVE Typed'
  <2>1. CASE status \in Blocking
    <3>1. UNCHANGED <<status, current, slot, control, runs, runVars, flag, storeVars, seen>>
      BY <1>22, <2>1 DEF Install
    <3>2. request' = [request EXCEPT ![t] = "done"] /\ holder' = None
      BY <1>22 DEF Install, Goto
    <3> QED BY <3>1, <3>2
  <2>2. CASE status \notin Blocking
    <3>1. Tables' /\ Len(runs') = Len(runs) + 1
      BY <1>22, <2>2, InstallRun DEF Install
    <3>3. /\ status' = "waiting" /\ current' \in Msgs
          /\ slot' = Len(runs') /\ control' = Len(runs') /\ pauses' \in Nat
      BY <1>22, <2>2 DEF Install
    <3>4. /\ stored' = stored /\ thread' = thread /\ faults' = faults
          /\ seen' \in [Cancels -> Installed' \cup {0}]
          /\ holder' \in Sends \cup {None} /\ request' \in [Requests -> Places]
      BY <1>22, <3>1 DEF Install, Goto
    <3> HIDE DEF Tables
    <3> QED BY <3>1, <3>3, <3>4
  <2> QED BY <2>1, <2>2
<1>23. ASSUME NEW c \in Cancels, SetFlag(c) PROVE Typed'
  BY <1>23 DEF SetFlag, Goto
<1>24. ASSUME NEW c \in Cancels, LookWaiting(c) PROVE Typed'
  BY <1>24 DEF LookWaiting, Goto
<1>25. ASSUME NEW c \in Cancels, CloneConfig(c) PROVE Typed'
  BY <1>25 DEF CloneConfig, Goto
<1>26. ASSUME NEW c \in Cancels, SetState(c) PROVE Typed'
  BY <1>26 DEF SetState, Goto
<1>27. ASSUME NEW c \in Cancels, SaveCancelled(c) PROVE Typed'
  <2>1. /\ stored' \in [Msgs -> Outcomes \cup {None}]
        /\ thread' \in BOOLEAN /\ faults' \in 0 .. site'.faults
    BY <1>27, StoreTypes DEF SaveCancelled
  <2> QED BY <1>27, <2>1 DEF SaveCancelled, Goto
<1>28. ASSUME NEW c \in Cancels, FinishCancelled(c) PROVE Typed'
  BY <1>28 DEF FinishCancelled, Finish, Goto
<1>29. ASSUME NEW d \in Deletes, CheckDelete(d) PROVE Typed'
  BY <1>29 DEF CheckDelete, Goto
<1>30. ASSUME NEW d \in Deletes, Delete(d) PROVE Typed'
  BY <1>30 DEF Delete, Goto
<1> QED
  BY <1>1, <1>2, <1>3, <1>4, <1>5, <1>6, <1>7, <1>8, <1>9, <1>10, <1>11, <1>12,
     <1>13, <1>14, <1>15, <1>16, <1>17, <1>18, <1>19, <1>20, <1>21, <1>22, <1>23,
     <1>24, <1>25, <1>26, <1>27, <1>28, <1>29, <1>30
  DEF Next, Step, Worker, Forwarder, Deadline, Message, Cancel

\* Every step moves the threads of a run, and the slot, together.
LEMMA PhasesStep ==
    ASSUME IInv, Next
    PROVE  Phases'
<1>a. Typed /\ Phases /\ site' = site
  BY DEF IInv, Next
<1>b. Len(runs) \in Nat
  BY <1>a, LenProperties DEF Typed, Tables
<1> USE <1>a, <1>b, ConstantFacts
    DEF Phases, Typed, Tables, Installed,
        sessionVars, runVars, streamVars, storeVars, requestVars
<1>1. CASE Claim
  BY <1>1 DEF Claim
<1>2. ASSUME NEW r \in Installed, Start(r) PROVE Phases'
  BY <1>2 DEF Start
<1>3. ASSUME NEW r \in Installed, Loop(r) PROVE Phases'
  BY <1>3 DEF Loop
<1>4. ASSUME NEW r \in Installed, Report(r) PROVE Phases'
  BY <1>4 DEF Report
<1>5. ASSUME NEW r \in Installed, WorkerEnds(r) PROVE Phases'
  BY <1>5 DEF WorkerEnds, Finish
<1>6. ASSUME NEW r \in Installed, Panic(r) PROVE Phases'
  BY <1>6 DEF Panic
<1>7. ASSUME NEW r \in Installed, Save(r) PROVE Phases'
  BY <1>7 DEF Save, Saved, NotSaved
<1>8. ASSUME NEW r \in Installed, Complete(r) PROVE Phases'
  BY <1>8 DEF Complete, Finish
<1>9. ASSUME NEW r \in Installed, Tell(r) PROVE Phases'
  BY <1>9 DEF Tell, Leave
<1>10. ASSUME NEW r \in Installed, GiveUp(r) PROVE Phases'
  BY <1>10 DEF GiveUp, Finish, Leave
<1>11. ASSUME NEW r \in Installed, Break(r) PROVE Phases'
  BY <1>11 DEF Break
<1>12. ASSUME NEW r \in Installed, SaveAborted(r) PROVE Phases'
  BY <1>12 DEF SaveAborted, Saved, NotSaved
<1>13. ASSUME NEW r \in Installed, CompleteAborted(r) PROVE Phases'
  BY <1>13 DEF CompleteAborted, Finish, Leave
<1>14. ASSUME NEW r \in Installed, Wait(r) \/ Read(r) \/ StreamDrops(r) PROVE Phases'
  <2>1. CASE Wait(r)
    BY <2>1 DEF Wait
  <2>2. CASE Read(r)
    BY <2>2 DEF Read
  <2>3. CASE StreamDrops(r)
    BY <2>3 DEF StreamDrops
  <2> QED BY <1>14, <2>1, <2>2, <2>3
<1>15. ASSUME NEW r \in Installed, Expire(r) PROVE Phases'
  BY <1>15 DEF Expire, Saved, NotSaved
<1>16. ASSUME NEW r \in Installed, ExpireFails(r) PROVE Phases'
  BY <1>16 DEF ExpireFails
<1>17. ASSUME NEW t \in Sends, Send(t) PROVE Phases'
  BY <1>17 DEF Send, Goto
<1>18. ASSUME NEW t \in Sends, LookUp(t) PROVE Phases'
  BY <1>18 DEF LookUp, Goto
<1>19. ASSUME NEW t \in Sends, Lock(t) PROVE Phases'
  BY <1>19 DEF Lock, Goto
<1>20. ASSUME NEW t \in Sends, Refuse(t) PROVE Phases'
  BY <1>20 DEF Refuse, Goto
<1>21. ASSUME NEW t \in Sends, ReadContext(t) PROVE Phases'
  BY <1>21 DEF ReadContext, Goto
<1>22. ASSUME NEW t \in Sends, Install(t) PROVE Phases'
  <2>1. CASE status \in Blocking
    <3>1. UNCHANGED <<status, current, slot, control, runs, runVars, flag, storeVars, seen>>
      BY <1>22, <2>1 DEF Install
    <3>2. request' = [request EXCEPT ![t] = "done"] /\ holder' = None
      BY <1>22 DEF Install, Goto
    <3> QED BY <3>1, <3>2
  <2>2. CASE status \notin Blocking
    <3> DEFINE k == Len(runs) + 1
    <3>1. /\ Installed' = Installed \cup {k} /\ k \notin Installed /\ k # 0
          /\ slot' = k /\ control' = k /\ status' = "waiting" /\ current' = MsgOf[t]
          /\ \A r \in Installed :
               /\ runs'[r] = runs[r] /\ deadline'[r] = deadline[r]
               /\ worker'[r] = worker[r] /\ result'[r] = result[r]
               /\ inbox'[r] = inbox[r] /\ forwarder'[r] = forwarder[r]
               /\ told'[r] = told[r]
          /\ runs'[k] = MsgOf[t] /\ deadline'[k] = "armed"
          /\ worker'[k] = "unborn" /\ result'[k] = None /\ inbox'[k] = None
          /\ forwarder'[k] = "unborn" /\ told'[k] = None
      BY <1>22, <2>2, InstallRun
    <3>2. /\ UNCHANGED <<thread, stored, flag, seen, site>>
          /\ request' = [request EXCEPT ![t] = "done"] /\ request[t] = "install"
      BY <1>22 DEF Install, Goto
    <3> HIDE DEF k, Installed, Tables
    <3>3. \A c \in Cancels : request'[c] \in {"save", "finish"} => seen'[c] # 0
      BY <3>2
    <3> HIDE DEF Typed
    <3> QED BY <3>1, <3>3
  <2> QED BY <2>1, <2>2
<1>23. ASSUME NEW c \in Cancels, SetFlag(c) PROVE Phases'
  BY <1>23 DEF SetFlag, Goto
<1>24. ASSUME NEW c \in Cancels, LookWaiting(c) PROVE Phases'
  BY <1>24 DEF LookWaiting, Goto
<1>25. ASSUME NEW c \in Cancels, CloneConfig(c) PROVE Phases'
  BY <1>25 DEF CloneConfig, Goto
<1>26. ASSUME NEW c \in Cancels, SetState(c) PROVE Phases'
  BY <1>26 DEF SetState, Goto
<1>27. ASSUME NEW c \in Cancels, SaveCancelled(c) PROVE Phases'
  BY <1>27 DEF SaveCancelled, Saved, NotSaved, Goto
<1>28. ASSUME NEW c \in Cancels, FinishCancelled(c) PROVE Phases'
  BY <1>28 DEF FinishCancelled, Finish, Goto
<1>29. ASSUME NEW d \in Deletes, CheckDelete(d) PROVE Phases'
  BY <1>29 DEF CheckDelete, Goto
<1>30. ASSUME NEW d \in Deletes, Delete(d) PROVE Phases'
  BY <1>30 DEF Delete, Goto
<1> QED
  BY <1>1, <1>2, <1>3, <1>4, <1>5, <1>6, <1>7, <1>8, <1>9, <1>10, <1>11, <1>12,
     <1>13, <1>14, <1>15, <1>16, <1>17, <1>18, <1>19, <1>20, <1>21, <1>22, <1>23,
     <1>24, <1>25, <1>26, <1>27, <1>28, <1>29, <1>30
  DEF Next, Step, Worker, Forwarder, Deadline, Message, Cancel

\* A step that ends the turn a busy session waits for frees the session.
LEMMA BusyStep ==
    ASSUME IInv, Next
    PROVE  BusyHasTurn'
<1>a. Typed /\ Phases /\ BusyHasTurn /\ site' = site
  BY DEF IInv, Next
<1>b. Len(runs) \in Nat
  BY <1>a, LenProperties DEF Typed, Tables
<1> USE <1>a, <1>b, ConstantFacts
    DEF BusyHasTurn, Phases, Blocking, Typed, Tables, Installed,
        sessionVars, runVars, streamVars, storeVars, requestVars
<1>1. CASE Claim
  BY <1>1 DEF Claim
<1>2. ASSUME NEW r \in Installed, Start(r) PROVE BusyHasTurn'
  BY <1>2 DEF Start
<1>3. ASSUME NEW r \in Installed, Loop(r) PROVE BusyHasTurn'
  BY <1>3 DEF Loop
<1>4. ASSUME NEW r \in Installed, Report(r) PROVE BusyHasTurn'
  BY <1>4 DEF Report
<1>5. ASSUME NEW r \in Installed, WorkerEnds(r) PROVE BusyHasTurn'
  BY <1>5 DEF WorkerEnds, Finish
<1>6. ASSUME NEW r \in Installed, Panic(r) PROVE BusyHasTurn'
  BY <1>6 DEF Panic
<1>7. ASSUME NEW r \in Installed, Save(r) PROVE BusyHasTurn'
  <2>1. UNCHANGED <<status, current, slot, runs>>
    BY <1>7 DEF Save
  <2>2. /\ forwarder'[r] \in {"saved", "unsaved"}
        /\ \A q \in Installed : q # r => forwarder'[q] = forwarder[q]
    BY <1>7 DEF Save
  <2> HIDE DEF Typed, Tables, Phases, Blocking
  <2> QED BY <2>1, <2>2
<1>8. ASSUME NEW r \in Installed, Complete(r) PROVE BusyHasTurn'
  BY <1>8 DEF Complete, Finish
<1>9. ASSUME NEW r \in Installed, Tell(r) PROVE BusyHasTurn'
  BY <1>9 DEF Tell, Leave
<1>10. ASSUME NEW r \in Installed, GiveUp(r) PROVE BusyHasTurn'
  BY <1>10 DEF GiveUp, Finish, Leave
<1>11. ASSUME NEW r \in Installed, Break(r) PROVE BusyHasTurn'
  <2>1. UNCHANGED <<status, current, slot, runs>>
    BY <1>11 DEF Break
  <2>2. /\ forwarder[r] = "open" /\ forwarder'[r] = "aborting"
        /\ \A q \in Installed : q # r => forwarder'[q] = forwarder[q]
    BY <1>11 DEF Break
  <2> HIDE DEF Typed, Tables, Phases, Blocking
  <2> QED BY <2>1, <2>2
<1>12. ASSUME NEW r \in Installed, SaveAborted(r) PROVE BusyHasTurn'
  <2>1. UNCHANGED <<status, current, slot, runs>>
    BY <1>12 DEF SaveAborted
  <2>2. /\ forwarder[r] = "aborting" /\ forwarder'[r] \in {"aborted", "unaborted"}
        /\ \A q \in Installed : q # r => forwarder'[q] = forwarder[q]
    BY <1>12 DEF SaveAborted
  <2> HIDE DEF Typed, Tables, Phases, Blocking
  <2> QED BY <2>1, <2>2
<1>13. ASSUME NEW r \in Installed, CompleteAborted(r) PROVE BusyHasTurn'
  BY <1>13 DEF CompleteAborted, Finish, Leave
<1>14. ASSUME NEW r \in Installed, Wait(r) \/ Read(r) \/ StreamDrops(r) PROVE BusyHasTurn'
  <2>1. CASE Wait(r)
    BY <2>1 DEF Wait
  <2>2. CASE Read(r)
    BY <2>2 DEF Read
  <2>3. CASE StreamDrops(r)
    BY <2>3 DEF StreamDrops
  <2> QED BY <1>14, <2>1, <2>2, <2>3
<1>15. ASSUME NEW r \in Installed, Expire(r) PROVE BusyHasTurn'
  BY <1>15 DEF Expire, Saved, NotSaved
<1>16. ASSUME NEW r \in Installed, ExpireFails(r) PROVE BusyHasTurn'
  BY <1>16 DEF ExpireFails
<1>17. ASSUME NEW t \in Sends, Send(t) PROVE BusyHasTurn'
  BY <1>17 DEF Send, Goto
<1>18. ASSUME NEW t \in Sends, LookUp(t) PROVE BusyHasTurn'
  BY <1>18 DEF LookUp, Goto
<1>19. ASSUME NEW t \in Sends, Lock(t) PROVE BusyHasTurn'
  BY <1>19 DEF Lock, Goto
<1>20. ASSUME NEW t \in Sends, Refuse(t) PROVE BusyHasTurn'
  BY <1>20 DEF Refuse, Goto
<1>21. ASSUME NEW t \in Sends, ReadContext(t) PROVE BusyHasTurn'
  BY <1>21 DEF ReadContext, Goto
<1>22. ASSUME NEW t \in Sends, Install(t) PROVE BusyHasTurn'
  <2>1. CASE status \in Blocking
    <3>1. UNCHANGED <<status, current, slot, control, runs, runVars, flag, storeVars, seen>>
      BY <1>22, <2>1 DEF Install
    <3>2. request' = [request EXCEPT ![t] = "done"] /\ holder' = None
      BY <1>22 DEF Install, Goto
    <3> QED BY <3>1, <3>2
  <2>2. CASE status \notin Blocking
    <3> DEFINE k == Len(runs) + 1
    <3>1. /\ Installed' = Installed \cup {k} /\ k \notin Installed /\ k # 0
          /\ slot' = k /\ control' = k /\ status' = "waiting" /\ current' = MsgOf[t]
          /\ \A r \in Installed :
               /\ runs'[r] = runs[r] /\ deadline'[r] = deadline[r]
               /\ worker'[r] = worker[r] /\ result'[r] = result[r]
               /\ inbox'[r] = inbox[r] /\ forwarder'[r] = forwarder[r]
               /\ told'[r] = told[r]
          /\ runs'[k] = MsgOf[t] /\ deadline'[k] = "armed"
          /\ worker'[k] = "unborn" /\ result'[k] = None /\ inbox'[k] = None
          /\ forwarder'[k] = "unborn" /\ told'[k] = None
      BY <1>22, <2>2, InstallRun
    <3>2. UNCHANGED <<thread, faults, site>>
      BY <1>22 DEF Install
    <3> HIDE DEF k, Installed, Tables, Typed
    <3> QED BY <3>1, <3>2
  <2> QED BY <2>1, <2>2
<1>23. ASSUME NEW c \in Cancels, SetFlag(c) PROVE BusyHasTurn'
  BY <1>23 DEF SetFlag, Goto
<1>24. ASSUME NEW c \in Cancels, LookWaiting(c) PROVE BusyHasTurn'
  BY <1>24 DEF LookWaiting, Goto
<1>25. ASSUME NEW c \in Cancels, CloneConfig(c) PROVE BusyHasTurn'
  BY <1>25 DEF CloneConfig, Goto
<1>26. ASSUME NEW c \in Cancels, SetState(c) PROVE BusyHasTurn'
  BY <1>26 DEF SetState, Goto
<1>27. ASSUME NEW c \in Cancels, SaveCancelled(c) PROVE BusyHasTurn'
  BY <1>27 DEF SaveCancelled, Saved, NotSaved, Goto
<1>28. ASSUME NEW c \in Cancels, FinishCancelled(c) PROVE BusyHasTurn'
  BY <1>28 DEF FinishCancelled, Finish, Goto
<1>29. ASSUME NEW d \in Deletes, CheckDelete(d) PROVE BusyHasTurn'
  BY <1>29 DEF CheckDelete, Goto
<1>30. ASSUME NEW d \in Deletes, Delete(d) PROVE BusyHasTurn'
  BY <1>30 DEF Delete, Goto
<1> QED
  BY <1>1, <1>2, <1>3, <1>4, <1>5, <1>6, <1>7, <1>8, <1>9, <1>10, <1>11, <1>12,
     <1>13, <1>14, <1>15, <1>16, <1>17, <1>18, <1>19, <1>20, <1>21, <1>22, <1>23,
     <1>24, <1>25, <1>26, <1>27, <1>28, <1>29, <1>30
  DEF Next, Step, Worker, Forwarder, Deadline, Message, Cancel

\* Every step of a patient client keeps its requests apart.
LEMMA PatienceStep ==
    ASSUME IInv, Next
    PROVE  Patience'
<1>a. Typed /\ Phases /\ Patience /\ site' = site
  BY DEF IInv, Next
<1>b. Len(runs) \in Nat
  BY <1>a, LenProperties DEF Typed, Tables
<1> USE <1>a, <1>b, ConstantFacts
    DEF Patience, Phases, Blocking, Alone, Typed, Tables, Installed,
        sessionVars, runVars, streamVars, storeVars, requestVars
<1>1. CASE Claim
  BY <1>1 DEF Claim
<1>2. ASSUME NEW r \in Installed, Start(r) PROVE Patience'
  BY <1>2 DEF Start
<1>3. ASSUME NEW r \in Installed, Loop(r) PROVE Patience'
  BY <1>3 DEF Loop
<1>4. ASSUME NEW r \in Installed, Report(r) PROVE Patience'
  BY <1>4 DEF Report
<1>5. ASSUME NEW r \in Installed, WorkerEnds(r) PROVE Patience'
  BY <1>5 DEF WorkerEnds, Finish
<1>6. ASSUME NEW r \in Installed, Panic(r) PROVE Patience'
  BY <1>6 DEF Panic
<1>7. ASSUME NEW r \in Installed, Save(r) PROVE Patience'
  BY <1>7 DEF Save, Saved, NotSaved
<1>8. ASSUME NEW r \in Installed, Complete(r) PROVE Patience'
  BY <1>8 DEF Complete, Finish
<1>9. ASSUME NEW r \in Installed, Tell(r) PROVE Patience'
  BY <1>9 DEF Tell, Leave
<1>10. ASSUME NEW r \in Installed, GiveUp(r) PROVE Patience'
  BY <1>10 DEF GiveUp, Finish, Leave
<1>11. ASSUME NEW r \in Installed, Break(r) PROVE Patience'
  BY <1>11 DEF Break
<1>12. ASSUME NEW r \in Installed, SaveAborted(r) PROVE Patience'
  BY <1>12 DEF SaveAborted, Saved, NotSaved
<1>13. ASSUME NEW r \in Installed, CompleteAborted(r) PROVE Patience'
  BY <1>13 DEF CompleteAborted, Finish, Leave
<1>14. ASSUME NEW r \in Installed, Wait(r) \/ Read(r) \/ StreamDrops(r) PROVE Patience'
  BY <1>14 DEF Wait, Read, StreamDrops
<1>15. ASSUME NEW r \in Installed, Expire(r) PROVE Patience'
  BY <1>15 DEF Expire, Saved, NotSaved
<1>16. ASSUME NEW r \in Installed, ExpireFails(r) PROVE Patience'
  BY <1>16 DEF ExpireFails
<1>17. ASSUME NEW t \in Sends, Send(t) PROVE Patience'
  BY <1>17 DEF Send, Goto
<1>18. ASSUME NEW t \in Sends, LookUp(t) PROVE Patience'
  BY <1>18 DEF LookUp, Goto
<1>19. ASSUME NEW t \in Sends, Lock(t) PROVE Patience'
  BY <1>19 DEF Lock, Goto
<1>20. ASSUME NEW t \in Sends, Refuse(t) PROVE Patience'
  BY <1>20 DEF Refuse, Goto
<1>21. ASSUME NEW t \in Sends, ReadContext(t) PROVE Patience'
  BY <1>21 DEF ReadContext, Goto
<1>22. ASSUME NEW t \in Sends, Install(t) PROVE Patience'
  <2>1. CASE status \in Blocking
    <3>1. UNCHANGED <<status, current, slot, control, runs, runVars, flag, storeVars, seen>>
      BY <1>22, <2>1 DEF Install
    <3>2. request' = [request EXCEPT ![t] = "done"] /\ holder' = None
      BY <1>22 DEF Install, Goto
    <3> QED BY <3>1, <3>2
  <2>2. CASE status \notin Blocking
    <3>1. status' = "waiting" /\ thread' = thread
      BY <1>22, <2>2 DEF Install
    <3>2. request' = [request EXCEPT ![t] = "done"] /\ request[t] = "install"
      BY <1>22 DEF Install, Goto
    <3>3. site.patient => thread /\ \A q \in Requests : request'[q] \in {"unsent", "done"}
      BY <3>2
    <3> HIDE DEF Typed, Tables, Phases, Blocking
    <3> QED BY <3>1, <3>2, <3>3
  <2> QED BY <2>1, <2>2
<1>23. ASSUME NEW c \in Cancels, SetFlag(c) PROVE Patience'
  BY <1>23 DEF SetFlag, Goto
<1>24. ASSUME NEW c \in Cancels, LookWaiting(c) PROVE Patience'
  BY <1>24 DEF LookWaiting, Goto
<1>25. ASSUME NEW c \in Cancels, CloneConfig(c) PROVE Patience'
  BY <1>25 DEF CloneConfig, Goto
<1>26. ASSUME NEW c \in Cancels, SetState(c) PROVE Patience'
  BY <1>26 DEF SetState, Goto
<1>27. ASSUME NEW c \in Cancels, SaveCancelled(c) PROVE Patience'
  <2>1. /\ \E place \in {"finish", "done"} : request' = [request EXCEPT ![c] = place]
        /\ UNCHANGED <<status, thread>> /\ request[c] = "save"
    BY <1>27 DEF SaveCancelled, Saved, NotSaved, Goto
  <2> QED BY <2>1
<1>28. ASSUME NEW c \in Cancels, FinishCancelled(c) PROVE Patience'
  BY <1>28 DEF FinishCancelled, Finish, Goto
<1>29. ASSUME NEW d \in Deletes, CheckDelete(d) PROVE Patience'
  BY <1>29 DEF CheckDelete, Goto
<1>30. ASSUME NEW d \in Deletes, Delete(d) PROVE Patience'
  <2>1. site.patient => status \notin Blocking
    BY <1>30 DEF Delete
  <2>2. /\ request' = [request EXCEPT ![d] = "done"] /\ UNCHANGED <<status, site>>
        /\ request[d] = "delete"
    BY <1>30 DEF Delete, Goto
  <2>3. site.patient => \A q \in Requests : request'[q] \in {"unsent", "done"}
    BY <2>2
  <2>4. status = "waiting" => status \in Blocking
    OBVIOUS
  <2> HIDE DEF Blocking
  <2> QED BY <2>1, <2>2, <2>3, <2>4
<1> QED
  BY <1>1, <1>2, <1>3, <1>4, <1>5, <1>6, <1>7, <1>8, <1>9, <1>10, <1>11, <1>12,
     <1>13, <1>14, <1>15, <1>16, <1>17, <1>18, <1>19, <1>20, <1>21, <1>22, <1>23,
     <1>24, <1>25, <1>26, <1>27, <1>28, <1>29, <1>30
  DEF Next, Step, Worker, Forwarder, Deadline, Message, Cancel

\* A deadline that errs has used up a database error.
LEMMA ErringStep ==
    ASSUME IInv, Next
    PROVE  ErringCost'
<1>a. Typed /\ Patience /\ ErringCost /\ site' = site
  BY DEF IInv, Next
<1>b. Len(runs) \in Nat
  BY <1>a, LenProperties DEF Typed, Tables
<1> USE <1>a, <1>b, ConstantFacts
    DEF ErringCost, Patience, Blocking, Typed, Tables, Installed,
        sessionVars, runVars, streamVars, storeVars, requestVars
<1>1. CASE Claim
  BY <1>1 DEF Claim
<1>2. ASSUME NEW r \in Installed, Start(r) PROVE ErringCost'
  BY <1>2 DEF Start
<1>3. ASSUME NEW r \in Installed, Loop(r) PROVE ErringCost'
  BY <1>3 DEF Loop
<1>4. ASSUME NEW r \in Installed, Report(r) PROVE ErringCost'
  BY <1>4 DEF Report
<1>5. ASSUME NEW r \in Installed, WorkerEnds(r) PROVE ErringCost'
  BY <1>5 DEF WorkerEnds, Finish
<1>6. ASSUME NEW r \in Installed, Panic(r) PROVE ErringCost'
  BY <1>6 DEF Panic
<1>7. ASSUME NEW r \in Installed, Save(r) PROVE ErringCost'
  BY <1>7 DEF Save, Saved, NotSaved
<1>8. ASSUME NEW r \in Installed, Complete(r) PROVE ErringCost'
  BY <1>8 DEF Complete, Finish
<1>9. ASSUME NEW r \in Installed, Tell(r) PROVE ErringCost'
  BY <1>9 DEF Tell, Leave
<1>10. ASSUME NEW r \in Installed, GiveUp(r) PROVE ErringCost'
  BY <1>10 DEF GiveUp, Finish, Leave
<1>11. ASSUME NEW r \in Installed, Break(r) PROVE ErringCost'
  BY <1>11 DEF Break
<1>12. ASSUME NEW r \in Installed, SaveAborted(r) PROVE ErringCost'
  BY <1>12 DEF SaveAborted, Saved, NotSaved
<1>13. ASSUME NEW r \in Installed, CompleteAborted(r) PROVE ErringCost'
  BY <1>13 DEF CompleteAborted, Finish, Leave
<1>14. ASSUME NEW r \in Installed, Wait(r) \/ Read(r) \/ StreamDrops(r) PROVE ErringCost'
  BY <1>14 DEF Wait, Read, StreamDrops
<1>15. ASSUME NEW r \in Installed, Expire(r) PROVE ErringCost'
  BY <1>15 DEF Expire, Saved, NotSaved
<1>16. ASSUME NEW r \in Installed, ExpireFails(r) PROVE ErringCost'
  BY <1>16 DEF ExpireFails
<1>17. ASSUME NEW t \in Sends, Send(t) PROVE ErringCost'
  BY <1>17 DEF Send, Goto
<1>18. ASSUME NEW t \in Sends, LookUp(t) PROVE ErringCost'
  BY <1>18 DEF LookUp, Goto
<1>19. ASSUME NEW t \in Sends, Lock(t) PROVE ErringCost'
  BY <1>19 DEF Lock, Goto
<1>20. ASSUME NEW t \in Sends, Refuse(t) PROVE ErringCost'
  BY <1>20 DEF Refuse, Goto
<1>21. ASSUME NEW t \in Sends, ReadContext(t) PROVE ErringCost'
  BY <1>21 DEF ReadContext, Goto
<1>22. ASSUME NEW t \in Sends, Install(t) PROVE ErringCost'
  <2>1. CASE status \in Blocking
    <3>1. UNCHANGED <<status, current, slot, control, runs, runVars, flag, storeVars, seen>>
      BY <1>22, <2>1 DEF Install
    <3>2. request' = [request EXCEPT ![t] = "done"] /\ holder' = None
      BY <1>22 DEF Install, Goto
    <3> QED BY <3>1, <3>2
  <2>2. CASE status \notin Blocking
    <3> DEFINE k == Len(runs) + 1
    <3>1. /\ Installed' = Installed \cup {k} /\ k \notin Installed /\ k # 0
          /\ slot' = k /\ control' = k /\ status' = "waiting" /\ current' = MsgOf[t]
          /\ \A r \in Installed :
               /\ runs'[r] = runs[r] /\ deadline'[r] = deadline[r]
               /\ worker'[r] = worker[r] /\ result'[r] = result[r]
               /\ inbox'[r] = inbox[r] /\ forwarder'[r] = forwarder[r]
               /\ told'[r] = told[r]
          /\ runs'[k] = MsgOf[t] /\ deadline'[k] = "armed"
          /\ worker'[k] = "unborn" /\ result'[k] = None /\ inbox'[k] = None
          /\ forwarder'[k] = "unborn" /\ told'[k] = None
      BY <1>22, <2>2, InstallRun
    <3>2. UNCHANGED <<thread, faults, site>>
      BY <1>22 DEF Install
    <3> HIDE DEF k, Installed, Tables, Typed
    <3> QED BY <3>1, <3>2
  <2> QED BY <2>1, <2>2
<1>23. ASSUME NEW c \in Cancels, SetFlag(c) PROVE ErringCost'
  BY <1>23 DEF SetFlag, Goto
<1>24. ASSUME NEW c \in Cancels, LookWaiting(c) PROVE ErringCost'
  BY <1>24 DEF LookWaiting, Goto
<1>25. ASSUME NEW c \in Cancels, CloneConfig(c) PROVE ErringCost'
  BY <1>25 DEF CloneConfig, Goto
<1>26. ASSUME NEW c \in Cancels, SetState(c) PROVE ErringCost'
  BY <1>26 DEF SetState, Goto
<1>27. ASSUME NEW c \in Cancels, SaveCancelled(c) PROVE ErringCost'
  BY <1>27 DEF SaveCancelled, Saved, NotSaved, Goto
<1>28. ASSUME NEW c \in Cancels, FinishCancelled(c) PROVE ErringCost'
  BY <1>28 DEF FinishCancelled, Finish, Goto
<1>29. ASSUME NEW d \in Deletes, CheckDelete(d) PROVE ErringCost'
  BY <1>29 DEF CheckDelete, Goto
<1>30. ASSUME NEW d \in Deletes, Delete(d) PROVE ErringCost'
  BY <1>30 DEF Delete, Goto
<1> QED
  BY <1>1, <1>2, <1>3, <1>4, <1>5, <1>6, <1>7, <1>8, <1>9, <1>10, <1>11, <1>12,
     <1>13, <1>14, <1>15, <1>16, <1>17, <1>18, <1>19, <1>20, <1>21, <1>22, <1>23,
     <1>24, <1>25, <1>26, <1>27, <1>28, <1>29, <1>30
  DEF Next, Step, Worker, Forwarder, Deadline, Message, Cancel

\* While no message is repeated, no step gives an id to a second run.
LEMMA IdsStep ==
    ASSUME IInv, NoRepeats, IdsInUse, Next
    PROVE  IdsInUse'
<1>a. Typed /\ Phases /\ IdsInUse /\ NoRepeats /\ site' = site
  BY DEF IInv, Next
<1>b. Len(runs) \in Nat /\ \A r \in Installed : runs[r] \in Msgs
  BY <1>a, LenProperties, ElementOfSeq DEF Typed, Tables, Installed
<1> USE <1>a, <1>b, ConstantFacts
    DEF IdsInUse, NoRepeats, Phases, Typed, Tables, Installed,
        sessionVars, runVars, streamVars, storeVars, requestVars
<1>1. CASE Claim
  BY <1>1 DEF Claim
<1>2. ASSUME NEW r \in Installed, Start(r) PROVE IdsInUse'
  BY <1>2 DEF Start
<1>3. ASSUME NEW r \in Installed, Loop(r) PROVE IdsInUse'
  BY <1>3 DEF Loop
<1>4. ASSUME NEW r \in Installed, Report(r) PROVE IdsInUse'
  BY <1>4 DEF Report
<1>5. ASSUME NEW r \in Installed, WorkerEnds(r) PROVE IdsInUse'
  BY <1>5 DEF WorkerEnds, Finish
<1>6. ASSUME NEW r \in Installed, Panic(r) PROVE IdsInUse'
  BY <1>6 DEF Panic
<1>7. ASSUME NEW r \in Installed, Save(r) PROVE IdsInUse'
  BY <1>7 DEF Save, Saved, NotSaved
<1>8. ASSUME NEW r \in Installed, Complete(r) PROVE IdsInUse'
  BY <1>8 DEF Complete, Finish
<1>9. ASSUME NEW r \in Installed, Tell(r) PROVE IdsInUse'
  BY <1>9 DEF Tell, Leave
<1>10. ASSUME NEW r \in Installed, GiveUp(r) PROVE IdsInUse'
  BY <1>10 DEF GiveUp, Finish, Leave
<1>11. ASSUME NEW r \in Installed, Break(r) PROVE IdsInUse'
  BY <1>11 DEF Break
<1>12. ASSUME NEW r \in Installed, SaveAborted(r) PROVE IdsInUse'
  BY <1>12 DEF SaveAborted, Saved, NotSaved
<1>13. ASSUME NEW r \in Installed, CompleteAborted(r) PROVE IdsInUse'
  BY <1>13 DEF CompleteAborted, Finish, Leave
<1>14. ASSUME NEW r \in Installed, Wait(r) \/ Read(r) \/ StreamDrops(r) PROVE IdsInUse'
  <2>1. CASE Wait(r)
    BY <2>1 DEF Wait
  <2>2. CASE Read(r)
    BY <2>2 DEF Read
  <2>3. CASE StreamDrops(r)
    BY <2>3 DEF StreamDrops
  <2> QED BY <1>14, <2>1, <2>2, <2>3
<1>15. ASSUME NEW r \in Installed, Expire(r) PROVE IdsInUse'
  BY <1>15 DEF Expire, Saved, NotSaved
<1>16. ASSUME NEW r \in Installed, ExpireFails(r) PROVE IdsInUse'
  BY <1>16 DEF ExpireFails
<1>17. ASSUME NEW t \in Sends, Send(t) PROVE IdsInUse'
  BY <1>17 DEF Send, Goto
<1>18. ASSUME NEW t \in Sends, LookUp(t) PROVE IdsInUse'
  BY <1>18 DEF LookUp, Goto
<1>19. ASSUME NEW t \in Sends, Lock(t) PROVE IdsInUse'
  BY <1>19 DEF Lock, Goto
<1>20. ASSUME NEW t \in Sends, Refuse(t) PROVE IdsInUse'
  BY <1>20 DEF Refuse, Goto
<1>21. ASSUME NEW t \in Sends, ReadContext(t) PROVE IdsInUse'
  BY <1>21 DEF ReadContext, Goto
<1>22. ASSUME NEW t \in Sends, Install(t) PROVE IdsInUse'
  <2>1. CASE status \in Blocking
    <3>1. UNCHANGED <<status, current, slot, control, runs, runVars, flag, storeVars, seen>>
      BY <1>22, <2>1 DEF Install
    <3>2. request' = [request EXCEPT ![t] = "done"] /\ holder' = None
      BY <1>22 DEF Install, Goto
    <3> QED BY <3>1, <3>2
  <2>2. CASE status \notin Blocking
    <3> DEFINE k == Len(runs) + 1
    <3>1. /\ Installed' = Installed \cup {k} /\ k \notin Installed /\ k # 0
          /\ slot' = k /\ control' = k /\ status' = "waiting" /\ current' = MsgOf[t]
          /\ \A r \in Installed :
               /\ runs'[r] = runs[r] /\ deadline'[r] = deadline[r]
               /\ worker'[r] = worker[r] /\ result'[r] = result[r]
               /\ inbox'[r] = inbox[r] /\ forwarder'[r] = forwarder[r]
               /\ told'[r] = told[r]
          /\ runs'[k] = MsgOf[t] /\ deadline'[k] = "armed"
          /\ worker'[k] = "unborn" /\ result'[k] = None /\ inbox'[k] = None
          /\ forwarder'[k] = "unborn" /\ told'[k] = None
      BY <1>22, <2>2, InstallRun
    <3>2. /\ UNCHANGED <<thread, stored, flag, seen, site>>
          /\ request' = [request EXCEPT ![t] = "done"] /\ request[t] = "install"
      BY <1>22 DEF Install, Goto
    <3> HIDE DEF k, Installed, Tables
    <3>3. \A r \in Installed : runs[r] # MsgOf[t]
      BY <3>2
    <3>4. \A q, r \in Installed' : runs'[q] = runs'[r] => q = r
      BY <3>1, <3>3
    <3>5. ASSUME NEW r \in Installed'
          PROVE  \/ runs'[r] = First
                 \/ \E u \in Sends : runs'[r] = MsgOf[u] /\ request'[u] = "done"
      <4>1. request'[t] = "done" /\ \A u \in Sends : request[u] = "done" => request'[u] = "done"
        BY <3>2
      <4> HIDE DEF Typed, Phases
      <4> QED BY <3>1, <4>1
    <3>6. \A m \in Msgs : stored'[m] # None => \E r \in Installed' : runs'[r] = m
      BY <3>1, <3>2
    <3> QED BY <3>4, <3>5, <3>6
  <2> QED BY <2>1, <2>2
<1>23. ASSUME NEW c \in Cancels, SetFlag(c) PROVE IdsInUse'
  BY <1>23 DEF SetFlag, Goto
<1>24. ASSUME NEW c \in Cancels, LookWaiting(c) PROVE IdsInUse'
  BY <1>24 DEF LookWaiting, Goto
<1>25. ASSUME NEW c \in Cancels, CloneConfig(c) PROVE IdsInUse'
  BY <1>25 DEF CloneConfig, Goto
<1>26. ASSUME NEW c \in Cancels, SetState(c) PROVE IdsInUse'
  BY <1>26 DEF SetState, Goto
<1>27. ASSUME NEW c \in Cancels, SaveCancelled(c) PROVE IdsInUse'
  BY <1>27 DEF SaveCancelled, Saved, NotSaved, Goto
<1>28. ASSUME NEW c \in Cancels, FinishCancelled(c) PROVE IdsInUse'
  BY <1>28 DEF FinishCancelled, Finish, Goto
<1>29. ASSUME NEW d \in Deletes, CheckDelete(d) PROVE IdsInUse'
  BY <1>29 DEF CheckDelete, Goto
<1>30. ASSUME NEW d \in Deletes, Delete(d) PROVE IdsInUse'
  BY <1>30 DEF Delete, Goto
<1> QED
  BY <1>1, <1>2, <1>3, <1>4, <1>5, <1>6, <1>7, <1>8, <1>9, <1>10, <1>11, <1>12,
     <1>13, <1>14, <1>15, <1>16, <1>17, <1>18, <1>19, <1>20, <1>21, <1>22, <1>23,
     <1>24, <1>25, <1>26, <1>27, <1>28, <1>29, <1>30
  DEF Next, Step, Worker, Forwarder, Deadline, Message, Cancel

\* A run that cannot answer never can again.
LEMMA DoomedStep ==
    ASSUME IInv, NEW k \in Installed, Doomed(k), Next
    PROVE  Doomed(k)'
<1>a. Typed /\ Phases /\ Doomed(k) /\ site' = site
  BY DEF IInv, Next
<1>b. Len(runs) \in Nat /\ \A r \in Installed : runs[r] \in Msgs
  BY <1>a, LenProperties, ElementOfSeq DEF Typed, Tables, Installed
<1> USE <1>a, <1>b, ConstantFacts
    DEF Doomed, Phases, Typed, Tables, Installed,
        sessionVars, runVars, streamVars, storeVars, requestVars
<1>1. CASE Claim
  BY <1>1 DEF Claim
<1>2. ASSUME NEW r \in Installed, Start(r) PROVE Doomed(k)'
  BY <1>2 DEF Start
<1>3. ASSUME NEW r \in Installed, Loop(r) PROVE Doomed(k)'
  BY <1>3 DEF Loop
<1>4. ASSUME NEW r \in Installed, Report(r) PROVE Doomed(k)'
  BY <1>4 DEF Report
<1>5. ASSUME NEW r \in Installed, WorkerEnds(r) PROVE Doomed(k)'
  BY <1>5 DEF WorkerEnds, Finish
<1>6. ASSUME NEW r \in Installed, Panic(r) PROVE Doomed(k)'
  BY <1>6 DEF Panic
<1>7. ASSUME NEW r \in Installed, Save(r) PROVE Doomed(k)'
  BY <1>7 DEF Save, Saved, NotSaved
<1>8. ASSUME NEW r \in Installed, Complete(r) PROVE Doomed(k)'
  BY <1>8 DEF Complete, Finish
<1>9. ASSUME NEW r \in Installed, Tell(r) PROVE Doomed(k)'
  BY <1>9 DEF Tell, Leave
<1>10. ASSUME NEW r \in Installed, GiveUp(r) PROVE Doomed(k)'
  BY <1>10 DEF GiveUp, Finish, Leave
<1>11. ASSUME NEW r \in Installed, Break(r) PROVE Doomed(k)'
  BY <1>11 DEF Break
<1>12. ASSUME NEW r \in Installed, SaveAborted(r) PROVE Doomed(k)'
  BY <1>12 DEF SaveAborted, Saved, NotSaved
<1>13. ASSUME NEW r \in Installed, CompleteAborted(r) PROVE Doomed(k)'
  BY <1>13 DEF CompleteAborted, Finish, Leave
<1>14. ASSUME NEW r \in Installed, Wait(r) \/ Read(r) \/ StreamDrops(r) PROVE Doomed(k)'
  BY <1>14 DEF Wait, Read, StreamDrops
<1>15. ASSUME NEW r \in Installed, Expire(r) PROVE Doomed(k)'
  BY <1>15 DEF Expire, Saved, NotSaved
<1>16. ASSUME NEW r \in Installed, ExpireFails(r) PROVE Doomed(k)'
  BY <1>16 DEF ExpireFails
<1>17. ASSUME NEW t \in Sends, Send(t) PROVE Doomed(k)'
  BY <1>17 DEF Send, Goto
<1>18. ASSUME NEW t \in Sends, LookUp(t) PROVE Doomed(k)'
  BY <1>18 DEF LookUp, Goto
<1>19. ASSUME NEW t \in Sends, Lock(t) PROVE Doomed(k)'
  BY <1>19 DEF Lock, Goto
<1>20. ASSUME NEW t \in Sends, Refuse(t) PROVE Doomed(k)'
  BY <1>20 DEF Refuse, Goto
<1>21. ASSUME NEW t \in Sends, ReadContext(t) PROVE Doomed(k)'
  BY <1>21 DEF ReadContext, Goto
<1>22. ASSUME NEW t \in Sends, Install(t) PROVE Doomed(k)'
  <2>1. CASE status \in Blocking
    <3>1. UNCHANGED <<status, current, slot, control, runs, runVars, flag, storeVars, seen>>
      BY <1>22, <2>1 DEF Install
    <3>2. request' = [request EXCEPT ![t] = "done"] /\ holder' = None
      BY <1>22 DEF Install, Goto
    <3> QED BY <3>1, <3>2
  <2>2. CASE status \notin Blocking
    <3> DEFINE n == Len(runs) + 1
    <3>1. /\ Installed' = Installed \cup {n} /\ n \notin Installed /\ n # 0
          /\ slot' = n /\ control' = n /\ status' = "waiting" /\ current' = MsgOf[t]
          /\ \A r \in Installed :
               /\ runs'[r] = runs[r] /\ deadline'[r] = deadline[r]
               /\ worker'[r] = worker[r] /\ result'[r] = result[r]
               /\ inbox'[r] = inbox[r] /\ forwarder'[r] = forwarder[r]
               /\ told'[r] = told[r]
          /\ runs'[n] = MsgOf[t] /\ deadline'[n] = "armed"
          /\ worker'[n] = "unborn" /\ result'[n] = None /\ inbox'[n] = None
          /\ forwarder'[n] = "unborn" /\ told'[n] = None
      BY <1>22, <2>2, InstallRun
    <3>2. /\ UNCHANGED <<thread, stored, flag, seen, site>>
          /\ request' = [request EXCEPT ![t] = "done"] /\ request[t] = "install"
      BY <1>22 DEF Install, Goto
    <3> HIDE DEF n, Installed
    <3> QED BY <3>1, <3>2
  <2> QED BY <2>1, <2>2
<1>23. ASSUME NEW c \in Cancels, SetFlag(c) PROVE Doomed(k)'
  BY <1>23 DEF SetFlag, Goto
<1>24. ASSUME NEW c \in Cancels, LookWaiting(c) PROVE Doomed(k)'
  BY <1>24 DEF LookWaiting, Goto
<1>25. ASSUME NEW c \in Cancels, CloneConfig(c) PROVE Doomed(k)'
  BY <1>25 DEF CloneConfig, Goto
<1>26. ASSUME NEW c \in Cancels, SetState(c) PROVE Doomed(k)'
  BY <1>26 DEF SetState, Goto
<1>27. ASSUME NEW c \in Cancels, SaveCancelled(c) PROVE Doomed(k)'
  BY <1>27 DEF SaveCancelled, Saved, NotSaved, Goto
<1>28. ASSUME NEW c \in Cancels, FinishCancelled(c) PROVE Doomed(k)'
  BY <1>28 DEF FinishCancelled, Finish, Goto
<1>29. ASSUME NEW d \in Deletes, CheckDelete(d) PROVE Doomed(k)'
  BY <1>29 DEF CheckDelete, Goto
<1>30. ASSUME NEW d \in Deletes, Delete(d) PROVE Doomed(k)'
  BY <1>30 DEF Delete, Goto
<1> QED
  BY <1>1, <1>2, <1>3, <1>4, <1>5, <1>6, <1>7, <1>8, <1>9, <1>10, <1>11, <1>12,
     <1>13, <1>14, <1>15, <1>16, <1>17, <1>18, <1>19, <1>20, <1>21, <1>22, <1>23,
     <1>24, <1>25, <1>26, <1>27, <1>28, <1>29, <1>30
  DEF Next, Step, Worker, Forwarder, Deadline, Message, Cancel

\* Every step of a session with a patient client keeps the runs a cancel request
\* found unclaimed from answering.
LEMMA CancelStep ==
    ASSUME IInv, site.patient, CancelDooms, Next
    PROVE  CancelDooms'
<1>a. Typed /\ Phases /\ Patience /\ CancelDooms /\ site' = site
  BY DEF IInv, Next
<1>b. Len(runs) \in Nat /\ \A r \in Installed : runs[r] \in Msgs
  BY <1>a, LenProperties, ElementOfSeq DEF Typed, Tables, Installed
<1> USE <1>a, <1>b, ConstantFacts, DoomedStep
    DEF CancelDooms, Patience, Phases, Typed, Tables, Installed,
        sessionVars, runVars, streamVars, storeVars, requestVars
<1>1. CASE Claim
  BY <1>1 DEF Claim
<1>2. ASSUME NEW r \in Installed, Start(r) PROVE CancelDooms'
  BY <1>2 DEF Start
<1>3. ASSUME NEW r \in Installed, Loop(r) PROVE CancelDooms'
  BY <1>3 DEF Loop
<1>4. ASSUME NEW r \in Installed, Report(r) PROVE CancelDooms'
  BY <1>4 DEF Report
<1>5. ASSUME NEW r \in Installed, WorkerEnds(r) PROVE CancelDooms'
  BY <1>5 DEF WorkerEnds, Finish
<1>6. ASSUME NEW r \in Installed, Panic(r) PROVE CancelDooms'
  BY <1>6 DEF Panic
<1>7. ASSUME NEW r \in Installed, Save(r) PROVE CancelDooms'
  BY <1>7 DEF Save, Saved, NotSaved
<1>8. ASSUME NEW r \in Installed, Complete(r) PROVE CancelDooms'
  BY <1>8 DEF Complete, Finish
<1>9. ASSUME NEW r \in Installed, Tell(r) PROVE CancelDooms'
  BY <1>9 DEF Tell, Leave
<1>10. ASSUME NEW r \in Installed, GiveUp(r) PROVE CancelDooms'
  BY <1>10 DEF GiveUp, Finish, Leave
<1>11. ASSUME NEW r \in Installed, Break(r) PROVE CancelDooms'
  BY <1>11 DEF Break
<1>12. ASSUME NEW r \in Installed, SaveAborted(r) PROVE CancelDooms'
  BY <1>12 DEF SaveAborted, Saved, NotSaved
<1>13. ASSUME NEW r \in Installed, CompleteAborted(r) PROVE CancelDooms'
  BY <1>13 DEF CompleteAborted, Finish, Leave
<1>14. ASSUME NEW r \in Installed, Wait(r) \/ Read(r) \/ StreamDrops(r) PROVE CancelDooms'
  BY <1>14 DEF Wait, Read, StreamDrops
<1>15. ASSUME NEW r \in Installed, Expire(r) PROVE CancelDooms'
  BY <1>15 DEF Expire, Saved, NotSaved
<1>16. ASSUME NEW r \in Installed, ExpireFails(r) PROVE CancelDooms'
  BY <1>16 DEF ExpireFails
<1>17. ASSUME NEW t \in Sends, Send(t) PROVE CancelDooms'
  BY <1>17 DEF Send, Goto
<1>18. ASSUME NEW t \in Sends, LookUp(t) PROVE CancelDooms'
  BY <1>18 DEF LookUp, Goto
<1>19. ASSUME NEW t \in Sends, Lock(t) PROVE CancelDooms'
  BY <1>19 DEF Lock, Goto
<1>20. ASSUME NEW t \in Sends, Refuse(t) PROVE CancelDooms'
  BY <1>20 DEF Refuse, Goto
<1>21. ASSUME NEW t \in Sends, ReadContext(t) PROVE CancelDooms'
  BY <1>21 DEF ReadContext, Goto
<1>22. ASSUME NEW t \in Sends, Install(t) PROVE CancelDooms'
  <2>1. CASE status \in Blocking
    <3>1. UNCHANGED <<status, current, slot, control, runs, runVars, flag, storeVars, seen>>
      BY <1>22, <2>1 DEF Install
    <3>2. request' = [request EXCEPT ![t] = "done"] /\ holder' = None
      BY <1>22 DEF Install, Goto
    <3> QED BY <3>1, <3>2
  <2>2. CASE status \notin Blocking
    <3> DEFINE k == Len(runs) + 1
    <3>1. /\ Installed' = Installed \cup {k} /\ k \notin Installed /\ k # 0
          /\ slot' = k /\ control' = k /\ status' = "waiting" /\ current' = MsgOf[t]
          /\ \A r \in Installed :
               /\ runs'[r] = runs[r] /\ deadline'[r] = deadline[r]
               /\ worker'[r] = worker[r] /\ result'[r] = result[r]
               /\ inbox'[r] = inbox[r] /\ forwarder'[r] = forwarder[r]
               /\ told'[r] = told[r]
          /\ runs'[k] = MsgOf[t] /\ deadline'[k] = "armed"
          /\ worker'[k] = "unborn" /\ result'[k] = None /\ inbox'[k] = None
          /\ forwarder'[k] = "unborn" /\ told'[k] = None
      BY <1>22, <2>2, InstallRun
    <3>2. /\ UNCHANGED <<thread, stored, flag, seen, site>>
          /\ request' = [request EXCEPT ![t] = "done"] /\ request[t] = "install"
      BY <1>22 DEF Install, Goto
    <3> HIDE DEF k, Installed, Tables
    <3>3. \A c \in Cancels : request'[c] \notin {"look", "config"}
      BY <3>2
    <3>4. ASSUME NEW c \in Cancels, seen'[c] # 0
          PROVE  Doomed(seen[c])'
      <4>1. seen'[c] = seen[c] /\ seen[c] \in Installed
        BY <3>2, <3>4
      <4>2. Doomed(seen[c])
        BY <3>4, <4>1
      <4> HIDE DEF Typed, Phases, Patience, CancelDooms
      <4> QED BY <3>1, <3>2, <4>1, <4>2 DEF Doomed
    <3> HIDE DEF Typed, Phases, Patience
    <3> QED BY <3>3, <3>4
  <2> QED BY <2>1, <2>2
<1>23. ASSUME NEW c \in Cancels, SetFlag(c) PROVE CancelDooms'
  BY <1>23 DEF SetFlag, Goto
<1>24. ASSUME NEW c \in Cancels, LookWaiting(c) PROVE CancelDooms'
  BY <1>24 DEF LookWaiting, Goto
<1>25. ASSUME NEW c \in Cancels, CloneConfig(c) PROVE CancelDooms'
  <2>1. \A q \in Installed : Doomed(q) => Doomed(q)'
    BY DoomedStep
  <2>2. slot # 0 => slot \in flag
    BY <1>25 DEF CloneConfig
  <2>3. slot # 0 => Doomed(slot)
    BY <2>2 DEF Doomed
  <2>4. /\ request' = [request EXCEPT ![c] = "state"]
        /\ seen' = [seen EXCEPT ![c] = slot] /\ UNCHANGED <<slot, flag>>
    BY <1>25 DEF CloneConfig, Goto
  <2> HIDE DEF Tables, Phases, Patience
  <2> QED BY <2>1, <2>3, <2>4
<1>26. ASSUME NEW c \in Cancels, SetState(c) PROVE CancelDooms'
  BY <1>26 DEF SetState, Goto
<1>27. ASSUME NEW c \in Cancels, SaveCancelled(c) PROVE CancelDooms'
  BY <1>27 DEF SaveCancelled, Saved, NotSaved, Goto
<1>28. ASSUME NEW c \in Cancels, FinishCancelled(c) PROVE CancelDooms'
  BY <1>28 DEF FinishCancelled, Finish, Goto
<1>29. ASSUME NEW d \in Deletes, CheckDelete(d) PROVE CancelDooms'
  BY <1>29 DEF CheckDelete, Goto
<1>30. ASSUME NEW d \in Deletes, Delete(d) PROVE CancelDooms'
  BY <1>30 DEF Delete, Goto
<1> QED
  BY <1>1, <1>2, <1>3, <1>4, <1>5, <1>6, <1>7, <1>8, <1>9, <1>10, <1>11, <1>12,
     <1>13, <1>14, <1>15, <1>16, <1>17, <1>18, <1>19, <1>20, <1>21, <1>22, <1>23,
     <1>24, <1>25, <1>26, <1>27, <1>28, <1>29, <1>30
  DEF Next, Step, Worker, Forwarder, Deadline, Message, Cancel

\* Every step of a session with a patient client saves an answer before it is shown.
LEMMA SavedStep ==
    ASSUME IInv, site.patient, IdsInUse, IdsInUse', CancelDooms, SavedFirst, Next
    PROVE  SavedFirst'
<1>a. Typed /\ Phases /\ Patience /\ IdsInUse /\ CancelDooms /\ SavedFirst /\ site' = site
  BY DEF IInv, Next
<1>b. Len(runs) \in Nat /\ \A r \in Installed : runs[r] \in Msgs
  BY <1>a, LenProperties, ElementOfSeq DEF Typed, Tables, Installed
<1> USE <1>a, <1>b, ConstantFacts, DoomedStep
    DEF SavedFirst, IdsInUse, CancelDooms, Patience, Phases, Typed, Tables, Installed,
        sessionVars, runVars, streamVars, storeVars, requestVars
<1>1. CASE Claim
  BY <1>1 DEF Claim
<1>2. ASSUME NEW r \in Installed, Start(r) PROVE SavedFirst'
  BY <1>2 DEF Start
<1>3. ASSUME NEW r \in Installed, Loop(r) PROVE SavedFirst'
  BY <1>3 DEF Loop
<1>4. ASSUME NEW r \in Installed, Report(r) PROVE SavedFirst'
  <2>1. \A q \in Installed : Doomed(q) => Doomed(q)'
    BY DoomedStep
  <2>2. UNCHANGED <<status, slot, runs, forwarder, told, thread, stored>>
    BY <1>4 DEF Report
  <2>3. worker[r] = "running" /\ \A q \in Installed : q # r => inbox'[q] = inbox[q]
    BY <1>4 DEF Report
  <2>4. forwarder[r] \notin {"saved", "telling"}
    BY <2>3
  <2> HIDE DEF Typed, Tables, Phases, Patience
  <2> QED BY <2>1, <2>2, <2>3, <2>4
<1>5. ASSUME NEW r \in Installed, WorkerEnds(r) PROVE SavedFirst'
  BY <1>5 DEF WorkerEnds, Finish
<1>6. ASSUME NEW r \in Installed, Panic(r) PROVE SavedFirst'
  BY <1>6 DEF Panic
<1>7. ASSUME NEW r \in Installed, Save(r) PROVE SavedFirst'
  <2>1. \A q \in Installed : Doomed(q) => Doomed(q)'
    BY DoomedStep
  <2>2. UNCHANGED <<status, slot, runs, inbox, told, thread>>
    BY <1>7 DEF Save, Saved, NotSaved
  <2>3. /\ forwarder[r] = "open" /\ forwarder'[r] \in {"saved", "unsaved"}
        /\ \A q \in Installed : q # r => forwarder'[q] = forwarder[q]
        /\ inbox[r] # None /\ told[r] = None
    BY <1>7 DEF Save
  <2>4. /\ \A q \in Installed : q # r => stored'[runs[q]] = stored[runs[q]]
        /\ stored[runs[r]] # None => stored'[runs[r]] = stored[runs[r]]
        /\ forwarder'[r] = "saved" /\ stored[runs[r]] = None => stored'[runs[r]] = inbox[r]
    BY <1>7 DEF Save, Saved, NotSaved
  <2>5. status = "waiting" /\ slot = r => forwarder[r] = "unborn"
    OBVIOUS
  <2>6. thread /\ stored[runs[r]] # None => inbox[r] # "answered"
    BY <2>3 DEF Doomed
  <2> HIDE DEF Typed, Tables, Phases, Patience
  <2> QED BY <2>1, <2>2, <2>3, <2>4, <2>5, <2>6
<1>8. ASSUME NEW r \in Installed, Complete(r) PROVE SavedFirst'
  BY <1>8 DEF Complete, Finish
<1>9. ASSUME NEW r \in Installed, Tell(r) PROVE SavedFirst'
  BY <1>9 DEF Tell, Leave
<1>10. ASSUME NEW r \in Installed, GiveUp(r) PROVE SavedFirst'
  BY <1>10 DEF GiveUp, Finish, Leave
<1>11. ASSUME NEW r \in Installed, Break(r) PROVE SavedFirst'
  BY <1>11 DEF Break
<1>12. ASSUME NEW r \in Installed, SaveAborted(r) PROVE SavedFirst'
  <2>1. \A q \in Installed : Doomed(q) => Doomed(q)'
    BY DoomedStep
  <2>2. UNCHANGED <<status, slot, runs, inbox, told, thread>>
    BY <1>12 DEF SaveAborted, Saved, NotSaved
  <2>3. /\ forwarder[r] = "aborting" /\ forwarder'[r] \in {"aborted", "unaborted"}
        /\ \A q \in Installed : q # r => forwarder'[q] = forwarder[q]
    BY <1>12 DEF SaveAborted
  <2>4. /\ \A q \in Installed : q # r => stored'[runs[q]] = stored[runs[q]]
        /\ stored[runs[r]] # None => stored'[runs[r]] = stored[runs[r]]
    BY <1>12 DEF SaveAborted, Saved, NotSaved
  <2>5. status = "waiting" /\ slot = r => forwarder[r] = "unborn"
    OBVIOUS
  <2> HIDE DEF Typed, Tables, Phases, Patience
  <2> QED BY <2>1, <2>2, <2>3, <2>4, <2>5
<1>13. ASSUME NEW r \in Installed, CompleteAborted(r) PROVE SavedFirst'
  BY <1>13 DEF CompleteAborted, Finish, Leave
<1>14. ASSUME NEW r \in Installed, Wait(r) \/ Read(r) \/ StreamDrops(r) PROVE SavedFirst'
  <2>1. CASE Wait(r)
    BY <2>1 DEF Wait
  <2>2. CASE Read(r)
    BY <2>2 DEF Read
  <2>3. CASE StreamDrops(r)
    BY <2>3 DEF StreamDrops
  <2> QED BY <1>14, <2>1, <2>2, <2>3
<1>15. ASSUME NEW r \in Installed, Expire(r) PROVE SavedFirst'
  <2>1. \A q \in Installed : Doomed(q) => Doomed(q)'
    BY DoomedStep
  <2>2. UNCHANGED <<slot, runs, inbox, forwarder, told, thread>>
    BY <1>15 DEF Expire, Saved, NotSaved
  <2>3. CASE stored' = stored
    <3>1. status' = "waiting" => status = "waiting"
      BY <1>15 DEF Expire
    <3> QED BY <2>1, <2>2, <2>3, <3>1
  <2>4. CASE stored' # stored
    <3>1. /\ status = "waiting" /\ current = runs[r] /\ status' = "cancelled"
          /\ Saved(runs[r], "aborted")
      BY <1>15, <2>4 DEF Expire, NotSaved
    <3>2. r = slot /\ forwarder[r] = "unborn" /\ inbox[r] = None /\ told[r] = None
      BY <3>1
    <3>3. \A q \in Installed : q # r => stored'[runs[q]] = stored[runs[q]]
      BY <3>1 DEF Saved
    <3> HIDE DEF Typed, Tables, Phases, Patience
    <3> QED BY <2>1, <2>2, <3>1, <3>2, <3>3
  <2> QED BY <2>3, <2>4
<1>16. ASSUME NEW r \in Installed, ExpireFails(r) PROVE SavedFirst'
  BY <1>16 DEF ExpireFails
<1>17. ASSUME NEW t \in Sends, Send(t) PROVE SavedFirst'
  BY <1>17 DEF Send, Goto
<1>18. ASSUME NEW t \in Sends, LookUp(t) PROVE SavedFirst'
  BY <1>18 DEF LookUp, Goto
<1>19. ASSUME NEW t \in Sends, Lock(t) PROVE SavedFirst'
  BY <1>19 DEF Lock, Goto
<1>20. ASSUME NEW t \in Sends, Refuse(t) PROVE SavedFirst'
  BY <1>20 DEF Refuse, Goto
<1>21. ASSUME NEW t \in Sends, ReadContext(t) PROVE SavedFirst'
  BY <1>21 DEF ReadContext, Goto
<1>22. ASSUME NEW t \in Sends, Install(t) PROVE SavedFirst'
  <2>1. CASE status \in Blocking
    <3>1. UNCHANGED <<status, current, slot, control, runs, runVars, flag, storeVars, seen>>
      BY <1>22, <2>1 DEF Install
    <3>2. request' = [request EXCEPT ![t] = "done"] /\ holder' = None
      BY <1>22 DEF Install, Goto
    <3> QED BY <3>1, <3>2
  <2>2. CASE status \notin Blocking
    <3> DEFINE k == Len(runs) + 1
    <3>1. /\ Installed' = Installed \cup {k} /\ k \notin Installed /\ k # 0
          /\ slot' = k /\ control' = k /\ status' = "waiting" /\ current' = MsgOf[t]
          /\ \A r \in Installed :
               /\ runs'[r] = runs[r] /\ deadline'[r] = deadline[r]
               /\ worker'[r] = worker[r] /\ result'[r] = result[r]
               /\ inbox'[r] = inbox[r] /\ forwarder'[r] = forwarder[r]
               /\ told'[r] = told[r]
          /\ runs'[k] = MsgOf[t] /\ deadline'[k] = "armed"
          /\ worker'[k] = "unborn" /\ result'[k] = None /\ inbox'[k] = None
          /\ forwarder'[k] = "unborn" /\ told'[k] = None
      BY <1>22, <2>2, InstallRun
    <3>2. /\ UNCHANGED <<thread, stored, flag, seen, site>>
          /\ request' = [request EXCEPT ![t] = "done"] /\ request[t] = "install"
      BY <1>22 DEF Install, Goto
    <3> HIDE DEF k, Installed, Tables
    <3>3. \A q \in Installed : Doomed(q) => Doomed(q)'
      BY DoomedStep
    <3>4. MsgOf[t] \in Msgs /\ stored[MsgOf[t]] = None
      BY <3>1, <3>2
    <3> HIDE DEF Typed, Phases, Patience
    <3> QED BY <3>1, <3>2, <3>3, <3>4
  <2> QED BY <2>1, <2>2
<1>23. ASSUME NEW c \in Cancels, SetFlag(c) PROVE SavedFirst'
  BY <1>23 DEF SetFlag, Goto
<1>24. ASSUME NEW c \in Cancels, LookWaiting(c) PROVE SavedFirst'
  BY <1>24 DEF LookWaiting, Goto
<1>25. ASSUME NEW c \in Cancels, CloneConfig(c) PROVE SavedFirst'
  BY <1>25 DEF CloneConfig, Goto
<1>26. ASSUME NEW c \in Cancels, SetState(c) PROVE SavedFirst'
  BY <1>26 DEF SetState, Goto
<1>27. ASSUME NEW c \in Cancels, SaveCancelled(c) PROVE SavedFirst'
  <2>1. CASE NotSaved /\ Goto(c, "done")
    BY <1>27, <2>1 DEF SaveCancelled, NotSaved, Goto
  <2>2. CASE Saved(runs[seen[c]], "aborted") /\ Goto(c, "finish")
    <3>1. seen[c] \in Installed /\ Doomed(seen[c]) /\ Doomed(seen[c])'
      BY <1>27, DoomedStep DEF SaveCancelled
    <3>2. UNCHANGED <<status, slot, runs, inbox, forwarder, told, thread>>
      BY <1>27, <2>2 DEF SaveCancelled, Saved
    <3>3. \A r \in Installed :
            stored'[runs[r]] = IF r = seen[c] /\ stored[runs[r]] = None THEN "aborted"
                               ELSE stored[runs[r]]
      BY <2>2, <3>1 DEF Saved
    <3>4. \A r \in Installed : Doomed(r) => Doomed(r)'
      BY DoomedStep
    <3> HIDE DEF Typed, Tables, Phases, Patience
    <3> QED BY <3>1, <3>2, <3>3, <3>4 DEF Doomed
  <2> QED BY <1>27, <2>1, <2>2 DEF SaveCancelled
<1>28. ASSUME NEW c \in Cancels, FinishCancelled(c) PROVE SavedFirst'
  BY <1>28 DEF FinishCancelled, Finish, Goto
<1>29. ASSUME NEW d \in Deletes, CheckDelete(d) PROVE SavedFirst'
  BY <1>29 DEF CheckDelete, Goto
<1>30. ASSUME NEW d \in Deletes, Delete(d) PROVE SavedFirst'
  BY <1>30 DEF Delete, Goto
<1> QED
  BY <1>1, <1>2, <1>3, <1>4, <1>5, <1>6, <1>7, <1>8, <1>9, <1>10, <1>11, <1>12,
     <1>13, <1>14, <1>15, <1>16, <1>17, <1>18, <1>19, <1>20, <1>21, <1>22, <1>23,
     <1>24, <1>25, <1>26, <1>27, <1>28, <1>29, <1>30
  DEF Next, Step, Worker, Forwarder, Deadline, Message, Cancel

(***************************************************************************)
(* The theorems.                                                           *)
(***************************************************************************)

\* A table with its first entry.
LEMMA OneEntry ==
    ASSUME NEW S, NEW x \in S
    PROVE  <<x>> \in [{1} -> S]
OBVIOUS

\* The initial state, a session with its first message, satisfies the invariant.
LEMMA InitIInv == Init => IInv /\ StoreInv
<1> SUFFICES ASSUME Init PROVE IInv /\ StoreInv
  OBVIOUS
<1>1. runs \in Seq(Msgs) /\ Len(runs) = 1 /\ runs[1] = First /\ Installed = {1}
  BY ConstantFacts DEF Init, Installed
<1>2. site.faults \in Nat /\ site.pauses \in Nat
  BY ConstantFacts DEF Init
<1>3. Typed
  <2>1. Tables
    <3>1. /\ runs \in Seq(Msgs) /\ flag \subseteq Installed /\ full \subseteq Installed
          /\ deadline \in [Installed -> {"armed", "erring", "over"}]
      BY <1>1 DEF Init
    <3>2. worker \in [Installed -> {"unborn", "starting", "running", "sent", "undelivered",
                                    "ended"}]
      BY <1>1 DEF Init
    <3>3. /\ result \in [Installed -> Outcomes \cup {"error", None}]
          /\ told \in [Installed -> Outcomes \cup {"error", None}]
          /\ inbox \in [Installed -> Outcomes \cup {None}]
      BY <1>1 DEF Init
    <3>4. forwarder \in [Installed -> {"unborn", "open", "saved", "unsaved", "telling",
                                       "aborting", "aborted", "unaborted", "gone"}]
      BY <1>1 DEF Init
    <3>5. sse \in [Installed -> BOOLEAN]
      <4>1. FALSE \in BOOLEAN /\ sse = <<FALSE>>
        BY DEF Init
      <4>2. <<FALSE>> \in [{1} -> BOOLEAN]
        BY <4>1, OneEntry
      <4> QED BY <4>1, <4>2, <1>1
    <3> QED BY <3>1, <3>2, <3>3, <3>4, <3>5 DEF Tables
  <2>2. faults \in 0 .. site.faults /\ pauses \in Nat
    BY <1>2 DEF Init
  <2> QED BY <1>1, <2>1, <2>2, ConstantFacts DEF Init, Typed, Blocking, Places
<1>4. Phases /\ BusyHasTurn
  <2>1. /\ worker[1] = "unborn" /\ forwarder[1] = "unborn" /\ result[1] = None
        /\ inbox[1] = None /\ told[1] = None
    BY DEF Init
  <2>2. Phases
    BY <1>1, <2>1, ConstantFacts DEF Init, Phases
  <2>3. BusyHasTurn
    BY <1>1 DEF Init, BusyHasTurn
  <2> QED BY <2>2, <2>3
<1>5. Patience /\ ErringCost
  BY <1>1 DEF Init, Patience, ErringCost
<1>6. IdsInUse
  BY <1>1 DEF Init, IdsInUse
<1>7. CancelDooms /\ SavedFirst
  BY <1>1, ConstantFacts DEF Init, CancelDooms, SavedFirst, Requests
<1> QED BY <1>3, <1>4, <1>5, <1>6, <1>7 DEF IInv, StoreInv

\* The invariant is inductive.
LEMMA StepIInv == IInv /\ [Next]_vars => IInv'
<1> SUFFICES ASSUME IInv, [Next]_vars PROVE IInv'
  OBVIOUS
<1>1. CASE Next
  BY <1>1, TypedStep, PhasesStep, BusyStep, PatienceStep, ErringStep DEF IInv
<1>2. CASE UNCHANGED vars
  BY <1>2
  DEF vars, sessionVars, runVars, streamVars, storeVars, requestVars, IInv, Typed, Tables, Phases,
      BusyHasTurn, Patience, ErringCost, Installed
<1> QED BY <1>1, <1>2

\* So is what it needs for the saved outcomes, while no message is repeated.
LEMMA StepStoreInv ==
    ASSUME NoRepeats
    PROVE  IInv /\ StoreInv /\ [Next]_vars => StoreInv'
<1> SUFFICES ASSUME IInv, StoreInv, [Next]_vars PROVE StoreInv'
  OBVIOUS
<1>1. CASE Next
  <2>1. IdsInUse'
    BY <1>1, IdsStep DEF StoreInv
  <2>2. site' = site
    BY <1>1 DEF Next
  <2>3. site.patient => CancelDooms' /\ SavedFirst'
    BY <1>1, <2>1, CancelStep, SavedStep DEF StoreInv
  <2> QED BY <2>1, <2>2, <2>3 DEF StoreInv
<1>2. CASE UNCHANGED vars
  BY <1>2
  DEF vars, sessionVars, runVars, streamVars, storeVars, requestVars, StoreInv, IdsInUse,
      CancelDooms, SavedFirst, Doomed, Installed
<1> QED BY <1>1, <1>2

\* IInv holds in every reachable state.
LEMMA Invariance == Spec => []IInv
<1>1. Init => IInv
  BY InitIInv
<1>2. IInv /\ [Next]_vars => IInv'
  BY StepIInv
<1> QED BY <1>1, <1>2, PTL DEF Spec

\* The state of a session stays sound whatever cancel request, claim deadline,
\* panic, repeated message or database error crosses its turns: a session that
\* keeps models from changing always has a turn that will end it.
THEOREM SessionIsSound == Spec => []SessionSound
<1>1. IInv => SessionSound
  BY DEF IInv, SessionSound, Typed, Tables, Phases, TypeOK
<1> QED BY <1>1, Invariance, PTL

\* An answer that a patient client was shown to the end is the saved outcome of
\* its message, for clients that give each message an id of its own.
THEOREM AnswersAreStored ==
    ASSUME NoRepeats
    PROVE  Spec => []AnsweredIsStored
<1>1. Init => IInv /\ StoreInv
  BY InitIInv
<1>2. IInv /\ StoreInv /\ [Next]_vars => IInv' /\ StoreInv'
  BY StepIInv, StepStoreInv
<1>3. StoreInv => AnsweredIsStored
  BY DEF StoreInv, SavedFirst, AnsweredIsStored
<1> QED BY <1>1, <1>2, <1>3, PTL DEF Spec

\* No step of a turn that was cancelled makes it anything else, short of a
\* database error or of a thread deleted under an impatient client.
THEOREM CancelStays == Spec => CancelIsKept
<1> DEFINE Keeps ==
      (/\ status \in {"cancelling", "cancelled"} /\ runs' = runs
       /\ faults = site.faults /\ (site.patient \/ thread))
         => status' \in {"cancelling", "cancelled"}
<1>1. IInv /\ [Next]_vars => [Keeps]_vars
  <2> SUFFICES ASSUME IInv, Next,
                      status \in {"cancelling", "cancelled"}, runs' = runs,
                      faults = site.faults, site.patient \/ thread
               PROVE  status' \in {"cancelling", "cancelled"}
    OBVIOUS
  <2>a. Typed /\ ErringCost /\ status # "waiting" /\ status \notin {"running", "idle"}
    BY DEF IInv
  <2>b. site.faults \in Nat
    BY <2>a, ConstantFacts DEF Typed
  <2>c. Len(runs) \in Nat /\ runs \in Seq(Msgs)
    BY <2>a, LenProperties DEF Typed, Tables
  <2> USE DEF sessionVars, runVars, streamVars, storeVars, requestVars
  <2>1. CASE Claim
    BY <2>1, <2>a DEF Claim
  <2>2. ASSUME NEW r \in Installed, Worker(r) \/ Panic(r) PROVE status' \in {"cancelling", "cancelled"}
    BY <2>2 DEF Worker, Start, Loop, Report, WorkerEnds, Panic, Finish
  <2>3. ASSUME NEW r \in Installed, Forwarder(r) \/ Wait(r) \/ Read(r) \/ StreamDrops(r)
        PROVE  status' \in {"cancelling", "cancelled"}
    BY <2>3
    DEF Forwarder, Save, Complete, Tell, GiveUp, Break, SaveAborted, CompleteAborted,
        Wait, Read, StreamDrops, Finish
  <2>4. ASSUME NEW r \in Installed, Deadline(r) PROVE status' \in {"cancelling", "cancelled"}
    <3>1. CASE Expire(r)
      BY <3>1, <2>a DEF Expire
    <3>2. CASE ExpireFails(r)
      BY <3>2, <2>a, <2>b DEF ExpireFails, ErringCost
    <3> QED BY <2>4, <3>1, <3>2 DEF Deadline
  <2>5. ASSUME NEW t \in Sends, Send(t) \/ Message(t)
        PROVE  status' \in {"cancelling", "cancelled"}
    <3>1. CASE Install(t)
      <4>1. CASE status \in Blocking
        BY <3>1, <4>1 DEF Install
      <4>2. CASE status \notin Blocking
        <5>1. Len(runs') = Len(runs) + 1
          BY <2>a, <3>1, <4>2, InstallRun
        <5> QED BY <5>1, <2>c
      <4> QED BY <4>1, <4>2
    <3>2. CASE ~Install(t)
      BY <2>5, <3>2 DEF Message, Send, LookUp, Lock, Refuse, ReadContext
    <3> QED BY <3>1, <3>2
  <2>6. ASSUME NEW c \in Cancels, SetFlag(c) \/ Cancel(c)
        PROVE  status' \in {"cancelling", "cancelled"}
    BY <2>6, <2>a
    DEF SetFlag, Cancel, LookWaiting, CloneConfig, SetState, SaveCancelled, FinishCancelled,
        Finish
  <2>7. ASSUME NEW d \in Deletes, CheckDelete(d) \/ Delete(d)
        PROVE  status' \in {"cancelling", "cancelled"}
    BY <2>7 DEF CheckDelete, Delete
  <2> QED BY <2>1, <2>2, <2>3, <2>4, <2>5, <2>6, <2>7 DEF Next, Step
<1> QED BY <1>1, Invariance, PTL DEF Spec, CancelIsKept

\* No step of a patient client's session deletes the thread of a turn that is
\* under way.
THEOREM DeletesSpareActive == Spec => DeleteSparesActive
<1> DEFINE Spares == (site.patient /\ thread /\ ~thread') => status \notin Blocking
<1>1. IInv /\ [Next]_vars => [Spares]_vars
  <2> SUFFICES ASSUME IInv, Next, site.patient, thread, ~thread'
               PROVE  status \notin Blocking
    OBVIOUS
  <2> USE DEF sessionVars, runVars, streamVars, storeVars, requestVars
  <2>1. CASE \E d \in Deletes : Delete(d)
    BY <2>1, ConstantFacts DEF Delete, IInv, Patience
  <2>2. CASE ~\E d \in Deletes : Delete(d)
    <3>1. thread' = thread
      BY <2>2
      DEF Next, Step, Claim, Worker, Start, Loop, Report, WorkerEnds, Panic, Forwarder, Save,
          Complete, Tell, GiveUp, Break, SaveAborted, CompleteAborted, Wait, Read, StreamDrops,
          Deadline, Expire, ExpireFails, Send, Message, LookUp, Lock, Refuse, ReadContext, Install,
          SetFlag, Cancel, LookWaiting, CloneConfig, SetState, SaveCancelled,
          FinishCancelled, CheckDelete, Saved, NotSaved
    <3> QED BY <3>1
  <2> QED BY <2>1, <2>2
<1> QED BY <1>1, Invariance, PTL DEF Spec, DeleteSparesActive

=============================================================================
