-------------------------- MODULE WorkspaceSession --------------------------
(***************************************************************************)
(* A Workspace session (src/api/workspace.rs, chat/workspace_bridge.rs):   *)
(* one thread of saved turns, and the turn that is under way.  A turn is   *)
(* installed by a request, runs once a client claims its event stream, and *)
(* then has two threads: the worker that drives the agent loop and the     *)
(* forwarder that saves the outcome and passes events on, over bounded     *)
(* channels, as fast as the client reads.  Requests to cancel, the claim   *)
(* deadline and repeated messages act on the same state from outside, each *)
(* taking its locks one at a time.                                         *)
(*                                                                         *)
(* Every installed turn is a run; its message id is what the code knows    *)
(* it by.                                                                  *)
(***************************************************************************)
EXTENDS Naturals, Sequences

CONSTANTS
    Msgs,      \* client message ids
    Sends,     \* send_message requests
    MsgOf,     \* MsgOf[t]: the message id request t carries
    Cancels,   \* cancel_session requests
    Deletes,   \* delete_thread requests
    First,     \* the id of the message the session is created with
    None,
    Outcomes,  \* what an agent loop may end with
    Sites      \* what may come to the session: [requests, patient, faults, pauses]

ASSUME WorkspaceAssumption ==
    /\ MsgOf \in [Sends -> Msgs] /\ First \in Msgs
    /\ \A t \in Sends : MsgOf[t] # First
    /\ {"aborted", "driver_error"} \subseteq Outcomes
    /\ Outcomes \subseteq {"answered", "step_capped", "repeated", "aborted", "driver_error"}
    /\ None \notin Msgs \cup Outcomes \cup {"answered", "error"}
    /\ Sites \subseteq [requests : SUBSET (Sends \cup Cancels \cup Deletes),
                       patient : BOOLEAN, faults : Nat, pauses : Nat]

VARIABLES
    site,      \* the requests of this behaviour, whether their client waits for one
               \* answer before the next request, and the bounds on faults and pauses
    faults,    \* how many more times the database may fail
    status,    \* ActiveWorkspaceSession::state
    current,   \* current_turn: a message id, or None
    slot,      \* the run whose events, worker and run_config wait to be claimed
    control,   \* the run the control slot belongs to
    runs,      \* the message id of every installed run, in order
    flag,      \* runs whose cancellation flag is set
    deadline,  \* claim deadline of a run: "armed", "erring", "over"
    worker,    \* "unborn", "starting", "running", "sent", "undelivered", "ended"
    result,    \* what the agent loop of a run returned
    inbox,     \* the Finished event on its way to the forwarder, or None
    forwarder, \* where the forwarder of a run is
    sse,       \* the client reads the run's stream
    told,      \* the outcome a stream ended with
    full,      \* runs whose event channel was full when the forwarder came to send
    pauses,    \* how many more times a client may stop reading
    stored,    \* workspace_turns: the outcome of a message id, or None
    thread,    \* the row of the thread exists
    request,   \* where a request is
    seen,      \* the run a cancel request found unclaimed
    holder     \* who has the model transition lock

sessionVars == <<status, current, slot, control, runs, flag>>
streamVars == <<full, pauses>>
runVars == <<deadline, worker, result, inbox, forwarder, sse, told, streamVars>>
storeVars == <<stored, thread, faults>>
requestVars == <<request, seen, holder>>
vars == <<site, sessionVars, runVars, storeVars, requestVars>>

Blocking == {"waiting", "running", "cancelling"}
Requests == Sends \cup Cancels \cup Deletes
Installed == 1 .. Len(runs)

TypeOK ==
    /\ status \in Blocking \cup {"idle", "cancelled", "failed"}
    /\ current \in Msgs \cup {None}
    /\ runs \in Seq(Msgs)
    /\ slot \in Installed \cup {0} /\ control \in Installed
    /\ flag \subseteq Installed
    /\ \A r \in Installed :
          /\ deadline[r] \in {"armed", "erring", "over"}
          /\ worker[r] \in {"unborn", "starting", "running", "sent", "undelivered", "ended"}
          /\ result[r] \in Outcomes \cup {"error", None}
          /\ inbox[r] \in Outcomes \cup {None}
          /\ forwarder[r] \in {"unborn", "open", "saved", "unsaved", "telling",
                               "aborting", "aborted", "unaborted", "gone"}
          /\ sse[r] \in BOOLEAN
          /\ told[r] \in Outcomes \cup {"error", None}
          /\ worker[r] = "unborn" <=> forwarder[r] = "unborn"
    /\ full \subseteq Installed /\ pauses \in Nat
    /\ stored \in [Msgs -> Outcomes \cup {None}] /\ thread \in BOOLEAN
    /\ seen \in [Cancels -> Installed \cup {0}]
    /\ holder \in Sends \cup {None}
    /\ status = "waiting" => slot # 0 /\ worker[slot] = "unborn"

\* create_session has made the thread, or resumed it, and published the session.
Init ==
    /\ site \in Sites /\ faults = site.faults
    /\ status = "waiting" /\ current = First
    /\ slot = 1 /\ control = 1
    /\ runs = <<First>>
    /\ flag = {}
    /\ deadline = <<"armed">> /\ worker = <<"unborn">> /\ result = <<None>>
    /\ inbox = <<None>> /\ forwarder = <<"unborn">> /\ sse = <<FALSE>> /\ told = <<None>>
    /\ full = {} /\ pauses = site.pauses
    /\ stored = [m \in Msgs |-> None]
    /\ thread = TRUE
    /\ request = [q \in Requests |-> IF q \in site.requests THEN "unsent" ELSE "done"]
    /\ seen = [c \in Cancels |-> 0]
    /\ holder = None

-----------------------------------------------------------------------------
(* What several threads do to the session.                                 *)

\* finish_turn_if_current, under the locks of the state and of the turn.
Finish_Forgets(m, completion) ==
    IF current = m
    THEN status' = completion /\ current' = None
    ELSE UNCHANGED <<status, current>>
Finish(m, completion) ==
    IF current = m
    THEN /\ status' = IF status \in {"cancelling", "cancelled"} THEN "cancelled" ELSE completion
         /\ current' = None
    ELSE UNCHANGED <<status, current>>

\* append_terminal_turn: one transaction, which keeps the first outcome of an id
\* and refuses a thread that is gone.
Saved(m, outcome) ==
    /\ thread
    /\ stored' = [stored EXCEPT ![m] = IF @ = None THEN outcome ELSE @]
    /\ UNCHANGED <<thread, faults>>
NotSaved ==
    /\ \/ faults > 0 /\ faults' = faults - 1
       \/ ~thread /\ UNCHANGED faults
    /\ UNCHANGED <<stored, thread>>

-----------------------------------------------------------------------------
(* session_events and the two threads of a turn.                           *)

Claim ==
    /\ status = "waiting" /\ slot # 0
    /\ status' = "running"
    /\ slot' = 0
    /\ worker' = [worker EXCEPT ![slot] = "starting"]
    /\ forwarder' = [forwarder EXCEPT ![slot] = "open"]
    /\ sse' = [sse EXCEPT ![slot] = TRUE]
    /\ UNCHANGED <<current, control, runs, flag, deadline, result, inbox, told, streamVars,
                   storeVars, requestVars>>

\* run_live: the sandbox may be refused ("error"), a flag set in time aborts the
\* loop, and a flag set after its last look does not.
Start(r) ==
    /\ worker[r] = "starting"
    /\ \/ worker' = [worker EXCEPT ![r] = "running"] /\ UNCHANGED result
       \/ /\ result' = [result EXCEPT ![r] = "error"]
          /\ worker' = [worker EXCEPT ![r] = "running"]
       \/ /\ r \in flag
          /\ result' = [result EXCEPT ![r] = "aborted"]
          /\ worker' = [worker EXCEPT ![r] = "running"]
    /\ r \in flag => result'[r] # None
    /\ UNCHANGED <<sessionVars, deadline, inbox, forwarder, sse, told, streamVars, storeVars,
                   requestVars>>

Loop(r) ==
    /\ worker[r] = "running" /\ result[r] = None
    /\ \E end \in Outcomes :
         /\ end = "aborted" => r \in flag
         /\ result' = [result EXCEPT ![r] = end]
    /\ UNCHANGED <<sessionVars, deadline, worker, inbox, forwarder, sse, told, streamVars,
                   storeVars, requestVars>>

\* Finished is sent, unless the forwarder has dropped the channel.
Report(r) ==
    /\ worker[r] = "running" /\ result[r] # None
    /\ IF forwarder[r] = "gone"
       THEN worker' = [worker EXCEPT ![r] = "undelivered"] /\ UNCHANGED inbox
       ELSE /\ worker' = [worker EXCEPT ![r] = "sent"]
            /\ inbox' = [inbox EXCEPT ![r] = IF result[r] = "error" THEN "driver_error"
                                             ELSE result[r]]
    /\ UNCHANGED <<sessionVars, deadline, result, forwarder, sse, told, streamVars, storeVars,
                   requestVars>>

\* The worker ends the turn itself after an error or a failed delivery.
WorkerEnds(r) ==
    /\ worker[r] \in {"sent", "undelivered"}
    /\ worker' = [worker EXCEPT ![r] = "ended"]
    /\ result' = [result EXCEPT ![r] = None]
    /\ IF result[r] = "error" \/ worker[r] = "undelivered"
       THEN Finish(runs[r], IF result[r] \in {"error", "driver_error"} THEN "failed" ELSE "idle")
       ELSE UNCHANGED <<status, current>>
    /\ UNCHANGED <<slot, control, runs, flag, deadline, inbox, forwarder, sse, told, streamVars,
                   storeVars, requestVars>>

\* The agent thread panics; its side of the channel goes with it.
Panic(r) ==
    /\ worker[r] = "running" /\ result[r] = None
    /\ worker' = [worker EXCEPT ![r] = "ended"]
    /\ UNCHANGED <<sessionVars, deadline, result, inbox, forwarder, sse, told, streamVars,
                   storeVars, requestVars>>

\* The client of a stream stops reading: the forwarder, which has an event to pass
\* on, waits in blocking_send, and once the bridge is full the worker behind it.
Wait(r) ==
    /\ pauses > 0 /\ pauses' = pauses - 1
    /\ sse[r] /\ r \notin full
    /\ forwarder[r] \in {"open", "unsaved", "telling"} /\ worker[r] # "starting"
    /\ full' = full \cup {r}
    /\ UNCHANGED <<sessionVars, deadline, worker, result, inbox, forwarder, sse, told,
                   storeVars, requestVars>>

\* It reads on, and the event is passed.
Read(r) ==
    /\ r \in full /\ sse[r]
    /\ full' = full \ {r}
    /\ UNCHANGED <<sessionVars, deadline, worker, result, inbox, forwarder, sse, told, pauses,
                   storeVars, requestVars>>

\* Only a reader or the end of the stream lets the forwarder go on.
Waits(r) == r \in full /\ sse[r]

\* The forwarder got Finished: it saves the turn first.
Save_Hopes(r) ==
    /\ forwarder[r] = "open" /\ inbox[r] # None /\ r \notin full
    /\ Saved(runs[r], inbox[r]) \/ NotSaved
    /\ forwarder' = [forwarder EXCEPT ![r] = "saved"]
    /\ UNCHANGED <<sessionVars, deadline, worker, result, inbox, sse, told, streamVars,
                   requestVars>>
Save(r) ==
    /\ forwarder[r] = "open" /\ inbox[r] # None /\ r \notin full
    /\ \/ Saved(runs[r], inbox[r]) /\ forwarder' = [forwarder EXCEPT ![r] = "saved"]
       \/ NotSaved /\ forwarder' = [forwarder EXCEPT ![r] = "unsaved"]
    /\ UNCHANGED <<sessionVars, deadline, worker, result, inbox, sse, told, streamVars,
                   requestVars>>

Complete(r) ==
    /\ forwarder[r] = "saved"
    /\ Finish(runs[r], IF inbox[r] = "driver_error" THEN "failed" ELSE "idle")
    /\ forwarder' = [forwarder EXCEPT ![r] = "telling"]
    /\ UNCHANGED <<slot, control, runs, flag, deadline, worker, result, inbox, sse, told,
                   streamVars, storeVars, requestVars>>

\* The forwarder thread is over.
Leave(r) ==
    /\ forwarder' = [forwarder EXCEPT ![r] = "gone"]
    /\ inbox' = [inbox EXCEPT ![r] = None]
    /\ full' = full \ {r}

\* The outcome ends the stream, if there still is one; either way the flag is set.
Tell(r) ==
    /\ forwarder[r] = "telling" /\ ~Waits(r)
    /\ told' = [told EXCEPT ![r] = IF sse[r] THEN inbox[r] ELSE None]
    /\ sse' = [sse EXCEPT ![r] = FALSE]
    /\ flag' = flag \cup {r}
    /\ Leave(r)
    /\ UNCHANGED <<status, current, slot, control, runs, deadline, worker, result, pauses,
                   storeVars, requestVars>>

\* A turn that could not be saved: an error ends the stream, and the turn failed.
GiveUp(r) ==
    /\ forwarder[r] = "unsaved" /\ ~Waits(r)
    /\ told' = [told EXCEPT ![r] = IF sse[r] THEN "error" ELSE None]
    /\ sse' = [sse EXCEPT ![r] = FALSE]
    /\ Finish(runs[r], "failed")
    /\ flag' = flag \cup {r}
    /\ Leave(r)
    /\ UNCHANGED <<slot, control, runs, deadline, worker, result, pauses, storeVars, requestVars>>

\* The loop is left without Finished: an event could not be forwarded, or the
\* worker is gone.
Break(r) ==
    /\ forwarder[r] = "open"
    /\ \/ ~sse[r] /\ worker[r] # "starting" /\ flag' = flag \cup {r}
       \/ worker[r] = "ended" /\ inbox[r] = None /\ r \notin full /\ UNCHANGED flag
    /\ forwarder' = [forwarder EXCEPT ![r] = "aborting"]
    /\ full' = full \ {r}
    /\ UNCHANGED <<status, current, slot, control, runs, deadline, worker, result, inbox, sse,
                   told, pauses, storeVars, requestVars>>

\* persist_aborted_turn_and_finish, its two parts.
SaveAborted(r) ==
    /\ forwarder[r] = "aborting"
    /\ \/ Saved(runs[r], "aborted") /\ forwarder' = [forwarder EXCEPT ![r] = "aborted"]
       \/ NotSaved /\ forwarder' = [forwarder EXCEPT ![r] = "unaborted"]
    /\ UNCHANGED <<sessionVars, deadline, worker, result, inbox, sse, told, streamVars,
                   requestVars>>

\* Fault: an aborted turn leaves the session as it is.
CompleteAborted_Leaves(r) ==
    /\ forwarder[r] \in {"aborted", "unaborted"}
    /\ Leave(r)
    /\ UNCHANGED <<sessionVars, deadline, worker, result, sse, told, pauses,
                   storeVars, requestVars>>
CompleteAborted(r) ==
    /\ forwarder[r] \in {"aborted", "unaborted"}
    /\ Finish(runs[r], IF forwarder[r] = "aborted" THEN "idle" ELSE "failed")
    /\ Leave(r)
    /\ UNCHANGED <<slot, control, runs, flag, deadline, worker, result, sse, told, pauses,
                   storeVars, requestVars>>

\* The stream ends or its client leaves: CancelStreamOnDrop.
StreamDrops(r) ==
    /\ sse[r]
    /\ sse' = [sse EXCEPT ![r] = FALSE]
    /\ flag' = flag \cup {r}
    /\ UNCHANGED <<status, current, slot, control, runs, deadline, worker, result, inbox,
                   forwarder, told, streamVars, storeVars, requestVars>>

-----------------------------------------------------------------------------
(* The claim deadline, of a message id.                                    *)

\* expire_unclaimed_turn holds the locks while it saves.
Expire(r) ==
    /\ deadline[r] = "armed"
    /\ IF status = "waiting" /\ current = runs[r]
       THEN \/ /\ Saved(runs[r], "aborted")
               /\ flag' = flag \cup {control}
               /\ status' = "cancelled" /\ current' = None
               /\ deadline' = [deadline EXCEPT ![r] = "over"]
            \/ /\ NotSaved
               /\ deadline' = [deadline EXCEPT ![r] = "erring"]
               /\ UNCHANGED <<flag, status, current>>
       ELSE /\ deadline' = [deadline EXCEPT ![r] = "over"]
            /\ UNCHANGED <<storeVars, flag, status, current>>
    /\ UNCHANGED <<slot, control, runs, worker, result, inbox, forwarder, sse, told, streamVars,
                   requestVars>>

\* Its error is written over whatever the state has become.
ExpireFails(r) ==
    /\ deadline[r] = "erring"
    /\ deadline' = [deadline EXCEPT ![r] = "over"]
    /\ status' = "failed"
    /\ UNCHANGED <<current, slot, control, runs, flag, worker, result, inbox, forwarder, sse,
                   told, streamVars, storeVars, requestVars>>

-----------------------------------------------------------------------------
(* send_message.                                                           *)

Goto(q, place) == request' = [request EXCEPT ![q] = place]
Alone(q) == site.patient => \A p \in Requests : request[p] \in {"unsent", "done"}

\* pending_message.
Send(t) ==
    /\ request[t] = "unsent" /\ Alone(t)
    /\ Goto(t, IF current = MsgOf[t] THEN "done" ELSE "lookup")
    /\ UNCHANGED <<sessionVars, runVars, storeVars, seen, holder>>

\* turn_by_client_message, on a blocking thread.
LookUp(t) ==
    /\ request[t] = "lookup"
    /\ Goto(t, IF stored[MsgOf[t]] # None THEN "done" ELSE "locking")
    /\ UNCHANGED <<sessionVars, runVars, storeVars, seen, holder>>

\* The transition lock; then busy, the model's identity and the context, each of
\* which may refuse the message.
Lock(t) ==
    /\ request[t] = "locking" /\ holder = None
    /\ Goto(t, "context")
    /\ holder' = t
    /\ UNCHANGED <<sessionVars, runVars, storeVars, seen>>

Refuse(t) ==
    /\ request[t] = "context"
    /\ Goto(t, "done")
    /\ holder' = None
    /\ UNCHANGED <<sessionVars, runVars, storeVars, seen>>

\* The context is read on a blocking thread while the lock is kept.
ReadContext(t) ==
    /\ request[t] = "context" /\ thread
    /\ Goto(t, "install")
    /\ UNCHANGED <<sessionVars, runVars, storeVars, seen, holder>>

\* install_turn, and the deadline.  A busy session answers duplicate or conflict.
Install(t) ==
    /\ request[t] = "install"
    /\ Goto(t, "done")
    /\ holder' = None
    /\ \/ /\ status \notin Blocking
          /\ runs' = Append(runs, MsgOf[t])
          /\ current' = MsgOf[t]
          /\ slot' = Len(runs') /\ control' = Len(runs')
          /\ status' = "waiting"
          /\ deadline' = Append(deadline, "armed") /\ worker' = Append(worker, "unborn")
          /\ result' = Append(result, None) /\ inbox' = Append(inbox, None)
          /\ forwarder' = Append(forwarder, "unborn") /\ sse' = Append(sse, FALSE)
          /\ told' = Append(told, None)
          /\ UNCHANGED streamVars
       \/ /\ status \in Blocking
          /\ UNCHANGED <<status, current, slot, control, runs, runVars>>
    /\ UNCHANGED <<flag, storeVars, seen>>

-----------------------------------------------------------------------------
(* cancel_session, which takes the locks one after another.                *)

SetFlag(c) ==
    /\ request[c] = "unsent" /\ Alone(c)
    /\ flag' = flag \cup {control}
    /\ Goto(c, "look")
    /\ UNCHANGED <<status, current, slot, control, runs, runVars, storeVars, seen, holder>>

LookWaiting(c) ==
    /\ request[c] = "look"
    /\ Goto(c, IF status = "waiting" THEN "config" ELSE "state")
    /\ UNCHANGED <<sessionVars, runVars, storeVars, seen, holder>>

CloneConfig(c) ==
    /\ request[c] = "config"
    /\ seen' = [seen EXCEPT ![c] = slot]
    /\ Goto(c, "state")
    /\ UNCHANGED <<sessionVars, runVars, storeVars, holder>>

\* after_cancel_request.
SetState(c) ==
    /\ request[c] = "state"
    /\ status' = IF status \in {"waiting", "idle"} THEN "cancelled"
                 ELSE IF status = "running" THEN "cancelling" ELSE status
    /\ Goto(c, IF seen[c] = 0 THEN "done" ELSE "save")
    /\ UNCHANGED <<current, slot, control, runs, flag, runVars, storeVars, seen, holder>>

\* Fault: an unclaimed turn is dropped, not saved.
SaveCancelled_Drops(c) ==
    /\ request[c] = "save"
    /\ Goto(c, "finish")
    /\ UNCHANGED <<sessionVars, runVars, storeVars, seen, holder>>
SaveCancelled(c) ==
    /\ request[c] = "save"
    /\ \/ Saved(runs[seen[c]], "aborted") /\ Goto(c, "finish")
       \/ NotSaved /\ Goto(c, "done")
    /\ UNCHANGED <<sessionVars, runVars, seen, holder>>

FinishCancelled(c) ==
    /\ request[c] = "finish"
    /\ Finish(runs[seen[c]], "idle")
    /\ Goto(c, "done")
    /\ UNCHANGED <<slot, control, runs, flag, runVars, storeVars, seen, holder>>

-----------------------------------------------------------------------------
(* delete_thread looks at the session, then deletes on a blocking thread.  *)

\* Fault: only a running turn keeps the thread.
CheckDelete_Unclaimed(d) ==
    /\ request[d] = "unsent" /\ Alone(d)
    /\ Goto(d, IF status # "running" THEN "delete" ELSE "done")
    /\ UNCHANGED <<sessionVars, runVars, storeVars, seen, holder>>
CheckDelete(d) ==
    /\ request[d] = "unsent" /\ Alone(d)
    /\ Goto(d, IF status \in {"cancelled", "failed"} THEN "delete" ELSE "done")
    /\ UNCHANGED <<sessionVars, runVars, storeVars, seen, holder>>

Delete(d) ==
    /\ request[d] = "delete"
    /\ thread' = FALSE
    /\ stored' = [m \in Msgs |-> None]
    /\ UNCHANGED faults
    /\ Goto(d, "done")
    /\ UNCHANGED <<sessionVars, runVars, seen, holder>>

-----------------------------------------------------------------------------
Worker(r) == Start(r) \/ Loop(r) \/ Report(r) \/ WorkerEnds(r)
Forwarder(r) ==
    Save(r) \/ Complete(r) \/ Tell(r) \/ GiveUp(r) \/ Break(r) \/ SaveAborted(r)
        \/ CompleteAborted(r)
Deadline(r) == Expire(r) \/ ExpireFails(r)
Message(t) == LookUp(t) \/ Lock(t) \/ Refuse(t) \/ ReadContext(t) \/ Install(t)
Cancel(c) ==
    LookWaiting(c) \/ CloneConfig(c) \/ SetState(c) \/ SaveCancelled(c) \/ FinishCancelled(c)

Step ==
    \/ Claim
    \/ \E r \in Installed :
         \/ Worker(r) \/ Panic(r) \/ Forwarder(r) \/ Deadline(r)
         \/ Wait(r) \/ Read(r) \/ StreamDrops(r)
    \/ \E t \in Sends : Send(t) \/ Message(t)
    \/ \E c \in Cancels : SetFlag(c) \/ Cancel(c)
    \/ \E d \in Deletes : CheckDelete(d) \/ Delete(d)

Next == Step /\ UNCHANGED site

\* What goes on by itself: the two threads of a turn, whose model steps have a
\* deadline of their own, the claim deadline, and handlers that have begun.  A worker
\* that has not ended its loop may have to wait behind its forwarder, and that for a
\* client.  No client owes a claim, a request or a look at its stream.
Progress ==
    \/ \E r \in Installed :
         \/ Worker(r) /\ (Waits(r) => worker[r] # "running")
         \/ Forwarder(r) \/ Deadline(r)
    \/ \E t \in Sends : Message(t)
    \/ \E c \in Cancels : Cancel(c)

Fairness == WF_vars(Progress /\ UNCHANGED site)

Spec == Init /\ [][Next]_vars /\ Fairness

-----------------------------------------------------------------------------
(* Properties.                                                             *)

\* An answer that a patient client was shown to the end is the saved outcome of its
\* message, whatever claim, deadline or database error came across it.
AnsweredIsStored ==
    (site.patient /\ thread) =>
        \A r \in Installed : told[r] = "answered" => stored[runs[r]] = "answered"

\* A session that keeps models from changing has a turn that will end it: one that
\* waits to be claimed, or one whose forwarder is still to finish it.
BusyHasTurn ==
    status \in Blocking =>
        \E r \in Installed :
            /\ current = runs[r]
            /\ \/ status = "waiting" /\ slot = r
               \/ forwarder[r] \notin {"unborn", "telling", "gone"}

\* The state of the session is sound in this sense whatever cancel request, deadline,
\* panic or database error came across its turns.
SessionSound == TypeOK /\ BusyHasTurn

\* A turn that was cancelled stays so until the next one is installed, though the
\* cancel request races the claim of its stream and the end of its worker; only a
\* database error, or a thread deleted under an impatient client, puts "failed"
\* over it.
CancelIsKept ==
    [][(/\ status \in {"cancelling", "cancelled"} /\ runs' = runs
        /\ faults = site.faults /\ (site.patient \/ thread))
          => status' \in {"cancelling", "cancelled"}]_vars

\* If no client keeps a stream open for ever without reading it, every turn ends,
\* whoever goes away: the session becomes free, and the outcome of each turn a patient
\* client had installed is saved, unless the database failed or the thread was deleted.
TurnsEnd ==
    []<>(\A r \in Installed : ~Waits(r)) =>
        []<>(/\ status \notin Blocking
             /\ (site.patient /\ thread /\ faults = site.faults)
                   => \A r \in Installed : stored[runs[r]] # None)

\* The saved thread of a session with a turn under way is not deleted under a patient
\* client.
DeleteSparesActive ==
    [][(site.patient /\ thread /\ ~thread') => status \notin Blocking]_vars
=============================================================================
