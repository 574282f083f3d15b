--------------------------- MODULE ModelRegistry ---------------------------
(***************************************************************************)
(* The model registries of the server (src/src/api/mod.rs): which model    *)
(* ids are loaded and from which file, which id is active, the weights and *)
(* serve runtimes kept for them, and the requests that load, replace,      *)
(* unload, use and show them.  Handlers are asynchronous tasks: they give  *)
(* way only where they wait for a lock, a blocking task or the engine, so  *)
(* one action is the code between two such places, and a client that hangs *)
(* up drops the handler at any of them.                                    *)
(*                                                                         *)
(* The locks are tokio's fair ones.  A lock is the sequence of its holders *)
(* and waiters in order of arrival: a reader holds it when only readers    *)
(* are before it, a writer when nobody is.                                 *)
(***************************************************************************)
EXTENDS Naturals, FiniteSets, SequencesExt

CONSTANTS
    Clients,      \* handlers that can be under way at the same time
    Ids,          \* model ids
    Files,        \* model files; a file is also the artifact (its SHA-256)
    Sites,        \* servers and what their clients ask: see site
    NoId, NoFile, \* no model, no file
    MaxRequests   \* bound: requests sent in a behaviour

ASSUME RegistryAssumption ==
    /\ \A s \in Sites :
          /\ s.clients \subseteq Clients
          /\ s.kind \in [Files -> {"dense", "gemma4", "runnable", "dg"}]
          /\ s.disk \in [Ids -> Files \cup {NoFile}]
          /\ s.startup \in [Ids -> Files \cup {NoFile}]
          /\ s.cuda \in BOOLEAN /\ s.hangups \in BOOLEAN /\ s.room \in Nat
          /\ \A r \in s.requests :
                \/ r.op = "load" /\ r.id \in Ids /\ r.file \in Files
                \/ r.op \in {"unload", "chat"} /\ r.id \in Ids \cup {NoId}
                \/ r.op = "embed" /\ r.id \in Ids
                \/ r.op \in {"show", "turn"}
    /\ NoId \notin Ids /\ NoFile \notin Files
    /\ MaxRequests \in Nat

VARIABLES
    site,     \* clients: who sends, and requests: what; kind: how a file is served;
              \* disk and startup: the file of an id on disk, and loaded before
              \* serving; cuda: the build has it; room: how many models the fit
              \* preflight finds memory for; hangups: clients may hang up
    loaded,   \* loaded_models: the file of each loaded id
    active,   \* active_model_id
    weights,  \* cached_weights: the file the cached weights of an id are from
    runtime,  \* gemma4_runtimes, runnable_runtimes and dg_runtimes
    encoder,  \* embedding_runtimes
    device,   \* resident decode state on the GPU: a set of <<id, file>>
    session,  \* the <<id, file>> a Workspace turn runs on, or <<NoId, NoFile>>
    lock,     \* for each lock its holders and waiters in order of arrival
    task,     \* the handler of each client
    sent,     \* how many requests were sent
    torn      \* a client hung up while the registries were half changed

vars == <<site, loaded, active, weights, runtime, encoder, device, session, lock,
          task, sent, torn>>

Models == Ids \X Files
NoModel == <<NoId, NoFile>>
LockNames == {"transition", "lifecycle", "loaded", "active", "encoderLoad"}

-----------------------------------------------------------------------------
(***************************************************************************)
(* Locks.  A task has at most one entry in a lock.                         *)
(***************************************************************************)
Holds(c, l) ==
    \E i \in 1 .. Len(lock[l]) :
        /\ lock[l][i].who = c
        /\ lock[l][i].mode = "w" => i = 1
        /\ lock[l][i].mode = "r" => \A j \in 1 .. i : lock[l][j].mode = "r"

\* A queue without the entry of c, if it has one.
Leave(q, c) ==
    IF \E i \in DOMAIN q : q[i].who = c
    THEN RemoveAt(q, CHOOSE i \in DOMAIN q : q[i].who = c)
    ELSE q

\* The locks after c drops those in `drops` and then asks for those in
\* `asks`, a set of [lock, mode].
After(c, drops, asks) ==
    [l \in LockNames |->
        LET kept == IF l \in drops THEN Leave(lock[l], c) ELSE lock[l]
        IN  IF \E a \in asks : a.lock = l
            THEN Append(kept, [who |-> c, mode |-> (CHOOSE a \in asks : a.lock = l).mode])
            ELSE kept]

Read(l) == [lock |-> l, mode |-> "r"]
Write(l) == [lock |-> l, mode |-> "w"]

At(c, pc) == task[c].pc = pc
Goto(c, pc, drops, asks) ==
    /\ task' = [task EXCEPT ![c].pc = pc]
    /\ lock' = After(c, drops, asks)

\* A task with the model it works on changed as well.
With(c, pc, model, drops, asks) ==
    /\ task' = [task EXCEPT ![c].pc = pc, ![c].model = model]
    /\ lock' = After(c, drops, asks)

\* The handler returns its response and drops every guard it has.
Answer(c, ok) ==
    /\ task' = [task EXCEPT ![c].pc = "done", ![c].ok = ok]
    /\ lock' = After(c, LockNames, {})

Registries == <<loaded, active, weights, runtime, encoder, device>>
Others == <<session, sent, torn>>

Id(c) == task[c].model[1]
File(c) == task[c].model[2]
Busy == session # NoModel
LoadedIds == {i \in Ids : loaded[i] # NoFile}

Init ==
    /\ site \in Sites
    /\ loaded = site.startup
    /\ active \in IF LoadedIds = {} THEN {NoId} ELSE LoadedIds
    /\ weights = [i \in Ids |-> NoFile]
    /\ runtime = [i \in Ids |->
                     IF site.startup[i] # NoFile /\ site.kind[site.startup[i]] # "dense"
                     THEN site.startup[i] ELSE NoFile]
    /\ encoder = [i \in Ids |-> NoFile]
    /\ device = {}
    /\ session = NoModel
    /\ lock = [l \in LockNames |-> << >>]
    /\ task = [c \in Clients |->
                  [pc |-> "done", req |-> [op |-> "none"], ok |-> TRUE,
                   model |-> NoModel, used |-> NoFile, todo |-> {}]]
    /\ sent = 0
    /\ torn = FALSE

-----------------------------------------------------------------------------
(***************************************************************************)
(* A request arrives.  Unload looks at the sessions before it waits.       *)
(***************************************************************************)
First(c, req) ==
    CASE req.op = "load"   -> [pc |-> "resident", asks |-> {Read("loaded")}]
      [] req.op = "unload" -> [pc |-> "unload", asks |-> {Write("transition")}]
      [] req.op = "chat"   -> [pc |-> "pick", asks |-> {Read("loaded")}]
      [] req.op = "embed"  -> [pc |-> "look", asks |-> {}]
      [] req.op = "show"   -> [pc |-> "show", asks |-> {Read("active")}]
      [] req.op = "turn"   -> [pc |-> "turn", asks |-> {Write("transition")}]

Begin(c, req) ==
    /\ At(c, "done") /\ sent < MaxRequests
    /\ sent' = sent + 1
    /\ LET refused == req.op = "unload" /\ Busy
           first == First(c, req)
       IN /\ task' = [task EXCEPT ![c] =
                [pc |-> IF refused THEN "done" ELSE first.pc,
                 req |-> req, ok |-> FALSE,
                 model |-> IF req.op = "load" THEN <<req.id, req.file>>
                                              ELSE NoModel,
                 used |-> NoFile, todo |-> {}]]
          /\ lock' = After(c, {}, IF refused THEN {} ELSE first.asks)
    /\ UNCHANGED <<Registries, session, torn>>

-----------------------------------------------------------------------------
\* A repeat of what is loaded skips the fit preflight; `used` remembers what
\* was loaded under the id when the request came.
Idempotent(c) == task[c].used = File(c)
ToFit(c, drops) ==
    IF Idempotent(c) THEN Goto(c, "enter", drops, {Write("transition")})
                     ELSE Goto(c, "fit", drops, {Read("lifecycle")})

(***************************************************************************)
(* release_model, called with the transition lock and the lifecycle lock   *)
(* held for writing, for one id or, with NoId, for all.  task.todo holds   *)
(* the targets not yet done.                                               *)
(***************************************************************************)
Target(c) == CHOOSE t \in task[c].todo : TRUE
Doomed(c) == IF Target(c) = NoId THEN Ids ELSE {Target(c)}
Without(f, gone) == [i \in Ids |-> IF i \in gone THEN NoFile ELSE f[i]]

\* The models a decode is running on.
Decoding == {task[c].model : c \in {d \in Clients : At(d, "decode")}}

EnterRelease(c, drops, targets) ==
    /\ task' = [task EXCEPT ![c].pc = IF site.cuda THEN "key" ELSE "drop",
                            ![c].todo = targets]
    /\ lock' = After(c, drops,
                     IF site.cuda THEN {Read("loaded")} ELSE {Write("loaded")})

\* Fault: a full queue skips the release.
ReleaseResident_Skips(c) ==
    /\ At(c, "key") /\ Holds(c, "loaded")
    /\ Goto(c, "drop", {"loaded"}, {Write("loaded")})
    /\ UNCHANGED <<Registries, Others>>

\* CUDA: refuse while the model has sequences, then have the engine release
\* what it holds.  A full queue is an error; nothing was changed yet.
ReleaseResident(c) ==
    /\ At(c, "key") /\ Holds(c, "loaded")
    /\ LET mine == {m \in Models : m[1] \in Doomed(c) /\ loaded[m[1]] = m[2]}
       IN \/ /\ IF Target(c) = NoId THEN FALSE ELSE mine \cap Decoding # {}
             /\ Answer(c, FALSE)
             /\ UNCHANGED device
          \/ /\ Target(c) = NoId \/ mine \cap Decoding = {}
             /\ device' = IF Target(c) = NoId THEN {} ELSE device \ mine
             /\ Goto(c, "drop", {"loaded"}, {Write("loaded")})
          \/ Answer(c, FALSE) /\ UNCHANGED device
    /\ UNCHANGED <<loaded, active, weights, runtime, encoder, Others>>

DropRecord(c) ==
    /\ At(c, "drop") /\ Holds(c, "loaded")
    /\ loaded' = Without(loaded, Doomed(c))
    /\ Goto(c, "drop rest", {"loaded"}, {})
    /\ UNCHANGED <<active, weights, runtime, encoder, device, Others>>

\* The runtimes, plans and weights, each under a lock nobody holds for long.
DropRest(c) ==
    /\ At(c, "drop rest")
    /\ runtime' = Without(runtime, Doomed(c))
    /\ encoder' = Without(encoder, Doomed(c))
    /\ weights' = Without(weights, Doomed(c))
    /\ Goto(c, "deactivate", {}, {Write("active")})
    /\ UNCHANGED <<loaded, active, device, Others>>

\* The active id moves to any model still loaded: the active lock is kept
\* while the loaded models are read.
Deactivate(c) ==
    /\ At(c, "deactivate") /\ Holds(c, "active")
    /\ IF Target(c) # NoId /\ active = Target(c)
       THEN Goto(c, "next active", {}, {Read("loaded")}) /\ UNCHANGED active
       ELSE /\ active' = IF Target(c) = NoId THEN NoId ELSE active
            /\ Goto(c, "trim", {"active"}, {})
    /\ UNCHANGED <<loaded, weights, runtime, encoder, device, Others>>

NextActive(c) ==
    /\ At(c, "next active") /\ Holds(c, "loaded")
    /\ active' \in IF LoadedIds = {} THEN {NoId} ELSE LoadedIds
    /\ Goto(c, "trim", {"active", "loaded"}, {})
    /\ UNCHANGED <<loaded, weights, runtime, encoder, device, Others>>

\* The last engine job: without CUDA it resets every resident cache, with
\* CUDA it only trims the pool.  A full queue is an error.
Trim(c) ==
    /\ At(c, "trim")
    /\ \/ /\ device' = IF site.cuda THEN device ELSE {}
          /\ LET rest == task[c].todo \ {Target(c)}
             IN IF rest # {}
                THEN EnterRelease(c, {}, rest)
                ELSE IF task[c].req.op = "load"
                     THEN ToFit(c, {"transition", "lifecycle"})
                     ELSE Answer(c, TRUE)
       \/ Answer(c, FALSE) /\ UNCHANGED device
    /\ UNCHANGED <<loaded, active, weights, runtime, encoder, Others>>

-----------------------------------------------------------------------------
(***************************************************************************)
(* unload_model.                                                           *)
(***************************************************************************)
Unload(c) ==
    /\ At(c, "unload") /\ Holds(c, "transition")
    /\ IF Busy THEN Answer(c, FALSE)
       ELSE Goto(c, "target", {},
                 IF task[c].req.id = NoId THEN {Read("active")} ELSE {})
    /\ UNCHANGED <<Registries, Others>>

\* Fault: unload takes the lifecycle lock as a reader.
PickTarget_Shared(c) ==
    /\ At(c, "target") /\ (task[c].req.id = NoId => Holds(c, "active"))
    /\ LET t == IF task[c].req.id = NoId THEN active ELSE task[c].req.id
       IN IF site.cuda /\ t # NoId /\ <<t, loaded[t]>> \in Decoding
          THEN Answer(c, FALSE)
          ELSE /\ task' = [task EXCEPT ![c].pc = "exclusive", ![c].todo = {t}]
               /\ lock' = After(c, {"active"}, {Read("lifecycle")})
    /\ UNCHANGED <<Registries, Others>>

\* Without an id the active model is the target.  On CUDA a model that is
\* decoding is refused at once: waiting would hold back every new reader.
\* (The loaded models are read without waiting: only the holder of the
\* transition lock writes them.)
PickTarget(c) ==
    /\ At(c, "target") /\ (task[c].req.id = NoId => Holds(c, "active"))
    /\ LET t == IF task[c].req.id = NoId THEN active ELSE task[c].req.id
       IN IF site.cuda /\ t # NoId /\ <<t, loaded[t]>> \in Decoding
          THEN Answer(c, FALSE)
          ELSE /\ task' = [task EXCEPT ![c].pc = "exclusive", ![c].todo = {t}]
               /\ lock' = After(c, {"active"}, {Write("lifecycle")})
    /\ UNCHANGED <<Registries, Others>>

Exclusive(c) ==
    /\ At(c, "exclusive") /\ Holds(c, "lifecycle")
    /\ EnterRelease(c, {}, task[c].todo)
    /\ UNCHANGED <<Registries, Others>>

-----------------------------------------------------------------------------
(***************************************************************************)
(* load_model: what is resident, what to release for it, does it fit, then *)
(* load_model_from_path_with_activation.                                   *)
(***************************************************************************)
Resident(c) ==
    /\ At(c, "resident") /\ Holds(c, "loaded")
    /\ task' = [task EXCEPT ![c].pc = "survey",
                            ![c].used = loaded[Id(c)]]
    /\ lock' = After(c, {"loaded"}, {Read("loaded")})
    /\ UNCHANGED <<Registries, Others>>

Survey(c) ==
    /\ At(c, "survey") /\ Holds(c, "loaded")
    /\ LET reclaim == {i \in LoadedIds : <<i, loaded[i]>> # task[c].model}
       IN IF task[c].req.replace /\ reclaim # {}
          THEN IF Busy THEN Answer(c, FALSE)
               ELSE /\ task' = [task EXCEPT ![c].pc = "replace",
                                            ![c].todo = reclaim]
                    /\ lock' = After(c, {"loaded"}, {Write("transition")})
          ELSE ToFit(c, {"loaded"})
    /\ UNCHANGED <<Registries, Others>>

Replace(c) ==
    /\ At(c, "replace") /\ Holds(c, "transition")
    /\ IF Busy THEN Answer(c, FALSE)
       ELSE Goto(c, "exclusive", {}, {Write("lifecycle")})
    /\ UNCHANGED <<Registries, Others>>

\* The live probe finds room, or refuses.
Fit(c) ==
    /\ At(c, "fit") /\ Holds(c, "lifecycle")
    /\ IF Cardinality(LoadedIds) < site.room /\ ~Busy
       THEN Goto(c, "enter", {"lifecycle"}, {Write("transition")})
       ELSE Answer(c, FALSE)
    /\ UNCHANGED <<Registries, Others>>

Enter(c) ==
    /\ At(c, "enter") /\ Holds(c, "transition")
    /\ IF Busy THEN Answer(c, FALSE)
       ELSE Goto(c, "lease load", {}, {Read("lifecycle")})
    /\ UNCHANGED <<Registries, Others>>

LeaseLoad(c) ==
    /\ At(c, "lease load") /\ Holds(c, "lifecycle")
    /\ Goto(c, "fast", {}, {Read("loaded")})
    /\ UNCHANGED <<Registries, Others>>

SetActive(c) == task[c].req.op = "chat" \/ task[c].req.act

\* A load that succeeded: the chat that asked for it goes on.
LoadDone(c) ==
    IF task[c].req.op = "chat"
    THEN Goto(c, "lease", LockNames, {Read("lifecycle")})
    ELSE Answer(c, TRUE)

\* Fault: the fast path takes the record for the whole model.
Fast_NoHeal(c) ==
    /\ At(c, "fast") /\ Holds(c, "loaded")
    /\ IF loaded[Id(c)] # File(c)
       THEN Goto(c, "build", {"loaded"}, {})
       ELSE IF SetActive(c)
            THEN Goto(c, "reactivate", {"loaded"}, {Write("active")})
            ELSE LoadDone(c)
    /\ UNCHANGED <<Registries, Others>>

\* The idempotent fast path, with the healing of a missing runtime.
Fast(c) ==
    /\ At(c, "fast") /\ Holds(c, "loaded")
    /\ IF loaded[Id(c)] # File(c)
       THEN Goto(c, "build", {"loaded"}, {})
       ELSE IF site.kind[File(c)] \in {"gemma4", "runnable"} /\ runtime[Id(c)] = NoFile
            THEN Goto(c, "heal", {"loaded"}, {})
            ELSE IF SetActive(c)
                 THEN Goto(c, "reactivate", {"loaded"}, {Write("active")})
                 ELSE LoadDone(c)
    /\ UNCHANGED <<Registries, Others>>

Heal(c) ==
    /\ At(c, "heal")
    /\ \/ /\ runtime' = [runtime EXCEPT ![Id(c)] = File(c)]
          /\ IF SetActive(c) THEN Goto(c, "reactivate", {}, {Write("active")})
                             ELSE LoadDone(c)
       \/ Answer(c, FALSE) /\ UNCHANGED runtime
    /\ UNCHANGED <<loaded, active, weights, encoder, device, Others>>

Reactivate(c) ==
    /\ At(c, "reactivate") /\ Holds(c, "active")
    /\ active' = Id(c)
    /\ LoadDone(c)
    /\ UNCHANGED <<loaded, weights, runtime, encoder, device, Others>>

\* Metadata, tokenizer and hash on blocking threads; a runnable model also
\* has its runtime built and published first.
Build(c) ==
    /\ At(c, "build")
    /\ \/ /\ runtime' = IF site.kind[File(c)] = "runnable"
                        THEN [runtime EXCEPT ![Id(c)] = File(c)] ELSE runtime
          /\ Goto(c, "publish", {}, {Write("loaded")})
       \/ Answer(c, FALSE) /\ UNCHANGED runtime
    /\ UNCHANGED <<loaded, active, weights, encoder, device, Others>>

\* What is left once the model is published: the gemma4 lane drops its old
\* runtime before it builds the new one, the diffusion lane just builds.
AfterPublish(c, drops) ==
    CASE site.kind[File(c)] = "gemma4" -> Goto(c, "clear", drops, {})
      [] site.kind[File(c)] = "dg"     -> Goto(c, "serve", drops, {})
      [] OTHER                    -> LoadDone(c)

Publish(c) ==
    /\ At(c, "publish") /\ Holds(c, "loaded")
    /\ loaded' = [loaded EXCEPT ![Id(c)] = File(c)]
    /\ IF SetActive(c) THEN Goto(c, "activate", {"loaded"}, {Write("active")})
                       ELSE AfterPublish(c, {"loaded"})
    /\ UNCHANGED <<active, weights, runtime, encoder, device, Others>>

Activate(c) ==
    /\ At(c, "activate") /\ Holds(c, "active")
    /\ active' = Id(c)
    /\ AfterPublish(c, {"active"})
    /\ UNCHANGED <<loaded, weights, runtime, encoder, device, Others>>

Clear(c) ==
    /\ At(c, "clear")
    /\ runtime' = [runtime EXCEPT ![Id(c)] = NoFile]
    /\ Goto(c, "serve", {}, {})
    /\ UNCHANGED <<loaded, active, weights, encoder, device, Others>>

Serve(c) ==
    /\ At(c, "serve")
    /\ \/ /\ runtime' = [runtime EXCEPT ![Id(c)] = File(c)]
          /\ LoadDone(c)
       \/ Answer(c, FALSE) /\ UNCHANGED runtime
    /\ UNCHANGED <<loaded, active, weights, encoder, device, Others>>

-----------------------------------------------------------------------------
(***************************************************************************)
(* A generation on a dense model: get_or_load_model and prepare_generation.*)
(* The loaded models stay locked while the active id is written.           *)
(***************************************************************************)
Chosen(c, t, drops) ==
    CASE t \in LoadedIds ->
             With(c, "use", <<t, loaded[t]>>, drops, {Write("active")})
      [] t \notin LoadedIds /\ t \in Ids /\ site.disk[t] # NoFile /\ ~Busy ->
             With(c, "enter", <<t, site.disk[t]>>, {"loaded"} \cup drops,
                  {Write("transition")})
      [] OTHER -> Answer(c, FALSE)

Pick(c) ==
    /\ At(c, "pick") /\ Holds(c, "loaded")
    /\ IF task[c].req.id = NoId
       THEN Goto(c, "pick active", {}, {Read("active")})
       ELSE Chosen(c, task[c].req.id, {})
    /\ UNCHANGED <<Registries, Others>>

PickActive(c) ==
    /\ At(c, "pick active") /\ Holds(c, "active")
    /\ Chosen(c, IF active = NoId /\ Cardinality(LoadedIds) = 1
                 THEN CHOOSE i \in LoadedIds : TRUE ELSE active, {"active"})
    /\ UNCHANGED <<Registries, Others>>

Use(c) ==
    /\ At(c, "use") /\ Holds(c, "active")
    /\ active' = Id(c)
    /\ Goto(c, "lease", {"active", "loaded"}, {Read("lifecycle")})
    /\ UNCHANGED <<loaded, weights, runtime, encoder, device, Others>>

\* The lease on the model files, kept until the decode is over; the model
\* must still be the one that was picked.
Lease(c) ==
    /\ At(c, "lease") /\ Holds(c, "lifecycle")
    /\ Goto(c, "verify", {}, {Read("loaded")})
    /\ UNCHANGED <<Registries, Others>>

\* Fault: the model is not looked up again under the lease.
Verify_Trusting(c) ==
    /\ At(c, "verify") /\ Holds(c, "loaded")
    /\ Goto(c, "weights", {"loaded"}, {})
    /\ UNCHANGED <<Registries, Others>>

Verify(c) ==
    /\ At(c, "verify") /\ Holds(c, "loaded")
    /\ IF loaded[Id(c)] = File(c) THEN Goto(c, "weights", {"loaded"}, {})
                                  ELSE Answer(c, FALSE)
    /\ UNCHANGED <<Registries, Others>>

\* load_weights_lru: cached weights are found by id.  A miss may first evict
\* the weights of others, then reads the file and caches what it read.
Weights(c) ==
    /\ At(c, "weights")
    /\ IF weights[Id(c)] # NoFile
       THEN /\ task' = [task EXCEPT ![c].pc = "decode",
                                    ![c].used = weights[Id(c)]]
            /\ lock' = lock
            /\ UNCHANGED weights
       ELSE \/ /\ \E gone \in SUBSET (Ids \ {Id(c)}) :
                     weights' = [Without(weights, gone) EXCEPT ![Id(c)] = File(c)]
               /\ task' = [task EXCEPT ![c].pc = "decode", ![c].used = File(c)]
               /\ lock' = lock
            \/ Answer(c, FALSE) /\ UNCHANGED weights
    /\ UNCHANGED <<loaded, active, runtime, encoder, device, Others>>

\* The engine decodes and leaves its resident state on the device, or the
\* queue was full.
Decode(c) ==
    /\ At(c, "decode")
    /\ \/ device' = device \cup {task[c].model} /\ Answer(c, TRUE)
       \/ Answer(c, FALSE) /\ UNCHANGED device
    /\ UNCHANGED <<loaded, active, weights, runtime, encoder, Others>>

-----------------------------------------------------------------------------
(***************************************************************************)
(* resolve_embedding_runtime: the first request loads the encoder.         *)
(***************************************************************************)
Look(c) ==
    /\ At(c, "look")
    /\ IF encoder[task[c].req.id] # NoFile THEN Answer(c, TRUE)
       ELSE Goto(c, "look again", {}, {Write("encoderLoad")})
    /\ UNCHANGED <<Registries, Others>>

LookAgain(c) ==
    /\ At(c, "look again") /\ Holds(c, "encoderLoad")
    /\ IF encoder[task[c].req.id] # NoFile THEN Answer(c, TRUE)
       ELSE Goto(c, "encoder model", {}, {Read("loaded")})
    /\ UNCHANGED <<Registries, Others>>

EncoderModel(c) ==
    /\ At(c, "encoder model") /\ Holds(c, "loaded")
    /\ LET i == task[c].req.id
       IN IF loaded[i] = NoFile THEN Answer(c, FALSE)
          ELSE With(c, "encoder load", <<i, loaded[i]>>, {"loaded"},
                    {Read("lifecycle")})
    /\ UNCHANGED <<Registries, Others>>

EncoderLoad(c) ==
    /\ At(c, "encoder load") /\ Holds(c, "lifecycle")
    /\ \/ encoder' = [encoder EXCEPT ![Id(c)] = IF @ = NoFile THEN File(c) ELSE @]
          /\ Answer(c, TRUE)
       \/ Answer(c, FALSE) /\ UNCHANGED encoder
    /\ UNCHANGED <<loaded, active, weights, runtime, device, Others>>

-----------------------------------------------------------------------------
(***************************************************************************)
(* Handlers that show the active model: they read the loaded models with   *)
(* the active id still locked.  The liveness endpoints do the same but     *)
(* give up after LIVENESS_LOCK_BUDGET.                                     *)
(***************************************************************************)
Show(c) ==
    /\ At(c, "show") /\ Holds(c, "active")
    /\ IF active = NoId THEN Answer(c, TRUE)
       ELSE Goto(c, "show loaded", {}, {Read("loaded")})
    /\ UNCHANGED <<Registries, Others>>

ShowLoaded(c) ==
    /\ At(c, "show loaded") /\ Holds(c, "loaded")
    /\ Answer(c, TRUE)
    /\ UNCHANGED <<Registries, Others>>

\* Fault: the liveness endpoints wait like the others.
GiveUp_Never(c) ==
    /\ FALSE
    /\ Answer(c, TRUE)
    /\ UNCHANGED <<Registries, Others>>

GiveUp(c) ==
    /\ task[c].pc \in {"show", "show loaded"} /\ task[c].req.bounded
    /\ Answer(c, TRUE)
    /\ UNCHANGED <<Registries, Others>>

\* A Workspace or coding turn begins under the transition lock, on the
\* active model as it finds it, and ends when it ends.
Turn(c) ==
    /\ At(c, "turn") /\ Holds(c, "transition")
    /\ LET fit == active \in LoadedIds /\ ~Busy
       IN /\ session' = IF fit THEN <<active, loaded[active]>> ELSE session
          /\ Answer(c, fit)
    /\ UNCHANGED <<Registries, sent, torn>>

TurnEnds ==
    /\ Busy
    /\ session' = NoModel
    /\ UNCHANGED <<Registries, lock, task, sent, torn>>

\* The client hangs up: the handler is dropped where it waits, and its
\* guards with it.
HalfWay == {"drop rest", "deactivate", "next active", "trim", "publish"}

HangUp(c) ==
    /\ site.hangups /\ ~At(c, "done")
    /\ torn' = (torn \/ task[c].pc \in HalfWay)
    /\ Answer(c, FALSE)
    /\ UNCHANGED <<Registries, session, sent>>

Step(c) ==
    \/ ReleaseResident(c) \/ DropRecord(c) \/ DropRest(c) \/ Deactivate(c)
    \/ NextActive(c) \/ Trim(c)
    \/ Unload(c) \/ PickTarget(c) \/ Exclusive(c)
    \/ Resident(c) \/ Survey(c) \/ Replace(c) \/ Fit(c) \/ Enter(c)
    \/ LeaseLoad(c) \/ Fast(c) \/ Heal(c) \/ Reactivate(c) \/ Build(c)
    \/ Publish(c) \/ Activate(c) \/ Clear(c) \/ Serve(c)
    \/ Pick(c) \/ PickActive(c) \/ Use(c) \/ Lease(c)
    \/ Verify(c) \/ Weights(c) \/ Decode(c)
    \/ Look(c) \/ LookAgain(c) \/ EncoderModel(c) \/ EncoderLoad(c)
    \/ Show(c) \/ ShowLoaded(c) \/ GiveUp(c) \/ Turn(c)

Next ==
    /\ \/ \E c \in site.clients :
              Step(c) \/ HangUp(c) \/ \E req \in site.requests : Begin(c, req)
       \/ TurnEnds
    /\ UNCHANGED site

\* The runtime polls some handler that can go on; clients owe nothing.
Fairness == WF_vars((\E c \in site.clients : Step(c)) /\ UNCHANGED site)

Spec == Init /\ [][Next]_vars /\ Fairness

-----------------------------------------------------------------------------
(***************************************************************************)
(* Properties.                                                             *)
(***************************************************************************)
Places == {"done", "resident", "survey", "replace", "fit", "enter",
           "lease load", "fast", "heal", "reactivate", "build", "publish",
           "activate", "clear", "serve", "unload", "target", "exclusive",
           "key", "drop", "drop rest", "deactivate", "next active", "trim",
           "pick", "pick active", "use", "lease", "verify", "weights",
           "decode", "look", "look again", "encoder model", "encoder load",
           "show", "show loaded", "turn"}
MaybeFile == Files \cup {NoFile}

\* The types, and that no task stands twice in the queue of a lock.
TypeOK ==
    /\ loaded \in [Ids -> MaybeFile] /\ weights \in [Ids -> MaybeFile]
    /\ runtime \in [Ids -> MaybeFile] /\ encoder \in [Ids -> MaybeFile]
    /\ active \in Ids \cup {NoId}
    /\ device \subseteq Models
    /\ session \in Models \cup {NoModel}
    /\ sent \in 0 .. MaxRequests /\ torn \in BOOLEAN
    /\ \A c \in Clients :
          /\ task[c].pc \in Places /\ task[c].req \in site.requests \cup {[op |-> "none"]}
          /\ task[c].model \in (Ids \cup {NoId}) \X MaybeFile
          /\ task[c].used \in MaybeFile /\ task[c].todo \subseteq Ids \cup {NoId}
    /\ \A l \in LockNames :
          /\ \A i \in 1 .. Len(lock[l]) : lock[l][i] \in [who : Clients, mode : {"r", "w"}]
          /\ \A i, j \in 1 .. Len(lock[l]) : lock[l][i].who = lock[l][j].who => i = j

Quiet == lock["transition"] = << >> /\ ~torn

\* Between transitions the active id, which requests without a model id are
\* routed by, names a loaded model: release_model and get_or_load_model both
\* move it, the one while it holds the active lock and the other while it
\* holds the loaded one.
ActiveIsLoaded == Quiet => active \in LoadedIds \cup {NoId}

\* Nothing is kept for a model that was unloaded: no weights and no serve
\* runtime outlive its record, whatever generations were being prepared
\* when it went.
NothingLeftOfUnloaded ==
    Quiet => \A i \in Ids : loaded[i] = NoFile =>
                 weights[i] = NoFile /\ runtime[i] = NoFile

\* The registries agree whenever no transition is under way: they were changed one
\* by one, each under its own lock, with requests in between.
RegistriesAgree == TypeOK /\ ActiveIsLoaded /\ NothingLeftOfUnloaded

\* The model a generation decodes is not unloaded under it: the lease on the
\* model files keeps release_model out until the decode is over.
DecodingIsLoaded == \A m \in Decoding : m[1] \in LoadedIds

\* While a Workspace or coding turn runs, the artifact it was started on
\* stays loaded under its id: transitions look for a turn again once they
\* have the transition lock.
TurnKeepsModel == Busy => loaded[session[1]] = session[2]

\* No load, replacement or unload takes a model away from who is using it.
InUseStays == DecodingIsLoaded /\ TurnKeepsModel

\* The files that may come to be loaded under an id, and whether it is one.
FilesOf(i) ==
    ({site.startup[i], site.disk[i]} \ {NoFile})
        \cup {r.file : r \in {q \in site.requests : q.op = "load" /\ q.id = i}}
OneFile(i) == \A x, y \in FilesOf(i) : x = y

\* A load of a model with a runtime of its own that answers success has left
\* that runtime, also on the fast path, and also after an earlier attempt that
\* failed or was cut off half way.  (Runtimes are found by id: a cut-off load of
\* another file under the id leaves the runtime of that file.)
LoadAnswersServable ==
    [][\A c \in Clients :
          (/\ ~At(c, "done") /\ task'[c].pc = "done" /\ task'[c].ok
           /\ task[c].req.op = "load" /\ OneFile(task[c].req.id)
           /\ site.kind[task[c].req.file] \in {"gemma4", "runnable"})
          => runtime'[task[c].req.id] = task[c].req.file]_vars

\* An unload that answers success has taken the model's resident state off
\* the device, and a retry after a full engine queue does so too.  (The engine is
\* asked by id and present file: what a file loaded under the id before left
\* there stays.)
UnloadAnswersFreed ==
    [][\A c \in Clients :
          (/\ ~At(c, "done") /\ task'[c].pc = "done" /\ task'[c].ok
           /\ task[c].req.op = "unload")
          => \A m \in device' : OneFile(m[1]) => m[1] \notin Doomed(c)]_vars

\* Requests are all answered in the end: whatever locks their handlers hold and
\* wait for, they never wait for each other in a circle.
RequestsEnd ==
    (\E c \in Clients : ~At(c, "done")) ~> (\A c \in Clients : At(c, "done"))
=============================================================================
