------------------------------ MODULE Sidecar ------------------------------
(***************************************************************************)
(* The desktop shell and the engine processes it starts                    *)
(* (camelid-desktop/src/lifecycle.rs, main.rs, engine.rs).  Every startup  *)
(* runs on a thread of its own: it reserves a port, spawns a child, waits  *)
(* for its health route and installs it in the one slot the application    *)
(* owns.  Retries start further threads, and the main thread may take the  *)
(* application down at any moment of any of them.                          *)
(*                                                                         *)
(* A child is named after the startup that spawned it.  Dropping an        *)
(* Engine kills and reaps its child; it happens outside the slot's lock,   *)
(* so taking an engine and dropping it are two steps.                      *)
(***************************************************************************)
EXTENDS Naturals, FiniteSets

CONSTANTS
    MaxStarts,  \* bound on the startups of one run of the application
    Ports,      \* ephemeral loopback ports
    Sites,      \* builds and users: see site
    Splash,     \* the window shows the splash page
    None        \* no engine, no port

ASSUME StartsAssumption == MaxStarts \in Nat \ {0}
ASSUME NonesAssumption ==
    /\ None \notin 1 .. MaxStarts /\ None \notin Ports
    /\ Splash \notin Ports
    /\ Sites \subseteq [windows : BOOLEAN, impatient : BOOLEAN]

Starts == 1 .. MaxStarts
Main == 0   \* the main thread, as a holder of an engine it is dropping

CONSTANT MaxPolls  \* HEALTH_TIMEOUT / HEALTH_POLL_INTERVAL
ASSUME PollsAssumption == MaxPolls \in Nat \ {0}

VARIABLES
    site,      \* windows: children are put in a kill-on-close job object;
               \* impatient: the user may ask for a restart while one is under way
    main,      \* the main thread: its event loop, the two exit events, gone
    slot,      \* OwnedSidecar: Slot::engine
    exiting,   \* OwnedSidecar: Slot::exiting
    pc,        \* where each startup is
    held,      \* the engine a thread has taken out of the slot and will drop
    child,     \* state of each startup's process
    port,      \* the port it was given
    listener,  \* which child answers on a port
    inJob,     \* children that were assigned to a job object
    polls,     \* unsuccessful health polls of a startup
    window,    \* the port the main window shows, or the splash
    snapshot   \* StartupState as the page renders it: a status or an error

appVars == <<main, window, snapshot>>
vars == <<site, main, slot, exiting, pc, held, child, port, listener, inJob, polls,
          window, snapshot>>

Alive(s) == child[s] \in {"booting", "serving"}

\* The steps of start_engine at which its own child is a local of the thread.
Startup == {"spawned", "waiting", "probing", "polled", "failing", "healthy", "rejected"}
UnderWay == Startup \cup {"stopping", "locating", "picked", "dropping", "installed"}

TypeOK ==
    /\ main \in {"open", "closing", "leaving", "exiting", "gone"}
    /\ slot \in Starts \cup {None}
    /\ exiting \in BOOLEAN
    /\ pc \in [Starts -> UnderWay \cup {"unborn", "done"}]
    /\ held \in [Starts \cup {Main} -> Starts \cup {None}]
    /\ child \in [Starts -> {"none", "booting", "serving", "dead"}]
    /\ port \in [Starts -> Ports \cup {None}]
    /\ listener \in [Ports -> Starts \cup {None}]
    /\ inJob \subseteq Starts
    /\ polls \in [Starts -> 0 .. MaxPolls - 1]
    /\ window \in Ports \cup {Splash}
    /\ snapshot \in {"status", "error"}

\* setup() has spawned the first start_engine thread.
Init ==
    /\ site \in Sites
    /\ main = "open"
    /\ slot = None
    /\ exiting = FALSE
    /\ pc = [s \in Starts |-> IF s = 1 THEN "locating" ELSE "unborn"]
    /\ held = [t \in Starts \cup {Main} |-> None]
    /\ child = [s \in Starts |-> "none"]
    /\ port = [s \in Starts |-> None]
    /\ listener = [p \in Ports |-> None]
    /\ inJob = {}
    /\ polls = [s \in Starts |-> 0]
    /\ window = Splash
    /\ snapshot = "status"

-----------------------------------------------------------------------------
(* The operating system's side of a child.                                 *)

\* The processes in dying end and their sockets close.
Kill(dying) ==
    /\ child' = [s \in Starts |-> IF s \in dying /\ Alive(s) THEN "dead" ELSE child[s]]
    /\ listener' = [p \in Ports |-> IF listener[p] \in dying THEN None ELSE listener[p]]

\* The child binds the port it was told to use, or fails to and exits.
Bind(s) ==
    /\ child[s] = "booting"
    /\ IF listener[port[s]] = None
       THEN /\ child' = [child EXCEPT ![s] = "serving"]
            /\ listener' = [listener EXCEPT ![port[s]] = s]
       ELSE Kill({s})
    /\ UNCHANGED <<appVars, slot, exiting, pc, held, port, inJob, polls>>

\* The child exits by itself.
ChildExits(s) ==
    /\ Alive(s)
    /\ Kill({s})
    /\ UNCHANGED <<appVars, slot, exiting, pc, held, port, inJob, polls>>

-----------------------------------------------------------------------------
(* OwnedSidecar.                                                           *)

\* stop: the lock covers the flag and the take, not the drop.
Stop(t, flag) ==
    /\ held[t] = None
    /\ exiting' = (exiting \/ flag)
    /\ held' = [held EXCEPT ![t] = slot]
    /\ slot' = None

\* install, for a startup that passed the health gate.
Install_Unchecked(s) ==
    /\ main # "gone" /\ pc[s] = "healthy"
    /\ slot' = s
    /\ held' = [held EXCEPT ![s] = slot]
    /\ pc' = [pc EXCEPT ![s] = "dropping"]
    /\ UNCHANGED <<appVars, exiting, child, port, listener, inJob, polls>>
Install_Leaks(s) ==
    /\ main # "gone" /\ pc[s] = "healthy"
    /\ IF exiting
       THEN /\ pc' = [pc EXCEPT ![s] = "rejected"]
            /\ UNCHANGED <<slot, held>>
       ELSE /\ slot' = s
            /\ pc' = [pc EXCEPT ![s] = "dropping"]
            /\ UNCHANGED held
    /\ UNCHANGED <<appVars, exiting, child, port, listener, inJob, polls>>
Install(s) ==
    /\ main # "gone" /\ pc[s] = "healthy"
    /\ IF exiting
       THEN /\ pc' = [pc EXCEPT ![s] = "rejected"]
            /\ UNCHANGED <<slot, held>>
       ELSE /\ slot' = s
            /\ held' = [held EXCEPT ![s] = slot]
            /\ pc' = [pc EXCEPT ![s] = "dropping"]
    /\ UNCHANGED <<appVars, exiting, child, port, listener, inJob, polls>>

\* The engine install would not take is dropped: killed and reaped.
DropRejected(s) ==
    /\ main # "gone" /\ pc[s] = "rejected"
    /\ Kill({s})
    /\ pc' = [pc EXCEPT ![s] = "done"]
    /\ UNCHANGED <<appVars, slot, exiting, held, port, inJob, polls>>

-----------------------------------------------------------------------------
(* start_engine, on a thread of its own.                                   *)

\* emit_error and return.
Fails(s) ==
    /\ snapshot' = "error"
    /\ pc' = [pc EXCEPT ![s] = "done"]

\* resolve_engine_path and the models directory; pick_ephemeral_port binds a
\* free port and releases it again.  Each of the three may fail.
Locate(s) ==
    /\ main # "gone" /\ pc[s] = "locating"
    /\ \/ \E p \in Ports :
            /\ listener[p] = None
            /\ port' = [port EXCEPT ![s] = p]
            /\ pc' = [pc EXCEPT ![s] = "picked"]
            /\ snapshot' = "status"
       \/ Fails(s) /\ UNCHANGED port
    /\ UNCHANGED <<main, window, slot, exiting, held, child, listener, inJob, polls>>

SpawnChild(s) ==
    /\ main # "gone" /\ pc[s] = "picked"
    /\ \/ /\ child' = [child EXCEPT ![s] = "booting"]
          /\ pc' = [pc EXCEPT ![s] = "spawned"]
          /\ UNCHANGED snapshot
       \/ Fails(s) /\ UNCHANGED child
    /\ UNCHANGED <<main, window, slot, exiting, held, port, listener, inJob, polls>>

\* JobObject::assign on Windows, whose failure is ignored, then the stderr
\* capture, whose failure ends the startup.
Capture(s) ==
    /\ main # "gone" /\ pc[s] = "spawned"
    /\ \/ inJob' = inJob
       \/ site.windows /\ inJob' = inJob \cup {s}
    /\ pc' = [pc EXCEPT ![s] = "waiting"] \/ pc' = [pc EXCEPT ![s] = "failing"]
    /\ UNCHANGED <<appVars, slot, exiting, held, child, port, listener, polls>>

\* One turn of wait_for_health: try_wait, ...
TryWait(s) ==
    /\ main # "gone" /\ pc[s] = "waiting"
    /\ pc' = [pc EXCEPT ![s] = IF Alive(s) THEN "probing" ELSE "failing"]
    /\ UNCHANGED <<appVars, slot, exiting, held, child, port, listener, inJob, polls>>

\* ... http_health_ok, which asks the port and may fail though it is served, ...
Probe(s) ==
    /\ main # "gone" /\ pc[s] = "probing"
    /\ \/ /\ listener[port[s]] # None
          /\ pc' = [pc EXCEPT ![s] = "healthy"]
       \/ pc' = [pc EXCEPT ![s] = "polled"]
    /\ UNCHANGED <<appVars, slot, exiting, held, child, port, listener, inJob, polls>>

\* ... and the deadline, which a slow poll reaches before MaxPolls polls.
Deadline_Never(s) ==
    /\ main # "gone" /\ pc[s] = "polled"
    /\ pc' = [pc EXCEPT ![s] = "waiting"]
    /\ UNCHANGED <<appVars, slot, exiting, held, child, port, listener, inJob, polls>>
Deadline(s) ==
    /\ main # "gone" /\ pc[s] = "polled"
    /\ \/ /\ polls[s] + 1 < MaxPolls
          /\ polls' = [polls EXCEPT ![s] = @ + 1]
          /\ pc' = [pc EXCEPT ![s] = "waiting"]
       \/ /\ pc' = [pc EXCEPT ![s] = "failing"]
          /\ UNCHANGED polls
    /\ UNCHANGED <<appVars, slot, exiting, held, child, port, listener, inJob>>

\* finish_startup_failure kills and reaps the child; the splash shows the error.
StartupFailure(s) ==
    /\ main # "gone" /\ pc[s] = "failing"
    /\ Kill({s})
    /\ Fails(s)
    /\ UNCHANGED <<main, window, slot, exiting, held, port, inJob, polls>>

\* The drop of the engine that install replaced, then the ready status.
DropPrevious(s) ==
    /\ main # "gone" /\ pc[s] = "dropping"
    /\ Kill({held[s]})
    /\ held' = [held EXCEPT ![s] = None]
    /\ pc' = [pc EXCEPT ![s] = "installed"]
    /\ snapshot' = "status"
    /\ UNCHANGED <<main, window, slot, exiting, port, inJob, polls>>

\* The window is sent to the url the thread read before install.
Navigate_First(s) ==
    /\ main # "gone" /\ pc[s] = "installed"
    /\ \/ window' = port[1] /\ pc' = [pc EXCEPT ![s] = "done"] /\ UNCHANGED snapshot
       \/ Fails(s) /\ UNCHANGED window
    /\ UNCHANGED <<main, slot, exiting, held, child, port, listener, inJob, polls>>
Navigate(s) ==
    /\ main # "gone" /\ pc[s] = "installed"
    /\ \/ window' = port[s] /\ pc' = [pc EXCEPT ![s] = "done"] /\ UNCHANGED snapshot
       \/ Fails(s) /\ UNCHANGED window
    /\ UNCHANGED <<main, slot, exiting, held, child, port, listener, inJob, polls>>

-----------------------------------------------------------------------------
(* retry_startup, and the end of the application.                          *)

\* The splash offers a retry with an error, the page of an engine when nothing
\* answers at its address any more; the page's button comes back as soon as the
\* command has returned, while the startup it began is under way.
RetryOffered ==
    /\ main = "open"
    /\ \/ window = Splash /\ snapshot = "error"
       \/ window # Splash /\ listener[window] = None
    /\ site.impatient \/ \A s \in Starts : pc[s] \notin UnderWay

\* The splash hides its error pane at the click; the command stops the slot.
Retry(s) ==
    /\ RetryOffered
    /\ pc[s] = "unborn" /\ \A r \in 1 .. s - 1 : pc[r] # "unborn"
    /\ Stop(s, FALSE)
    /\ pc' = [pc EXCEPT ![s] = "stopping"]
    /\ snapshot' = "status"
    /\ UNCHANGED <<main, window, child, port, listener, inJob, polls>>

\* The engine it took is dropped, the snapshot reset, and the thread spawned.
Respawn(s) ==
    /\ main # "gone" /\ pc[s] = "stopping"
    /\ Kill({held[s]})
    /\ held' = [held EXCEPT ![s] = None]
    /\ snapshot' = "status"
    /\ pc' = [pc EXCEPT ![s] = "locating"]
    /\ UNCHANGED <<main, window, slot, exiting, port, inJob, polls>>

\* CloseRequested, and the events ExitRequested and Exit of the event loop: each
\* calls exit_engine.  A quit that closes no window starts at ExitRequested.
ExitEngine ==
    /\ \/ main = "open" /\ main' \in {"closing", "leaving"}
       \/ main = "closing" /\ main' = "leaving"
       \/ main = "leaving" /\ main' = "exiting"
    /\ Stop(Main, TRUE)
    /\ UNCHANGED <<window, snapshot, pc, child, port, listener, inJob, polls>>

ExitDrops ==
    /\ main # "gone" /\ held[Main] # None
    /\ Kill({held[Main]})
    /\ held' = [held EXCEPT ![Main] = None]
    /\ UNCHANGED <<appVars, slot, exiting, pc, port, inJob, polls>>

\* The process ends and its threads with it, without running their drops; the
\* job objects close with the handles.
ProcessEnds ==
    /\ main = "exiting" /\ held[Main] = None
    /\ main' = "gone"
    /\ Kill(inJob)
    /\ UNCHANGED <<slot, exiting, pc, held, port, inJob, polls, window, snapshot>>

\* The process dies at any other moment.
Crash ==
    /\ main # "gone"
    /\ main' = "gone"
    /\ Kill(inJob)
    /\ UNCHANGED <<slot, exiting, pc, held, port, inJob, polls, window, snapshot>>

Thread(s) ==
    \/ Locate(s) \/ SpawnChild(s) \/ Capture(s) \/ TryWait(s) \/ Probe(s)
    \/ Deadline(s) \/ StartupFailure(s) \/ Install(s) \/ DropRejected(s)
    \/ DropPrevious(s) \/ Navigate(s) \/ Respawn(s)

Exit == ExitEngine \/ ExitDrops \/ ProcessEnds

Next ==
    /\ \/ \E s \in Starts : Thread(s) \/ Retry(s) \/ Bind(s) \/ ChildExits(s)
       \/ Exit
       \/ Crash
    /\ UNCHANGED site

\* The operating system runs some thread that can go on, and an exit that has
\* begun is carried through by the event loop.
Fairness ==
    /\ WF_vars((\E s \in Starts : Thread(s)) /\ UNCHANGED site)
    /\ WF_vars(main # "open" /\ Exit /\ UNCHANGED site)

Spec == Init /\ [][Next]_vars /\ Fairness

-----------------------------------------------------------------------------
(* Properties.                                                             *)

\* Who will kill the child of startup s.
Owners(s) ==
    {t \in Starts \cup {Main} : held[t] = s}
        \cup (IF slot = s THEN {"slot"} ELSE {})
        \cup (IF pc[s] \in Startup THEN {"thread"} ELSE {})

\* However startups, retries and the exit interleave, every process that runs
\* has exactly one owner: its startup thread, the slot, or a thread that is about
\* to drop it.  None is leaked by a replacement, a rejection or a failure.
SoleOwner ==
    \A s \in Starts : Alive(s) => Cardinality(Owners(s)) = 1

\* Once the application has begun to exit, no startup that completes late puts an
\* engine back in the slot (OwnedSidecar::install).
StaysStopped == exiting => slot = None

\* An application that ends, by exit or by crash, leaves no process that is in a job
\* object; and once an exit has dropped what the slot held, it leaves only a process
\* that a startup had not handed over or that a thread was about to drop.
EndLeaves ==
    main = "gone" =>
        \A s \in Starts : Alive(s) =>
            /\ s \notin inJob
            /\ (exiting /\ held[Main] = None) =>
                  pc[s] \in Startup \/ \E t \in Starts : held[t] = s

\* No engine process is astray: while the application runs each has the one owner that
\* will kill it, and its end leaves only those whose owner ended with it.
NoStrayEngine == TypeOK /\ SoleOwner /\ EndLeaves

\* While restarts are asked for one at a time, a window that has left the splash
\* shows the engine in the slot whenever no startup is about to navigate it or
\* reported that it could not.
WindowShowsInstalled ==
    (~site.impatient /\ slot # None /\ \A s \in Starts : pc[s] \notin {"dropping", "installed"})
        => window = port[slot] \/ snapshot = "error"

\* Every startup ends, ready or with an error on the splash, even if its child
\* neither answers nor exits (the deadline of wait_for_health).
StartupEnds ==
    (\E s \in Starts : pc[s] = "waiting")
        ~> (main = "gone" \/ \A s \in Starts : pc[s] \in {"unborn", "done"})
=============================================================================
