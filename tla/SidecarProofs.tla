--------------------------- MODULE SidecarProofs ---------------------------
(***************************************************************************)
(* Proofs about Sidecar, for every number of startups, set of ports, poll  *)
(* limit and mix of builds and users.                                      *)
(***************************************************************************)
EXTENDS Sidecar, FiniteSetTheorems, TLAPS

(***************************************************************************)
(* The inductive invariant.                                                *)
(***************************************************************************)

Threads == Starts \cup {Main}

\* The startup has no process yet; its process has left the startup thread.
Early == {"unborn", "stopping", "locating", "picked"}
Late == {"dropping", "installed", "done"}

\* Where the process of a startup can be: nowhere before it is spawned, with its
\* thread up to the hand-over, and from then on in the slot or with one thread
\* that is dropping it.
Ownership ==
    /\ \A s \in Starts : pc[s] \in Early => child[s] = "none"
    /\ slot # None => pc[slot] \in Late
    /\ \A t \in Threads : held[t] # None => pc[held[t]] \in Late /\ held[t] # slot
    /\ \A t, u \in Threads : held[t] # None /\ held[t] = held[u] => t = u
    /\ \A s \in Starts :
          pc[s] \in Late /\ Alive(s) => slot = s \/ \E t \in Threads : held[t] = s

\* A startup thread holds an engine only between the take and the drop, and has
\* a port from the moment it picked one.
ThreadLocals ==
    /\ \A s \in Starts : held[s] # None => pc[s] \in {"stopping", "dropping"}
    /\ \A s \in Starts :
          pc[s] \notin {"unborn", "stopping", "locating", "done"} => port[s] \in Ports

\* The job objects close with the application.
JobsClosed == main = "gone" => \A s \in Starts : Alive(s) => s \notin inJob

\* Restarts asked for one at a time: one startup is under way, the slot is empty
\* until it installs, and nobody else's engine is there afterwards.
OneAtATime ==
    ~site.impatient =>
        /\ \A r, s \in Starts : pc[r] \in UnderWay /\ pc[s] \in UnderWay => r = s
        /\ \A s \in Starts : pc[s] \in UnderWay =>
              \/ slot = None
              \/ slot = s /\ pc[s] \in {"dropping", "installed"}

IInv ==
    /\ TypeOK /\ Ownership /\ ThreadLocals
    /\ JobsClosed /\ StaysStopped
    /\ OneAtATime /\ WindowShowsInstalled

\* What the constants say, as the steps below need it.
LEMMA ConstantFacts ==
    /\ None \notin Starts /\ None \notin Ports
    /\ Main \notin Starts /\ Starts \subseteq Threads /\ Main \in Threads
    /\ MaxPolls \in Nat \ {0}
BY StartsAssumption, NonesAssumption, PollsAssumption DEF Starts, Main, Threads

(***************************************************************************)
(* What every step preserves, conjunct by conjunct.                        *)
(***************************************************************************)

\* Every step keeps the types.
LEMMA TypeStep ==
    ASSUME IInv, Next
    PROVE  TypeOK'
<1>a. TypeOK /\ ThreadLocals
  BY DEF IInv
<1> USE <1>a, ConstantFacts DEF TypeOK, ThreadLocals, appVars, Threads, UnderWay, Startup
<1>1. ASSUME NEW s \in Starts, Locate(s) PROVE TypeOK'
  BY <1>1 DEF Locate, Fails
<1>2. ASSUME NEW s \in Starts, SpawnChild(s) PROVE TypeOK'
  BY <1>2 DEF SpawnChild, Fails
<1>3. ASSUME NEW s \in Starts, Capture(s) PROVE TypeOK'
  BY <1>3 DEF Capture
<1>4. ASSUME NEW s \in Starts, TryWait(s) PROVE TypeOK'
  BY <1>4 DEF TryWait
<1>5. ASSUME NEW s \in Starts, Probe(s) PROVE TypeOK'
  BY <1>5 DEF Probe
<1>6. ASSUME NEW s \in Starts, Deadline(s) PROVE TypeOK'
  BY <1>6 DEF Deadline
<1>7. ASSUME NEW s \in Starts, StartupFailure(s) PROVE TypeOK'
  BY <1>7 DEF StartupFailure, Fails, Kill
<1>8. ASSUME NEW s \in Starts, Install(s) PROVE TypeOK'
  BY <1>8 DEF Install
<1>9. ASSUME NEW s \in Starts, DropRejected(s) PROVE TypeOK'
  BY <1>9 DEF DropRejected, Kill
<1>10. ASSUME NEW s \in Starts, DropPrevious(s) PROVE TypeOK'
  BY <1>10 DEF DropPrevious, Kill
<1>11. ASSUME NEW s \in Starts, Navigate(s) PROVE TypeOK'
  BY <1>11 DEF Navigate, Fails
<1>12. ASSUME NEW s \in Starts, Respawn(s) PROVE TypeOK'
  BY <1>12 DEF Respawn, Kill
<1>13. ASSUME NEW s \in Starts, Retry(s) PROVE TypeOK'
  BY <1>13 DEF Retry, Stop
<1>14. ASSUME NEW s \in Starts, Bind(s) PROVE TypeOK'
  BY <1>14 DEF Bind, Kill
<1>15. ASSUME NEW s \in Starts, ChildExits(s) PROVE TypeOK'
  BY <1>15 DEF ChildExits, Kill
<1>16. CASE ExitEngine
  BY <1>16 DEF ExitEngine, Stop
<1>17. CASE ExitDrops
  BY <1>17 DEF ExitDrops, Kill
<1>18. CASE ProcessEnds
  BY <1>18 DEF ProcessEnds, Kill
<1>19. CASE Crash
  BY <1>19 DEF Crash, Kill
<1> QED
  BY <1>1, <1>2, <1>3, <1>4, <1>5, <1>6, <1>7, <1>8, <1>9, <1>10, <1>11, <1>12,
     <1>13, <1>14, <1>15, <1>16, <1>17, <1>18, <1>19
  DEF Next, Thread, Exit

\* Every step leaves a live process with its one owner.
LEMMA OwnershipStep ==
    ASSUME IInv, Next
    PROVE  Ownership'
<1>a. TypeOK /\ Ownership /\ ThreadLocals
  BY DEF IInv
<1> USE <1>a, ConstantFacts
    DEF Ownership, ThreadLocals, TypeOK, Alive, appVars, Threads, Early, Late
<1>1. ASSUME NEW s \in Starts, Locate(s) PROVE Ownership'
  BY <1>1 DEF Locate, Fails
<1>2. ASSUME NEW s \in Starts, SpawnChild(s) PROVE Ownership'
  BY <1>2 DEF SpawnChild, Fails
<1>3. ASSUME NEW s \in Starts, Capture(s) PROVE Ownership'
  BY <1>3 DEF Capture
<1>4. ASSUME NEW s \in Starts, TryWait(s) PROVE Ownership'
  BY <1>4 DEF TryWait
<1>5. ASSUME NEW s \in Starts, Probe(s) PROVE Ownership'
  BY <1>5 DEF Probe
<1>6. ASSUME NEW s \in Starts, Deadline(s) PROVE Ownership'
  BY <1>6 DEF Deadline
<1>7. ASSUME NEW s \in Starts, StartupFailure(s) PROVE Ownership'
  BY <1>7 DEF StartupFailure, Fails, Kill
<1>8. ASSUME NEW s \in Starts, Install(s) PROVE Ownership'
  BY <1>8 DEF Install
<1>9. ASSUME NEW s \in Starts, DropRejected(s) PROVE Ownership'
  BY <1>9 DEF DropRejected, Kill
<1>10. ASSUME NEW s \in Starts, DropPrevious(s) PROVE Ownership'
  BY <1>10 DEF DropPrevious, Kill
<1>11. ASSUME NEW s \in Starts, Navigate(s) PROVE Ownership'
  BY <1>11 DEF Navigate, Fails
<1>12. ASSUME NEW s \in Starts, Respawn(s) PROVE Ownership'
  BY <1>12 DEF Respawn, Kill
<1>13. ASSUME NEW s \in Starts, Retry(s) PROVE Ownership'
  BY <1>13 DEF Retry, Stop
<1>14. ASSUME NEW s \in Starts, Bind(s) PROVE Ownership'
  BY <1>14 DEF Bind, Kill
<1>15. ASSUME NEW s \in Starts, ChildExits(s) PROVE Ownership'
  BY <1>15 DEF ChildExits, Kill
<1>16. CASE ExitEngine
  BY <1>16 DEF ExitEngine, Stop
<1>17. CASE ExitDrops
  BY <1>17 DEF ExitDrops, Kill
<1>18. CASE ProcessEnds
  BY <1>18 DEF ProcessEnds, Kill
<1>19. CASE Crash
  BY <1>19 DEF Crash, Kill
<1> QED
  BY <1>1, <1>2, <1>3, <1>4, <1>5, <1>6, <1>7, <1>8, <1>9, <1>10, <1>11, <1>12,
     <1>13, <1>14, <1>15, <1>16, <1>17, <1>18, <1>19
  DEF Next, Thread, Exit

\* A thread drops what it took before it goes on, and keeps its port.
LEMMA LocalsStep ==
    ASSUME IInv, Next
    PROVE  ThreadLocals'
<1>a. TypeOK /\ ThreadLocals
  BY DEF IInv
<1> USE <1>a, ConstantFacts DEF ThreadLocals, TypeOK, appVars, Threads
<1>1. ASSUME NEW s \in Starts, Locate(s) PROVE ThreadLocals'
  BY <1>1 DEF Locate, Fails
<1>2. ASSUME NEW s \in Starts, SpawnChild(s) PROVE ThreadLocals'
  BY <1>2 DEF SpawnChild, Fails
<1>3. ASSUME NEW s \in Starts, Capture(s) PROVE ThreadLocals'
  BY <1>3 DEF Capture
<1>4. ASSUME NEW s \in Starts, TryWait(s) PROVE ThreadLocals'
  BY <1>4 DEF TryWait
<1>5. ASSUME NEW s \in Starts, Probe(s) PROVE ThreadLocals'
  BY <1>5 DEF Probe
<1>6. ASSUME NEW s \in Starts, Deadline(s) PROVE ThreadLocals'
  BY <1>6 DEF Deadline
<1>7. ASSUME NEW s \in Starts, StartupFailure(s) PROVE ThreadLocals'
  BY <1>7 DEF StartupFailure, Fails, Kill
<1>8. ASSUME NEW s \in Starts, Install(s) PROVE ThreadLocals'
  BY <1>8 DEF Install
<1>9. ASSUME NEW s \in Starts, DropRejected(s) PROVE ThreadLocals'
  BY <1>9 DEF DropRejected, Kill
<1>10. ASSUME NEW s \in Starts, DropPrevious(s) PROVE ThreadLocals'
  BY <1>10 DEF DropPrevious, Kill
<1>11. ASSUME NEW s \in Starts, Navigate(s) PROVE ThreadLocals'
  BY <1>11 DEF Navigate, Fails
<1>12. ASSUME NEW s \in Starts, Respawn(s) PROVE ThreadLocals'
  BY <1>12 DEF Respawn, Kill
<1>13. ASSUME NEW s \in Starts, Retry(s) PROVE ThreadLocals'
  BY <1>13 DEF Retry, Stop
<1>14. ASSUME NEW s \in Starts, Bind(s) PROVE ThreadLocals'
  BY <1>14 DEF Bind, Kill
<1>15. ASSUME NEW s \in Starts, ChildExits(s) PROVE ThreadLocals'
  BY <1>15 DEF ChildExits, Kill
<1>16. CASE ExitEngine
  BY <1>16 DEF ExitEngine, Stop
<1>17. CASE ExitDrops
  BY <1>17 DEF ExitDrops, Kill
<1>18. CASE ProcessEnds
  BY <1>18 DEF ProcessEnds, Kill
<1>19. CASE Crash
  BY <1>19 DEF Crash, Kill
<1> QED
  BY <1>1, <1>2, <1>3, <1>4, <1>5, <1>6, <1>7, <1>8, <1>9, <1>10, <1>11, <1>12,
     <1>13, <1>14, <1>15, <1>16, <1>17, <1>18, <1>19
  DEF Next, Thread, Exit

\* The end of the application closes the job objects, and no step after it puts a
\* process in one.
LEMMA JobStep ==
    ASSUME IInv, Next
    PROVE  JobsClosed'
<1>a. TypeOK /\ JobsClosed
  BY DEF IInv
<1> USE <1>a, ConstantFacts
    DEF JobsClosed, TypeOK, Alive, appVars, Threads
<1>1. ASSUME NEW s \in Starts, Locate(s) PROVE JobsClosed'
  BY <1>1 DEF Locate, Fails
<1>2. ASSUME NEW s \in Starts, SpawnChild(s) PROVE JobsClosed'
  BY <1>2 DEF SpawnChild, Fails
<1>3. ASSUME NEW s \in Starts, Capture(s) PROVE JobsClosed'
  BY <1>3 DEF Capture
<1>4. ASSUME NEW s \in Starts, TryWait(s) PROVE JobsClosed'
  BY <1>4 DEF TryWait
<1>5. ASSUME NEW s \in Starts, Probe(s) PROVE JobsClosed'
  BY <1>5 DEF Probe
<1>6. ASSUME NEW s \in Starts, Deadline(s) PROVE JobsClosed'
  BY <1>6 DEF Deadline
<1>7. ASSUME NEW s \in Starts, StartupFailure(s) PROVE JobsClosed'
  BY <1>7 DEF StartupFailure, Fails, Kill
<1>8. ASSUME NEW s \in Starts, Install(s) PROVE JobsClosed'
  BY <1>8 DEF Install
<1>9. ASSUME NEW s \in Starts, DropRejected(s) PROVE JobsClosed'
  BY <1>9 DEF DropRejected, Kill
<1>10. ASSUME NEW s \in Starts, DropPrevious(s) PROVE JobsClosed'
  BY <1>10 DEF DropPrevious, Kill
<1>11. ASSUME NEW s \in Starts, Navigate(s) PROVE JobsClosed'
  BY <1>11 DEF Navigate, Fails
<1>12. ASSUME NEW s \in Starts, Respawn(s) PROVE JobsClosed'
  BY <1>12 DEF Respawn, Kill
<1>13. ASSUME NEW s \in Starts, Retry(s) PROVE JobsClosed'
  BY <1>13 DEF Retry, Stop
<1>14. ASSUME NEW s \in Starts, Bind(s) PROVE JobsClosed'
  BY <1>14 DEF Bind, Kill
<1>15. ASSUME NEW s \in Starts, ChildExits(s) PROVE JobsClosed'
  BY <1>15 DEF ChildExits, Kill
<1>16. CASE ExitEngine
  BY <1>16 DEF ExitEngine, Stop
<1>17. CASE ExitDrops
  BY <1>17 DEF ExitDrops, Kill
<1>18. CASE ProcessEnds
  BY <1>18 DEF ProcessEnds, Kill
<1>19. CASE Crash
  BY <1>19 DEF Crash, Kill
<1> QED
  BY <1>1, <1>2, <1>3, <1>4, <1>5, <1>6, <1>7, <1>8, <1>9, <1>10, <1>11, <1>12,
     <1>13, <1>14, <1>15, <1>16, <1>17, <1>18, <1>19
  DEF Next, Thread, Exit

\* No step fills the slot once the exit has begun.
LEMMA StoppedStep ==
    ASSUME IInv, Next
    PROVE  StaysStopped'
<1>a. TypeOK /\ StaysStopped
  BY DEF IInv
<1> USE <1>a DEF StaysStopped, TypeOK, appVars
<1>1. ASSUME NEW s \in Starts, Locate(s) PROVE StaysStopped'
  BY <1>1 DEF Locate, Fails
<1>2. ASSUME NEW s \in Starts, SpawnChild(s) PROVE StaysStopped'
  BY <1>2 DEF SpawnChild, Fails
<1>3. ASSUME NEW s \in Starts, Capture(s) PROVE StaysStopped'
  BY <1>3 DEF Capture
<1>4. ASSUME NEW s \in Starts, TryWait(s) PROVE StaysStopped'
  BY <1>4 DEF TryWait
<1>5. ASSUME NEW s \in Starts, Probe(s) PROVE StaysStopped'
  BY <1>5 DEF Probe
<1>6. ASSUME NEW s \in Starts, Deadline(s) PROVE StaysStopped'
  BY <1>6 DEF Deadline
<1>7. ASSUME NEW s \in Starts, StartupFailure(s) PROVE StaysStopped'
  BY <1>7 DEF StartupFailure, Fails, Kill
<1>8. ASSUME NEW s \in Starts, Install(s) PROVE StaysStopped'
  BY <1>8 DEF Install
<1>9. ASSUME NEW s \in Starts, DropRejected(s) PROVE StaysStopped'
  BY <1>9 DEF DropRejected, Kill
<1>10. ASSUME NEW s \in Starts, DropPrevious(s) PROVE StaysStopped'
  BY <1>10 DEF DropPrevious, Kill
<1>11. ASSUME NEW s \in Starts, Navigate(s) PROVE StaysStopped'
  BY <1>11 DEF Navigate, Fails
<1>12. ASSUME NEW s \in Starts, Respawn(s) PROVE StaysStopped'
  BY <1>12 DEF Respawn, Kill
<1>13. ASSUME NEW s \in Starts, Retry(s) PROVE StaysStopped'
  BY <1>13 DEF Retry, Stop
<1>14. ASSUME NEW s \in Starts, Bind(s) PROVE StaysStopped'
  BY <1>14 DEF Bind, Kill
<1>15. ASSUME NEW s \in Starts, ChildExits(s) PROVE StaysStopped'
  BY <1>15 DEF ChildExits, Kill
<1>16. CASE ExitEngine
  BY <1>16 DEF ExitEngine, Stop
<1>17. CASE ExitDrops
  BY <1>17 DEF ExitDrops, Kill
<1>18. CASE ProcessEnds
  BY <1>18 DEF ProcessEnds, Kill
<1>19. CASE Crash
  BY <1>19 DEF Crash, Kill
<1> QED
  BY <1>1, <1>2, <1>3, <1>4, <1>5, <1>6, <1>7, <1>8, <1>9, <1>10, <1>11, <1>12,
     <1>13, <1>14, <1>15, <1>16, <1>17, <1>18, <1>19
  DEF Next, Thread, Exit

\* With restarts asked for one at a time, every step keeps the window on the
\* installed engine.
LEMMA WindowStep ==
    ASSUME IInv, Next
    PROVE  (OneAtATime /\ WindowShowsInstalled)'
<1>a. TypeOK /\ OneAtATime /\ WindowShowsInstalled /\ site' = site
  BY DEF IInv, Next
<1> USE <1>a, ConstantFacts
    DEF OneAtATime, WindowShowsInstalled, TypeOK, RetryOffered, UnderWay, Startup, appVars, Threads
<1>1. ASSUME NEW s \in Starts, Locate(s) PROVE (OneAtATime /\ WindowShowsInstalled)'
  BY <1>1 DEF Locate, Fails
<1>2. ASSUME NEW s \in Starts, SpawnChild(s) PROVE (OneAtATime /\ WindowShowsInstalled)'
  BY <1>2 DEF SpawnChild, Fails
<1>3. ASSUME NEW s \in Starts, Capture(s) PROVE (OneAtATime /\ WindowShowsInstalled)'
  BY <1>3 DEF Capture
<1>4. ASSUME NEW s \in Starts, TryWait(s) PROVE (OneAtATime /\ WindowShowsInstalled)'
  BY <1>4 DEF TryWait
<1>5. ASSUME NEW s \in Starts, Probe(s) PROVE (OneAtATime /\ WindowShowsInstalled)'
  BY <1>5 DEF Probe
<1>6. ASSUME NEW s \in Starts, Deadline(s) PROVE (OneAtATime /\ WindowShowsInstalled)'
  BY <1>6 DEF Deadline
<1>7. ASSUME NEW s \in Starts, StartupFailure(s) PROVE (OneAtATime /\ WindowShowsInstalled)'
  BY <1>7 DEF StartupFailure, Fails, Kill
<1>8. ASSUME NEW s \in Starts, Install(s) PROVE (OneAtATime /\ WindowShowsInstalled)'
  BY <1>8 DEF Install
<1>9. ASSUME NEW s \in Starts, DropRejected(s) PROVE (OneAtATime /\ WindowShowsInstalled)'
  BY <1>9 DEF DropRejected, Kill
<1>10. ASSUME NEW s \in Starts, DropPrevious(s) PROVE (OneAtATime /\ WindowShowsInstalled)'
  BY <1>10 DEF DropPrevious, Kill
<1>11. ASSUME NEW s \in Starts, Navigate(s) PROVE (OneAtATime /\ WindowShowsInstalled)'
  BY <1>11 DEF Navigate, Fails
<1>12. ASSUME NEW s \in Starts, Respawn(s) PROVE (OneAtATime /\ WindowShowsInstalled)'
  BY <1>12 DEF Respawn, Kill
<1>13. ASSUME NEW s \in Starts, Retry(s) PROVE (OneAtATime /\ WindowShowsInstalled)'
  BY <1>13 DEF Retry, Stop
<1>14. ASSUME NEW s \in Starts, Bind(s) PROVE (OneAtATime /\ WindowShowsInstalled)'
  BY <1>14 DEF Bind, Kill
<1>15. ASSUME NEW s \in Starts, ChildExits(s) PROVE (OneAtATime /\ WindowShowsInstalled)'
  BY <1>15 DEF ChildExits, Kill
<1>16. CASE ExitEngine
  BY <1>16 DEF ExitEngine, Stop
<1>17. CASE ExitDrops
  BY <1>17 DEF ExitDrops, Kill
<1>18. CASE ProcessEnds
  BY <1>18 DEF ProcessEnds, Kill
<1>19. CASE Crash
  BY <1>19 DEF Crash, Kill
<1> QED
  BY <1>1, <1>2, <1>3, <1>4, <1>5, <1>6, <1>7, <1>8, <1>9, <1>10, <1>11, <1>12,
     <1>13, <1>14, <1>15, <1>16, <1>17, <1>18, <1>19
  DEF Next, Thread, Exit

(***************************************************************************)
(* The theorems.                                                           *)
(***************************************************************************)

\* The initial state satisfies it.
LEMMA InitIInv == Init => IInv
<1> SUFFICES ASSUME Init PROVE IInv
  OBVIOUS
<1>1. TypeOK
  <2>1. polls \in [Starts -> 0 .. MaxPolls - 1]
    <3>1. 0 \in 0 .. MaxPolls - 1
      BY ConstantFacts
    <3> QED BY <3>1 DEF Init
  <2>2. pc \in [Starts -> UnderWay \cup {"unborn", "done"}]
    BY DEF Init, UnderWay
  <2> QED BY <2>1, <2>2 DEF Init, TypeOK
<1>2. Ownership /\ ThreadLocals
  BY ConstantFacts DEF Init, Ownership, ThreadLocals, Alive, Early, Late, Threads
<1>3. JobsClosed /\ StaysStopped
  BY DEF Init, JobsClosed, StaysStopped
<1>4. OneAtATime /\ WindowShowsInstalled
  BY DEF Init, OneAtATime, WindowShowsInstalled, UnderWay, Startup
<1> QED BY <1>1, <1>2, <1>3, <1>4 DEF IInv

\* The invariant is inductive.
LEMMA StepIInv == IInv /\ [Next]_vars => IInv'
<1> SUFFICES ASSUME IInv, [Next]_vars PROVE IInv'
  OBVIOUS
<1>1. CASE Next
  BY <1>1, TypeStep, OwnershipStep, LocalsStep, JobStep, StoppedStep, WindowStep DEF IInv
<1>2. CASE UNCHANGED vars
  BY <1>2
  DEF vars, IInv, TypeOK, Ownership, ThreadLocals, JobsClosed, StaysStopped,
      OneAtATime, WindowShowsInstalled, Alive
<1> QED BY <1>1, <1>2

\* IInv holds in every reachable state.
LEMMA Invariance == Spec => []IInv
<1>1. Init => IInv
  BY InitIInv
<1>2. IInv /\ [Next]_vars => IInv'
  BY StepIInv
<1> QED BY <1>1, <1>2, PTL DEF Spec

\* Three kinds of owner, of which a live process has one.
LEMMA OneOwner == TypeOK /\ Ownership => SoleOwner
<1> SUFFICES ASSUME TypeOK, Ownership, NEW s \in Starts, Alive(s)
             PROVE  Cardinality(Owners(s)) = 1
  BY DEF SoleOwner
<1>1. pc[s] \in Startup \cup Late
  BY DEF TypeOK, Ownership, Alive, Early, Late, UnderWay, Startup
<1>2. CASE pc[s] \in Startup
  <2>1. slot # s /\ \A t \in Threads : held[t] # s
    BY <1>2, ConstantFacts DEF Ownership, Late, Startup
  <2>2. Owners(s) = {"thread"}
    BY <1>2, <2>1 DEF Owners, Threads
  <2> QED BY <2>2, FS_Singleton
<1>3. CASE pc[s] \in Late /\ slot = s
  <2>1. \A t \in Threads : held[t] # s
    BY <1>3, ConstantFacts DEF Ownership
  <2>2. Owners(s) = {"slot"}
    BY <1>3, <2>1 DEF Owners, Threads, Late, Startup
  <2> QED BY <2>2, FS_Singleton
<1>4. CASE pc[s] \in Late /\ slot # s
  <2>1. PICK t \in Threads : held[t] = s
    BY <1>4 DEF Ownership
  <2>2. \A u \in Threads : held[u] = s => u = t
    BY <2>1, ConstantFacts DEF Ownership
  <2>3. Owners(s) = {t}
    BY <1>4, <2>1, <2>2 DEF Owners, Threads, Late, Startup
  <2> QED BY <2>3, FS_Singleton
<1> QED BY <1>1, <1>2, <1>3, <1>4

\* What an end of the application leaves follows from who owned what at that moment.
LEMMA LeftAtTheEnd == TypeOK /\ Ownership /\ JobsClosed /\ StaysStopped => EndLeaves
<1> SUFFICES ASSUME TypeOK, Ownership, JobsClosed, StaysStopped, main = "gone",
                    NEW s \in Starts, Alive(s)
             PROVE  /\ s \notin inJob
                    /\ (exiting /\ held[Main] = None) =>
                          pc[s] \in Startup \/ \E t \in Starts : held[t] = s
  BY DEF EndLeaves
<1>1. s \notin inJob
  BY DEF JobsClosed
<1>2. ASSUME exiting, held[Main] = None, pc[s] \notin Startup
      PROVE  \E t \in Starts : held[t] = s
  <2>1. pc[s] \in Late
    BY <1>2 DEF TypeOK, Ownership, Alive, Early, Late, UnderWay, Startup
  <2>2. slot # s
    BY <1>2, ConstantFacts DEF StaysStopped
  <2>3. PICK t \in Threads : held[t] = s
    BY <2>1, <2>2 DEF Ownership
  <2>4. t # Main
    BY <1>2, <2>3, ConstantFacts
  <2> QED BY <2>3, <2>4 DEF Threads
<1> QED BY <1>1, <1>2

\* However startups, retries, failures, exits and a crash of the application
\* interleave, every engine process that runs has exactly one owner that will
\* kill it.  The end of the application leaves none that is in a job object, and
\* after a completed exit none that had been handed over to the slot.
THEOREM ProcessesOwned == Spec => []NoStrayEngine
<1>1. IInv => NoStrayEngine
  BY OneOwner, LeftAtTheEnd DEF IInv, NoStrayEngine
<1> QED BY <1>1, Invariance, PTL

\* OwnedSidecar::install never puts an engine into the slot of an application
\* that has begun to exit, however late a startup completes.
THEOREM ExitIsFinal == Spec => []StaysStopped
<1>1. IInv => StaysStopped
  BY DEF IInv
<1> QED BY <1>1, Invariance, PTL

\* While restarts are asked for one at a time, the window shows the engine in the
\* slot, or an error is on the splash, whenever no startup is about to navigate.
THEOREM WindowIsCurrent == Spec => []WindowShowsInstalled
<1>1. IInv => WindowShowsInstalled
  BY DEF IInv
<1> QED BY <1>1, Invariance, PTL
=============================================================================
