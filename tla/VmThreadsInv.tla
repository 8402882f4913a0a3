---------------------------- MODULE VmThreadsInv ----------------------------
(***************************************************************************)
(* The properties of VmThreads: the inductive invariant, part by part, the *)
(* safety properties it gives, the refinement of StopTheWorld, and what    *)
(* must eventually happen.                                                 *)
(***************************************************************************)
EXTENDS VmThreads

\* Registered interpreters, as seen from their own position.
Outside == {"free", "ctor", "exiting", "exited"}
\* In handle_safepoint, with the request seen and parked_ set.
Waiting == {"sp2", "sp3"}
\* Anywhere in handle_safepoint after the request was seen and before
\* parked_ is taken back.
Stopping == {"sp1", "sp2", "sp3", "sp4"}

\* The collector's phases: the mutex is its own; the world stands still.
Holding == {"park_set", "park_wait", "run_set", "run_wait", "reaping"}
Stopped == {"check", "snapshot", "drain", "run"}
Ending == {"reap", "reaping", "done"}

-----------------------------------------------------------------------------
(* The parts of the inductive invariant.                                   *)

\* The registry holds the interpreters between construction and unregister.
RegistryInv ==
  \A i \in Interp : i \in interpreters <=> pc[i] \notin Outside

\* The mutex is held exactly in the loops that wait under it.
MonitorInv ==
  /\ monitor = GC <=> gpc \in Holding
  /\ \A i \in Interp : monitor = i <=> pc[i] = "reaping"

\* parked_ is raised between the two stores of handle_safepoint, and only an
\* interpreter on its way in or waiting has an unanswered request.
ParkedInv ==
  \A i \in Interp :
    /\ parked[i] <=> pc[i] \in {"sp2", "sp3", "sp4"}
    /\ pc[i] \in {"sp1", "sp2"} => need_park[i]
    /\ need_park[i] => pc[i] \notin Outside \cup {"sp3", "sp4"}

\* Where every interpreter is, phase by phase of the collector.
PhaseInv ==
  /\ gpc \in {"launch", "assign", "park"} \cup Ending =>
       \A i \in Interp : pc[i] \notin Stopping /\ ~need_park[i]
  /\ gpc = "park_set" =>
       /\ todo \subseteq interpreters
       /\ \A i \in todo : pc[i] \notin Stopping /\ ~need_park[i]
       /\ \A i \in interpreters \ todo : need_park[i] \/ pc[i] = "sp3"
       /\ \A i \in Interp : pc[i] # "sp4"
  /\ gpc = "park_wait" =>
       /\ todo \subseteq interpreters
       /\ \A i \in interpreters : need_park[i] \/ pc[i] = "sp3"
       /\ \A i \in interpreters \ todo : pc[i] \in Waiting
       /\ \A i \in Interp : pc[i] # "sp4"
  /\ gpc \in Stopped => \A i \in interpreters : pc[i] \in Waiting
  /\ gpc = "drain" => todo \subseteq interpreters
  /\ gpc \in {"drain", "run"} => interpreters # {}
  /\ gpc \in {"run_set", "run_wait"} =>
       /\ todo \subseteq interpreters
       /\ \A i \in todo : i # cur => pc[i] \in Waiting
       /\ \A i \in Interp \ todo : pc[i] \notin Stopping /\ ~need_park[i]
  /\ gpc = "run_wait" =>
       /\ cur \in todo
       /\ pc[cur] # "sp1"
       /\ need_park[cur] => pc[cur] = "sp2"
  /\ gpc \in Ending => interpreters = {}

\* need_unpark_ is up only for the interpreter that run_all is waiting for,
\* or for one that has already left and is about to take it back.
UnparkInv ==
  \A i \in Interp :
    /\ pc[i] \in {"sp4", "sp5"} => need_unpark[i]
    /\ pc[i] = "sp4" => gpc = "run_wait" /\ cur = i
    /\ need_unpark[i] =>
         \/ pc[i] = "sp5"
         \/ pc[i] \in {"sp2", "sp3", "sp4"} /\ gpc = "run_wait" /\ cur = i

\* The loop variable of finish_waiting and run_all.
CurInv ==
  /\ cur # NoThread => Reaping \/ gpc = "run_wait"
  /\ Reaping /\ cur # NoThread =>
       pc[cur] \in {"exiting", "exited"} /\ cur \notin join_queue

\* Every unregistered interpreter waits to be joined or is being joined, and
\* nothing else does.
QueueInv ==
  /\ \A i \in join_queue : pc[i] \in {"exiting", "exited"}
  /\ \A i \in Interp :
       pc[i] \in {"exiting", "exited"} => i \in join_queue \/ i = cur
  /\ gpc = "done" => join_queue = {}

\* Queues of new objects: empty at construction, and drained during a stop.
DrainInv ==
  /\ \A i \in Interp : pc[i] = "ctor" => i \notin pending
  /\ gpc = "drain" => pending \cap interpreters \subseteq todo
  /\ gpc = "run" => pending \cap interpreters = {}

\* Who is starting whom.
Launcher(p) == pc[p] \in {"spawn_reg", "spawn_launch", "spawn_assign"}
Launched == Label \ {"free", "ctor", "new"}
SpawnInv ==
  /\ \A p \in Interp : Launcher(p) => peer[p] \in Interp \ joinable
  /\ \A p \in Interp : pc[p] = "spawn_reg" => pc[peer[p]] = "ctor"
  /\ \A c \in Interp : pc[c] = "ctor" =>
       \E p \in Interp : pc[p] = "spawn_reg" /\ peer[p] = c
  /\ \A p \in Interp : pc[p] = "spawn_launch" => pc[peer[p]] = "new"
  /\ \A p \in Interp : pc[p] = "spawn_assign" => pc[peer[p]] \in Launched
  /\ \A p, q \in Interp :
       Launcher(p) /\ Launcher(q) /\ p # q => peer[p] # peer[q]
MainInv ==
  /\ gpc \in {"launch", "assign"} =>
       /\ Main \notin joinable
       /\ \A p \in Interp : Launcher(p) => peer[p] # Main
  /\ gpc = "launch" => pc = [i \in Interp |-> IF i = Main THEN "new" ELSE "free"]
  /\ gpc = "assign" => pc[Main] \in Launched

\* A join that has seen its target unregistered: the target is gone for
\* good, because its address is not used again.
SawItLeave(i) ==
  \/ pc[i] \in {"join_reap", "reaping"}
  \/ pc[i] \in SafepointLabel /\ ret[i] = "join_reap"
  \/ pc[i] = "join_check" /\ polled[i] = "no"
  \/ pc[i] \in SafepointLabel /\ ret[i] = "join_check" /\ polled[i] = "no"
Joining(i) ==
  \/ pc[i] \in {"join_check", "join_reap", "reaping"}
  \/ pc[i] \in SafepointLabel /\ ret[i] \in {"join_check", "join_reap"}
JoinInv ==
  ~Reuse =>
    /\ \A i \in Interp : pc[i] = "ctor" => i \notin handles
    /\ \A i \in Interp : Joining(i) => peer[i] \in handles
    /\ \A i \in Interp :
         SawItLeave(i) => pc[peer[i]] \in {"free", "exiting", "exited"}

IInv ==
  /\ TypeOK
  /\ RegistryInv /\ MonitorInv /\ ParkedInv /\ PhaseInv /\ UnparkInv
  /\ CurInv /\ QueueInv /\ DrainInv /\ SpawnInv /\ MainInv /\ JoinInv

-----------------------------------------------------------------------------
(* Safety.                                                                 *)

(***************************************************************************)
(* From the moment park_all has returned until run_all starts, every       *)
(* interpreter the collector could be interested in waits inside its       *)
(* safepoint, although the mutex is free in between: no interpreter can    *)
(* have been registered, woken or unregistered meanwhile.  gc.cpp relies   *)
(* on it when it drains queues and marks without any lock.                 *)
(***************************************************************************)
WorldStands ==
  gpc \in Stopped =>
    \A i \in Interp :
      \/ pc[i] \in Waiting /\ parked[i] /\ ~need_unpark[i]
      \/ pc[i] \in {"free", "exiting", "exited"}

(***************************************************************************)
(* The copy of the registry that collect iterates over without the mutex   *)
(* (gc.cpp:131) never contains an interpreter that was unregistered or     *)
(* deleted after the copy was made, and never misses a queue.              *)
(***************************************************************************)
SnapshotIsCurrent ==
  /\ gpc = "drain" =>
       todo \subseteq interpreters /\ pending \cap interpreters \subseteq todo
  /\ gpc = "run" => pending \cap interpreters = {}

(***************************************************************************)
(* The permission to leave a safepoint is never left over from an earlier  *)
(* cycle: an interpreter that waits with need_unpark_ set is the one       *)
(* run_all is waiting for.  A left-over permission would let it run while  *)
(* the collector marks.                                                    *)
(***************************************************************************)
NoStaleUnpark ==
  \A i \in Interp :
    pc[i] \in {"sp1", "sp2", "sp3"} /\ need_unpark[i] =>
      gpc = "run_wait" /\ cur = i

(***************************************************************************)
(* A request to park is answered in the cycle that made it: outside        *)
(* park_all the only request still standing is that of an interpreter      *)
(* which already waits and is about to take it back.                       *)
(***************************************************************************)
NoStalePark ==
  gpc \notin {"park_set", "park_wait"} =>
    \A i \in Interp : need_park[i] => pc[i] = "sp2"

(***************************************************************************)
(* The object whose worker_ a launching thread is about to assign          *)
(* (interpreter.cpp:962-964, main.cpp:48) has not been deleted by a        *)
(* finish_waiting of some other thread, although it is unprotected.        *)
(***************************************************************************)
LaunchedIsAlive ==
  /\ \A p \in Interp : pc[p] = "spawn_assign" => pc[peer[p]] # "free"
  /\ gpc = "assign" => pc[Main] # "free"

(***************************************************************************)
(* When collect returns every worker thread has been joined and every      *)
(* interpreter deleted: none is left running, none leaks.                  *)
(***************************************************************************)
CollectJoinsAll == gpc = "done" => \A i \in Interp : pc[i] = "free"

(***************************************************************************)
(* A join that reached finish_waiting either still has to join the worker  *)
(* it was called for or that worker was joined before: the join statement  *)
(* does not return while the thread it names runs.  Without address reuse. *)
(***************************************************************************)
JoinWaitsForThread ==
  ~Reuse =>
    \A i \in Interp :
      pc[i] = "reaping" =>
        \/ peer[i] \in join_queue \cup {cur}
        \/ pc[peer[i]] = "free"

(***************************************************************************)
(* join() throws, and the process is terminated, only when an interpreter  *)
(* is reaped between the start of its thread and the assignment of worker_ *)
(* (interpreter.cpp:963): a worker that has been assigned is never joined  *)
(* twice, and an address that is used again is assigned again.             *)
(***************************************************************************)
TerminateOnlyAtLaunch ==
  fatal =>
    \/ \E p \in Interp : pc[p] = "spawn_assign" /\ peer[p] = cur
    \/ gpc = "assign" /\ cur = Main

\* Why it holds: an interpreter whose thread has been started is assigned, or
\* the thread that started it is about to assign it.
BeingAssigned(i) ==
  \/ \E p \in Interp : pc[p] = "spawn_assign" /\ peer[p] = i
  \/ gpc = "assign" /\ i = Main
WorkerAssigned ==
  \A i \in Interp : pc[i] \in Launched => i \in joinable \/ BeingAssigned(i)

-----------------------------------------------------------------------------
(* Refinement.                                                             *)

World ==
  CASE gpc \in Stopped -> "stopped"
    [] gpc \in Ending -> "finished"
    [] OTHER -> "running"

STW == INSTANCE StopTheWorld
         WITH world <- World, live <- interpreters,
              full <- pending \cap interpreters

(***************************************************************************)
(* The virtual machine keeps the promise of StopTheWorld.                  *)
(***************************************************************************)
KeepsStopTheWorld == STW!STWSpec

-----------------------------------------------------------------------------
(* Liveness.                                                               *)

\* An interpreter that runs a constructor while it is asked to park.
StuckInConstructor ==
  \E i \in Interp : pc[i] = "spawn_reg" /\ need_park[i]

(***************************************************************************)
(* park_all returns: the comment "park_all taking monitor and unregister   *)
(* cannot happen" (thread_manager.cpp:4) presumes it.  It does not hold.   *)
(***************************************************************************)
ParkAllReturns == gpc = "park_wait" ~> gpc = "check" \/ fatal

(***************************************************************************)
(* The only thing that can keep park_all from returning is an interpreter  *)
(* that is asked to park while it constructs another one.                  *)
(***************************************************************************)
ParkAllReturnsOrStuck ==
  gpc = "park_wait" ~> gpc = "check" \/ StuckInConstructor \/ fatal

(***************************************************************************)
(* A stop ends: once the world stands, the collector goes on to its next   *)
(* cycle or finishes, whatever the workers were doing when they stopped.   *)
(***************************************************************************)
StopEnds == gpc = "check" ~> gpc \in {"park", "reap"}

(***************************************************************************)
(* run_all reaches everybody (thread_manager.cpp:68-73): once interpreters *)
(* are parked, a moment comes when none is.                                *)
(***************************************************************************)
ParkedRunsAgain ==
  (\E i \in Interp : pc[i] = "sp3") ~>
    (\A i \in Interp : pc[i] # "sp3") \/ StuckInConstructor \/ fatal

(***************************************************************************)
(* A join on a thread that has unregistered returns, whether this one or   *)
(* another joining thread deletes the interpreter (interpreter.cpp:575-    *)
(* 597), unless its address is given to a new thread, which the join would *)
(* then wait for.                                                          *)
(***************************************************************************)
JoinReturns ==
  \A i, h \in Interp :
    <<i, h>> \in Joins =>
      (pc[i] = "join_check" /\ peer[i] = h /\ pc[h] \in {"exiting", "exited"} ~>
         pc[i] = "exec" \/ pc[h] = "ctor" \/ StuckInConstructor \/ fatal)

(***************************************************************************)
(* When every interpreter has left, collect returns.                       *)
(***************************************************************************)
CollectReturns ==
  (\A i \in Interp : pc[i] \in {"free", "exiting", "exited"}) ~>
    gpc = "done" \/ fatal
=============================================================================
