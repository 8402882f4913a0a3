---------------------------- MODULE StopTheWorld ----------------------------
(***************************************************************************)
(* What the safepoint machinery promises the collector, without flags,     *)
(* mutex or registry: between Stop and Resume nobody starts, leaves or     *)
(* pushes a new object on a register queue; the world is resumed only      *)
(* after every live interpreter's queue has been drained; and collect ends *)
(* only when no interpreter is live.                                       *)
(*                                                                         *)
(* The specification of VmThreads; Collector builds on the same promise.   *)
(***************************************************************************)
CONSTANTS Interp, Main

VARIABLES
  world,                 \* running, stopped or finished
  live,                  \* the interpreters the collector has to look at
  full                   \* those of them with new objects in their queue

stwVars == <<world, live, full>>

STWInit ==
  /\ world = "running"
  /\ live = {Main}
  /\ full = {}

\* A new interpreter is registered.
Start(i) ==
  /\ world = "running"
  /\ i \notin live
  /\ live' = live \cup {i}
  /\ UNCHANGED <<world, full>>

\* An interpreter is unregistered; what its queue holds is never collected.
Leave(i) ==
  /\ world = "running"
  /\ i \in live
  /\ live' = live \ {i}
  /\ full' = full \ {i}
  /\ UNCHANGED world

Allocate(i) ==
  /\ world = "running"
  /\ i \in live
  /\ full' = full \cup {i}
  /\ UNCHANGED <<world, live>>

Stop ==
  /\ world = "running"
  /\ world' = "stopped"
  /\ UNCHANGED <<live, full>>

Drain(i) ==
  /\ world = "stopped"
  /\ full' = full \ {i}
  /\ UNCHANGED <<world, live>>

Resume ==
  /\ world = "stopped"
  /\ live # {}
  /\ full = {}
  /\ world' = "running"
  /\ UNCHANGED <<live, full>>

End ==
  /\ world = "stopped"
  /\ live = {}
  /\ world' = "finished"
  /\ UNCHANGED <<live, full>>

STWNext ==
  \/ \E i \in Interp : Start(i) \/ Leave(i) \/ Allocate(i) \/ Drain(i)
  \/ Stop \/ Resume \/ End

STWSpec == STWInit /\ [][STWNext]_stwVars
=============================================================================
