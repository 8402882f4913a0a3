--------------------------- MODULE ThreadManager ---------------------------
(***************************************************************************)
(* ThreadManager (src/thread_manager.cpp): the registry of interpreters,   *)
(* the queue of interpreters whose worker thread is to be joined, and the  *)
(* mutex that every method takes with try_lock.                            *)
(*                                                                         *)
(* A method that only reads or writes the registry under the mutex is one  *)
(* atomic operator.  A method that waits for other threads while it holds  *)
(* the mutex (park_all, run_all, finish_waiting) is a lock operator, its   *)
(* loop steps, and a release; todo and cur are the loop variables.         *)
(*                                                                         *)
(* The vector interpreters_ and the deque join_queue_ are sets: nothing    *)
(* depends on their order and an interpreter is in each at most once.  A   *)
(* try_lock may also fail when the mutex is free (a short critical section *)
(* of another thread, or a spurious failure): failing needs no guard.      *)
(***************************************************************************)
EXTENDS Safepoint

CONSTANTS
  GC,                    \* the thread that runs YGC::collect
  NoThread               \* no owner, no loop element

VARIABLES
  monitor,               \* owner of monitor_, or NoThread
  interpreters,          \* interpreters_
  join_queue,            \* join_queue_
  todo,                  \* elements a loop over the registry has left
  cur                    \* run_all: the interpreter being run;
                         \* finish_waiting: the one popped and not yet deleted

registry == <<interpreters, join_queue>>
loop == <<todo, cur>>
manager == <<monitor, interpreters, join_queue, todo, cur>>

ManagerType ==
  /\ monitor \in Interp \cup {GC, NoThread}
  /\ interpreters \subseteq Interp
  /\ join_queue \subseteq Interp
  /\ todo \subseteq Interp
  /\ cur \in Interp \cup {NoThread}

MonitorFree == monitor = NoThread

-----------------------------------------------------------------------------
(* The short methods.                                                      *)

RegisterInterpreter(i) ==
  /\ MonitorFree
  /\ interpreters' = interpreters \cup {i}
  /\ UNCHANGED <<monitor, join_queue, todo, cur>>

\* Mutation: the interpreter is removed but never queued for joining.
UnregisterInterpreter_noQueue(i) ==
  /\ MonitorFree
  /\ interpreters' = interpreters \ {i}
  /\ UNCHANGED <<monitor, join_queue, todo, cur>>
UnregisterInterpreter(i) ==
  /\ MonitorFree
  /\ interpreters' = interpreters \ {i}
  /\ join_queue' = join_queue \cup {i}
  /\ UNCHANGED <<monitor, todo, cur>>

\* The possible results of is_registered: std::nullopt when the lock fails.
IsRegistered(i) ==
  {"nullopt"} \cup
  (IF MonitorFree THEN {IF i \in interpreters THEN "yes" ELSE "no"} ELSE {})

\* is_all_parked, when it gets the mutex
IsAllParked == MonitorFree /\ \A i \in interpreters : parked[i]

-----------------------------------------------------------------------------
(* The methods that wait while they hold the mutex.                        *)

\* The start of a loop over the registry under the mutex: park_all, run_all.
LockAndIterate(t) ==
  /\ MonitorFree
  /\ monitor' = t
  /\ todo' = interpreters
  /\ UNCHANGED <<interpreters, join_queue, cur>>

\* The start of finish_waiting.
LockToReap(t) ==
  /\ MonitorFree
  /\ monitor' = t
  /\ UNCHANGED <<interpreters, join_queue, todo, cur>>

\* The loop is over: the unique_lock's destructor gives the mutex back.
Unlock(t) ==
  /\ monitor = t
  /\ monitor' = NoThread
  /\ UNCHANGED <<interpreters, join_queue, todo, cur>>

\* finish_waiting: front() and pop_front()
PopJoinQueue(i) ==
  /\ i \in join_queue
  /\ join_queue' = join_queue \ {i}
  /\ cur' = i
  /\ UNCHANGED <<monitor, interpreters, todo>>
=============================================================================
