----------------------------- MODULE VmThreads -----------------------------
(***************************************************************************)
(* The running virtual machine: worker threads that execute Python         *)
(* statements, start and join other threads, and poll the safepoint, and   *)
(* the collector thread that stops all of them, drains their queues of new *)
(* objects and runs them again.  There is no global interpreter lock.      *)
(*                                                                         *)
(* Sources: src/interpreter.cpp (handle_safepoint, __worker_exec, thread   *)
(* start and join, the constructor), src/thread_manager.cpp (through       *)
(* ThreadManager), src/gc.cpp (collect), src/main.cpp (start-up).          *)
(*                                                                         *)
(* A step is one access to an atomic flag or one critical section.  What a *)
(* statement computes is abstracted to what other threads can notice:      *)
(* whether it pushed new objects on its register_queue_.  The contents of  *)
(* the heap are modelled in Collector.                                     *)
(***************************************************************************)
EXTENDS ThreadManager

CONSTANTS
  Main,                  \* the interpreter main.cpp creates
  Reuse,                 \* may the allocator hand out a freed address again?
  Allocates,             \* interpreters whose program creates objects,
  Starts,                \* <<i, c>>: that of i may start a thread at address c,
  Joins                  \* <<i, h>>: and may join the thread h

ASSUME ThreadsAssumption ==
  /\ Main \in Interp
  /\ GC \notin Interp
  /\ NoThread \notin Interp
  /\ GC # NoThread
  /\ Reuse \in BOOLEAN
  /\ Allocates \subseteq Interp
  /\ Starts \subseteq Interp \X Interp
  /\ Joins \subseteq Interp \X Interp

VARIABLES
  pc,                    \* pc[i]: where the worker thread of i is
  ret,                   \* ret[i]: where its handle_safepoint returns to;
                         \* "exec" when it is not in one
  peer,                  \* peer[i]: the interpreter it starts or joins
  polled,                \* polled[i]: last answer of is_registered in a join
  joinable,              \* interpreters whose member worker_ is assigned
  handles,               \* addresses that Python code got as thread objects
  stale,                 \* handles whose interpreter has been deleted
  pending,               \* interpreters with a non-empty register_queue_
  fatal,                 \* std::terminate: join() of an unassigned worker_
  gpc                    \* where the collector thread is

workers == <<pc, ret, peer, polled>>
vars == <<flags, manager, workers, joinable, handles, stale, pending, fatal,
          gpc>>

SafepointLabel == {"sp0", "sp1", "sp2", "sp3", "sp4", "sp5"}
Returns == {"exec", "join_check", "join_reap", "unreg"}
Label ==
  {"free",               \* no object at this address
   "ctor", "new",        \* being constructed; registered and not launched
   "spawn_reg", "spawn_launch", "spawn_assign",   \* starting a thread
   "reaping",            \* in finish_waiting
   "exiting", "exited"}  \* unregistered; worker function returned
  \cup SafepointLabel \cup Returns
CollectorLabel ==
  {"launch", "assign",                            \* main.cpp:48
   "park", "park_set", "park_wait", "check", "snapshot", "drain",
   "run", "run_set", "run_wait", "reap", "reaping", "done"}

TypeOK ==
  /\ FlagsType
  /\ ManagerType
  /\ pc \in [Interp -> Label]
  /\ ret \in [Interp -> Returns]
  /\ peer \in [Interp -> Interp \cup {NoThread}]
  /\ polled \in [Interp -> {"nullopt", "yes", "no"}]
  /\ joinable \subseteq Interp
  /\ handles \subseteq Interp
  /\ stale \subseteq handles
  /\ pending \subseteq Interp
  /\ fatal \in BOOLEAN
  /\ gpc \in CollectorLabel

\* main.cpp has constructed (and registered) the main interpreter.
Init ==
  /\ FlagsInit
  /\ monitor = NoThread
  /\ interpreters = {Main}
  /\ join_queue = {}
  /\ todo = {}
  /\ cur = NoThread
  /\ pc = [i \in Interp |-> IF i = Main THEN "new" ELSE "free"]
  /\ ret = [i \in Interp |-> "exec"]
  /\ peer = [i \in Interp |-> NoThread]
  /\ polled = [i \in Interp |-> "nullopt"]
  /\ joinable = {}
  /\ handles = {}
  /\ stale = {}
  /\ pending = {}
  /\ fatal = FALSE
  /\ gpc = "launch"

-----------------------------------------------------------------------------
(* Moves of a program counter.                                             *)

Goto(i, from, to) == pc[i] = from /\ pc' = [pc EXCEPT ![i] = to]
GcGoto(from, to) == gpc = from /\ gpc' = to

\* A call of handle_safepoint that returns to label r.
CallSafepoint(i, from, r) ==
  /\ Goto(i, from, "sp0")
  /\ ret' = [ret EXCEPT ![i] = r]
LeaveSafepoint(i, from) ==
  /\ Goto(i, from, ret[i])
  /\ ret' = [ret EXCEPT ![i] = "exec"]

-----------------------------------------------------------------------------
(* Interpreter::handle_safepoint: one action per atomic access.            *)

\* Mutation: the request is never noticed.
SafepointLoad_never(i) ==
  /\ LeaveSafepoint(i, "sp0")
  /\ UNCHANGED <<flags, manager, peer, polled, joinable, handles, stale,
                 pending, fatal, gpc>>
SafepointLoad(i) ==
  /\ IF need_park[i] THEN Goto(i, "sp0", "sp1") /\ UNCHANGED ret
     ELSE LeaveSafepoint(i, "sp0")
  /\ UNCHANGED <<flags, manager, peer, polled, joinable, handles, stale,
                 pending, fatal, gpc>>

SafepointAnswer(i) ==
  /\ Goto(i, "sp1", "sp2")
  /\ AnswerPark(i)
  /\ UNCHANGED <<manager, ret, peer, polled, joinable, handles, stale, pending,
                 fatal, gpc>>

SafepointConsume(i) ==
  /\ Goto(i, "sp2", "sp3")
  /\ ConsumePark(i)
  /\ UNCHANGED <<manager, ret, peer, polled, joinable, handles, stale, pending,
                 fatal, gpc>>

\* The wait loop ends: need_unpark_ was read as true.
\* Mutation: the loop does not wait.
SafepointWait_noWait(i) ==
  /\ Goto(i, "sp3", "sp4")
  /\ UNCHANGED <<flags, manager, ret, peer, polled, joinable, handles, stale,
                 pending, fatal, gpc>>
SafepointWait(i) ==
  /\ Goto(i, "sp3", "sp4")
  /\ need_unpark[i]
  /\ UNCHANGED <<flags, manager, ret, peer, polled, joinable, handles, stale,
                 pending, fatal, gpc>>

SafepointLeave(i) ==
  /\ Goto(i, "sp4", "sp5")
  /\ LeavePark(i)
  /\ UNCHANGED <<manager, ret, peer, polled, joinable, handles, stale, pending,
                 fatal, gpc>>

SafepointReturn(i) ==
  /\ LeaveSafepoint(i, "sp5")
  /\ ConsumeUnpark(i)
  /\ UNCHANGED <<manager, peer, polled, joinable, handles, stale, pending,
                 fatal, gpc>>

Safepoint(i) ==
  \/ SafepointLoad(i) \/ SafepointAnswer(i) \/ SafepointConsume(i)
  \/ SafepointWait(i) \/ SafepointLeave(i) \/ SafepointReturn(i)
-----------------------------------------------------------------------------
(* Executing statements.                                                   *)

\* The rest of a statement runs, with or without pushing new objects on the
\* register queue, and the next statement begins with its safepoint.
Execute(i) ==
  /\ CallSafepoint(i, "exec", "exec")
  /\ pending' \in {pending, pending \cup ({i} \cap Allocates)}
  /\ UNCHANGED <<flags, manager, peer, polled, joinable, handles, stale, fatal,
                 gpc>>

\* The last statement is over or a return statement set finishing_.
Finish(i) ==
  /\ Goto(i, "exec", "unreg")
  /\ UNCHANGED <<flags, manager, ret, peer, polled, joinable, handles, stale,
                 pending, fatal, gpc>>

\* unregister_interpreter gets the mutex: the interpreter is not known to the
\* collector any more, and whatever its register queue holds stays there.
Unregister(i) ==
  /\ Goto(i, "unreg", "exiting")
  /\ UnregisterInterpreter(i)
  /\ UNCHANGED <<flags, ret, peer, polled, joinable, handles, stale, pending,
                 fatal, gpc>>

UnregisterRetry(i) ==
  /\ CallSafepoint(i, "unreg", "unreg")
  /\ UNCHANGED <<flags, manager, peer, polled, joinable, handles, stale,
                 pending, fatal, gpc>>

\* __worker_exec returns: the thread can be joined without waiting.
Exit(i) ==
  /\ Goto(i, "exiting", "exited")
  /\ UNCHANGED <<flags, manager, ret, peer, polled, joinable, handles, stale,
                 pending, fatal, gpc>>

-----------------------------------------------------------------------------
(* __yapvm_thread: an interpreter starts another one.                      *)

\* new Interpreter{...}: memory for c, its members initialised.
SpawnStart(i, c) ==
  /\ pc[i] = "exec"
  /\ <<i, c>> \in Starts
  /\ pc[c] = "free"
  /\ Reuse \/ c \notin handles \cup {Main}
  /\ pc' = [pc EXCEPT ![i] = "spawn_reg", ![c] = "ctor"]
  /\ peer' = [peer EXCEPT ![i] = c]
  /\ Construct(c)
  /\ pending' = pending \ {c}
  /\ joinable' = joinable \ {c}
  /\ UNCHANGED <<manager, ret, polled, handles, stale, fatal, gpc>>

\* The constructor's register_interpreter gets the mutex.
SpawnRegister(i) ==
  /\ pc[i] = "spawn_reg"
  /\ RegisterInterpreter(peer[i])
  /\ pc' = [pc EXCEPT ![i] = "spawn_launch", ![peer[i]] = "new"]
  /\ UNCHANGED <<flags, ret, peer, polled, joinable, handles, stale, pending,
                 fatal, gpc>>

\* It does not: the constructor polls the safepoint of the interpreter it is
\* constructing, not of the one whose thread is executing it.
SpawnRetry(i) ==
  /\ pc[i] = "spawn_reg"
  /\ ~need_park[peer[i]]
  /\ UNCHANGED vars

\* launch: std::thread{...} starts the worker,
SpawnLaunch(i) ==
  /\ pc[i] = "spawn_launch"
  /\ pc' = [pc EXCEPT ![i] = "spawn_assign", ![peer[i]] = "sp0"]
  /\ ret' = [ret EXCEPT ![peer[i]] = "exec"]
  /\ UNCHANGED <<flags, manager, peer, polled, joinable, handles, stale,
                 pending, fatal, gpc>>

\* and only then is the thread object moved into worker_; the address of the
\* new interpreter becomes the value of the expression.
\* Mutation: the thread object stays where it was started.
SpawnAssign_local(i) ==
  /\ Goto(i, "spawn_assign", "exec")
  /\ handles' = handles \cup {peer[i]}
  /\ stale' = stale \ {peer[i]}
  /\ peer' = [peer EXCEPT ![i] = NoThread]
  /\ UNCHANGED <<flags, manager, ret, polled, joinable, pending, fatal, gpc>>
SpawnAssign(i) ==
  /\ Goto(i, "spawn_assign", "exec")
  /\ joinable' = joinable \cup {peer[i]}
  /\ handles' = handles \cup {peer[i]}
  /\ stale' = stale \ {peer[i]}
  /\ peer' = [peer EXCEPT ![i] = NoThread]
  /\ UNCHANGED <<flags, manager, ret, polled, pending, fatal, gpc>>

Spawn(i) ==
  \/ \E c \in Interp : SpawnStart(i, c)
  \/ SpawnRegister(i) \/ SpawnRetry(i) \/ SpawnLaunch(i) \/ SpawnAssign(i)
-----------------------------------------------------------------------------
(* __yapvm_thread_join.                                                    *)

\* The first poll, without a safepoint.  A program does not join its own
\* thread; it may hold the handle of a thread that ended long ago.
JoinStart(i, h) ==
  /\ Goto(i, "exec", "join_check")
  /\ <<i, h>> \in Joins
  /\ h \in handles
  /\ h # i \/ h \in stale
  /\ peer' = [peer EXCEPT ![i] = h]
  /\ \E answer \in IsRegistered(h) : polled' = [polled EXCEPT ![i] = answer]
  /\ UNCHANGED <<flags, manager, ret, joinable, handles, stale, pending, fatal,
                 gpc>>

\* Still registered, or no answer: poll again, then the safepoint.
\* Mutation: is_registered is not asked again.
JoinRepoll_stale(i) ==
  /\ polled[i] # "no"
  /\ CallSafepoint(i, "join_check", "join_check")
  /\ UNCHANGED <<flags, manager, peer, polled, joinable, handles, stale, pending,
                 fatal, gpc>>
JoinRepoll(i) ==
  /\ polled[i] # "no"
  /\ CallSafepoint(i, "join_check", "join_check")
  /\ \E answer \in IsRegistered(peer[i]) :
       polled' = [polled EXCEPT ![i] = answer]
  /\ UNCHANGED <<flags, manager, peer, joinable, handles, stale, pending,
                 fatal, gpc>>

\* Mutation: an answer that is missing counts as "not registered".
JoinProceed_nullopt(i) ==
  /\ polled[i] # "yes"
  /\ Goto(i, "join_check", "join_reap")
  /\ polled' = [polled EXCEPT ![i] = "nullopt"]
  /\ UNCHANGED <<flags, manager, ret, peer, joinable, handles, stale, pending,
                 fatal, gpc>>
JoinProceed(i) ==
  /\ polled[i] = "no"
  /\ Goto(i, "join_check", "join_reap")
  /\ polled' = [polled EXCEPT ![i] = "nullopt"]
  /\ UNCHANGED <<flags, manager, ret, peer, joinable, handles, stale, pending,
                 fatal, gpc>>

\* finish_waiting gets the mutex, or a safepoint and another try.
JoinReap(i) ==
  /\ Goto(i, "join_reap", "reaping")
  /\ LockToReap(i)
  /\ UNCHANGED <<flags, ret, peer, polled, joinable, handles, stale, pending,
                 fatal, gpc>>

JoinReapRetry(i) ==
  /\ CallSafepoint(i, "join_reap", "join_reap")
  /\ UNCHANGED <<flags, manager, peer, polled, joinable, handles, stale,
                 pending, fatal, gpc>>

\* finish_waiting returns: the safepoint of line 588, then the statement goes
\* on.
JoinDone(i) ==
  /\ CallSafepoint(i, "reaping", "exec")
  /\ cur = NoThread
  /\ join_queue = {}
  /\ Unlock(i)
  /\ peer' = [peer EXCEPT ![i] = NoThread]
  /\ UNCHANGED <<flags, polled, joinable, handles, stale, pending, fatal, gpc>>

Join(i) ==
  \/ \E h \in Interp : JoinStart(i, h)
  \/ JoinRepoll(i) \/ JoinProceed(i)
  \/ JoinReap(i) \/ JoinReapRetry(i) \/ JoinDone(i)
-----------------------------------------------------------------------------
(* The loop of finish_waiting, run by a joining worker or by the collector *)
(* when it ends.                                                           *)

Reaping ==
  \/ monitor = GC /\ gpc = "reaping"
  \/ \E i \in Interp : monitor = i /\ pc[i] = "reaping"

ReapPop ==
  /\ Reaping
  /\ cur = NoThread
  /\ \E i \in join_queue : PopJoinQueue(i)
  /\ UNCHANGED <<flags, workers, joinable, handles, stale, pending, fatal, gpc>>

\* beg->join(); delete beg
\* Mutation: the interpreter is deleted without joining its thread.
ReapJoin_noJoin ==
  /\ Reaping
  /\ cur # NoThread
  /\ pc' = [pc EXCEPT ![cur] = "free"]
  /\ stale' = stale \cup ({cur} \cap handles)
  /\ cur' = NoThread
  /\ UNCHANGED <<flags, monitor, interpreters, join_queue, todo, ret, peer,
                 polled, joinable, handles, pending, fatal, gpc>>
ReapJoin ==
  /\ Reaping
  /\ cur \in joinable
  /\ pc[cur] = "exited"
  /\ pc' = [pc EXCEPT ![cur] = "free"]
  /\ stale' = stale \cup ({cur} \cap handles)
  /\ cur' = NoThread
  /\ UNCHANGED <<flags, monitor, interpreters, join_queue, todo, ret, peer,
                 polled, joinable, handles, pending, fatal, gpc>>

\* join() of a std::thread that is not joinable throws, and nobody catches.
ReapThrow ==
  /\ Reaping
  /\ cur # NoThread
  /\ cur \notin joinable
  /\ fatal' = TRUE
  /\ UNCHANGED <<flags, manager, workers, joinable, handles, stale, pending,
                 gpc>>

Reap == ReapPop \/ ReapJoin \/ ReapThrow
-----------------------------------------------------------------------------
(* main.cpp launches the main interpreter and becomes the collector.       *)

GcLaunch ==
  /\ GcGoto("launch", "assign")
  /\ Goto(Main, "new", "sp0")
  /\ ret' = [ret EXCEPT ![Main] = "exec"]
  /\ UNCHANGED <<flags, manager, peer, polled, joinable, handles, stale,
                 pending, fatal>>

GcAssign ==
  /\ GcGoto("assign", "park")
  /\ joinable' = joinable \cup {Main}
  /\ UNCHANGED <<flags, manager, workers, handles, stale, pending, fatal>>

-----------------------------------------------------------------------------
(* YGC::collect: stop the world.                                           *)

GcParkLock ==
  /\ GcGoto("park", "park_set")
  /\ LockAndIterate(GC)
  /\ UNCHANGED <<flags, workers, joinable, handles, stale, pending, fatal>>

GcParkSet(i) ==
  /\ gpc = "park_set"
  /\ i \in todo
  /\ Park(i)
  /\ todo' = todo \ {i}
  /\ UNCHANGED <<monitor, interpreters, join_queue, cur, workers, joinable,
                 handles, stale, pending, fatal, gpc>>

\* The second loop of park_all starts.
GcParkAsked ==
  /\ GcGoto("park_set", "park_wait")
  /\ todo = {}
  /\ todo' = interpreters
  /\ UNCHANGED <<flags, monitor, interpreters, join_queue, cur, workers,
                 joinable, handles, stale, pending, fatal>>

\* while (!interpreter->is_parked()) ends for i.
GcParkWait(i) ==
  /\ gpc = "park_wait"
  /\ i \in todo
  /\ parked[i]
  /\ todo' = todo \ {i}
  /\ UNCHANGED <<flags, monitor, interpreters, join_queue, cur, workers,
                 joinable, handles, stale, pending, fatal, gpc>>

GcParked ==
  /\ GcGoto("park_wait", "check")
  /\ todo = {}
  /\ Unlock(GC)
  /\ UNCHANGED <<flags, workers, joinable, handles, stale, pending, fatal>>

\* is_all_parked is asked until it answers true.
GcCheck ==
  /\ GcGoto("check", "snapshot")
  /\ IsAllParked
  /\ UNCHANGED <<flags, manager, workers, joinable, handles, stale, pending,
                 fatal>>

\* get_all_interpreters: a copy of the registry, used after the mutex is free.
\* Mutation: only the interpreters with a non-empty queue are remembered, and
\* the emptiness test is made on those.
GcSnapshot_onlyPending ==
  /\ MonitorFree
  /\ GcGoto("snapshot", IF interpreters \cap pending = {} THEN "reap" ELSE "drain")
  /\ todo' = interpreters \cap pending
  /\ UNCHANGED <<flags, monitor, interpreters, join_queue, cur, workers,
                 joinable, handles, stale, pending, fatal>>
\* Mutation: the empty registry is not noticed.
GcSnapshot_neverEnds ==
  /\ MonitorFree
  /\ GcGoto("snapshot", "drain")
  /\ todo' = interpreters
  /\ UNCHANGED <<flags, monitor, interpreters, join_queue, cur, workers,
                 joinable, handles, stale, pending, fatal>>
GcSnapshot ==
  /\ MonitorFree
  /\ GcGoto("snapshot", IF interpreters = {} THEN "reap" ELSE "drain")
  /\ todo' = interpreters
  /\ UNCHANGED <<flags, monitor, interpreters, join_queue, cur, workers,
                 joinable, handles, stale, pending, fatal>>

\* get_register_queue of one interpreter of the copy.
GcDrain(i) ==
  /\ gpc = "drain"
  /\ i \in todo
  /\ todo' = todo \ {i}
  /\ pending' = pending \ {i}
  /\ UNCHANGED <<flags, monitor, interpreters, join_queue, cur, workers,
                 joinable, handles, stale, fatal, gpc>>

\* All queues are drained; mark and sweep, if they are due, happen here.
\* Mutation: the loop over the copy stops one element early.
GcDrained_early ==
  /\ GcGoto("drain", "run")
  /\ Cardinality(todo) <= 1
  /\ UNCHANGED <<flags, manager, workers, joinable, handles, stale, pending,
                 fatal>>
GcDrained ==
  /\ GcGoto("drain", "run")
  /\ todo = {}
  /\ UNCHANGED <<flags, manager, workers, joinable, handles, stale, pending,
                 fatal>>

-----------------------------------------------------------------------------
(* YGC::collect: run the world, one interpreter after the other.           *)

GcRunLock ==
  /\ GcGoto("run", "run_set")
  /\ LockAndIterate(GC)
  /\ UNCHANGED <<flags, workers, joinable, handles, stale, pending, fatal>>

GcRunSet(i) ==
  /\ GcGoto("run_set", "run_wait")
  /\ i \in todo
  /\ Run(i)
  /\ cur' = i
  /\ UNCHANGED <<monitor, interpreters, join_queue, todo, workers, joinable,
                 handles, stale, pending, fatal>>

\* while (i->is_parked()) ends.
\* Mutation: run_all does not wait until the interpreter has left.
GcRunWait_noWait ==
  /\ GcGoto("run_wait", "run_set")
  /\ todo' = todo \ {cur}
  /\ cur' = NoThread
  /\ UNCHANGED <<flags, monitor, interpreters, join_queue, workers, joinable,
                 handles, stale, pending, fatal>>
\* Mutation: run_all returns after the first interpreter.
GcRunWait_first ==
  /\ GcGoto("run_wait", "run_set")
  /\ ~parked[cur]
  /\ todo' = {}
  /\ cur' = NoThread
  /\ UNCHANGED <<flags, monitor, interpreters, join_queue, workers, joinable,
                 handles, stale, pending, fatal>>
GcRunWait ==
  /\ GcGoto("run_wait", "run_set")
  /\ ~parked[cur]
  /\ todo' = todo \ {cur}
  /\ cur' = NoThread
  /\ UNCHANGED <<flags, monitor, interpreters, join_queue, workers, joinable,
                 handles, stale, pending, fatal>>

\* run_all returns; the next cycle starts after a pause.
GcRunDone ==
  /\ GcGoto("run_set", "park")
  /\ todo = {}
  /\ Unlock(GC)
  /\ UNCHANGED <<flags, workers, joinable, handles, stale, pending, fatal>>

-----------------------------------------------------------------------------
(* YGC::collect found no interpreter: it joins what is left and returns.   *)

GcReap ==
  /\ GcGoto("reap", "reaping")
  /\ LockToReap(GC)
  /\ UNCHANGED <<flags, workers, joinable, handles, stale, pending, fatal>>

GcDone ==
  /\ GcGoto("reaping", "done")
  /\ cur = NoThread
  /\ join_queue = {}
  /\ Unlock(GC)
  /\ UNCHANGED <<flags, workers, joinable, handles, stale, pending, fatal>>

-----------------------------------------------------------------------------
Worker(i) ==
  \/ Safepoint(i)
  \/ Execute(i) \/ Finish(i) \/ Unregister(i) \/ UnregisterRetry(i) \/ Exit(i)
  \/ Spawn(i)
  \/ Join(i)

Collect ==
  \/ GcLaunch \/ GcAssign
  \/ GcParkLock \/ (\E i \in Interp : GcParkSet(i)) \/ GcParkAsked
  \/ (\E i \in Interp : GcParkWait(i)) \/ GcParked
  \/ GcCheck \/ GcSnapshot \/ (\E i \in Interp : GcDrain(i)) \/ GcDrained
  \/ GcRunLock \/ (\E i \in Interp : GcRunSet(i)) \/ GcRunWait \/ GcRunDone
  \/ GcReap \/ GcDone

\* The process is over: collect has returned, or std::terminate was called.
Over == (gpc = "done" \/ fatal) /\ UNCHANGED vars

Next ==
  \/ ~fatal /\ ((\E i \in Interp : Worker(i)) \/ Reap \/ Collect)
  \/ Over

Safety == Init /\ [][Next]_vars

(***************************************************************************)
(* Fairness.  The operating system schedules every thread that can run:    *)
(* weak fairness of each thread.  A thread that tries again and again to   *)
(* take a mutex gets it in the end if the mutex is free again and again    *)
(* while it tries: the retry loops of the code count on it, and they come  *)
(* round every 100 microseconds at most while the collector pauses for a   *)
(* second between two cycles.  A safepoint between two tries belongs to    *)
(* the loop, so this is more than strong fairness of the single try.       *)
(***************************************************************************)
TakesMonitor(i) ==
  \/ Unregister(i) \/ SpawnRegister(i) \/ JoinReap(i)
  \/ JoinRepoll(i) /\ polled'[i] # "nullopt"
Retrying(i) ==
  \/ pc[i] \in {"unreg", "spawn_reg", "join_check", "join_reap"}
  \/ pc[i] \in SafepointLabel /\ ret[i] \in {"unreg", "join_check", "join_reap"}
GcTakesMonitor == GcParkLock \/ GcCheck \/ GcSnapshot \/ GcRunLock \/ GcReap

Fairness ==
  /\ \A i \in Interp : WF_vars(~fatal /\ Worker(i))
  /\ \A i \in Interp :
       []<>(~fatal /\ Retrying(i) /\ MonitorFree) =>
         []<><<TakesMonitor(i)>>_vars
  /\ WF_vars(~fatal /\ Reap)
  /\ WF_vars(~fatal /\ Collect)
  /\ SF_vars(~fatal /\ GcTakesMonitor)

Spec == Safety /\ Fairness
=============================================================================
