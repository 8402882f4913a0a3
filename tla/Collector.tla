----------------------------- MODULE Collector -----------------------------
(***************************************************************************)
(* The heap and the mark-and-sweep collector YGC (src/gc.cpp), together    *)
(* with everything an interpreter does that matters to it: allocate,       *)
(* bind and drop variables, store into lists, start threads and end        *)
(* (src/interpreter.cpp, src/scope.cpp).                                   *)
(*                                                                         *)
(* The module takes from VmThreads what StopTheWorld states: between Stop  *)
(* and Resume no interpreter moves and each is at a safepoint, so marking  *)
(* and sweeping are steps of the collector alone, and the drain of all the *)
(* register queues is one step.                                            *)
(*                                                                         *)
(* Not every object reaches left_, the collector's list of the heap, not   *)
(* every scope is reachable from the root scope, and not every object that *)
(* will be used again is in a scope: the module keeps the code's own ways  *)
(* of losing one (NewUnregistered, Exit, Detach, ExitByReturn, Hold), and  *)
(* Orderly says that none of them has done harm so far.                    *)
(***************************************************************************)
EXTENDS Naturals, FiniteSets

CONSTANTS
  Interp, Main,          \* interpreters; each is started once
  Obj,                   \* addresses of ManagedObjects
  Lists,                 \* those that hold lists; the others have no kids
  NoObj,
  Nesting,               \* how many objects an interpreter holds in locals
                         \* while a call is half evaluated: at most
  Limit                  \* GC_CASH_LIMIT

ASSUME CollectorAssumption ==
  /\ Main \in Interp
  /\ Lists \subseteq Obj
  /\ NoObj \notin Obj
  /\ Nesting \in [Interp -> Nat]
  /\ Limit \in Nat
  /\ IsFiniteSet(Obj)

VARIABLES
  phase,                 \* where collect is
  born,                  \* interpreters that were ever started
  live,                  \* interpreters that are registered
  below,                 \* below[i]: threads whose scopes hang below i's
  attached,              \* interpreters whose scopes the root scope reaches
  dangling,              \* interpreters whose scope was deleted while the
                         \* scope above, which the root reaches, refers to it
  strayed,               \* history: interpreters that were still running when
                         \* their scopes were cut off from the root scope
  vars,                  \* vars[i]: objects in the scopes of i
  held,                  \* held[i]: objects that locals of the C++ code of i
                         \* refer to across the statements of a call
  unkept,                \* history: interpreters that were stopped for a mark
                         \* while only such a local referred to an object
  alive,                 \* objects that exist
  kids,                  \* kids[o]: elements of the list o
  queue,                 \* queue[i]: register_queue_
  left,                  \* left_
  marked,                \* objects with marked_ set
  work                   \* deq of mark()

mutator == <<born, live, below, attached, dangling, strayed, vars, held>>
heap == <<alive, kids, queue, left>>
collector == <<phase, marked, work, unkept>>
cvars == <<mutator, heap, collector>>

CTypeOK ==
  /\ phase \in {"running", "stopped", "roots", "marking", "ended", "undefined"}
  /\ born \subseteq Interp /\ live \subseteq born
  /\ below \in [Interp -> SUBSET Interp]
  /\ attached \subseteq born /\ strayed \subseteq born
  /\ dangling \subseteq born
  /\ vars \in [Interp -> SUBSET Obj]
  /\ held \in [Interp -> SUBSET Obj] /\ unkept \subseteq Interp
  /\ alive \subseteq Obj
  /\ kids \in [Obj -> SUBSET Obj]
  /\ queue \in [Interp -> SUBSET Obj]
  /\ left \subseteq Obj /\ marked \subseteq Obj /\ work \subseteq Obj

CInit ==
  /\ phase = "running"
  /\ born = {Main} /\ live = {Main} /\ attached = {Main}
  /\ below = [i \in Interp |-> {}]
  /\ dangling = {} /\ strayed = {}
  /\ vars = [i \in Interp |-> {}]
  /\ held = [i \in Interp |-> {}] /\ unkept = {}
  /\ alive = {}
  /\ kids = [o \in Obj |-> {}]
  /\ queue = [i \in Interp |-> {}]
  /\ left = {} /\ marked = {} /\ work = {}

-----------------------------------------------------------------------------
(* An interpreter, between two safepoints.                                 *)

Moves(i) == phase = "running" /\ i \in live
Bind(i, o) == vars' = [vars EXCEPT ![i] = @ \cup {o}]

\* new ManagedObject{...}: not marked, no elements; bound to lst_exec_res.
Create(i, o) ==
  /\ o \notin alive
  /\ alive' = alive \cup {o}
  /\ kids' = [kids EXCEPT ![o] = {}]
  /\ marked' = marked \ {o}
  /\ Bind(i, o)

\* The result of an operator, a constant, a call of list(), str() ...:
\* created and pushed on the register queue.
New(i, o) ==
  /\ Moves(i)
  /\ Create(i, o)
  /\ queue' = [queue EXCEPT ![i] = @ \cup {o}]
  /\ UNCHANGED <<born, live, below, attached, dangling, strayed, held, left,
                 phase, work, unkept>>

\* The bool of a comparison of different types and the int that stands for a
\* thread are created and not pushed anywhere.
NewUnregistered(i, o) ==
  /\ Moves(i)
  /\ o \notin Lists
  /\ Create(i, o)
  /\ UNCHANGED <<born, live, below, attached, dangling, strayed, held, queue,
                 left, phase, work, unkept>>

\* A name is looked up, in the interpreter's own scopes or in those of the
\* interpreters above it.
Lookup(i, j, o) ==
  /\ Moves(i)
  /\ i \in below[j]
  /\ o \in vars[j]
  /\ Bind(i, o)
  /\ UNCHANGED <<born, live, below, attached, dangling, strayed, held, heap,
                 collector>>

\* A list that is in a scope, or was evaluated before what stands to the right
\* of it: the list of a subscript, of an append, of l += ...
At(i) == vars[i] \cup held[i]

\* l[k] is read.
Element(i, l, o) ==
  /\ Moves(i)
  /\ l \in At(i) \cap alive
  /\ o \in kids[l]
  /\ Bind(i, o)
  /\ UNCHANGED <<born, live, below, attached, dangling, strayed, held, heap,
                 collector>>

\* l.append(o), l += o
Append(i, l, o) ==
  /\ Moves(i)
  /\ l \in At(i) \cap Lists \cap alive
  /\ o \in vars[i]
  /\ kids' = [kids EXCEPT ![l] = @ \cup {o}]
  /\ UNCHANGED <<mutator, alive, queue, left, collector>>

\* l[k] = o takes the element old out.
SetElement(i, l, old, o) ==
  /\ Moves(i)
  /\ l \in At(i) \cap Lists \cap alive
  /\ o \in vars[i]
  /\ old \in kids[l]
  /\ kids' = [kids EXCEPT ![l] = (@ \ {old}) \cup {o}]
  /\ UNCHANGED <<mutator, alive, queue, left, collector>>

\* A variable is assigned anew, or the scope of a call that held it is
\* deleted when the function returns.
Drop(i, o) ==
  /\ Moves(i)
  /\ o \in vars[i]
  /\ vars' = [vars EXCEPT ![i] = @ \ {o}]
  /\ UNCHANGED <<born, live, below, attached, dangling, strayed, held, heap,
                 collector>>

\* The left operand of a BinOp or a comparison, an argument of a call or the
\* list to read or to store into has been evaluated and is kept in a local
\* while what stands to its right is, which may run statements of a function.
Hold(i, o) ==
  /\ Moves(i)
  /\ Cardinality(held[i]) < Nesting[i]
  /\ o \in vars[i]
  /\ held' = [held EXCEPT ![i] = @ \cup {o}]
  /\ UNCHANGED <<born, live, below, attached, dangling, strayed, vars, heap,
                 collector>>

\* All arguments are evaluated: this one becomes a variable of the callee.
BindHeld(i, o) ==
  /\ Moves(i)
  /\ o \in held[i]
  /\ Bind(i, o)
  /\ UNCHANGED <<born, live, below, attached, dangling, strayed, held, heap,
                 collector>>

\* The local is used for the last time: the operand is read, the argument
\* bound, the list read or changed.
Release(i, o) ==
  /\ Moves(i)
  /\ o \in held[i]
  /\ held' = [held EXCEPT ![i] = @ \ {o}]
  /\ UNCHANGED <<born, live, below, attached, dangling, strayed, vars, heap,
                 collector>>

\* An object that was deleted is read or changed.  What the freed memory holds
\* is not modelled: nothing is claimed of the run from here on.
UseDeleted(i) ==
  /\ Moves(i)
  /\ ~(At(i) \subseteq alive)
  /\ phase' = "undefined"
  /\ UNCHANGED <<mutator, heap, marked, work, unkept>>

\* A thread starts with its argument, in a scope below that of its starter.
Spawn(i, c, o) ==
  /\ Moves(i)
  /\ c \notin born
  /\ o \in vars[i]
  /\ born' = born \cup {c}
  /\ live' = live \cup {c}
  /\ below' = [j \in Interp |->
                 IF j = i \/ i \in below[j] THEN below[j] \cup {c} ELSE below[j]]
  /\ attached' = IF i \in attached THEN attached \cup {c} ELSE attached
  /\ vars' = [vars EXCEPT ![c] = {o}]
  /\ UNCHANGED <<dangling, strayed, held, heap, collector>>

\* The scopes of a set of interpreters are no longer below the root scope.
CutOff(cut) ==
  /\ attached' = attached \ cut
  /\ strayed' = strayed \cup (cut \cap live')

\* The function that started c returns: its scope is deleted, and with it the
\* entry by which the root scope reached the scope of c.
Detach(i, c) ==
  /\ Moves(i)
  /\ c \in below[i] \cap (attached \cup dangling)
  /\ UNCHANGED live
  /\ CutOff({c} \cup below[c])
  /\ dangling' = dangling \ ({c} \cup below[c])
  /\ UNCHANGED <<born, below, vars, held, heap, collector>>

\* The last statement is over.  The scope stays; the register queue goes with
\* the interpreter, whatever is in it.
Exit(i) ==
  /\ Moves(i)
  /\ held[i] = {}
  /\ live' = live \ {i}
  /\ UNCHANGED <<born, below, attached, dangling, strayed, vars, held, heap,
                 collector>>

\* A return statement in the function the thread was started with deletes the
\* scope of the thread, to which the scope of its starter still refers; one at
\* the top of the main program deletes the scope the collector starts from.
ExitByReturn(i) ==
  /\ Moves(i)
  /\ held[i] = {}
  /\ live' = live \ {i}
  /\ vars' = [vars EXCEPT ![i] = {}]
  /\ CutOff({i} \cup below[i])
  /\ dangling' = (dangling \ below[i]) \cup ({i} \cap attached)
  /\ UNCHANGED <<born, below, held, heap, collector>>

-----------------------------------------------------------------------------
(* YGC::collect.                                                           *)

\* park_all and is_all_parked have returned.
Stop ==
  /\ phase = "running"
  /\ phase' = "stopped"
  /\ UNCHANGED <<mutator, heap, marked, work, unkept>>

\* No interpreter is left: collect returns.
End ==
  /\ phase = "stopped"
  /\ live = {}
  /\ phase' = "ended"
  /\ UNCHANGED <<mutator, heap, marked, work, unkept>>

\* The new objects of all interpreters go to left_; a mark and sweep is due
\* when that has reached the limit.
\* Mutation: the queues are read and not emptied.
Register_keepsQueues ==
  /\ phase = "stopped"
  /\ live # {}
  /\ left' = left \cup UNION {queue[i] : i \in live}
  /\ phase' = IF Cardinality(left') >= Limit THEN "roots" ELSE "running"
  /\ UNCHANGED <<mutator, alive, kids, queue, marked, work, unkept>>
Register ==
  /\ phase = "stopped"
  /\ live # {}
  /\ left' = left \cup UNION {queue[i] : i \in live}
  /\ queue' = [i \in Interp |-> IF i \in live THEN {} ELSE queue[i]]
  /\ phase' = IF Cardinality(left') >= Limit THEN "roots" ELSE "running"
  /\ UNCHANGED <<mutator, alive, kids, marked, work, unkept>>

\* Scope::get_all_objects of the root scope.
\* Mutation: it does not enter the scopes below.
Roots_shallow == vars[Main]
Roots == UNION {vars[i] : i \in attached}

\* Nothing outside S is an element of a list in S.
ClosedSet(S) == \A o \in S : kids[o] \subseteq S

\* The objects a program can still get at from the scopes below the root:
\* those in every closed set that contains the roots.
Reachable ==
  {o \in Obj : \A S \in SUBSET Obj : Roots \subseteq S /\ ClosedSet(S) => o \in S}

\* Every root is marked and queued, marked or not.
MarkRoots ==
  /\ phase = "roots"
  /\ dangling = {}
  /\ Roots \subseteq alive
  /\ marked' = marked \cup Roots
  /\ work' = Roots
  /\ phase' = "marking"
  /\ unkept' = unkept \cup {i \in Interp : ~(held[i] \cap left \subseteq Reachable)}
  /\ UNCHANGED <<mutator, heap>>

\* mark() enters a scope that was deleted, or marks an object that was.
MarkDeleted ==
  /\ \/ phase = "roots" /\ ~(dangling = {} /\ Roots \subseteq alive)
     \/ phase = "marking" /\ \E o \in work : ~(kids[o] \subseteq alive)
  /\ phase' = "undefined"
  /\ UNCHANGED <<mutator, heap, marked, work, unkept>>

\* One object of the work list: its kids that are not marked are.
\* Mutation: the kids are marked but not queued.
MarkKids_shallow(o) ==
  /\ phase = "marking"
  /\ o \in work /\ kids[o] \subseteq alive
  /\ marked' = marked \cup kids[o]
  /\ work' = work \ {o}
  /\ UNCHANGED <<mutator, heap, phase, unkept>>
\* Mutation: a kid is queued whether or not it is marked.
MarkKids_again(o) ==
  /\ phase = "marking"
  /\ o \in work /\ kids[o] \subseteq alive
  /\ marked' = marked \cup kids[o]
  /\ work' = (work \ {o}) \cup kids[o]
  /\ UNCHANGED <<mutator, heap, phase, unkept>>
MarkKids(o) ==
  /\ phase = "marking"
  /\ o \in work /\ kids[o] \subseteq alive
  /\ marked' = marked \cup kids[o]
  /\ work' = (work \ {o}) \cup (kids[o] \ marked)
  /\ UNCHANGED <<mutator, heap, phase, unkept>>

\* sweep() and run_all: objects of left_ that are not marked are deleted, the
\* others are unmarked and kept.
\* Mutation: the survivors stay marked.
Sweep_keepsMarks ==
  /\ phase = "marking"
  /\ work = {}
  /\ alive' = alive \ (left \ marked)
  /\ left' = left \cap marked
  /\ phase' = "running"
  /\ UNCHANGED <<mutator, kids, queue, marked, work, unkept>>
\* Mutation: one object too many is kept.
Sweep_keepsOne ==
  /\ phase = "marking"
  /\ work = {}
  /\ \E o \in left \cup {NoObj} :
       /\ alive' = alive \ ((left \ marked) \ {o})
       /\ left' = left \cap (marked \cup {o})
  /\ marked' = marked \ left
  /\ phase' = "running"
  /\ UNCHANGED <<mutator, kids, queue, work, unkept>>
Sweep ==
  /\ phase = "marking"
  /\ work = {}
  /\ alive' = alive \ (left \ marked)
  /\ left' = left \cap marked
  /\ marked' = marked \ left
  /\ phase' = "running"
  /\ UNCHANGED <<mutator, kids, queue, work, unkept>>

-----------------------------------------------------------------------------
Mutate(i) ==
  \/ \E o \in Obj :
       \/ New(i, o) \/ NewUnregistered(i, o) \/ Drop(i, o)
       \/ Hold(i, o) \/ BindHeld(i, o) \/ Release(i, o)
       \/ \E l \in Obj : Element(i, l, o) \/ Append(i, l, o)
       \/ \E l, old \in Obj : SetElement(i, l, old, o)
       \/ \E j \in Interp : Lookup(i, j, o)
       \/ \E c \in Interp : Spawn(i, c, o)
  \/ UseDeleted(i)
  \/ \E c \in Interp : Detach(i, c)
  \/ Exit(i) \/ ExitByReturn(i)

CollectCycle ==
  \/ Stop \/ End \/ Register \/ MarkRoots \/ MarkDeleted \/ Sweep
  \/ \E o \in Obj : MarkKids(o)

\* collect has returned, or nothing is known any more.
CollectOver == phase \in {"ended", "undefined"} /\ UNCHANGED cvars

CNext == (\E i \in Interp : Mutate(i)) \/ CollectCycle \/ CollectOver

CSpec == CInit /\ [][CNext]_cvars

\* The collector's thread is scheduled, and every loop of collect that waits
\* for a thread ends (StopEnds and ParkAllReturnsOrStuck of VmThreadsInv).
CFairSpec == CSpec /\ WF_cvars(CollectCycle)
=============================================================================
