---------------------------- MODULE CollectorInv ----------------------------
(***************************************************************************)
(* The properties of Collector: the inductive invariant, part by part, and *)
(* what the collector promises to a program.                               *)
(***************************************************************************)
EXTENDS Collector

\* Objects the collector will never learn of: neither in its list nor in the
\* register queue of an interpreter that it still drains.
Queued == UNION {queue[i] : i \in live}
Orphans == alive \ (left \cup Queued)

\* None of the code's ways of losing a list, a scope or an object that is
\* still needed has been taken: whatever a local held at a mark was in reach.
Orderly == Orphans \cap Lists = {} /\ strayed = {} /\ unkept = {}

Held == UNION {held[i] : i \in Interp}

-----------------------------------------------------------------------------
(* The parts of the inductive invariant.                                   *)

\* The tree of scopes.
ScopeInv ==
  /\ \A j \in Interp : below[j] \subseteq born
  /\ \A i, j, k \in Interp : i \in below[j] /\ j \in below[k] => i \in below[k]
  /\ \A i \in Interp \ born : vars[i] = {} /\ queue[i] = {} /\ below[i] = {}
  /\ strayed = {} =>
       /\ live \subseteq attached
       /\ \A i \in live, j \in Interp :
            i \in below[j] => j \in attached \/ vars[j] = {}

\* Every object is in at most one queue, and in none when it is in left_.
ListsInv ==
  /\ left \subseteq alive
  /\ \A i \in Interp : queue[i] \subseteq alive /\ queue[i] \cap left = {}
  /\ \A i, j \in Interp : i # j => queue[i] \cap queue[j] = {}
  /\ phase \in {"roots", "marking"} => Queued = {}

\* Marks between two collections are on orphans only, and what is marked
\* exists.
MarksInv ==
  /\ phase \notin {"marking", "undefined"} => marked \cap (left \cup Queued) = {}
  /\ marked \subseteq alive

\* What variables, lists and locals refer to exists.
HeapInv ==
  /\ \A o \in Obj \ Lists : kids[o] = {}
  /\ Orderly =>
       /\ Roots \subseteq alive /\ Held \subseteq alive
       /\ ClosedSet(alive)

\* The work list of mark() holds exactly the border of what is marked.
MarkingInv ==
  phase = "marking" =>
    /\ Roots \subseteq marked
    /\ work \subseteq marked
    /\ Orderly => \A o \in marked \ work : kids[o] \subseteq marked
    /\ marked \cap left \subseteq Reachable
    /\ work \subseteq Reachable
    /\ Orderly => Held \cap left \subseteq Reachable

CInv == CTypeOK /\ ScopeInv /\ ListsInv /\ MarksInv /\ HeapInv /\ MarkingInv

-----------------------------------------------------------------------------
(* Safety.                                                                 *)

(***************************************************************************)
(* The collector deletes nothing that is still used ("deleted N dead       *)
(* objects", gc.cpp:82), whether a program gets at it from the scopes or a *)
(* local of the interpreter holds it: as long as no list was lost from the *)
(* books, no running interpreter's scope was cut off, and the world never  *)
(* was stopped for a mark while a local alone kept an object.              *)
(***************************************************************************)
ReachableExists == Orderly => Reachable \cup Held \subseteq alive

(***************************************************************************)
(* "deleted N dead objects" (gc.cpp:82): what a sweep deletes is dead, if  *)
(* every running interpreter's scope can be reached from the root and no   *)
(* local alone keeps an object.                                            *)
(***************************************************************************)
OnlyDeadDeleted == strayed = {} /\ unkept = {} => Reachable \subseteq alive

(***************************************************************************)
(* "we have guarantees that GC will not happen here because it can happen  *)
(* only after single statement execution" (interpreter.cpp:103): what a    *)
(* local holds while the rest of an expression is evaluated, such as the   *)
(* left operand of a BinOp, exists when it is used.                        *)
(***************************************************************************)
OperandExists == \A i \in live : held[i] \subseteq alive

(***************************************************************************)
(* The assertion is_unique(left_) of sweep (gc.cpp:68) holds: what is      *)
(* appended to left_ is not there yet, and no two queues share an object.  *)
(***************************************************************************)
LeftIsUnique ==
  /\ \A i \in Interp : queue[i] \cap left = {}
  /\ \A i, j \in Interp : i # j => queue[i] \cap queue[j] = {}

(***************************************************************************)
(* A sweep leaves in the collector's list only what is reachable: garbage  *)
(* that is in the books does not survive a mark and sweep, whatever marks  *)
(* earlier collections left behind.                                        *)
(***************************************************************************)
SweepIsPrecise ==
  [][phase = "marking" /\ phase' = "running" => left' \subseteq Reachable]_cvars

-----------------------------------------------------------------------------
(* Liveness.                                                               *)

(***************************************************************************)
(* A stopped world runs again, whatever the lists of the program refer to: *)
(* mark() follows cycles of lists once (the test of is_marked at gc.cpp    *)
(* 38) and comes to an end.                                                *)
(***************************************************************************)
MarkingTerminates ==
  phase = "stopped" ~> phase \in {"running", "ended", "undefined"}
=============================================================================
