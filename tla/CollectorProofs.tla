-------------------------- MODULE CollectorProofs --------------------------
(***************************************************************************)
(* Proofs about Collector, for every heap and every set of interpreters:   *)
(* CInv is inductive, and the safety properties follow from it.            *)
(*                                                                         *)
(* The ways in which the code loses a list or a scope are never undone:    *)
(* Orderly, once false, stays false (OrderlyBack).  What CInv says under   *)
(* Orderly can therefore be assumed of the state before a step whenever    *)
(* it has to be shown of the state after it.                               *)
(*                                                                         *)
(* And about HeapLimit: what is proved of Collector holds whatever limit   *)
(* is given, since the account decides nothing; and the account is right   *)
(* for every heap and every width of the word.                             *)
(***************************************************************************)
EXTENDS HeapLimit, NumberLemmas, FiniteSetTheorems, TLAPS

-----------------------------------------------------------------------------
(* Reachable objects.                                                      *)

\* The roots are reachable.
LEMMA RootsReachable ==
  ASSUME CTypeOK
  PROVE  Roots \subseteq Reachable
BY DEF CTypeOK, Roots, Reachable

\* The elements of a reachable list are reachable.
LEMMA KidsReachable ==
  ASSUME CTypeOK, NEW o \in Reachable
  PROVE  kids[o] \subseteq Reachable
<1> SUFFICES ASSUME NEW k \in kids[o], NEW S \in SUBSET Obj,
                    Roots \subseteq S, ClosedSet(S)
             PROVE  k \in S
  BY DEF CTypeOK, Reachable
<1>1. o \in S
  BY DEF Reachable
<1> QED
  BY <1>1 DEF ClosedSet

\* What is reachable depends on the scopes and the lists only.
LEMMA ReachableSame ==
  ASSUME UNCHANGED <<vars, attached, kids>>
  PROVE  Reachable' = Reachable
BY DEF Reachable, Roots, ClosedSet

-----------------------------------------------------------------------------
(* Stability of disorder.                                                  *)

\* A list that is in nobody's books stays there, and an interpreter that was
\* cut off while it ran stays in the history.
LEMMA OrderlyBack ==
  ASSUME CInv, [CNext]_cvars, Orderly'
  PROVE  Orderly
<1> USE DEF CInv
<1>1. strayed \subseteq strayed' /\ unkept \subseteq unkept'
  BY DEF CNext, Mutate, CollectCycle, CollectOver, cvars, mutator, collector,
         CutOff, New, NewUnregistered, Lookup, Element, Append, SetElement, Drop,
         Hold, BindHeld, Release, UseDeleted, Spawn, Detach, Exit,
         ExitByReturn, Stop, End, Register, MarkRoots, MarkDeleted, MarkKids, Sweep
<1>2. \A o \in Orphans : o \in alive' /\ o \notin left' /\ o \notin Queued'
  <2> SUFFICES ASSUME NEW o \in alive, o \notin left, o \notin Queued
               PROVE  o \in alive' /\ o \notin left' /\ o \notin Queued'
    BY DEF Orphans
  <2>1. CASE \E i \in Interp, x \in Obj : New(i, x) \/ NewUnregistered(i, x)
    BY <2>1 DEF New, NewUnregistered, Create, Queued, CTypeOK
  <2>2. CASE \E i, c \in Interp, x \in Obj : Spawn(i, c, x)
    BY <2>2 DEF Spawn, heap, Queued, ScopeInv, CTypeOK
  <2>3. CASE \E i \in Interp : Exit(i) \/ ExitByReturn(i)
    BY <2>3 DEF Exit, ExitByReturn, heap, Queued
  <2>4. CASE Register
    BY <2>4 DEF Register, mutator, Queued, CTypeOK
  <2>5. CASE Sweep
    BY <2>5 DEF Sweep, mutator, Queued
  <2>6. CASE UNCHANGED <<alive, left, queue, live>>
    BY <2>6 DEF Queued
  <2> HIDE DEF CInv
  <2>7. ASSUME NEW i \in Interp, Mutate(i)
        PROVE  o \in alive' /\ o \notin left' /\ o \notin Queued'
    BY <2>1, <2>2, <2>3, <2>6, <2>7
    DEF Mutate, mutator, heap, Lookup, Element, Append, SetElement, Drop,
        Hold, BindHeld, Release, UseDeleted, Detach
  <2>8. CASE CollectCycle
    BY <2>4, <2>5, <2>6, <2>8
    DEF CollectCycle, mutator, heap, Stop, End, MarkRoots, MarkDeleted,
        MarkKids
  <2> QED
    BY <2>6, <2>7, <2>8 DEF CNext, CollectOver, cvars, mutator, heap
<1> QED
  BY <1>1, <1>2 DEF Orderly, Orphans

-----------------------------------------------------------------------------
(* The inductive invariant, part by part.                                  *)

\* The initial states satisfy it.
LEMMA InitCInv == CInit => CInv
<1> SUFFICES ASSUME CInit PROVE CInv
  OBVIOUS
<1> USE CollectorAssumption DEF CInit
<1>1. CTypeOK
  BY DEF CTypeOK
<1>2. ScopeInv /\ ListsInv /\ MarksInv
  BY DEF ScopeInv, ListsInv, MarksInv, Queued
<1>3. HeapInv /\ MarkingInv
  BY DEF HeapInv, MarkingInv, Roots, Held, ClosedSet
<1> QED
  BY <1>1, <1>2, <1>3 DEF CInv

\* Every step keeps the types.
LEMMA TypeStep ==
  ASSUME CTypeOK, [CNext]_cvars
  PROVE  CTypeOK'
<1> USE DEF CTypeOK
<1>1. CASE \E i \in Interp, o \in Obj : New(i, o) \/ NewUnregistered(i, o)
  BY <1>1 DEF New, NewUnregistered, Create, Bind
<1>2. CASE \E i, j \in Interp, l, o \in Obj : Lookup(i, j, o) \/ Element(i, l, o)
  BY <1>2 DEF Lookup, Element, Bind, heap, collector
<1>3. CASE \E i \in Interp, l, old, o \in Obj :
             Append(i, l, o) \/ SetElement(i, l, old, o)
  BY <1>3 DEF Append, SetElement, mutator, collector
<1>4. CASE \E i \in Interp :
             UseDeleted(i) \/ \E o \in Obj :
               Drop(i, o) \/ Hold(i, o) \/ BindHeld(i, o) \/ Release(i, o)
  BY <1>4 DEF Drop, Hold, BindHeld, Release, UseDeleted, Bind, mutator, heap,
     collector
<1>5. CASE \E i, c \in Interp, o \in Obj : Spawn(i, c, o)
  <2> PICK i \in Interp, c \in Interp, o \in Obj : Spawn(i, c, o)
    BY <1>5
  <2>1. below' \in [Interp -> SUBSET Interp]
    BY DEF Spawn
  <2> QED
    BY <2>1 DEF Spawn, Moves, heap, collector
<1>6. CASE \E i, c \in Interp : Detach(i, c)
  BY <1>6 DEF Detach, CutOff, Moves, heap, collector
<1>7. CASE \E i \in Interp : Exit(i) \/ ExitByReturn(i)
  BY <1>7 DEF Exit, ExitByReturn, CutOff, Moves, heap, collector
<1>8. CASE Stop \/ End \/ Register
  BY <1>8 DEF Stop, End, Register, mutator, heap
<1>9. CASE MarkRoots \/ MarkDeleted \/ \E o \in Obj : MarkKids(o)
  BY <1>9 DEF MarkRoots, MarkDeleted, MarkKids, Roots, mutator, heap
<1>10. CASE Sweep
  BY <1>10 DEF Sweep, mutator
<1>11. CASE UNCHANGED cvars
  BY <1>11 DEF cvars, mutator, heap, collector
<1> QED
  BY <1>1, <1>2, <1>3, <1>4, <1>5, <1>6, <1>7, <1>8, <1>9, <1>10, <1>11
  DEF CNext, Mutate, CollectCycle, CollectOver

\* Every step keeps the tree of scopes in order.
LEMMA ScopeStep ==
  ASSUME CInv, [CNext]_cvars
  PROVE  ScopeInv'
<1> USE DEF CInv, CTypeOK, ScopeInv
<1>1. CASE \E i \in Interp, o \in Obj : New(i, o) \/ NewUnregistered(i, o)
  BY <1>1 DEF New, NewUnregistered, Create, Bind, Moves
<1>2. CASE \E i, j \in Interp, l, o \in Obj : Lookup(i, j, o) \/ Element(i, l, o)
  BY <1>2 DEF Lookup, Element, Bind, Moves, heap, collector
<1>3. CASE \E i \in Interp, o \in Obj : Drop(i, o) \/ BindHeld(i, o)
  BY <1>3 DEF Drop, BindHeld, Bind, Moves, heap, collector
<1>4. CASE \E i, c \in Interp, o \in Obj : Spawn(i, c, o)
  <2> PICK i \in Interp, c \in Interp, o \in Obj : Spawn(i, c, o)
    BY <1>4
  <2> USE DEF Spawn, Moves, heap
  <2>1. \A j \in Interp : below'[j] \subseteq born'
    OBVIOUS
  <2>2. \A x, j, k \in Interp :
          x \in below'[j] /\ j \in below'[k] => x \in below'[k]
    OBVIOUS
  <2>3. \A x \in Interp \ born' :
          vars'[x] = {} /\ queue'[x] = {} /\ below'[x] = {}
    OBVIOUS
  <2>4. strayed' = {} =>
          /\ live' \subseteq attached'
          /\ \A x \in live', j \in Interp :
               x \in below'[j] => j \in attached' \/ vars'[j] = {}
    OBVIOUS
  <2> QED
    BY <2>1, <2>2, <2>3, <2>4
<1>5. CASE \E i, c \in Interp : Detach(i, c)
  BY <1>5 DEF Detach, CutOff, heap
<1>6. CASE \E i \in Interp : Exit(i)
  BY <1>6 DEF Exit, heap
<1>7. CASE \E i \in Interp : ExitByReturn(i)
  BY <1>7 DEF ExitByReturn, CutOff, heap
<1>8. CASE Register
  BY <1>8 DEF Register, mutator
<1>9. CASE UNCHANGED <<born, live, below, attached, strayed, vars, queue>>
  BY <1>9
<1> QED
  BY <1>1, <1>2, <1>3, <1>4, <1>5, <1>6, <1>7, <1>8, <1>9
  DEF CNext, Mutate, CollectCycle, CollectOver, cvars, mutator, heap, Append,
      SetElement, Hold, Release, UseDeleted, Stop, End, MarkRoots, MarkDeleted,
      MarkKids, Sweep

\* Every step keeps queues and left_ apart.
LEMMA ListsStep ==
  ASSUME CInv, [CNext]_cvars
  PROVE  ListsInv'
<1> USE DEF CInv, CTypeOK, ListsInv, Queued
<1>1. CASE \E i \in Interp, o \in Obj : New(i, o)
  BY <1>1 DEF New, Create, Moves
<1>2. CASE \E i \in Interp, o \in Obj : NewUnregistered(i, o)
  BY <1>2 DEF NewUnregistered, Create, Moves
<1>3. CASE \E i, c \in Interp, o \in Obj : Spawn(i, c, o)
  BY <1>3 DEF Spawn, Moves, heap, collector
<1>4. CASE \E i \in Interp : Exit(i) \/ ExitByReturn(i)
  BY <1>4 DEF Exit, ExitByReturn, Moves, heap, collector
<1>5. CASE Stop \/ End \/ MarkRoots \/ MarkDeleted
  BY <1>5 DEF Stop, End, MarkRoots, MarkDeleted, mutator, heap
<1>6. CASE Register
  <2> USE <1>6 DEF Register, mutator
  <2>1. left' \subseteq alive'
    OBVIOUS
  <2>2. \A i \in Interp : queue'[i] \subseteq alive' /\ queue'[i] \cap left' = {}
    OBVIOUS
  <2>3. \A i, j \in Interp : i # j => queue'[i] \cap queue'[j] = {}
    OBVIOUS
  <2>4. Queued' = {}
    OBVIOUS
  <2> QED
    BY <2>1, <2>2, <2>3, <2>4
<1>7. CASE Sweep
  BY <1>7 DEF Sweep, mutator
<1>8. CASE UNCHANGED <<alive, left, queue, live, phase>>
  BY <1>8
<1>12. CASE \E i \in Interp : UseDeleted(i)
  BY <1>12 DEF UseDeleted, mutator, heap
<1>9. ASSUME NEW i \in Interp, Mutate(i) PROVE ListsInv'
  <2>1. CASE Exit(i) \/ ExitByReturn(i) \/ \E o \in Obj, c \in Interp :
               New(i, o) \/ NewUnregistered(i, o) \/ Spawn(i, c, o)
    BY <1>1, <1>2, <1>3, <1>4, <2>1
  <2>2. CASE UNCHANGED <<alive, left, queue, live, phase>>
    BY <1>8, <2>2
  <2> HIDE DEF CInv, CTypeOK, ListsInv, Queued
  <2> QED
    BY <1>1, <1>2, <1>9, <1>12, <2>1, <2>2 DEF Mutate, mutator, heap, collector,
       Lookup, Element, Append, SetElement, Drop, Hold, BindHeld, Release, Detach
<1> HIDE DEF CInv, CTypeOK, ListsInv, Queued
<1>10. CASE CollectCycle
  BY <1>5, <1>6, <1>7, <1>8, <1>10
  DEF CollectCycle, MarkKids, mutator, heap
<1>11. CASE UNCHANGED cvars
  BY <1>8, <1>11 DEF cvars, mutator, heap, collector
<1> QED
  BY <1>9, <1>10, <1>11 DEF CNext, CollectOver

\* Every step keeps marks off what the next mark has to follow.
LEMMA MarksStep ==
  ASSUME CInv, [CNext]_cvars
  PROVE  MarksInv'
<1>1. Orderly' => Orderly
  BY OrderlyBack
<1> USE DEF CInv, CTypeOK, MarksInv, Queued
<1>2. CASE \E i \in Interp, o \in Obj : New(i, o) \/ NewUnregistered(i, o)
  BY <1>1, <1>2 DEF New, NewUnregistered, Create, Moves
<1>3. CASE \E i, c \in Interp, o \in Obj : Spawn(i, c, o)
  BY <1>1, <1>3 DEF Spawn, ScopeInv, heap, collector
<1>4. CASE \E i \in Interp : Exit(i) \/ ExitByReturn(i)
  BY <1>1, <1>4 DEF Exit, ExitByReturn, heap, collector
<1>5. CASE Stop \/ End \/ MarkDeleted \/ \E i \in Interp : UseDeleted(i)
  BY <1>1, <1>5 DEF Stop, End, MarkDeleted, UseDeleted, mutator, heap
<1>6. CASE Register
  BY <1>1, <1>6 DEF Register, mutator
<1>7. CASE MarkRoots
  BY <1>1, <1>7 DEF MarkRoots, HeapInv, mutator, heap
<1>8. CASE \E o \in Obj : MarkKids(o)
  BY <1>1, <1>8 DEF MarkKids, MarkingInv, HeapInv, ClosedSet, mutator, heap
<1>9. CASE Sweep
  BY <1>1, <1>9 DEF Sweep, ListsInv, mutator
<1>10. CASE UNCHANGED <<marked, alive, left, queue, live, phase>>
  BY <1>1, <1>10
<1> HIDE DEF CInv, CTypeOK, MarksInv, Queued
<1>11. ASSUME NEW i \in Interp, Mutate(i) PROVE MarksInv'
  BY <1>2, <1>3, <1>4, <1>5, <1>10, <1>11
  DEF Mutate, mutator, heap, collector, Lookup, Element, Append, SetElement,
      Drop, Hold, BindHeld, Release, Detach
<1>12. CASE CollectCycle
  BY <1>5, <1>6, <1>7, <1>8, <1>9, <1>12 DEF CollectCycle
<1>13. CASE UNCHANGED cvars
  BY <1>10, <1>13 DEF cvars, mutator, heap, collector
<1> QED
  BY <1>11, <1>12, <1>13 DEF CNext, CollectOver

\* Every step keeps what variables and lists refer to.
LEMMA HeapStep ==
  ASSUME CInv, [CNext]_cvars
  PROVE  HeapInv'
<1>1. Orderly' => Orderly
  BY OrderlyBack
<1> USE DEF CInv, CTypeOK, HeapInv, Roots, Held, ClosedSet
<1>2. CASE \E i \in Interp, o \in Obj : New(i, o) \/ NewUnregistered(i, o)
  BY <1>1, <1>2 DEF New, NewUnregistered, Create, Bind
<1>3. CASE \E i, j \in Interp, o \in Obj : Lookup(i, j, o)
  <2> PICK i \in Interp, j \in Interp, o \in Obj : Lookup(i, j, o)
    BY <1>3
  <2>1. Orderly' => o \in alive
    BY <1>1 DEF Orderly, Lookup, Moves, ScopeInv
  <2> QED
    BY <1>1, <2>1 DEF Lookup, Bind, heap
<1>4. CASE \E i \in Interp, l, o \in Obj : Element(i, l, o)
  BY <1>1, <1>4 DEF Element, Bind, heap
<1>5. CASE \E i \in Interp, l, old, o \in Obj :
             Append(i, l, o) \/ SetElement(i, l, old, o)
  <2> PICK i \in Interp, l \in Obj, old \in Obj, o \in Obj :
             Append(i, l, o) \/ SetElement(i, l, old, o)
    BY <1>5
  <2>1. Orderly' => o \in alive
    BY <1>1 DEF Orderly, Append, SetElement, Moves, ScopeInv
  <2> QED
    BY <1>1, <2>1 DEF Append, SetElement, mutator
<1>6. CASE \E i \in Interp, o \in Obj : Drop(i, o)
  BY <1>1, <1>6 DEF Drop, heap
<1>7. CASE \E i, c \in Interp, o \in Obj : Spawn(i, c, o)
  <2> PICK i \in Interp, c \in Interp, o \in Obj : Spawn(i, c, o)
    BY <1>7
  <2>1. Orderly' => o \in alive
    BY <1>1 DEF Orderly, Spawn, Moves, ScopeInv
  <2> QED
    BY <1>1, <2>1 DEF Spawn, heap
<1>8. CASE \E i, c \in Interp : Detach(i, c) \/ Exit(i) \/ ExitByReturn(i)
  BY <1>1, <1>8 DEF Detach, Exit, ExitByReturn, CutOff, heap
<1>9. CASE Sweep
  <2> USE <1>9 DEF Sweep, mutator
  <2>1. \A o \in Obj \ Lists : kids'[o] = {}
    OBVIOUS
  <2> SUFFICES ASSUME Orderly'
               PROVE  Roots' \cup Held' \subseteq alive' /\ ClosedSet(alive)'
    BY <2>1
  <2>2. Orderly
    BY <1>1
  <2>3. Roots' \cup Held' \subseteq alive'
    <3>1. Reachable \subseteq marked
      BY <2>2 DEF MarkingInv, Reachable
    <3> QED
      BY <2>2, <3>1 DEF MarkingInv
  <2>4. ASSUME NEW o \in alive' PROVE kids'[o] \subseteq alive'
    <3>1. CASE o \in left
      BY <2>2, <2>4, <3>1 DEF MarkingInv
    <3>2. CASE o \notin left
      <4>1. o \in Orphans
        BY <2>4, <3>2 DEF Orphans, ListsInv
      <4>2. kids[o] = {}
        BY <2>2, <2>4, <4>1 DEF Orderly
      <4> QED
        BY <4>2
    <3> QED
      BY <3>1, <3>2
  <2> QED
    BY <2>3, <2>4
<1>10. CASE UNCHANGED <<alive, kids, vars, held, attached>>
  BY <1>1, <1>10
<1>14. CASE \E i \in Interp, o \in Obj :
              Hold(i, o) \/ BindHeld(i, o) \/ Release(i, o)
  <2> PICK i \in Interp, o \in Obj : Hold(i, o) \/ BindHeld(i, o) \/ Release(i, o)
    BY <1>14
  <2>1. Orderly' => o \in alive
    BY <1>1 DEF Orderly, Hold, BindHeld, Release, Moves, ScopeInv
  <2> QED
    BY <1>1, <2>1 DEF Hold, BindHeld, Release, Bind, heap
<1> HIDE DEF CInv, CTypeOK, HeapInv, Roots, Held, ClosedSet
<1>11. ASSUME NEW i \in Interp, Mutate(i) PROVE HeapInv'
  <2>1. CASE UseDeleted(i)
    BY <1>10, <2>1 DEF UseDeleted, mutator, heap
  <2> QED
    BY <1>2, <1>3, <1>4, <1>5, <1>6, <1>7, <1>8, <1>11, <1>14, <2>1 DEF Mutate
<1>12. CASE CollectCycle
  BY <1>9, <1>10, <1>12 DEF CollectCycle, mutator, heap, Stop, End, Register,
     MarkRoots, MarkDeleted, MarkKids
<1>13. CASE UNCHANGED cvars
  BY <1>10, <1>13 DEF cvars, mutator, heap
<1> QED
  BY <1>11, <1>12, <1>13 DEF CNext, CollectOver

\* Every step of mark() keeps the border of what is marked on its work list.
LEMMA MarkingStep ==
  ASSUME CInv, [CNext]_cvars
  PROVE  MarkingInv'
<1>1. Orderly' => Orderly
  BY OrderlyBack
<1> USE DEF CInv, MarkingInv
<1>2. CASE MarkRoots
  <2>1. Reachable' = Reachable /\ Roots' = Roots
    BY <1>2, ReachableSame DEF MarkRoots, mutator, heap, Roots
  <2>2. Roots \subseteq Reachable
    BY RootsReachable
  <2>3. Orderly => \A o \in marked \ Roots : kids[o] \subseteq marked
    <3> SUFFICES ASSUME Orderly, NEW o \in marked \ Roots PROVE kids[o] = {}
      OBVIOUS
    <3>1. o \in Orphans
      BY <1>2 DEF MarkRoots, MarksInv, Orphans
    <3> QED
      BY <3>1 DEF Orderly, HeapInv, Orphans, CTypeOK
  <2>4. Orderly' => Held' \cap left' \subseteq Reachable'
    BY <1>2, <2>1 DEF MarkRoots, Orderly, Held, mutator, heap
  <2> QED
    BY <1>1, <1>2, <2>1, <2>2, <2>3, <2>4 DEF MarkRoots, MarksInv, mutator, heap
<1>3. CASE \E o \in Obj : MarkKids(o)
  <2> PICK o \in Obj : MarkKids(o)
    BY <1>3
  <2>1. Reachable' = Reachable /\ Roots' = Roots
    BY ReachableSame DEF MarkKids, mutator, heap, Roots
  <2>2. kids[o] \subseteq Reachable
    BY KidsReachable DEF MarkKids
  <2> QED
    BY <1>1, <2>1, <2>2 DEF MarkKids, Held, mutator, heap
<1>4. CASE UNCHANGED cvars
  <2>1. Reachable' = Reachable /\ Roots' = Roots
    BY <1>4, ReachableSame DEF cvars, mutator, heap, Roots
  <2> QED
    BY <1>1, <1>4, <2>1 DEF cvars, Held, mutator, heap, collector
<1>5. CASE phase' # "marking"
  BY <1>5
<1> HIDE DEF CInv, MarkingInv
<1>6. ASSUME NEW i \in Interp, Mutate(i) PROVE phase' # "marking"
  BY <1>6 DEF Mutate, Moves, collector, New, NewUnregistered, Lookup, Element,
     Append, SetElement, Drop, Hold, BindHeld, Release, UseDeleted, Spawn,
     Detach, Exit, ExitByReturn
<1>7. Stop \/ End \/ Register \/ MarkDeleted \/ Sweep => phase' # "marking"
  BY DEF Stop, End, Register, MarkDeleted, Sweep
<1> QED
  BY <1>2, <1>3, <1>4, <1>5, <1>6, <1>7 DEF CNext, CollectCycle, CollectOver

\* CInv is inductive.
LEMMA NextCInv == CInv /\ [CNext]_cvars => CInv'
<1> SUFFICES ASSUME CInv, [CNext]_cvars PROVE CInv'
  OBVIOUS
<1>1. CTypeOK'
  BY TypeStep DEF CInv
<1> QED
  BY <1>1, ScopeStep, ListsStep, MarksStep, HeapStep, MarkingStep DEF CInv

(***************************************************************************)
(* The inductive invariant of the collector holds in every state.          *)
(***************************************************************************)
THEOREM CollectorInvariance == CSpec => []CInv
<1>1. CInit => CInv
  BY InitCInv
<1>2. CInv /\ [CNext]_cvars => CInv'
  BY NextCInv
<1> QED
  BY <1>1, <1>2, PTL DEF CSpec

-----------------------------------------------------------------------------
(* What follows from it.                                                   *)

(***************************************************************************)
(* "deleted N dead objects" (gc.cpp:82): whatever the program and however  *)
(* many threads it has, nothing is deleted that can be reached from the    *)
(* scopes or that a local of an interpreter holds, as long as no list and  *)
(* no running scope was lost and no mark met an object that a local alone  *)
(* kept (the three ways of gc.cpp and interpreter.cpp to lose one).        *)
(***************************************************************************)
THEOREM NothingReachableDies == CSpec => []ReachableExists
<1>1. CInv => ReachableExists
  BY DEF CInv, CTypeOK, HeapInv, ReachableExists, Reachable
<1> QED
  BY <1>1, CollectorInvariance, PTL

(***************************************************************************)
(* The assertion is_unique(left_) of sweep (gc.cpp:68) holds.              *)
(***************************************************************************)
THEOREM UniqueBooks == CSpec => []LeftIsUnique
<1>1. CInv => LeftIsUnique
  BY DEF CInv, ListsInv, LeftIsUnique
<1> QED
  BY <1>1, CollectorInvariance, PTL

(***************************************************************************)
(* What a sweep (gc.cpp:66) leaves in the books can be reached.            *)
(***************************************************************************)
THEOREM SweepLeavesReachable == CSpec => SweepIsPrecise
<1>1. CInv /\ [CNext]_cvars =>
        [phase = "marking" /\ phase' = "running" => left' \subseteq Reachable]_cvars
  <2> SUFFICES ASSUME CInv, CNext, phase = "marking", phase' = "running"
               PROVE  left' \subseteq Reachable
    OBVIOUS
  <2>1. Sweep
    BY DEF CNext, CollectCycle, CollectOver, Mutate, Moves, New,
       NewUnregistered, Lookup, Element, Append, SetElement, Drop, Hold,
       BindHeld, Release, UseDeleted, Spawn, Detach, Exit, ExitByReturn, Stop,
       End, Register, MarkRoots, MarkDeleted, MarkKids, cvars, collector
  <2> QED
    BY <2>1 DEF Sweep, CInv, MarkingInv
<1> QED
  BY <1>1, CollectorInvariance, PTL DEF CSpec, SweepIsPrecise

-----------------------------------------------------------------------------
(* The account and the collector.                                          *)

\* Every step of the collector with an account is one without.
LEMMA StepOfCollector ==
  ASSUME [HNext]_hvars
  PROVE  [CNext]_cvars
<1>1. CASE \E i \in Interp : Mutate(i)
  BY <1>1 DEF CNext
<1>2. CASE HRegister
  BY <1>2 DEF HRegister, CNext, CollectCycle
<1>3. CASE HSweep
  BY <1>3 DEF HSweep, CNext, CollectCycle
<1>4. CASE Stop \/ End \/ MarkRoots \/ MarkDeleted \/ \E o \in Obj : MarkKids(o)
  BY <1>4 DEF CNext, CollectCycle
<1>5. CASE CollectOver
  BY <1>5 DEF CNext
<1>6. CASE UNCHANGED hvars
  BY <1>6 DEF hvars
<1> QED
  BY <1>1, <1>2, <1>3, <1>4, <1>5, <1>6 DEF HNext, HCollectCycle

\* The test of max_hs_ at gc.cpp:139 never has an effect (HRegister), so that
\* what is proved of Collector holds of HeapLimit.
LEMMA LimitChangesNothing == HSpec => CSpec
<1>1. HInit => CInit
  BY DEF HInit
<1>2. [HNext]_hvars => [CNext]_cvars
  BY StepOfCollector
<1> QED
  BY <1>1, <1>2, PTL DEF HSpec, CSpec

-----------------------------------------------------------------------------
(* The account.                                                            *)

\* The limit and the bytes of strings are integers.
AccountInv ==
  /\ option \in {NoOption} \cup Options
  /\ spelled \in Int
  /\ RoomIsRight

Size == HeapSize(option.n, option.unit)

LEMMA SizeIsAnInteger ==
  ASSUME option \in Options \ {NoOption}
  PROVE  Size \in Int
BY HeapLimitAssumption DEF Size, HeapSize

LEMMA FiniteBooks ==
  ASSUME NEW S \in SUBSET Obj
  PROVE  IsFiniteSet(S) /\ Cardinality(S) \in Nat
BY CollectorAssumption, FS_Subset, FS_CardinalityType

\* An interpreter leaves the books alone.
LEMMA MutateKeepsLeft ==
  ASSUME NEW i \in Interp, Mutate(i)
  PROVE  UNCHANGED left
<1>1. ASSUME NEW o \in Obj,
             \/ New(i, o) \/ NewUnregistered(i, o) \/ Drop(i, o)
             \/ Hold(i, o) \/ BindHeld(i, o) \/ Release(i, o)
      PROVE  UNCHANGED left
  BY <1>1 DEF New, NewUnregistered, Drop, Hold, BindHeld, Release, heap
<1>2. ASSUME NEW o \in Obj, NEW l \in Obj, Element(i, l, o) \/ Append(i, l, o)
      PROVE  UNCHANGED left
  BY <1>2 DEF Element, Append, heap
<1>3. ASSUME NEW o \in Obj, NEW l \in Obj, NEW old \in Obj, SetElement(i, l, old, o)
      PROVE  UNCHANGED left
  BY <1>3 DEF SetElement
<1>4. ASSUME NEW o \in Obj, NEW j \in Interp, Lookup(i, j, o)
      PROVE  UNCHANGED left
  BY <1>4 DEF Lookup, heap
<1>5. ASSUME NEW o \in Obj, NEW c \in Interp, Spawn(i, c, o)
      PROVE  UNCHANGED left
  BY <1>5 DEF Spawn, heap
<1>6. ASSUME NEW c \in Interp, Detach(i, c)
      PROVE  UNCHANGED left
  BY <1>6 DEF Detach, heap
<1>7. CASE UseDeleted(i) \/ Exit(i) \/ ExitByReturn(i)
  BY <1>7 DEF UseDeleted, Exit, ExitByReturn, heap
<1> QED
  BY <1>1, <1>2, <1>3, <1>4, <1>5, <1>6, <1>7 DEF Mutate

LEMMA RegisterKeepsAccount ==
  ASSUME CTypeOK, CTypeOK', AccountInv, HRegister
  PROVE  AccountInv'
<1>1. CASE option = NoOption
  BY <1>1 DEF HRegister, AccountInv, RoomIsRight, Wrapped
<1>2. CASE option # NoOption
  <2> DEFINE new == left' \ left
             W == Word
             S == Size
             c == Cardinality(left)
             k == Cardinality(new)
             t == Letters[new]
             taken == ObjSize * k + t
  <2>1. W \in Nat \ {0} /\ ObjSize \in Nat
    BY HeapLimitAssumption
  <2>2. S \in Int
    BY <1>2, SizeIsAnInteger DEF AccountInv
  <2>3. left \subseteq left'
    BY DEF HRegister, Register
  <2>4. IsFiniteSet(left) /\ c \in Nat /\ IsFiniteSet(left') /\ Cardinality(left') \in Nat
    BY FiniteBooks DEF CTypeOK
  <2>5. IsFiniteSet(new) /\ k \in Nat
    BY <2>4, FS_Subset, FS_CardinalityType
  <2>6. Cardinality(left') = c + k
    <3>1. k = Cardinality(left') - Cardinality(left' \cap left)
      BY <2>4, FS_Difference
    <3>2. left' \cap left = left
      BY <2>3
    <3> QED
      BY <3>1, <3>2, <2>4
  <2>7. new \in SUBSET Obj /\ t \in Nat
    BY HeapLimitAssumption DEF CTypeOK
  <2>8. spelled \in Int /\ max_hs = (S - ObjSize * c - spelled) % W
    BY <1>2 DEF AccountInv, RoomIsRight, Wrapped, Size
  <2>9. /\ max_hs' = (max_hs - taken) % W
        /\ spelled' = (spelled + t) % W
        /\ option' = option
    BY <1>2 DEF HRegister, Wrapped
  <2> HIDE DEF new, W, S, c, k, t
  <2>10. /\ ObjSize * c \in Int /\ ObjSize * k \in Int
         /\ ObjSize * (c + k) = ObjSize * c + ObjSize * k
    BY <2>1, <2>4, <2>5
  <2> DEFINE full == S - ObjSize * c - spelled
             rest == S - ObjSize * c - ObjSize * k
  <2>11. /\ full \in Int /\ -taken \in Int /\ rest \in Int /\ spelled + t \in Int
         /\ full + (-taken) = rest - (spelled + t)
    BY <2>2, <2>7, <2>8, <2>10
  <2>12. max_hs' = (rest - (spelled + t)) % W
    <3>1. ((full % W) + (-taken)) % W = (full + (-taken)) % W
      BY <2>1, <2>11, ModTerm
    <3>2. full % W \in Int
      BY <2>1, <2>11
    <3>3. max_hs - taken = (full % W) + (-taken)
      BY <2>8, <3>2, <2>11
    <3> QED
      BY <2>9, <2>11, <3>1, <3>3
  <2>13. max_hs' = (rest - spelled') % W
    BY <2>1, <2>9, <2>11, <2>12, ModTerm
  <2>14. rest = S - ObjSize * Cardinality(left')
    BY <2>2, <2>6, <2>10
  <2>15. spelled' \in Int
    BY <2>1, <2>9, <2>11
  <2> QED
    BY <1>2, <2>9, <2>13, <2>14, <2>15 DEF AccountInv, RoomIsRight, Wrapped, Size, S, W
<1> QED
  BY <1>1, <1>2

LEMMA SweepKeepsAccount ==
  ASSUME CTypeOK, CTypeOK', AccountInv, HSweep
  PROVE  AccountInv'
<1>1. CASE option = NoOption
  BY <1>1 DEF HSweep, AccountInv, RoomIsRight, Wrapped
<1>2. CASE option # NoOption
  <2> DEFINE gone == left \ left'
             W == Word
             S == Size
             c == Cardinality(left)
             k == Cardinality(gone)
  <2>1. W \in Nat \ {0} /\ ObjSize \in Nat
    BY HeapLimitAssumption
  <2>2. S \in Int
    BY <1>2, SizeIsAnInteger DEF AccountInv
  <2>3. left' \subseteq left
    BY DEF HSweep, Sweep
  <2>4. IsFiniteSet(left) /\ c \in Nat /\ Cardinality(left') \in Nat
    BY FiniteBooks DEF CTypeOK
  <2>5. IsFiniteSet(gone) /\ k \in Nat
    BY <2>4, FS_Subset, FS_CardinalityType
  <2>6. Cardinality(left') = c - k
    <3>1. k = c - Cardinality(left \cap left')
      BY <2>4, FS_Difference
    <3>2. left \cap left' = left'
      BY <2>3
    <3> QED
      BY <3>1, <3>2, <2>4, <2>5
  <2>7. spelled \in Int /\ max_hs = (S - ObjSize * c - spelled) % W
    BY <1>2 DEF AccountInv, RoomIsRight, Wrapped, Size
  <2>8. /\ max_hs' = (max_hs + ObjSize * k) % W
        /\ spelled' = spelled
        /\ option' = option
    BY <1>2 DEF HSweep, Wrapped
  <2> HIDE DEF gone, W, S, c, k
  <2>9. /\ ObjSize * c \in Int /\ ObjSize * k \in Int
        /\ ObjSize * (c - k) = ObjSize * c - ObjSize * k
    BY <2>1, <2>4, <2>5
  <2> DEFINE full == S - ObjSize * c - spelled
  <2>10. /\ full \in Int
         /\ full + ObjSize * k = S - ObjSize * (c - k) - spelled
    BY <2>2, <2>7, <2>9
  <2>11. max_hs' = (full + ObjSize * k) % W
    BY <2>1, <2>7, <2>8, <2>9, <2>10, ModTerm
  <2> QED
    BY <1>2, <2>6, <2>7, <2>8, <2>10, <2>11
    DEF AccountInv, RoomIsRight, Wrapped, Size, S, W
<1> QED
  BY <1>1, <1>2

(***************************************************************************)
(* The account of the heap is right, for every limit, every size of        *)
(* objects and strings and every width of the word.                        *)
(***************************************************************************)
THEOREM AccountIsRight == HSpec => []RoomIsRight
<1>1. HInit => AccountInv
  <2> SUFFICES ASSUME HInit
               PROVE  AccountInv
    OBVIOUS
  <2>1. Cardinality(left) = 0
    BY FS_EmptySet DEF HInit, CInit
  <2>2. CASE option = NoOption
    BY <2>2 DEF HInit, AccountInv, RoomIsRight, Given
  <2>3. CASE option # NoOption
    <3>1. Size \in Int
      BY <2>3, SizeIsAnInteger DEF HInit
    <3>2. Size - ObjSize * 0 - 0 = Size
      BY <3>1, HeapLimitAssumption
    <3> QED
      BY <2>1, <2>3, <3>2 DEF HInit, AccountInv, RoomIsRight, Given, Size
  <2> QED
    BY <2>2, <2>3
<1>2. AccountInv /\ CTypeOK /\ CTypeOK' /\ [HNext]_hvars => AccountInv'
  <2> SUFFICES ASSUME AccountInv, CTypeOK, CTypeOK', [HNext]_hvars
               PROVE  AccountInv'
    OBVIOUS
  <2>1. CASE HRegister
    BY <2>1, RegisterKeepsAccount
  <2>2. CASE HSweep
    BY <2>2, SweepKeepsAccount
  <2>3. CASE UNCHANGED account /\ UNCHANGED left
    BY <2>3 DEF AccountInv, RoomIsRight, account
  <2>4. CASE (\E i \in Interp : Mutate(i)) /\ UNCHANGED account
    BY <2>3, <2>4, MutateKeepsLeft
  <2>5. CASE /\ Stop \/ End \/ MarkRoots \/ MarkDeleted \/ \E o \in Obj : MarkKids(o)
             /\ UNCHANGED account
    <3>1. UNCHANGED left
      BY <2>5 DEF Stop, End, MarkRoots, MarkDeleted, MarkKids, heap
    <3> QED
      BY <2>3, <2>5, <3>1
  <2>6. CASE CollectOver /\ UNCHANGED account
    BY <2>3, <2>6 DEF CollectOver, cvars, heap
  <2>7. CASE UNCHANGED hvars
    BY <2>3, <2>7 DEF hvars, cvars, heap
  <2> QED
    BY <2>1, <2>2, <2>4, <2>5, <2>6, <2>7 DEF HNext, HCollectCycle
<1>3. HSpec => []CTypeOK
  <2>1. CInv => CTypeOK
    BY DEF CInv
  <2> QED
    BY <2>1, LimitChangesNothing, CollectorInvariance, PTL
<1>4. AccountInv => RoomIsRight
  BY DEF AccountInv
<1> QED
  BY <1>1, <1>2, <1>3, <1>4, PTL DEF HSpec
=============================================================================
