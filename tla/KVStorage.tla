----------------------------- MODULE KVStorage -----------------------------
(***************************************************************************)
(* KVStorage (include/kvstorage.h), the hash table with open addressing    *)
(* under every scope and every object with fields, used the way Scope uses *)
(* it (src/scope.cpp): change an entry or add it, delete an entry.         *)
(*                                                                         *)
(* A store is a record; the operators on it are the methods, the actions   *)
(* at the end are the public operations of a scope.  Slot p of the C++     *)
(* array is data[p + 1].                                                   *)
(***************************************************************************)
EXTENDS Naturals, SequencesExt, FiniteSetsExt

CONSTANTS
  Key, Value,
  Hash,                  \* Hash[k]: what std::hash gives for k
  Capacities,            \* _capacities
  UpPercent,             \* OccupacyRateReallocUpPercentage
  DownPercent,           \* OccupacyRateReallocDownPercentage
  ReducePercent          \* ReduceDeletedPercentage

ASSUME StorageAssumption ==
  /\ Hash \in [Key -> Nat]
  /\ Capacities \in Seq(Nat \ {0}) /\ Len(Capacities) > 0
  /\ UpPercent \in Nat /\ DownPercent \in Nat /\ ReducePercent \in Nat
  /\ DownPercent < UpPercent /\ UpPercent < 100 /\ ReducePercent < 50

\* What the defaults (70, 30, 10) and the list of capacities add: a table that
\* shrinks still fits, and the names fit the greatest capacity.
ASSUME RoomAssumption ==
  /\ \A n \in 1..(Len(Capacities) - 1) :
       /\ Capacities[n] < Capacities[n + 1]
       /\ DownPercent * Capacities[n + 1] <= 100 * Capacities[n]
  /\ UpPercent + ReducePercent < 100
  /\ IsFiniteSet(Key)
  /\ Cardinality(Key) * 100 <= UpPercent * Capacities[Len(Capacities)]

VARIABLE kv              \* [idx, data, size, dead]: _capacitiesIdx (from 1),
                         \* _data, _size, _deletedCtr

Empty == [exists |-> FALSE]
Element(k, v) == [exists |-> TRUE, deleted |-> FALSE, key |-> k, value |-> v]
IsLive(slot) == slot.exists /\ ~slot.deleted
IsFree(slot) == ~slot.exists \/ slot.deleted

Capacity(s) == Capacities[s.idx]

\* The n-th index a probe for k visits, _hashPos, then _nextPos, and its slot.
Probe(s, k, n) == ((Hash[k] + n - 1) % Capacity(s)) + 1
Visited(s, k, n) == s.data[Probe(s, k, n)]

LiveSlots(s) == {p \in DOMAIN s.data : IsLive(s.data[p])}
DeadSlots(s) == {p \in DOMAIN s.data : s.data[p].exists /\ s.data[p].deleted}

NewStore(idx) ==
  [idx |-> idx, data |-> [p \in 1..Capacities[idx] |-> Empty],
   size |-> 0, dead |-> 0]

-----------------------------------------------------------------------------
(* __find: the index of the slot that holds k, or 0.  The loop ends at a    *)
(* slot that was never used.                                               *)

Holds(slot, k) == IsLive(slot) /\ slot.key = k

FindEnds(s, k, n) ==
  /\ Holds(Visited(s, k, n), k)
  /\ \A m \in 1..(n - 1) : Visited(s, k, m).exists /\ ~Holds(Visited(s, k, m), k)

FindIn(s, k) ==
  IF \E n \in 1..Capacity(s) : FindEnds(s, k, n)
  THEN Probe(s, k, CHOOSE n \in 1..Capacity(s) : FindEnds(s, k, n))
  ELSE 0

\* __add with needResize = false: the first free slot of the probe takes the
\* element, whether or not the key is in the table already.
AddEnds(s, k, n) ==
  /\ IsFree(Visited(s, k, n))
  /\ \A m \in 1..(n - 1) : ~IsFree(Visited(s, k, m))

PlaceFor(s, k) ==
  IF \E n \in 1..Capacity(s) : AddEnds(s, k, n)
  THEN Probe(s, k, CHOOSE n \in 1..Capacity(s) : AddEnds(s, k, n))
  ELSE 0

\* Mutation: a reused deleted slot stays counted.
Place_keepsCount(s, k, v) ==
  LET p == PlaceFor(s, k)
  IN IF p = 0 THEN s
     ELSE [s EXCEPT !.data[p] = Element(k, v), !.size = @ + 1]
Place(s, k, v) ==
  LET p == PlaceFor(s, k)
  IN IF p = 0 THEN s
     ELSE [s EXCEPT !.data[p] = Element(k, v),
                    !.size = @ + 1,
                    !.dead = IF s.data[p].exists THEN @ - 1 ELSE @]

\* __rehashData: the live ones of the slots are added to t, in their order.
MoveTo(t, slot) == IF IsLive(slot) THEN Place(t, slot.key, slot.value) ELSE t
MoveAll(t, slots) ==
  LET moved[n \in 0..Len(slots)] ==
        IF n = 0 THEN t ELSE MoveTo(moved[n - 1], slots[n])
  IN moved[Len(slots)]

\* Mutation: the loop runs over the new capacity instead of the old one.
Rehash_newCapacity(s, idx) ==
  MoveAll(NewStore(idx), IF idx < s.idx THEN SubSeq(s.data, 1, Capacities[idx])
                         ELSE s.data)
Rehash(s, idx) == MoveAll(NewStore(idx), s.data)

\* __resize: one step up or down the list of capacities.
\* Mutation: the index moves and the array stays.
Resize_noRehash(s) ==
  IF s.size * 100 > UpPercent * Capacity(s) /\ s.idx < Len(Capacities)
  THEN [s EXCEPT !.idx = @ + 1] ELSE s
Resize(s) ==
  CASE s.size * 100 > UpPercent * Capacity(s) ->
         IF s.idx = Len(Capacities) THEN s ELSE Rehash(s, s.idx + 1)
    [] s.size * 100 < DownPercent * Capacity(s) ->
         IF s.idx = 1 THEN s ELSE Rehash(s, s.idx - 1)
    [] OTHER -> s

\* __reduceDeleted
\* Mutation: deleted slots are never cleaned away.
ReduceDeleted_never(s) == s
ReduceDeleted(s) ==
  IF s.dead * 100 > ReducePercent * Capacity(s) THEN Rehash(s, s.idx) ELSE s

\* __add with needResize = true
AddTo(s, k, v) == ReduceDeleted(Resize(Place(s, k, v)))

\* The slot of k, if there is one, is marked as deleted.
\* Mutation: the slot becomes empty instead.
Mark_empties(s, k) ==
  LET p == FindIn(s, k)
  IN IF p = 0 THEN s ELSE [s EXCEPT !.data[p] = Empty, !.size = @ - 1]
Mark(s, k) ==
  LET p == FindIn(s, k)
  IN IF p = 0 THEN s
     ELSE [s EXCEPT !.data[p].deleted = TRUE, !.size = @ - 1, !.dead = @ + 1]

\* __del: resizing and cleaning happen whether or not the key was found.
DeleteFrom(s, k) == ReduceDeleted(Resize(Mark(s, k)))

-----------------------------------------------------------------------------
(* The operations of a scope.                                              *)

KInit == kv = NewStore(1)

\* Scope::change: the entry is assigned to, or added.
SetValue(s, p, v) == [s EXCEPT !.data[p].value = v]
Change(k, v) ==
  LET p == FindIn(kv, k)
  IN kv' = IF p = 0 THEN AddTo(kv, k, v) ELSE SetValue(kv, p, v)

\* Scope::del
Del(k) == kv' = DeleteFrom(kv, k)

KNext == \E k \in Key : Del(k) \/ \E v \in Value : Change(k, v)

KSpec == KInit /\ [][KNext]_kv

-----------------------------------------------------------------------------
(* Properties.                                                             *)

SlotType == {Empty} \cup
  [exists : {TRUE}, deleted : BOOLEAN, key : Key, value : Value]

IsStore(s) ==
  /\ s \in [idx : 1..Len(Capacities), data : Seq(SlotType), size : Nat, dead : Nat]
  /\ Len(s.data) = Capacity(s)

KTypeOK == IsStore(kv)

(***************************************************************************)
(* Every live entry is found, so no name is in the table twice: __find     *)
(* gives up at the first slot that was never used, so none may come        *)
(* between a key's hash position and its slot, whatever deletions and      *)
(* rehashes have moved on its probe path.                                  *)
(***************************************************************************)
LiveIsFound == \A p \in LiveSlots(kv) : FindIn(kv, kv.data[p].key) = p

(***************************************************************************)
(* _size and _deletedCtr, from which all resizing decisions are made, are  *)
(* the numbers of live and of deleted slots.                               *)
(***************************************************************************)
CountersAreRight ==
  /\ kv.size = Cardinality(LiveSlots(kv))
  /\ kv.dead = Cardinality(DeadSlots(kv))

(***************************************************************************)
(* Between two operations there is always a slot that was never used, so a *)
(* look-up of an absent name ends before it has gone around the table, and *)
(* an addition finds a place; deleted slots stay below their share.        *)
(***************************************************************************)
RoomLeft ==
  /\ \E p \in DOMAIN kv.data : ~kv.data[p].exists
  /\ kv.dead * 100 <= ReducePercent * Capacity(kv)

\* The map a table stands for.
Contents(s) ==
  [k \in {s.data[p].key : p \in LiveSlots(s)} |->
     s.data[CHOOSE p \in LiveSlots(s) : s.data[p].key = k].value]

SM == INSTANCE ScopeMap WITH map <- Contents(kv)

(***************************************************************************)
(* A scope is a map: every sequence of changes and deletions has on the    *)
(* contents the effect it has on a map, through every growth, shrinking    *)
(* and cleaning.                                                           *)
(***************************************************************************)
IsAMap == SM!MapSpec
=============================================================================
