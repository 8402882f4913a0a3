---------------------------- MODULE SharedScope ----------------------------
(***************************************************************************)
(* A scope that a thread below it reads while its owner changes it: the    *)
(* hash table in memory.                                                   *)
(*                                                                         *)
(* KVStorage takes an operation of the owner as one step; kv is what the   *)
(* table is when the operation is over.  Here the operation writes one     *)
(* slot and, when it rehashes, goes on step by step: __resize moves the    *)
(* index of the capacity, __rehashData replaces the array, clears it,      *)
(* moves the elements one by one and frees the old one.  No lock is taken: *)
(* between any two of these steps a reader may do one step of __find.      *)
(* Writing a slot and reading a slot are one step each.                    *)
(*                                                                         *)
(* A look-up that meets the capacity of one array and the slots of another *)
(* one, slots nobody has cleared, or an array that is freed may read       *)
(* anything; from the first step of a rehash on it is overtaken, and       *)
(* nothing is claimed of it.                                               *)
(***************************************************************************)
EXTENDS KVStorage

CONSTANT Wanted          \* names the reader looks up

ASSUME WantedAssumption == Wanted \subseteq Key

VARIABLES
  mem,                   \* [idx, data, raw]: _capacitiesIdx, _data, and
                         \* whether the exists of its slots are not set yet
  old,                   \* what is left of prevData
  stage,                 \* where __rehashData of the owner is, or idle
  reader                 \* [at, key, pos, ctr] of __find; history: sure, the
                         \* name was in the table ever since the beginning,
                         \* and never, it was not

svars == <<kv, mem, old, stage, reader>>

IsIn(k, s) == \E p \in DOMAIN s.data : Holds(s.data[p], k)

NoReader == [at |-> "idle"]
IsReading == reader.at \in {"probe", "ref"}

SInit ==
  /\ KInit
  /\ mem = [idx |-> kv.idx, data |-> kv.data, raw |-> FALSE]
  /\ old = <<>>
  /\ stage = "idle"
  /\ reader = NoReader

-----------------------------------------------------------------------------
(* The owner.                                                              *)

\* The look-up goes on beside an operation of the owner.
Watch ==
  reader' = IF IsReading
            THEN [reader EXCEPT !.sure = @ /\ IsIn(reader.key, kv'),
                                !.never = @ /\ ~IsIn(reader.key, kv')]
            ELSE reader

\* Capacity, array and slots do not fit together any more.
Overtake == reader' = IF IsReading THEN [at |-> "overtaken"] ELSE reader

\* The table is s before __resize and __reduceDeleted, and kv' after them.
WriteSlot(s) ==
  /\ stage = "idle"
  /\ mem' = [idx |-> s.idx, data |-> s.data, raw |-> FALSE]
  /\ stage' = IF kv' = s THEN "idle" ELSE "index"
  /\ UNCHANGED old
  /\ Watch

OwnerChange(k, v) ==
  /\ Change(k, v)
  /\ WriteSlot(IF FindIn(kv, k) = 0 THEN Place(kv, k, v) ELSE kv')

OwnerDel(k) ==
  /\ Del(k)
  /\ WriteSlot(Mark(kv, k))

MoveIndex ==
  /\ stage = "index"
  /\ mem' = [mem EXCEPT !.idx = kv.idx]
  /\ stage' = "array"
  /\ Overtake
  /\ UNCHANGED <<kv, old>>

NewArray ==
  /\ stage = "array"
  /\ mem' = [mem EXCEPT !.data = [p \in 1..Capacities[mem.idx] |-> Empty],
                        !.raw = TRUE]
  /\ old' = mem.data
  /\ stage' = "clear"
  /\ Overtake
  /\ UNCHANGED kv

ClearArray ==
  /\ stage = "clear"
  /\ mem' = [mem EXCEPT !.raw = FALSE]
  /\ stage' = "move"
  /\ Overtake
  /\ UNCHANGED <<kv, old>>

\* The next live element of the old array is added to the new one.
\* Mutation: the last slot is left out.
MoveElement_notLast ==
  LET n == SelectInSeq(old, IsLive)
      moved == Place([idx |-> mem.idx, data |-> mem.data, size |-> 0, dead |-> 0],
                     old[n].key, old[n].value)
  IN /\ stage = "move"
     /\ n > 0
     /\ mem' = IF n = Len(old) THEN mem ELSE [mem EXCEPT !.data = moved.data]
     /\ old' = SubSeq(old, n + 1, Len(old))
     /\ Overtake
     /\ UNCHANGED <<kv, stage>>
MoveElement ==
  LET n == SelectInSeq(old, IsLive)
      moved == Place([idx |-> mem.idx, data |-> mem.data, size |-> 0, dead |-> 0],
                     old[n].key, old[n].value)
  IN /\ stage = "move"
     /\ n > 0
     /\ mem' = [mem EXCEPT !.data = moved.data]
     /\ old' = SubSeq(old, n + 1, Len(old))
     /\ Overtake
     /\ UNCHANGED <<kv, stage>>

FreeArray ==
  /\ stage = "move"
  /\ SelectInSeq(old, IsLive) = 0
  /\ old' = <<>>
  /\ stage' = "idle"
  /\ Overtake
  /\ UNCHANGED <<kv, mem>>

-----------------------------------------------------------------------------
(* The reader: Scope::get of a scope above its own.                        *)

\* _hashPos
BeginFind(k) ==
  /\ reader.at = "idle"
  /\ reader' =
       IF stage \in {"idle", "index"}
       THEN [at |-> "probe", key |-> k, ctr |-> 0,
             pos |-> Hash[k] % Capacities[mem.idx],
             sure |-> IsIn(k, mem), never |-> ~IsIn(k, mem)]
       ELSE [at |-> "overtaken"]
  /\ UNCHANGED <<kv, mem, old, stage>>

\* One round of the loop of __find.
Slot == mem.data[reader.pos + 1]
NextPos(pos) == (pos + 1) % Capacities[mem.idx]

\* Mutation: a deleted slot ends the probe like one that was never used.
ReadSlot_stopsAtDeleted ==
  /\ reader.at = "probe"
  /\ reader' =
       IF reader.ctr > Capacities[mem.idx] \/ IsFree(Slot)
       THEN [reader EXCEPT !.at = "missing"]
       ELSE IF Slot.key = reader.key THEN [reader EXCEPT !.at = "ref"]
       ELSE [reader EXCEPT !.pos = NextPos(@), !.ctr = @ + 1]
  /\ UNCHANGED <<kv, mem, old, stage>>
ReadSlot ==
  /\ reader.at = "probe"
  /\ reader' =
       IF reader.ctr > Capacities[mem.idx] \/ ~Slot.exists
       THEN [reader EXCEPT !.at = "missing"]
       ELSE IF ~Slot.deleted /\ Slot.key = reader.key THEN [reader EXCEPT !.at = "ref"]
       ELSE [reader EXCEPT !.pos = NextPos(@), !.ctr = @ + 1]
  /\ UNCHANGED <<kv, mem, old, stage>>

\* The entry is copied through the reference.
CopyEntry ==
  /\ reader.at = "ref"
  /\ reader' = [reader EXCEPT !.at = "found"]
  /\ UNCHANGED <<kv, mem, old, stage>>

\* The look-up is over; what was found or not is used.
EndFind ==
  /\ reader.at \in {"found", "missing", "overtaken"}
  /\ reader' = NoReader
  /\ UNCHANGED <<kv, mem, old, stage>>

-----------------------------------------------------------------------------
SNext ==
  \/ \E k \in Key : OwnerDel(k) \/ \E v \in Value : OwnerChange(k, v)
  \/ MoveIndex \/ NewArray \/ ClearArray \/ MoveElement \/ FreeArray
  \/ \E k \in Wanted : BeginFind(k)
  \/ ReadSlot \/ CopyEntry \/ EndFind

SSpec == SInit /\ [][SNext]_svars

-----------------------------------------------------------------------------

(***************************************************************************)
(* A rehash in steps, through the index, the new array and the elements    *)
(* one by one, ends with the table the operation stands for: nothing is    *)
(* lost or left over in memory (kvstorage.h:100-122).                      *)
(***************************************************************************)
RehashRebuilds ==
  stage = "idle" => mem = [idx |-> kv.idx, data |-> kv.data, raw |-> FALSE]

(***************************************************************************)
(* A thread that looks up a name of a scope above it while the owner adds, *)
(* changes and deletes other names finds it when it is there, and does not *)
(* when it is not, though no lock is taken; only a rehash in the meantime  *)
(* can lead it astray (scope.cpp:98, kvstorage.h:195).                     *)
(***************************************************************************)
LookupIsRight ==
  /\ reader.at = "missing" => ~reader.sure
  /\ reader.at = "found" => ~reader.never
=============================================================================
