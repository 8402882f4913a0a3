-------------------------- MODULE SharedScopeProofs --------------------------
(***************************************************************************)
(* Theorems about SharedScope.  The steps of its owner are operations of   *)
(* KVStorage or leave kv alone, so that what is proved of KVStorage holds  *)
(* here; a rehash in steps ends with the table the operation stands for;   *)
(* and a look-up beside operations that do not rehash gives the right      *)
(* answer.                                                                 *)
(***************************************************************************)
EXTENDS SharedScope, KVStorageProofs

-----------------------------------------------------------------------------
(* The table after an operation.                                           *)

LEMMA StepOfStorage ==
  ASSUME [SNext]_svars
  PROVE  [KNext]_kv
<1>1. CASE \E k \in Key : OwnerDel(k) \/ \E v \in Value : OwnerChange(k, v)
  BY <1>1 DEF OwnerDel, OwnerChange, KNext
<1>2. CASE MoveIndex \/ NewArray \/ ClearArray \/ MoveElement \/ FreeArray
  BY <1>2 DEF MoveIndex, NewArray, ClearArray, MoveElement, FreeArray
<1>3. CASE (\E k \in Wanted : BeginFind(k)) \/ ReadSlot \/ CopyEntry \/ EndFind
  BY <1>3 DEF BeginFind, ReadSlot, CopyEntry, EndFind
<1>4. CASE UNCHANGED svars
  BY <1>4 DEF svars
<1> QED
  BY <1>1, <1>2, <1>3, <1>4 DEF SNext

\* A scope with a reader beside it is a scope.
LEMMA ReadersChangeNothing == SSpec => KSpec
<1>1. SInit => KInit
  BY DEF SInit
<1>2. [SNext]_svars => [KNext]_kv
  BY StepOfStorage
<1> QED
  BY <1>1, <1>2, PTL DEF SSpec, KSpec

\* Resizing and cleaning rehash once at most.
LEMMA OneRehash ==
  ASSUME NEW s, WellFormed(s), NEW t, t = ReduceDeleted(Resize(s))
  PROVE  t = s \/ (t.idx \in 1..Len(Capacities) /\ t = Rehash(s, t.idx))
<1> DEFINE L == Len(Capacities)
<1>1. s.idx \in 1..L /\ ReducePercent \in Nat /\ L \in Nat
  BY StoreFacts, StorageAssumption DEF WellFormed
<1>2. \/ Resize(s) = s
      \/ s.idx + 1 \in 1..L /\ Resize(s) = Rehash(s, s.idx + 1)
      \/ s.idx - 1 \in 1..L /\ Resize(s) = Rehash(s, s.idx - 1)
  BY <1>1 DEF Resize
<1>3. ASSUME NEW i \in 1..L, Resize(s) = Rehash(s, i)
      PROVE  t = Rehash(s, i) /\ t.idx = i
  <2> DEFINE u == Resize(s)
  <2>1. WellFormed(u) /\ u.idx = i /\ u.dead = 0
    BY <1>3, RehashKeeps
  <2>2. ReducePercent * Capacity(u) \in Nat
    BY <1>1, <2>1, StoreFacts DEF WellFormed
  <2>3. ReduceDeleted(u) = u
    <3>1. ~(u.dead * 100 > ReducePercent * Capacity(u))
      BY <2>1, <2>2
    <3> QED
      BY <3>1 DEF ReduceDeleted
  <2> QED
    BY <1>3, <2>1, <2>3
<1>4. CASE Resize(s) = s
  <2>1. t = s \/ t = Rehash(s, s.idx)
    BY <1>4 DEF ReduceDeleted
  <2>2. t = Rehash(s, s.idx) => t.idx = s.idx
    BY <1>1, RehashKeeps
  <2> QED
    BY <1>1, <2>1, <2>2
<1> QED
  BY <1>2, <1>3, <1>4

-----------------------------------------------------------------------------
(* The steps of a rehash.                                                  *)

\* s is the table before the rehash that kv is the result of.
Before(s) == WellFormed(s) /\ kv = Rehash(s, kv.idx)

\* n slots of s are dealt with: u is the new table, rest the slots to come.
Moving(s, g, n, data, rest) ==
  /\ Before(s)
  /\ Steps(g, NewStore(kv.idx), s.data, Capacity(s)) /\ kv = g[Capacity(s)]
  /\ n \in 0..Capacity(s)
  /\ data = g[n].data
  /\ rest = SubSeq(s.data, n + 1, Capacity(s))

MemInv ==
  /\ stage \in {"idle", "index", "array", "clear", "move"}
  /\ mem = [idx |-> mem.idx, data |-> mem.data, raw |-> mem.raw]
  /\ stage = "idle" => mem.idx = kv.idx /\ mem.data = kv.data /\ mem.raw = FALSE
  /\ stage = "index" => mem.raw = FALSE /\ \E s : Before(s) /\ mem.idx = s.idx /\ mem.data = s.data
  /\ stage = "array" => mem.idx = kv.idx /\ \E s : Before(s) /\ mem.data = s.data
  /\ stage = "clear" => /\ mem.idx = kv.idx /\ mem.data = NewStore(kv.idx).data
                        /\ \E s : Before(s) /\ old = s.data
  /\ stage = "move" => /\ mem.idx = kv.idx /\ mem.raw = FALSE
                       /\ \E s, g, n : Moving(s, g, n, mem.data, old)

\* The slot an operation writes: s is the table before __resize.
Writes(s) ==
  /\ WellFormed(s) /\ s.idx = kv.idx
  /\ mem' = [idx |-> s.idx, data |-> s.data, raw |-> FALSE]
  /\ stage' = IF kv' = s THEN "idle" ELSE "index"
  /\ kv' = s \/ (kv'.idx \in 1..Len(Capacities) /\ kv' = Rehash(s, kv'.idx))
  /\ SameEntries(s, kv')

LEMMA AddWrites ==
  ASSUME KInv, NEW k \in Key, NEW v \in Value, OwnerChange(k, v), FindIn(kv, k) = 0
  PROVE  /\ Writes(Place(kv, k, v)) /\ Absent(kv, k) /\ PlaceFor(kv, k) # 0
<1> DEFINE s == Place(kv, k, v)
<1>1. WellFormed(kv) /\ Roomy(kv) /\ IsStore(kv) /\ Reached(kv) /\ NoDup(kv)
  BY DEF KInv, WellFormed
<1>2. Absent(kv, k)
  BY <1>1, MissedIsAbsent
<1>3. PlaceFor(kv, k) # 0
  <2>1. SUFFICES ASSUME PlaceFor(kv, k) = 0 PROVE FALSE
    OBVIOUS
  <2>2. kv.size = Capacity(kv)
    BY <1>1, <2>1, NoPlaceIsFull
  <2>3. kv.size \in Nat /\ kv.dead \in Nat
    BY <1>1, StoreFacts
  <2> QED
    BY <1>1, <2>2, <2>3 DEF Roomy
<1>4. WellFormed(s) /\ s.idx = kv.idx
  BY <1>1, <1>2, <1>3, PlaceKeeps
<1>5. kv' = ReduceDeleted(Resize(s)) /\ WriteSlot(s)
  BY DEF OwnerChange, Change, AddTo
<1> HIDE DEF s
<1>6. SameEntries(s, kv')
  BY <1>4, <1>5, TidyKeeps
<1>7. kv' = s \/ (kv'.idx \in 1..Len(Capacities) /\ kv' = Rehash(s, kv'.idx))
  BY <1>4, <1>5, OneRehash
<1>8. Writes(s)
  BY <1>4, <1>5, <1>6, <1>7 DEF Writes, WriteSlot
<1> QED
  BY <1>2, <1>3, <1>8 DEF s

LEMMA SetWrites ==
  ASSUME KInv, NEW k \in Key, NEW v \in Value, OwnerChange(k, v), FindIn(kv, k) # 0
  PROVE  Writes(SetValue(kv, FindIn(kv, k), v))
<1> DEFINE s == SetValue(kv, FindIn(kv, k), v)
<1>1. WellFormed(kv)
  BY DEF KInv
<1>2. WellFormed(s) /\ s.idx = kv.idx
  BY <1>1, ChangeChanges
<1>3. kv' = s /\ WriteSlot(s)
  BY DEF OwnerChange, Change
<1> HIDE DEF s
<1>4. SameEntries(s, kv')
  BY <1>3 DEF SameEntries
<1>5. Writes(s)
  BY <1>2, <1>3, <1>4 DEF Writes, WriteSlot
<1> QED
  BY <1>5 DEF s

LEMMA DelWrites ==
  ASSUME KInv, NEW k \in Key, OwnerDel(k)
  PROVE  Writes(Mark(kv, k))
<1> DEFINE s == Mark(kv, k)
<1>1. WellFormed(kv)
  BY DEF KInv
<1>2. WellFormed(s) /\ s.idx = kv.idx
  <2>1. CASE FindIn(kv, k) = 0
    BY <1>1, <2>1 DEF Mark
  <2>2. CASE FindIn(kv, k) # 0
    BY <1>1, <2>2, MarkKeeps
  <2> QED
    BY <2>1, <2>2
<1>3. kv' = ReduceDeleted(Resize(s)) /\ WriteSlot(s)
  BY DEF OwnerDel, Del, DeleteFrom
<1> HIDE DEF s
<1>4. SameEntries(s, kv')
  BY <1>2, <1>3, TidyKeeps
<1>5. kv' = s \/ (kv'.idx \in 1..Len(Capacities) /\ kv' = Rehash(s, kv'.idx))
  BY <1>2, <1>3, OneRehash
<1>6. Writes(s)
  BY <1>2, <1>3, <1>4, <1>5 DEF Writes, WriteSlot
<1> QED
  BY <1>6 DEF s

LEMMA WritesKeepMem ==
  ASSUME NEW s, Writes(s)
  PROVE  MemInv'
<1>1. /\ mem'.idx = s.idx /\ mem'.data = s.data /\ mem'.raw = FALSE
      /\ mem' = [idx |-> mem'.idx, data |-> mem'.data, raw |-> mem'.raw]
  BY DEF Writes
<1>2. CASE kv' = s
  BY <1>1, <1>2 DEF Writes, MemInv
<1>3. CASE kv' # s
  <2>1. stage' = "index" /\ kv' = Rehash(s, kv'.idx) /\ WellFormed(s)
    BY <1>3 DEF Writes
  <2>2. Before(s)'
    BY <2>1 DEF Before
  <2> QED
    BY <1>1, <2>1, <2>2 DEF MemInv
<1> QED
  BY <1>2, <1>3

\* Slots that are not live move nothing.
LEMMA DeadMoveNothing ==
  ASSUME NEW g, NEW t, NEW slots, NEW L \in Nat, Steps(g, t, slots, L),
         NEW n \in 0..L, NEW m \in n..L, \A i \in (n + 1)..m : ~IsLive(slots[i])
  PROVE  g[m] = g[n]
<1> DEFINE T == {i \in n..m : g[i] # g[n]}
<1>1. SUFFICES ASSUME T # {} PROVE FALSE
  OBVIOUS
<1>2. T \in SUBSET Nat
  OBVIOUS
<1>3. PICK i \in T : \A j \in T : i <= j
  BY <1>1, <1>2, LeastExists
<1>4. i \in (n + 1)..m /\ i \in 1..L /\ i - 1 \in n..m
  BY <1>3
<1>5. i - 1 \notin T
  BY <1>3, <1>4
<1>6. g[i - 1] = g[n]
  BY <1>4, <1>5
<1>7. g[i] = MoveTo(g[i - 1], slots[i])
  BY <1>4 DEF Steps
<1>8. g[i] = g[i - 1]
  BY <1>4, <1>7 DEF MoveTo
<1> QED
  BY <1>3, <1>6, <1>8

\* Where an element is put, and what the slots are then, hangs on the
\* capacity and the slots alone.
LEMMA PlaceData ==
  ASSUME NEW s, NEW u, IsStore(s), IsStore(u), s.idx = u.idx, s.data = u.data,
         NEW k \in Key, NEW v \in Value
  PROVE  Place(s, k, v).data = Place(u, k, v).data
<1>1. Capacity(s) = Capacity(u)
  BY DEF Capacity
<1>2. \A n : Visited(s, k, n) = Visited(u, k, n) /\ Probe(s, k, n) = Probe(u, k, n)
  BY <1>1 DEF Visited, Probe
<1>3. \A n : AddEnds(s, k, n) <=> AddEnds(u, k, n)
  BY <1>2 DEF AddEnds
<1>4. PlaceFor(s, k) = PlaceFor(u, k)
  BY <1>1, <1>2, <1>3 DEF PlaceFor
<1>5. ASSUME NEW w, IsStore(w)
      PROVE  Place(w, k, v).data = IF PlaceFor(w, k) = 0 THEN w.data
                                   ELSE [w.data EXCEPT ![PlaceFor(w, k)] = Element(k, v)]
  BY <1>5 DEF Place, IsStore
<1> QED
  BY <1>4, <1>5

\* The first live slot.
NextOf(rest) == SelectInSeq(rest, IsLive)

LEMMA NextLive ==
  ASSUME NEW rest \in Seq(SlotType), NEW m, m = NextOf(rest)
  PROVE  /\ m \in 0..Len(rest)
         /\ m = 0 => \A i \in 1..Len(rest) : ~IsLive(rest[i])
         /\ m # 0 => IsLive(rest[m]) /\ \A i \in 1..(m - 1) : ~IsLive(rest[i])
<1> DEFINE I == {i \in 1..Len(rest) : IsLive(rest[i])}
<1>1. m = IF I # {} THEN Min(I) ELSE 0
  BY DEF NextOf, SelectInSeq
<1>2. CASE I = {}
  BY <1>1, <1>2
<1>3. CASE I # {}
  <2>1. I \in SUBSET Nat
    OBVIOUS
  <2>2. \E x \in I : \A y \in I : x <= y
    BY <1>3, <2>1, LeastExists
  <2> HIDE DEF I
  <2>3. m \in I /\ \A y \in I : m <= y
    BY <1>1, <1>3, <2>2 DEF Min
  <2>4. m \in 1..Len(rest) /\ IsLive(rest[m])
    BY <2>3 DEF I
  <2>5. ASSUME NEW i \in 1..(m - 1), IsLive(rest[i]) PROVE FALSE
    <3>1. m \in Nat /\ Len(rest) \in Nat /\ m <= Len(rest)
      BY <2>4
    <3>2. i \in 1..Len(rest) /\ ~(m <= i)
      BY <2>5, <3>1
    <3>3. i \in I
      BY <2>5, <3>2 DEF I
    <3> QED
      BY <2>3, <3>2, <3>3
  <2>6. m # 0 /\ m \in 0..Len(rest)
    BY <2>4
  <2> QED
    BY <2>4, <2>5, <2>6
<1> QED
  BY <1>2, <1>3

LEMMA MovingFacts ==
  ASSUME NEW s, NEW g, NEW n, NEW data, NEW rest, Moving(s, g, n, data, rest),
         kv.idx \in 1..Len(Capacities)
  PROVE  /\ IsStore(s) /\ Capacity(s) \in Nat /\ n \in 0..Capacity(s)
         /\ \A i \in 0..Capacity(s) : IsStore(g[i]) /\ g[i].idx = kv.idx
         /\ rest \in Seq(SlotType) /\ Len(rest) = Capacity(s) - n
         /\ \A i \in 1..(Capacity(s) - n) : rest[i] = s.data[n + i]
<1>1. WellFormed(s) /\ IsStore(s) /\ n \in 0..Capacity(s)
      /\ Steps(g, NewStore(kv.idx), s.data, Capacity(s))
      /\ rest = SubSeq(s.data, n + 1, Capacity(s))
  BY DEF Moving, Before, WellFormed
<1>2. Capacity(s) \in Nat /\ s.data \in Seq(SlotType) /\ Len(s.data) = Capacity(s)
  BY <1>1, StoreFacts DEF IsStore
<1>3. \A i \in 0..Capacity(s) : IsStore(g[i]) /\ g[i].idx = kv.idx
  BY <1>1, MovedThroughout DEF Moved, WellFormed
<1>4. rest \in Seq(SlotType) /\ Len(rest) = Capacity(s) - n
      /\ \A i \in 1..(Capacity(s) - n) : rest[i] = s.data[n + i]
  BY <1>1, <1>2
<1> QED
  BY <1>1, <1>2, <1>3, <1>4

LEMMA MoveElementKeepsMem ==
  ASSUME MemInv, kv.idx \in 1..Len(Capacities), MoveElement
  PROVE  MemInv'
<1> DEFINE m == NextOf(old)
           u == [idx |-> mem.idx, data |-> mem.data, size |-> 0, dead |-> 0]
           k == old[m].key
           v == old[m].value
<1>1. /\ stage = "move" /\ m > 0 /\ kv' = kv /\ stage' = stage
      /\ mem' = [mem EXCEPT !.data = Place(u, k, v).data]
      /\ old' = SubSeq(old, m + 1, Len(old))
  BY DEF MoveElement, NextOf
<1>2. PICK s, g, n : Moving(s, g, n, mem.data, old)
  BY <1>1 DEF MemInv
<1>3. mem.idx = kv.idx /\ mem.raw = FALSE
      /\ mem = [idx |-> mem.idx, data |-> mem.data, raw |-> mem.raw]
  BY <1>1 DEF MemInv
<1> DEFINE C == Capacity(s)
<1>4. /\ IsStore(s) /\ C \in Nat /\ n \in 0..C
      /\ \A i \in 0..C : IsStore(g[i]) /\ g[i].idx = kv.idx
      /\ old \in Seq(SlotType) /\ Len(old) = C - n
      /\ \A i \in 1..(C - n) : old[i] = s.data[n + i]
  BY <1>2, MovingFacts
<1>5. m \in 1..(C - n) /\ IsLive(old[m]) /\ \A i \in 1..(m - 1) : ~IsLive(old[i])
  <2> HIDE DEF C, m
  <2>1. m \in 0..Len(old) /\ m # 0
    BY <1>1, <1>4, NextLive DEF m
  <2>2. IsLive(old[m]) /\ \A i \in 1..(m - 1) : ~IsLive(old[i])
    BY <1>4, <2>1, NextLive DEF m
  <2> QED
    BY <1>4, <2>1, <2>2
<1>6. /\ Steps(g, NewStore(kv.idx), s.data, C) /\ Before(s) /\ kv = g[C]
      /\ mem.data = g[n].data /\ old = SubSeq(s.data, n + 1, C)
  BY <1>2 DEF Moving
<1> HIDE DEF C, m
<1> PICK j \in Nat : j = n + m
  BY <1>4, <1>5
<1>7. j \in 1..C /\ j - 1 \in n..C /\ j - 1 \in 0..C
  BY <1>4, <1>5
<1>8. g[j - 1] = g[n]
  <2>1. ASSUME NEW i \in (n + 1)..(j - 1) PROVE ~IsLive(s.data[i])
    <3>1. i - n \in 1..(m - 1) /\ i - n \in 1..(C - n) /\ n + (i - n) = i
      BY <1>4, <1>5
    <3> QED
      BY <1>4, <1>5, <3>1
  <2> QED
    BY <1>4, <1>6, <1>7, <2>1, DeadMoveNothing
<1>9. old[m] = s.data[j]
  BY <1>4, <1>5
<1>10. g[j] = MoveTo(g[j - 1], s.data[j])
  BY <1>6, <1>7 DEF Steps
<1>11. g[j] = Place(g[n], k, v)
  BY <1>5, <1>8, <1>9, <1>10 DEF MoveTo
<1>12. k \in Key /\ v \in Value
  <2>1. old[m] \in SlotType
    BY <1>4, <1>5
  <2> QED
    BY <1>5, <2>1, SlotFacts
<1>13. IsStore(u) /\ u.idx = g[n].idx /\ u.data = g[n].data
  <2>1. IsStore(g[n]) /\ g[n].idx = kv.idx
    BY <1>4
  <2>2. Capacity(u) = Capacity(g[n])
    BY <1>3, <2>1 DEF Capacity
  <2> QED
    BY <1>3, <1>6, <2>1, <2>2 DEF IsStore
<1> HIDE DEF u, k, v
<1>14. Place(u, k, v).data = g[j].data
  BY <1>4, <1>11, <1>12, <1>13, PlaceData
<1>15. mem'.data = g[j].data /\ mem'.idx = kv.idx /\ mem'.raw = FALSE
       /\ mem' = [idx |-> mem'.idx, data |-> mem'.data, raw |-> mem'.raw]
  BY <1>1, <1>3, <1>14
<1>16. old' = SubSeq(s.data, j + 1, C)
  <2>1. s.data \in Seq(SlotType) /\ Len(s.data) = C
    BY <1>4 DEF IsStore, C
  <2>2. SubSeq(old, m + 1, Len(old)) = SubSeq(s.data, n + m + 1, C)
    <3>1. Len(SubSeq(old, m + 1, Len(old))) = C - n - m
      BY <1>4, <1>5
    <3>2. Len(SubSeq(s.data, n + m + 1, C)) = C - n - m
      BY <1>4, <1>5, <2>1
    <3>3. ASSUME NEW i \in 1..(C - n - m)
          PROVE  SubSeq(old, m + 1, Len(old))[i] = SubSeq(s.data, n + m + 1, C)[i]
      <4>1. SubSeq(old, m + 1, Len(old))[i] = old[m + i]
        <5> DEFINE l == m + 1
        <5>1. l \in 1..(Len(old) + 1) /\ i \in 1..(Len(old) - l + 1)
          BY <1>4, <1>5
        <5>2. l + i - 1 = m + i
          BY <1>4, <1>5
        <5> HIDE DEF l
        <5>3. SubSeq(old, l, Len(old))[i] = old[l + i - 1]
          BY <1>4, <5>1
        <5> QED
          BY <5>2, <5>3 DEF l
      <4>2. m + i \in 1..(C - n) /\ n + (m + i) = n + m + i
        BY <1>4, <1>5
      <4>3. SubSeq(s.data, n + m + 1, C)[i] = s.data[n + m + i]
        <5> DEFINE l == n + m + 1
        <5>1. l \in 1..(C + 1) /\ i \in 1..(C - l + 1)
          BY <1>4, <1>5
        <5>2. l + i - 1 = n + m + i
          BY <1>4, <1>5
        <5> HIDE DEF l
        <5>3. SubSeq(s.data, l, C)[i] = s.data[l + i - 1]
          BY <1>4, <2>1, <5>1
        <5> QED
          BY <5>2, <5>3 DEF l
      <4> QED
        BY <1>4, <4>1, <4>2, <4>3
    <3> DEFINE a == SubSeq(old, m + 1, Len(old))
               b == SubSeq(s.data, n + m + 1, C)
    <3>4. a \in Seq(SlotType) /\ b \in Seq(SlotType)
      BY <1>4, <1>5, <2>1
    <3>5. \A i \in 1..Len(a) : a[i] = b[i]
      BY <3>1, <3>3
    <3> HIDE DEF a, b
    <3>6. Len(a) = Len(b)
      BY <3>1, <3>2 DEF a, b
    <3>7. a = b
      BY <3>4, <3>5, <3>6
    <3> QED
      BY <3>7 DEF a, b
  <2> QED
    BY <1>1, <2>2
<1>17. Moving(s, g, j, mem.data, old)'
  <2>1. Before(s)'
    BY <1>1, <1>6 DEF Before
  <2>2. Steps(g, NewStore(kv'.idx), s.data, Capacity(s)) /\ kv' = g[Capacity(s)]
    BY <1>1, <1>6 DEF C
  <2>3. j \in 0..Capacity(s)
    BY <1>4, <1>7 DEF C
  <2>4. old' = SubSeq(s.data, j + 1, Capacity(s))
    BY <1>16 DEF C
  <2> QED
    BY <1>15, <2>1, <2>2, <2>3, <2>4 DEF Moving
<1> QED
  BY <1>1, <1>15, <1>17 DEF MemInv

LEMMA FreeArrayKeepsMem ==
  ASSUME MemInv, kv.idx \in 1..Len(Capacities), FreeArray
  PROVE  MemInv'
<1>1. stage = "move" /\ NextOf(old) = 0 /\ kv' = kv /\ stage' = "idle" /\ mem' = mem
  BY DEF FreeArray, NextOf
<1>2. PICK s, g, n : Moving(s, g, n, mem.data, old)
  BY <1>1 DEF MemInv
<1>3. mem.idx = kv.idx /\ mem.raw = FALSE
      /\ mem = [idx |-> mem.idx, data |-> mem.data, raw |-> mem.raw]
  BY <1>1 DEF MemInv
<1> DEFINE C == Capacity(s)
<1>4. /\ IsStore(s) /\ C \in Nat /\ n \in 0..C
      /\ old \in Seq(SlotType) /\ Len(old) = C - n
      /\ \A i \in 1..(C - n) : old[i] = s.data[n + i]
  BY <1>2, MovingFacts
<1>5. /\ Steps(g, NewStore(kv.idx), s.data, C) /\ kv = g[C] /\ mem.data = g[n].data
  BY <1>2 DEF Moving
<1> HIDE DEF C
<1>6. \A i \in 1..(C - n) : ~IsLive(old[i])
  BY <1>1, <1>4, NextLive
<1>7. g[C] = g[n]
  <2>1. ASSUME NEW i \in (n + 1)..C PROVE ~IsLive(s.data[i])
    <3>1. i - n \in 1..(C - n) /\ n + (i - n) = i
      BY <1>4
    <3> QED
      BY <1>4, <1>6, <3>1
  <2>2. C \in n..C
    BY <1>4
  <2> QED
    BY <1>4, <1>5, <2>1, <2>2, DeadMoveNothing
<1>8. mem.data = kv.data
  BY <1>5, <1>7
<1> QED
  BY <1>1, <1>3, <1>8 DEF MemInv

LEMMA MoveIndexKeepsMem ==
  ASSUME MemInv, MoveIndex
  PROVE  MemInv'
<1>1. /\ stage = "index" /\ stage' = "array" /\ kv' = kv
      /\ mem' = [mem EXCEPT !.idx = kv.idx]
  BY DEF MoveIndex
<1>2. PICK s : Before(s) /\ mem.data = s.data
  BY <1>1 DEF MemInv
<1>3. mem = [idx |-> mem.idx, data |-> mem.data, raw |-> mem.raw]
  BY DEF MemInv
<1>4. /\ mem'.idx = kv.idx /\ mem'.data = mem.data
      /\ mem' = [idx |-> mem'.idx, data |-> mem'.data, raw |-> mem'.raw]
  BY <1>1, <1>3
<1>5. Before(s)'
  BY <1>1, <1>2 DEF Before
<1> QED
  BY <1>1, <1>2, <1>4, <1>5 DEF MemInv

LEMMA NewArrayKeepsMem ==
  ASSUME MemInv, NewArray
  PROVE  MemInv'
<1>1. /\ stage = "array" /\ stage' = "clear" /\ kv' = kv /\ old' = mem.data
      /\ mem' = [mem EXCEPT !.data = [p \in 1..Capacities[mem.idx] |-> Empty],
                            !.raw = TRUE]
  BY DEF NewArray
<1>2. PICK s : Before(s) /\ mem.data = s.data
  BY <1>1 DEF MemInv
<1>3. mem = [idx |-> mem.idx, data |-> mem.data, raw |-> mem.raw] /\ mem.idx = kv.idx
  BY <1>1 DEF MemInv
<1>4. /\ mem'.idx = kv.idx
      /\ mem' = [idx |-> mem'.idx, data |-> mem'.data, raw |-> mem'.raw]
  BY <1>1, <1>3
<1>5. mem'.data = NewStore(kv.idx).data
  BY <1>1, <1>3 DEF NewStore
<1>6. Before(s)'
  BY <1>1, <1>2 DEF Before
<1> QED
  BY <1>1, <1>2, <1>4, <1>5, <1>6 DEF MemInv

LEMMA ClearArrayKeepsMem ==
  ASSUME MemInv, kv.idx \in 1..Len(Capacities), ClearArray
  PROVE  MemInv'
<1>1. /\ stage = "clear" /\ stage' = "move" /\ kv' = kv /\ old' = old
      /\ mem' = [mem EXCEPT !.raw = FALSE]
  BY DEF ClearArray
<1>2. PICK s : Before(s) /\ old = s.data
  BY <1>1 DEF MemInv
<1>3. /\ mem = [idx |-> mem.idx, data |-> mem.data, raw |-> mem.raw]
      /\ mem.idx = kv.idx /\ mem.data = NewStore(kv.idx).data
  BY <1>1 DEF MemInv
<1>4. /\ mem'.idx = kv.idx /\ mem'.data = NewStore(kv.idx).data /\ mem'.raw = FALSE
      /\ mem' = [idx |-> mem'.idx, data |-> mem'.data, raw |-> mem'.raw]
  BY <1>1, <1>3
<1>5. IsStore(s) /\ Capacity(s) \in Nat /\ s.data \in Seq(SlotType) /\ Len(s.data) = Capacity(s)
  BY <1>2, StoreFacts DEF Before, WellFormed, IsStore
<1>6. PICK g : Steps(g, NewStore(kv.idx), s.data, Capacity(s)) /\ kv = g[Capacity(s)]
  BY <1>2, <1>5, MoveAllSteps DEF Before, Rehash
<1>7. Moving(s, g, 0, mem.data, old)'
  <2>1. Before(s)'
    BY <1>1, <1>2 DEF Before
  <2>2. Steps(g, NewStore(kv'.idx), s.data, Capacity(s)) /\ kv' = g[Capacity(s)]
    BY <1>1, <1>6
  <2>3. mem'.data = g[0].data
    BY <1>4, <1>6 DEF Steps
  <2>4. old' = SubSeq(s.data, 0 + 1, Capacity(s))
    BY <1>1, <1>2, <1>5
  <2>5. 0 \in 0..Capacity(s)
    BY <1>5
  <2> QED
    BY <2>1, <2>2, <2>3, <2>4, <2>5 DEF Moving
<1> QED
  BY <1>1, <1>4, <1>7 DEF MemInv

LEMMA SInitInv ==
  ASSUME SInit
  PROVE  KInv /\ MemInv
<1>1. KInv
  BY KInitInv DEF SInit
<1>2. mem = [idx |-> kv.idx, data |-> kv.data, raw |-> FALSE] /\ stage = "idle"
  BY DEF SInit
<1>3. mem.idx = kv.idx /\ mem.data = kv.data /\ mem.raw = FALSE
  BY <1>2
<1> QED
  BY <1>1, <1>2, <1>3 DEF MemInv

LEMMA SNextInv ==
  ASSUME KInv, MemInv, [SNext]_svars
  PROVE  KInv' /\ MemInv'
<1>1. KInv'
  BY StepOfStorage, KNextInv
<1>2. kv.idx \in 1..Len(Capacities)
  BY StoreFacts DEF KInv, WellFormed
<1>3. ASSUME NEW k \in Key, OwnerDel(k) PROVE MemInv'
  BY <1>3, DelWrites, WritesKeepMem
<1>4. ASSUME NEW k \in Key, NEW v \in Value, OwnerChange(k, v) PROVE MemInv'
  <2>1. CASE FindIn(kv, k) = 0
    BY <1>4, <2>1, AddWrites, WritesKeepMem
  <2>2. CASE FindIn(kv, k) # 0
    BY <1>4, <2>2, SetWrites, WritesKeepMem
  <2> QED
    BY <2>1, <2>2
<1>5. ASSUME MoveIndex \/ NewArray \/ ClearArray \/ MoveElement \/ FreeArray
      PROVE  MemInv'
  BY <1>2, <1>5, MoveIndexKeepsMem, NewArrayKeepsMem, ClearArrayKeepsMem,
     MoveElementKeepsMem, FreeArrayKeepsMem
<1>6. ASSUME UNCHANGED <<kv, mem, old, stage>> PROVE MemInv'
  BY <1>6 DEF MemInv, Before, Moving
<1>7. ASSUME (\E k \in Wanted : BeginFind(k)) \/ ReadSlot \/ CopyEntry \/ EndFind
      PROVE  MemInv'
  BY <1>6, <1>7 DEF BeginFind, ReadSlot, CopyEntry, EndFind
<1>8. ASSUME UNCHANGED svars PROVE MemInv'
  BY <1>6, <1>8 DEF svars
<1> QED
  BY <1>1, <1>3, <1>4, <1>5, <1>7, <1>8 DEF SNext

(***************************************************************************)
(* A rehash in steps, through the index, the new array and the elements    *)
(* one by one, ends with the table the operation stands for.               *)
(***************************************************************************)
THEOREM RehashIsRebuilt == SSpec => []RehashRebuilds
<1>1. SInit => KInv /\ MemInv
  BY SInitInv
<1>2. KInv /\ MemInv /\ [SNext]_svars => KInv' /\ MemInv'
  BY SNextInv
<1>3. MemInv => RehashRebuilds
  BY DEF MemInv, RehashRebuilds
<1> QED
  BY <1>1, <1>2, <1>3, PTL DEF SSpec

-----------------------------------------------------------------------------
(* A look-up beside the owner.                                             *)

Readings == [at : {"probe", "ref", "found", "missing"}, key : Key, ctr : Nat, pos : Nat,
             sure : BOOLEAN, never : BOOLEAN]

\* The probe for k has k still before it after c rounds.
Ahead(s, k, c) ==
  \E n \in (c + 1)..Capacity(s) :
    /\ Holds(Visited(s, k, n), k)
    /\ \A m \in 1..(n - 1) : Visited(s, k, m).exists

LookupInv ==
  /\ reader \in {NoReader, [at |-> "overtaken"]} \cup Readings
  /\ IsReading => stage \in {"idle", "index"}
  /\ reader.at = "probe" =>
       /\ reader.pos = (Hash[reader.key] + reader.ctr) % Capacities[mem.idx]
       /\ reader.sure => Ahead(mem, reader.key, reader.ctr)
       /\ reader.never => ~IsIn(reader.key, mem)
  /\ reader.at \in {"ref", "found"} => ~reader.never
  /\ reader.at = "missing" => ~reader.sure

LEMMA AheadIsKept ==
  ASSUME NEW s, NEW t, IsStore(s), IsStore(t), t.idx = s.idx, NEW q \in 1..Capacity(s),
         \A r \in 1..Capacity(s) : r # q => t.data[r] = s.data[r],
         t.data[q].exists, NEW k \in Key, Holds(s.data[q], k) => Holds(t.data[q], k),
         NEW c \in Nat, Ahead(s, k, c)
  PROVE  Ahead(t, k, c)
<1>1. Capacity(t) = Capacity(s) /\ Capacity(s) \in Nat
  BY StoreFacts DEF Capacity
<1>2. PICK n \in (c + 1)..Capacity(s) :
        /\ Holds(Visited(s, k, n), k)
        /\ \A m \in 1..(n - 1) : Visited(s, k, m).exists
  BY DEF Ahead
<1>3. ASSUME NEW m \in Nat \ {0}
      PROVE  /\ Visited(s, k, m).exists => Visited(t, k, m).exists
             /\ Holds(Visited(s, k, m), k) => Holds(Visited(t, k, m), k)
  <2>1. Probe(s, k, m) \in 1..Capacity(s)
    BY ProbeIsASlot
  <2>2. Probe(t, k, m) = Probe(s, k, m)
    BY <1>1 DEF Probe
  <2> QED
    BY <2>1, <2>2 DEF Visited
<1>4. n \in Nat \ {0} /\ \A m \in 1..(n - 1) : m \in Nat \ {0}
  BY <1>2
<1>5. Holds(Visited(t, k, n), k) /\ \A m \in 1..(n - 1) : Visited(t, k, m).exists
  BY <1>2, <1>3, <1>4
<1> QED
  BY <1>1, <1>2, <1>5 DEF Ahead

LEMMA IsInHas ==
  ASSUME NEW s, NEW k
  PROVE  IsIn(k, s) <=> \E w : Has(s, k, w)
BY DEF IsIn, Has, Holds, LiveSlots

\* A look-up goes on over the slot an operation writes.
LEMMA WatchKeeps ==
  ASSUME LookupInv, KInv, MemInv, stage = "idle", NEW s, Writes(s), Watch,
         \A k \in Key, c \in Nat : Ahead(kv, k, c) /\ IsIn(k, kv') => Ahead(s, k, c)
  PROVE  LookupInv'
<1>1. /\ mem'.idx = s.idx /\ mem'.data = s.data /\ s.idx = kv.idx
      /\ mem.idx = kv.idx /\ mem.data = kv.data /\ stage' \in {"idle", "index"}
  BY DEF Writes, MemInv
<1>2. \A k \in Key : IsIn(k, s) <=> IsIn(k, kv')
  BY IsInHas DEF Writes, SameEntries
<1>3. CASE ~IsReading
  <2>1. reader' = reader
    BY <1>3 DEF Watch
  <2> QED
    BY <1>3, <2>1 DEF LookupInv, IsReading
<1>4. CASE IsReading
  <2> DEFINE k == reader.key
             c == reader.ctr
  <2>1. reader \in Readings /\ k \in Key /\ c \in Nat
    BY <1>4 DEF LookupInv, IsReading, NoReader, Readings
  <2>2. reader' = [reader EXCEPT !.sure = reader.sure /\ IsIn(k, kv'),
                                 !.never = reader.never /\ ~IsIn(k, kv')]
    BY <1>4 DEF Watch
  <2>3. /\ reader'.at = reader.at /\ reader'.key = k /\ reader'.ctr = c
        /\ reader'.pos = reader.pos
        /\ reader'.sure = (reader.sure /\ IsIn(k, kv'))
        /\ reader'.never = (reader.never /\ ~IsIn(k, kv'))
        /\ reader' \in Readings
    BY <2>1, <2>2 DEF Readings, IsIn
  <2>4. reader.at = "probe" /\ reader'.sure => Ahead(mem', k, c)
    <3>1. SUFFICES ASSUME reader.at = "probe", reader'.sure PROVE Ahead(mem', k, c)
      OBVIOUS
    <3>2. Ahead(mem, k, c)
      BY <2>3, <3>1 DEF LookupInv
    <3>3. Ahead(kv, k, c)
      BY <1>1, <3>2 DEF Ahead, Capacity, Visited, Probe
    <3>4. Ahead(s, k, c)
      BY <2>1, <2>3, <3>1, <3>3
    <3> QED
      BY <1>1, <3>4 DEF Ahead, Capacity, Visited, Probe
  <2>5. reader'.never => ~IsIn(k, mem')
    BY <1>1, <1>2, <2>1, <2>3 DEF IsIn
  <2>6. reader.at \in {"ref", "found"} => ~reader'.never
    BY <2>3 DEF LookupInv
  <2>7. reader.at # "missing"
    BY <1>4 DEF IsReading
  <2>8. reader.at = "probe" =>
          reader.pos = (Hash[k] + c) % Capacities[mem'.idx]
    BY <1>1 DEF LookupInv
  <2> HIDE DEF k, c
  <2> QED
    BY <1>1, <2>3, <2>4, <2>5, <2>6, <2>7, <2>8 DEF LookupInv
<1> QED
  BY <1>3, <1>4

LEMMA OwnerKeepsLookup ==
  ASSUME LookupInv, KInv, MemInv, NEW k \in Key,
         OwnerDel(k) \/ \E v \in Value : OwnerChange(k, v)
  PROVE  LookupInv'
<1>1. WellFormed(kv) /\ IsStore(kv) /\ NoDup(kv)
      /\ DOMAIN kv.data = 1..Capacity(kv)
      /\ \A q \in 1..Capacity(kv) : kv.data[q] \in SlotType
  BY StoreFacts DEF KInv, WellFormed
<1>2. CASE OwnerDel(k)
  <2> DEFINE s == Mark(kv, k)
             q == FindIn(kv, k)
  <2>1. Writes(s) /\ stage = "idle" /\ Watch
    BY <1>2, DelWrites DEF OwnerDel, WriteSlot
  <2>2. IsStore(s)
    BY <2>1 DEF Writes, WellFormed
  <2>3. ASSUME NEW x \in Key, NEW c \in Nat, Ahead(kv, x, c), IsIn(x, kv')
        PROVE  Ahead(s, x, c)
    <3>1. CASE q = 0
      BY <2>3, <3>1 DEF Mark
    <3>2. CASE q # 0
      <4>1. /\ s.idx = kv.idx /\ q \in LiveSlots(kv) /\ s.data[q].exists
            /\ \A r \in 1..Capacity(kv) : r # q => s.data[r] = kv.data[r]
        BY <1>1, <3>2, MarkKeeps
      <4>2. q \in 1..Capacity(kv) /\ kv.data[q].key = k
        BY <1>1, <3>2, <4>1, FindAnswers DEF LiveSlots
      <4>3. x # k
        <5>1. \A y, w : Has(kv', y, w) => y # k
          BY <1>2, DelStep DEF OwnerDel
        <5> QED
          BY <2>3, <5>1, IsInHas
      <4> HIDE DEF s, q
      <4>4. ~Holds(kv.data[q], x)
        BY <4>2, <4>3 DEF Holds
      <4> QED
        BY <1>1, <2>2, <2>3, <4>1, <4>2, <4>4, AheadIsKept
    <3> QED
      BY <3>1, <3>2
  <2> HIDE DEF s
  <2> QED
    BY <2>1, <2>3, WatchKeeps
<1>3. ASSUME NEW v \in Value, OwnerChange(k, v) PROVE LookupInv'
  <2>1. CASE FindIn(kv, k) = 0
    <3> DEFINE s == Place(kv, k, v)
               q == PlaceFor(kv, k)
    <3>1. Writes(s) /\ Absent(kv, k) /\ q # 0
      BY <1>3, <2>1, AddWrites
    <3>2. stage = "idle" /\ Watch
      BY <1>3 DEF OwnerChange, WriteSlot
    <3>3. /\ q \in 1..Capacity(kv) /\ q \notin LiveSlots(kv)
          /\ s.idx = kv.idx /\ s.data[q] = Element(k, v)
          /\ \A r \in 1..Capacity(kv) : r # q => s.data[r] = kv.data[r]
      BY <1>1, <3>1, PlaceKeeps
    <3>4. s.data[q].exists
      BY <3>3, ElementFacts
    <3>5. IsStore(s)
      BY <3>1 DEF Writes, WellFormed
    <3> HIDE DEF s, q
    <3>6. \A x : ~Holds(kv.data[q], x)
      BY <1>1, <3>3 DEF Holds, LiveSlots
    <3>7. ASSUME NEW x \in Key, NEW c \in Nat, Ahead(kv, x, c) PROVE Ahead(s, x, c)
      BY <1>1, <3>3, <3>4, <3>5, <3>6, <3>7, AheadIsKept
    <3> QED
      BY <3>1, <3>2, <3>7, WatchKeeps
  <2>2. CASE FindIn(kv, k) # 0
    <3> DEFINE q == FindIn(kv, k)
               s == SetValue(kv, q, v)
    <3>1. Writes(s)
      BY <1>3, <2>2, SetWrites
    <3>2. stage = "idle" /\ Watch
      BY <1>3 DEF OwnerChange, WriteSlot
    <3>3. q \in LiveSlots(kv) /\ q \in 1..Capacity(kv)
      BY <1>1, <2>2, FindAnswers DEF LiveSlots
    <3> HIDE DEF q
    <3>4. /\ s.idx = kv.idx /\ LiveSlots(s) = LiveSlots(kv)
          /\ s.data[q].key = kv.data[q].key
          /\ \A r \in 1..Capacity(kv) : r # q => s.data[r] = kv.data[r]
      BY <1>1, <3>3, ChangeKeeps
    <3>5. IsStore(s)
      BY <3>1 DEF Writes, WellFormed
    <3> HIDE DEF s
    <3>6. IsLive(s.data[q])
      BY <3>3, <3>4 DEF LiveSlots
    <3>7. s.data[q].exists /\ \A x : Holds(kv.data[q], x) => Holds(s.data[q], x)
      BY <3>4, <3>6 DEF Holds, IsLive
    <3>8. ASSUME NEW x \in Key, NEW c \in Nat, Ahead(kv, x, c) PROVE Ahead(s, x, c)
      BY <1>1, <3>3, <3>4, <3>5, <3>7, <3>8, AheadIsKept
    <3> QED
      BY <3>1, <3>2, <3>8, WatchKeeps
  <2> QED
    BY <2>1, <2>2
<1> QED
  BY <1>2, <1>3

\* Whatever overtakes a look-up ends it.
LEMMA OvertakeKeeps ==
  ASSUME LookupInv, Overtake
  PROVE  LookupInv'
<1>1. CASE IsReading
  <2>1. reader' = [at |-> "overtaken"]
    BY <1>1 DEF Overtake
  <2> QED
    BY <2>1 DEF LookupInv, IsReading
<1>2. CASE ~IsReading
  <2>1. reader' = reader
    BY <1>2 DEF Overtake
  <2> QED
    BY <1>2, <2>1 DEF LookupInv, IsReading
<1> QED
  BY <1>1, <1>2

\* The table a look-up reads, while it is not overtaken.
LEMMA MemIsAStore ==
  ASSUME KInv, MemInv, stage \in {"idle", "index"}
  PROVE  \E s : WellFormed(s) /\ mem.idx = s.idx /\ mem.data = s.data
BY DEF KInv, MemInv, Before

LEMMA BeginKeepsLookup ==
  ASSUME LookupInv, KInv, MemInv, NEW k \in Wanted, BeginFind(k)
  PROVE  LookupInv'
<1>1. k \in Key /\ Hash[k] \in Nat
  BY WantedAssumption, StorageAssumption
<1>2. CASE stage \in {"idle", "index"}
  <2>1. PICK s : WellFormed(s) /\ mem.idx = s.idx /\ mem.data = s.data
    BY <1>2, MemIsAStore
  <2>2. IsStore(s) /\ Reached(s) /\ Capacity(s) \in Nat \ {0} /\ Capacity(s) = Capacities[mem.idx]
        /\ DOMAIN s.data = 1..Capacity(s)
    BY <2>1, StoreFacts DEF WellFormed, Capacity
  <2> DEFINE r == [at |-> "probe", key |-> k, ctr |-> 0,
                   pos |-> Hash[k] % Capacities[mem.idx],
                   sure |-> IsIn(k, mem), never |-> ~IsIn(k, mem)]
  <2>3. reader' = r /\ stage' = stage /\ mem' = mem
    BY <1>2 DEF BeginFind
  <2>4. Hash[k] % Capacities[mem.idx] \in Nat
    <3> DEFINE C == Capacities[mem.idx]
               h == Hash[k]
    <3>1. C \in Nat \ {0} /\ h \in Int
      BY <1>1, <2>2
    <3> HIDE DEF C, h
    <3>2. h % C \in 0..(C - 1)
      BY <3>1, DivisionLeaves
    <3> QED
      BY <3>1, <3>2 DEF C, h
  <2>5. IsIn(k, mem) \in BOOLEAN
    BY DEF IsIn
  <2>6. r \in Readings
    BY <1>1, <2>4, <2>5 DEF Readings
  <2>7. ASSUME IsIn(k, mem) PROVE Ahead(mem, k, 0)
    <3>1. PICK p \in DOMAIN s.data : Holds(s.data[p], k)
      BY <2>1, <2>7 DEF IsIn
    <3>2. p \in LiveSlots(s) /\ s.data[p].key = k
      BY <3>1 DEF Holds, LiveSlots
    <3>3. PICK n \in 1..Capacity(s) :
            /\ Probe(s, k, n) = p
            /\ \A m \in 1..(n - 1) : Visited(s, k, m).exists
      BY <2>2, <3>2 DEF Reached
    <3>4. Ahead(s, k, 0)
      BY <2>2, <3>1, <3>3 DEF Ahead, Visited
    <3> QED
      BY <2>1, <3>4 DEF Ahead, Visited, Probe, Capacity
  <2>8. reader'.at = "probe" /\ reader'.key = k /\ reader'.ctr = 0
        /\ reader'.pos = Hash[k] % Capacities[mem'.idx]
        /\ reader'.sure = IsIn(k, mem') /\ reader'.never = ~IsIn(k, mem')
    BY <2>3
  <2>9. Hash[k] + 0 = Hash[k]
    BY <1>1
  <2> HIDE DEF r
  <2> QED
    BY <1>2, <2>3, <2>6, <2>7, <2>8, <2>9 DEF LookupInv
<1>3. CASE stage \notin {"idle", "index"}
  <2>1. reader' = [at |-> "overtaken"]
    BY <1>3 DEF BeginFind
  <2> QED
    BY <2>1 DEF LookupInv, IsReading
<1> QED
  BY <1>2, <1>3

LEMMA ReadKeepsLookup ==
  ASSUME LookupInv, KInv, MemInv, ReadSlot
  PROVE  LookupInv'
<1> DEFINE k == reader.key
           c == reader.ctr
           C == Capacities[mem.idx]
<1>1. reader.at = "probe" /\ UNCHANGED <<kv, mem, old, stage>> /\ IsReading
  BY DEF ReadSlot, IsReading
<1>2. reader \in Readings /\ k \in Key /\ c \in Nat /\ stage \in {"idle", "index"}
      /\ reader.pos \in Nat
  BY <1>1 DEF LookupInv, NoReader, Readings
<1>3. PICK s : WellFormed(s) /\ mem.idx = s.idx /\ mem.data = s.data
  BY <1>2, MemIsAStore
<1>4. IsStore(s) /\ C \in Nat \ {0} /\ Capacity(s) = C /\ DOMAIN s.data = 1..C
      /\ Hash[k] \in Nat
  BY <1>2, <1>3, StoreFacts, StorageAssumption DEF WellFormed, Capacity
<1>5. reader.pos = (Hash[k] + c) % C
  BY <1>1 DEF LookupInv
<1> DEFINE n == c + 1
<1>6. Probe(s, k, n) = reader.pos + 1
  <2>1. Hash[k] + (c + 1) - 1 = Hash[k] + c
    BY <1>2, <1>4
  <2> QED
    BY <1>4, <1>5, <2>1 DEF Probe
<1>7. Slot = Visited(s, k, n) /\ Probe(s, k, n) \in 1..C /\ Slot \in SlotType
  BY <1>2, <1>3, <1>4, <1>6, ProbeIsASlot DEF Slot, Visited
<1>8. reader.sure => Ahead(s, k, c)
  BY <1>1, <1>3 DEF LookupInv, Ahead, Visited, Probe, Capacity
<1>9. reader.never => ~IsIn(k, s)
  BY <1>1, <1>3 DEF LookupInv, IsIn
<1> HIDE DEF k, C, c, n
<1>10. CASE c > C \/ ~Slot.exists
  <2>1. reader' = [reader EXCEPT !.at = "missing"]
    BY <1>10 DEF ReadSlot, c, C
  <2>2. reader' \in Readings /\ reader'.at = "missing" /\ reader'.sure = reader.sure
    BY <1>2, <2>1 DEF Readings
  <2>3. ASSUME reader.sure PROVE FALSE
    <3>1. PICK l \in (c + 1)..C :
            /\ Holds(Visited(s, k, l), k)
            /\ \A m \in 1..(l - 1) : Visited(s, k, m).exists
      BY <1>4, <1>8, <2>3 DEF Ahead
    <3>2. ~(c > C)
      BY <1>2, <1>4, <3>1
    <3>3. Visited(s, k, n).exists
      <4>1. CASE l = n
        BY <3>1, <4>1 DEF Holds, IsLive
      <4>2. CASE l # n
        <5>1. n \in 1..(l - 1)
          BY <1>2, <1>4, <3>1, <4>2 DEF n
        <5> QED
          BY <3>1, <5>1
      <4> QED
        BY <4>1, <4>2
    <3> QED
      BY <1>7, <1>10, <3>2, <3>3
  <2> QED
    BY <2>2, <2>3 DEF LookupInv, IsReading
<1>11. CASE /\ ~(c > C \/ ~Slot.exists)
            /\ ~Slot.deleted /\ Slot.key = reader.key
  <2>1. reader' = [reader EXCEPT !.at = "ref"]
    BY <1>11 DEF ReadSlot, c, C
  <2>2. reader' \in Readings /\ reader'.at = "ref" /\ reader'.never = reader.never
    BY <1>2, <2>1 DEF Readings
  <2>3. IsIn(k, s)
    BY <1>4, <1>7, <1>11 DEF IsIn, Holds, IsLive, Visited, k
  <2> QED
    BY <1>1, <1>2, <1>9, <2>2, <2>3 DEF LookupInv, IsReading
<1>12. CASE /\ ~(c > C \/ ~Slot.exists)
            /\ ~(~Slot.deleted /\ Slot.key = reader.key)
  <2>1. reader' = [reader EXCEPT !.pos = NextPos(reader.pos), !.ctr = c + 1]
    BY <1>12 DEF ReadSlot, c, C
  <2>2. NextPos(reader.pos) = (Hash[k] + (c + 1)) % C /\ NextPos(reader.pos) \in Nat
    <3>1. (((Hash[k] + c) % C) + 1) % C = ((Hash[k] + c) + 1) % C
      <4>1. Hash[k] + c \in Int /\ C \in Nat \ {0}
        BY <1>2, <1>4
      <4> QED
        BY <4>1, ModTerm
    <3>2. (Hash[k] + c) + 1 = Hash[k] + (c + 1)
      BY <1>2, <1>4
    <3>3. NextPos(reader.pos) = (reader.pos + 1) % C
      BY DEF NextPos, C
    <3>4. (reader.pos + 1) % C \in Nat
      <4>1. reader.pos + 1 \in Int /\ C \in Nat \ {0}
        BY <1>2, <1>4
      <4> QED
        BY <4>1, DivisionLeaves
    <3> QED
      BY <1>5, <3>1, <3>2, <3>3, <3>4
  <2>3. /\ reader' \in Readings /\ reader'.at = "probe" /\ reader'.key = k
        /\ reader'.ctr = c + 1 /\ reader'.pos = NextPos(reader.pos)
        /\ reader'.sure = reader.sure /\ reader'.never = reader.never
    <3> DEFINE np == NextPos(reader.pos)
               nc == c + 1
    <3>1. np \in Nat /\ nc \in Nat
      BY <1>2, <2>2
    <3> HIDE DEF np, nc
    <3>2. reader' = [reader EXCEPT !.pos = np, !.ctr = nc]
      BY <2>1 DEF np, nc
    <3>3. /\ reader' \in Readings /\ reader'.at = reader.at /\ reader'.key = reader.key
          /\ reader'.ctr = nc /\ reader'.pos = np
          /\ reader'.sure = reader.sure /\ reader'.never = reader.never
      BY <1>2, <3>1, <3>2 DEF Readings
    <3> QED
      BY <1>1, <3>3 DEF np, nc, k
  <2>4. ASSUME reader.sure PROVE Ahead(s, k, c + 1)
    <3>1. PICK l \in (c + 1)..C :
            /\ Holds(Visited(s, k, l), k)
            /\ \A m \in 1..(l - 1) : Visited(s, k, m).exists
      BY <1>4, <1>8, <2>4 DEF Ahead
    <3>2. l # n
      BY <1>7, <1>12, <3>1 DEF Holds, IsLive, k
    <3>3. l \in ((c + 1) + 1)..C
      BY <1>2, <1>4, <3>1, <3>2 DEF n
    <3> QED
      BY <1>4, <3>1, <3>3 DEF Ahead
  <2>5. reader.sure => Ahead(mem', k, c + 1)
    BY <1>1, <1>3, <2>4 DEF Ahead, Visited, Probe, Capacity
  <2>6. reader.never => ~IsIn(k, mem')
    BY <1>1, <1>3, <1>9 DEF IsIn
  <2>7. reader'.pos = (Hash[k] + (c + 1)) % Capacities[mem'.idx]
    BY <1>1, <2>2, <2>3 DEF C
  <2> QED
    BY <1>1, <1>2, <2>3, <2>5, <2>6, <2>7 DEF LookupInv
<1> QED
  BY <1>10, <1>11, <1>12

LEMMA LookupNextInv ==
  ASSUME LookupInv, KInv, MemInv, [SNext]_svars
  PROVE  LookupInv'
<1>1. CASE \E k \in Key : OwnerDel(k) \/ \E v \in Value : OwnerChange(k, v)
  BY <1>1, OwnerKeepsLookup
<1>2. CASE MoveIndex \/ NewArray \/ ClearArray \/ MoveElement \/ FreeArray
  <2>1. Overtake
    BY <1>2 DEF MoveIndex, NewArray, ClearArray, MoveElement, FreeArray
  <2> QED
    BY <2>1, OvertakeKeeps
<1>3. CASE \E k \in Wanted : BeginFind(k)
  BY <1>3, BeginKeepsLookup
<1>4. CASE ReadSlot
  BY <1>4, ReadKeepsLookup
<1>5. CASE CopyEntry
  <2>1. reader.at = "ref" /\ reader' = [reader EXCEPT !.at = "found"]
    BY <1>5 DEF CopyEntry
  <2>2. reader \in Readings /\ ~reader.never
    BY <2>1 DEF LookupInv, NoReader
  <2>3. reader' \in Readings /\ reader'.at = "found" /\ reader'.never = reader.never
    BY <2>1, <2>2 DEF Readings
  <2> QED
    BY <2>2, <2>3 DEF LookupInv, IsReading
<1>6. CASE EndFind
  <2>1. reader' = [at |-> "idle"]
    BY <1>6 DEF EndFind, NoReader
  <2> QED
    BY <2>1 DEF LookupInv, IsReading, NoReader
<1>7. CASE UNCHANGED svars
  BY <1>7 DEF svars, LookupInv, IsReading, Ahead, IsIn
<1> QED
  BY <1>1, <1>2, <1>3, <1>4, <1>5, <1>6, <1>7 DEF SNext

(***************************************************************************)
(* A look-up beside additions, changes and deletions of the owner finds a  *)
(* name that is there all the time and does not find one that never is; a  *)
(* rehash alone can lead it astray (scope.cpp:98, kvstorage.h:195).        *)
(***************************************************************************)
THEOREM LookupsAreRight == SSpec => []LookupIsRight
<1>1. SInit => KInv /\ MemInv /\ LookupInv
  <2> SUFFICES ASSUME SInit PROVE KInv /\ MemInv /\ LookupInv
    OBVIOUS
  <2>1. reader = [at |-> "idle"]
    BY DEF SInit, NoReader
  <2>2. LookupInv
    BY <2>1 DEF LookupInv, IsReading, NoReader
  <2> QED
    BY <2>2, SInitInv
<1>2. KInv /\ MemInv /\ LookupInv /\ [SNext]_svars => KInv' /\ MemInv' /\ LookupInv'
  BY SNextInv, LookupNextInv
<1>3. LookupInv => LookupIsRight
  BY DEF LookupInv, LookupIsRight
<1> QED
  BY <1>1, <1>2, <1>3, PTL DEF SSpec

(***************************************************************************)
(* What is proved of the table holds of it with a reader beside it: its    *)
(* entries are found, its counters count, there is room, and it is a map.  *)
(***************************************************************************)
THEOREM SharedScopeIsAMap ==
  SSpec => [](KTypeOK /\ LiveIsFound /\ CountersAreRight /\ RoomLeft) /\ IsAMap
BY ReadersChangeNothing, StoreIsTyped, EntriesAreFound, CountersCount, ThereIsRoom,
   ScopeIsAMap, PTL
=============================================================================
