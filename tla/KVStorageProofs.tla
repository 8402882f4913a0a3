--------------------------- MODULE KVStorageProofs ---------------------------
(***************************************************************************)
(* Theorems about KVStorage, for every hash function, every set of names   *)
(* and every list of capacities.  A store is well formed when the probe    *)
(* for the key of each live slot comes to the slot over slots in use, no   *)
(* key is there twice, and the two counters count; every method keeps      *)
(* that.  From it, and from the room that is left after each operation,    *)
(* follows what the operations do to the entries.                          *)
(***************************************************************************)
EXTENDS KVStorage, NumberLemmas, FiniteSetTheorems

-----------------------------------------------------------------------------
(* Slots, stores and probes.                                               *)

\* What a slot can be.
LEMMA SlotFacts ==
  ASSUME NEW x \in SlotType
  PROVE  /\ x.exists \in BOOLEAN
         /\ IsLive(x) => x.key \in Key /\ x.value \in Value
         /\ IsLive(x) => x.exists /\ ~IsFree(x)
         /\ x.exists => x.deleted \in BOOLEAN
         /\ ~IsLive(x) <=> IsFree(x)
<1>1. CASE x = Empty
  BY <1>1 DEF Empty, IsLive, IsFree
<1>2. CASE x \in [exists : {TRUE}, deleted : BOOLEAN, key : Key, value : Value]
  <2>1. x.exists = TRUE /\ x.deleted \in BOOLEAN /\ x.key \in Key /\ x.value \in Value
    BY <1>2
  <2> QED
    BY <2>1 DEF IsLive, IsFree
<1> QED
  BY <1>1, <1>2 DEF SlotType

LEMMA ElementFacts ==
  ASSUME NEW k \in Key, NEW v \in Value
  PROVE  /\ Element(k, v) \in SlotType
         /\ IsLive(Element(k, v)) /\ Element(k, v).exists
         /\ Element(k, v).key = k /\ Element(k, v).value = v
BY DEF Element, SlotType, IsLive

LEMMA EmptyFacts ==
  Empty \in SlotType /\ ~IsLive(Empty) /\ ~Empty.exists
BY DEF Empty, SlotType, IsLive

LEMMA StoreFacts ==
  ASSUME NEW s, IsStore(s)
  PROVE  /\ Capacity(s) \in Nat \ {0}
         /\ DOMAIN s.data = 1..Capacity(s)
         /\ \A p \in 1..Capacity(s) : s.data[p] \in SlotType
         /\ s.idx \in 1..Len(Capacities)
         /\ s.size \in Nat /\ s.dead \in Nat
         /\ s.data \in [1..Capacity(s) -> SlotType]
<1>1. s.idx \in 1..Len(Capacities) /\ s.data \in Seq(SlotType)
      /\ s.size \in Nat /\ s.dead \in Nat /\ Len(s.data) = Capacity(s)
  BY DEF IsStore
<1>2. Capacity(s) \in Nat \ {0}
  BY <1>1, StorageAssumption DEF Capacity
<1> QED
  BY <1>1, <1>2

LEMMA ProbeIsASlot ==
  ASSUME NEW s, IsStore(s), NEW k \in Key, NEW n \in Nat \ {0}
  PROVE  /\ Probe(s, k, n) \in 1..Capacity(s)
         /\ Visited(s, k, n) \in SlotType
<1> DEFINE C == Capacity(s)
           h == Hash[k]
<1>1. C \in Nat \ {0} /\ h \in Nat
  BY StoreFacts, StorageAssumption
<1> HIDE DEF C, h
<1>2. (h + n - 1) % C \in 0..(C - 1)
  BY <1>1, DivisionLeaves
<1>3. Probe(s, k, n) = ((h + n - 1) % C) + 1
  BY DEF Probe, C, h
<1>4. Probe(s, k, n) \in 1..C
  BY <1>1, <1>2, <1>3
<1> QED
  BY <1>4, StoreFacts DEF C, Visited

\* The probe goes around the whole table.
LEMMA ProbeReaches ==
  ASSUME NEW s, IsStore(s), NEW k \in Key, NEW p \in 1..Capacity(s)
  PROVE  \E n \in 1..Capacity(s) : Probe(s, k, n) = p
<1> DEFINE C == Capacity(s)
           h == Hash[k]
           d == (p - 1 - h) % C
<1>1. C \in Nat \ {0} /\ h \in Nat
  BY StoreFacts, StorageAssumption
<1>2. p \in 1..C
  OBVIOUS
<1> HIDE DEF C, h
<1>3. d \in 0..(C - 1)
  BY <1>1, <1>2, DivisionLeaves
<1>4. (d + h) % C = ((p - 1 - h) + h) % C
  <2>1. p - 1 - h \in Int /\ h \in Int
    BY <1>1, <1>2
  <2> QED
    BY <1>1, <2>1, ModTerm
<1>5. (p - 1 - h) + h = p - 1
  BY <1>1, <1>2
<1>6. (p - 1) % C = p - 1
  <2>1. C * 0 + (p - 1) = p - 1
    BY <1>1, <1>2
  <2>2. p - 1 \in 0..(C - 1)
    BY <1>1, <1>2
  <2> QED
    BY <1>1, <2>1, <2>2, ModUnique
<1>7. d + 1 \in 1..C
  BY <1>1, <1>3
<1> HIDE DEF d
<1>8. h + (d + 1) - 1 = d + h
  BY <1>1, <1>3
<1>9. Probe(s, k, d + 1) = ((h + (d + 1) - 1) % C) + 1
  BY DEF Probe, C, h
<1>10. Probe(s, k, d + 1) = p
  BY <1>2, <1>4, <1>5, <1>6, <1>8, <1>9
<1> QED
  BY <1>7, <1>10 DEF C

-----------------------------------------------------------------------------
(* __find.                                                                 *)

\* The probe for the key of a live slot comes to the slot, over slots in use.
Reached(s) ==
  \A p \in LiveSlots(s) : \E n \in 1..Capacity(s) :
    /\ Probe(s, s.data[p].key, n) = p
    /\ \A m \in 1..(n - 1) : /\ Probe(s, s.data[p].key, m) # p
                             /\ Visited(s, s.data[p].key, m).exists

\* No key is in the table twice.
NoDup(s) == \A p, q \in LiveSlots(s) : s.data[p].key = s.data[q].key => p = q

Absent(s, k) == \A p \in LiveSlots(s) : s.data[p].key # k

LEMMA FindFinds ==
  ASSUME NEW s, IsStore(s), Reached(s), NoDup(s), NEW p \in LiveSlots(s)
  PROVE  FindIn(s, s.data[p].key) = p
<1> DEFINE k == s.data[p].key
<1>1. k \in Key /\ p \in 1..Capacity(s)
  BY StoreFacts, SlotFacts DEF LiveSlots
<1>2. PICK n \in 1..Capacity(s) :
        /\ Probe(s, k, n) = p
        /\ \A m \in 1..(n - 1) : Probe(s, k, m) # p /\ Visited(s, k, m).exists
  BY DEF Reached
<1> HIDE DEF k
<1>3. FindEnds(s, k, n)
  <2>1. Holds(Visited(s, k, n), k)
    BY <1>2 DEF Holds, Visited, LiveSlots, k
  <2>2. ASSUME NEW m \in 1..(n - 1) PROVE ~Holds(Visited(s, k, m), k)
    <3>1. Probe(s, k, m) \in 1..Capacity(s) /\ Probe(s, k, m) # p
      BY <1>1, <1>2, ProbeIsASlot, StoreFacts
    <3> QED
      BY <3>1, StoreFacts DEF Holds, Visited, NoDup, LiveSlots, k
  <2> QED
    BY <1>2, <2>1, <2>2 DEF FindEnds
<1>4. ASSUME NEW x \in 1..Capacity(s), FindEnds(s, k, x) PROVE x = n
  <2>0. Capacity(s) \in Nat
    BY StoreFacts
  <2>1. ~(x < n)
    BY <1>2, <1>3, <1>4, <2>0 DEF FindEnds
  <2>2. ~(n < x)
    BY <1>2, <1>3, <1>4, <2>0 DEF FindEnds
  <2> QED
    BY <2>0, <2>1, <2>2
<1>5. (CHOOSE x \in 1..Capacity(s) : FindEnds(s, k, x)) = n
  BY <1>3, <1>4
<1> QED
  BY <1>2, <1>3, <1>5 DEF FindIn, k

\* What __find says of any key.
LEMMA FindAnswers ==
  ASSUME NEW s, IsStore(s), NEW k \in Key
  PROVE  /\ FindIn(s, k) \in {0} \cup LiveSlots(s)
         /\ FindIn(s, k) # 0 => s.data[FindIn(s, k)].key = k
<1>1. CASE \E n \in 1..Capacity(s) : FindEnds(s, k, n)
  <2> DEFINE n == CHOOSE x \in 1..Capacity(s) : FindEnds(s, k, x)
  <2>1. n \in 1..Capacity(s) /\ FindEnds(s, k, n)
    BY <1>1
  <2>2. FindIn(s, k) = Probe(s, k, n)
    BY <1>1 DEF FindIn
  <2> HIDE DEF n
  <2>3. Probe(s, k, n) \in 1..Capacity(s)
    BY <2>1, ProbeIsASlot, StoreFacts
  <2> QED
    BY <2>1, <2>2, <2>3, StoreFacts DEF FindEnds, Holds, Visited, LiveSlots
<1>2. CASE ~ \E n \in 1..Capacity(s) : FindEnds(s, k, n)
  BY <1>2 DEF FindIn
<1> QED
  BY <1>1, <1>2

LEMMA MissedIsAbsent ==
  ASSUME NEW s, IsStore(s), Reached(s), NoDup(s), NEW k \in Key, FindIn(s, k) = 0
  PROVE  Absent(s, k)
<1>1. ASSUME NEW p \in LiveSlots(s), s.data[p].key = k PROVE FALSE
  <2>1. FindIn(s, k) = p /\ p \in 1..Capacity(s)
    BY <1>1, FindFinds, StoreFacts DEF LiveSlots
  <2> QED
    BY <2>1
<1> QED
  BY <1>1 DEF Absent

-----------------------------------------------------------------------------
(* Writing one slot.                                                       *)

Counted(s) ==
  /\ s.size = Cardinality(LiveSlots(s))
  /\ s.dead = Cardinality(DeadSlots(s))

WellFormed(s) == IsStore(s) /\ Reached(s) /\ NoDup(s) /\ Counted(s)

Written(s, p, x, size, dead) ==
  [idx |-> s.idx, data |-> [s.data EXCEPT ![p] = x], size |-> size, dead |-> dead]

LEMMA WrittenFacts ==
  ASSUME NEW s, IsStore(s), NEW p \in 1..Capacity(s), NEW x \in SlotType,
         NEW size \in Nat, NEW dead \in Nat
  PROVE  LET t == Written(s, p, x, size, dead)
         IN  /\ IsStore(t)
             /\ Capacity(t) = Capacity(s) /\ t.size = size /\ t.dead = dead
             /\ t.data = [s.data EXCEPT ![p] = x]
<1> DEFINE t == Written(s, p, x, size, dead)
<1>1. t.idx = s.idx /\ t.data = [s.data EXCEPT ![p] = x] /\ t.size = size /\ t.dead = dead
  BY DEF Written
<1>2. Capacity(t) = Capacity(s)
  BY <1>1 DEF Capacity
<1>3. s.data \in Seq(SlotType) /\ s.idx \in 1..Len(Capacities)
      /\ Len(s.data) = Capacity(s)
  BY DEF IsStore
<1>4. t.data \in Seq(SlotType) /\ Len(t.data) = Len(s.data)
  BY <1>1, <1>3
<1>5. t \in [idx : 1..Len(Capacities), data : Seq(SlotType), size : Nat, dead : Nat]
  BY <1>1, <1>3, <1>4 DEF Written
<1>6. IsStore(t)
  BY <1>2, <1>3, <1>4, <1>5 DEF IsStore
<1> QED
  BY <1>1, <1>2, <1>6

\* A write that leaves the slot in use breaks no path, if it puts a new key
\* only where the probe for the key comes over slots in use.
LEMMA WrittenIsReached ==
  ASSUME NEW s, IsStore(s), Reached(s),
         NEW p \in 1..Capacity(s), NEW x \in SlotType, x.exists,
         NEW size \in Nat, NEW dead \in Nat,
         NEW t, t = Written(s, p, x, size, dead),
         \/ ~IsLive(x)
         \/ p \in LiveSlots(s) /\ x.key = s.data[p].key
         \/ \E n \in 1..Capacity(s) :
              /\ Probe(s, x.key, n) = p
              /\ \A m \in 1..(n - 1) : Probe(s, x.key, m) # p /\ Visited(s, x.key, m).exists
  PROVE  Reached(t)
<1>1. /\ IsStore(t) /\ Capacity(t) = Capacity(s)
      /\ \A k, n : Probe(t, k, n) = Probe(s, k, n)
      /\ t.data[p] = x
      /\ \A q \in 1..Capacity(s) : q # p => t.data[q] = s.data[q]
  <2>1. IsStore(t) /\ Capacity(t) = Capacity(s) /\ t.data = [s.data EXCEPT ![p] = x]
    BY WrittenFacts
  <2>2. \A k, n : Probe(t, k, n) = Probe(s, k, n)
    BY <2>1 DEF Probe
  <2>3. t.data[p] = x /\ \A q \in 1..Capacity(s) : q # p => t.data[q] = s.data[q]
    BY <2>1, StoreFacts
  <2> QED
    BY <2>1, <2>2, <2>3
<1>2. ASSUME NEW k \in Key, NEW n \in Nat \ {0}, Visited(s, k, n).exists
      PROVE  Visited(t, k, n).exists
  <2>1. Probe(s, k, n) \in 1..Capacity(s)
    BY ProbeIsASlot
  <2> QED
    BY <1>1, <1>2, <2>1 DEF Visited
<1>3. ASSUME NEW q \in LiveSlots(t)
      PROVE  \E n \in 1..Capacity(t) :
               /\ Probe(t, t.data[q].key, n) = q
               /\ \A m \in 1..(n - 1) : /\ Probe(t, t.data[q].key, m) # q
                                        /\ Visited(t, t.data[q].key, m).exists
  <2> DEFINE k == t.data[q].key
  <2>1. q \in 1..Capacity(s) /\ IsLive(t.data[q]) /\ k \in Key
    BY <1>1, StoreFacts, SlotFacts DEF LiveSlots
  <2>2. \E n \in 1..Capacity(s) :
          /\ Probe(s, k, n) = q
          /\ \A m \in 1..(n - 1) : Probe(s, k, m) # q /\ Visited(s, k, m).exists
    <3>1. CASE q # p \/ (p \in LiveSlots(s) /\ x.key = s.data[p].key)
      <4>1. q \in LiveSlots(s) /\ k = s.data[q].key
        BY <1>1, <2>1, <3>1, StoreFacts DEF LiveSlots
      <4> QED
        BY <4>1 DEF Reached
    <3>2. CASE q = p /\ ~(p \in LiveSlots(s) /\ x.key = s.data[p].key)
      BY <1>1, <2>1, <3>2
    <3> QED
      BY <3>1, <3>2
  <2>3. PICK n \in 1..Capacity(s) :
          /\ Probe(s, k, n) = q
          /\ \A m \in 1..(n - 1) : Probe(s, k, m) # q /\ Visited(s, k, m).exists
    BY <2>2
  <2> HIDE DEF k
  <2>4. \A m \in 1..(n - 1) : Visited(t, k, m).exists
    BY <1>2, <2>1, <2>3
  <2>5. /\ Probe(t, k, n) = q
        /\ \A m \in 1..(n - 1) : Probe(t, k, m) # q /\ Visited(t, k, m).exists
    BY <1>1, <2>3, <2>4
  <2> QED
    BY <1>1, <2>5 DEF k
<1> QED
  BY <1>3 DEF Reached

LEMMA SlotsAreFinite ==
  ASSUME NEW s, IsStore(s)
  PROVE  /\ IsFiniteSet(LiveSlots(s)) /\ IsFiniteSet(DeadSlots(s))
         /\ LiveSlots(s) \subseteq 1..Capacity(s)
         /\ DeadSlots(s) \subseteq 1..Capacity(s)
         /\ Cardinality(LiveSlots(s)) \in Nat /\ Cardinality(DeadSlots(s)) \in Nat
<1>1. IsFiniteSet(1..Capacity(s))
  BY StoreFacts, FS_Interval
<1>2. LiveSlots(s) \subseteq 1..Capacity(s) /\ DeadSlots(s) \subseteq 1..Capacity(s)
  BY StoreFacts DEF LiveSlots, DeadSlots
<1>3. IsFiniteSet(LiveSlots(s)) /\ IsFiniteSet(DeadSlots(s))
  BY <1>1, <1>2, FS_Subset
<1> QED
  BY <1>2, <1>3, FS_CardinalityType

-----------------------------------------------------------------------------
(* __add without resizing.                                                 *)

LEMMA PlaceForFacts ==
  ASSUME NEW s, IsStore(s), NEW k \in Key
  PROVE  /\ PlaceFor(s, k) \in 0..Capacity(s)
         /\ PlaceFor(s, k) # 0 =>
              \E n \in 1..Capacity(s) : Probe(s, k, n) = PlaceFor(s, k) /\ AddEnds(s, k, n)
<1>0. Capacity(s) \in Nat
  BY StoreFacts
<1>1. CASE \E n \in 1..Capacity(s) : AddEnds(s, k, n)
  <2> DEFINE n == CHOOSE x \in 1..Capacity(s) : AddEnds(s, k, x)
  <2>1. n \in 1..Capacity(s) /\ AddEnds(s, k, n)
    BY <1>1
  <2>2. PlaceFor(s, k) = Probe(s, k, n)
    BY <1>1 DEF PlaceFor
  <2> HIDE DEF n
  <2>3. Probe(s, k, n) \in 1..Capacity(s)
    BY <1>0, <2>1, ProbeIsASlot
  <2> QED
    BY <1>0, <2>1, <2>2, <2>3
<1>2. CASE ~ \E n \in 1..Capacity(s) : AddEnds(s, k, n)
  BY <1>0, <1>2 DEF PlaceFor
<1> QED
  BY <1>1, <1>2

\* An addition of a name the table has not: what it is afterwards.
LEMMA PlaceKeeps ==
  ASSUME NEW s, WellFormed(s), NEW k \in Key, NEW v \in Value, Absent(s, k),
         NEW t, t = Place(s, k, v), PlaceFor(s, k) # 0
  PROVE  /\ WellFormed(t) /\ t.idx = s.idx /\ t.size = s.size + 1 /\ t.dead <= s.dead
         /\ PlaceFor(s, k) \in (1..Capacity(s)) \ LiveSlots(s)
         /\ LiveSlots(t) = LiveSlots(s) \cup {PlaceFor(s, k)}
         /\ t.data[PlaceFor(s, k)] = Element(k, v)
         /\ \A q \in 1..Capacity(s) : q # PlaceFor(s, k) => t.data[q] = s.data[q]
<1> DEFINE p == PlaceFor(s, k)
           x == Element(k, v)
           dead == IF s.data[p].exists THEN s.dead - 1 ELSE s.dead
<1>1. IsStore(s) /\ Reached(s) /\ NoDup(s) /\ Counted(s)
  BY DEF WellFormed
<1>2. Capacity(s) \in Nat \ {0} /\ s.size \in Nat /\ s.dead \in Nat
      /\ DOMAIN s.data = 1..Capacity(s)
      /\ \A q \in 1..Capacity(s) : s.data[q] \in SlotType
  BY <1>1, StoreFacts
<1>3. p \in 1..Capacity(s)
  BY <1>1, <1>2, PlaceForFacts
<1>4. PICK n \in 1..Capacity(s) : Probe(s, k, n) = p /\ AddEnds(s, k, n)
  BY <1>1, PlaceForFacts
<1>5. IsFree(s.data[p])
  BY <1>4 DEF AddEnds, Visited
<1>6. x \in SlotType /\ IsLive(x) /\ x.exists /\ x.key = k
  BY ElementFacts
<1>7. p \notin LiveSlots(s)
  BY <1>2, <1>3, <1>5, SlotFacts DEF LiveSlots
<1>8. s.data[p].exists <=> p \in DeadSlots(s)
  BY <1>2, <1>3, <1>5 DEF IsFree, DeadSlots
<1>9. dead = IF p \in DeadSlots(s) THEN s.dead - 1 ELSE s.dead
  BY <1>8
<1>10. IsFiniteSet(LiveSlots(s)) /\ IsFiniteSet(DeadSlots(s))
       /\ s.size = Cardinality(LiveSlots(s)) /\ s.dead = Cardinality(DeadSlots(s))
  BY <1>1, SlotsAreFinite DEF Counted
<1>11. /\ Cardinality(LiveSlots(s) \cup {p}) = s.size + 1
       /\ Cardinality(DeadSlots(s) \ {p}) = dead
       /\ IsFiniteSet(DeadSlots(s) \ {p})
  <2> HIDE DEF p, dead
  <2>1. Cardinality(LiveSlots(s) \cup {p}) = s.size + 1
    BY <1>7, <1>10, FS_AddElement
  <2>2. IsFiniteSet(DeadSlots(s) \ {p})
    BY <1>10, FS_RemoveElement
  <2>3. Cardinality(DeadSlots(s) \ {p}) = dead
    BY <1>9, <1>10, FS_RemoveElement
  <2> QED
    BY <2>1, <2>2, <2>3
<1>12. dead \in Nat /\ s.size + 1 \in Nat
  BY <1>2, <1>11, FS_CardinalityType
<1>13. dead <= s.dead
  BY <1>2, <1>9
<1>14. t = [s EXCEPT !.data[p] = x, !.size = @ + 1,
                     !.dead = IF s.data[p].exists THEN @ - 1 ELSE @]
  BY <1>3 DEF Place
<1>15. t = [s EXCEPT !.data = [s.data EXCEPT ![p] = x], !.size = s.size + 1, !.dead = dead]
  BY <1>14
<1> HIDE DEF p, x, dead
<1>16. t = Written(s, p, x, s.size + 1, dead)
  BY <1>1, <1>15 DEF Written, IsStore
<1>17. /\ IsStore(t) /\ Capacity(t) = Capacity(s) /\ t.size = s.size + 1 /\ t.dead = dead
       /\ t.data[p] = x
       /\ \A q \in 1..Capacity(s) : q # p => t.data[q] = s.data[q]
  <2>1. IsStore(t) /\ Capacity(t) = Capacity(s) /\ t.size = s.size + 1 /\ t.dead = dead
        /\ t.data = [s.data EXCEPT ![p] = x]
    BY <1>1, <1>3, <1>6, <1>12, <1>16, WrittenFacts
  <2>2. t.data[p] = x /\ \A q \in 1..Capacity(s) : q # p => t.data[q] = s.data[q]
    BY <1>1, <1>3, <2>1, StoreFacts
  <2> QED
    BY <2>1, <2>2
<1>18. DOMAIN t.data = 1..Capacity(s)
  BY <1>17, StoreFacts
<1>19. LiveSlots(t) = LiveSlots(s) \cup {p}
  BY <1>2, <1>3, <1>6, <1>17, <1>18 DEF LiveSlots
<1>20. DeadSlots(t) = DeadSlots(s) \ {p}
  <2>1. ~(x.exists /\ x.deleted)
    BY <1>6 DEF IsLive
  <2> QED
    BY <1>2, <1>3, <1>17, <1>18, <2>1 DEF DeadSlots
<1>21. Counted(t)
  BY <1>11, <1>17, <1>19, <1>20 DEF Counted
<1>22. NoDup(t)
  <2>1. ASSUME NEW q \in LiveSlots(s) PROVE t.data[q] = s.data[q] /\ s.data[q].key # k
    BY <1>1, <1>7, <1>17, SlotsAreFinite DEF Absent
  <2> QED
    BY <1>1, <1>6, <1>17, <1>19, <2>1 DEF NoDup
<1>23. Reached(t)
  <2>1. ASSUME NEW m \in 1..(n - 1)
        PROVE  Probe(s, k, m) # p /\ Visited(s, k, m).exists
    <3>1. ~IsFree(Visited(s, k, m))
      BY <1>4 DEF AddEnds
    <3> QED
      BY <1>5, <3>1 DEF Visited, IsFree
  <2> QED
    BY <1>1, <1>3, <1>4, <1>6, <1>12, <1>16, <2>1, WrittenIsReached
<1>24. t.idx = s.idx
  BY <1>16 DEF Written
<1> QED
  BY <1>3, <1>7, <1>13, <1>17, <1>19, <1>21, <1>22, <1>23, <1>24 DEF WellFormed, p, x


\* An addition that finds no place met a table full of live slots.
LEMMA NoPlaceIsFull ==
  ASSUME NEW s, WellFormed(s), NEW k \in Key, PlaceFor(s, k) = 0
  PROVE  LiveSlots(s) = 1..Capacity(s) /\ s.size = Capacity(s)
<1>1. IsStore(s) /\ Counted(s) /\ Capacity(s) \in Nat \ {0}
      /\ DOMAIN s.data = 1..Capacity(s)
      /\ \A q \in 1..Capacity(s) : s.data[q] \in SlotType
  BY StoreFacts DEF WellFormed
<1>2. ASSUME NEW p \in 1..Capacity(s), IsFree(s.data[p]) PROVE FALSE
  <2> DEFINE T == {n \in 1..Capacity(s) : IsFree(Visited(s, k, n))}
  <2>1. PICK n \in 1..Capacity(s) : Probe(s, k, n) = p
    BY <1>1, ProbeReaches
  <2>2. n \in T /\ T \in SUBSET Nat
    BY <1>1, <1>2, <2>1 DEF Visited
  <2>3. PICK l \in T : \A m \in T : l <= m
    BY <2>2, LeastExists
  <2>4. l \in 1..Capacity(s)
    BY <2>3
  <2>5. \A m \in 1..(l - 1) : m \in 1..Capacity(s) /\ ~(l <= m)
    BY <1>1, <2>4
  <2>6. AddEnds(s, k, l)
    BY <2>3, <2>5 DEF AddEnds
  <2> DEFINE c == CHOOSE x \in 1..Capacity(s) : AddEnds(s, k, x)
  <2>7. c \in 1..Capacity(s) /\ PlaceFor(s, k) = Probe(s, k, c)
    BY <2>4, <2>6 DEF PlaceFor
  <2> HIDE DEF c, T
  <2>8. Probe(s, k, c) \in 1..Capacity(s)
    BY <1>1, <2>7, ProbeIsASlot
  <2> QED
    BY <1>1, <2>7, <2>8
<1>3. \A p \in 1..Capacity(s) : IsLive(s.data[p])
  BY <1>1, <1>2, SlotFacts
<1>4. LiveSlots(s) = 1..Capacity(s)
  BY <1>1, <1>3 DEF LiveSlots
<1>5. Cardinality(1..Capacity(s)) = Capacity(s)
  BY <1>1, FS_Interval
<1> QED
  BY <1>1, <1>4, <1>5 DEF Counted

LEMMA PlaceWithoutPlace ==
  ASSUME NEW s, NEW k, NEW v, PlaceFor(s, k) = 0
  PROVE  Place(s, k, v) = s
BY DEF Place

-----------------------------------------------------------------------------
(* Marking a slot as deleted, and changing a value.                        *)

LEMMA MarkKeeps ==
  ASSUME NEW s, WellFormed(s), NEW k \in Key, NEW t, t = Mark(s, k), FindIn(s, k) # 0
  PROVE  /\ WellFormed(t) /\ t.idx = s.idx /\ t.size + 1 = s.size /\ t.dead = s.dead + 1
         /\ FindIn(s, k) \in LiveSlots(s)
         /\ LiveSlots(t) = LiveSlots(s) \ {FindIn(s, k)}
         /\ t.data[FindIn(s, k)].exists
         /\ \A q \in 1..Capacity(s) : q # FindIn(s, k) => t.data[q] = s.data[q]
<1> DEFINE p == FindIn(s, k)
           x == [s.data[p] EXCEPT !.deleted = TRUE]
<1>1. IsStore(s) /\ Reached(s) /\ NoDup(s) /\ Counted(s)
  BY DEF WellFormed
<1>2. Capacity(s) \in Nat \ {0} /\ s.size \in Nat /\ s.dead \in Nat
      /\ DOMAIN s.data = 1..Capacity(s)
      /\ \A q \in 1..Capacity(s) : s.data[q] \in SlotType
  BY <1>1, StoreFacts
<1>3. p \in LiveSlots(s) /\ p \in 1..Capacity(s)
  BY <1>1, <1>2, FindAnswers DEF LiveSlots
<1>4. IsLive(s.data[p]) /\ s.data[p] \in SlotType
  BY <1>2, <1>3 DEF LiveSlots
<1>5. s.data[p] \in [exists : {TRUE}, deleted : BOOLEAN, key : Key, value : Value]
  BY <1>4, EmptyFacts DEF SlotType
<1>6. x \in SlotType /\ x.exists /\ x.deleted
  BY <1>5 DEF SlotType
<1>7. ~IsLive(x)
  BY <1>6 DEF IsLive
<1>8. p \notin DeadSlots(s)
  BY <1>4 DEF IsLive, DeadSlots
<1>9. IsFiniteSet(LiveSlots(s)) /\ IsFiniteSet(DeadSlots(s))
      /\ s.size = Cardinality(LiveSlots(s)) /\ s.dead = Cardinality(DeadSlots(s))
  BY <1>1, SlotsAreFinite DEF Counted
<1>10. t = [s EXCEPT !.data[p].deleted = TRUE, !.size = @ - 1, !.dead = @ + 1]
  BY DEF Mark
<1>11. t = [s EXCEPT !.data = [s.data EXCEPT ![p] = x],
                     !.size = s.size - 1, !.dead = s.dead + 1]
  BY <1>10
<1> HIDE DEF p, x
<1>12. /\ Cardinality(LiveSlots(s) \ {p}) = s.size - 1
       /\ Cardinality(DeadSlots(s) \cup {p}) = s.dead + 1
  <2>1. Cardinality(LiveSlots(s) \ {p}) = s.size - 1
    BY <1>3, <1>9, FS_RemoveElement
  <2>2. Cardinality(DeadSlots(s) \cup {p}) = s.dead + 1
    BY <1>8, <1>9, FS_AddElement
  <2> QED
    BY <2>1, <2>2
<1>13. s.size - 1 \in Nat /\ s.dead + 1 \in Nat
  <2>1. IsFiniteSet(LiveSlots(s) \ {p})
    BY <1>9, FS_RemoveElement
  <2> QED
    BY <1>2, <1>12, <2>1, FS_CardinalityType
<1>14. t = Written(s, p, x, s.size - 1, s.dead + 1)
  BY <1>1, <1>11 DEF Written, IsStore
<1>15. /\ IsStore(t) /\ Capacity(t) = Capacity(s)
       /\ t.size = s.size - 1 /\ t.dead = s.dead + 1
       /\ t.data = [s.data EXCEPT ![p] = x]
  BY <1>1, <1>3, <1>6, <1>13, <1>14, WrittenFacts
<1>16. t.data[p] = x /\ \A q \in 1..Capacity(s) : q # p => t.data[q] = s.data[q]
  BY <1>1, <1>3, <1>15, StoreFacts
<1>17. DOMAIN t.data = 1..Capacity(s)
  BY <1>15, StoreFacts
<1>18. LiveSlots(t) = LiveSlots(s) \ {p}
  BY <1>2, <1>3, <1>7, <1>16, <1>17 DEF LiveSlots
<1>19. DeadSlots(t) = DeadSlots(s) \cup {p}
  BY <1>2, <1>3, <1>6, <1>16, <1>17 DEF DeadSlots
<1>20. Counted(t)
  BY <1>12, <1>15, <1>18, <1>19 DEF Counted
<1>21. NoDup(t)
  <2>1. \A q \in LiveSlots(t) : q \in LiveSlots(s) /\ t.data[q] = s.data[q]
    BY <1>1, <1>16, <1>18, SlotsAreFinite
  <2> QED
    BY <1>1, <2>1 DEF NoDup
<1>22. Reached(t)
  BY <1>1, <1>3, <1>6, <1>7, <1>13, <1>14, WrittenIsReached
<1>23. t.idx = s.idx
  BY <1>14 DEF Written
<1>24. t.size + 1 = s.size
  BY <1>2, <1>15
<1> QED
  BY <1>3, <1>6, <1>15, <1>16, <1>18, <1>20, <1>21, <1>22, <1>23, <1>24 DEF WellFormed, p

LEMMA ChangeKeeps ==
  ASSUME NEW s, WellFormed(s), NEW p \in LiveSlots(s), NEW v \in Value,
         NEW t, t = SetValue(s, p, v)
  PROVE  /\ WellFormed(t) /\ t.idx = s.idx /\ t.size = s.size /\ t.dead = s.dead
         /\ LiveSlots(t) = LiveSlots(s)
         /\ t.data[p].key = s.data[p].key /\ t.data[p].value = v
         /\ \A q \in 1..Capacity(s) : q # p => t.data[q] = s.data[q]
<1> DEFINE x == [s.data[p] EXCEPT !.value = v]
<1>1. IsStore(s) /\ Reached(s) /\ NoDup(s) /\ Counted(s)
  BY DEF WellFormed
<1>2. Capacity(s) \in Nat \ {0} /\ s.size \in Nat /\ s.dead \in Nat
      /\ DOMAIN s.data = 1..Capacity(s)
      /\ \A q \in 1..Capacity(s) : s.data[q] \in SlotType
  BY <1>1, StoreFacts
<1>3. p \in 1..Capacity(s) /\ IsLive(s.data[p]) /\ s.data[p] \in SlotType
  BY <1>2 DEF LiveSlots
<1>4. s.data[p] \in [exists : {TRUE}, deleted : BOOLEAN, key : Key, value : Value]
  BY <1>3, EmptyFacts DEF SlotType
<1>5. x \in SlotType /\ x.exists /\ x.key = s.data[p].key /\ x.value = v
      /\ x.deleted = s.data[p].deleted /\ s.data[p].exists
  BY <1>4 DEF SlotType
<1>6. IsLive(x)
  BY <1>3, <1>5 DEF IsLive
<1>7. t = [s EXCEPT !.data = [s.data EXCEPT ![p] = x], !.size = s.size, !.dead = s.dead]
  <2>1. t = [s EXCEPT !.data = [s.data EXCEPT ![p] = x]]
    BY DEF SetValue
  <2> QED
    BY <1>1, <2>1 DEF IsStore
<1> HIDE DEF x
<1>8. t = Written(s, p, x, s.size, s.dead)
  BY <1>1, <1>7 DEF Written, IsStore
<1>9. /\ IsStore(t) /\ Capacity(t) = Capacity(s) /\ t.size = s.size /\ t.dead = s.dead
      /\ t.data = [s.data EXCEPT ![p] = x]
  <2>1. s.size \in Nat /\ s.dead \in Nat /\ p \in 1..Capacity(s) /\ x \in SlotType
    BY <1>2, <1>3, <1>5
  <2> QED
    BY <1>1, <1>8, <2>1, WrittenFacts
<1>10. t.data[p] = x /\ \A q \in 1..Capacity(s) : q # p => t.data[q] = s.data[q]
  BY <1>1, <1>3, <1>9, StoreFacts
<1>11. DOMAIN t.data = 1..Capacity(s)
  BY <1>9, StoreFacts
<1>12. LiveSlots(t) = LiveSlots(s)
  BY <1>2, <1>3, <1>6, <1>10, <1>11 DEF LiveSlots
<1>13. DeadSlots(t) = DeadSlots(s)
  <2>1. ~(x.exists /\ x.deleted) /\ ~(s.data[p].exists /\ s.data[p].deleted)
    BY <1>3, <1>6 DEF IsLive
  <2> QED
    BY <1>2, <1>3, <1>10, <1>11, <2>1 DEF DeadSlots
<1>14. Counted(t)
  BY <1>1, <1>9, <1>12, <1>13 DEF Counted
<1>15. NoDup(t)
  <2>1. \A q \in LiveSlots(t) : q \in LiveSlots(s) /\ t.data[q].key = s.data[q].key
    BY <1>1, <1>5, <1>10, <1>12, SlotsAreFinite
  <2> QED
    BY <1>1, <2>1 DEF NoDup
<1>16. Reached(t)
  BY <1>1, <1>2, <1>3, <1>5, <1>8, WrittenIsReached
<1>17. t.idx = s.idx
  BY <1>8 DEF Written
<1> QED
  BY <1>5, <1>9, <1>10, <1>12, <1>14, <1>15, <1>16, <1>17 DEF WellFormed

-----------------------------------------------------------------------------
(* __rehashData.                                                           *)

LEMMA NewStoreKeeps ==
  ASSUME NEW idx \in 1..Len(Capacities)
  PROVE  LET t == NewStore(idx)
         IN  /\ WellFormed(t) /\ t.idx = idx /\ t.size = 0 /\ t.dead = 0
             /\ LiveSlots(t) = {}
             /\ \A p \in 1..Capacity(t) : ~t.data[p].exists
<1> DEFINE t == NewStore(idx)
           C == Capacities[idx]
<1>1. C \in Nat \ {0}
  BY StorageAssumption
<1>2. t.idx = idx /\ t.size = 0 /\ t.dead = 0 /\ t.data = [p \in 1..C |-> Empty]
  BY DEF NewStore
<1>3. t.data \in Seq(SlotType) /\ Len(t.data) = C
  BY <1>1, <1>2, EmptyFacts
<1>4. Capacity(t) = C
  BY <1>2 DEF Capacity
<1>5. t \in [idx : 1..Len(Capacities), data : Seq(SlotType), size : Nat, dead : Nat]
  BY <1>2, <1>3 DEF NewStore
<1>6. IsStore(t)
  BY <1>3, <1>4, <1>5 DEF IsStore
<1> HIDE DEF t
<1>7. \A p \in 1..C : t.data[p] = Empty
  BY <1>2
<1>8. LiveSlots(t) = {} /\ DeadSlots(t) = {}
  BY <1>2, <1>7, EmptyFacts DEF LiveSlots, DeadSlots
<1>9. Counted(t)
  BY <1>2, <1>8, FS_EmptySet DEF Counted
<1>10. WellFormed(t)
  BY <1>6, <1>8, <1>9 DEF WellFormed, Reached, NoDup
<1> QED
  BY <1>2, <1>4, <1>7, <1>8, <1>10, EmptyFacts DEF t

\* The loop of __rehashData takes the slots one after the other.
Steps(g, t, slots, m) ==
  /\ g[0] = t
  /\ \A n \in 1..m : g[n] = MoveTo(g[n - 1], slots[n])

LEMMA MoveAllSteps ==
  ASSUME NEW t, NEW slots, Len(slots) \in Nat
  PROVE  \E g : Steps(g, t, slots, Len(slots)) /\ MoveAll(t, slots) = g[Len(slots)]
<1> DEFINE Fold(g, m) ==
             g = [n \in 0..m |-> IF n = 0 THEN t ELSE MoveTo(g[n - 1], slots[n])]
           T == {m \in Nat : ~ \E g : Fold(g, m)}
           L == Len(slots)
<1>1. T = {}
  <2>1. SUFFICES ASSUME T # {} PROVE FALSE
    OBVIOUS
  <2>2. T \in SUBSET Nat
    OBVIOUS
  <2>3. PICK m \in T : \A n \in T : m <= n
    BY <2>1, <2>2, LeastExists
  <2>4. m \in Nat /\ ~ \E g : Fold(g, m)
    BY <2>3
  <2>5. CASE m = 0
    <3> DEFINE g == [n \in 0..0 |-> t]
    <3>1. Fold(g, 0)
      OBVIOUS
    <3> QED
      BY <2>4, <2>5, <3>1
  <2>6. CASE m # 0
    <3>1. m - 1 \in Nat /\ ~(m <= m - 1)
      BY <2>4, <2>6
    <3>2. m - 1 \notin T
      BY <2>3, <3>1
    <3>3. PICK f : Fold(f, m - 1)
      BY <3>1, <3>2
    <3> DEFINE g == [n \in 0..m |-> IF n = m THEN MoveTo(f[m - 1], slots[m]) ELSE f[n]]
    <3>4. \A n \in 0..m : n # m => n \in 0..(m - 1) /\ g[n] = f[n]
      BY <2>4
    <3>5. g[m] = MoveTo(f[m - 1], slots[m]) /\ g[m - 1] = f[m - 1]
      BY <2>4, <3>1
    <3>6. ASSUME NEW n \in 0..m
          PROVE  g[n] = IF n = 0 THEN t ELSE MoveTo(g[n - 1], slots[n])
      <4>1. CASE n = m
        BY <2>6, <3>5, <4>1
      <4>2. CASE n # m
        <5>1. g[n] = f[n] /\ n \in 0..(m - 1)
          BY <3>4, <4>2
        <5>2. f[n] = IF n = 0 THEN t ELSE MoveTo(f[n - 1], slots[n])
          BY <3>3, <5>1
        <5>3. n # 0 => n - 1 \in 0..m /\ n - 1 # m
          BY <2>4, <5>1
        <5>4. n # 0 => g[n - 1] = f[n - 1]
          BY <3>4, <5>3
        <5> HIDE DEF g
        <5> QED
          BY <5>1, <5>2, <5>4
      <4> QED
        BY <4>1, <4>2
    <3>7. g = [n \in 0..m |-> g[n]]
      OBVIOUS
    <3>8. Fold(g, m)
      <4> HIDE DEF g
      <4> QED
        BY <3>6, <3>7
    <3> QED
      BY <2>4, <3>8
  <2> QED
    BY <2>5, <2>6
<1>2. \E g : Fold(g, L)
  BY <1>1
<1> DEFINE g == CHOOSE f : Fold(f, L)
<1>3. Fold(g, L)
  BY <1>2
<1>4. MoveAll(t, slots) = g[L]
  BY DEF MoveAll
<1> HIDE DEF g
<1>5. g[0] = t
  BY <1>3
<1>6. ASSUME NEW n \in 1..L PROVE g[n] = MoveTo(g[n - 1], slots[n])
  BY <1>3
<1> QED
  BY <1>4, <1>5, <1>6 DEF Steps

LiveUpTo(s, n) == {p \in LiveSlots(s) : p <= n}

\* What the new table u is when the first n slots of s are moved.
Moved(s, idx, u, n) ==
  /\ WellFormed(u) /\ u.idx = idx /\ u.dead = 0
  /\ u.size <= Cardinality(LiveUpTo(s, n))
  /\ \A q \in LiveSlots(u) : \E p \in LiveUpTo(s, n) :
       u.data[q].key = s.data[p].key /\ u.data[q].value = s.data[p].value
  /\ s.size <= Capacities[idx] =>
       \A p \in LiveUpTo(s, n) : \E q \in LiveSlots(u) :
         u.data[q].key = s.data[p].key /\ u.data[q].value = s.data[p].value

LEMMA LiveUpToNext ==
  ASSUME NEW s, IsStore(s), NEW n \in 1..Capacity(s)
  PROVE  /\ LiveUpTo(s, n) = IF n \in LiveSlots(s) THEN LiveUpTo(s, n - 1) \cup {n}
                             ELSE LiveUpTo(s, n - 1)
         /\ n \notin LiveUpTo(s, n - 1)
         /\ Cardinality(LiveUpTo(s, n - 1)) \in Nat
         /\ n \in LiveSlots(s) =>
              /\ Cardinality(LiveUpTo(s, n)) = Cardinality(LiveUpTo(s, n - 1)) + 1
              /\ Cardinality(LiveUpTo(s, n)) <= Cardinality(LiveSlots(s))
<1>1. Capacity(s) \in Nat /\ LiveSlots(s) \subseteq 1..Capacity(s) /\ IsFiniteSet(LiveSlots(s))
  BY StoreFacts, SlotsAreFinite
<1>2. LiveUpTo(s, n) = IF n \in LiveSlots(s) THEN LiveUpTo(s, n - 1) \cup {n}
                       ELSE LiveUpTo(s, n - 1)
  BY <1>1 DEF LiveUpTo
<1>3. n \notin LiveUpTo(s, n - 1)
  BY <1>1 DEF LiveUpTo
<1>4. IsFiniteSet(LiveUpTo(s, n - 1))
  <2>1. LiveUpTo(s, n - 1) \in SUBSET LiveSlots(s)
    BY DEF LiveUpTo
  <2> QED
    BY <1>1, <2>1, FS_Subset
<1>5. Cardinality(LiveUpTo(s, n - 1) \cup {n}) = Cardinality(LiveUpTo(s, n - 1)) + 1
  BY <1>3, <1>4, FS_AddElement
<1>6. Cardinality(LiveUpTo(s, n)) <= Cardinality(LiveSlots(s))
  <2>1. LiveUpTo(s, n) \in SUBSET LiveSlots(s)
    BY DEF LiveUpTo
  <2> QED
    BY <1>1, <2>1, FS_Subset
<1>7. Cardinality(LiveUpTo(s, n - 1)) \in Nat
  BY <1>4, FS_CardinalityType
<1> QED
  BY <1>2, <1>3, <1>5, <1>6, <1>7

LEMMA MoveToKeeps ==
  ASSUME NEW s, WellFormed(s), NEW idx \in 1..Len(Capacities),
         NEW n \in 1..Capacity(s), NEW u, Moved(s, idx, u, n - 1),
         NEW w, w = MoveTo(u, s.data[n])
  PROVE  Moved(s, idx, w, n)
<1> DEFINE k == s.data[n].key
           v == s.data[n].value
           c == Cardinality(LiveUpTo(s, n - 1))
<1>1. IsStore(s) /\ NoDup(s) /\ Counted(s)
  BY DEF WellFormed
<1>2. /\ WellFormed(u) /\ u.idx = idx /\ u.dead = 0 /\ u.size <= c
      /\ IsStore(u) /\ Counted(u) /\ Capacity(u) = Capacities[idx] /\ u.size \in Nat
  BY StoreFacts DEF Moved, WellFormed, Capacity
<1>3. \A q \in LiveSlots(u) : \E p \in LiveUpTo(s, n - 1) :
        u.data[q].key = s.data[p].key /\ u.data[q].value = s.data[p].value
  BY DEF Moved
<1>4. s.size <= Capacities[idx] =>
        \A p \in LiveUpTo(s, n - 1) : \E q \in LiveSlots(u) :
          u.data[q].key = s.data[p].key /\ u.data[q].value = s.data[p].value
  BY DEF Moved
<1>5. LiveSlots(s) \subseteq 1..Capacity(s) /\ Capacity(s) \in Nat
  BY <1>1, SlotsAreFinite, StoreFacts
<1>6. n \notin LiveUpTo(s, n - 1) /\ c \in Nat
  BY <1>1, LiveUpToNext
<1>7. CASE n \notin LiveSlots(s)
  <2>1. LiveUpTo(s, n) = LiveUpTo(s, n - 1)
    BY <1>1, <1>7, LiveUpToNext
  <2>2. ~IsLive(s.data[n])
    BY <1>1, <1>7, StoreFacts DEF LiveSlots
  <2>3. w = u
    BY <2>2 DEF MoveTo
  <2> QED
    BY <2>1, <2>3 DEF Moved
<1>8. CASE n \in LiveSlots(s)
  <2>1. LiveUpTo(s, n) = LiveUpTo(s, n - 1) \cup {n}
    BY <1>1, <1>8, LiveUpToNext
  <2>2. Cardinality(LiveUpTo(s, n)) = c + 1 /\ c + 1 <= s.size
    BY <1>1, <1>8, LiveUpToNext DEF Counted
  <2>3. IsLive(s.data[n]) /\ k \in Key /\ v \in Value
    BY <1>1, <1>8, StoreFacts, SlotFacts DEF LiveSlots
  <2>4. w = Place(u, k, v)
    BY <2>3 DEF MoveTo
  <2>5. Absent(u, k)
    <3>1. ASSUME NEW q \in LiveSlots(u), u.data[q].key = k PROVE FALSE
      <4>1. PICK p \in LiveUpTo(s, n - 1) : u.data[q].key = s.data[p].key
        BY <1>3
      <4>2. p \in LiveSlots(s) /\ p # n
        BY <1>6 DEF LiveUpTo
      <4> QED
        BY <1>1, <1>8, <3>1, <4>1, <4>2 DEF NoDup
    <3> QED
      BY <3>1 DEF Absent
  <2>6. s.size \in Nat /\ Capacities[idx] \in Nat
    BY <1>1, <1>2, StoreFacts
  <2>7. CASE PlaceFor(u, k) # 0
    <3> DEFINE p == PlaceFor(u, k)
    <3>1. /\ WellFormed(w) /\ w.idx = u.idx /\ w.size = u.size + 1 /\ w.dead <= u.dead
          /\ p \in (1..Capacity(u)) \ LiveSlots(u)
          /\ LiveSlots(w) = LiveSlots(u) \cup {p}
          /\ w.data[p] = Element(k, v)
          /\ \A q \in 1..Capacity(u) : q # p => w.data[q] = u.data[q]
      BY <1>2, <2>3, <2>4, <2>5, <2>7, PlaceKeeps
    <3> HIDE DEF p, k, v
    <3>2. w.data[p].key = k /\ w.data[p].value = v
      BY <2>3, <3>1, ElementFacts
    <3>3. w.dead \in Nat
      BY <3>1, StoreFacts DEF WellFormed
    <3>4. w.dead = 0 /\ w.idx = idx
      BY <1>2, <3>1, <3>3
    <3>5. w.size <= Cardinality(LiveUpTo(s, n))
      BY <1>2, <1>6, <2>2, <3>1
    <3>6. \A q \in LiveSlots(u) : w.data[q] = u.data[q]
      BY <1>2, <3>1, SlotsAreFinite
    <3>7. ASSUME NEW q \in LiveSlots(w)
          PROVE  \E r \in LiveUpTo(s, n) :
                   w.data[q].key = s.data[r].key /\ w.data[q].value = s.data[r].value
      <4>1. CASE q = p
        BY <2>1, <3>2, <4>1 DEF k, v
      <4>2. CASE q \in LiveSlots(u)
        BY <1>3, <2>1, <3>6, <4>2
      <4> QED
        BY <3>1, <4>1, <4>2
    <3>8. ASSUME s.size <= Capacities[idx], NEW r \in LiveUpTo(s, n)
          PROVE  \E q \in LiveSlots(w) :
                   w.data[q].key = s.data[r].key /\ w.data[q].value = s.data[r].value
      <4>1. CASE r = n
        <5>1. p \in LiveSlots(w) /\ w.data[p].key = s.data[r].key
              /\ w.data[p].value = s.data[r].value
          BY <3>1, <3>2, <4>1 DEF k, v
        <5> QED
          BY <5>1
      <4>2. CASE r \in LiveUpTo(s, n - 1)
        <5>1. PICK q \in LiveSlots(u) :
                u.data[q].key = s.data[r].key /\ u.data[q].value = s.data[r].value
          BY <1>4, <3>8, <4>2
        <5> QED
          BY <3>1, <3>6, <5>1
      <4> QED
        BY <2>1, <4>1, <4>2
    <3> QED
      BY <3>1, <3>4, <3>5, <3>7, <3>8 DEF Moved
  <2>8. CASE PlaceFor(u, k) = 0
    <3>1. w = u
      BY <2>4, <2>8, PlaceWithoutPlace
    <3>2. u.size = Capacities[idx]
      BY <1>2, <2>3, <2>8, NoPlaceIsFull
    <3>3. ~(s.size <= Capacities[idx])
      BY <1>2, <1>6, <2>2, <2>6, <3>2
    <3>4. u.size <= Cardinality(LiveUpTo(s, n))
      BY <1>2, <1>6, <2>2
    <3> QED
      BY <1>2, <1>3, <2>1, <3>1, <3>3, <3>4 DEF Moved
  <2> QED
    BY <2>7, <2>8
<1> QED
  BY <1>7, <1>8

LEMMA MovedThroughout ==
  ASSUME NEW s, WellFormed(s), NEW idx \in 1..Len(Capacities),
         NEW g, Steps(g, NewStore(idx), s.data, Capacity(s))
  PROVE  \A n \in 0..Capacity(s) : Moved(s, idx, g[n], n)
<1> DEFINE C == Capacity(s)
<1>1. IsStore(s) /\ C \in Nat
  BY StoreFacts DEF WellFormed
<1>2. Moved(s, idx, g[0], 0)
  <2>1. LiveUpTo(s, 0) = {}
    BY <1>1, SlotsAreFinite DEF LiveUpTo
  <2>2. g[0] = NewStore(idx)
    BY DEF Steps
  <2>3. /\ WellFormed(g[0]) /\ g[0].idx = idx /\ g[0].size = 0 /\ g[0].dead = 0
        /\ LiveSlots(g[0]) = {}
    BY <2>2, NewStoreKeeps
  <2>4. Cardinality(LiveUpTo(s, 0)) = 0
    BY <2>1, FS_EmptySet
  <2>5. g[0].size <= Cardinality(LiveUpTo(s, 0))
    BY <2>3, <2>4
  <2> QED
    BY <2>1, <2>3, <2>5 DEF Moved
<1> DEFINE T == {n \in 0..C : ~Moved(s, idx, g[n], n)}
<1>3. SUFFICES ASSUME T # {} PROVE FALSE
  OBVIOUS
<1>4. T \in SUBSET Nat
  BY <1>1
<1>5. PICK n \in T : \A m \in T : n <= m
  BY <1>3, <1>4, LeastExists
<1>6. n \in 1..C
  BY <1>1, <1>2, <1>5
<1>7. Moved(s, idx, g[n - 1], n - 1)
  BY <1>1, <1>5, <1>6
<1>8. g[n] = MoveTo(g[n - 1], s.data[n])
  BY <1>6 DEF Steps
<1> QED
  BY <1>5, <1>6, <1>7, <1>8, MoveToKeeps

\* A rehash keeps every entry that fits, adds none, and leaves no deleted slot.
LEMMA RehashKeeps ==
  ASSUME NEW s, WellFormed(s), NEW idx \in 1..Len(Capacities),
         NEW t, t = Rehash(s, idx)
  PROVE  /\ WellFormed(t) /\ t.idx = idx /\ t.dead = 0 /\ t.size <= s.size
         /\ \A q \in LiveSlots(t) : \E p \in LiveSlots(s) :
              t.data[q].key = s.data[p].key /\ t.data[q].value = s.data[p].value
         /\ s.size <= Capacities[idx] =>
              \A p \in LiveSlots(s) : \E q \in LiveSlots(t) :
                t.data[q].key = s.data[p].key /\ t.data[q].value = s.data[p].value
<1> DEFINE C == Capacity(s)
<1>1. IsStore(s) /\ Counted(s) /\ C \in Nat /\ Len(s.data) = C
  BY StoreFacts DEF WellFormed, IsStore
<1>2. PICK g : Steps(g, NewStore(idx), s.data, C) /\ t = g[C]
  BY <1>1, MoveAllSteps DEF Rehash
<1>3. Moved(s, idx, t, C)
  <2>1. C \in 0..C
    BY <1>1
  <2> QED
    BY <1>2, <2>1, MovedThroughout
<1>4. LiveUpTo(s, C) = LiveSlots(s)
  BY <1>1, SlotsAreFinite DEF LiveUpTo
<1> QED
  BY <1>1, <1>3, <1>4 DEF Moved, Counted

-----------------------------------------------------------------------------
(* __resize and __reduceDeleted.                                           *)

\* The table has an entry.
Has(s, k, v) == \E p \in LiveSlots(s) : s.data[p].key = k /\ s.data[p].value = v

SameEntries(s, t) == \A k, v : Has(s, k, v) <=> Has(t, k, v)

LEMMA RehashKeepsEntries ==
  ASSUME NEW s, WellFormed(s), NEW idx \in 1..Len(Capacities),
         NEW t, t = Rehash(s, idx), s.size <= Capacities[idx]
  PROVE  SameEntries(s, t)
<1>1. \A q \in LiveSlots(t) : \E p \in LiveSlots(s) :
        t.data[q].key = s.data[p].key /\ t.data[q].value = s.data[p].value
  BY RehashKeeps
<1>2. \A p \in LiveSlots(s) : \E q \in LiveSlots(t) :
        t.data[q].key = s.data[p].key /\ t.data[q].value = s.data[p].value
  BY RehashKeeps
<1> QED
  BY <1>1, <1>2 DEF SameEntries, Has

\* Two shares that are less than the whole together.
LEMMA SharesFit ==
  ASSUME NEW x \in Nat, NEW y \in Nat, NEW C \in Nat \ {0}, NEW a \in Nat, NEW b \in Nat,
         x * 100 <= a * C, y * 100 <= b * C, a + b < 100
  PROVE  x + y < C
<1>1. a * C \in Nat /\ b * C \in Nat /\ (a + b) * C = a * C + b * C
  OBVIOUS
<1>2. (a + b) * C <= 99 * C
  <2>1. a + b <= 99
    OBVIOUS
  <2> DEFINE d == 99 - (a + b)
  <2>2. d \in Nat /\ a + b + d = 99
    BY <2>1
  <2>3. (a + b + d) * C = (a + b) * C + d * C
    BY <2>2
  <2>4. d * C \in Nat
    BY <2>2
  <2> QED
    BY <1>1, <2>2, <2>3, <2>4
<1>3. (x + y) * 100 <= 99 * C
  BY <1>1, <1>2
<1> QED
  BY <1>3

LEMMA SizeIsBounded ==
  ASSUME NEW s, WellFormed(s)
  PROVE  s.size <= Cardinality(Key) /\ s.size <= Capacity(s)
<1>1. IsStore(s) /\ NoDup(s) /\ s.size = Cardinality(LiveSlots(s))
  BY DEF WellFormed, Counted
<1>2. IsFiniteSet(LiveSlots(s)) /\ LiveSlots(s) \subseteq 1..Capacity(s)
      /\ Capacity(s) \in Nat
  BY <1>1, SlotsAreFinite, StoreFacts
<1>3. s.size <= Capacity(s)
  <2>1. IsFiniteSet(1..Capacity(s)) /\ Cardinality(1..Capacity(s)) = Capacity(s)
    BY <1>2, FS_Interval
  <2> QED
    BY <1>1, <1>2, <2>1, FS_Subset
<1> DEFINE f == [p \in LiveSlots(s) |-> s.data[p].key]
<1>4. \A p \in LiveSlots(s) : s.data[p].key \in Key
  BY <1>1, StoreFacts, SlotFacts DEF LiveSlots
<1>5. f \in [LiveSlots(s) -> Key]
  BY <1>4
<1>6. \A p, q \in LiveSlots(s) : f[p] = f[q] => p = q
  BY <1>1 DEF NoDup
<1>7. f \in Injection(LiveSlots(s), Key)
  <2> HIDE DEF f
  <2> QED
    BY <1>5, <1>6 DEF Injection, IsInjective
<1>8. IsFiniteSet(Key)
  BY RoomAssumption
<1>9. Cardinality(LiveSlots(s)) <= Cardinality(Key)
  <2> HIDE DEF f
  <2> QED
    BY <1>7, <1>8, FS_Injection
<1> QED
  BY <1>1, <1>3, <1>9

\* What __resize leaves to __reduceDeleted.
Resized(s) ==
  \/ s.size * 100 <= UpPercent * Capacity(s)
  \/ s.dead = 0 /\ s.size < Capacity(s)

LEMMA ResizeKeeps ==
  ASSUME NEW s, WellFormed(s), NEW t, t = Resize(s)
  PROVE  WellFormed(t) /\ SameEntries(s, t) /\ Resized(t)
<1> DEFINE C == Capacity(s)
           L == Len(Capacities)
<1>1. /\ IsStore(s) /\ C \in Nat \ {0} /\ s.size \in Nat /\ s.idx \in 1..L
      /\ C = Capacities[s.idx]
      /\ s.size <= C /\ s.size <= Cardinality(Key)
      /\ UpPercent * C \in Nat /\ DownPercent * C \in Nat /\ UpPercent \in Nat
  BY SizeIsBounded, StoreFacts, StorageAssumption DEF WellFormed, Capacity
<1>2. SameEntries(s, s)
  BY DEF SameEntries
<1>3. ASSUME s.size * 100 > UpPercent * C, s.idx = L PROVE FALSE
  <2>1. C = Capacities[L]
    BY <1>1, <1>3
  <2>2. Cardinality(Key) * 100 <= UpPercent * C /\ Cardinality(Key) \in Nat
    BY <2>1, RoomAssumption, FS_CardinalityType
  <2> QED
    BY <1>1, <1>3, <2>2
<1>4. CASE s.size * 100 > UpPercent * C
  <2>1. s.idx # L
    BY <1>3, <1>4
  <2>2. t = Rehash(s, s.idx + 1)
    <3> DEFINE d == UpPercent - DownPercent
    <3>1. d \in Nat /\ UpPercent = DownPercent + d /\ DownPercent \in Nat
      BY StorageAssumption
    <3>2. UpPercent * C = DownPercent * C + d * C /\ d * C \in Nat
      BY <1>1, <3>1
    <3>3. ~(s.size * 100 < DownPercent * C)
      BY <1>1, <1>4, <3>2
    <3>4. t = IF s.idx = Len(Capacities) THEN s ELSE Rehash(s, s.idx + 1)
      BY <1>4, <3>3 DEF Resize
    <3> QED
      BY <2>1, <3>4
  <2>3. s.idx \in 1..(L - 1) /\ s.idx + 1 \in 1..L
    BY <1>1, <2>1
  <2>4. C < Capacities[s.idx + 1] /\ Capacities[s.idx + 1] \in Nat
    <3>1. Capacities[s.idx] < Capacities[s.idx + 1]
      BY <2>3, RoomAssumption
    <3>2. Capacities[s.idx + 1] \in Nat
      BY <2>3, StorageAssumption
    <3> QED
      BY <1>1, <3>1, <3>2
  <2>5. WellFormed(t) /\ t.idx = s.idx + 1 /\ t.dead = 0 /\ t.size <= s.size
    BY <2>2, <2>3, RehashKeeps
  <2>6. t.size < Capacity(t)
    <3>1. t.size \in Nat /\ Capacity(t) = Capacities[s.idx + 1]
      BY <2>5, StoreFacts DEF Capacity, WellFormed
    <3> QED
      BY <1>1, <2>4, <2>5, <3>1
  <2>7. SameEntries(s, t)
    BY <1>1, <2>2, <2>3, <2>4, RehashKeepsEntries
  <2> QED
    BY <2>5, <2>6, <2>7 DEF Resized
<1>5. CASE ~(s.size * 100 > UpPercent * C) /\ s.size * 100 < DownPercent * C /\ s.idx # 1
  <2>1. t = Rehash(s, s.idx - 1)
    BY <1>5 DEF Resize
  <2>2. s.idx - 1 \in 1..(L - 1) /\ s.idx - 1 \in 1..L
    BY <1>1, <1>5
  <2>3. DownPercent * Capacities[s.idx] <= 100 * Capacities[s.idx - 1]
        /\ Capacities[s.idx - 1] \in Nat
    BY <1>1, <2>2, RoomAssumption, StorageAssumption
  <2>4. s.size < Capacities[s.idx - 1]
    BY <1>1, <1>5, <2>3
  <2>5. WellFormed(t) /\ t.idx = s.idx - 1 /\ t.dead = 0 /\ t.size <= s.size
    BY <2>1, <2>2, RehashKeeps
  <2>6. t.size < Capacity(t)
    <3>1. t.size \in Nat /\ Capacity(t) = Capacities[s.idx - 1]
      BY <2>5, StoreFacts DEF Capacity, WellFormed
    <3> QED
      BY <1>1, <2>3, <2>4, <2>5, <3>1
  <2>7. SameEntries(s, t)
    BY <1>1, <2>1, <2>2, <2>3, <2>4, RehashKeepsEntries
  <2> QED
    BY <2>5, <2>6, <2>7 DEF Resized
<1>6. CASE /\ ~(s.size * 100 > UpPercent * C)
           /\ ~(s.size * 100 < DownPercent * C /\ s.idx # 1)
  <2>1. t = s
    BY <1>6 DEF Resize
  <2>2. s.size * 100 <= UpPercent * C
    BY <1>1, <1>6
  <2> QED
    BY <1>2, <2>1, <2>2 DEF Resized
<1> QED
  BY <1>4, <1>5, <1>6

\* Slots in use, live or deleted, never take the whole table.
Roomy(s) ==
  /\ s.size + s.dead < Capacity(s)
  /\ s.dead * 100 <= ReducePercent * Capacity(s)

LEMMA ReduceDeletedKeeps ==
  ASSUME NEW s, WellFormed(s), Resized(s), NEW t, t = ReduceDeleted(s)
  PROVE  WellFormed(t) /\ SameEntries(s, t) /\ Roomy(t)
<1> DEFINE C == Capacity(s)
<1>1. /\ IsStore(s) /\ C \in Nat \ {0} /\ s.size \in Nat /\ s.dead \in Nat
      /\ s.idx \in 1..Len(Capacities) /\ C = Capacities[s.idx] /\ s.size <= C
      /\ UpPercent \in Nat /\ ReducePercent \in Nat /\ UpPercent + ReducePercent < 100
      /\ ReducePercent * C \in Nat /\ UpPercent * C \in Nat
  BY SizeIsBounded, StoreFacts, StorageAssumption, RoomAssumption DEF WellFormed, Capacity
<1>2. CASE s.dead * 100 > ReducePercent * C
  <2>1. t = Rehash(s, s.idx)
    BY <1>2 DEF ReduceDeleted
  <2>2. WellFormed(t) /\ t.idx = s.idx /\ t.dead = 0 /\ t.size <= s.size
    BY <1>1, <2>1, RehashKeeps
  <2>3. SameEntries(s, t)
    BY <1>1, <2>1, RehashKeepsEntries
  <2>4. t.size \in Nat /\ Capacity(t) = C
    BY <1>1, <2>2, StoreFacts DEF Capacity, WellFormed
  <2>5. s.size < C
    <3>1. CASE s.size * 100 <= UpPercent * C
      <4>1. 0 * 100 <= ReducePercent * C
        BY <1>1
      <4>2. s.size + 0 < C
        BY <1>1, <3>1, <4>1, SharesFit
      <4> QED
        BY <1>1, <4>2
    <3>2. CASE s.dead = 0 /\ s.size < C
      BY <3>2
    <3> QED
      BY <3>1, <3>2 DEF Resized
  <2>6. Roomy(t)
    BY <1>1, <2>2, <2>4, <2>5 DEF Roomy
  <2> QED
    BY <2>2, <2>3, <2>6
<1>3. CASE ~(s.dead * 100 > ReducePercent * C)
  <2>1. t = s
    BY <1>3 DEF ReduceDeleted
  <2>2. SameEntries(s, s)
    BY DEF SameEntries
  <2>3. s.dead * 100 <= ReducePercent * C
    BY <1>1, <1>3
  <2>4. s.size + s.dead < C
    <3>1. CASE s.size * 100 <= UpPercent * C
      BY <1>1, <2>3, <3>1, SharesFit
    <3>2. CASE s.dead = 0 /\ s.size < C
      BY <1>1, <3>2
    <3> QED
      BY <3>1, <3>2 DEF Resized
  <2> QED
    BY <2>1, <2>2, <2>3, <2>4 DEF Roomy
<1> QED
  BY <1>2, <1>3

LEMMA TidyKeeps ==
  ASSUME NEW s, WellFormed(s), NEW t, t = ReduceDeleted(Resize(s))
  PROVE  WellFormed(t) /\ SameEntries(s, t) /\ Roomy(t)
<1>1. WellFormed(Resize(s)) /\ SameEntries(s, Resize(s)) /\ Resized(Resize(s))
  BY ResizeKeeps
<1>2. WellFormed(t) /\ SameEntries(Resize(s), t) /\ Roomy(t)
  BY <1>1, ReduceDeletedKeeps
<1> QED
  BY <1>1, <1>2 DEF SameEntries

-----------------------------------------------------------------------------
(* The operations of a scope, as they change what the table has.           *)

LEMMA AddKeeps ==
  ASSUME NEW s, WellFormed(s), Roomy(s), NEW k \in Key, NEW v \in Value, Absent(s, k),
         NEW t, t = AddTo(s, k, v)
  PROVE  /\ WellFormed(t) /\ Roomy(t)
         /\ \A x, w : Has(t, x, w) <=> (x = k /\ w = v) \/ Has(s, x, w)
<1> DEFINE p == PlaceFor(s, k)
           u == Place(s, k, v)
<1>1. p # 0
  <2>1. SUFFICES ASSUME p = 0 PROVE FALSE
    OBVIOUS
  <2>2. s.size = Capacity(s)
    BY <2>1, NoPlaceIsFull
  <2>3. s.size \in Nat /\ s.dead \in Nat
    BY StoreFacts DEF WellFormed
  <2> QED
    BY <2>2, <2>3 DEF Roomy
<1>2. /\ WellFormed(u)
      /\ p \in (1..Capacity(s)) \ LiveSlots(s)
      /\ LiveSlots(u) = LiveSlots(s) \cup {p}
      /\ u.data[p] = Element(k, v)
      /\ \A q \in 1..Capacity(s) : q # p => u.data[q] = s.data[q]
  BY <1>1, PlaceKeeps
<1>3. t = ReduceDeleted(Resize(u))
  BY DEF AddTo
<1> HIDE DEF u, p
<1>4. WellFormed(t) /\ SameEntries(u, t) /\ Roomy(t)
  BY <1>2, <1>3, TidyKeeps
<1>5. u.data[p].key = k /\ u.data[p].value = v
  BY <1>2, ElementFacts
<1>6. \A q \in LiveSlots(s) : u.data[q] = s.data[q]
  BY <1>2, SlotsAreFinite DEF WellFormed
<1>7. \A x, w : Has(u, x, w) <=> (x = k /\ w = v) \/ Has(s, x, w)
  BY <1>2, <1>5, <1>6 DEF Has
<1> QED
  BY <1>4, <1>7 DEF SameEntries

LEMMA ChangeChanges ==
  ASSUME NEW s, WellFormed(s), NEW k \in Key, NEW v \in Value, FindIn(s, k) # 0,
         NEW t, t = SetValue(s, FindIn(s, k), v)
  PROVE  /\ WellFormed(t) /\ t.idx = s.idx /\ t.size = s.size /\ t.dead = s.dead
         /\ \A x, w : Has(t, x, w) <=> IF x = k THEN w = v ELSE Has(s, x, w)
<1> DEFINE p == FindIn(s, k)
<1>1. p \in LiveSlots(s) /\ s.data[p].key = k /\ NoDup(s) /\ IsStore(s)
  BY FindAnswers DEF WellFormed
<1> HIDE DEF p
<1>2. /\ WellFormed(t) /\ t.idx = s.idx /\ t.size = s.size /\ t.dead = s.dead
      /\ LiveSlots(t) = LiveSlots(s)
      /\ t.data[p].key = k /\ t.data[p].value = v
      /\ \A q \in 1..Capacity(s) : q # p => t.data[q] = s.data[q]
  BY <1>1, ChangeKeeps DEF p
<1>3. \A q \in LiveSlots(s) : q # p => t.data[q] = s.data[q] /\ s.data[q].key # k
  BY <1>1, <1>2, SlotsAreFinite DEF NoDup
<1>4. \A x, w : Has(t, x, w) <=> IF x = k THEN w = v ELSE Has(s, x, w)
  BY <1>1, <1>2, <1>3 DEF Has
<1> QED
  BY <1>2, <1>4

LEMMA DeleteKeeps ==
  ASSUME NEW s, WellFormed(s), NEW k \in Key, NEW t, t = DeleteFrom(s, k)
  PROVE  /\ WellFormed(t) /\ Roomy(t)
         /\ \A x, w : Has(t, x, w) <=> x # k /\ Has(s, x, w)
<1> DEFINE p == FindIn(s, k)
           u == Mark(s, k)
<1>1. t = ReduceDeleted(Resize(u))
  BY DEF DeleteFrom
<1>2. WellFormed(u) /\ \A x, w : Has(u, x, w) <=> x # k /\ Has(s, x, w)
  <2>1. CASE p = 0
    <3>1. u = s
      BY <2>1 DEF Mark
    <3>2. Absent(s, k)
      BY <2>1, MissedIsAbsent DEF WellFormed
    <3> QED
      BY <3>1, <3>2 DEF Has, Absent
  <2>2. CASE p # 0
    <3>1. p \in LiveSlots(s) /\ s.data[p].key = k /\ NoDup(s) /\ IsStore(s)
      BY <2>2, FindAnswers DEF WellFormed
    <3>2. /\ WellFormed(u) /\ LiveSlots(u) = LiveSlots(s) \ {p}
          /\ \A q \in 1..Capacity(s) : q # p => u.data[q] = s.data[q]
      BY <2>2, MarkKeeps
    <3> HIDE DEF p, u
    <3>3. \A q \in LiveSlots(u) : u.data[q] = s.data[q] /\ s.data[q].key # k
      BY <3>1, <3>2, SlotsAreFinite DEF NoDup
    <3> QED
      BY <3>1, <3>2, <3>3 DEF Has
  <2> QED
    BY <2>1, <2>2
<1> HIDE DEF u
<1>3. WellFormed(t) /\ SameEntries(u, t) /\ Roomy(t)
  BY <1>1, <1>2, TidyKeeps
<1> QED
  BY <1>2, <1>3 DEF SameEntries

-----------------------------------------------------------------------------
(* The table of a scope.                                                   *)

KInv == WellFormed(kv) /\ Roomy(kv)

LEMMA KInitInv ==
  ASSUME KInit
  PROVE  KInv
<1>1. 1 \in 1..Len(Capacities) /\ ReducePercent \in Nat
  BY StorageAssumption
<1>2. WellFormed(kv) /\ kv.size = 0 /\ kv.dead = 0
  BY <1>1, NewStoreKeeps DEF KInit
<1>3. Capacity(kv) \in Nat \ {0}
  BY <1>2, StoreFacts DEF WellFormed
<1>4. ReducePercent * Capacity(kv) \in Nat
  BY <1>1, <1>3
<1> QED
  BY <1>2, <1>3, <1>4 DEF KInv, Roomy

LEMMA ChangeStep ==
  ASSUME KInv, NEW k \in Key, NEW v \in Value, Change(k, v)
  PROVE  /\ KInv'
         /\ \A x, w : Has(kv', x, w) <=> IF x = k THEN w = v ELSE Has(kv, x, w)
<1>1. WellFormed(kv) /\ Roomy(kv) /\ IsStore(kv) /\ Reached(kv) /\ NoDup(kv)
  BY DEF KInv, WellFormed
<1>2. CASE FindIn(kv, k) = 0
  <2>1. kv' = AddTo(kv, k, v)
    BY <1>2 DEF Change
  <2>2. Absent(kv, k)
    BY <1>1, <1>2, MissedIsAbsent
  <2>3. /\ WellFormed(kv') /\ Roomy(kv')
        /\ \A x, w : Has(kv', x, w) <=> (x = k /\ w = v) \/ Has(kv, x, w)
    BY <1>1, <2>1, <2>2, AddKeeps
  <2>4. \A w : ~Has(kv, k, w)
    BY <2>2 DEF Absent, Has
  <2> QED
    BY <2>3, <2>4 DEF KInv
<1>3. CASE FindIn(kv, k) # 0
  <2>1. kv' = SetValue(kv, FindIn(kv, k), v)
    BY <1>3 DEF Change
  <2>2. /\ WellFormed(kv') /\ kv'.idx = kv.idx /\ kv'.size = kv.size /\ kv'.dead = kv.dead
        /\ \A x, w : Has(kv', x, w) <=> IF x = k THEN w = v ELSE Has(kv, x, w)
    BY <1>1, <1>3, <2>1, ChangeChanges
  <2>3. Roomy(kv')
    BY <1>1, <2>2 DEF Roomy, Capacity
  <2> QED
    BY <2>2, <2>3 DEF KInv
<1> QED
  BY <1>2, <1>3

LEMMA DelStep ==
  ASSUME KInv, NEW k \in Key, Del(k)
  PROVE  KInv' /\ \A x, w : Has(kv', x, w) <=> x # k /\ Has(kv, x, w)
BY DeleteKeeps DEF KInv, Del

LEMMA KNextInv ==
  ASSUME KInv, [KNext]_kv
  PROVE  KInv'
<1>1. CASE KNext
  BY <1>1, ChangeStep, DelStep DEF KNext
<1>2. CASE UNCHANGED kv
  BY <1>2 DEF KInv
<1> QED
  BY <1>1, <1>2

LEMMA InvImplies ==
  ASSUME KInv
  PROVE  KTypeOK /\ LiveIsFound /\ CountersAreRight /\ RoomLeft
<1>1. IsStore(kv) /\ Reached(kv) /\ NoDup(kv) /\ Counted(kv) /\ Roomy(kv)
  BY DEF KInv, WellFormed
<1>2. LiveIsFound
  BY <1>1, FindFinds DEF LiveIsFound
<1>3. RoomLeft
  <2> DEFINE C == Capacity(kv)
             A == LiveSlots(kv)
             B == DeadSlots(kv)
  <2>1. /\ C \in Nat \ {0} /\ DOMAIN kv.data = 1..C
        /\ \A p \in 1..C : kv.data[p] \in SlotType
    BY <1>1, StoreFacts
  <2>2. /\ IsFiniteSet(A) /\ IsFiniteSet(B) /\ Cardinality(A) \in Nat /\ Cardinality(B) \in Nat
        /\ kv.size = Cardinality(A) /\ kv.dead = Cardinality(B)
    BY <1>1, SlotsAreFinite DEF Counted
  <2>3. SUFFICES ASSUME \A p \in 1..C : kv.data[p].exists PROVE FALSE
    BY <1>1, <2>1 DEF RoomLeft, Roomy
  <2>4. 1..C \subseteq A \cup B
    BY <2>1, <2>3 DEF LiveSlots, DeadSlots, IsLive
  <2>5. Cardinality(1..C) = C
    BY <2>1, FS_Interval
  <2>6. /\ IsFiniteSet(A \cup B) /\ Cardinality(A \cap B) \in Nat
        /\ Cardinality(A \cup B) = Cardinality(A) + Cardinality(B) - Cardinality(A \cap B)
    <3>1. IsFiniteSet(A \cap B)
      BY <2>2, FS_Intersection
    <3>2. Cardinality(A \cap B) \in Nat
      BY <3>1, FS_CardinalityType
    <3> HIDE DEF A, B
    <3> QED
      BY <2>2, <3>2, FS_Union
  <2>7. Cardinality(1..C) <= Cardinality(A \cup B)
    BY <2>4, <2>6, FS_Subset
  <2>8. kv.size + kv.dead < C
    BY <1>1 DEF Roomy
  <2> HIDE DEF A, B, C
  <2> QED
    BY <2>1, <2>2, <2>5, <2>6, <2>7, <2>8
<1> QED
  BY <1>1, <1>2, <1>3 DEF KTypeOK, CountersAreRight, Counted

(***************************************************************************)
(* The table is well formed and roomy after every operation of a scope,    *)
(* whatever hash function, names and capacities there are.                 *)
(***************************************************************************)
THEOREM StorageInvariance == KSpec => []KInv
<1>1. KInit => KInv
  BY KInitInv
<1>2. KInv /\ [KNext]_kv => KInv'
  BY KNextInv
<1> QED
  BY <1>1, <1>2, PTL DEF KSpec

THEOREM StoreIsTyped == KSpec => []KTypeOK
<1>1. KInv => KTypeOK
  BY InvImplies
<1> QED
  BY <1>1, StorageInvariance, PTL

(***************************************************************************)
(* __find finds every live entry, and no name is in the table twice.       *)
(***************************************************************************)
THEOREM EntriesAreFound == KSpec => []LiveIsFound
<1>1. KInv => LiveIsFound
  BY InvImplies
<1> QED
  BY <1>1, StorageInvariance, PTL

(***************************************************************************)
(* _size and _deletedCtr count the live and the deleted slots.             *)
(***************************************************************************)
THEOREM CountersCount == KSpec => []CountersAreRight
<1>1. KInv => CountersAreRight
  BY InvImplies
<1> QED
  BY <1>1, StorageInvariance, PTL

(***************************************************************************)
(* A slot that was never used is left after every operation, so that a     *)
(* look-up of an absent name ends and an addition finds a place.           *)
(***************************************************************************)
THEOREM ThereIsRoom == KSpec => []RoomLeft
<1>1. KInv => RoomLeft
  BY InvImplies
<1> QED
  BY <1>1, StorageInvariance, PTL

-----------------------------------------------------------------------------
(* A scope is a map.                                                       *)

LEMMA ContentsHas ==
  ASSUME NEW s, WellFormed(s)
  PROVE  /\ \A x, w : Has(s, x, w) => x \in DOMAIN Contents(s) /\ Contents(s)[x] = w
         /\ \A x \in DOMAIN Contents(s) : Has(s, x, Contents(s)[x])
         /\ Contents(s) = [x \in DOMAIN Contents(s) |-> Contents(s)[x]]
<1> DEFINE D == {s.data[p].key : p \in LiveSlots(s)}
           c == Contents(s)
<1>1. NoDup(s)
  BY DEF WellFormed
<1>2. c = [k \in D |-> s.data[CHOOSE p \in LiveSlots(s) : s.data[p].key = k].value]
  BY DEF Contents
<1>3. DOMAIN c = D
  BY <1>2
<1>4. ASSUME NEW p \in LiveSlots(s)
      PROVE  s.data[p].key \in D /\ c[s.data[p].key] = s.data[p].value
  <2> DEFINE q == CHOOSE q \in LiveSlots(s) : s.data[q].key = s.data[p].key
  <2>1. q \in LiveSlots(s) /\ s.data[q].key = s.data[p].key
    OBVIOUS
  <2>2. q = p
    BY <1>1, <2>1 DEF NoDup
  <2>3. c[s.data[p].key] = s.data[q].value
    BY <1>2
  <2> QED
    BY <2>2, <2>3
<1>5. c = [x \in DOMAIN c |-> c[x]]
  BY <1>2, <1>3
<1> HIDE DEF c
<1>6. \A x, w : Has(s, x, w) => x \in D /\ c[x] = w
  BY <1>4 DEF Has
<1>7. \A x \in D : Has(s, x, c[x])
  BY <1>4 DEF Has
<1> HIDE DEF D
<1> QED
  BY <1>3, <1>5, <1>6, <1>7 DEF c

LEMMA ChangeIsMapChange ==
  ASSUME KInv, NEW k \in Key, NEW v \in Value, Change(k, v)
  PROVE  SM!MapChange(k, v)
<1> DEFINE c == Contents(kv)
           d == Contents(kv')
<1>1. WellFormed(kv) /\ WellFormed(kv')
  BY ChangeStep DEF KInv
<1>2. \A x, w : Has(kv', x, w) <=> IF x = k THEN w = v ELSE Has(kv, x, w)
  BY ChangeStep
<1>3. /\ \A x, w : Has(kv, x, w) => x \in DOMAIN c /\ c[x] = w
      /\ \A x \in DOMAIN c : Has(kv, x, c[x])
  BY <1>1, ContentsHas
<1>4. /\ \A x, w : Has(kv', x, w) => x \in DOMAIN d /\ d[x] = w
      /\ \A x \in DOMAIN d : Has(kv', x, d[x])
      /\ d = [x \in DOMAIN d |-> d[x]]
  BY <1>1, ContentsHas
<1> HIDE DEF c, d
<1>5. DOMAIN d = DOMAIN c \cup {k}
  <2>1. ASSUME NEW x \in DOMAIN d PROVE x \in DOMAIN c \cup {k}
    BY <1>2, <1>3, <1>4
  <2>2. ASSUME NEW x \in DOMAIN c \cup {k} PROVE x \in DOMAIN d
    <3>1. Has(kv', k, v)
      BY <1>2
    <3>2. x # k => Has(kv', x, c[x])
      BY <1>2, <1>3
    <3> QED
      BY <1>4, <3>1, <3>2
  <2> QED
    BY <2>1, <2>2
<1>6. \A x \in DOMAIN d : d[x] = IF x = k THEN v ELSE c[x]
  BY <1>2, <1>3, <1>4
<1>7. d = [x \in DOMAIN c \cup {k} |-> IF x = k THEN v ELSE c[x]]
  BY <1>4, <1>5, <1>6
<1> QED
  BY <1>7 DEF SM!MapChange, c, d

LEMMA DelIsMapDel ==
  ASSUME KInv, NEW k \in Key, Del(k)
  PROVE  SM!MapDel(k)
<1> DEFINE c == Contents(kv)
           d == Contents(kv')
<1>1. WellFormed(kv) /\ WellFormed(kv')
  BY DelStep DEF KInv
<1>2. \A x, w : Has(kv', x, w) <=> x # k /\ Has(kv, x, w)
  BY DelStep
<1>3. /\ \A x, w : Has(kv, x, w) => x \in DOMAIN c /\ c[x] = w
      /\ \A x \in DOMAIN c : Has(kv, x, c[x])
  BY <1>1, ContentsHas
<1>4. /\ \A x, w : Has(kv', x, w) => x \in DOMAIN d /\ d[x] = w
      /\ \A x \in DOMAIN d : Has(kv', x, d[x])
      /\ d = [x \in DOMAIN d |-> d[x]]
  BY <1>1, ContentsHas
<1> HIDE DEF c, d
<1>5. DOMAIN d = DOMAIN c \ {k}
  BY <1>2, <1>3, <1>4
<1>6. \A x \in DOMAIN d : d[x] = c[x]
  BY <1>2, <1>3, <1>4
<1>7. d = [x \in DOMAIN c \ {k} |-> c[x]]
  BY <1>4, <1>5, <1>6
<1> QED
  BY <1>7 DEF SM!MapDel, c, d

(***************************************************************************)
(* Every change and every deletion has on the contents of a scope the      *)
(* effect it has on a map, through every growth, shrinking and cleaning of *)
(* the table (scope.cpp:34-47 over kvstorage.h).                           *)
(***************************************************************************)
THEOREM ScopeIsAMap == KSpec => IsAMap
<1>1. KInit => SM!MapInit
  <2> SUFFICES ASSUME KInit PROVE SM!MapInit
    OBVIOUS
  <2>1. LiveSlots(kv) = {}
    BY StorageAssumption, NewStoreKeeps DEF KInit
  <2>2. Contents(kv) = [x \in {} |-> {}]
    BY <2>1 DEF Contents
  <2> QED
    BY <2>2 DEF SM!MapInit
<1>2. KInv /\ [KNext]_kv => [SM!MapNext]_(Contents(kv))
  <2> SUFFICES ASSUME KInv, [KNext]_kv PROVE [SM!MapNext]_(Contents(kv))
    OBVIOUS
  <2>1. CASE KNext
    BY <2>1, ChangeIsMapChange, DelIsMapDel DEF KNext, SM!MapNext
  <2>2. CASE UNCHANGED kv
    BY <2>2
  <2> QED
    BY <2>1, <2>2
<1> QED
  BY <1>1, <1>2, StorageInvariance, PTL DEF KSpec, IsAMap, SM!MapSpec
=============================================================================
