----------------------------- MODULE HeapLimit -----------------------------
(***************************************************************************)
(* The limit of the heap (-Xmx in src/main.cpp, max_hs_ in src/gc.cpp), on *)
(* top of Collector.                                                       *)
(*                                                                         *)
(* max_hs_ is what is left of the limit: registering an object takes its   *)
(* size away and deleting it gives that back.  It is a size_t: an integer  *)
(* modulo Word.  The bytes of a string are taken away with the object that *)
(* holds it and not given back.                                            *)
(***************************************************************************)
EXTENDS CollectorInv, Integers

CONSTANTS
  Word,                  \* 2^64
  ObjSize,               \* sizeof(ManagedObject)
  Letters,               \* Letters[S]: bytes of the strings the objects of S hold
  NoOption,
  Options                \* the values of -Xmx: a number and a unit

ASSUME HeapLimitAssumption ==
  /\ Word \in Nat \ {0}
  /\ ObjSize \in Nat
  /\ Letters \in [SUBSET Obj -> Nat]
  /\ \A opt \in Options \ {NoOption} : opt.n \in Int

VARIABLES
  option,                \* NoOption: need_check_hs_ is false
  max_hs,
  spelled                \* history: bytes of all strings ever registered

account == <<option, max_hs, spelled>>
hvars == <<cvars, account>>

Wrapped(n) == n % Word

\* The last two letters of the argument.
HeapSize(n, unit) ==
  CASE unit = "mb" -> n * 1024
    [] unit = "gb" -> n * 1024 * 1024
    [] OTHER -> n

\* Without the option max_hs_ is size_t(-1).
Given == IF option = NoOption THEN Wrapped(-1) ELSE Wrapped(HeapSize(option.n, option.unit))

HInit ==
  /\ CInit
  /\ option \in {NoOption} \cup Options
  /\ max_hs = Given
  /\ spelled = 0

\* The objects of the queues are paid for.  An unsigned integer is never less
\* than zero, so that the exception "max heap size exceeded" is not a case.
HRegister ==
  /\ Register
  /\ LET new == left' \ left
         taken == ObjSize * Cardinality(new) + Letters[new]
     IN IF option = NoOption THEN UNCHANGED <<max_hs, spelled>>
        ELSE /\ max_hs' = Wrapped(max_hs - taken)
             /\ spelled' = Wrapped(spelled + Letters[new])
  /\ UNCHANGED option

\* Mutation: what is deleted is not given back.
HSweep_keepsRoom ==
  /\ Sweep
  /\ UNCHANGED account
HSweep ==
  /\ Sweep
  /\ max_hs' = IF option = NoOption THEN max_hs
               ELSE Wrapped(max_hs + ObjSize * Cardinality(left \ left'))
  /\ UNCHANGED <<option, spelled>>

HCollectCycle ==
  \/ HRegister \/ HSweep
  \/ /\ Stop \/ End \/ MarkRoots \/ MarkDeleted \/ \E o \in Obj : MarkKids(o)
     /\ UNCHANGED account

HNext ==
  \/ (\E i \in Interp : Mutate(i)) /\ UNCHANGED account
  \/ HCollectCycle
  \/ CollectOver /\ UNCHANGED account

HSpec == HInit /\ [][HNext]_hvars

\* As CFairSpec: the collector's thread is scheduled.
HFairSpec == HSpec /\ WF_hvars(HCollectCycle)

-----------------------------------------------------------------------------

(***************************************************************************)
(* What is left of the limit is the limit without the objects in the books *)
(* of the collector and without every string that was ever in them, modulo *)
(* the word, at any time and over any number of collections: an object is  *)
(* paid for once and given back once, whether it was freed by the first    *)
(* sweep it met or a later one (gc.cpp:73, 134-138).                       *)
(***************************************************************************)
RoomIsRight ==
  max_hs = IF option = NoOption THEN Wrapped(-1)
           ELSE Wrapped(HeapSize(option.n, option.unit)
                          - ObjSize * Cardinality(left) - spelled)
=============================================================================
