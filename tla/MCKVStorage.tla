---------------------------- MODULE MCKVStorage ----------------------------
(***************************************************************************)
(* KVStorage for TLC: the first capacities and the percentages of the      *)
(* source, and names that collide with each other, wrap around the end of  *)
(* the array, and part when the capacity changes.                          *)
(***************************************************************************)
EXTENDS SharedScope

MCCapacities == <<7, 17, 53>>
\* 5, 12 and 33 share a position at capacity 7; 5, 22 and 39 share one at
\* capacity 17, and 33 and 50 the last one.
MCHash == [k \in Key |-> k]
=============================================================================
