---------------------------- MODULE MCHeapLimit ----------------------------
(***************************************************************************)
(* HeapLimit for TLC: a word of two bits, so that the room wraps around.   *)
(***************************************************************************)
EXTENDS HeapLimit

NoNesting == [i \in Interp |-> 0]
MCLetters == [S \in SUBSET Obj |-> 2 * Cardinality(S \ Lists)]
MCOptions == {[n |-> 3, unit |-> ""], [n |-> 1, unit |-> "mb"]}
=============================================================================
