---------------------------- MODULE MCCollector ----------------------------
(***************************************************************************)
(* Collector for TLC.                                                      *)
(***************************************************************************)
EXTENDS CollectorInv, TLC

\* Who keeps an object in a local across a call: nobody, the main program, a
\* thread.
NoNesting == [i \in Interp |-> 0]
MainNesting == [i \in Interp |-> IF i = Main THEN 1 ELSE 0]
ThreadNesting == [i \in Interp |-> IF i = Main THEN 0 ELSE 1]

\* List addresses are interchangeable, and so are the others.
CollectorSymmetry == Permutations(Lists) \cup Permutations(Obj \ Lists)
=============================================================================
