---------------------------- MODULE MCVmThreads ----------------------------
(***************************************************************************)
(* VmThreads for TLC.  The configurations choose the interpreters and what *)
(* their programs do.                                                      *)
(***************************************************************************)
EXTENDS VmThreadsInv, TLC

CONSTANTS i1, i2, i3

\* Every program may start and join any thread.
AnyPair == Interp \X Interp

\* i1 starts i2, which starts i3; i1 and i2 both join i3.
Chain == {<<i1, i2>>, <<i2, i3>>}
BothJoin == {<<i1, i3>>, <<i2, i3>>}

\* The interpreters other than Main are interchangeable.
Symmetry == Permutations(Interp \ {Main})
=============================================================================
