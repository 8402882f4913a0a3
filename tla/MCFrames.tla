------------------------------ MODULE MCFrames ------------------------------
(* Frames for TLC: addresses of scopes other than Main are interchangeable. *)
EXTENDS Frames, TLC

FramesSymmetry == Permutations(Scope \ {Main})
=============================================================================
