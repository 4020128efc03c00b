-------------------------- MODULE MCRecorderManager --------------------------
(* Instances of RecorderManager for TLC. *)
EXTENDS RecorderManager, TLC

Symmetry == Permutations(Handlers)
=============================================================================
