----------------------------- MODULE MCLiveState -----------------------------
(* Instances of LiveState for TLC. *)
EXTENDS LiveState, TLC

Symmetry == Permutations(Handlers)
=============================================================================
