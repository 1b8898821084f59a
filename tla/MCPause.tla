------------------------------- MODULE MCPause -------------------------------
(* Symmetry of the workers for runs of PauseController without liveness. *)
EXTENDS PauseController, TLC

Symmetry == Permutations(Workers)
=============================================================================
