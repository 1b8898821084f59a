----------------------------- MODULE MCBatchChain -----------------------------
(* Workers of the two stages for the runs of BatchChain. *)
EXTENDS BatchChain, TLC

CONSTANTS a1, a2, b1, b2

MCStageOf == [w \in Workers |-> IF w \in {a1, a2} THEN 1 ELSE 2]

Symmetry == Permutations(IPs)
=============================================================================
