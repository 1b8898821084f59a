---------------------------- MODULE MCResultMerge ----------------------------
(* Latencies for the runs of ResultMerge: some whose whole milliseconds the  *)
(* parser keeps, and two of the same millisecond that it rounds differently. *)
EXTENDS ResultMerge

Kept == {4, 20}
Fractions == {22, 29}
=============================================================================
