----------------------------- MODULE ResultStore -----------------------------
(***************************************************************************)
(* What a result file is to its readers: a dictionary that has, for every  *)
(* key, the best latency merged so far.  A batch is absorbed as a whole,   *)
(* and a crash leaves one of the dictionaries that have been visible since *)
(* the last one that was safe.                                             *)
(***************************************************************************)
EXTENDS Naturals

CONSTANTS Keys, Latencies, None

VARIABLES best, \* for each key the best latency in milliseconds, or None
          kept  \* what a crash may leave of it

storeVars == <<best, kept>>

Dictionary == [Keys -> Latencies \cup {None}]

Improves(a, b) == a # None /\ (b = None \/ a < b)

(* The entry of a key is the better one of the two. *)
Absorbed(d, batch) ==
    [k \in Keys |-> IF Improves(batch[k], d[k]) THEN batch[k] ELSE d[k]]

Init ==
    /\ best = [k \in Keys |-> None]
    /\ kept = {best}

Absorb(batch) ==
    /\ best' = Absorbed(best, batch)
    /\ kept' = kept \cup {best'}

MakeSafe ==
    /\ kept' = {best}
    /\ UNCHANGED best

Crash ==
    /\ best' \in kept
    /\ kept' = {best'}

Next == MakeSafe \/ Crash \/ \E batch \in Dictionary : Absorb(batch)

Spec == Init /\ [][Next]_storeVars
=============================================================================
