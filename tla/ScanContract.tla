---------------------------- MODULE ScanContract ----------------------------
(***************************************************************************)
(* What a scan promises whatever pipeline mode runs it: results are found  *)
(* one at a time, each address at most once, never more than the limit and *)
(* never after the end; what is saved was found; and a scan that returns   *)
(* nil has saved what it found and lost none of it, unless writer errors   *)
(* are ignored.                                                            *)
(***************************************************************************)
EXTENDS Naturals, FiniteSets

CONSTANTS IPs, Limit

VARIABLES lenient, \* writer errors are ignored
          found,   \* addresses the last stage reported
          saved,   \* addresses handed to the last stage's writer
          lost,    \* a writer lost results it had taken
          outcome  \* "none", "nil" or "error"

contractVars == <<lenient, found, saved, lost, outcome>>

Init ==
    /\ lenient \in BOOLEAN
    /\ found = {} /\ saved = {} /\ lost = FALSE
    /\ outcome = "none"

Find(ip) ==
    /\ outcome = "none"
    /\ ip \notin found
    /\ Limit > 0 => Cardinality(found) < Limit
    /\ found' = found \cup {ip}
    /\ UNCHANGED <<lenient, saved, lost, outcome>>

Save(ip) ==
    /\ outcome = "none"
    /\ ip \in found
    /\ saved' = saved \cup {ip}
    /\ UNCHANGED <<lenient, found, lost, outcome>>

Lose ==
    /\ outcome = "none"
    /\ lost' = TRUE
    /\ UNCHANGED <<lenient, found, saved, outcome>>

\* The closing of the last writer may be what fails the scan.
Finish ==
    /\ outcome = "none"
    /\ \/ outcome' = "error" /\ lost' \in {lost, TRUE}
       \/ outcome' = "nil" /\ (lenient \/ (saved = found /\ ~lost)) /\ UNCHANGED lost
    /\ UNCHANGED <<lenient, found, saved>>

Next == Lose \/ Finish \/ \E ip \in IPs : Find(ip) \/ Save(ip)

Spec == Init /\ [][Next]_contractVars
=============================================================================
