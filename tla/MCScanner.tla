------------------------------ MODULE MCScanner ------------------------------
(* A scanner from the menu to its end: its stages are built, and if its last *)
(* probe is one that leases ports (Xray, MasterDNS, StormDNS, Slipstream) it *)
(* runs and is closed.  How the other probes end is in DialRace and IcmpProbe.*)
EXTENDS ScannerLifecycle, StageBuilder

lifeNow == bpc = "handed"
Leases == {"xray", "slipstream", "masterdns", "stormdns"}

ScanInit ==
    /\ BuildInit /\ Init
    /\ kind = IF wanted = "xray" THEN "xray" ELSE "dns"

\* The scanner that was built is run; how it was built makes no difference
\* any more, except for the kind of its last probe.
HandOver ==
    /\ bpc = "running" /\ wanted \in Leases
    /\ bpc' = "handed"
    /\ wanted' = "tcp" /\ conf' = "used" /\ tun' = OwnPath /\ todo' = <<>>
    /\ built' = <<>> /\ added' = <<>> /\ chainMode' = "none"
    /\ UNCHANGED <<refused, fate, vars>>

ScanNext ==
    \/ BuildNext /\ UNCHANGED vars
    \/ HandOver
    \/ lifeNow /\ Next /\ UNCHANGED buildVars

\* The fairness of ScannerLifecycle, once the scanner is handed over.
ScanFairness ==
    /\ WF_vars(lifeNow /\ RunStep)
    /\ WF_vars(lifeNow /\ CloseStep)
    /\ WF_vars(lifeNow /\ WaiterStep)
    /\ SF_vars(lifeNow /\ ProbeGetsPort /\ GetGiveUp(Runner))
    /\ \A w \in Workers :
         WF_vars(lifeNow /\ WorkerRuns(w)) /\ SF_vars(lifeNow /\ ProbeStep(w) /\ GetGiveUp(w))

allVars == <<vars, buildVars>>
ScanSpec == ScanInit /\ [][ScanNext]_allVars /\ ScanFairness
=============================================================================
