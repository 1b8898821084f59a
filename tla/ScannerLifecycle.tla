-------------------------- MODULE ScannerLifecycle --------------------------
(***************************************************************************)
(* A scanner from Run to Close (internal/core/scanner/scanner.go) with a   *)
(* stage of tunnel probes and the port manager.  The user interface calls  *)
(* Run once, in a goroutine of its own, and Close at any time.  The chain  *)
(* of module StreamChain is reduced to what matters here: the probe is     *)
(* initialised, then workers take addresses until there are none or the    *)
(* context is done.                                                        *)
(***************************************************************************)
EXTENDS TunnelProbe

CONSTANTS Runner,      \* the goroutine of Run
          Addresses,   \* bound: how many addresses the input has
          MaxForeign   \* bound: ports other processes use at a time

ASSUME RunnerAssumption == Clients = Workers \cup {Runner} /\ Runner \notin Workers
ASSUME BoundsAssumption == Addresses \in Nat /\ MaxForeign \in Nat

VARIABLES started,  \* atomic.Bool
          closed,   \* atomic.Bool
          wg,       \* the counter of the wait group
          stopped,  \* pause.Stop was called
          rpc,      \* where Run is
          xpc,      \* where Close is
          waiter,   \* the goroutine of Close: "none", "waiting", "closing",
                    \* "done"
          left      \* addresses not yet taken

lifeVars == <<started, closed, wg, stopped, rpc, xpc, waiter, left>>
vars == <<pmVars, probeVars, lifeVars>>

Init ==
    /\ PMInit
    /\ ProbeInit
    /\ started = FALSE /\ closed = FALSE
    /\ wg = 0
    /\ stopped = FALSE
    /\ rpc = "idle" /\ xpc = "idle"
    /\ waiter = "none"
    /\ left = Addresses

-----------------------------------------------------------------------------
(* Run *)

RunCheck ==
    /\ rpc = "idle"
    /\ rpc' = IF closed \/ started \/ ctxDone THEN "returned" ELSE "checked"
    /\ UNCHANGED <<pmVars, probeVars, started, closed, wg, stopped, xpc,
                   waiter, left>>

RunSwap ==
    /\ rpc = "checked"
    /\ started' = TRUE
    /\ rpc' = "swapped"
    /\ UNCHANGED <<pmVars, probeVars, closed, wg, stopped, xpc, waiter, left>>

RunAdd ==
    /\ rpc = "swapped"
    /\ wg' = wg + 1
    /\ rpc' = "start"
    /\ UNCHANGED <<pmVars, probeVars, started, closed, stopped, xpc, waiter,
                   left>>

(* runSequential looks at the context before it builds a stage. *)
ChainSkips ==
    /\ rpc = "start"
    /\ ctxDone
    /\ rpc' = "ended"
    /\ UNCHANGED <<pmVars, probeVars, started, closed, wg, stopped, xpc,
                   waiter, left>>

(* The stage is built; the probes other than Xray need no initialisation. *)
ChainStart ==
    /\ rpc = "start"
    /\ IF kind = "xray"
         THEN rpc' = "init" /\ GetCall(Runner) /\ UNCHANGED ppc
         ELSE /\ rpc' = "chain"
              /\ ppc' = [w \in Workers |-> "idle"]
              /\ UNCHANGED pmVars
    /\ UNCHANGED <<kind, tries, tunnel, via, started, closed, wg, stopped,
                   xpc, waiter, left>>

(* Init of the Xray probe: a port for the validation of the template. *)
ProbeGetsPort ==
    /\ rpc = "init"
    /\ GetStep(Runner)
    /\ rpc' = CASE gst'[Runner] = "leased" -> "validate"
                [] gst'[Runner] = "out"    -> "ended"
                [] OTHER                   -> "init"
    /\ UNCHANGED <<probeVars, started, closed, wg, stopped, xpc, waiter, left>>

ProbeValidates ==
    /\ rpc = "validate"
    /\ Release(Runner)
    /\ \/ rpc' = "ended" /\ UNCHANGED ppc
       \/ rpc' = "chain" /\ ppc' = [w \in Workers |-> "idle"]
    /\ UNCHANGED <<kind, tries, tunnel, via, started, closed, wg, stopped,
                   xpc, waiter, left>>

(* The workers: runWorker's checkpoint and its select. *)
Checkpoint(w) ==
    /\ ppc[w] = "idle"
    /\ Go(w, IF stopped \/ ctxDone THEN "exited" ELSE "select")
    /\ UNCHANGED <<pmVars, kind, tries, tunnel, via, lifeVars>>

Take(w) ==
    /\ ppc[w] = "select"
    /\ \/ left > 0 /\ left' = left - 1 /\ Go(w, "run")
       \/ (ctxDone \/ left = 0) /\ Go(w, "exited") /\ UNCHANGED left
    /\ UNCHANGED <<pmVars, kind, tries, tunnel, via, started, closed, wg,
                   stopped, rpc, xpc, waiter>>

ChainEnds ==
    /\ rpc = "chain"
    /\ \A w \in Workers : ppc[w] = "exited"
    /\ rpc' = "ended"
    /\ UNCHANGED <<pmVars, probeVars, started, closed, wg, stopped, xpc,
                   waiter, left>>

(* The deferred calls: pause.Stop, then wg.Done. *)
RunStop ==
    /\ rpc = "ended"
    /\ stopped' = TRUE
    /\ rpc' = "stopped"
    /\ UNCHANGED <<pmVars, probeVars, started, closed, wg, xpc, waiter, left>>

RunDone ==
    /\ rpc = "stopped"
    /\ wg' = wg - 1
    /\ rpc' = "returned"
    /\ UNCHANGED <<pmVars, probeVars, started, closed, stopped, xpc, waiter,
                   left>>

-----------------------------------------------------------------------------
(* Close *)

CloseMark ==
    /\ xpc = "idle"
    /\ closed' = TRUE
    /\ xpc' = "marked"
    /\ UNCHANGED <<pmVars, probeVars, started, wg, stopped, rpc, waiter, left>>

CloseCancel ==
    /\ xpc = "marked"
    /\ CancelCtx
    /\ xpc' = "canceled"
    /\ UNCHANGED <<probeVars, started, closed, wg, stopped, rpc, waiter, left>>

(* pause.Stop, then the goroutine that waits for Run. *)
CloseStop ==
    /\ xpc = "canceled"
    /\ stopped' = TRUE
    /\ xpc' = "waiting"
    /\ waiter' = "waiting"
    /\ UNCHANGED <<pmVars, probeVars, started, closed, wg, rpc, left>>

(* Mutant: the goroutine does not wait for Run. *)
WaiterWakesAtOnce ==
    /\ waiter = "waiting"
    /\ waiter' = "closing"
    /\ UNCHANGED <<pmVars, probeVars, started, closed, wg, stopped, rpc, xpc,
                   left>>

WaiterWakes ==
    /\ waiter = "waiting"
    /\ wg = 0
    /\ waiter' = "closing"
    /\ UNCHANGED <<pmVars, probeVars, started, closed, wg, stopped, rpc, xpc,
                   left>>

WaiterCloses ==
    /\ waiter = "closing"
    /\ Close
    /\ waiter' = "done"
    /\ UNCHANGED <<probeVars, started, closed, wg, stopped, rpc, xpc, left>>

(* Done, or the timer of ten seconds was faster. *)
CloseReturns ==
    /\ xpc = "waiting"
    /\ \/ waiter = "done" /\ xpc' = "nil"
       \/ xpc' = "timeout"
    /\ UNCHANGED <<pmVars, probeVars, started, closed, wg, stopped, rpc,
                   waiter, left>>

-----------------------------------------------------------------------------
(* Other processes *)

OtherProcess ==
    /\ \E p \in Port :
         \/ Cardinality(foreign) < MaxForeign /\ ForeignBind(p)
         \/ ForeignLeave(p)
    /\ UNCHANGED <<probeVars, lifeVars>>

ProbeStep(w) ==
    /\ \/ RunEnter(w) \/ RunGet(w) \/ BootCheck(w) \/ BootUp(w) \/ BootDeaf(w)
       \/ BootFails(w) \/ LateBind(w) \/ WaitOpen(w) \/ Measure(w)
       \/ StopTunnel(w) \/ RunRelease(w)
    /\ UNCHANGED lifeVars

RunStep == RunSwap \/ RunAdd \/ ChainSkips \/ ChainStart \/ ProbeGetsPort
           \/ ProbeValidates \/ ChainEnds \/ RunStop \/ RunDone

CloseStep == CloseCancel \/ CloseStop \/ CloseReturns

WaiterStep == WaiterWakes \/ WaiterCloses

Next ==
    \/ RunCheck
    \/ RunStep
    \/ CloseMark
    \/ CloseStep
    \/ WaiterStep
    \/ OtherProcess
    \/ \E w \in Workers : Checkpoint(w) \/ Take(w) \/ ProbeStep(w)

Spec == Init /\ [][Next]_vars

(***************************************************************************)
(* Goroutines run, and the calls of a probe end, with one exception: the   *)
(* start of a DNS tunnel (bootEmbedded has no timeout of its own) only     *)
(* ends for certain when the context is done.  A select in Get that is     *)
(* repeated for ever with its context done takes that case once, because   *)
(* Go chooses at random among the ready cases.  Nobody is forced to call   *)
(* Run or Close.                                                           *)
(***************************************************************************)
WorkerRuns(w) ==
    /\ Checkpoint(w) \/ Take(w) \/ ProbeStep(w)
    /\ ppc[w] = "starting" => kind = "xray" \/ ctxDone

Fairness ==
    /\ WF_vars(RunStep)
    /\ WF_vars(CloseStep)
    /\ WF_vars(WaiterStep)
    /\ SF_vars(ProbeGetsPort /\ GetGiveUp(Runner))
    /\ \A w \in Workers :
         WF_vars(WorkerRuns(w)) /\ SF_vars(ProbeStep(w) /\ GetGiveUp(w))

FairSpec == Spec /\ Fairness

-----------------------------------------------------------------------------
(***************************************************************************)
(* When Close has returned without an error, and also when Run has         *)
(* returned, nothing of a probe is left: no worker is in a probe, no       *)
(* client runs or listens and no worker has a port.  This holds although   *)
(* Close may slip in between the start of Run and its wg.Add and then      *)
(* does not wait for it: the context is done before any worker starts.     *)
(***************************************************************************)
QuietAtEnd ==
    (xpc = "nil" \/ rpc = "returned") =>
        /\ \A w \in Workers : ppc[w] \in {"off", "idle", "exited"}
        /\ \A w \in Workers : ~tunnel[w] /\ held[w] = NoPort
        /\ \A c \in Clients : listen[c] = NoPort

(***************************************************************************)
(* Once Close is called it returns, and Run returns too, also when workers *)
(* wait for a port while the pool is empty: the manager is closed only     *)
(* after Run, so Get has to listen to the context.                         *)
(***************************************************************************)
CloseEndsScan ==
    closed ~> /\ xpc \in {"nil", "timeout"}
              /\ rpc \in {"idle", "returned"}
=============================================================================
