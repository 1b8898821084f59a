----------------------------- MODULE TunnelProbe -----------------------------
(***************************************************************************)
(* The probes that start a local tunnel client on a leased port: Xray      *)
(* (kind "xray"), MasterDNS, StormDNS and Slipstream (kind "dns"), under   *)
(* internal/core/scanner/probe.                                            *)
(* Their Run methods have one shape: lease a port, start the client, wait  *)
(* until something accepts connections on the port, measure through it,    *)
(* stop the client, try again if that is configured, release the port.     *)
(*                                                                         *)
(* The clients are libraries.  An Xray instance listens when Start         *)
(* returns.  The embedded MasterDNS and StormDNS clients (dns/embedded.go) *)
(* and libslipstream are handed out when their session is ready, which     *)
(* says nothing about the local listener: it may come later or, when the   *)
(* port is taken, never.  WaitOpen and the measurement connect to whoever  *)
(* listens on the port.                                                    *)
(***************************************************************************)
EXTENDS PortManager

CONSTANTS Workers,  \* the workers of the stage
          Tries,    \* attempts per address, Xray has one
          Foreign,  \* stands for the listener of another process
          Nobody    \* no measurement yet

ASSUME WorkersAssumption == Workers \subseteq Clients
ASSUME TriesAssumption == Tries \in Nat \ {0}

Kinds == {"xray", "dns"}

VARIABLES kind,    \* the probe of the stage
          ppc,     \* where each worker is
          tries,   \* failed attempts for the current address
          tunnel,  \* the worker's client runs
          via      \* history: whose listener the result came through

probeVars == <<kind, ppc, tries, tunnel, via>>

ProbeInit ==
    /\ kind \in Kinds
    /\ ppc = [w \in Workers |-> "off"]
    /\ tries = [w \in Workers |-> 0]
    /\ tunnel = [w \in Workers |-> FALSE]
    /\ via = [w \in Workers |-> Nobody]

MaxTries == IF kind = "xray" THEN 1 ELSE Tries

Go(w, l) == ppc' = [ppc EXCEPT ![w] = l]

(* Who answers on a busy port. *)
Owner(p) == IF p \in foreign THEN Foreign
            ELSE CHOOSE c \in Clients : listen[c] = p

-----------------------------------------------------------------------------
(* Run: the context is checked, then a port is leased. *)

RunEnter(w) ==
    /\ ppc[w] = "run"
    /\ IF ctxDone THEN Go(w, "idle") /\ UNCHANGED pmVars
                  ELSE Go(w, "get") /\ GetCall(w)
    /\ UNCHANGED <<kind, tries, tunnel, via>>

RunGet(w) ==
    /\ ppc[w] = "get"
    /\ GetStep(w)
    /\ Go(w, CASE gst'[w] = "leased" -> "boot"
               [] gst'[w] = "out"    -> "idle"
               [] OTHER              -> "get")
    /\ UNCHANGED <<kind, tries, tunnel, via>>

(* RunTunnel, or GenerateConfig and Start: first the context again. *)
BootCheck(w) ==
    /\ ppc[w] = "boot"
    /\ Go(w, IF ctxDone THEN "failed" ELSE "starting")
    /\ UNCHANGED <<pmVars, kind, tries, tunnel, via>>

(* The client listens and is handed out. *)
BootUp(w) ==
    /\ ppc[w] = "starting"
    /\ Bind(w)
    /\ tunnel' = [tunnel EXCEPT ![w] = TRUE]
    /\ Go(w, "wait")
    /\ UNCHANGED <<kind, tries, via>>

(* bootEmbedded: the session is ready, the listener is not there. *)
BootDeaf(w) ==
    /\ ppc[w] = "starting"
    /\ kind # "xray"
    /\ tunnel' = [tunnel EXCEPT ![w] = TRUE]
    /\ Go(w, "wait")
    /\ UNCHANGED <<pmVars, kind, tries, via>>

(* The client does not start; what was started is stopped again. *)
BootFails(w) ==
    /\ ppc[w] = "starting"
    /\ Go(w, "failed")
    /\ UNCHANGED <<pmVars, kind, tries, tunnel, via>>

(* The listener of a running client comes late. *)
LateBind(w) ==
    /\ ppc[w] \in {"wait", "measure"}
    /\ kind # "xray"
    /\ Bind(w)
    /\ UNCHANGED probeVars

(* A second has passed, or the context is done, or somebody answers. *)
WaitOpen(w) ==
    /\ ppc[w] = "wait"
    /\ \/ Busy(held[w]) /\ Go(w, "measure")
       \/ Go(w, "failed")
    /\ UNCHANGED <<pmVars, kind, tries, tunnel, via>>

(* MeasureLatency and the speed tests, each with a timeout. *)
Measure(w) ==
    /\ ppc[w] = "measure"
    /\ \/ /\ Busy(held[w])
          /\ via' = [via EXCEPT ![w] = Owner(held[w])]
          /\ Go(w, "passed")
       \/ Go(w, "failed") /\ UNCHANGED via
    /\ UNCHANGED <<pmVars, kind, tries, tunnel>>

(* Mutant: every attempt gives the port back, and Run does it again. *)
StopTunnelReleases(w) ==
    /\ ppc[w] \in {"passed", "failed"}
    /\ tunnel' = [tunnel EXCEPT ![w] = FALSE]
    /\ tries' = [tries EXCEPT ![w] = @ + 1]
    /\ listen' = [listen EXCEPT ![w] = NoPort]
    /\ Put(held[w])
    /\ Go(w, IF ppc[w] = "failed" /\ ~ctxDone /\ tries[w] + 1 < MaxTries
               THEN "boot" ELSE "release")
    /\ UNCHANGED <<lastAdded, done, ctxDone, gst, held, foreign, wraps, kind,
                   via>>

(* The deferred close of the client, then the loop over the attempts. *)
StopTunnel(w) ==
    /\ ppc[w] \in {"passed", "failed"}
    /\ tunnel' = [tunnel EXCEPT ![w] = FALSE]
    /\ tries' = [tries EXCEPT ![w] = @ + 1]
    /\ IF listen[w] # NoPort THEN Unbind(w) ELSE UNCHANGED pmVars
    /\ Go(w, IF ppc[w] = "failed" /\ ~ctxDone /\ tries[w] + 1 < MaxTries
               THEN "boot" ELSE "release")
    /\ UNCHANGED <<kind, via>>

(* Mutant: the port is released only after a result. *)
RunReleaseOnSuccess(w) ==
    /\ ppc[w] = "release"
    /\ IF via[w] # Nobody THEN Release(w) ELSE UNCHANGED pmVars
    /\ Go(w, "idle")
    /\ tries' = [tries EXCEPT ![w] = 0]
    /\ via' = [via EXCEPT ![w] = Nobody]
    /\ UNCHANGED <<kind, tunnel>>

RunRelease(w) ==
    /\ ppc[w] = "release"
    /\ Release(w)
    /\ Go(w, "idle")
    /\ tries' = [tries EXCEPT ![w] = 0]
    /\ via' = [via EXCEPT ![w] = Nobody]
    /\ UNCHANGED <<kind, tunnel>>

-----------------------------------------------------------------------------
(***************************************************************************)
(* Before nextPort starts over, no result is measured through the tunnel   *)
(* of another worker, although a client may be handed out without a        *)
(* listener and WaitOpen is content with any listener on the port.         *)
(***************************************************************************)
NoCrosstalk ==
    ~wraps => \A w \in Workers : via[w] \in {w, Foreign, Nobody}
=============================================================================
