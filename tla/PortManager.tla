----------------------------- MODULE PortManager -----------------------------
(***************************************************************************)
(* The pool of local ports that tunnel probes lease                        *)
(* (internal/core/scanner/portmgr/portmgr.go).                             *)
(*                                                                         *)
(* The pool is a buffered channel; which of its ports a Get takes does not *)
(* matter here, so it is a bag with its length.  A port is checked by      *)
(* binding it for a moment: it is busy while another process, or the       *)
(* tunnel of a client, listens on it.  Between that check and the moment   *)
(* the client's own tunnel listens, anybody may bind the port.             *)
(*                                                                         *)
(* PMNext is the manager with clients that use it as they should: a client *)
(* listens only on the port it leased and stops before it releases it.     *)
(***************************************************************************)
EXTENDS Integers, FiniteSets

CONSTANTS Clients,   \* goroutines that lease ports
          Start,     \* the first port of the pool
          Count,     \* number of ports in circulation
          Ephemeral  \* ephemeralPort: no port from here on is handed out

ASSUME PortsAssumption ==
    /\ Start \in Nat \ {0} /\ Count \in Nat \ {0} /\ Ephemeral \in Nat
    /\ Start + Count <= Ephemeral
ASSUME ClientsAssumption == IsFiniteSet(Clients)

Port == Start..(Ephemeral - 1)
NoPort == 0

VARIABLES pool,      \* how often each port is in the channel
          queued,    \* the length of the channel
          lastAdded, \* lastAddedPort
          done,      \* the manager is closed
          ctxDone,   \* the context of the callers is cancelled
          gst,       \* where each client is in Get; "leased" after it
          held,      \* the port in the hands of a client
          listen,    \* the port the tunnel of a client listens on
          foreign,   \* ports other processes listen on
          wraps      \* history: nextPort has started over

pmVars == <<pool, queued, lastAdded, done, ctxDone, gst, held, listen,
            foreign, wraps>>

PMInit ==
    /\ pool = [p \in Port |-> IF p < Start + Count THEN 1 ELSE 0]
    /\ queued = Count
    /\ lastAdded = Start + Count - 1
    /\ done = FALSE
    /\ ctxDone = FALSE
    /\ gst = [c \in Clients |-> "out"]
    /\ held = [c \in Clients |-> NoPort]
    /\ listen = [c \in Clients |-> NoPort]
    /\ foreign = {}
    /\ wraps = FALSE

(* portAvailable *)
Busy(p) == p \in foreign \/ \E c \in Clients : listen[c] = p

(* Mutant: the counter is raised after it was read. *)
NextPortStale == lastAdded

(* nextPort starts over below the ephemeral range. *)
NextPort == IF lastAdded + 1 >= Ephemeral THEN Start ELSE lastAdded + 1

(* A send that gives up when the channel is full. *)
Put(p) ==
    IF queued < Count
      THEN /\ pool' = [pool EXCEPT ![p] = @ + 1]
           /\ queued' = queued + 1
      ELSE UNCHANGED <<pool, queued>>

-----------------------------------------------------------------------------
(* Get *)

GetCall(c) ==
    /\ gst[c] = "out"
    /\ gst' = [gst EXCEPT ![c] = "get"]
    /\ UNCHANGED <<pool, queued, lastAdded, done, ctxDone, held, listen,
                   foreign, wraps>>

(* Mutant: Get does not listen to its context. *)
GetGiveUpIgnoresCtx(c) ==
    /\ gst[c] = "get"
    /\ done
    /\ gst' = [gst EXCEPT ![c] = "out"]
    /\ UNCHANGED <<pool, queued, lastAdded, done, ctxDone, held, listen,
                   foreign, wraps>>

(* The two ways out of the select. *)
GetGiveUp(c) ==
    /\ gst[c] = "get"
    /\ done \/ ctxDone
    /\ gst' = [gst EXCEPT ![c] = "out"]
    /\ UNCHANGED <<pool, queued, lastAdded, done, ctxDone, held, listen,
                   foreign, wraps>>

GetTake(c) ==
    /\ gst[c] = "get"
    /\ \E p \in Port :
         /\ pool[p] > 0
         /\ pool' = [pool EXCEPT ![p] = @ - 1]
         /\ held' = [held EXCEPT ![c] = p]
    /\ queued' = queued - 1
    /\ gst' = [gst EXCEPT ![c] = "took"]
    /\ UNCHANGED <<lastAdded, done, ctxDone, listen, foreign, wraps>>

(* The manager was closed meanwhile: the port is forgotten. *)
GetRecheck(c) ==
    /\ gst[c] = "took"
    /\ gst' = [gst EXCEPT ![c] = IF done THEN "out" ELSE "check"]
    /\ held' = [held EXCEPT ![c] = IF done THEN NoPort ELSE @]
    /\ UNCHANGED <<pool, queued, lastAdded, done, ctxDone, listen, foreign,
                   wraps>>

GetFree(c) ==
    /\ gst[c] = "check"
    /\ ~Busy(held[c])
    /\ gst' = [gst EXCEPT ![c] = "leased"]
    /\ UNCHANGED <<pool, queued, lastAdded, done, ctxDone, held, listen,
                   foreign, wraps>>

(* Mutant: a busy port is dropped and not replaced. *)
GetBusyDrops(c) ==
    /\ gst[c] = "check"
    /\ Busy(held[c])
    /\ gst' = [gst EXCEPT ![c] = "get"]
    /\ held' = [held EXCEPT ![c] = NoPort]
    /\ UNCHANGED <<pool, queued, lastAdded, done, ctxDone, listen, foreign,
                   wraps>>

(* A busy port is exchanged for the next one that was never used. *)
GetBusy(c) ==
    /\ gst[c] = "check"
    /\ Busy(held[c])
    /\ gst' = [gst EXCEPT ![c] = "put"]
    /\ held' = [held EXCEPT ![c] = NextPort]
    /\ lastAdded' = NextPort
    /\ wraps' = (wraps \/ NextPort = Start)
    /\ UNCHANGED <<pool, queued, done, ctxDone, listen, foreign>>

GetPut(c) ==
    /\ gst[c] = "put"
    /\ gst' = [gst EXCEPT ![c] = "get"]
    /\ held' = [held EXCEPT ![c] = NoPort]
    /\ Put(held[c])
    /\ UNCHANGED <<lastAdded, done, ctxDone, listen, foreign, wraps>>

GetStep(c) == GetGiveUp(c) \/ GetTake(c) \/ GetRecheck(c) \/ GetFree(c)
              \/ GetBusy(c) \/ GetPut(c)

-----------------------------------------------------------------------------
Release(c) ==
    /\ gst[c] = "leased"
    /\ listen[c] = NoPort
    /\ gst' = [gst EXCEPT ![c] = "out"]
    /\ held' = [held EXCEPT ![c] = NoPort]
    /\ IF done THEN UNCHANGED <<pool, queued>> ELSE Put(held[c])
    /\ UNCHANGED <<lastAdded, done, ctxDone, listen, foreign, wraps>>

Close ==
    /\ done' = TRUE
    /\ UNCHANGED <<pool, queued, lastAdded, ctxDone, gst, held, listen,
                   foreign, wraps>>

-----------------------------------------------------------------------------
(* The environment *)

CancelCtx ==
    /\ ctxDone' = TRUE
    /\ UNCHANGED <<pool, queued, lastAdded, done, gst, held, listen, foreign,
                   wraps>>

(* A tunnel starts to listen on the port its client leased, if it can. *)
Bind(c) ==
    /\ gst[c] = "leased" /\ listen[c] = NoPort
    /\ ~Busy(held[c])
    /\ listen' = [listen EXCEPT ![c] = held[c]]
    /\ UNCHANGED <<pool, queued, lastAdded, done, ctxDone, gst, held, foreign,
                   wraps>>

Unbind(c) ==
    /\ listen[c] # NoPort
    /\ listen' = [listen EXCEPT ![c] = NoPort]
    /\ UNCHANGED <<pool, queued, lastAdded, done, ctxDone, gst, held, foreign,
                   wraps>>

ForeignBind(p) ==
    /\ ~Busy(p)
    /\ foreign' = foreign \cup {p}
    /\ UNCHANGED <<pool, queued, lastAdded, done, ctxDone, gst, held, listen,
                   wraps>>

ForeignLeave(p) ==
    /\ p \in foreign
    /\ foreign' = foreign \ {p}
    /\ UNCHANGED <<pool, queued, lastAdded, done, ctxDone, gst, held, listen,
                   wraps>>

PMNext ==
    \/ \E c \in Clients : GetCall(c) \/ GetStep(c) \/ Release(c) \/ Bind(c)
                            \/ Unbind(c)
    \/ \E p \in Port : ForeignBind(p) \/ ForeignLeave(p)
    \/ Close
    \/ CancelCtx

PMSpec == PMInit /\ [][PMNext]_pmVars

-----------------------------------------------------------------------------
PMTypeOK ==
    /\ pool \in [Port -> Nat]
    /\ queued \in Int
    /\ lastAdded \in Port
    /\ done \in BOOLEAN
    /\ ctxDone \in BOOLEAN
    /\ gst \in [Clients -> {"out", "get", "took", "check", "put",
                         "leased"}]
    /\ held \in [Clients -> Port \cup {NoPort}]
    /\ listen \in [Clients -> Port \cup {NoPort}]
    /\ foreign \in SUBSET Port
    /\ wraps \in BOOLEAN

Holders == {c \in Clients : held[c] # NoPort}

(***************************************************************************)
(* As long as the manager is open, the ports in the channel and the ports  *)
(* in the hands of clients are Count together, however many busy ports     *)
(* were replaced.  So the sends of Get and Release always find room and    *)
(* no waiting Get is starved by a port that was dropped.                   *)
(***************************************************************************)
Circulation == ~done => queued + Cardinality(Holders) = Count

(***************************************************************************)
(* "lease a local port for each probe so that concurrent workers do not    *)
(* share one port" (docs/content.en/docs/developer/core.md:231).           *)
(***************************************************************************)
NoSharedPort ==
    \A c, d \in Clients :
        (c # d /\ gst[c] = "leased" /\ gst[d] = "leased") => held[c] # held[d]

(* What the code does guarantee: no sharing before nextPort starts over. *)
SharedOnlyAfterWrap == ~wraps => NoSharedPort

(* A client has a port in its hands in the middle of Get and after it. *)
HeldInside ==
    \A c \in Clients :
        held[c] # NoPort <=> gst[c] \in {"took", "check", "put", "leased"}

(***************************************************************************)
(* Why: until then every port is in the channel once or in the hands of    *)
(* one client, and none of them is beyond lastAdded.                       *)
(***************************************************************************)
InOnePlace ==
    ~wraps =>
        /\ \A p \in Port : pool[p] <= 1 /\ (pool[p] > 0 => p <= lastAdded)
        /\ \A c \in Holders : held[c] <= lastAdded /\ pool[held[c]] = 0
        /\ \A c, d \in Holders : held[c] = held[d] => c = d
=============================================================================
