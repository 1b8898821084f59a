---------------------------- MODULE ScannerProofs ----------------------------
(***************************************************************************)
(* The port manager and the scanner that uses it.                          *)
(*                                                                         *)
(* What the port manager guarantees to any number of clients, for every    *)
(* range of ports.  The inductive invariant is PMInv: the types, who has a *)
(* port in his hands, the number of ports in circulation, and that before  *)
(* nextPort starts over every port is in one place.                        *)
(*                                                                         *)
(* A scanner with any number of workers uses its port manager as clients   *)
(* of it should, so what the port manager guarantees holds in a scan; and  *)
(* when Close or Run has returned, nothing of a probe is left.             *)
(***************************************************************************)
EXTENDS ScannerLifecycle, FiniteSetTheorems, TLAPS

USE DEF NoPort

-----------------------------------------------------------------------------
(* The ports that nextPort returns belong to the range of the manager. *)
LEMMA PortFacts ==
    /\ Port \subseteq Nat /\ 0 \notin Port /\ Start \in Port
    /\ \A p \in Port : Start <= p /\ p < Ephemeral
    /\ Start + Count - 1 \in Port
  BY PortsAssumption DEF Port

LEMMA NextPortType ==
    ASSUME lastAdded \in Port
    PROVE  NextPort \in Port /\ (NextPort # Start => NextPort = lastAdded + 1)
  BY PortFacts, PortsAssumption DEF NextPort, Port

(* Put keeps the type of the channel. *)
LEMMA PutType ==
    ASSUME NEW p \in Port \cup {0}, Put(p), pool \in [Port -> Nat], queued \in Int
    PROVE  pool' \in [Port -> Nat] /\ queued' \in Int
  BY DEF Put

(* A new manager has its types. *)
LEMMA PMTypeInit == PMInit => PMTypeOK
<1> SUFFICES ASSUME PMInit
             PROVE  PMTypeOK
  OBVIOUS
<1>1. pool \in [Port -> Nat]
  <2>1. \A p \in Port : (IF p < Start + Count THEN 1 ELSE 0) \in Nat
    OBVIOUS
  <2>2. QED
    BY <2>1 DEF PMInit
<1>2. queued \in Int /\ lastAdded \in Port
  BY PortFacts, PortsAssumption DEF PMInit
<1>3. /\ gst \in [Clients -> {"out", "get", "took", "check", "put", "leased"}]
      /\ held \in [Clients -> Port \cup {NoPort}]
      /\ listen \in [Clients -> Port \cup {NoPort}]
  BY DEF PMInit
<1>4. /\ done \in BOOLEAN /\ ctxDone \in BOOLEAN /\ wraps \in BOOLEAN
      /\ foreign \in SUBSET Port
  BY DEF PMInit
<1>5. QED
  BY <1>1, <1>2, <1>3, <1>4 DEF PMTypeOK

(***************************************************************************)
(* Every step of the manager and of its clients keeps the types.           *)
(***************************************************************************)
LEMMA PMTypeStep == PMTypeOK /\ [PMNext]_pmVars => PMTypeOK'
<1> SUFFICES ASSUME PMTypeOK, [PMNext]_pmVars
             PROVE  PMTypeOK'
  OBVIOUS
<1> USE DEF PMTypeOK, pmVars
<1>1. ASSUME NEW c \in Clients, GetCall(c) \/ GetGiveUp(c)
      PROVE  PMTypeOK'
  BY <1>1 DEF GetCall, GetGiveUp
<1>2. ASSUME NEW c \in Clients, GetTake(c)
      PROVE  PMTypeOK'
  <2>1. PICK p \in Port : /\ pool[p] > 0
                          /\ pool' = [pool EXCEPT ![p] = @ - 1]
                          /\ held' = [held EXCEPT ![c] = p]
    BY <1>2 DEF GetTake
  <2>2. pool[p] - 1 \in Nat
    BY <2>1
  <2>3. pool' \in [Port -> Nat]
    BY <2>1, <2>2
  <2>4. QED
    BY <1>2, <2>1, <2>3 DEF GetTake
<1>3. ASSUME NEW c \in Clients, GetRecheck(c) \/ GetFree(c)
      PROVE  PMTypeOK'
  BY <1>3 DEF GetRecheck, GetFree
<1>4. ASSUME NEW c \in Clients, GetBusy(c)
      PROVE  PMTypeOK'
  BY <1>4, NextPortType DEF GetBusy
<1>5. ASSUME NEW c \in Clients, GetPut(c) \/ Release(c)
      PROVE  PMTypeOK'
  <2>1. held[c] \in Port \cup {0}
    OBVIOUS
  <2>2. pool' \in [Port -> Nat] /\ queued' \in Int
    BY <1>5, <2>1, PutType DEF GetPut, Release
  <2>3. QED
    BY <1>5, <2>2 DEF GetPut, Release
<1>6. ASSUME NEW c \in Clients, Bind(c) \/ Unbind(c)
      PROVE  PMTypeOK'
  BY <1>6 DEF Bind, Unbind
<1>7. ASSUME NEW p \in Port, ForeignBind(p) \/ ForeignLeave(p)
      PROVE  PMTypeOK'
  BY <1>7 DEF ForeignBind, ForeignLeave
<1>8. CASE Close \/ CancelCtx
  BY <1>8 DEF Close, CancelCtx
<1>9. CASE UNCHANGED pmVars
  BY <1>9
<1>10. QED
  BY <1>1, <1>2, <1>3, <1>4, <1>5, <1>6, <1>7, <1>8, <1>9 DEF PMNext, GetStep

(* The channel, the counter and the clients of the manager have their types. *)
THEOREM PMTypeCorrect == PMSpec => []PMTypeOK
  BY PMTypeInit, PMTypeStep, PTL DEF PMSpec

-----------------------------------------------------------------------------
(* A client has a port exactly while it is past the receive of Get. *)
LEMMA HeldStep == PMTypeOK /\ HeldInside /\ [PMNext]_pmVars => HeldInside'
<1> SUFFICES ASSUME PMTypeOK, HeldInside, [PMNext]_pmVars
             PROVE  HeldInside'
  OBVIOUS
<1> USE PortFacts DEF PMTypeOK, HeldInside, pmVars
<1>1. ASSUME NEW c \in Clients, GetCall(c) \/ GetGiveUp(c) \/ GetTake(c)
      PROVE  HeldInside'
  BY <1>1 DEF GetCall, GetGiveUp, GetTake
<1>2. ASSUME NEW c \in Clients, GetRecheck(c) \/ GetFree(c)
      PROVE  HeldInside'
  BY <1>2 DEF GetRecheck, GetFree
<1>3. ASSUME NEW c \in Clients, GetBusy(c)
      PROVE  HeldInside'
  BY <1>3, NextPortType DEF GetBusy
<1>4. ASSUME NEW c \in Clients, GetPut(c) \/ Release(c)
      PROVE  HeldInside'
  BY <1>4 DEF GetPut, Release
<1>5. ASSUME NEW c \in Clients, Bind(c) \/ Unbind(c)
      PROVE  HeldInside'
  BY <1>5 DEF Bind, Unbind
<1>6. ASSUME NEW p \in Port, ForeignBind(p) \/ ForeignLeave(p)
      PROVE  HeldInside'
  BY <1>6 DEF ForeignBind, ForeignLeave
<1>7. CASE Close \/ CancelCtx
  BY <1>7 DEF Close, CancelCtx
<1>8. CASE UNCHANGED pmVars
  BY <1>8
<1>9. QED
  BY <1>1, <1>2, <1>3, <1>4, <1>5, <1>6, <1>7, <1>8 DEF PMNext, GetStep

-----------------------------------------------------------------------------
(* The holders before and after a port changes hands. *)
LEMMA HoldersFinite == IsFiniteSet(Holders) /\ Cardinality(Holders) \in Nat
  <1>1. Holders \subseteq Clients
    BY DEF Holders
  <1>2. QED
    BY <1>1, ClientsAssumption, FS_Subset, FS_CardinalityType

LEMMA HoldersGain ==
    ASSUME NEW c \in Clients, held \in [Clients -> Port \cup {NoPort}],
           held[c] = NoPort, NEW p \in Port, held' = [held EXCEPT ![c] = p]
    PROVE  Cardinality(Holders') = Cardinality(Holders) + 1
  <1>1. Holders' = Holders \cup {c} /\ c \notin Holders
    BY PortFacts DEF Holders
  <1>2. QED
    BY <1>1, HoldersFinite, FS_AddElement

LEMMA HoldersLose ==
    ASSUME NEW c \in Clients, held \in [Clients -> Port \cup {NoPort}],
           held[c] # NoPort, held' = [held EXCEPT ![c] = NoPort]
    PROVE  /\ Cardinality(Holders') = Cardinality(Holders) - 1
           /\ Cardinality(Holders) > 0
  <1>1. Holders' = Holders \ {c} /\ c \in Holders
    BY DEF Holders
  <1>2. Cardinality(Holders') = Cardinality(Holders) - 1
    BY <1>1, HoldersFinite, FS_RemoveElement
  <1>3. Cardinality(Holders) # 0
    BY <1>1, HoldersFinite, FS_EmptySet
  <1>4. QED
    BY <1>2, <1>3, HoldersFinite

LEMMA HoldersSame ==
    ASSUME \A c \in Clients : held'[c] # NoPort <=> held[c] # NoPort
    PROVE  Holders' = Holders
  BY DEF Holders

(***************************************************************************)
(* No step changes the number of ports in circulation: what leaves the     *)
(* channel is in somebody's hands and what leaves his hands finds room.    *)
(***************************************************************************)
LEMMA CirculationStep ==
    PMTypeOK /\ HeldInside /\ Circulation /\ [PMNext]_pmVars => Circulation'
<1> SUFFICES ASSUME PMTypeOK, HeldInside, Circulation, [PMNext]_pmVars, ~done'
             PROVE  queued' + Cardinality(Holders') = Count
  BY DEF Circulation
<1> USE DEF PMTypeOK, pmVars
<1>0. ~done => queued + Cardinality(Holders) = Count
  BY DEF Circulation
<1>a. Cardinality(Holders) \in Nat /\ queued \in Int /\ Count \in Nat
  BY HoldersFinite, PortsAssumption
<1>1. ASSUME NEW c \in Clients, GetTake(c)
      PROVE  queued' + Cardinality(Holders') = Count
  <2>1. held[c] = NoPort
    BY <1>1 DEF HeldInside, GetTake
  <2>2. Cardinality(Holders') = Cardinality(Holders) + 1
    BY <1>1, <2>1, HoldersGain DEF GetTake
  <2>3. queued' = queued - 1 /\ ~done
    BY <1>1 DEF GetTake
  <2>4. QED
    BY <1>0, <1>a, <2>2, <2>3
<1>2. ASSUME NEW c \in Clients, GetPut(c) \/ Release(c)
      PROVE  queued' + Cardinality(Holders') = Count
  <2>1. held[c] # NoPort
    BY <1>2 DEF HeldInside, GetPut, Release
  <2>2. held' = [held EXCEPT ![c] = NoPort] /\ ~done /\ Put(held[c])
    BY <1>2 DEF GetPut, Release
  <2>3. /\ Cardinality(Holders') = Cardinality(Holders) - 1
        /\ Cardinality(Holders) > 0
    BY <2>1, <2>2, HoldersLose
  <2>4. queued < Count
    BY <1>0, <1>a, <2>2, <2>3
  <2>5. queued' = queued + 1
    BY <2>2, <2>4 DEF Put
  <2>6. QED
    BY <1>0, <1>a, <2>2, <2>3, <2>5
<1>3. ASSUME NEW c \in Clients, GetBusy(c)
      PROVE  queued' + Cardinality(Holders') = Count
  <2>1. \A d \in Clients : held'[d] # NoPort <=> held[d] # NoPort
    BY <1>3, NextPortType, PortFacts DEF GetBusy, HeldInside
  <2>2. Holders' = Holders
    BY <2>1, HoldersSame
  <2>3. QED
    BY <1>0, <1>3, <2>2 DEF GetBusy
<1>4. ASSUME NEW c \in Clients, GetRecheck(c)
      PROVE  queued' + Cardinality(Holders') = Count
  <2>1. ~done /\ queued' = queued
    BY <1>4 DEF GetRecheck
  <2>2. held' = held
    BY <1>4, <2>1 DEF GetRecheck
  <2>3. QED
    BY <1>0, <2>1, <2>2 DEF Holders
<1>5. ASSUME NEW c \in Clients, GetCall(c) \/ GetGiveUp(c) \/ GetFree(c)
                                  \/ Bind(c) \/ Unbind(c)
      PROVE  queued' + Cardinality(Holders') = Count
  BY <1>0, <1>5 DEF GetCall, GetGiveUp, GetFree, Bind, Unbind, Holders
<1>6. ASSUME NEW p \in Port, ForeignBind(p) \/ ForeignLeave(p)
      PROVE  queued' + Cardinality(Holders') = Count
  BY <1>0, <1>6 DEF ForeignBind, ForeignLeave, Holders
<1>7. CASE Close
  BY <1>7 DEF Close
<1>8. CASE CancelCtx
  BY <1>0, <1>8 DEF CancelCtx, Holders
<1>9. CASE UNCHANGED pmVars
  BY <1>0, <1>9 DEF Holders
<1>10. QED
  BY <1>1, <1>2, <1>3, <1>4, <1>5, <1>6, <1>7, <1>8, <1>9 DEF PMNext, GetStep

-----------------------------------------------------------------------------
(***************************************************************************)
(* Until nextPort starts over no step brings a port to a second place.     *)
(***************************************************************************)
LEMMA OnePlaceStep ==
    PMTypeOK /\ HeldInside /\ InOnePlace /\ [PMNext]_pmVars => InOnePlace'
<1> SUFFICES ASSUME PMTypeOK, HeldInside, InOnePlace, [PMNext]_pmVars
             PROVE  InOnePlace'
  OBVIOUS
<1> USE DEF InOnePlace, PMTypeOK, pmVars
<1>1. ASSUME NEW c \in Clients, GetTake(c)
      PROVE  InOnePlace'
  <2>1. PICK p \in Port : /\ pool[p] > 0
                          /\ pool' = [pool EXCEPT ![p] = @ - 1]
                          /\ held' = [held EXCEPT ![c] = p]
    BY <1>1 DEF GetTake
  <2>2. SUFFICES ASSUME ~wraps'
                 PROVE  InOnePlace'
    OBVIOUS
  <2>3. ~wraps /\ lastAdded' = lastAdded
    BY <1>1, <2>2 DEF GetTake
  <2>4. pool[p] = 1 /\ p <= lastAdded /\ pool'[p] = 0
    BY <2>1, <2>3
  <2>5. \A q \in Port : pool'[q] <= 1 /\ (pool'[q] > 0 => q <= lastAdded')
    BY <2>1, <2>3, <2>4
  <2>6. \A d \in Holders : held[d] # p /\ d \in Clients
    BY <2>1, <2>3, PortFacts DEF Holders
  <2>7. \A d \in Holders' : \/ d = c /\ held'[d] = p
                            \/ d # c /\ d \in Holders /\ held'[d] = held[d]
    BY <2>1 DEF Holders
  <2>8. \A d \in Holders : held[d] \in Port
    BY DEF Holders
  <2>9. \A d \in Holders' : held'[d] <= lastAdded' /\ pool'[held'[d]] = 0
    BY <2>1, <2>3, <2>4, <2>6, <2>7, <2>8
  <2>10. \A d, e \in Holders' : held'[d] = held'[e] => d = e
    BY <2>3, <2>6, <2>7
  <2>11. QED
    BY <2>5, <2>9, <2>10
<1>2. ASSUME NEW c \in Clients, GetPut(c) \/ Release(c)
      PROVE  InOnePlace'
  <2>1. SUFFICES ASSUME ~wraps'
                 PROVE  InOnePlace'
    OBVIOUS
  <2>2. ~wraps /\ lastAdded' = lastAdded /\ held' = [held EXCEPT ![c] = NoPort]
    BY <1>2, <2>1 DEF GetPut, Release
  <2>3. c \in Holders /\ held[c] \in Port
    BY <1>2 DEF GetPut, Release, HeldInside, Holders
  <2>4. pool' = pool \/ pool' = [pool EXCEPT ![held[c]] = @ + 1]
    BY <1>2 DEF GetPut, Release, Put
  <2>5. pool[held[c]] = 0 /\ held[c] <= lastAdded
    BY <2>2, <2>3
  <2>6. \A q \in Port : pool'[q] <= 1 /\ (pool'[q] > 0 => q <= lastAdded')
    BY <2>2, <2>3, <2>4, <2>5
  <2>7. \A d \in Holders' : /\ d \in Holders /\ held'[d] = held[d]
                            /\ held[d] # held[c] /\ held[d] \in Port
    BY <2>2, <2>3 DEF Holders
  <2>8. \A d \in Holders' : held'[d] <= lastAdded' /\ pool'[held'[d]] = 0
    BY <2>2, <2>3, <2>4, <2>7
  <2>9. \A d, e \in Holders' : held'[d] = held'[e] => d = e
    BY <2>2, <2>7
  <2>10. QED
    BY <2>6, <2>8, <2>9
<1>3. ASSUME NEW c \in Clients, GetBusy(c)
      PROVE  InOnePlace'
  <2>1. SUFFICES ASSUME ~wraps'
                 PROVE  InOnePlace'
    OBVIOUS
  <2>2. /\ ~wraps /\ pool' = pool /\ lastAdded' = lastAdded + 1
        /\ held' = [held EXCEPT ![c] = lastAdded + 1]
        /\ lastAdded + 1 \in Port
    BY <1>3, <2>1, NextPortType DEF GetBusy
  <2>3. lastAdded \in Nat
    BY PortFacts
  <2>4. pool[lastAdded + 1] = 0
    BY <2>2, <2>3
  <2>5. \A q \in Port : pool'[q] <= 1 /\ (pool'[q] > 0 => q <= lastAdded')
    BY <2>2, <2>3, PortFacts
  <2>6. \A d \in Holders' :
          \/ d = c /\ held'[d] = lastAdded + 1
          \/ d # c /\ d \in Holders /\ held'[d] = held[d] /\ held[d] \in Port
    BY <2>2 DEF Holders
  <2>7. \A d \in Holders : held[d] <= lastAdded /\ pool[held[d]] = 0
    BY <2>2
  <2>8. \A d \in Holders' : held'[d] <= lastAdded' /\ pool'[held'[d]] = 0
    <3> SUFFICES ASSUME NEW d \in Holders'
                 PROVE  held'[d] <= lastAdded' /\ pool'[held'[d]] = 0
      OBVIOUS
    <3>1. CASE d = c
      BY <2>2, <2>3, <2>4, <2>6, <3>1
    <3>2. CASE d # c
      <4>1. d \in Holders /\ held'[d] = held[d] /\ held[d] \in Nat
        BY <2>6, <3>2, PortFacts
      <4>2. QED
        BY <2>2, <2>3, <2>7, <4>1
    <3>3. QED
      BY <3>1, <3>2
  <2>9. \A d, e \in Holders' : held'[d] = held'[e] => d = e
    BY <2>2, <2>3, <2>6, <2>7, PortFacts
  <2>10. QED
    BY <2>5, <2>8, <2>9
<1>4. ASSUME NEW c \in Clients, GetRecheck(c)
      PROVE  InOnePlace'
  <2>1. \A d \in Holders' : d \in Holders /\ held'[d] = held[d]
    BY <1>4 DEF GetRecheck, Holders
  <2>2. UNCHANGED <<pool, lastAdded, wraps>>
    BY <1>4 DEF GetRecheck
  <2>3. QED
    BY <2>1, <2>2
<1>5. ASSUME UNCHANGED <<pool, lastAdded, wraps, held>>
      PROVE  InOnePlace'
  BY <1>5 DEF Holders
<1>6. ASSUME NEW c \in Clients, GetCall(c) \/ GetGiveUp(c) \/ GetFree(c)
                                  \/ Bind(c) \/ Unbind(c)
      PROVE  UNCHANGED <<pool, lastAdded, wraps, held>>
  BY <1>6 DEF GetCall, GetGiveUp, GetFree, Bind, Unbind
<1>7. ASSUME NEW p \in Port, ForeignBind(p) \/ ForeignLeave(p)
      PROVE  UNCHANGED <<pool, lastAdded, wraps, held>>
  BY <1>7 DEF ForeignBind, ForeignLeave
<1>8. ASSUME Close \/ CancelCtx \/ UNCHANGED pmVars
      PROVE  UNCHANGED <<pool, lastAdded, wraps, held>>
  BY <1>8 DEF Close, CancelCtx
<1>9. QED
  BY <1>1, <1>2, <1>3, <1>4, <1>5, <1>6, <1>7, <1>8 DEF PMNext, GetStep

-----------------------------------------------------------------------------
PMInv == PMTypeOK /\ HeldInside /\ Circulation /\ InOnePlace

LEMMA PMInitially == PMInit => PMInv
<1> SUFFICES ASSUME PMInit
             PROVE  PMInv
  OBVIOUS
<1>1. PMTypeOK
  BY PMTypeInit
<1>2. Holders = {}
  BY DEF PMInit, Holders
<1>3. HeldInside
  BY DEF PMInit, HeldInside
<1>4. Circulation
  BY <1>2, FS_EmptySet, PortsAssumption DEF PMInit, Circulation
<1>5. InOnePlace
  BY <1>2, PortFacts, PortsAssumption DEF PMInit, InOnePlace
<1>6. QED
  BY <1>1, <1>3, <1>4, <1>5 DEF PMInv

LEMMA PMInductive == PMInv /\ [PMNext]_pmVars => PMInv'
  BY PMTypeStep, HeldStep, CirculationStep, OnePlaceStep DEF PMInv

(* The inductive invariant holds for every number of clients and ports. *)
LEMMA PMInvariant == PMSpec => []PMInv
  BY PMInitially, PMInductive, PTL DEF PMSpec

(***************************************************************************)
(* While the manager is open no port is lost or made up, however the calls *)
(* of Get and Release interleave and however many busy ports are replaced. *)
(***************************************************************************)
THEOREM CirculationAlways == PMSpec => []Circulation
  BY PMInvariant, PTL DEF PMInv

(* Before nextPort starts over, no two clients of Get share a port. *)
THEOREM NoSharingBeforeWrap == PMSpec => []SharedOnlyAfterWrap
<1>1. PMInv => SharedOnlyAfterWrap
  BY DEF PMInv, HeldInside, InOnePlace, SharedOnlyAfterWrap, NoSharedPort, Holders
<1>2. QED
  BY <1>1, PMInvariant, PTL

-----------------------------------------------------------------------------
(* Every step of a scanner is one of the port manager, or none.             *)
LEMMA ProbeImplementsPM ==
  ASSUME NEW w \in Workers, Checkpoint(w) \/ Take(w) \/ ProbeStep(w)
  PROVE  [PMNext]_pmVars
<1>1. w \in Clients
  BY WorkersAssumption
<1>2. CASE Checkpoint(w) \/ Take(w)
  BY <1>2 DEF Checkpoint, Take, pmVars
<1>3. CASE RunEnter(w)
  BY <1>1, <1>3 DEF RunEnter, PMNext
<1>4. CASE RunGet(w)
  BY <1>1, <1>4 DEF RunGet, PMNext
<1>5. CASE BootUp(w) \/ LateBind(w)
  BY <1>1, <1>5 DEF BootUp, LateBind, PMNext
<1>6. CASE BootCheck(w) \/ BootDeaf(w) \/ BootFails(w) \/ WaitOpen(w) \/ Measure(w)
  BY <1>6 DEF BootCheck, BootDeaf, BootFails, WaitOpen, Measure
<1>7. CASE StopTunnel(w)
  BY <1>1, <1>7 DEF StopTunnel, PMNext
<1>8. CASE RunRelease(w)
  BY <1>1, <1>8 DEF RunRelease, PMNext
<1> QED
  BY <1>2, <1>3, <1>4, <1>5, <1>6, <1>7, <1>8 DEF ProbeStep

LEMMA LifeImplementsPM == [Next]_vars => [PMNext]_pmVars
<1> SUFFICES ASSUME [Next]_vars PROVE [PMNext]_pmVars
  OBVIOUS
<1>1. Runner \in Clients
  BY RunnerAssumption
<1>2. CASE UNCHANGED vars
  BY <1>2 DEF vars
<1>3. CASE RunCheck \/ RunSwap \/ RunAdd \/ ChainSkips \/ ChainEnds \/ RunStop \/ RunDone
  BY <1>3 DEF RunCheck, RunSwap, RunAdd, ChainSkips, ChainEnds, RunStop, RunDone
<1>4. CASE ChainStart
  BY <1>1, <1>4 DEF ChainStart, PMNext
<1>5. CASE ProbeGetsPort
  BY <1>1, <1>5 DEF ProbeGetsPort, PMNext
<1>6. CASE ProbeValidates
  BY <1>1, <1>6 DEF ProbeValidates, PMNext
<1>7. CASE CloseMark \/ CloseStop \/ CloseReturns \/ WaiterWakes
  BY <1>7 DEF CloseMark, CloseStop, CloseReturns, WaiterWakes
<1>8. CASE CloseCancel
  BY <1>8 DEF CloseCancel, PMNext
<1>9. CASE WaiterCloses
  BY <1>9 DEF WaiterCloses, PMNext
<1>10. CASE OtherProcess
  BY <1>10 DEF OtherProcess, PMNext
<1> QED
  BY <1>2, <1>3, <1>4, <1>5, <1>6, <1>7, <1>8, <1>9, <1>10, ProbeImplementsPM
  DEF Next, RunStep, CloseStep, WaiterStep

(* A scan is a behaviour of the port manager and well-behaved clients.       *)
THEOREM ScanImplementsPM == Spec => PMSpec
<1>1. Init => PMInit
  BY DEF Init
<1> QED
  BY <1>1, LifeImplementsPM, PTL DEF Spec, PMSpec

(* So no port is lost during a scan, whatever ends it.                       *)
THEOREM ScanCirculation == Spec => []Circulation
  BY ScanImplementsPM, CirculationAlways, PTL

-----------------------------------------------------------------------------
(* A client listens only while it has leased a port, and on that port.       *)
ListenHeld ==
  \A c \in Clients : listen[c] # NoPort => gst[c] = "leased" /\ held[c] = listen[c]

LEMMA ListenStep == PMTypeOK /\ ListenHeld /\ [PMNext]_pmVars => ListenHeld'
<1> SUFFICES ASSUME PMTypeOK, ListenHeld, [PMNext]_pmVars PROVE ListenHeld'
  OBVIOUS
<1> USE DEF PMTypeOK, ListenHeld
<1>1. ASSUME NEW c \in Clients, GetCall(c) \/ GetGiveUp(c) \/ GetTake(c) \/ GetRecheck(c)
      PROVE  ListenHeld'
  BY <1>1 DEF GetCall, GetGiveUp, GetTake, GetRecheck
<1>2. ASSUME NEW c \in Clients, GetFree(c) \/ GetBusy(c) \/ GetPut(c)
      PROVE  ListenHeld'
  BY <1>2 DEF GetFree, GetBusy, GetPut
<1>3. ASSUME NEW c \in Clients, Release(c) \/ Bind(c) \/ Unbind(c)
      PROVE  ListenHeld'
  BY <1>3 DEF Release, Bind, Unbind
<1>4. ASSUME NEW p \in Port, ForeignBind(p) \/ ForeignLeave(p)
      PROVE  ListenHeld'
  BY <1>4 DEF ForeignBind, ForeignLeave
<1>5. CASE Close \/ CancelCtx
  BY <1>5 DEF Close, CancelCtx
<1>6. CASE UNCHANGED pmVars
  BY <1>6 DEF pmVars
<1> QED
  BY <1>1, <1>2, <1>3, <1>4, <1>5, <1>6 DEF PMNext, GetStep

(* Once nextPort has started over, it has.                                  *)
LEMMA WrapsStays == wraps /\ [PMNext]_pmVars => wraps'
  BY DEF PMNext, pmVars, GetCall, GetStep, GetGiveUp, GetTake, GetRecheck, GetFree, GetBusy,
         GetPut, Release, Bind, Unbind, ForeignBind, ForeignLeave, Close, CancelCtx

(* Until then a port that no other process uses is answered by its holder.   *)
LEMMA OwnerHolds ==
  ASSUME PMInv, ListenHeld, ~wraps, NEW w \in Clients, Busy(held[w]), held[w] # NoPort
  PROVE  Owner(held[w]) \in {w, Foreign}
<1> SUFFICES ASSUME held[w] \notin foreign PROVE Owner(held[w]) = w
  BY DEF Owner
<1>1. PICK c \in Clients : listen[c] = held[w]
  BY DEF Busy
<1>2. ASSUME NEW d \in Clients, listen[d] = held[w] PROVE d = w
  BY <1>2 DEF PMInv, InOnePlace, Holders, ListenHeld
<1> QED
  BY <1>1, <1>2 DEF Owner

-----------------------------------------------------------------------------
(* The invariant of a scan.  Outside of a probe a worker has nothing; inside, *)
(* the step it is at says what it has.                                       *)
Resting == {"off", "idle", "select", "run", "exited"}
Bare == {"boot", "starting", "release"}
Using == {"wait", "measure", "passed", "failed"}
Steps == Resting \cup {"get"} \cup Bare \cup Using

ScanTypeOK ==
  /\ kind \in Kinds
  /\ ppc \in [Workers -> Steps]
  /\ tries \in [Workers -> Nat]
  /\ tunnel \in [Workers -> BOOLEAN]
  /\ via \in [Workers -> Clients \cup {Foreign, Nobody}]
  /\ started \in BOOLEAN /\ closed \in BOOLEAN /\ stopped \in BOOLEAN
  /\ wg \in {0, 1}
  /\ rpc \in {"idle", "checked", "swapped", "start", "init", "validate", "chain", "ended",
              "stopped", "returned"}
  /\ xpc \in {"idle", "marked", "canceled", "waiting", "nil", "timeout"}
  /\ waiter \in {"none", "waiting", "closing", "done"}
  /\ left \in Nat

WorkerHas(w) ==
  /\ ppc[w] \in Resting => gst[w] = "out"
  /\ ppc[w] = "get" => gst[w] \in {"get", "took", "check", "put"}
  /\ ppc[w] \in Bare \cup Using => gst[w] = "leased"
  /\ ppc[w] \notin Using => ~tunnel[w] /\ listen[w] = NoPort

(* Run and Close: which workers there can be, and that the end of the        *)
(* scanner comes after its cancellation and after its last worker.           *)
RunAndClose ==
  /\ listen[Runner] = NoPort
  /\ rpc \in {"idle", "checked", "swapped", "start", "init", "validate"} =>
       \A w \in Workers : ppc[w] = "off"
  /\ rpc \in {"ended", "stopped", "returned"} => \A w \in Workers : ppc[w] \in {"off", "exited"}
  /\ wg = IF rpc \in {"start", "init", "validate", "chain", "ended", "stopped"} THEN 1 ELSE 0
  /\ xpc = "canceled" => ctxDone
  /\ waiter # "none" => ctxDone /\ stopped
  /\ waiter \in {"closing", "done"} => \A w \in Workers : ppc[w] \in {"off", "idle", "exited"}
  /\ xpc = "nil" => waiter = "done"

ScanInv ==
  /\ PMInv /\ ListenHeld
  /\ ScanTypeOK
  /\ \A w \in Workers : WorkerHas(w)
  /\ RunAndClose
  /\ NoCrosstalk

LEMMA ScanInitially == Init => ScanInv
<1> SUFFICES ASSUME Init PROVE ScanInv
  OBVIOUS
<1>1. PMInv
  BY PMInitially DEF Init
<1>2. Runner \in Clients /\ Workers \subseteq Clients
  BY RunnerAssumption
<1>3. \A c \in Clients : listen[c] = NoPort /\ gst[c] = "out"
  BY DEF Init, PMInit
<1>4. ListenHeld
  BY <1>3 DEF ListenHeld
<1>5. ScanTypeOK
  BY BoundsAssumption DEF Init, ProbeInit, ScanTypeOK, Steps, Resting
<1>6. \A w \in Workers : WorkerHas(w)
  BY <1>2, <1>3 DEF Init, ProbeInit, WorkerHas, Resting, Bare, Using
<1>7. RunAndClose
  BY <1>2, <1>3 DEF Init, ProbeInit, RunAndClose
<1>8. NoCrosstalk
  BY DEF Init, ProbeInit, NoCrosstalk
<1> QED
  BY <1>1, <1>4, <1>5, <1>6, <1>7, <1>8 DEF ScanInv

(* The types a step of a worker leaves.                                      *)
LEMMA GoType ==
  ASSUME ScanTypeOK, NEW w \in Workers, NEW l \in Steps, Go(w, l)
  PROVE  /\ ppc' \in [Workers -> Steps] /\ ppc'[w] = l
         /\ \A v \in Workers \ {w} : ppc'[v] = ppc[v]
  BY DEF ScanTypeOK, Go

(* What happens in a probe happens while the chain runs and before the       *)
(* scanner is closed, so nothing of Run and Close depends on it.             *)
LEMMA ProbeInside ==
  ASSUME ScanInv, NEW w \in Workers, ppc[w] \notin {"off", "idle", "exited"}
  PROVE  rpc = "chain" /\ waiter \notin {"closing", "done"} /\ xpc # "nil"
  BY DEF ScanInv, ScanTypeOK, RunAndClose

LEMMA RunAndCloseSame ==
  ASSUME ScanInv, rpc = "chain", waiter \notin {"closing", "done"}, UNCHANGED lifeVars,
         ctxDone' = ctxDone, listen'[Runner] = listen[Runner]
  PROVE  RunAndClose'
  BY DEF ScanInv, ScanTypeOK, RunAndClose, lifeVars

LEMMA CrosstalkSame ==
  ASSUME ScanInv, [PMNext]_pmVars, UNCHANGED via
  PROVE  NoCrosstalk'
  BY WrapsStays DEF ScanInv, PMInv, PMTypeOK, NoCrosstalk

LEMMA OthersKeep ==
  ASSUME ScanInv, NEW v \in Workers, ppc'[v] = ppc[v], gst'[v] = gst[v],
         listen'[v] = listen[v], tunnel'[v] = tunnel[v]
  PROVE  WorkerHas(v)'
  BY DEF ScanInv, WorkerHas

(* What a step of worker w in the port manager leaves to the others.         *)
Alone(w) ==
  /\ ctxDone' = ctxDone
  /\ \A c \in Clients \ {w} : gst'[c] = gst[c] /\ listen'[c] = listen[c]

LEMMA GetAlone ==
  ASSUME ScanInv, NEW w \in Clients, GetCall(w) \/ GetStep(w) \/ Release(w)
  PROVE  Alone(w) /\ listen' = listen
<1> USE DEF Alone, ScanInv, PMInv, PMTypeOK
<1>1. CASE GetCall(w) \/ GetGiveUp(w) \/ GetTake(w) \/ GetRecheck(w)
  BY <1>1 DEF GetCall, GetGiveUp, GetTake, GetRecheck
<1>2. CASE GetFree(w) \/ GetBusy(w) \/ GetPut(w) \/ Release(w)
  BY <1>2 DEF GetFree, GetBusy, GetPut, Release
<1> QED
  BY <1>1, <1>2 DEF GetStep

LEMMA BindAlone ==
  ASSUME ScanInv, NEW w \in Clients, Bind(w) \/ Unbind(w)
  PROVE  Alone(w) /\ gst' = gst
  BY DEF Alone, ScanInv, PMInv, PMTypeOK, Bind, Unbind

(* Where a step of Get leads.                                               *)
LEMMA GetLeads ==
  ASSUME ScanInv, NEW w \in Clients, GetStep(w)
  PROVE  gst'[w] \in {"out", "get", "took", "check", "put", "leased"}
  BY PMTypeStep DEF ScanInv, PMInv, PMTypeOK, PMNext

(* It is enough to look at the worker that moves.                            *)
LEMMA WorkerMoves ==
  ASSUME ScanInv, [PMNext]_pmVars, UNCHANGED <<lifeVars, kind>>, NEW w \in Workers,
         ppc[w] \notin {"off", "idle", "exited"},
         Alone(w), NEW l \in Steps, Go(w, l), WorkerHas(w)',
         tries' \in [Workers -> Nat], tunnel' \in [Workers -> BOOLEAN],
         \A v \in Workers \ {w} : tunnel'[v] = tunnel[v],
         via' \in [Workers -> Clients \cup {Foreign, Nobody}], NoCrosstalk'
  PROVE  /\ ScanTypeOK' /\ RunAndClose' /\ NoCrosstalk'
         /\ \A v \in Workers : WorkerHas(v)'
<1>1. w \in Clients /\ Runner \in Clients /\ Runner # w /\ Workers \subseteq Clients
  BY RunnerAssumption
<1>2. /\ ppc' \in [Workers -> Steps]
      /\ \A v \in Workers \ {w} : ppc'[v] = ppc[v]
  BY GoType DEF ScanInv
<1>3. ScanTypeOK'
  BY <1>2 DEF ScanInv, ScanTypeOK, lifeVars
<1>4. RunAndClose'
  BY <1>1, ProbeInside, RunAndCloseSame DEF Alone
<1>5. \A v \in Workers \ {w} : WorkerHas(v)'
  BY <1>1, <1>2, OthersKeep DEF Alone
<1> QED
  BY <1>3, <1>4, <1>5

(* The steps of a worker that is in a probe.                                 *)
LEMMA ProbeKeeps ==
  ASSUME ScanInv, NEW w \in Workers, ProbeStep(w)
  PROVE  /\ ScanTypeOK' /\ RunAndClose' /\ NoCrosstalk'
         /\ \A v \in Workers : WorkerHas(v)'
<1> [PMNext]_pmVars /\ UNCHANGED lifeVars
  BY ProbeImplementsPM DEF ProbeStep
<1> w \in Clients
  BY WorkersAssumption
<1>1. /\ WorkerHas(w) /\ ScanTypeOK /\ NoCrosstalk
      /\ gst[w] \in {"out", "get", "took", "check", "put", "leased"}
      /\ gst \in [Clients -> {"out", "get", "took", "check", "put", "leased"}]
      /\ listen \in [Clients -> Port \cup {NoPort}]
  BY DEF ScanInv, PMInv, PMTypeOK
<1>2. /\ tries \in [Workers -> Nat] /\ tunnel \in [Workers -> BOOLEAN]
      /\ via \in [Workers -> Clients \cup {Foreign, Nobody}]
  BY <1>1 DEF ScanTypeOK
<1> USE DEF Steps, Resting, Bare, Using
<1>3. CASE RunEnter(w)
  <2>1. UNCHANGED <<kind, tries, tunnel, via>>
    BY <1>3 DEF RunEnter
  <2>2. CASE ctxDone
    <3>1. Go(w, "idle") /\ UNCHANGED pmVars /\ ppc[w] = "run"
      BY <1>3, <2>2 DEF RunEnter
    <3>2. Alone(w)
      BY <3>1 DEF Alone, pmVars
    <3>3. WorkerHas(w)'
      BY <1>1, <2>1, <3>1, GoType DEF WorkerHas, pmVars
    <3> QED
      BY <1>2, <2>1, <3>1, <3>2, <3>3, WorkerMoves, CrosstalkSame
  <2>3. CASE ~ctxDone
    <3>1. Go(w, "get") /\ GetCall(w) /\ ppc[w] = "run"
      BY <1>3, <2>3 DEF RunEnter
    <3>2. Alone(w) /\ listen' = listen /\ gst'[w] = "get"
      BY <1>1, <3>1, GetAlone DEF GetCall
    <3>3. WorkerHas(w)'
      BY <1>1, <2>1, <3>1, <3>2, GoType DEF WorkerHas
    <3> QED
      BY <1>2, <2>1, <3>1, <3>2, <3>3, WorkerMoves, CrosstalkSame
  <2> QED
    BY <2>2, <2>3
<1>4. CASE RunGet(w)
  <2> DEFINE l == CASE gst'[w] = "leased" -> "boot"
                    [] gst'[w] = "out"    -> "idle"
                    [] OTHER              -> "get"
  <2>1. UNCHANGED <<kind, tries, tunnel, via>> /\ GetStep(w) /\ ppc[w] = "get" /\ Go(w, l)
    BY <1>4 DEF RunGet
  <2>2. Alone(w) /\ listen' = listen
    BY <2>1, GetAlone
  <2>3. /\ l \in {"boot", "idle", "get"}
        /\ l = "boot" => gst'[w] = "leased"
        /\ l = "idle" => gst'[w] = "out"
        /\ l = "get" => gst'[w] \in {"get", "took", "check", "put"}
    BY <2>1, GetLeads
  <2> HIDE DEF l
  <2>4. ppc'[w] = l
    BY <1>1, <2>1, <2>3, GoType
  <2>5. WorkerHas(w)'
    BY <1>1, <2>1, <2>2, <2>3, <2>4 DEF WorkerHas
  <2> QED
    BY <1>2, <2>1, <2>2, <2>3, <2>5, WorkerMoves, CrosstalkSame
<1>5. CASE BootUp(w)
  <2>1. /\ UNCHANGED <<kind, tries, via>> /\ ppc[w] = "starting" /\ Bind(w) /\ Go(w, "wait")
        /\ tunnel' = [tunnel EXCEPT ![w] = TRUE]
    BY <1>5 DEF BootUp
  <2>2. Alone(w) /\ gst' = gst
    BY <2>1, BindAlone
  <2>3. WorkerHas(w)'
    BY <1>1, <2>1, <2>2, GoType DEF WorkerHas
  <2>4. tunnel' \in [Workers -> BOOLEAN] /\ \A v \in Workers \ {w} : tunnel'[v] = tunnel[v]
    BY <1>2, <2>1
  <2> QED
    BY <1>2, <2>1, <2>2, <2>3, <2>4, WorkerMoves, CrosstalkSame
<1>6. CASE LateBind(w)
  <2>1. UNCHANGED probeVars /\ ppc[w] \in {"wait", "measure"} /\ Bind(w)
    BY <1>6 DEF LateBind
  <2>2. Alone(w) /\ gst' = gst
    BY <2>1, BindAlone
  <2>3. Go(w, ppc[w])
    BY <1>1, <2>1 DEF Go, ScanTypeOK, probeVars
  <2>4. WorkerHas(w)'
    BY <1>1, <2>1, <2>2 DEF WorkerHas, probeVars
  <2> QED
    BY <1>2, <2>1, <2>2, <2>3, <2>4, WorkerMoves, CrosstalkSame DEF probeVars
<1>7. CASE BootDeaf(w)
  <2>1. /\ UNCHANGED <<pmVars, kind, tries, via>> /\ ppc[w] = "starting" /\ Go(w, "wait")
        /\ tunnel' = [tunnel EXCEPT ![w] = TRUE]
    BY <1>7 DEF BootDeaf
  <2>2. Alone(w)
    BY <2>1 DEF Alone, pmVars
  <2>3. WorkerHas(w)'
    BY <1>1, <2>1, GoType DEF WorkerHas, pmVars
  <2>4. tunnel' \in [Workers -> BOOLEAN] /\ \A v \in Workers \ {w} : tunnel'[v] = tunnel[v]
    BY <1>2, <2>1
  <2> QED
    BY <1>2, <2>1, <2>2, <2>3, <2>4, WorkerMoves, CrosstalkSame
<1>8. CASE BootCheck(w) \/ BootFails(w) \/ WaitOpen(w)
  <2>1. /\ UNCHANGED <<pmVars, kind, tries, tunnel, via>>
        /\ ppc[w] \in {"boot", "starting", "wait"}
    BY <1>8 DEF BootCheck, BootFails, WaitOpen
  <2>2. PICK l \in {"starting", "measure", "failed"} :
          Go(w, l) /\ (l = "starting" => ppc[w] = "boot")
    BY <1>8 DEF BootCheck, BootFails, WaitOpen
  <2>3. Alone(w)
    BY <2>1 DEF Alone, pmVars
  <2>4. ppc'[w] = l
    BY <1>1, <2>2, GoType
  <2>5. WorkerHas(w)'
    BY <1>1, <2>1, <2>2, <2>4 DEF WorkerHas, pmVars
  <2> QED
    BY <1>2, <2>1, <2>2, <2>3, <2>5, WorkerMoves, CrosstalkSame
<1>9. CASE Measure(w)
  <2>1. UNCHANGED <<pmVars, kind, tries, tunnel>> /\ ppc[w] = "measure"
    BY <1>9 DEF Measure
  <2>2. Alone(w)
    BY <2>1 DEF Alone, pmVars
  <2>3. PICK l \in {"passed", "failed"} : Go(w, l)
    BY <1>9 DEF Measure
  <2>4. ppc'[w] = l
    BY <1>1, <2>3, GoType
  <2>5. WorkerHas(w)'
    BY <1>1, <2>1, <2>3, <2>4 DEF WorkerHas, pmVars
  <2>6. CASE UNCHANGED via
    BY <1>2, <2>1, <2>2, <2>3, <2>5, <2>6, WorkerMoves, CrosstalkSame
  <2>7. CASE Busy(held[w]) /\ via' = [via EXCEPT ![w] = Owner(held[w])]
    <3>1. held[w] # NoPort
      BY <1>1, <2>1 DEF WorkerHas, ScanInv, PMInv, HeldInside
    <3>2. Owner(held[w]) \in Clients \cup {Foreign, Nobody}
      BY <2>7 DEF Owner, Busy
    <3>3. via' \in [Workers -> Clients \cup {Foreign, Nobody}]
      BY <1>2, <2>7, <3>2
    <3>4. NoCrosstalk'
      <4>1. ~wraps => Owner(held[w]) \in {w, Foreign}
        BY <2>7, <3>1, OwnerHolds DEF ScanInv
      <4> QED
        BY <1>1, <1>2, <2>1, <2>7, <4>1 DEF NoCrosstalk, pmVars
    <3> QED
      BY <1>2, <2>1, <2>2, <2>3, <2>5, <3>3, <3>4, WorkerMoves
  <2> QED
    BY <1>9, <2>6, <2>7 DEF Measure
<1>10. CASE StopTunnel(w)
  <2>1. /\ UNCHANGED <<kind, via>> /\ ppc[w] \in {"passed", "failed"}
        /\ tunnel' = [tunnel EXCEPT ![w] = FALSE] /\ tries' = [tries EXCEPT ![w] = @ + 1]
    BY <1>10 DEF StopTunnel
  <2>2. PICK l \in {"boot", "release"} : Go(w, l)
    BY <1>10 DEF StopTunnel
  <2>3. Alone(w) /\ gst' = gst
    <3>1. CASE Unbind(w)
      BY <3>1, BindAlone
    <3>2. CASE UNCHANGED pmVars
      BY <3>2 DEF Alone, pmVars
    <3> QED
      BY <1>10, <3>1, <3>2 DEF StopTunnel
  <2>4. listen'[w] = NoPort
    BY <1>1, <1>10 DEF StopTunnel, Unbind, pmVars
  <2>5. ppc'[w] = l
    BY <1>1, <2>2, GoType
  <2>6. /\ tunnel' \in [Workers -> BOOLEAN] /\ \A v \in Workers \ {w} : tunnel'[v] = tunnel[v]
        /\ ~tunnel'[w] /\ tries' \in [Workers -> Nat]
    BY <1>2, <2>1
  <2>7. WorkerHas(w)'
    BY <1>1, <2>1, <2>3, <2>4, <2>5, <2>6 DEF WorkerHas
  <2> QED
    BY <1>2, <2>1, <2>2, <2>3, <2>6, <2>7, WorkerMoves, CrosstalkSame
<1>11. CASE RunRelease(w)
  <2>1. /\ UNCHANGED <<kind, tunnel>> /\ ppc[w] = "release" /\ Release(w) /\ Go(w, "idle")
        /\ tries' = [tries EXCEPT ![w] = 0] /\ via' = [via EXCEPT ![w] = Nobody]
    BY <1>11 DEF RunRelease
  <2>2. Alone(w) /\ listen' = listen /\ gst'[w] = "out"
    BY <1>1, <2>1, GetAlone DEF Release
  <2>3. WorkerHas(w)'
    BY <1>1, <2>1, <2>2, GoType DEF WorkerHas
  <2>4. /\ tries' \in [Workers -> Nat]
        /\ via' \in [Workers -> Clients \cup {Foreign, Nobody}]
    BY <1>2, <2>1
  <2>5. NoCrosstalk'
    BY <1>1, <1>2, <2>1 DEF NoCrosstalk, Release
  <2> QED
    BY <1>2, <2>1, <2>2, <2>3, <2>4, <2>5, WorkerMoves
<1> QED
  BY <1>3, <1>4, <1>5, <1>6, <1>7, <1>8, <1>9, <1>10, <1>11 DEF ProbeStep

(* The loop of a worker.                                                     *)
LEMMA LoopKeeps ==
  ASSUME ScanInv, NEW w \in Workers, Checkpoint(w) \/ Take(w)
  PROVE  /\ ScanTypeOK' /\ RunAndClose' /\ NoCrosstalk'
         /\ \A v \in Workers : WorkerHas(v)'
<1> [PMNext]_pmVars /\ w \in Clients
  BY ProbeImplementsPM, WorkersAssumption
<1>1. WorkerHas(w) /\ ScanTypeOK /\ RunAndClose
  BY DEF ScanInv
<1>2. UNCHANGED <<pmVars, kind, tries, tunnel, via>>
  BY DEF Checkpoint, Take
<1>3. PICK l \in {"exited", "select", "run"} :
        /\ Go(w, l)
        /\ ppc[w] = "idle" => l = IF stopped \/ ctxDone THEN "exited" ELSE "select"
        /\ ppc[w] \in {"idle", "select"}
  BY DEF Checkpoint, Take
<1>4. UNCHANGED <<started, closed, wg, stopped, rpc, xpc, waiter>> /\ left' \in Nat
  BY <1>1 DEF Checkpoint, Take, lifeVars, ScanTypeOK
<1>5. /\ ppc' \in [Workers -> Steps] /\ ppc'[w] = l
      /\ \A v \in Workers \ {w} : ppc'[v] = ppc[v]
  BY <1>1, <1>3, GoType DEF Steps, Resting
<1>6. ScanTypeOK'
  BY <1>1, <1>2, <1>4, <1>5 DEF ScanTypeOK
<1>7. WorkerHas(w)'
  BY <1>1, <1>2, <1>3, <1>5 DEF WorkerHas, Resting, Bare, Using, pmVars
<1>8. \A v \in Workers \ {w} : WorkerHas(v)'
  BY <1>2, <1>5, OthersKeep DEF pmVars
<1>9. RunAndClose'
  <2>1. rpc = "chain"
    BY <1>1, <1>3 DEF RunAndClose, ScanTypeOK
  <2>2. waiter \in {"closing", "done"} => ppc'[w] = "exited"
    BY <1>1, <1>3, <1>5 DEF RunAndClose
  <2> QED
    BY <1>1, <1>2, <1>4, <1>5, <2>1, <2>2 DEF RunAndClose, pmVars
<1> QED
  BY <1>2, <1>6, <1>7, <1>8, <1>9, CrosstalkSame

(* Run, Close and the other processes change no worker, but for the start of *)
(* all of them.                                                              *)
LEMMA WorkersRest ==
  ASSUME ScanInv, [PMNext]_pmVars, UNCHANGED <<tunnel, via>>,
         \A w \in Workers : /\ ppc'[w] = ppc[w] \/ (ppc[w] = "off" /\ ppc'[w] = "idle")
                            /\ gst'[w] = gst[w] /\ listen'[w] = listen[w]
  PROVE  (\A w \in Workers : WorkerHas(w)') /\ NoCrosstalk'
<1>1. ASSUME NEW w \in Workers PROVE WorkerHas(w)'
  BY DEF ScanInv, WorkerHas, Resting, Bare, Using
<1> QED
  BY <1>1, CrosstalkSame

LEMMA RunKeeps ==
  ASSUME ScanInv, RunCheck \/ RunStep
  PROVE  /\ ScanTypeOK' /\ RunAndClose' /\ NoCrosstalk'
         /\ \A v \in Workers : WorkerHas(v)'
<1> [PMNext]_pmVars
  BY LifeImplementsPM DEF Next
<1>1. ScanTypeOK /\ RunAndClose /\ Runner \in Clients /\ Workers \subseteq Clients \ {Runner}
  BY RunnerAssumption DEF ScanInv
<1>2. CASE RunCheck \/ RunSwap \/ RunAdd \/ ChainSkips \/ ChainEnds \/ RunStop \/ RunDone
  <2>1. UNCHANGED <<pmVars, probeVars>>
    BY <1>2 DEF RunCheck, RunSwap, RunAdd, ChainSkips, ChainEnds, RunStop, RunDone
  <2>2. ScanTypeOK'
    <3>1. UNCHANGED <<kind, tries, ppc, tunnel, via, closed, xpc, waiter, left>>
      BY <1>2, <2>1 DEF probeVars, RunCheck, RunSwap, RunAdd, ChainSkips, ChainEnds, RunStop, RunDone
    <3>2. rpc' \in {"checked", "swapped", "start", "ended", "stopped", "returned"}
      BY <1>2 DEF RunCheck, RunSwap, RunAdd, ChainSkips, ChainEnds, RunStop, RunDone
    <3>3. started' \in BOOLEAN
      BY <1>1, <1>2 DEF ScanTypeOK, RunCheck, RunSwap, RunAdd, ChainSkips, ChainEnds, RunStop, RunDone
    <3>4. stopped' \in BOOLEAN
      BY <1>1, <1>2 DEF ScanTypeOK, RunCheck, RunSwap, RunAdd, ChainSkips, ChainEnds, RunStop, RunDone
    <3>5. wg' \in {0, 1}
      BY <1>1, <1>2 DEF RunAndClose, RunCheck, RunSwap, RunAdd, ChainSkips, ChainEnds, RunStop, RunDone
    <3> QED
      BY <1>1, <3>1, <3>2, <3>3, <3>4, <3>5 DEF ScanTypeOK
  <2>3. RunAndClose'
    BY <1>1, <1>2, <2>1 DEF ScanTypeOK, RunAndClose, pmVars, probeVars, RunCheck, RunSwap, RunAdd,
         ChainSkips, ChainEnds, RunStop, RunDone
  <2> QED
    BY <2>1, <2>2, <2>3, WorkersRest DEF pmVars, probeVars
<1>3. CASE ChainStart
  <2>1. UNCHANGED <<kind, tries, tunnel, via, started, closed, wg, stopped, xpc, waiter, left>>
    BY <1>3 DEF ChainStart
  <2>2. Alone(Runner) /\ listen' = listen
    BY <1>1, <1>3, GetAlone DEF ChainStart, Alone, pmVars
  <2>3. \/ rpc' = "init" /\ UNCHANGED ppc
        \/ rpc' = "chain" /\ ppc' = [w \in Workers |-> "idle"]
    BY <1>3 DEF ChainStart
  <2>4. rpc = "start" /\ \A w \in Workers : ppc[w] = "off"
    BY <1>1, <1>3 DEF ChainStart, RunAndClose
  <2>5. ScanTypeOK'
    BY <1>1, <2>1, <2>3 DEF ScanTypeOK, Steps, Resting
  <2>6. RunAndClose'
    BY <1>1, <2>1, <2>2, <2>3, <2>4 DEF RunAndClose, Alone
  <2> QED
    BY <1>1, <2>1, <2>2, <2>3, <2>4, <2>5, <2>6, WorkersRest DEF Alone
<1>4. CASE ProbeGetsPort
  <2>1. UNCHANGED <<probeVars, started, closed, wg, stopped, xpc, waiter, left>>
    BY <1>4 DEF ProbeGetsPort
  <2>2. Alone(Runner) /\ listen' = listen
    BY <1>1, <1>4, GetAlone DEF ProbeGetsPort
  <2>3. rpc = "init" /\ rpc' \in {"init", "validate", "ended"}
    BY <1>4 DEF ProbeGetsPort
  <2>4. ScanTypeOK'
    BY <1>1, <2>1, <2>3 DEF ScanTypeOK, probeVars
  <2>5. RunAndClose'
    BY <1>1, <2>1, <2>2, <2>3 DEF RunAndClose, Alone, probeVars
  <2> QED
    BY <1>1, <2>1, <2>2, <2>4, <2>5, WorkersRest DEF Alone, probeVars
<1>5. CASE ProbeValidates
  <2>1. UNCHANGED <<kind, tries, tunnel, via, started, closed, wg, stopped, xpc, waiter, left>>
    BY <1>5 DEF ProbeValidates
  <2>2. Alone(Runner) /\ listen' = listen
    BY <1>1, <1>5, GetAlone DEF ProbeValidates
  <2>3. \/ rpc' = "ended" /\ UNCHANGED ppc
        \/ rpc' = "chain" /\ ppc' = [w \in Workers |-> "idle"]
    BY <1>5 DEF ProbeValidates
  <2>4. rpc = "validate" /\ \A w \in Workers : ppc[w] = "off"
    BY <1>1, <1>5 DEF ProbeValidates, RunAndClose
  <2>5. ScanTypeOK'
    BY <1>1, <2>1, <2>3 DEF ScanTypeOK, Steps, Resting
  <2>6. RunAndClose'
    BY <1>1, <2>1, <2>2, <2>3, <2>4 DEF RunAndClose, Alone
  <2> QED
    BY <1>1, <2>1, <2>2, <2>3, <2>4, <2>5, <2>6, WorkersRest DEF Alone
<1> QED
  BY <1>2, <1>3, <1>4, <1>5 DEF RunStep

LEMMA CloseKeeps ==
  ASSUME ScanInv, CloseMark \/ CloseStep \/ WaiterStep \/ OtherProcess
  PROVE  /\ ScanTypeOK' /\ RunAndClose' /\ NoCrosstalk'
         /\ \A v \in Workers : WorkerHas(v)'
<1> [PMNext]_pmVars
  BY LifeImplementsPM DEF Next
<1>1. ScanTypeOK /\ RunAndClose /\ Runner \in Clients
  BY RunnerAssumption DEF ScanInv
<1>2. UNCHANGED <<probeVars, gst, listen>>
  BY DEF CloseMark, CloseStep, CloseCancel, CloseStop, CloseReturns, WaiterStep, WaiterWakes,
         WaiterCloses, OtherProcess, ForeignBind, ForeignLeave, Close, CancelCtx, pmVars
<1>3. ctxDone \in BOOLEAN /\ (ctxDone => ctxDone')
  BY DEF CloseMark, CloseStep, CloseCancel, CloseStop, CloseReturns, WaiterStep, WaiterWakes,
         WaiterCloses, OtherProcess, ForeignBind, ForeignLeave, Close, CancelCtx, pmVars,
         ScanInv, PMInv, PMTypeOK
<1>4. ScanTypeOK'
  <2>1. UNCHANGED <<kind, tries, ppc, tunnel, via, started, wg, rpc, left>>
    BY <1>2 DEF probeVars, lifeVars, CloseMark, CloseStep, CloseCancel, CloseStop, CloseReturns,
         WaiterStep, WaiterWakes, WaiterCloses, OtherProcess
  <2>2. closed' \in BOOLEAN /\ stopped' \in BOOLEAN
    BY <1>1 DEF ScanTypeOK, lifeVars, CloseMark, CloseStep, CloseCancel, CloseStop, CloseReturns,
         WaiterStep, WaiterWakes, WaiterCloses, OtherProcess
  <2>3. xpc' \in {xpc, "marked", "canceled", "waiting", "nil", "timeout"}
    BY DEF lifeVars, CloseMark, CloseStep, CloseCancel, CloseStop, CloseReturns, WaiterStep,
         WaiterWakes, WaiterCloses, OtherProcess
  <2>4. waiter' \in {waiter, "waiting", "closing", "done"}
    BY DEF lifeVars, CloseMark, CloseStep, CloseCancel, CloseStop, CloseReturns, WaiterStep,
         WaiterWakes, WaiterCloses, OtherProcess
  <2> QED
    BY <1>1, <2>1, <2>2, <2>3, <2>4 DEF ScanTypeOK
<1>5. RunAndClose'
  <2>1. CASE CloseMark \/ CloseStop \/ CloseReturns \/ WaiterCloses \/ OtherProcess
    BY <1>1, <1>2, <1>3, <2>1 DEF ScanTypeOK, RunAndClose, CloseMark, CloseStop, CloseReturns,
         WaiterCloses, OtherProcess, lifeVars, probeVars
  <2>2. CASE CloseCancel
    BY <1>1, <1>2, <2>2 DEF ScanTypeOK, RunAndClose, CloseCancel, CancelCtx, probeVars
  <2>3. CASE WaiterWakes
    <3>1. \A w \in Workers : ppc[w] \in {"off", "idle", "exited"}
      BY <1>1, <2>3 DEF ScanTypeOK, RunAndClose, WaiterWakes
    <3> QED
      BY <1>1, <1>2, <1>3, <2>3, <3>1 DEF ScanTypeOK, RunAndClose, WaiterWakes, probeVars
  <2> QED
    BY <2>1, <2>2, <2>3 DEF CloseStep, WaiterStep
<1> QED
  BY <1>2, <1>4, <1>5, WorkersRest DEF probeVars

LEMMA ScanInductive == ScanInv /\ [Next]_vars => ScanInv'
<1> SUFFICES ASSUME ScanInv, [Next]_vars PROVE ScanInv'
  OBVIOUS
<1>1. PMInv' /\ ListenHeld'
  BY LifeImplementsPM, PMInductive, ListenStep DEF ScanInv, PMInv
<1>2. CASE UNCHANGED vars
  <2>1. ScanTypeOK'
    BY <1>2 DEF ScanInv, ScanTypeOK, vars, probeVars, lifeVars
  <2>2. RunAndClose'
    BY <1>2 DEF ScanInv, RunAndClose, vars, pmVars, probeVars, lifeVars
  <2> QED
    BY <1>1, <1>2, <2>1, <2>2, LifeImplementsPM, WorkersRest
    DEF ScanInv, vars, pmVars, probeVars
<1> QED
  BY <1>1, <1>2, ProbeKeeps, LoopKeeps, RunKeeps, CloseKeeps DEF Next, ScanInv

-----------------------------------------------------------------------------
(* Every variable of a scan keeps its type.                                  *)
THEOREM ScanTypeCorrect == Spec => []ScanTypeOK
<1>1. ScanInv => ScanTypeOK
  BY DEF ScanInv
<1> QED
  BY <1>1, ScanInitially, ScanInductive, PTL DEF Spec

(* Before the ports come round, no result is measured through the tunnel of   *)
(* another worker, for any number of workers and ports.                      *)
THEOREM NoCrosstalkAlways == Spec => []NoCrosstalk
<1>1. ScanInv => NoCrosstalk
  BY DEF ScanInv
<1> QED
  BY <1>1, ScanInitially, ScanInductive, PTL DEF Spec

(* Whenever Close comes, before, in the middle of or after Run: when it or Run *)
(* has returned no client runs or listens and no worker has a port.          *)
THEOREM QuietAtEndAlways == Spec => []QuietAtEnd
<1>1. ScanInv => QuietAtEnd
  <2> SUFFICES ASSUME ScanInv, xpc = "nil" \/ rpc = "returned" PROVE QuietAtEnd
    BY DEF QuietAtEnd
  <2>1. \A w \in Workers : ppc[w] \in {"off", "idle", "exited"}
    BY DEF ScanInv, RunAndClose
  <2>2. \A w \in Workers : ~tunnel[w] /\ listen[w] = NoPort /\ gst[w] = "out"
    BY <2>1 DEF ScanInv, WorkerHas, Resting, Using
  <2>3. \A w \in Workers : held[w] = NoPort
    BY <2>2, RunnerAssumption DEF ScanInv, PMInv, HeldInside
  <2>4. \A c \in Clients : listen[c] = NoPort
    BY <2>2, RunnerAssumption DEF ScanInv, RunAndClose
  <2> QED
    BY <2>1, <2>2, <2>3, <2>4 DEF QuietAtEnd
<1> QED
  BY <1>1, ScanInitially, ScanInductive, PTL DEF Spec
=============================================================================
