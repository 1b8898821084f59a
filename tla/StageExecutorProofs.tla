-------------------------- MODULE StageExecutorProofs --------------------------
(***************************************************************************)
(* What a stage and its workers keep in whichever pipeline they run, for   *)
(* any number of stages, workers and addresses.  The proofs about the      *)
(* modes (StreamChainProofs, SeqChainProofs, BatchChainProofs) add what    *)
(* the mode does between the stages.                                       *)
(***************************************************************************)
EXTENDS StageExecutor, FiniteSetTheorems, TLAPS

(* A worker past the receive of runWorker holds an address of the input. *)
InHand ==
    \A w \in Workers :
        pc[w] \in {"admit", "probe", "claim", "write", "passed", "count",
                   "limit", "fatal"} => cur[w] \in IPs

(* Every reported address took a slot, and slots end at the limit. *)
OnlyClaimed ==
    /\ \A i \in Stage : Cardinality(reported[i]) <= succeeded[i]
    /\ Limit > 0 => succeeded[N] <= Limit

(* From the receive to the count an address is in the hands of one worker. *)
Busy == {"admit", "probe", "claim", "write", "passed", "count"}

(***************************************************************************)
(* No address is probed twice by a stage: what is queued has not been      *)
(* probed and no two workers have the same one; what was reported had been *)
(* probed; and the counter counts the probes.                              *)
(***************************************************************************)
Once ==
    /\ \A i \in Stage :
         /\ chan[i] \cap probed[i] = {}
         /\ reported[i] \subseteq probed[i]
         /\ processed[i] = Cardinality(probed[i])
    /\ \A w \in Workers :
         /\ pc[w] \in {"admit", "probe"} =>
              cur[w] \notin chan[StageOf[w]] \cup probed[StageOf[w]]
         /\ pc[w] \in {"claim", "write", "passed", "count"} => cur[w] \in probed[StageOf[w]]
         /\ pc[w] = "claim" => cur[w] \notin reported[StageOf[w]]
         /\ pc[w] \in {"write", "passed", "count"} => cur[w] \in reported[StageOf[w]]
    /\ \A v, w \in Workers :
         v # w /\ StageOf[v] = StageOf[w] /\ pc[v] \in Busy /\ pc[w] \in Busy =>
            cur[v] # cur[w]

(* The addresses that have come to a stage: queued, in hand or probed. *)
InHandOf(i, ip) ==
    \E w \in Workers : /\ StageOf[w] = i /\ cur[w] = ip
                       /\ pc[w] \in {"admit", "probe", "limit"}

Arrived(i) == {ip \in IPs : ip \in chan[i] \/ ip \in probed[i] \/ InHandOf(i, ip)}

(* On its way from stage i to the next, not sent yet. *)
Passing(i, ip) ==
    \E w \in Workers : /\ StageOf[w] = i /\ cur[w] = ip
                       /\ pc[w] \in {"write", "passed", "fatal"}

(* The writer of a stage is open as long as its probe is. *)
Together ==
    \A i \in Stage : probe[i] = "open" <=> writer[i] \in {"open", "off", "failed"}

(***************************************************************************)
(* What a stage reported is in its writer's hands unless the writer lost   *)
(* results or its errors are ignored.                                      *)
(***************************************************************************)
Writing(i, ip) ==
    \E w \in Workers : StageOf[w] = i /\ pc[w] = "write" /\ cur[w] = ip

Saved ==
    /\ \A w \in Workers : pc[w] = "write" => cur[w] \in reported[StageOf[w]]
    /\ \A i \in Stage :
         /\ written[i] \subseteq reported[i]
         /\ writer[i] = "off" => ignoreErr
         /\ writer[i] = "failed" => i \in badWriters
         /\ ~ignoreErr /\ i \notin badWriters =>
              \A ip \in reported[i] : ip \in written[i] \/ Writing(i, ip)

-----------------------------------------------------------------------------
LEMMA StageFacts ==
    /\ N \in Nat /\ N >= 1 /\ Limit \in Nat /\ Cardinality(IPs) \in Nat
    /\ N \in Stage /\ Stage \subseteq Nat /\ \A i \in Stage : 1 <= i /\ i <= N
    /\ \A w \in Workers : StageOf[w] \in Stage
  BY StagesAssumption, LimitsAssumption, InputAssumption, FS_CardinalityType DEF Stage

(* A counter of a stage stays a number when it is raised. *)
LEMMA Raised ==
    ASSUME NEW f \in [Stage -> Nat], NEW i
    PROVE  [f EXCEPT ![i] = @ + 1] \in [Stage -> Nat]
  <1>1. \A j \in Stage : f[j] \in Nat /\ f[j] + 1 \in Nat
    OBVIOUS
  <1>2. CASE i \in Stage
    BY <1>1, <1>2
  <1>3. CASE i \notin Stage
    BY <1>1, <1>3
  <1>4. QED
    BY <1>2, <1>3

(* A step of a worker keeps the types, and its hands full or empty. *)
LEMMA ExecTypeWork ==
    ASSUME ExecTypeOK, InHand, NEW w \in Workers, Work(w)
    PROVE  ExecTypeOK' /\ InHand'
<1> USE StageFacts DEF ExecTypeOK, InHand, queueVars, workerVars, countVars, openVars, Goto
<1>1. CASE Checkpoint(w)
  BY <1>1 DEF Checkpoint
<1>2. CASE Receive(w)
  <2>1. CASE \E ip \in chan[StageOf[w]] :
                /\ chan' = [chan EXCEPT ![StageOf[w]] = @ \ {ip}]
                /\ cur' = [cur EXCEPT ![w] = ip]
    <3>1. PICK ip \in chan[StageOf[w]] :
                /\ chan' = [chan EXCEPT ![StageOf[w]] = @ \ {ip}]
                /\ cur' = [cur EXCEPT ![w] = ip]
      BY <2>1
    <3>2. ip \in IPs /\ chan[StageOf[w]] \ {ip} \in SUBSET IPs
      OBVIOUS
    <3>3. chan' \in [Stage -> SUBSET IPs]
      BY <3>1, <3>2
    <3>4. QED
      BY <1>2, <3>1, <3>2, <3>3 DEF Receive
  <2>2. CASE UNCHANGED <<chan, cur>> /\ Goto(w, "exited")
    BY <1>2, <2>2 DEF Receive
  <2>3. QED
    BY <1>2, <2>1, <2>2 DEF Receive
<1>3. CASE Admit(w)
  BY <1>3 DEF Admit
<1>4. CASE RunProbe(w)
  <2>1. cur[w] \in IPs
    BY <1>4 DEF RunProbe
  <2>2. probed' \in [Stage -> SUBSET IPs]
    BY <1>4, <2>1 DEF RunProbe
  <2>3. processed' \in [Stage -> Nat]
    <3>1. processed' = [processed EXCEPT ![StageOf[w]] = @ + 1]
      BY <1>4 DEF RunProbe
    <3>2. QED
      BY <3>1, Raised
  <2>4. \E l \in {"idle", "claim"} : pc' = [pc EXCEPT ![w] = l]
    BY <1>4 DEF RunProbe
  <2>5. InHand'
    BY <1>4, <2>1, <2>4 DEF RunProbe
  <2>6. ExecTypeOK'
    BY <1>4, <2>2, <2>3, <2>4 DEF RunProbe
  <2>7. QED
    BY <2>5, <2>6
<1>5. CASE Claim(w)
  <2>1. cur[w] \in IPs
    BY <1>5 DEF Claim
  <2>2. reported' \in [Stage -> SUBSET IPs]
    BY <1>5, <2>1 DEF Claim
  <2>3. succeeded' \in [Stage -> Nat]
    <3>1. \/ succeeded' = [succeeded EXCEPT ![StageOf[w]] = @ + 1]
          \/ succeeded' = succeeded
      BY <1>5 DEF Claim
    <3>2. QED
      BY <3>1, Raised
  <2>4. slot' \in [Workers -> Nat]
    <3>1. succeeded[StageOf[w]] + 1 \in Nat
      <4>1. succeeded[StageOf[w]] \in Nat
        OBVIOUS
      <4>2. QED
        BY <4>1, SMT
    <3>2. \/ slot' = [slot EXCEPT ![w] = succeeded[StageOf[w]] + 1]
          \/ slot' = slot
      BY <1>5 DEF Claim
    <3>3. QED
      BY <3>1, <3>2
  <2>5. \E l \in {"limit", "write"} : pc' = [pc EXCEPT ![w] = l]
    BY <1>5 DEF Claim
  <2>6. InHand'
    BY <1>5, <2>1, <2>5 DEF Claim
  <2>7. ExecTypeOK'
    BY <1>5, <2>2, <2>3, <2>4, <2>5 DEF Claim
  <2>8. QED
    BY <2>6, <2>7
<1>6. CASE Write(w)
  BY <1>6 DEF Write, AfterWrite
<1>7. QED
  BY <1>1, <1>2, <1>3, <1>4, <1>5, <1>6 DEF Work

(* So do the other steps of the executors. *)
LEMMA ExecTypeOpen ==
    ASSUME ExecTypeOK, InHand, NEW i \in Stage,
           \/ \E n \in Nat : OpenStage(i, n)
           \/ OpenStageFails(i)
           \/ \E e \in BOOLEAN : CloseStage(i, e)
           \/ WriterFails(i)
    PROVE  ExecTypeOK' /\ InHand'
<1> USE DEF ExecTypeOK, InHand, queueVars, workerVars, countVars, openVars
<1>1. CASE \E n \in Nat : OpenStage(i, n)
  BY <1>1 DEF OpenStage
<1>2. CASE OpenStageFails(i)
  BY <1>2 DEF OpenStageFails
<1>3. CASE \E e \in BOOLEAN : CloseStage(i, e)
  BY <1>3 DEF CloseStage
<1>4. CASE WriterFails(i)
  BY <1>4 DEF WriterFails
<1>5. QED
  BY <1>1, <1>2, <1>3, <1>4

-----------------------------------------------------------------------------
(* All that is not a claim leaves the successes alone. *)
LEMMA NoClaim ==
    ASSUME OnlyClaimed, UNCHANGED <<reported, succeeded>>
    PROVE  OnlyClaimed'
  BY DEF OnlyClaimed

(***************************************************************************)
(* claimResultSlot raises succeeded only below the limit and every address *)
(* reported has its own slot.                                              *)
(***************************************************************************)
LEMMA ClaimStep ==
    ASSUME ExecTypeOK, OnlyClaimed, NEW w \in Workers, Claim(w)
    PROVE  OnlyClaimed'
<1> DEFINE i == StageOf[w]
<1>1. i \in Stage /\ N \in Stage
  BY StageFacts
<1>2. CASE LimitReached(i)
  BY <1>2, NoClaim DEF Claim
<1>3. CASE ~LimitReached(i)
  <2>1. /\ succeeded' = [succeeded EXCEPT ![i] = @ + 1]
        /\ reported' = [reported EXCEPT ![i] = @ \cup {cur[w]}]
    BY <1>3 DEF Claim
  <2>2. /\ succeeded \in [Stage -> Nat] /\ reported \in [Stage -> SUBSET IPs]
        /\ \A j \in Stage : Cardinality(reported[j]) <= succeeded[j]
        /\ Limit > 0 => succeeded[N] <= Limit
    BY DEF ExecTypeOK, OnlyClaimed
  <2>3. /\ Cardinality(reported[i]) \in Nat
        /\ Cardinality(reported[i] \cup {cur[w]}) \in Nat
        /\ Cardinality(reported[i] \cup {cur[w]}) <= Cardinality(reported[i]) + 1
    <3>1. IsFiniteSet(reported[i])
      BY <1>1, <2>2, InputAssumption, FS_Subset
    <3>2. Cardinality(reported[i]) \in Nat
      BY <3>1, FS_CardinalityType
    <3>3. \/ Cardinality(reported[i] \cup {cur[w]}) = Cardinality(reported[i])
          \/ Cardinality(reported[i] \cup {cur[w]}) = Cardinality(reported[i]) + 1
      BY <3>1, FS_AddElement, Zenon
    <3>4. QED
      BY <3>2, <3>3
  <2>4. ASSUME NEW j \in Stage
        PROVE  Cardinality(reported'[j]) <= succeeded'[j]
    <3>1. CASE j = i
      <4>1. succeeded'[i] = succeeded[i] + 1 /\ succeeded[i] \in Nat
        BY <1>1, <2>1, <2>2
      <4>2. reported'[i] = reported[i] \cup {cur[w]}
        BY <1>1, <2>1, <2>2
      <4>3. Cardinality(reported[i]) <= succeeded[i]
        BY <1>1, <2>2
      <4>4. QED
        BY <3>1, <4>1, <4>2, <4>3, <2>3
    <3>2. CASE j # i
      BY <1>1, <2>1, <2>2, <3>2
    <3>3. QED
      BY <3>1, <3>2
  <2>5. Limit > 0 => succeeded'[N] <= Limit
    <3>1. CASE i = N
      <4>1. succeeded'[N] = succeeded[N] + 1 /\ succeeded[N] \in Nat
        BY <1>1, <2>1, <2>2, <3>1
      <4>2. Limit > 0 => ~(succeeded[N] >= Limit)
        BY <1>3, <3>1 DEF LimitReached, ResultLimit
      <4>3. QED
        BY <4>1, <4>2, StageFacts
    <3>2. CASE i # N
      BY <1>1, <2>1, <2>2, <3>2
    <3>3. QED
      BY <3>1, <3>2
  <2>6. QED
    BY <2>4, <2>5 DEF OnlyClaimed
<1>4. QED
  BY <1>2, <1>3

-----------------------------------------------------------------------------
(* Only the worker that moves changes its place and what it holds. *)
LEMMA OthersStay ==
    ASSUME ExecTypeOK, NEW w \in Workers, Work(w)
    PROVE  /\ \A v \in Workers : v # w => pc'[v] = pc[v] /\ cur'[v] = cur[v]
           /\ UNCHANGED <<cause, eof, openVars, total>>
<1> USE DEF ExecTypeOK, queueVars, workerVars, countVars, openVars, Goto
<1>1. CASE Checkpoint(w)
  BY <1>1 DEF Checkpoint
<1>2. CASE Receive(w)
  BY <1>2 DEF Receive
<1>3. CASE Admit(w)
  BY <1>3 DEF Admit
<1>4. CASE RunProbe(w)
  BY <1>4 DEF RunProbe
<1>5. CASE Claim(w)
  BY <1>5 DEF Claim
<1>6. CASE Write(w)
  BY <1>6 DEF Write
<1>7. QED
  BY <1>1, <1>2, <1>3, <1>4, <1>5, <1>6 DEF Work

(* One more element raises the cardinality by one. *)
LEMMA OneMore ==
    ASSUME NEW S \in SUBSET IPs, NEW x, x \notin S
    PROVE  Cardinality(S \cup {x}) = Cardinality(S) + 1
  BY InputAssumption, FS_Subset, FS_AddElement

(* A step of a worker leaves every address with one worker. *)
LEMMA OnceWork ==
    ASSUME ExecTypeOK, InHand, Once, NEW w \in Workers, Work(w)
    PROVE  Once'
<1> DEFINE i == StageOf[w]
<1>0. i \in Stage /\ \A v \in Workers : StageOf[v] \in Stage
  BY StageFacts
<1>a. \A v \in Workers : v # w => pc'[v] = pc[v] /\ cur'[v] = cur[v]
  BY OthersStay
<1>b. /\ chan \in [Stage -> SUBSET IPs] /\ probed \in [Stage -> SUBSET IPs]
      /\ reported \in [Stage -> SUBSET IPs] /\ processed \in [Stage -> Nat]
      /\ pc \in [Workers -> {"idle", "select", "admit", "probe", "claim", "write",
                              "passed", "count", "limit", "fatal", "exited"}]
      /\ cur \in [Workers -> IPs \cup {NoIP}]
  BY DEF ExecTypeOK
<1> USE DEF queueVars, workerVars, countVars, openVars, Goto, Busy
<1>1. CASE Checkpoint(w)
  <2>1. /\ pc'[w] \in {"exited", "select"} /\ UNCHANGED <<chan, probed, reported, processed>>
    BY <1>1, <1>b DEF Checkpoint
  <2>2. QED
    BY <1>a, <1>b, <2>1 DEF Once
<1>2. CASE Receive(w)
  <2>1. CASE pc'[w] = "exited" /\ UNCHANGED <<chan, cur>>
    <3>1. UNCHANGED <<probed, reported, processed>>
      BY <1>2 DEF Receive
    <3>2. QED
      BY <1>a, <1>b, <2>1, <3>1 DEF Once
  <2>2. CASE ~(pc'[w] = "exited" /\ UNCHANGED <<chan, cur>>)
    <3>1. PICK ip \in chan[i] : /\ chan' = [chan EXCEPT ![i] = @ \ {ip}]
                                /\ cur' = [cur EXCEPT ![w] = ip]
      BY <1>2, <1>b, <2>2 DEF Receive
    <3>2. /\ pc'[w] = "admit" /\ cur'[w] = ip /\ UNCHANGED <<probed, reported, processed>>
      BY <1>2, <1>b, <2>2, <3>1 DEF Receive
    <3>3. /\ \A j \in Stage : chan'[j] \subseteq chan[j]
          /\ ip \notin chan'[i] /\ ip \notin probed[i]
      BY <1>0, <1>b, <3>1 DEF Once
    <3>4. \A v \in Workers : v # w /\ StageOf[v] = i /\ pc[v] \in Busy => cur[v] # ip
      BY <1>0, <1>b, <3>1, <3>3 DEF Once
    <3>5. \A j \in Stage : /\ chan'[j] \cap probed'[j] = {}
                           /\ reported'[j] \subseteq probed'[j]
                           /\ processed'[j] = Cardinality(probed'[j])
      BY <3>2, <3>3 DEF Once
    <3>6. \A v \in Workers :
         /\ pc'[v] \in {"admit", "probe"} =>
              cur'[v] \notin chan'[StageOf[v]] \cup probed'[StageOf[v]]
         /\ pc'[v] \in {"claim", "write", "passed", "count"} => cur'[v] \in probed'[StageOf[v]]
         /\ pc'[v] = "claim" => cur'[v] \notin reported'[StageOf[v]]
         /\ pc'[v] \in {"write", "passed", "count"} => cur'[v] \in reported'[StageOf[v]]
      BY <1>0, <1>a, <3>2, <3>3 DEF Once
    <3>7. QED
      BY <1>a, <3>2, <3>4, <3>5, <3>6 DEF Once
  <2>3. QED
    BY <2>1, <2>2
<1>3. CASE Admit(w)
  <2>1. /\ pc[w] = "admit" /\ pc'[w] \in {"limit", "idle", "probe"} /\ cur' = cur
        /\ UNCHANGED <<chan, probed, reported, processed>>
    BY <1>3, <1>b DEF Admit
  <2>2. QED
    BY <1>a, <1>b, <2>1 DEF Once
<1>4. CASE RunProbe(w)
  <2>1. /\ pc[w] = "probe" /\ pc'[w] \in {"idle", "claim"}
        /\ UNCHANGED <<cur, chan, reported>>
        /\ probed' = [probed EXCEPT ![i] = @ \cup {cur[w]}]
        /\ processed' = [processed EXCEPT ![i] = @ + 1]
    BY <1>4, <1>b DEF RunProbe
  <2>2. cur[w] \in IPs /\ cur[w] \notin chan[i] /\ cur[w] \notin probed[i]
    BY <2>1 DEF Once, InHand
  <2>3. \A j \in Stage : probed'[j] = IF j = i THEN probed[i] \cup {cur[w]} ELSE probed[j]
    BY <1>b, <2>1
  <2>4. \A j \in Stage : processed'[j] = Cardinality(probed'[j])
    <3>1. Cardinality(probed[i] \cup {cur[w]}) = Cardinality(probed[i]) + 1
      BY <1>0, <1>b, <2>2, OneMore
    <3>2. \A j \in Stage : processed'[j] = IF j = i THEN processed[i] + 1 ELSE processed[j]
      BY <1>b, <2>1
    <3>3. \A j \in Stage : processed[j] = Cardinality(probed[j])
      BY DEF Once
    <3>4. QED
      BY <1>0, <2>3, <3>1, <3>2, <3>3
  <2>5. \A j \in Stage : chan'[j] \cap probed'[j] = {} /\ reported'[j] \subseteq probed'[j]
    BY <1>0, <2>1, <2>2, <2>3 DEF Once
  <2>6. \A v \in Workers : v # w /\ StageOf[v] = i /\ pc[v] \in Busy => cur[v] # cur[w]
    BY <2>1 DEF Once
  <2>7. \A v \in Workers :
         /\ pc'[v] \in {"admit", "probe"} =>
              cur'[v] \notin chan'[StageOf[v]] \cup probed'[StageOf[v]]
         /\ pc'[v] \in {"claim", "write", "passed", "count"} => cur'[v] \in probed'[StageOf[v]]
         /\ pc'[v] = "claim" => cur'[v] \notin reported'[StageOf[v]]
         /\ pc'[v] \in {"write", "passed", "count"} => cur'[v] \in reported'[StageOf[v]]
    <3> SUFFICES ASSUME NEW v \in Workers
                 PROVE  /\ pc'[v] \in {"admit", "probe"} =>
                              cur'[v] \notin chan'[StageOf[v]] \cup probed'[StageOf[v]]
                        /\ pc'[v] \in {"claim", "write", "passed", "count"} => cur'[v] \in probed'[StageOf[v]]
                        /\ pc'[v] = "claim" => cur'[v] \notin reported'[StageOf[v]]
                        /\ pc'[v] \in {"write", "passed", "count"} => cur'[v] \in reported'[StageOf[v]]
      OBVIOUS
    <3>1. CASE v = w
      BY <1>0, <2>1, <2>2, <2>3, <3>1 DEF Once
    <3>2. CASE v # w
      BY <1>0, <1>a, <2>1, <2>3, <2>6, <3>2 DEF Once
    <3>3. QED
      BY <3>1, <3>2
  <2>8. \A u, v \in Workers :
           u # v /\ StageOf[u] = StageOf[v] /\ pc'[u] \in Busy /\ pc'[v] \in Busy =>
              cur'[u] # cur'[v]
    BY <1>a, <2>1 DEF Once
  <2>9. QED
    BY <2>4, <2>5, <2>7, <2>8 DEF Once
<1>5. CASE Claim(w)
  <2>1. /\ pc[w] = "claim" /\ UNCHANGED <<cur, chan, probed, processed>>
        /\ \/ pc'[w] = "limit" /\ UNCHANGED reported
           \/ pc'[w] = "write" /\ reported' = [reported EXCEPT ![i] = @ \cup {cur[w]}]
    BY <1>5, <1>b DEF Claim
  <2>2. cur[w] \in probed[i]
    BY <2>1 DEF Once
  <2>3. \A j \in Stage : \/ reported'[j] = reported[j]
                         \/ j = i /\ pc'[w] = "write" /\ reported'[j] = reported[j] \cup {cur[w]}
    BY <1>b, <2>1
  <2>4. \A v \in Workers : v # w /\ StageOf[v] = i /\ pc[v] \in Busy => cur[v] # cur[w]
    BY <2>1 DEF Once
  <2>5. pc'[w] = "write" => cur[w] \in reported'[i]
    BY <1>0, <1>b, <2>1
  <2>6. \A j \in Stage : chan'[j] \cap probed'[j] = {} /\ reported'[j] \subseteq probed'[j]
                         /\ processed'[j] = Cardinality(probed'[j])
    BY <1>0, <2>1, <2>2, <2>3 DEF Once
  <2>7. \A v \in Workers :
         /\ pc'[v] \in {"admit", "probe"} =>
              cur'[v] \notin chan'[StageOf[v]] \cup probed'[StageOf[v]]
         /\ pc'[v] \in {"claim", "write", "passed", "count"} => cur'[v] \in probed'[StageOf[v]]
         /\ pc'[v] = "claim" => cur'[v] \notin reported'[StageOf[v]]
         /\ pc'[v] \in {"write", "passed", "count"} => cur'[v] \in reported'[StageOf[v]]
    <3> SUFFICES ASSUME NEW v \in Workers
                 PROVE  /\ pc'[v] \in {"admit", "probe"} =>
                              cur'[v] \notin chan'[StageOf[v]] \cup probed'[StageOf[v]]
                        /\ pc'[v] \in {"claim", "write", "passed", "count"} => cur'[v] \in probed'[StageOf[v]]
                        /\ pc'[v] = "claim" => cur'[v] \notin reported'[StageOf[v]]
                        /\ pc'[v] \in {"write", "passed", "count"} => cur'[v] \in reported'[StageOf[v]]
      OBVIOUS
    <3>1. CASE v = w
      BY <2>1, <2>2, <2>5, <3>1
    <3>2. CASE v # w
      BY <1>0, <1>a, <2>1, <2>3, <2>4, <3>2 DEF Once
    <3>3. QED
      BY <3>1, <3>2
  <2>8. \A u, v \in Workers :
           u # v /\ StageOf[u] = StageOf[v] /\ pc'[u] \in Busy /\ pc'[v] \in Busy =>
              cur'[u] # cur'[v]
    BY <1>a, <2>1 DEF Once
  <2>9. QED
    BY <2>6, <2>7, <2>8 DEF Once
<1>6. CASE Write(w)
  <2>1. /\ pc[w] = "write" /\ pc'[w] \in {"limit", "passed", "idle", "fatal"}
        /\ UNCHANGED <<cur, chan, probed, reported, processed>>
    BY <1>6, <1>b DEF Write, AfterWrite
  <2>2. QED
    BY <1>a, <1>b, <2>1 DEF Once
<1>7. QED
  BY <1>1, <1>2, <1>3, <1>4, <1>5, <1>6 DEF Work

(***************************************************************************)
(* While nothing has stopped the pipeline a worker lets no address go      *)
(* before it was probed.                                                   *)
(***************************************************************************)
LEMMA ArrivedWork ==
    ASSUME ExecTypeOK, InHand, Once, cause = "none", NEW w \in Workers, Work(w),
           NEW j \in Stage
    PROVE  Arrived(j)' = Arrived(j)
<1> DEFINE i == StageOf[w]
<1>0. i \in Stage /\ \A v \in Workers : StageOf[v] \in Stage
  BY StageFacts
<1>a. \A v \in Workers : v # w => pc'[v] = pc[v] /\ cur'[v] = cur[v]
  BY OthersStay
<1>b. /\ chan \in [Stage -> SUBSET IPs] /\ probed \in [Stage -> SUBSET IPs]
      /\ pc \in [Workers -> {"idle", "select", "admit", "probe", "claim", "write",
                              "passed", "count", "limit", "fatal", "exited"}]
      /\ cur \in [Workers -> IPs \cup {NoIP}]
  BY DEF ExecTypeOK
<1> USE DEF queueVars, workerVars, countVars, openVars, Goto
(* It is enough to look at the worker itself. *)
<1>c. ASSUME \A ip \in IPs :
               (ip \in chan'[j] \/ ip \in probed'[j]
                  \/ (i = j /\ cur'[w] = ip /\ pc'[w] \in {"admit", "probe", "limit"}))
               <=> (ip \in chan[j] \/ ip \in probed[j]
                      \/ (i = j /\ cur[w] = ip /\ pc[w] \in {"admit", "probe", "limit"}))
      PROVE  Arrived(j)' = Arrived(j)
  BY <1>a, <1>c DEF Arrived, InHandOf
<1>d. ASSUME UNCHANGED <<chan, probed, cur>>, pc[w] \in {"admit", "probe", "limit"} <=>
                                              pc'[w] \in {"admit", "probe", "limit"}
      PROVE  Arrived(j)' = Arrived(j)
  BY <1>c, <1>d
<1>1. CASE Checkpoint(w)
  BY <1>1, <1>b, <1>c DEF Checkpoint
<1>2. CASE Receive(w)
  <2>1. CASE pc'[w] = "exited" /\ UNCHANGED <<chan, cur>>
    BY <1>2, <2>1, <1>d DEF Receive
  <2>2. CASE ~(pc'[w] = "exited" /\ UNCHANGED <<chan, cur>>)
    <3>1. PICK ip \in chan[i] : /\ chan' = [chan EXCEPT ![i] = @ \ {ip}]
                                /\ cur' = [cur EXCEPT ![w] = ip]
      BY <1>2, <1>b, <2>2 DEF Receive
    <3>2. /\ pc[w] = "select" /\ pc'[w] = "admit" /\ cur'[w] = ip /\ UNCHANGED probed
      BY <1>2, <1>b, <2>2, <3>1 DEF Receive
    <3>3. chan'[j] = IF j = i THEN chan[i] \ {ip} ELSE chan[j]
      BY <1>b, <3>1
    <3>4. QED
      BY <1>c, <3>2, <3>3
  <2>3. QED
    BY <2>1, <2>2
<1>3. CASE Admit(w)
  <2>1. pc[w] = "admit" /\ pc'[w] \in {"limit", "probe"} /\ UNCHANGED <<cur, chan, probed>>
    BY <1>3, <1>b DEF Admit, CtxDone
  <2>2. QED
    BY <1>d, <2>1
<1>4. CASE RunProbe(w)
  <2>1. /\ pc[w] = "probe" /\ pc'[w] \in {"idle", "claim"} /\ UNCHANGED <<cur, chan>>
        /\ probed' = [probed EXCEPT ![i] = @ \cup {cur[w]}]
    BY <1>4, <1>b DEF RunProbe
  <2>2. probed'[j] = IF j = i THEN probed[i] \cup {cur[w]} ELSE probed[j]
    BY <1>b, <2>1
  <2>3. QED
    BY <1>c, <2>1, <2>2
<1>5. CASE Claim(w)
  <2>1. /\ pc[w] = "claim" /\ pc'[w] \in {"limit", "write"} /\ UNCHANGED <<cur, chan, probed>>
    BY <1>5, <1>b DEF Claim
  <2>2. cur[w] \in probed[i]
    BY <2>1 DEF Once
  <2>3. QED
    BY <1>c, <2>1, <2>2
<1>6. CASE Write(w)
  <2>1. /\ pc[w] = "write" /\ UNCHANGED <<cur, chan, probed>>
        /\ pc'[w] \in {"limit", "passed", "idle", "fatal"}
    BY <1>6, <1>b DEF Write, AfterWrite
  <2>2. cur[w] \in probed[i]
    BY <2>1 DEF Once
  <2>3. QED
    BY <1>c, <2>1, <2>2
<1>7. QED
  BY <1>1, <1>2, <1>3, <1>4, <1>5, <1>6 DEF Work

(* A worker whose writer is open keeps what was reported saved. *)
LEMMA SavedWork ==
    ASSUME ExecTypeOK, InHand, Saved, NEW w \in Workers, Work(w),
           pc[w] = "write" => writer[StageOf[w]] # "closed" /\ writer[StageOf[w]] # "new"
    PROVE  Saved'
<1> DEFINE i == StageOf[w]
<1>0. i \in Stage /\ \A v \in Workers : StageOf[v] \in Stage
  BY StageFacts
<1>a. /\ \A v \in Workers : v # w => pc'[v] = pc[v] /\ cur'[v] = cur[v]
      /\ UNCHANGED <<ignoreErr, writer, badWriters>>
  BY OthersStay DEF openVars
<1>b. /\ reported \in [Stage -> SUBSET IPs] /\ written \in [Stage -> SUBSET IPs]
      /\ writer \in [Stage -> {"new", "open", "off", "failed", "closed"}]
      /\ ignoreErr \in BOOLEAN
      /\ pc \in [Workers -> {"idle", "select", "admit", "probe", "claim", "write",
                              "passed", "count", "limit", "fatal", "exited"}]
      /\ cur \in [Workers -> IPs \cup {NoIP}]
  BY DEF ExecTypeOK
<1> USE DEF queueVars, workerVars, countVars, openVars, Goto
<1>c. ASSUME UNCHANGED <<reported, written>>, pc[w] # "write", pc'[w] # "write"
      PROVE  Saved'
  BY <1>a, <1>b, <1>c DEF Saved, Writing
<1>1. CASE Checkpoint(w)
  BY <1>1, <1>b, <1>c DEF Checkpoint
<1>2. CASE Receive(w)
  BY <1>2, <1>b, <1>c DEF Receive
<1>3. CASE Admit(w)
  BY <1>3, <1>b, <1>c DEF Admit
<1>4. CASE RunProbe(w)
  BY <1>4, <1>b, <1>c DEF RunProbe
<1>5. CASE Claim(w)
  <2>1. CASE LimitReached(i)
    BY <1>5, <2>1, <1>b, <1>c DEF Claim
  <2>2. CASE ~LimitReached(i)
    <3>1. /\ pc[w] = "claim" /\ pc'[w] = "write" /\ UNCHANGED <<cur, written>>
          /\ reported' = [reported EXCEPT ![i] = @ \cup {cur[w]}]
      BY <1>5, <2>2, <1>b DEF Claim
    <3>2. \A j \in Stage : reported'[j] = IF j = i THEN reported[i] \cup {cur[w]} ELSE reported[j]
      BY <1>b, <3>1
    <3>3. \A j \in Stage, ip \in IPs : Writing(j, ip) => Writing(j, ip)'
      BY <1>a, <3>1 DEF Writing
    <3>4. Writing(i, cur[w])'
      BY <3>1 DEF Writing
    <3>5. \A v \in Workers : pc'[v] = "write" => cur'[v] \in reported'[StageOf[v]]
      BY <1>0, <1>a, <3>1, <3>2 DEF Saved
    <3>6. \A j \in Stage : written'[j] \subseteq reported'[j]
      BY <3>1, <3>2 DEF Saved
    <3>7. \A j \in Stage : ~ignoreErr' /\ j \notin badWriters' =>
             \A ip \in reported'[j] : ip \in written'[j] \/ Writing(j, ip)'
      BY <1>a, <1>b, <3>1, <3>2, <3>3, <3>4 DEF Saved
    <3>8. QED
      BY <1>a, <3>5, <3>6, <3>7 DEF Saved
  <2>3. QED
    BY <2>1, <2>2
<1>6. CASE Write(w)
  <2>1. /\ pc[w] = "write" /\ pc'[w] # "write" /\ UNCHANGED <<cur, reported>>
        /\ \/ written' = [written EXCEPT ![i] = @ \cup {cur[w]}]
           \/ UNCHANGED written /\ writer[i] \in {"off", "failed", "closed"}
    BY <1>6, <1>b DEF Write, AfterWrite
  <2>2. \A v \in Workers : pc'[v] = "write" => cur'[v] \in reported'[StageOf[v]]
    BY <1>a, <2>1 DEF Saved
  <2>3. \A j \in Stage, ip \in IPs : Writing(j, ip) => Writing(j, ip)' \/ (j = i /\ ip = cur[w])
    BY <1>a, <2>1 DEF Writing
  <2>4. CASE written' = [written EXCEPT ![i] = @ \cup {cur[w]}]
    <3>1. \A j \in Stage : written'[j] = IF j = i THEN written[i] \cup {cur[w]} ELSE written[j]
      BY <1>b, <2>4
    <3>2. cur[w] \in reported[i]
      BY <2>1 DEF Saved
    <3>3. \A j \in Stage : written'[j] \subseteq reported'[j]
      BY <2>1, <3>1, <3>2 DEF Saved
    <3>4. \A j \in Stage : ~ignoreErr' /\ j \notin badWriters' =>
             \A ip \in reported'[j] : ip \in written'[j] \/ Writing(j, ip)'
      BY <1>0, <1>a, <1>b, <2>1, <2>3, <3>1 DEF Saved
    <3>5. QED
      BY <1>a, <2>2, <3>3, <3>4 DEF Saved
  <2>5. CASE UNCHANGED written /\ writer[i] \in {"off", "failed"}
    <3>1. ignoreErr \/ i \in badWriters
      BY <1>0, <2>5 DEF Saved
    <3>2. \A j \in Stage : ~ignoreErr' /\ j \notin badWriters' =>
             \A ip \in reported'[j] : ip \in written'[j] \/ Writing(j, ip)'
      BY <1>a, <1>b, <2>1, <2>3, <2>5, <3>1 DEF Saved
    <3>3. QED
      BY <1>a, <2>1, <2>2, <2>5, <3>2 DEF Saved
  <2>6. QED
    BY <2>1, <2>4, <2>5
<1>7. QED
  BY <1>1, <1>2, <1>3, <1>4, <1>5, <1>6 DEF Work

(* Opening, failing and closing a stage leaves what was saved. *)
LEMMA SavedOpen ==
    ASSUME ExecTypeOK, Saved, NEW i \in Stage,
           \/ \E n \in Nat : OpenStage(i, n)
           \/ OpenStageFails(i)
           \/ \E e \in BOOLEAN : CloseStage(i, e)
           \/ WriterFails(i)
    PROVE  Saved'
<1>0. writer \in [Stage -> {"new", "open", "off", "failed", "closed"}] /\ badWriters \in SUBSET Stage
  BY DEF ExecTypeOK
<1>1. UNCHANGED <<pc, cur, reported, written, ignoreErr>>
  BY DEF OpenStage, OpenStageFails, CloseStage, WriterFails, workerVars, countVars
<1>2. badWriters \subseteq badWriters'
  BY DEF OpenStage, OpenStageFails, CloseStage, WriterFails
<1>3. \A j \in Stage : /\ writer'[j] = "off" => ignoreErr
                       /\ writer'[j] = "failed" => j \in badWriters'
  <2>1. CASE \E n \in Nat : OpenStage(i, n)
    BY <1>0, <1>2, <2>1 DEF OpenStage, Saved
  <2>2. CASE OpenStageFails(i)
    BY <1>0, <1>2, <2>2 DEF OpenStageFails, Saved
  <2>3. CASE \E e \in BOOLEAN : CloseStage(i, e)
    BY <1>0, <1>2, <2>3 DEF CloseStage, Saved
  <2>4. CASE WriterFails(i)
    BY <1>0, <1>2, <2>4 DEF WriterFails, Saved
  <2>5. QED
    BY <2>1, <2>2, <2>3, <2>4
<1>4. QED
  BY <1>1, <1>2, <1>3 DEF Saved, Writing

(* A worker that is sent on, and not to its writer, keeps what was saved. *)
LEMMA SavedGoto ==
    ASSUME ExecTypeOK, Saved, NEW w \in Workers, pc[w] # "write",
           NEW l, l # "write", pc' = [pc EXCEPT ![w] = l],
           UNCHANGED <<cur, reported, written, openVars>>
    PROVE  Saved'
  BY DEF ExecTypeOK, Saved, Writing, openVars

-----------------------------------------------------------------------------
(* What a claim does to the results of the scan, those of the last stage:  *)
(* nothing, or it adds one that was not there, below the limit.            *)
LEMMA ClaimLast ==
    ASSUME ExecTypeOK, InHand, OnlyClaimed, NEW w \in Workers, Claim(w)
    PROVE  /\ UNCHANGED <<written, badWriters, ignoreErr>>
           /\ \/ reported'[N] = reported[N]
              \/ \E ip \in IPs \ reported[N] :
                   /\ reported'[N] = reported[N] \cup {ip}
                   /\ Limit > 0 => Cardinality(reported[N]) < Limit
<1>0. /\ reported \in [Stage -> SUBSET IPs] /\ N \in Stage /\ StageOf[w] \in Stage
      /\ succeeded \in [Stage -> Nat]
  BY StageFacts DEF ExecTypeOK
<1>1. UNCHANGED <<written, badWriters, ignoreErr>> /\ pc[w] = "claim"
  BY DEF Claim, openVars
<1>2. CASE StageOf[w] = N /\ ~LimitReached(N)
  <2>1. reported'[N] = reported[N] \cup {cur[w]} /\ cur[w] \in IPs
    BY <1>0, <1>1, <1>2 DEF InHand, Claim
  <2>2. Limit > 0 => Cardinality(reported[N]) < Limit
    <3>1. Cardinality(reported[N]) <= succeeded[N] /\ Cardinality(reported[N]) \in Nat
      BY <1>0, InputAssumption, FS_Subset, FS_CardinalityType DEF OnlyClaimed
    <3>2. Limit > 0 => ~(succeeded[N] >= Limit)
      BY <1>2 DEF LimitReached, ResultLimit
    <3>3. QED
      BY <1>0, <3>1, <3>2, StageFacts
  <2>3. QED
    BY <1>1, <2>1, <2>2
<1>3. CASE ~(StageOf[w] = N /\ ~LimitReached(N))
  BY <1>0, <1>1, <1>3 DEF Claim
<1>4. QED
  BY <1>2, <1>3

(* What a write does to them: it saves one that was reported, or nothing. *)
LEMMA WriteLast ==
    ASSUME ExecTypeOK, InHand, Saved, NEW w \in Workers, Write(w)
    PROVE  /\ UNCHANGED <<reported, badWriters, ignoreErr>>
           /\ \/ written'[N] = written[N]
              \/ \E ip \in IPs \cap reported[N] : written'[N] = written[N] \cup {ip}
<1>0. /\ written \in [Stage -> SUBSET IPs] /\ N \in Stage /\ StageOf[w] \in Stage
  BY StageFacts DEF ExecTypeOK
<1>1. /\ UNCHANGED <<reported, badWriters, ignoreErr>> /\ pc[w] = "write"
      /\ written' = [written EXCEPT ![StageOf[w]] = @ \cup {cur[w]}] \/ UNCHANGED written
  BY DEF Write, openVars
<1>2. cur[w] \in reported[StageOf[w]] /\ cur[w] \in IPs
  BY <1>1 DEF Saved, InHand
<1>3. QED
  BY <1>0, <1>1, <1>2
=============================================================================
