-------------------------- MODULE StreamChainProofs --------------------------
(***************************************************************************)
(* The streaming pipeline for any number of stages, workers and addresses. *)
(* The inductive invariant StreamInv has the types, that a worker past the *)
(* receive holds an address, the accounting of the limit (OnlyClaimed),    *)
(* which stages are open in which phase of the scan (Phases) and what can  *)
(* have ended when (Ends); for the results, where every address is while   *)
(* nothing was stopped (FlowKept), what the writers have (Saved) and what  *)
(* was reported (Reported).                                                *)
(***************************************************************************)
EXTENDS StreamChain, StageExecutorProofs

(***************************************************************************)
(* Stages are opened one after the other, all are open while the pools     *)
(* run, and they are closed one after the other when no worker is active.  *)
(***************************************************************************)
Phases ==
    /\ mpc = "build" =>
         /\ at <= N
         /\ \A w \in Workers : pc[w] = "idle"
         /\ \A i \in Stage : IF i < at THEN probe[i] = "open"
                             ELSE probe[i] = "new" /\ writer[i] = "new"
    /\ mpc = "run" => at = 1 /\ \A i \in Stage : probe[i] = "open"
    /\ mpc \in {"close", "returned"} => \A w \in Workers : pc[w] \in {"idle", "exited"}
    /\ mpc = "close" => \A i \in Stage : i < at => probe[i] # "open"
    /\ mpc = "returned" => \A i \in Stage : probe[i] # "open"
    /\ \A i \in ended : PoolExited(i)

-----------------------------------------------------------------------------
(***************************************************************************)
(* Every step of a streaming scan keeps the types.                         *)
(***************************************************************************)
LEMMA TypeStep ==
    TypeOK /\ InHand /\ Phases /\ [Next]_vars => TypeOK' /\ InHand'
<1> SUFFICES ASSUME TypeOK, InHand, Phases, [Next]_vars
             PROVE  TypeOK' /\ InHand'
  OBVIOUS
<1> USE StageFacts DEF TypeOK, chainVars
<1>1. CASE UserCancel
  BY <1>1 DEF UserCancel, Cancel, ExecTypeOK, InHand, queueVars, workerVars, countVars, openVars
<1>2. CASE Build
  <2>1. (IF at = 1 THEN Cardinality(IPs) ELSE 0) \in Nat
    OBVIOUS
  <2>2. at \in Stage
    BY <1>2 DEF Build, Phases, Stage
  <2>3. ExecTypeOK' /\ InHand'
    BY <1>2, <2>1, <2>2, ExecTypeOpen DEF Build
  <2>4. at' \in 1..(N + 1) /\ mpc' \in {"build", "run", "close", "returned"}
    BY <1>2, <2>2 DEF Build
  <2>5. QED
    BY <1>2, <2>3, <2>4 DEF Build
<1>3. CASE BuildFails
  <2>1. at \in Stage
    BY <1>3 DEF BuildFails, Phases, Stage
  <2>2. ExecTypeOK' /\ InHand'
    BY <1>3, <2>1, ExecTypeOpen DEF BuildFails
  <2>3. QED
    BY <1>3, <2>2 DEF BuildFails
<1>4. CASE Read
  <2>1. PICK ip \in unread : /\ unread' = unread \ {ip}
                             /\ chan' = [chan EXCEPT ![1] = @ \cup {ip}]
    BY <1>4 DEF Read
  <2>2. chan' \in [Stage -> SUBSET IPs] /\ unread' \in SUBSET IPs
    BY <2>1 DEF ExecTypeOK
  <2>3. ExecTypeOK'
    BY <1>4, <2>2 DEF Read, ExecTypeOK, workerVars, countVars, openVars
  <2>4. InHand'
    BY <1>4 DEF Read, InHand, workerVars
  <2>5. QED
    BY <1>4, <2>2, <2>3, <2>4 DEF Read
<1>5. CASE ReadEnd \/ ReadFails
  <2>1. eof' \in SUBSET Stage
    <3>1. 1 \in Stage
      BY DEF Stage
    <3>2. eof' = eof \cup {1} /\ eof \in SUBSET Stage
      BY <1>5 DEF ReadEnd, ReadFails, ExecTypeOK
    <3>3. QED
      BY <3>1, <3>2
  <2>2. ExecTypeOK'
    BY <1>5, <2>1 DEF ReadEnd, ReadFails, ExecTypeOK, workerVars, countVars, openVars
  <2>3. InHand'
    BY <1>5 DEF ReadEnd, ReadFails, InHand, workerVars
  <2>4. QED
    BY <1>5, <2>2, <2>3 DEF ReadEnd, ReadFails
<1>6. ASSUME NEW w \in Workers, StageWork(w)
      PROVE  TypeOK' /\ InHand'
  BY <1>6, ExecTypeWork DEF StageWork
<1>7. ASSUME NEW w \in Workers, StopAtLimit(w) \/ StopOnFatal(w)
      PROVE  TypeOK' /\ InHand'
  <2>1. \E l \in {"idle", "exited"} : pc' = [pc EXCEPT ![w] = l]
    BY <1>7 DEF StopAtLimit, StopOnFatal, Goto
  <2>2. cause' \in {"none", "canceled", "limit", "fatal"}
    BY <1>7 DEF StopAtLimit, StopOnFatal, Cancel, ExecTypeOK
  <2>3. UNCHANGED <<queueVars, cur, slot, countVars, openVars, chainVars>>
    BY <1>7 DEF StopAtLimit, StopOnFatal
  <2>4. ExecTypeOK'
    BY <2>1, <2>2, <2>3 DEF ExecTypeOK, queueVars, countVars, openVars
  <2>5. InHand'
    BY <2>1, <2>3 DEF InHand, ExecTypeOK
  <2>6. QED
    BY <2>3, <2>4, <2>5
<1>8. ASSUME NEW w \in Workers, Forward(w)
      PROVE  TypeOK' /\ InHand'
  BY <1>8 DEF Forward, Goto, ExecTypeOK, InHand, countVars, openVars
<1>9. ASSUME NEW w \in Workers, CountForwarded(w)
      PROVE  TypeOK' /\ InHand'
  <2>1. total' \in [Stage -> Nat]
    <3>1. total' = [total EXCEPT ![StageOf[w] + 1] = @ + 1]
      BY <1>9 DEF CountForwarded
    <3>2. total \in [Stage -> Nat]
      BY DEF ExecTypeOK
    <3>3. QED
      BY <3>1, <3>2, Raised
  <2>2. QED
    BY <1>9, <2>1 DEF CountForwarded, Goto, ExecTypeOK, InHand, queueVars, openVars
<1>10. ASSUME NEW i \in Stage, FlushFails(i)
       PROVE  TypeOK' /\ InHand'
  BY <1>10, ExecTypeOpen DEF FlushFails
<1>11. ASSUME NEW i \in Stage, StageEnds(i)
       PROVE  TypeOK' /\ InHand'
  BY <1>11 DEF StageEnds, ExecTypeOK, InHand, workerVars, countVars, openVars
<1>12. CASE AllEnded \/ Return
  BY <1>12 DEF AllEnded, Return, ExecTypeOK, InHand, execVars
<1>13. CASE CloseNext
  BY <1>13, ExecTypeOpen DEF CloseNext, Stage
<1>14. CASE UNCHANGED vars
  BY <1>14 DEF vars, ExecTypeOK, InHand, execVars
<1>15. QED
  BY <1>1, <1>2, <1>3, <1>4, <1>5, <1>6, <1>7, <1>8, <1>9, <1>10, <1>11, <1>12,
     <1>13, <1>14 DEF Next, MainStep, PoolStep

LEMMA OnlyClaimedStep ==
    TypeOK /\ OnlyClaimed /\ [Next]_vars => OnlyClaimed'
<1> SUFFICES ASSUME TypeOK, OnlyClaimed, [Next]_vars
             PROVE  OnlyClaimed'
  OBVIOUS
<1> USE DEF queueVars, workerVars, countVars, openVars, chainVars
<1>1. CASE UserCancel
  BY <1>1, NoClaim DEF UserCancel
<1>2. CASE Build \/ BuildFails
  BY <1>2, NoClaim DEF Build, BuildFails, OpenStage, OpenStageFails
<1>3. CASE Read \/ ReadEnd \/ ReadFails
  BY <1>3, NoClaim DEF Read, ReadEnd, ReadFails
<1>4. ASSUME NEW w \in Workers, StageWork(w)
      PROVE  OnlyClaimed'
  <2>1. CASE Claim(w)
    BY <2>1, ClaimStep DEF TypeOK
  <2>2. CASE Checkpoint(w) \/ Receive(w) \/ Admit(w) \/ RunProbe(w) \/ Write(w)
    BY <2>2, NoClaim DEF Checkpoint, Receive, Admit, RunProbe, Write
  <2>3. QED
    BY <1>4, <2>1, <2>2 DEF StageWork, Work
<1>5. ASSUME NEW w \in Workers, StopAtLimit(w) \/ StopOnFatal(w)
                                   \/ Forward(w) \/ CountForwarded(w)
      PROVE  OnlyClaimed'
  BY <1>5, NoClaim DEF StopAtLimit, StopOnFatal, Forward, CountForwarded
<1>6. ASSUME NEW i \in Stage, FlushFails(i) \/ StageEnds(i)
      PROVE  OnlyClaimed'
  BY <1>6, NoClaim DEF FlushFails, WriterFails, StageEnds
<1>7. CASE AllEnded \/ Return \/ UNCHANGED vars
  BY <1>7, NoClaim DEF AllEnded, Return, execVars, vars
<1>8. CASE CloseNext
  BY <1>8, NoClaim DEF CloseNext, CloseStage
<1>9. QED
  BY <1>1, <1>2, <1>3, <1>4, <1>5, <1>6, <1>7, <1>8 DEF Next, MainStep, PoolStep

-----------------------------------------------------------------------------
(***************************************************************************)
(* Opening, failing and closing a stage keep writer and probe together.    *)
(***************************************************************************)
LEMMA TogetherStep ==
    TypeOK /\ Phases /\ Together /\ [Next]_vars => Together'
<1> SUFFICES ASSUME TypeOK, Phases, Together, [Next]_vars
             PROVE  Together'
  OBVIOUS
<1>0. writer \in [Stage -> {"new", "open", "off", "failed", "closed"}]
      /\ probe \in [Stage -> {"new", "open", "closed"}]
  BY DEF TypeOK, ExecTypeOK
<1> USE DEF queueVars, workerVars, countVars, openVars, chainVars
<1>a. ASSUME UNCHANGED <<writer, probe>>
      PROVE  Together'
  BY <1>a DEF Together
<1>1. CASE UserCancel
  BY <1>1, <1>a DEF UserCancel
<1>2. CASE Build
  BY <1>0, <1>2 DEF Build, OpenStage, Together
<1>3. CASE BuildFails
  <2>1. mpc = "build" /\ \A i \in Stage : i >= at => probe[i] = "new" /\ writer[i] = "new"
    BY <1>3, StageFacts DEF BuildFails, Phases, TypeOK
  <2>2. /\ probe' = probe
        /\ writer' = writer \/ writer' = [writer EXCEPT ![at] = "closed"]
    BY <1>3 DEF BuildFails, OpenStageFails
  <2>3. \A i \in Stage : i = at => probe[i] = "new"
    BY <2>1, StageFacts
  <2>4. QED
    BY <1>0, <2>2, <2>3 DEF Together
<1>4. CASE Read \/ ReadEnd \/ ReadFails
  BY <1>4, <1>a DEF Read, ReadEnd, ReadFails
<1>5. ASSUME NEW w \in Workers, PoolStep(w)
      PROVE  Together'
  BY <1>5, <1>a DEF PoolStep, StageWork, Work, Checkpoint, Receive, Admit, RunProbe,
     Claim, Write, StopAtLimit, StopOnFatal, Forward, CountForwarded
<1>6. ASSUME NEW i \in Stage, FlushFails(i)
      PROVE  Together'
  BY <1>0, <1>6 DEF FlushFails, WriterFails, Together
<1>7. ASSUME NEW i \in Stage, StageEnds(i)
      PROVE  Together'
  BY <1>7, <1>a DEF StageEnds
<1>8. CASE AllEnded \/ Return \/ UNCHANGED vars
  BY <1>8, <1>a DEF AllEnded, Return, execVars, vars
<1>9. CASE CloseNext
  BY <1>0, <1>9 DEF CloseNext, CloseStage, Together
<1>10. QED
  BY <1>1, <1>2, <1>3, <1>4, <1>5, <1>6, <1>7, <1>8, <1>9 DEF Next, MainStep

-----------------------------------------------------------------------------
(* A worker that has left its pool does not come back. *)
LEMMA ExitedStays ==
    ASSUME TypeOK, NEW w \in Workers, PoolStep(w)
    PROVE  pc[w] # "exited" /\ \A v \in Workers : v # w => pc'[v] = pc[v]
<1>1. pc \in [Workers -> {"idle", "select", "admit", "probe", "claim", "write",
                          "passed", "count", "limit", "fatal", "exited"}]
  BY DEF TypeOK, ExecTypeOK
<1>2. CASE StageWork(w)
  BY <1>1, <1>2 DEF StageWork, Work, Checkpoint, Receive, Admit, RunProbe, Claim,
     Write, Goto
<1>3. CASE StopAtLimit(w) \/ StopOnFatal(w) \/ Forward(w) \/ CountForwarded(w)
  BY <1>1, <1>3 DEF StopAtLimit, StopOnFatal, Forward, CountForwarded, Goto
<1>4. QED
  BY <1>2, <1>3 DEF PoolStep

(***************************************************************************)
(* The phases of a scan follow each other: the pools only run when every   *)
(* stage is open, and stages are only closed when no worker is active.     *)
(***************************************************************************)
LEMMA PhasesStep ==
    TypeOK /\ Phases /\ [Next]_vars => Phases'
<1> SUFFICES ASSUME TypeOK, Phases, [Next]_vars
             PROVE  Phases'
  OBVIOUS
<1>0. /\ probe \in [Stage -> {"new", "open", "closed"}]
      /\ writer \in [Stage -> {"new", "open", "off", "failed", "closed"}]
      /\ at \in 1..(N + 1) /\ ended \in SUBSET Stage
  BY DEF TypeOK, ExecTypeOK
<1> USE StageFacts DEF queueVars, workerVars, countVars, openVars, chainVars
<1>a. ASSUME UNCHANGED <<mpc, at, ended, pc, probe>>, mpc # "build"
      PROVE  Phases'
  BY <1>a DEF Phases, PoolExited, Pool
<1>b. ASSUME UNCHANGED <<mpc, at, ended, pc, probe, writer>>
      PROVE  Phases'
  BY <1>b DEF Phases, PoolExited, Pool
<1>1. CASE UserCancel
  BY <1>1, <1>b DEF UserCancel
<1>2. CASE Build
  <2>1. /\ mpc = "build" /\ UNCHANGED <<pc, ended>>
        /\ probe' = [probe EXCEPT ![at] = "open"]
        /\ \A i \in Stage : i # at => writer'[i] = writer[i]
    BY <1>0, <1>2 DEF Build, OpenStage
  <2>2. CASE at < N
    <3>1. mpc' = "build" /\ at' = at + 1
      BY <1>2, <2>2 DEF Build
    <3>2. \A i \in Stage : IF i < at' THEN probe'[i] = "open"
                           ELSE probe'[i] = "new" /\ writer'[i] = "new"
      <4> SUFFICES ASSUME NEW i \in Stage
                   PROVE  IF i < at' THEN probe'[i] = "open"
                          ELSE probe'[i] = "new" /\ writer'[i] = "new"
        OBVIOUS
      <4>1. IF i < at THEN probe[i] = "open"
            ELSE probe[i] = "new" /\ writer[i] = "new"
        BY <2>1 DEF Phases
      <4>2. probe'[i] = IF i = at THEN "open" ELSE probe[i]
        BY <1>0, <2>1
      <4>3. (i < at' <=> i < at \/ i = at) /\ (i = at => ~(i < at))
        BY <1>0, <3>1
      <4>4. QED
        BY <2>1, <4>1, <4>2, <4>3
    <3>3. at' <= N
      BY <1>0, <2>2, <3>1
    <3>4. QED
      BY <2>1, <3>1, <3>2, <3>3 DEF Phases, PoolExited, Pool
  <2>3. CASE ~(at < N)
    <3>1. mpc' = "run" /\ at' = 1
      BY <1>2, <2>3 DEF Build
    <3>2. \A i \in Stage : probe'[i] = "open"
      BY <1>0, <2>1, <2>3 DEF Phases
    <3>3. QED
      BY <2>1, <3>1, <3>2 DEF Phases, PoolExited, Pool
  <2>4. QED
    BY <2>2, <2>3
<1>3. CASE BuildFails
  <2>1. mpc = "build" /\ mpc' = "close" /\ at' = 1 /\ UNCHANGED <<pc, ended, probe>>
    BY <1>3 DEF BuildFails, OpenStageFails
  <2>2. \A i \in Stage : ~(i < at')
    BY <2>1
  <2>3. QED
    BY <2>1, <2>2 DEF Phases, PoolExited, Pool
<1>4. CASE Read \/ ReadEnd \/ ReadFails
  BY <1>4, <1>b DEF Read, ReadEnd, ReadFails
<1>5. ASSUME NEW w \in Workers, PoolStep(w)
      PROVE  Phases'
  <2>1. mpc = "run" /\ UNCHANGED <<mpc, at, ended, probe>>
    BY <1>5 DEF PoolStep, StageWork, Work, Checkpoint, Receive, Admit, RunProbe,
       Claim, Write, StopAtLimit, StopOnFatal, Forward, CountForwarded
  <2>2. pc[w] # "exited" /\ \A v \in Workers : v # w => pc'[v] = pc[v]
    BY <1>5, ExitedStays
  <2>3. \A i \in ended' : PoolExited(i)'
    BY <2>1, <2>2 DEF Phases, PoolExited, Pool
  <2>4. QED
    BY <2>1, <2>3 DEF Phases
<1>6. ASSUME NEW i \in Stage, FlushFails(i)
      PROVE  Phases'
  BY <1>6, <1>a DEF FlushFails, WriterFails
<1>7. ASSUME NEW i \in Stage, StageEnds(i)
      PROVE  Phases'
  <2>1. /\ mpc = "run" /\ UNCHANGED <<mpc, at, pc, probe>>
        /\ ended' = ended \cup {i} /\ PoolExited(i)
    BY <1>7 DEF StageEnds
  <2>2. \A j \in ended' : PoolExited(j)'
    BY <2>1 DEF Phases, PoolExited, Pool
  <2>3. QED
    BY <2>1, <2>2 DEF Phases
<1>8. CASE AllEnded
  <2>1. /\ mpc = "run" /\ mpc' = "close" /\ ended = Stage
        /\ UNCHANGED <<at, ended, pc, probe>>
    BY <1>8 DEF AllEnded, execVars
  <2>2. \A v \in Workers : pc'[v] = "exited"
    BY <2>1 DEF Phases, PoolExited, Pool
  <2>3. \A i \in Stage : ~(i < at')
    BY <2>1 DEF Phases
  <2>4. QED
    BY <2>1, <2>2, <2>3 DEF Phases, PoolExited, Pool
<1>9. CASE CloseNext
  <2>1. /\ mpc = "close" /\ UNCHANGED <<mpc, ended, pc>> /\ at' = at + 1
        /\ probe' = [probe EXCEPT ![at] = "closed"]
    BY <1>9 DEF CloseNext, CloseStage
  <2>2. \A i \in Stage : i < at' => probe'[i] # "open"
    BY <1>0, <2>1 DEF Phases
  <2>3. QED
    BY <2>1, <2>2 DEF Phases, PoolExited, Pool
<1>10. CASE Return
  <2>1. /\ mpc = "close" /\ mpc' = "returned" /\ UNCHANGED <<at, ended, pc, probe>>
        /\ \A i \in Stage : i >= at => probe[i] # "open"
    BY <1>10 DEF Return, execVars
  <2>2. \A i \in Stage : probe'[i] # "open"
    BY <1>0, <2>1 DEF Phases
  <2>3. QED
    BY <2>1, <2>2 DEF Phases, PoolExited, Pool
<1>11. CASE UNCHANGED vars
  BY <1>11, <1>b DEF execVars, vars
<1>12. QED
  BY <1>1, <1>2, <1>3, <1>4, <1>5, <1>6, <1>7, <1>8, <1>9, <1>10, <1>11
     DEF Next, MainStep

-----------------------------------------------------------------------------
(* Sent by stage i and not yet in the next one's total. *)
Counting(i) ==
    {ip \in IPs : \E w \in Workers : StageOf[w] = i /\ cur[w] = ip /\ pc[w] = "count"}

(* Between two stages: what the first reported is on its way or there. *)
Link(i) ==
    /\ Arrived(i + 1) \subseteq reported[i]
    /\ \A ip \in reported[i] : ip \in Arrived(i + 1) \/ Passing(i, ip)
    /\ total[i + 1] = Cardinality(Arrived(i + 1) \ Counting(i))

(* A worker sends an address once, and leaves only when there is no more. *)
Sent(w) ==
    /\ pc[w] \in {"write", "passed"} /\ StageOf[w] # N => cur[w] \notin Arrived(StageOf[w] + 1)
    /\ pc[w] = "count" => StageOf[w] # N /\ cur[w] \in Arrived(StageOf[w] + 1)
    /\ pc[w] = "limit" => StageOf[w] = N
    /\ pc[w] = "exited" => StageOf[w] \in eof /\ chan[StageOf[w]] = {}

(***************************************************************************)
(* As long as nothing stops the pipeline every address of the input is     *)
(* unread or has come to the first stage, and none is lost between two.    *)
(***************************************************************************)
Flow ==
    /\ Once
    /\ unread \cap Arrived(1) = {} /\ IPs = unread \cup Arrived(1)
    /\ \A i \in Stage \ {N} : Link(i)
    /\ \A w \in Workers : Sent(w)

FlowKept == cause = "none" => Flow

(* When the channels are closed, and what the main goroutine waited for. *)
Ends ==
    /\ 1 \in eof <=> reader # "reading"
    /\ reader = "ok" => unread = {}
    /\ \A i \in Stage \ {N} : i + 1 \in eof <=> i \in ended
    /\ mpc = "build" =>
         /\ reader = "reading"
         /\ \A i \in Stage : chan[i] = {} /\ probed[i] = {}
         /\ at > 1 => total[1] = Cardinality(IPs)
    /\ mpc \in {"close", "returned"} /\ reader # "reading" => ended = Stage
    /\ mpc = "run" \/ reader # "reading" => total[1] = Cardinality(IPs)

LEMMA NextStage ==
    /\ \A i \in Stage \ {N} : i + 1 \in Stage /\ i + 1 # 1 /\ i + 1 # i
    /\ \A i \in Stage \ {1} : i - 1 \in Stage \ {N} /\ (i - 1) + 1 = i
    /\ \A i, j \in Stage : i + 1 = j + 1 => i = j
    /\ \A i \in Stage : i + 1 <= N <=> i # N
    /\ 1 \in Stage
  BY StagesAssumption DEF Stage

(* Nothing that was cancelled goes on as if it had not been. *)
LEMMA CauseKept ==
    [Next]_vars /\ cause' = "none" =>
       /\ cause = "none" /\ ~UserCancel
       /\ \A w \in Workers : ~StopAtLimit(w) /\ ~StopOnFatal(w)
<1> SUFFICES ASSUME [Next]_vars, cause' = "none"
             PROVE  /\ cause = "none" /\ ~UserCancel
                    /\ \A w \in Workers : ~StopAtLimit(w) /\ ~StopOnFatal(w)
  OBVIOUS
<1>1. ~UserCancel /\ \A w \in Workers : ~StopAtLimit(w) /\ ~StopOnFatal(w)
  BY DEF UserCancel, StopAtLimit, StopOnFatal, Cancel
<1>2. CASE MainStep \/ Read \/ ReadEnd \/ ReadFails
  BY <1>1, <1>2 DEF MainStep, Build, OpenStage, BuildFails, OpenStageFails, AllEnded,
     CloseNext, CloseStage, Return, Read, ReadEnd, ReadFails, execVars
<1>3. CASE \E w \in Workers : PoolStep(w)
  BY <1>1, <1>3 DEF PoolStep, StageWork, Work, Checkpoint, Receive, Admit, RunProbe,
     Claim, Write, Forward, CountForwarded
<1>4. CASE \E i \in Stage : FlushFails(i) \/ StageEnds(i)
  BY <1>1, <1>4 DEF FlushFails, WriterFails, StageEnds
<1>5. CASE UNCHANGED vars
  BY <1>1, <1>5 DEF vars, execVars
<1>6. QED
  BY <1>1, <1>2, <1>3, <1>4, <1>5 DEF Next

(* The bookkeeping of the channels. *)
LEMMA EndsStep ==
    TypeOK /\ Phases /\ Ends /\ [Next]_vars => Ends'
<1> SUFFICES ASSUME TypeOK, Phases, Ends, [Next]_vars
             PROVE  Ends'
  OBVIOUS
<1>0. /\ chan \in [Stage -> SUBSET IPs] /\ probed \in [Stage -> SUBSET IPs]
      /\ total \in [Stage -> Nat] /\ eof \in SUBSET Stage /\ ended \in SUBSET Stage
      /\ at \in 1..(N + 1)
  BY DEF TypeOK, ExecTypeOK
<1> USE NextStage, StageFacts DEF queueVars, workerVars, countVars, openVars, chainVars
<1>a. ASSUME UNCHANGED <<mpc, at, ended, reader, unread, eof, chan, probed, total>>
      PROVE  Ends'
  BY <1>a DEF Ends
<1>1. CASE UserCancel
  BY <1>1, <1>a DEF UserCancel
<1>2. CASE Build
  <2>1. /\ mpc = "build" /\ UNCHANGED <<ended, reader, unread, eof, chan, probed>>
        /\ total' = [total EXCEPT ![at] = IF at = 1 THEN Cardinality(IPs) ELSE 0]
        /\ IF at < N THEN at' = at + 1 /\ mpc' = "build" ELSE at' = 1 /\ mpc' = "run"
    BY <1>2 DEF Build, OpenStage
  <2>2. total'[1] = Cardinality(IPs)
    BY <1>0, <2>1 DEF Ends
  <2>3. QED
    BY <2>1, <2>2 DEF Ends
<1>3. CASE BuildFails
  BY <1>3 DEF BuildFails, OpenStageFails, Ends
<1>4. CASE Read \/ ReadEnd \/ ReadFails
  BY <1>4 DEF Read, ReadEnd, ReadFails, Ends
<1>5. ASSUME NEW w \in Workers, PoolStep(w)
      PROVE  Ends'
  <2>1. mpc = "run" /\ UNCHANGED <<mpc, ended, reader, unread, eof>>
    BY <1>5 DEF PoolStep, StageWork, Work, Checkpoint, Receive, Admit, RunProbe,
       Claim, Write, StopAtLimit, StopOnFatal, Forward, CountForwarded
  <2>2. total'[1] = total[1]
    <3>1. CASE CountForwarded(w)
      <4>1. StageOf[w] + 1 # 1
        OBVIOUS
      <4>2. QED
        BY <1>0, <3>1, <4>1 DEF CountForwarded
    <3>2. CASE ~CountForwarded(w)
      BY <1>5, <3>2 DEF PoolStep, StageWork, Work, Checkpoint, Receive, Admit, RunProbe,
         Claim, Write, StopAtLimit, StopOnFatal, Forward
    <3>3. QED
      BY <3>1, <3>2
  <2>3. QED
    BY <2>1, <2>2 DEF Ends
<1>6. ASSUME NEW i \in Stage, FlushFails(i)
      PROVE  Ends'
  BY <1>6, <1>a DEF FlushFails, WriterFails
<1>7. ASSUME NEW i \in Stage, StageEnds(i)
      PROVE  Ends'
  <2>1. /\ mpc = "run" /\ ended' = ended \cup {i} /\ eof' = eof \cup ({i + 1} \cap Stage)
        /\ UNCHANGED <<mpc, at, reader, unread, chan, probed, total>>
    BY <1>7 DEF StageEnds
  <2>2. 1 \in eof' <=> 1 \in eof
    BY <2>1
  <2>3. \A j \in Stage \ {N} : j + 1 \in eof' <=> j \in ended'
    BY <2>1 DEF Ends
  <2>4. QED
    BY <2>1, <2>2, <2>3 DEF Ends
<1>8. CASE AllEnded
  BY <1>8 DEF AllEnded, execVars, Ends
<1>9. CASE CloseNext
  BY <1>9 DEF CloseNext, CloseStage, Ends
<1>10. CASE Return
  BY <1>10 DEF Return, execVars, Ends
<1>11. CASE UNCHANGED vars
  BY <1>11, <1>a DEF vars, execVars
<1>12. QED
  BY <1>1, <1>2, <1>3, <1>4, <1>5, <1>6, <1>7, <1>8, <1>9, <1>10, <1>11
     DEF Next, MainStep

(* What a link needs from a step that sends and counts nothing. *)
LEMMA LinkStays ==
    ASSUME NEW i \in Stage \ {N}, Link(i),
           Arrived(i + 1)' = Arrived(i + 1), Counting(i)' = Counting(i),
           total'[i + 1] = total[i + 1],
           \A ip \in IPs : Passing(i, ip) => Passing(i, ip)',
           reported[i] \subseteq reported'[i], reported'[i] \subseteq IPs,
           \A ip \in reported'[i] \ reported[i] : Passing(i, ip)'
    PROVE  Link(i)'
  BY DEF Link

(* A step that leaves the queues and the pools alone keeps the flow. *)
LEMMA FlowStays ==
    ASSUME TypeOK, Flow, UNCHANGED <<unread, chan, probed, reported, processed, pc, cur>>,
           eof \subseteq eof', \A i \in Stage \ {N} : total'[i + 1] = total[i + 1]
    PROVE  Flow'
<1>1. Once'
  BY DEF Flow, Once
<1>2. \A i \in Stage : Arrived(i)' = Arrived(i)
  BY DEF Arrived, InHandOf
<1>3. \A i \in Stage \ {N} : Link(i)'
  <2> SUFFICES ASSUME NEW i \in Stage \ {N}
               PROVE  Link(i)'
    OBVIOUS
  <2>1. Counting(i)' = Counting(i) /\ \A ip \in IPs : Passing(i, ip) => Passing(i, ip)'
    BY DEF Counting, Passing
  <2>2. Link(i) /\ i + 1 \in Stage /\ reported[i] \subseteq IPs
    BY NextStage DEF Flow, TypeOK, ExecTypeOK
  <2>3. QED
    BY <1>2, <2>1, <2>2, LinkStays
<1>4. \A w \in Workers : Sent(w)'
  <2> SUFFICES ASSUME NEW w \in Workers
               PROVE  Sent(w)'
    OBVIOUS
  <2>1. Sent(w) /\ StageOf[w] \in Stage
    BY StageFacts DEF Flow
  <2>2. StageOf[w] # N => Arrived(StageOf[w] + 1)' = Arrived(StageOf[w] + 1)
    BY <1>2, <2>1, NextStage
  <2>3. QED
    BY <2>1, <2>2 DEF Sent
<1>5. unread' \cap Arrived(1)' = {} /\ IPs = unread' \cup Arrived(1)'
  BY <1>2, NextStage DEF Flow
<1>6. QED
  BY <1>1, <1>3, <1>4, <1>5 DEF Flow

(* Opening a stage sets a total while nothing has come to a stage yet. *)
LEMMA FlowBuild ==
    ASSUME TypeOK, Phases, Ends, Flow, Build
    PROVE  Flow'
<1>1. /\ mpc = "build"
      /\ UNCHANGED <<unread, chan, probed, reported, processed, pc, cur, eof>>
      /\ total' = [total EXCEPT ![at] = IF at = 1 THEN Cardinality(IPs) ELSE 0]
  BY DEF Build, OpenStage, queueVars, workerVars, countVars
<1>2. total \in [Stage -> Nat]
  BY DEF TypeOK, ExecTypeOK
<1>3. ASSUME NEW i \in Stage \ {N}
      PROVE  total'[i + 1] = total[i + 1]
  <2>1. i + 1 \in Stage /\ i + 1 # 1 /\ Link(i)
    BY <1>3, NextStage DEF Flow
  <2>2. /\ \A w \in Workers : pc[w] = "idle"
        /\ chan[i + 1] = {} /\ probed[i + 1] = {}
    BY <1>1, <2>1 DEF Phases, Ends
  <2>3. Arrived(i + 1) = {}
    BY <2>2 DEF Arrived, InHandOf
  <2>4. total[i + 1] = 0
    BY <2>1, <2>3, FS_EmptySet DEF Link
  <2>5. QED
    BY <1>1, <1>2, <2>1, <2>4
<1>4. QED
  BY <1>1, <1>3, FlowStays

(* The reader moves an address from the input to the first stage. *)
LEMMA FlowRead ==
    ASSUME TypeOK, InHand, Phases, Ends, Flow, Read
    PROVE  Flow'
<1>0. /\ chan \in [Stage -> SUBSET IPs] /\ probed \in [Stage -> SUBSET IPs]
      /\ reported \in [Stage -> SUBSET IPs] /\ unread \in SUBSET IPs
  BY DEF TypeOK, ExecTypeOK
<1>1. /\ reader = "reading"
      /\ UNCHANGED <<probed, reported, processed, pc, cur, eof, total>>
  BY DEF Read, workerVars, countVars
<1>2. PICK ip \in unread : /\ unread' = unread \ {ip}
                           /\ chan' = [chan EXCEPT ![1] = @ \cup {ip}]
  BY DEF Read
<1>3. /\ 1 \in Stage /\ ip \in IPs
      /\ \A i \in Stage : chan'[i] = IF i = 1 THEN chan[1] \cup {ip} ELSE chan[i]
  BY <1>0, <1>2, NextStage
<1>4. ip \notin chan[1] /\ ip \notin probed[1] /\ ~InHandOf(1, ip)
  BY <1>2, <1>3 DEF Flow, Arrived
<1>5. /\ Arrived(1)' = Arrived(1) \cup {ip}
      /\ \A i \in Stage : i # 1 => Arrived(i)' = Arrived(i)
  BY <1>1, <1>3 DEF Arrived, InHandOf
<1>6. Once'
  <2>1. \A i \in Stage : chan'[i] \cap probed'[i] = {}
    BY <1>1, <1>3, <1>4 DEF Flow, Once
  <2>2. \A w \in Workers : pc[w] \in {"admit", "probe"} =>
              cur[w] \notin chan'[StageOf[w]] \cup probed[StageOf[w]]
    <3>1. \A w \in Workers : pc[w] \in {"admit", "probe"} /\ StageOf[w] = 1 => cur[w] # ip
      BY <1>4 DEF InHandOf
    <3>2. \A w \in Workers : pc[w] \in {"admit", "probe"} =>
              cur[w] \notin chan[StageOf[w]] \cup probed[StageOf[w]]
      BY DEF Flow, Once
    <3>3. QED
      BY <1>3, <3>1, <3>2, StageFacts
  <2>3. QED
    BY <1>1, <2>1, <2>2 DEF Flow, Once
<1>7. \A i \in Stage \ {N} : Link(i)'
  <2> SUFFICES ASSUME NEW i \in Stage \ {N}
               PROVE  Link(i)'
    OBVIOUS
  <2>1. Counting(i)' = Counting(i) /\ \A a \in IPs : Passing(i, a) => Passing(i, a)'
    BY <1>1 DEF Counting, Passing
  <2>2. Link(i) /\ i + 1 \in Stage /\ i + 1 # 1 /\ reported[i] \subseteq IPs
    BY <1>0, NextStage DEF Flow
  <2>3. QED
    BY <1>1, <1>5, <2>1, <2>2, LinkStays
<1>8. \A w \in Workers : Sent(w)'
  <2> SUFFICES ASSUME NEW w \in Workers
               PROVE  Sent(w)'
    OBVIOUS
  <2>1. Sent(w) /\ StageOf[w] \in Stage
    BY StageFacts DEF Flow
  <2>2. StageOf[w] # N => Arrived(StageOf[w] + 1)' = Arrived(StageOf[w] + 1)
    BY <1>5, <2>1, NextStage
  <2>3. 1 \notin eof
    BY <1>1 DEF Ends
  <2>4. pc[w] = "exited" => StageOf[w] # 1 /\ chan'[StageOf[w]] = {}
    BY <1>3, <2>1, <2>3 DEF Sent
  <2>5. QED
    BY <1>1, <2>1, <2>2, <2>4 DEF Sent
<1>9. unread' \cap Arrived(1)' = {} /\ IPs = unread' \cup Arrived(1)'
  BY <1>2, <1>3, <1>5 DEF Flow
<1>10. QED
  BY <1>6, <1>7, <1>8, <1>9 DEF Flow

(* A worker's own steps pass an address on inside its stage. *)
LEMMA FlowWork ==
    ASSUME TypeOK, InHand, Flow, cause = "none", NEW w \in Workers, Work(w),
           UNCHANGED unread
    PROVE  Flow'
<1> DEFINE i == StageOf[w]
<1>0. /\ i \in Stage /\ \A v \in Workers : StageOf[v] \in Stage
      /\ chan \in [Stage -> SUBSET IPs] /\ reported \in [Stage -> SUBSET IPs]
      /\ probed \in [Stage -> SUBSET IPs]
      /\ pc \in [Workers -> {"idle", "select", "admit", "probe", "claim", "write",
                              "passed", "count", "limit", "fatal", "exited"}]
      /\ cur \in [Workers -> IPs \cup {NoIP}]
  BY StageFacts DEF TypeOK, ExecTypeOK
<1>a. /\ \A v \in Workers : v # w => pc'[v] = pc[v] /\ cur'[v] = cur[v]
      /\ UNCHANGED <<eof, total>>
  BY OthersStay DEF TypeOK
<1>b. Once' /\ \A j \in Stage : Arrived(j)' = Arrived(j)
  BY OnceWork, ArrivedWork DEF TypeOK, Flow
<1> USE DEF queueVars, workerVars, countVars, openVars, Goto
(* Where the worker goes. *)
<1>c. /\ pc[w] # "count" /\ pc'[w] # "count"
      /\ pc[w] \in {"write", "passed", "fatal"} => i = N \/ (pc'[w] \in {"passed", "fatal"} /\ cur'[w] = cur[w])
      /\ pc'[w] \in {"write", "passed"} => cur'[w] = cur[w]
           /\ (pc[w] = "write" \/ pc[w] = "claim")
      /\ pc'[w] = "limit" => i = N
      /\ pc'[w] = "exited" => i \in eof /\ chan[i] = {} /\ chan' = chan
  BY <1>0 DEF Work, Checkpoint, Receive, Admit, RunProbe, Claim, Write, AfterWrite,
     CtxDone, LimitReached, ResultLimit
<1>d. \A j \in Stage : \/ reported'[j] = reported[j]
                       \/ j = i /\ pc'[w] = "write" /\ cur'[w] = cur[w]
                            /\ reported'[j] = reported[j] \cup {cur[w]}
  <2>1. CASE Claim(w)
    BY <1>0, <2>1 DEF Claim
  <2>2. CASE ~Claim(w)
    BY <1>0, <2>2 DEF Work, Checkpoint, Receive, Admit, RunProbe, Write
  <2>3. QED
    BY <2>1, <2>2
<1>e. \A j \in Stage : chan'[j] \subseteq chan[j]
  BY <1>0 DEF Work, Checkpoint, Receive, Admit, RunProbe, Claim, Write
<1>1. \A j \in Stage \ {N} : Link(j)'
  <2> SUFFICES ASSUME NEW j \in Stage \ {N}
               PROVE  Link(j)'
    OBVIOUS
  <2>1. Counting(j)' = Counting(j)
    BY <1>a, <1>c DEF Counting
  <2>2. \A ip \in IPs : Passing(j, ip) => Passing(j, ip)'
    BY <1>a, <1>c DEF Passing
  <2>3. \A ip \in reported'[j] \ reported[j] : Passing(j, ip)'
    BY <1>d DEF Passing
  <2>4. reported[j] \subseteq reported'[j]
    BY <1>d
  <2>5. reported'[j] \subseteq IPs
    <3>1. pc[w] \in {"claim"} => cur[w] \in IPs
      BY DEF InHand
    <3>2. Work(w) /\ pc[w] # "claim" => reported' = reported
      BY DEF Work, Checkpoint, Receive, Admit, RunProbe, Claim, Write
    <3>3. QED
      BY <1>0, <1>d, <3>1, <3>2
  <2>6. Link(j) /\ j + 1 \in Stage
    BY NextStage DEF Flow
  <2>7. QED
    BY <1>a, <1>b, <2>1, <2>2, <2>3, <2>4, <2>5, <2>6, LinkStays
<1>2. \A v \in Workers : Sent(v)'
  <2> SUFFICES ASSUME NEW v \in Workers
               PROVE  Sent(v)'
    OBVIOUS
  <2>1. Sent(v) /\ StageOf[v] \in Stage
    BY <1>0 DEF Flow
  <2>2. StageOf[v] # N => Arrived(StageOf[v] + 1)' = Arrived(StageOf[v] + 1)
    BY <1>b, <2>1, NextStage
  <2>3. CASE v # w
    BY <1>a, <1>e, <2>1, <2>2, <2>3 DEF Sent
  <2>4. CASE v = w
    <3>1. pc'[w] \in {"write", "passed"} /\ i # N => cur[w] \notin Arrived(i + 1)
      <4>1. CASE pc[w] = "write"
        BY <2>1, <2>4, <4>1 DEF Sent
      <4>2. CASE pc[w] = "claim"
        <5>1. cur[w] \notin reported[i]
          BY <4>2 DEF Flow, Once
        <5>2. i # N => Arrived(i + 1) \subseteq reported[i]
          BY <1>0 DEF Flow, Link
        <5>3. QED
          BY <5>1, <5>2
      <4>3. QED
        BY <1>c, <4>1, <4>2
    <3>2. QED
      BY <1>a, <1>c, <2>2, <2>4, <3>1 DEF Sent
  <2>5. QED
    BY <2>3, <2>4
<1>3. unread' \cap Arrived(1)' = {} /\ IPs = unread' \cup Arrived(1)'
  BY <1>b, NextStage DEF Flow
<1>4. QED
  BY <1>b, <1>1, <1>2, <1>3 DEF Flow

(* forward: the address is sent to the next stage, or is through. *)
LEMMA FlowForward ==
    ASSUME TypeOK, InHand, Phases, Ends, Flow, cause = "none",
           NEW w \in Workers, Forward(w)
    PROVE  Flow'
<1> DEFINE i == StageOf[w]
<1> DEFINE j == i + 1
<1> DEFINE c == cur[w]
<1>0. /\ i \in Stage /\ \A v \in Workers : StageOf[v] \in Stage
      /\ chan \in [Stage -> SUBSET IPs] /\ probed \in [Stage -> SUBSET IPs]
      /\ reported \in [Stage -> SUBSET IPs]
      /\ pc \in [Workers -> {"idle", "select", "admit", "probe", "claim", "write",
                              "passed", "count", "limit", "fatal", "exited"}]
  BY StageFacts DEF TypeOK, ExecTypeOK
<1>1. /\ pc[w] = "passed" /\ c \in IPs
      /\ UNCHANGED <<cur, eof, unread, probed, reported, processed, total>>
      /\ \A v \in Workers : v # w => pc'[v] = pc[v]
  BY <1>0 DEF Forward, InHand, Goto, countVars, chainVars
<1>2. CASE chan' = chan /\ j > N /\ pc'[w] = "idle"
  <2>1. i = N
    <3>1. i \in 1..N /\ N \in Nat
      BY <1>0, StageFacts DEF Stage
    <3>2. QED
      BY <1>2, <3>1
  <2>2. Once'
    BY <1>0, <1>1, <1>2 DEF Flow, Once, Busy
  <2>3. \A k \in Stage : Arrived(k)' = Arrived(k)
    BY <1>1, <1>2 DEF Arrived, InHandOf
  <2>4. \A k \in Stage \ {N} : Link(k)'
    <3> SUFFICES ASSUME NEW k \in Stage \ {N}
                 PROVE  Link(k)'
      OBVIOUS
    <3>1. /\ Counting(k)' = Counting(k)
          /\ \A ip \in IPs : Passing(k, ip) => Passing(k, ip)'
      BY <1>1, <1>2, <2>1 DEF Counting, Passing
    <3>2. Link(k) /\ k + 1 \in Stage /\ reported[k] \subseteq IPs
      BY <1>0, NextStage DEF Flow
    <3>3. Arrived(k + 1)' = Arrived(k + 1)
      BY <2>3, <3>2
    <3>4. QED
      BY <1>1, <3>1, <3>2, <3>3, LinkStays
  <2>5. \A v \in Workers : Sent(v)'
    <3> SUFFICES ASSUME NEW v \in Workers
                 PROVE  Sent(v)'
      OBVIOUS
    <3>1. Sent(v) /\ StageOf[v] # N => Arrived(StageOf[v] + 1)' = Arrived(StageOf[v] + 1)
      BY <1>0, <2>3, NextStage DEF Flow
    <3>2. Sent(v)
      BY DEF Flow
    <3>3. QED
      BY <1>1, <1>2, <3>1, <3>2 DEF Sent
  <2>6. QED
    BY <1>1, <2>2, <2>3, <2>4, <2>5, NextStage DEF Flow
<1>3. CASE chan' = [chan EXCEPT ![j] = @ \cup {c}] /\ j <= N /\ pc'[w] = "count"
  <2>1. /\ i # N /\ j \in Stage /\ j # 1 /\ j # i
        /\ \A k \in Stage : chan'[k] = IF k = j THEN chan[j] \cup {c} ELSE chan[k]
    <3>1. i # N
      BY <1>0, <1>3, NextStage
    <3>2. QED
      BY <1>0, <1>3, <3>1, NextStage
  <2>2. /\ c \notin chan[j] /\ c \notin probed[j] /\ ~InHandOf(j, c)
        /\ c \in reported[i] /\ c \notin Arrived(j)
    <3>1. c \notin Arrived(j)
      BY <1>1, <2>1 DEF Flow, Sent
    <3>2. c \in reported[i]
      BY <1>1 DEF Flow, Once
    <3>3. QED
      BY <1>1, <3>1, <3>2 DEF Arrived
  <2>3. /\ Arrived(j)' = Arrived(j) \cup {c}
        /\ \A k \in Stage : k # j => Arrived(k)' = Arrived(k)
    <3>1. \A k, a : InHandOf(k, a)' <=> InHandOf(k, a)
      BY <1>1, <1>3 DEF InHandOf
    <3>2. QED
      BY <1>1, <2>1, <3>1 DEF Arrived
  <2>4. Once'
    <3>1. \A k \in Stage : chan'[k] \cap probed'[k] = {}
      BY <1>1, <2>1, <2>2 DEF Flow, Once
    <3>2. \A v \in Workers : pc[v] \in {"admit", "probe"} =>
              cur[v] \notin chan'[StageOf[v]] \cup probed[StageOf[v]]
      BY <1>0, <2>1, <2>2 DEF Flow, Once, InHandOf
    <3>3. QED
      BY <1>1, <1>3, <3>1, <3>2 DEF Flow, Once, Busy
  <2>5. \A k \in Stage \ {N} : Link(k)'
    <3> SUFFICES ASSUME NEW k \in Stage \ {N}
                 PROVE  Link(k)'
      OBVIOUS
    <3>1. Link(k) /\ k + 1 \in Stage /\ reported[k] \subseteq IPs
      BY <1>0, NextStage DEF Flow
    <3>2. CASE k # i
      <4>1. /\ Counting(k)' = Counting(k)
            /\ \A ip \in IPs : Passing(k, ip) => Passing(k, ip)'
        BY <1>1, <3>2 DEF Counting, Passing
      <4>2. k + 1 # j
        BY <1>0, <3>2, NextStage
      <4>3. Arrived(k + 1)' = Arrived(k + 1)
        BY <2>3, <3>1, <4>2
      <4>4. QED
        BY <1>1, <3>1, <4>1, <4>3, LinkStays
    <3>3. CASE k = i
      <4>1. Counting(i)' = Counting(i) \cup {c}
        BY <1>1, <1>3 DEF Counting
      <4>2. Arrived(j)' \ Counting(i)' = Arrived(j) \ Counting(i)
        BY <2>2, <2>3, <4>1
      <4>3. total'[j] = Cardinality(Arrived(j)' \ Counting(i)')
        BY <1>1, <3>1, <3>3, <4>2 DEF Link
      <4>4. Arrived(j)' \subseteq reported'[i]
        BY <1>1, <2>2, <2>3, <3>1, <3>3 DEF Link
      <4>5. \A ip \in reported[i] : ip # c /\ Passing(i, ip) => Passing(i, ip)'
        BY <1>1 DEF Passing
      <4>6. \A ip \in reported'[i] : ip \in Arrived(j)' \/ Passing(i, ip)'
        BY <1>1, <2>3, <3>1, <3>3, <4>5 DEF Link
      <4>7. QED
        BY <3>3, <4>3, <4>4, <4>6 DEF Link
    <3>4. QED
      BY <3>2, <3>3
  <2>6. \A v \in Workers : Sent(v)'
    <3> SUFFICES ASSUME NEW v \in Workers
                 PROVE  Sent(v)'
      OBVIOUS
    <3>1. Sent(v) /\ StageOf[v] \in Stage
      BY <1>0 DEF Flow
    <3>2. CASE v = w
      BY <1>1, <1>3, <2>1, <2>3, <3>2 DEF Sent
    <3>3. CASE v # w
      <4>1. pc[v] \in {"write", "passed"} /\ StageOf[v] # N =>
                cur[v] \notin Arrived(StageOf[v] + 1)'
        <5>1. CASE StageOf[v] = i
          <6>1. pc[v] \in {"write", "passed"} => cur[v] # c
            BY <1>1, <3>3, <5>1 DEF Flow, Once, Busy
          <6>2. QED
            BY <2>3, <3>1, <5>1, <6>1 DEF Sent
        <5>2. CASE StageOf[v] # i
          <6>1. StageOf[v] # N => StageOf[v] + 1 \in Stage /\ StageOf[v] + 1 # j
            BY <1>0, <3>1, <5>2, NextStage
          <6>2. QED
            BY <2>3, <3>1, <6>1 DEF Sent
        <5>3. QED
          BY <5>1, <5>2
      <4>2. pc[v] = "count" => StageOf[v] # N /\ cur[v] \in Arrived(StageOf[v] + 1)'
        <5>1. StageOf[v] # N => StageOf[v] + 1 \in Stage
          BY <3>1, NextStage
        <5>2. QED
          BY <2>3, <3>1, <5>1 DEF Sent
      <4>3. pc[v] = "exited" => StageOf[v] # j
        <5>1. i \notin ended
          BY <1>0, <1>1 DEF Phases, PoolExited, Pool
        <5>2. j \notin eof
          BY <1>0, <2>1, <5>1 DEF Ends
        <5>3. QED
          BY <3>1, <5>2 DEF Sent
      <4>4. QED
        BY <1>1, <2>1, <3>1, <3>3, <4>1, <4>2, <4>3 DEF Sent
    <3>4. QED
      BY <3>2, <3>3
  <2>7. QED
    BY <1>1, <2>1, <2>3, <2>4, <2>5, <2>6, NextStage DEF Flow
<1>4. QED
  BY <1>0, <1>2, <1>3 DEF Forward, Goto, CtxDone

(* The next stage's total catches up with what was sent to it. *)
LEMMA FlowCount ==
    ASSUME TypeOK, InHand, Flow, NEW w \in Workers, CountForwarded(w)
    PROVE  Flow'
<1> DEFINE i == StageOf[w]
<1> DEFINE c == cur[w]
<1>0. /\ i \in Stage /\ \A v \in Workers : StageOf[v] \in Stage
      /\ reported \in [Stage -> SUBSET IPs] /\ total \in [Stage -> Nat]
      /\ pc \in [Workers -> {"idle", "select", "admit", "probe", "claim", "write",
                              "passed", "count", "limit", "fatal", "exited"}]
  BY StageFacts DEF TypeOK, ExecTypeOK
<1>1. /\ pc[w] = "count" /\ pc'[w] = "idle" /\ c \in IPs
      /\ total' = [total EXCEPT ![i + 1] = @ + 1]
      /\ UNCHANGED <<cur, chan, eof, unread, probed, reported, processed>>
      /\ \A v \in Workers : v # w => pc'[v] = pc[v]
  BY <1>0 DEF CountForwarded, InHand, Goto, queueVars, chainVars
<1>2. i # N /\ i + 1 \in Stage /\ c \in Arrived(i + 1)
  BY <1>0, <1>1, NextStage DEF Flow, Sent
<1>3. Once'
  BY <1>0, <1>1 DEF Flow, Once, Busy
<1>4. \A k \in Stage : Arrived(k)' = Arrived(k)
  BY <1>1 DEF Arrived, InHandOf
<1>5. \A k \in Stage \ {N} : Link(k)'
  <2> SUFFICES ASSUME NEW k \in Stage \ {N}
               PROVE  Link(k)'
    OBVIOUS
  <2>1. Link(k) /\ k + 1 \in Stage /\ reported[k] \subseteq IPs
    BY <1>0, NextStage DEF Flow
  <2>2. \A ip \in IPs : Passing(k, ip) => Passing(k, ip)'
    BY <1>1 DEF Passing
  <2>3. Arrived(k + 1)' = Arrived(k + 1)
    BY <1>4, <2>1
  <2>4. CASE k # i
    <3>1. Counting(k)' = Counting(k)
      BY <1>1, <2>4 DEF Counting
    <3>2. total'[k + 1] = total[k + 1]
      BY <1>0, <1>1, <2>1, <2>4, NextStage
    <3>3. QED
      BY <1>1, <2>1, <2>2, <2>3, <3>1, <3>2, LinkStays
  <2>5. CASE k = i
    <3>1. Counting(i)' = Counting(i) \ {c}
      <4>1. \A v \in Workers : v # w /\ StageOf[v] = i /\ pc[v] = "count" => cur[v] # c
        BY <1>1 DEF Flow, Once, Busy
      <4>2. QED
        BY <1>1, <4>1 DEF Counting
    <3>2. c \in Counting(i)
      BY <1>1 DEF Counting
    <3> DEFINE D == Arrived(i + 1) \ Counting(i)
    <3>3. Arrived(i + 1)' \ Counting(i)' = D \cup {c} /\ c \notin D
      BY <1>2, <2>3, <2>5, <3>1, <3>2
    <3>4. Cardinality(D \cup {c}) = Cardinality(D) + 1
      <4>1. D \in SUBSET IPs
        BY DEF Arrived
      <4>2. QED
        BY <3>3, <4>1, OneMore
    <3>5. total'[i + 1] = Cardinality(D) + 1
      <4>1. total[i + 1] = Cardinality(D)
        BY <2>1, <2>5 DEF Link
      <4>2. QED
        BY <1>0, <1>1, <1>2, <4>1
    <3>6. QED
      BY <1>1, <2>1, <2>2, <2>3, <2>5, <3>3, <3>4, <3>5 DEF Link
  <2>6. QED
    BY <2>4, <2>5
<1>6. \A v \in Workers : Sent(v)'
  <2> SUFFICES ASSUME NEW v \in Workers
               PROVE  Sent(v)'
    OBVIOUS
  <2>1. Sent(v) /\ (StageOf[v] # N => Arrived(StageOf[v] + 1)' = Arrived(StageOf[v] + 1))
    BY <1>0, <1>4, NextStage DEF Flow
  <2>2. QED
    BY <1>1, <2>1 DEF Sent
<1>7. QED
  BY <1>1, <1>3, <1>4, <1>5, <1>6, NextStage DEF Flow

(* No step of a scan that nothing has stopped loses an address. *)
LEMMA FlowStep ==
    TypeOK /\ InHand /\ Phases /\ Ends /\ FlowKept /\ [Next]_vars => FlowKept'
<1> SUFFICES ASSUME TypeOK, InHand, Phases, Ends, FlowKept, [Next]_vars, cause' = "none"
             PROVE  Flow'
  BY DEF FlowKept
<1>0. /\ cause = "none" /\ ~UserCancel
      /\ \A w \in Workers : ~StopAtLimit(w) /\ ~StopOnFatal(w)
  BY CauseKept
<1>1. Flow
  BY <1>0 DEF FlowKept
<1>2. CASE Build
  BY <1>1, <1>2, FlowBuild
<1>3. CASE Read
  BY <1>1, <1>3, FlowRead
<1>4. ASSUME NEW w \in Workers, PoolStep(w)
      PROVE  Flow'
  <2>1. CASE StageWork(w)
    BY <1>0, <1>1, <2>1, FlowWork DEF StageWork, chainVars
  <2>2. CASE Forward(w)
    BY <1>0, <1>1, <2>2, FlowForward
  <2>3. CASE CountForwarded(w)
    BY <1>1, <2>3, FlowCount
  <2>4. QED
    BY <1>0, <1>4, <2>1, <2>2, <2>3 DEF PoolStep
<1>5. CASE BuildFails \/ AllEnded \/ CloseNext \/ Return \/ ReadEnd \/ ReadFails
  <2>1. /\ UNCHANGED <<unread, chan, probed, reported, processed, pc, cur, total>>
        /\ eof \subseteq eof'
    BY <1>5 DEF BuildFails, OpenStageFails, AllEnded, CloseNext, CloseStage, Return,
       ReadEnd, ReadFails, execVars, queueVars, workerVars, countVars
  <2>2. QED
    BY <1>1, <2>1, FlowStays
<1>6. CASE \E i \in Stage : FlushFails(i) \/ StageEnds(i)
  <2>1. /\ UNCHANGED <<unread, chan, probed, reported, processed, pc, cur, total>>
        /\ eof \subseteq eof'
    BY <1>6 DEF FlushFails, WriterFails, StageEnds, queueVars, workerVars, countVars,
       chainVars
  <2>2. QED
    BY <1>1, <2>1, FlowStays
<1>7. CASE UNCHANGED vars
  <2>1. /\ UNCHANGED <<unread, chan, probed, reported, processed, pc, cur, total>>
        /\ eof \subseteq eof'
    BY <1>7 DEF vars, execVars, chainVars
  <2>2. QED
    BY <1>1, <2>1, FlowStays
<1>8. QED
  BY <1>0, <1>2, <1>3, <1>4, <1>5, <1>6, <1>7 DEF Next, MainStep

-----------------------------------------------------------------------------
(* A writer that lost results is known to the scan, which ends with that.  *)
Reported ==
    /\ \A i \in badWriters : writer[i] = "failed" \/ err
    /\ result # "none" <=> mpc = "returned"

LEMMA SavedStep ==
    TypeOK /\ InHand /\ Phases /\ Together /\ Saved /\ [Next]_vars => Saved'
<1> SUFFICES ASSUME TypeOK, InHand, Phases, Together, Saved, [Next]_vars
             PROVE  Saved'
  OBVIOUS
<1>0. ExecTypeOK
  BY DEF TypeOK
<1>a. ASSUME UNCHANGED <<pc, cur, reported, written, writer, badWriters, ignoreErr>>
      PROVE  Saved'
  BY <1>a DEF Saved, Writing
<1> USE DEF queueVars, workerVars, countVars, openVars, chainVars
<1>1. CASE UserCancel
  BY <1>1, <1>a DEF UserCancel
<1>2. CASE Build
  <2>1. at \in Stage /\ (IF at = 1 THEN Cardinality(IPs) ELSE 0) \in Nat
    BY <1>2, StageFacts DEF Build, Phases, TypeOK, Stage
  <2>2. QED
    BY <1>0, <1>2, <2>1, SavedOpen DEF Build
<1>3. CASE BuildFails
  <2>1. at \in Stage
    BY <1>3 DEF BuildFails, Phases, TypeOK, Stage
  <2>2. QED
    BY <1>0, <1>3, <2>1, SavedOpen DEF BuildFails
<1>4. CASE Read \/ ReadEnd \/ ReadFails
  BY <1>4, <1>a DEF Read, ReadEnd, ReadFails
<1>5. ASSUME NEW w \in Workers, StageWork(w)
      PROVE  Saved'
  <2>1. writer[StageOf[w]] \in {"open", "off", "failed"}
    BY <1>5, StageFacts DEF StageWork, Phases, Together
  <2>2. QED
    BY <1>0, <1>5, <2>1, SavedWork DEF StageWork
<1>6. ASSUME NEW w \in Workers, StopAtLimit(w) \/ StopOnFatal(w) \/ Forward(w)
                                  \/ CountForwarded(w)
      PROVE  Saved'
  <2>1. /\ pc[w] # "write" /\ UNCHANGED <<cur, reported, written, openVars>>
        /\ \E l \in {"idle", "exited", "count"} : pc' = [pc EXCEPT ![w] = l]
    BY <1>6 DEF StopAtLimit, StopOnFatal, Forward, CountForwarded, Goto
  <2>2. QED
    BY <1>0, <2>1, SavedGoto
<1>7. ASSUME NEW i \in Stage, FlushFails(i)
      PROVE  Saved'
  BY <1>0, <1>7, SavedOpen DEF FlushFails
<1>8. ASSUME NEW i \in Stage, StageEnds(i)
      PROVE  Saved'
  BY <1>8, <1>a DEF StageEnds
<1>9. CASE AllEnded \/ Return \/ UNCHANGED vars
  BY <1>9, <1>a DEF AllEnded, Return, execVars, vars
<1>10. CASE CloseNext
  <2>1. at \in Stage
    BY <1>10 DEF CloseNext, TypeOK, Stage
  <2>2. QED
    BY <1>0, <1>10, <2>1, SavedOpen DEF CloseNext
<1>11. QED
  BY <1>1, <1>2, <1>3, <1>4, <1>5, <1>6, <1>7, <1>8, <1>9, <1>10
     DEF Next, MainStep, PoolStep

LEMMA ReportedStep ==
    TypeOK /\ Phases /\ Reported /\ [Next]_vars => Reported'
<1> SUFFICES ASSUME TypeOK, Phases, Reported, [Next]_vars
             PROVE  Reported'
  OBVIOUS
<1>0. /\ writer \in [Stage -> {"new", "open", "off", "failed", "closed"}]
      /\ badWriters \in SUBSET Stage /\ err \in BOOLEAN
  BY DEF TypeOK, ExecTypeOK
<1> USE DEF queueVars, workerVars, countVars, openVars, chainVars
<1>a. ASSUME UNCHANGED <<writer, badWriters, err, result, mpc>>
      PROVE  Reported'
  BY <1>a DEF Reported
<1>1. CASE UserCancel
  BY <1>1, <1>a DEF UserCancel
<1>2. CASE Build
  <2>1. /\ mpc = "build" /\ mpc' \in {"build", "run"}
        /\ UNCHANGED <<badWriters, err, result>>
        /\ \E s \in {"open", "off"} : writer' = [writer EXCEPT ![at] = s]
    BY <1>2 DEF Build, OpenStage
  <2>2. at \in Stage => writer[at] = "new"
    BY <2>1, StageFacts DEF Phases, TypeOK, Stage
  <2>3. QED
    BY <1>0, <2>1, <2>2 DEF Reported
<1>3. CASE BuildFails
  BY <1>3 DEF BuildFails, OpenStageFails, Reported
<1>4. CASE Read \/ ReadEnd \/ ReadFails
  BY <1>4, <1>a DEF Read, ReadEnd, ReadFails
<1>5. ASSUME NEW w \in Workers, PoolStep(w)
      PROVE  Reported'
  BY <1>5, <1>a DEF PoolStep, StageWork, Work, Checkpoint, Receive, Admit, RunProbe,
     Claim, Write, StopAtLimit, StopOnFatal, Forward, CountForwarded
<1>6. ASSUME NEW i \in Stage, FlushFails(i)
      PROVE  Reported'
  BY <1>0, <1>6 DEF FlushFails, WriterFails, Reported
<1>7. ASSUME NEW i \in Stage, StageEnds(i)
      PROVE  Reported'
  BY <1>7 DEF StageEnds, Reported
<1>8. CASE AllEnded
  BY <1>8 DEF AllEnded, execVars, Reported
<1>9. CASE CloseNext
  BY <1>0, <1>9 DEF CloseNext, CloseStage, Reported
<1>10. CASE Return
  BY <1>10 DEF Return, execVars, Reported
<1>11. CASE UNCHANGED vars
  BY <1>11, <1>a DEF vars, execVars
<1>12. QED
  BY <1>1, <1>2, <1>3, <1>4, <1>5, <1>6, <1>7, <1>8, <1>9, <1>10, <1>11
     DEF Next, MainStep

-----------------------------------------------------------------------------
StreamInv ==
    /\ TypeOK /\ InHand /\ OnlyClaimed /\ Together /\ Phases
    /\ Ends /\ FlowKept /\ Saved /\ Reported

(* The inductive invariant holds for every scan. *)
LEMMA StreamInvariant == Spec => []StreamInv
<1>1. Init => StreamInv
  <2> SUFFICES ASSUME Init
               PROVE  StreamInv
    OBVIOUS
  <2> USE StageFacts DEF Init, ExecInit
  <2>1. TypeOK
    <3>1. /\ total \in [Stage -> Nat] /\ processed \in [Stage -> Nat]
          /\ succeeded \in [Stage -> Nat] /\ slot \in [Workers -> Nat]
      OBVIOUS
    <3>2. /\ chan \in [Stage -> SUBSET IPs] /\ probed \in [Stage -> SUBSET IPs]
          /\ reported \in [Stage -> SUBSET IPs]
          /\ written \in [Stage -> SUBSET IPs]
          /\ cur \in [Workers -> IPs \cup {NoIP}]
      OBVIOUS
    <3>3. /\ pc \in [Workers -> {"idle", "select", "admit", "probe", "claim",
                                 "write", "passed", "count", "limit", "fatal",
                                 "exited"}]
          /\ writer \in [Stage -> {"new", "open", "off", "failed", "closed"}]
          /\ probe \in [Stage -> {"new", "open", "closed"}]
      OBVIOUS
    <3>4. at \in 1..(N + 1)
      OBVIOUS
    <3>5. QED
      BY <3>1, <3>2, <3>3, <3>4 DEF TypeOK, ExecTypeOK
  <2>2. InHand
    BY DEF InHand
  <2>3. OnlyClaimed
    BY FS_EmptySet DEF OnlyClaimed
  <2>4. Together
    BY DEF Together
  <2>5. Phases
    BY DEF Phases
  <2>6. Ends
    BY NextStage DEF Ends
  <2>7. Flow
    <3>1. /\ \A w \in Workers : pc[w] = "idle"
          /\ \A i \in Stage : chan[i] = {} /\ probed[i] = {} /\ reported[i] = {}
                              /\ processed[i] = 0 /\ total[i] = 0
      OBVIOUS
    <3>2. Once
      BY <3>1, FS_EmptySet DEF Once, Busy
    <3>3. \A i \in Stage : Arrived(i) = {}
      BY <3>1 DEF Arrived, InHandOf
    <3>4. \A i \in Stage \ {N} : Link(i)
      <4> SUFFICES ASSUME NEW i \in Stage \ {N}
                   PROVE  Link(i)
        OBVIOUS
      <4>1. i + 1 \in Stage /\ Arrived(i + 1) = {} /\ total[i + 1] = 0 /\ reported[i] = {}
        BY <3>1, <3>3, NextStage
      <4>2. QED
        BY <4>1, FS_EmptySet DEF Link
    <3>5. \A w \in Workers : Sent(w)
      BY <3>1 DEF Sent
    <3>6. QED
      BY <3>2, <3>3, <3>4, <3>5, NextStage DEF Flow
  <2>8. Saved
    BY DEF Saved
  <2>9. Reported
    BY DEF Reported
  <2>10. QED
    BY <2>1, <2>2, <2>3, <2>4, <2>5, <2>6, <2>7, <2>8, <2>9 DEF StreamInv, FlowKept
<1>2. StreamInv /\ [Next]_vars => StreamInv'
  BY TypeStep, OnlyClaimedStep, TogetherStep, PhasesStep, EndsStep, FlowStep,
     SavedStep, ReportedStep DEF StreamInv
<1>3. QED
  BY <1>1, <1>2, PTL DEF Spec

(* Every variable of a streaming scan keeps its type. *)
THEOREM StreamTypeCorrect == Spec => []TypeOK
  BY StreamInvariant, PTL DEF StreamInv

(***************************************************************************)
(* A streaming scan never reports more successes than MaxSuccessfulIPs,    *)
(* with any number of workers racing through claimResultSlot.              *)
(***************************************************************************)
THEOREM LimitAlways == Spec => []LimitRespected
<1>1. StreamInv => LimitRespected
  <2> SUFFICES ASSUME StreamInv, Limit > 0
               PROVE  succeeded[N] <= Limit /\ Cardinality(reported[N]) <= Limit
    BY DEF LimitRespected
  <2>1. /\ succeeded[N] <= Limit /\ Cardinality(reported[N]) <= succeeded[N]
        /\ succeeded[N] \in Nat /\ reported[N] \in SUBSET IPs
    BY StageFacts DEF StreamInv, OnlyClaimed, TypeOK, ExecTypeOK
  <2>2. Cardinality(reported[N]) \in Nat
    BY <2>1, InputAssumption, FS_Subset, FS_CardinalityType
  <2>3. QED
    BY <2>1, <2>2, StageFacts
<1>2. QED
  BY <1>1, StreamInvariant, PTL

(***************************************************************************)
(* No worker probes or writes with a stage that is not built yet or closed *)
(* already, whatever makes the pipeline stop.                              *)
(***************************************************************************)
THEOREM NoWriteAfterCloseAlways == Spec => []NoWriteAfterClose
<1>1. StreamInv => NoWriteAfterClose
  <2> SUFFICES ASSUME StreamInv, NEW w \in Workers,
                      pc[w] \in {"probe", "claim", "write"}
               PROVE  writer[StageOf[w]] # "closed" /\ probe[StageOf[w]] = "open"
    <3>1. StreamInv => DOMAIN pc = Workers
      BY DEF StreamInv, TypeOK, ExecTypeOK
    <3> QED
      BY <3>1 DEF NoWriteAfterClose
  <2>1. mpc = "run"
    BY DEF StreamInv, TypeOK, Phases
  <2>2. probe[StageOf[w]] = "open"
    BY <2>1, StageFacts DEF StreamInv, Phases
  <2>3. QED
    BY <2>2, StageFacts DEF StreamInv, Together
<1>2. QED
  BY <1>1, StreamInvariant, PTL

(***************************************************************************)
(* However a streaming scan ends, also when a stage could not be built, it *)
(* leaves no writer and no probe open.                                     *)
(***************************************************************************)
THEOREM ReleasedAtEndAlways == Spec => []ReleasedAtEnd
<1>1. StreamInv => ReleasedAtEnd
  BY DEF StreamInv, ReleasedAtEnd, Phases, Together, TypeOK, ExecTypeOK
<1>2. QED
  BY <1>1, StreamInvariant, PTL

(***************************************************************************)
(* A streaming scan that nobody stops leaves nothing out: every address of *)
(* the file is probed by the first stage, every address a stage passed by  *)
(* the next one, and each stage's total is what it processed (forward and  *)
(* the order in which runStreaming closes the channels).                   *)
(***************************************************************************)
THEOREM CompleteAlways == Spec => []Complete
<1>1. StreamInv => Complete
  <2> SUFFICES ASSUME StreamInv, mpc = "returned", cause = "none", reader = "ok"
               PROVE  /\ probed[1] = IPs
                      /\ \A i \in Stage \ {N} : probed[i + 1] = reported[i]
                      /\ \A i \in Stage : total[i] = processed[i]
    BY DEF Complete
  <2>0. /\ probed \in [Stage -> SUBSET IPs] /\ reported \in [Stage -> SUBSET IPs]
    BY DEF StreamInv, TypeOK, ExecTypeOK
  <2>1. Flow /\ unread = {} /\ ended = Stage /\ total[1] = Cardinality(IPs)
    BY DEF StreamInv, FlowKept, Ends
  <2>2. \A w \in Workers : pc[w] = "exited"
    BY <2>1, StageFacts DEF StreamInv, Phases, PoolExited, Pool
  <2>3. \A i \in Stage : chan[i] = {}
    <3> SUFFICES ASSUME NEW i \in Stage
                 PROVE  chan[i] = {}
      OBVIOUS
    <3>1. PICK w \in Workers : StageOf[w] = i
      BY PoolsAssumption DEF Stage
    <3>2. QED
      BY <2>1, <2>2, <3>1 DEF Flow, Sent
  <2>4. \A i \in Stage : Arrived(i) = probed[i]
    BY <2>0, <2>2, <2>3 DEF Arrived, InHandOf
  <2>5. probed[1] = IPs
    BY <2>1, <2>4, NextStage DEF Flow
  <2>6. ASSUME NEW i \in Stage \ {N}
        PROVE  /\ probed[i + 1] = reported[i]
               /\ total[i + 1] = processed[i + 1]
    <3>1. Link(i) /\ i + 1 \in Stage /\ Arrived(i + 1) = probed[i + 1]
      BY <2>1, <2>4, NextStage DEF Flow
    <3>2. Counting(i) = {} /\ \A ip \in IPs : ~Passing(i, ip)
      BY <2>2 DEF Counting, Passing
    <3>3. probed[i + 1] = reported[i]
      BY <2>0, <3>1, <3>2 DEF Link
    <3>4. total[i + 1] = Cardinality(probed[i + 1])
      BY <3>1, <3>2 DEF Link
    <3>5. processed[i + 1] = Cardinality(probed[i + 1])
      BY <2>1, <3>1 DEF Flow, Once
    <3>6. QED
      BY <3>3, <3>4, <3>5
  <2>7. \A i \in Stage : total[i] = processed[i]
    <3> SUFFICES ASSUME NEW i \in Stage
                 PROVE  total[i] = processed[i]
      OBVIOUS
    <3>1. CASE i = 1
      BY <2>1, <2>5, <3>1 DEF Flow, Once
    <3>2. CASE i # 1
      <4>1. i - 1 \in Stage \ {N} /\ (i - 1) + 1 = i
        BY <3>2, NextStage
      <4>2. QED
        BY <2>6, <4>1
    <3>3. QED
      BY <3>1, <3>2
  <2>8. QED
    BY <2>5, <2>6, <2>7
<1>2. QED
  BY <1>1, StreamInvariant, PTL

-----------------------------------------------------------------------------
(* What the last stage holds when the scan returns nil: nothing was lost.  *)
LEMMA NilSaved ==
    ASSUME StreamInv, Return, result' = "nil"
    PROVE  badWriters = {} /\ (ignoreErr \/ written[N] = reported[N])
<1>0. /\ badWriters \in SUBSET Stage /\ ignoreErr \in BOOLEAN
      /\ reported \in [Stage -> SUBSET IPs]
  BY DEF StreamInv, TypeOK, ExecTypeOK
<1>1. mpc = "close" /\ ~err
  BY DEF Return
<1>2. \A i \in Stage : probe[i] # "open"
  BY StageFacts DEF StreamInv, Phases, Return, TypeOK
<1>3. badWriters = {}
  BY <1>0, <1>1, <1>2 DEF StreamInv, Together, Reported
<1>4. \A w \in Workers : pc[w] # "write"
  BY <1>1 DEF StreamInv, Phases
<1>5. ~ignoreErr => written[N] = reported[N]
  BY <1>0, <1>3, <1>4, StageFacts DEF StreamInv, Saved, Writing
<1>6. QED
  BY <1>0, <1>3, <1>5

(* A step of a worker finds or saves an address of the contract, or none.  *)
LEMMA WorkContract ==
    ASSUME StreamInv, NEW w \in Workers, StageWork(w)
    PROVE  [Contract!Next]_(Contract!contractVars)
<1>0. /\ result = "none" /\ result' = result /\ Work(w)
      /\ ExecTypeOK /\ InHand /\ OnlyClaimed /\ Saved
  BY DEF StageWork, chainVars, StreamInv, Reported, TypeOK
<1>1. CASE Checkpoint(w) \/ Receive(w) \/ Admit(w) \/ RunProbe(w)
  BY <1>0, <1>1 DEF Checkpoint, Receive, Admit, RunProbe, countVars, openVars,
     Contract!contractVars
<1>2. CASE Claim(w)
  <2>1. CASE reported'[N] = reported[N]
    BY <1>0, <1>2, <2>1, ClaimLast DEF Contract!contractVars
  <2>2. CASE reported'[N] # reported[N]
    <3>1. PICK ip \in IPs \ reported[N] :
            /\ reported'[N] = reported[N] \cup {ip}
            /\ Limit > 0 => Cardinality(reported[N]) < Limit
      BY <1>0, <1>2, <2>2, ClaimLast
    <3>2. Contract!Cardinality(reported[N]) = Cardinality(reported[N])
      BY DEF Contract!Cardinality, Cardinality
    <3>3. Contract!Find(ip)
      BY <1>0, <1>2, <3>1, <3>2, ClaimLast DEF Contract!Find
    <3>4. QED
      BY <3>1, <3>3 DEF Contract!Next
  <2>3. QED
    BY <2>1, <2>2
<1>3. CASE Write(w)
  <2>1. CASE written'[N] = written[N]
    BY <1>0, <1>3, <2>1, WriteLast DEF Contract!contractVars
  <2>2. CASE written'[N] # written[N]
    <3>1. PICK ip \in IPs \cap reported[N] : written'[N] = written[N] \cup {ip}
      BY <1>0, <1>3, <2>2, WriteLast
    <3>2. Contract!Save(ip)
      BY <1>0, <1>3, <3>1, WriteLast DEF Contract!Save
    <3>3. QED
      BY <3>1, <3>2 DEF Contract!Next
  <2>3. QED
    BY <2>1, <2>2
<1>4. QED
  BY <1>0, <1>1, <1>2, <1>3 DEF Work

(* Every step of a streaming scan is a step of the contract, or none.      *)
LEMMA ContractStep ==
    StreamInv /\ [Next]_vars => [Contract!Next]_(Contract!contractVars)
<1> SUFFICES ASSUME StreamInv, [Next]_vars
             PROVE  [Contract!Next]_(Contract!contractVars)
  OBVIOUS
<1> USE DEF queueVars, workerVars, countVars, openVars, chainVars
<1>a. ASSUME UNCHANGED <<ignoreErr, reported, written, badWriters, result>>
      PROVE  [Contract!Next]_(Contract!contractVars)
  BY <1>a DEF Contract!contractVars
<1>b. ASSUME UNCHANGED <<ignoreErr, reported, written, result>>, badWriters' # {},
             result = "none"
      PROVE  [Contract!Next]_(Contract!contractVars)
  BY <1>b DEF Contract!Next, Contract!Lose
<1>1. CASE UserCancel
  BY <1>1, <1>a DEF UserCancel
<1>2. CASE Build \/ BuildFails
  BY <1>2, <1>a DEF Build, BuildFails, OpenStage, OpenStageFails
<1>3. CASE Read \/ ReadEnd \/ ReadFails
  BY <1>3, <1>a DEF Read, ReadEnd, ReadFails
<1>4. ASSUME NEW w \in Workers, StageWork(w)
      PROVE  [Contract!Next]_(Contract!contractVars)
  BY <1>4, WorkContract
<1>5. ASSUME NEW w \in Workers, StopAtLimit(w) \/ StopOnFatal(w) \/ Forward(w)
                                  \/ CountForwarded(w)
      PROVE  [Contract!Next]_(Contract!contractVars)
  BY <1>5, <1>a DEF StopAtLimit, StopOnFatal, Forward, CountForwarded
<1>6. ASSUME NEW i \in Stage, FlushFails(i)
      PROVE  [Contract!Next]_(Contract!contractVars)
  <2>1. result = "none"
    BY <1>6 DEF FlushFails, StreamInv, Reported
  <2>2. QED
    BY <1>6, <1>b, <2>1 DEF FlushFails, WriterFails
<1>7. ASSUME NEW i \in Stage, StageEnds(i)
      PROVE  [Contract!Next]_(Contract!contractVars)
  BY <1>7, <1>a DEF StageEnds
<1>8. CASE AllEnded \/ UNCHANGED vars
  BY <1>8, <1>a DEF AllEnded, execVars, vars
<1>9. CASE CloseNext
  <2>1. result = "none"
    BY <1>9 DEF CloseNext, StreamInv, Reported
  <2>2. UNCHANGED <<ignoreErr, reported, written, result>>
        /\ (badWriters' = badWriters \/ badWriters' # {})
    BY <1>9 DEF CloseNext, CloseStage
  <2>3. QED
    BY <1>a, <1>b, <2>1, <2>2
<1>10. CASE Return
  <2>1. result = "none" /\ UNCHANGED <<ignoreErr, reported, written, badWriters>>
    BY <1>10 DEF Return, execVars, StreamInv, Reported
  <2>2. CASE result' = "error"
    <3>1. Contract!Finish
      BY <2>1, <2>2 DEF Contract!Finish
    <3>2. QED
      BY <3>1 DEF Contract!Next
  <2>3. CASE result' = "nil"
    <3>1. badWriters = {} /\ (ignoreErr \/ written[N] = reported[N])
      BY <1>10, <2>3, NilSaved
    <3>2. Contract!Finish
      BY <2>1, <2>3, <3>1 DEF Contract!Finish
    <3>3. QED
      BY <3>2 DEF Contract!Next
  <2>4. QED
    BY <1>10, <2>2, <2>3 DEF Return
<1>11. QED
  BY <1>1, <1>2, <1>3, <1>4, <1>5, <1>6, <1>7, <1>8, <1>9, <1>10
     DEF Next, MainStep, PoolStep

(***************************************************************************)
(* The streaming mode implements the contract of a scan (ScanContract):    *)
(* results are found once and up to the limit, what is saved was found,    *)
(* and nil means that all of it is saved (RunScanWithChain, closeExecutors *)
(* and the errors runStreaming joins).                                     *)
(***************************************************************************)
THEOREM StreamImplementsContract == Spec => KeepsContract
<1>1. Init => Contract!Init
  BY StageFacts DEF Init, ExecInit, Contract!Init
<1>2. QED
  BY <1>1, StreamInvariant, ContractStep, PTL DEF Spec, KeepsContract, Contract!Spec
=============================================================================
