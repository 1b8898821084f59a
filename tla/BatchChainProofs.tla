--------------------------- MODULE BatchChainProofs ---------------------------
(***************************************************************************)
(* The batch pipeline for any number of stages, workers and addresses and  *)
(* any size of a batch.  The inductive invariant BatchInv says which pool  *)
(* may run in which phase of the scan (Phases), where every address is as  *)
(* long as nothing stops the scan (FlowKept), and what becomes of a result *)
(* and of a writer that lost some (Saved, Reported).                       *)
(***************************************************************************)
EXTENDS BatchChain, StageExecutorProofs, SequenceTheorems

BatchTypeOK ==
    /\ ExecTypeOK
    /\ mpc \in {"build", "next", "stage", "pool", "close", "returned"}
    /\ at \in 1..(N + 1)
    /\ current \in SUBSET IPs
    /\ out \in SUBSET IPs
    /\ feed \in {"reading", "ok", "canceled", "error"}
    /\ unread \in SUBSET IPs
    /\ batches \in Seq(SUBSET IPs)
    /\ errCh \in {"none", "limit", "fatal"}
    /\ late \in SUBSET {"limit", "fatal"}
    /\ err \in BOOLEAN
    /\ user \in BOOLEAN
    /\ ending \in BOOLEAN
    /\ result \in {"none", "nil", "error"}

(***************************************************************************)
(* Stages are opened and closed one after the other; between that all are  *)
(* open, and only the pool of the stage the batch is in is at work.        *)
(***************************************************************************)
Phases ==
    /\ mpc = "build" =>
         /\ at <= N /\ feed = "reading" /\ batches = <<>>
         /\ \A i \in Stage : IF i < at THEN probe[i] = "open"
                             ELSE probe[i] = "new" /\ writer[i] = "new"
    /\ mpc \in {"next", "stage", "pool"} => \A i \in Stage : probe[i] = "open"
    /\ mpc = "pool" => at <= N
    /\ mpc = "close" => \A i \in Stage : i < at => probe[i] # "open"
    /\ mpc = "returned" => \A i \in Stage : probe[i] # "open"
    /\ \A w \in Workers : pc[w] \in {"idle", "exited"} \/ (mpc = "pool" /\ StageOf[w] = at)
    /\ \A i \in Stage : chan[i] = {} \/ (mpc = "pool" /\ i = at)

-----------------------------------------------------------------------------
(* The steps that leave the executors alone. *)
MainOnly == NoMoreBatches \/ TakeBatch \/ BatchEnds \/ Return
            \/ Feed \/ FeedCanceled \/ FeedFails

LEMMA FeedType ==
    ASSUME BatchTypeOK, Feed
    PROVE  unread' \in SUBSET IPs /\ batches' \in Seq(SUBSET IPs)
<1>1. PICK b \in SUBSET unread : batches' = Append(batches, b) /\ unread' = unread \ b
  BY DEF Feed, Batches
<1>2. QED
  BY <1>1 DEF BatchTypeOK

LEMMA TakeType ==
    ASSUME BatchTypeOK, TakeBatch
    PROVE  current' \in SUBSET IPs /\ batches' \in Seq(SUBSET IPs)
<1>1. Head(batches) \in SUBSET IPs /\ Tail(batches) \in Seq(SUBSET IPs)
  BY DEF BatchTypeOK, TakeBatch
<1>2. QED
  BY <1>1 DEF BatchTypeOK, TakeBatch

LEMMA CancelType ==
    ASSUME ExecTypeOK, InHand, UNCHANGED <<queueVars, workerVars, countVars, openVars>>,
           NEW c \in {"none", "canceled", "limit", "fatal"}, Cancel(c) \/ UNCHANGED cause
    PROVE  ExecTypeOK' /\ InHand'
  BY DEF Cancel, ExecTypeOK, InHand, queueVars, workerVars, countVars, openVars

(* Every step of a batch scan keeps the types. *)
LEMMA TypeStep ==
    BatchTypeOK /\ InHand /\ Phases /\ [Next]_vars => BatchTypeOK' /\ InHand'
<1> SUFFICES ASSUME BatchTypeOK, InHand, Phases, [Next]_vars
             PROVE  BatchTypeOK' /\ InHand'
  OBVIOUS
<1> USE StageFacts DEF BatchTypeOK, chainVars
<1>1. CASE UserCancel
  <2>1. ExecTypeOK' /\ InHand'
    BY <1>1, CancelType DEF UserCancel
  <2>2. QED
    BY <1>1, <2>1 DEF UserCancel
<1>2. CASE Build
  <2>1. (IF at = 1 THEN Cardinality(IPs) ELSE 0) \in Nat /\ at \in Stage
    BY <1>2 DEF Build, Phases, Stage
  <2>2. ExecTypeOK' /\ InHand'
    BY <1>2, <2>1, ExecTypeOpen DEF Build
  <2>3. at' \in 1..(N + 1) /\ mpc' \in {"build", "next"}
    BY <1>2, <2>1 DEF Build
  <2>4. QED
    BY <1>2, <2>2, <2>3 DEF Build
<1>3. CASE BuildFails
  <2>1. at \in Stage
    BY <1>3 DEF BuildFails, Phases, Stage
  <2>2. ExecTypeOK' /\ InHand'
    BY <1>3, <2>1, ExecTypeOpen DEF BuildFails
  <2>3. QED
    BY <1>3, <2>2 DEF BuildFails
<1>4. CASE MainOnly
  <2>1. ExecTypeOK' /\ InHand'
    BY <1>4 DEF MainOnly, NoMoreBatches, TakeBatch, BatchEnds, Return, Feed,
       FeedCanceled, FeedFails, execVars, ExecTypeOK, InHand
  <2>2. CASE NoMoreBatches \/ BatchEnds \/ Return \/ FeedCanceled \/ FeedFails
    <3>1. UNCHANGED <<current, out, unread, batches, errCh, late, user, ending>>
      BY <2>2 DEF NoMoreBatches, BatchEnds, Return, FeedCanceled, FeedFails
    <3>4. at' \in 1..(N + 1)
      BY <2>2 DEF NoMoreBatches, BatchEnds, Return, FeedCanceled, FeedFails
    <3>5. err' \in BOOLEAN
      BY <2>2 DEF NoMoreBatches, BatchEnds, Return, FeedCanceled, FeedFails, CauseIsError
    <3>2. /\ mpc' \in {"next", "stage", "pool", "close", "returned"}
          /\ feed' \in {"reading", "ok", "canceled", "error"}
          /\ result' \in {"none", "nil", "error"}
      BY <2>2 DEF NoMoreBatches, BatchEnds, Return, FeedCanceled, FeedFails
    <3>3. QED
      BY <2>1, <3>1, <3>2, <3>4, <3>5
  <2>3. CASE Feed
    BY <2>1, <2>3, FeedType DEF Feed
  <2>4. CASE TakeBatch
    <3>1. /\ at' = 1 /\ mpc' \in {"close", "stage"} /\ err' \in BOOLEAN
          /\ UNCHANGED <<out, feed, unread, errCh, late, user, ending, result>>
      BY <2>4 DEF TakeBatch, CauseIsError
    <3>2. QED
      BY <2>1, <2>4, <3>1, TakeType
  <2>5. QED
    BY <1>4, <2>2, <2>3, <2>4 DEF MainOnly
<1>5. CASE StartPool
  <2>1. chan' \in [Stage -> SUBSET IPs] /\ eof' \in SUBSET Stage
    BY <1>5 DEF StartPool, ExecTypeOK, Stage
  <2>2. pc' \in [Workers -> {"idle", "select", "admit", "probe", "claim", "write",
                             "passed", "count", "limit", "fatal", "exited"}]
    BY <1>5 DEF StartPool, ExecTypeOK
  <2>3. \A w \in Workers : pc'[w] = "idle" \/ pc'[w] = pc[w]
    BY <1>5 DEF StartPool
  <2>4. UNCHANGED <<cause, cur, slot, countVars, openVars>>
    BY <1>5 DEF StartPool
  <2>5. ExecTypeOK'
    BY <2>1, <2>2, <2>4 DEF ExecTypeOK, countVars, openVars
  <2>6. InHand'
    BY <2>3, <2>4 DEF InHand
  <2>7. QED
    BY <1>5, <2>5, <2>6 DEF StartPool
<1>6. ASSUME NEW w \in Workers, StageWork(w)
      PROVE  BatchTypeOK' /\ InHand'
  BY <1>6, ExecTypeWork DEF StageWork
<1>7. ASSUME NEW w \in Workers, PassAddress(w) \/ WorkerError(w)
      PROVE  BatchTypeOK' /\ InHand'
  <2>1. /\ \E l \in {"idle", "exited"} : pc' = [pc EXCEPT ![w] = l]
        /\ UNCHANGED <<cause, queueVars, cur, slot, countVars, openVars>>
    BY <1>7 DEF PassAddress, WorkerError, Goto
  <2>2. ExecTypeOK' /\ InHand'
    BY <2>1 DEF ExecTypeOK, InHand, queueVars, countVars, openVars
  <2>3. CASE PassAddress(w)
    BY <2>2, <2>3 DEF PassAddress, InHand
  <2>4. CASE WorkerError(w)
    BY <2>2, <2>4 DEF WorkerError
  <2>5. QED
    BY <1>7, <2>3, <2>4
<1>8. CASE WatcherCancels
  <2>1. ExecTypeOK' /\ InHand'
    BY <1>8, CancelType DEF WatcherCancels
  <2>2. QED
    BY <1>8, <2>1 DEF WatcherCancels
<1>9. ASSUME NEW i \in Stage, FlushFails(i)
      PROVE  BatchTypeOK' /\ InHand'
  BY <1>9, ExecTypeOpen DEF FlushFails
<1>10. CASE PoolEnds
  <2>1. chan' \in [Stage -> SUBSET IPs]
    BY <1>10 DEF PoolEnds, ExecTypeOK
  <2>2. total' \in [Stage -> Nat]
    <3>1. Cardinality(out) \in Nat
      BY InputAssumption, FS_Subset, FS_CardinalityType
    <3>2. \A i \in Stage : total[i] \in Nat /\ total[i] + Cardinality(out) \in Nat
      BY <3>1 DEF ExecTypeOK
    <3>3. QED
      BY <1>10, <3>2 DEF PoolEnds, ExecTypeOK
  <2>3. ExecTypeOK' /\ InHand'
    BY <1>10, <2>1, <2>2 DEF PoolEnds, ExecTypeOK, InHand, workerVars, openVars
  <2>4. /\ at' \in 1..(N + 1) /\ late' \in SUBSET {"limit", "fatal"}
        /\ mpc' \in {"close", "stage"} /\ err' \in BOOLEAN /\ current' \in SUBSET IPs
        /\ UNCHANGED <<out, feed, unread, batches, errCh, user, ending, result>>
    <3>1. late' \in SUBSET {"limit", "fatal"}
      BY <1>10 DEF PoolEnds
    <3>2. at' \in 1..(N + 1)
      BY <1>10 DEF PoolEnds, Phases
    <3>3. mpc' \in {"close", "stage"} /\ err' \in BOOLEAN /\ current' \in SUBSET IPs
      BY <1>10 DEF PoolEnds
    <3>4. QED
      BY <1>10, <3>1, <3>2, <3>3 DEF PoolEnds
  <2>5. QED
    BY <2>3, <2>4
<1>11. CASE LateWatcher
  <2>1. PICK e \in late : late' = late \ {e} /\ (Cancel(e) \/ UNCHANGED cause)
    BY <1>11 DEF LateWatcher
  <2>2. UNCHANGED <<queueVars, workerVars, countVars, openVars>>
    BY <1>11 DEF LateWatcher
  <2>3. ExecTypeOK' /\ InHand'
    BY <2>1, <2>2, CancelType
  <2>4. QED
    BY <1>11, <2>1, <2>3 DEF LateWatcher
<1>12. CASE CloseNext
  BY <1>12, ExecTypeOpen DEF CloseNext, Stage
<1>13. CASE UNCHANGED vars
  BY <1>13 DEF vars, ExecTypeOK, InHand, execVars
<1>14. QED
  BY <1>1, <1>2, <1>3, <1>4, <1>5, <1>6, <1>7, <1>8, <1>9, <1>10, <1>11, <1>12, <1>13
     DEF Next, MainStep, MainOnly, PoolStep

LEMMA OnlyClaimedStep ==
    BatchTypeOK /\ OnlyClaimed /\ [Next]_vars => OnlyClaimed'
<1> SUFFICES ASSUME BatchTypeOK, OnlyClaimed, [Next]_vars
             PROVE  OnlyClaimed'
  OBVIOUS
<1> USE DEF queueVars, workerVars, countVars, openVars, chainVars
<1>1. ASSUME NEW w \in Workers, PoolStep(w)
      PROVE  OnlyClaimed'
  <2>1. CASE Work(w) /\ Claim(w)
    BY <2>1, ClaimStep DEF BatchTypeOK
  <2>2. CASE Checkpoint(w) \/ Receive(w) \/ Admit(w) \/ RunProbe(w) \/ Write(w)
             \/ PassAddress(w) \/ WorkerError(w)
    BY <2>2, NoClaim DEF Checkpoint, Receive, Admit, RunProbe, Write, PassAddress,
       WorkerError
  <2>3. QED
    BY <1>1, <2>1, <2>2 DEF PoolStep, StageWork, Work
<1>2. CASE UserCancel \/ WatcherCancels \/ LateWatcher
  BY <1>2, NoClaim DEF UserCancel, WatcherCancels, LateWatcher
<1>3. CASE Build \/ BuildFails \/ CloseNext
  BY <1>3, NoClaim DEF Build, BuildFails, OpenStage, OpenStageFails, CloseNext, CloseStage
<1>4. CASE MainOnly \/ UNCHANGED vars
  BY <1>4, NoClaim DEF MainOnly, NoMoreBatches, TakeBatch, BatchEnds, Return, Feed,
     FeedCanceled, FeedFails, execVars, vars
<1>5. CASE StartPool \/ PoolEnds
  BY <1>5, NoClaim DEF StartPool, PoolEnds
<1>6. CASE \E i \in Stage : FlushFails(i)
  BY <1>6, NoClaim DEF FlushFails, WriterFails
<1>7. QED
  BY <1>1, <1>2, <1>3, <1>4, <1>5, <1>6 DEF Next, MainStep, MainOnly

-----------------------------------------------------------------------------
(* Which steps touch a stage's writer and probe. *)
LEMMA OpenOnly ==
    [Next]_vars =>
       \/ UNCHANGED <<writer, probe, badWriters, ignoreErr>>
       \/ mpc = "build" /\ Build
       \/ mpc = "build" /\ BuildFails
       \/ mpc = "close" /\ CloseNext
       \/ mpc \in {"next", "stage", "pool"} /\ \E i \in Stage : FlushFails(i)
<1> SUFFICES ASSUME [Next]_vars
             PROVE  \/ UNCHANGED <<writer, probe, badWriters, ignoreErr>>
                    \/ mpc = "build" /\ Build
                    \/ mpc = "build" /\ BuildFails
                    \/ mpc = "close" /\ CloseNext
                    \/ mpc \in {"next", "stage", "pool"} /\ \E i \in Stage : FlushFails(i)
  OBVIOUS
<1> USE DEF openVars
<1>1. CASE Build \/ BuildFails \/ CloseNext \/ \E i \in Stage : FlushFails(i)
  BY <1>1 DEF Build, BuildFails, CloseNext, FlushFails
<1>2. CASE \E w \in Workers : PoolStep(w)
  BY <1>2 DEF PoolStep, StageWork, Work, Checkpoint, Receive, Admit, RunProbe, Claim,
     Write, PassAddress, WorkerError
<1>3. CASE UserCancel \/ WatcherCancels \/ LateWatcher \/ StartPool \/ PoolEnds
  BY <1>3 DEF UserCancel, WatcherCancels, LateWatcher, StartPool, PoolEnds
<1>4. CASE MainOnly \/ UNCHANGED vars
  BY <1>4 DEF MainOnly, NoMoreBatches, TakeBatch, BatchEnds, Return, Feed,
     FeedCanceled, FeedFails, execVars, vars
<1>5. QED
  BY <1>1, <1>2, <1>3, <1>4 DEF Next, MainStep, MainOnly

(* Opening, failing and closing a stage keep writer and probe together. *)
LEMMA TogetherStep ==
    BatchTypeOK /\ Phases /\ Together /\ [Next]_vars => Together'
<1> SUFFICES ASSUME BatchTypeOK, Phases, Together, [Next]_vars
             PROVE  Together'
  OBVIOUS
<1>0. writer \in [Stage -> {"new", "open", "off", "failed", "closed"}]
      /\ probe \in [Stage -> {"new", "open", "closed"}]
  BY DEF BatchTypeOK, ExecTypeOK
<1>1. CASE UNCHANGED <<writer, probe>>
  BY <1>1 DEF Together
<1>2. CASE Build
  BY <1>0, <1>2 DEF Build, OpenStage, Together
<1>3. CASE BuildFails
  <2>1. mpc = "build" /\ \A i \in Stage : i >= at => probe[i] = "new" /\ writer[i] = "new"
    <3>1. at \in 1..(N + 1)
      BY DEF BatchTypeOK
    <3>2. QED
      BY <1>3, <3>1, StageFacts DEF BuildFails, Phases
  <2>2. /\ probe' = probe
        /\ writer' = writer \/ writer' = [writer EXCEPT ![at] = "closed"]
    BY <1>3 DEF BuildFails, OpenStageFails
  <2>3. \A i \in Stage : i = at => probe[i] = "new"
    BY <2>1, StageFacts
  <2>4. QED
    BY <1>0, <2>2, <2>3 DEF Together
<1>4. CASE CloseNext
  BY <1>0, <1>4 DEF CloseNext, CloseStage, Together
<1>5. ASSUME NEW i \in Stage, FlushFails(i)
      PROVE  Together'
  BY <1>0, <1>5 DEF FlushFails, WriterFails, Together
<1>6. QED
  BY <1>1, <1>2, <1>3, <1>4, <1>5, OpenOnly

(* Where the workers and the queues are, for a step of the main goroutine. *)
PoolsRest ==
    /\ \A w \in Workers : pc[w] \in {"idle", "exited"}
    /\ \A i \in Stage : chan[i] = {}

(***************************************************************************)
(* The phases of a scan follow each other: a pool only runs for the stage  *)
(* the batch is in and when every stage is open.                           *)
(***************************************************************************)
LEMMA PhasesStep ==
    BatchTypeOK /\ Phases /\ [Next]_vars => Phases'
<1> SUFFICES ASSUME BatchTypeOK, Phases, [Next]_vars
             PROVE  Phases'
  OBVIOUS
<1>0. /\ probe \in [Stage -> {"new", "open", "closed"}]
      /\ writer \in [Stage -> {"new", "open", "off", "failed", "closed"}]
      /\ chan \in [Stage -> SUBSET IPs]
      /\ pc \in [Workers -> {"idle", "select", "admit", "probe", "claim", "write",
                              "passed", "count", "limit", "fatal", "exited"}]
      /\ at \in 1..(N + 1)
  BY DEF BatchTypeOK, ExecTypeOK
<1> USE StageFacts DEF queueVars, workerVars, countVars, openVars, chainVars
<1>a. ASSUME UNCHANGED <<mpc, at, feed, batches, pc, chan, probe, writer>>
      PROVE  Phases'
  BY <1>a DEF Phases
<1>b. mpc # "pool" => PoolsRest
  BY DEF Phases, PoolsRest
<1>c. ASSUME PoolsRest', mpc' \in {"next", "stage"}, \A i \in Stage : probe'[i] = "open"
      PROVE  Phases'
  BY <1>c DEF Phases, PoolsRest
<1>d. ASSUME PoolsRest', mpc' = "close", at' = 1
      PROVE  Phases'
  <2>1. \A i \in Stage : ~(i < at')
    BY <1>d
  <2>2. QED
    BY <1>d, <2>1 DEF Phases, PoolsRest
<1>e. ASSUME UNCHANGED <<pc, chan>>
      PROVE  PoolsRest => PoolsRest'
  BY <1>e DEF PoolsRest
<1>1. CASE UserCancel \/ WatcherCancels
  BY <1>1, <1>a DEF UserCancel, WatcherCancels
<1>2. CASE Build
  <2>1. /\ mpc = "build" /\ UNCHANGED <<pc, chan, feed, batches>>
        /\ probe' = [probe EXCEPT ![at] = "open"]
        /\ \A i \in Stage : i # at => writer'[i] = writer[i]
    BY <1>0, <1>2 DEF Build, OpenStage
  <2>2. PoolsRest'
    BY <1>b, <1>e, <2>1
  <2>3. CASE at < N
    <3>1. mpc' = "build" /\ at' = at + 1
      BY <1>2, <2>3 DEF Build
    <3>2. \A i \in Stage : IF i < at' THEN probe'[i] = "open"
                           ELSE probe'[i] = "new" /\ writer'[i] = "new"
      <4> SUFFICES ASSUME NEW i \in Stage
                   PROVE  IF i < at' THEN probe'[i] = "open"
                          ELSE probe'[i] = "new" /\ writer'[i] = "new"
        OBVIOUS
      <4>1. IF i < at THEN probe[i] = "open"
            ELSE probe[i] = "new" /\ writer[i] = "new"
        BY <2>1 DEF Phases
      <4>2. probe'[i] = IF i = at THEN "open" ELSE probe[i]
        BY <1>0, <2>1
      <4>3. (i < at' <=> i < at \/ i = at) /\ (i = at => ~(i < at))
        BY <1>0, <3>1
      <4>4. QED
        BY <2>1, <4>1, <4>2, <4>3
    <3>3. at' <= N /\ feed' = "reading" /\ batches' = <<>>
      BY <1>0, <2>1, <2>3, <3>1 DEF Phases
    <3>4. QED
      BY <2>2, <3>1, <3>2, <3>3 DEF Phases, PoolsRest
  <2>4. CASE ~(at < N)
    <3>1. mpc' = "next"
      BY <1>2, <2>4 DEF Build
    <3>2. \A i \in Stage : probe'[i] = "open"
      BY <1>0, <2>1, <2>4 DEF Phases
    <3>3. QED
      BY <1>c, <2>2, <3>1, <3>2
  <2>5. QED
    BY <2>3, <2>4
<1>3. CASE BuildFails
  BY <1>3, <1>b, <1>d, <1>e DEF BuildFails, OpenStageFails
<1>4. CASE Feed \/ FeedCanceled \/ FeedFails
  <2>1. /\ mpc \in {"next", "stage", "pool"}
        /\ UNCHANGED <<mpc, at, pc, chan, probe, writer>>
    BY <1>4 DEF Feed, FeedCanceled, FeedFails, execVars
  <2>2. QED
    BY <2>1 DEF Phases
<1>5. CASE NoMoreBatches \/ TakeBatch \/ BatchEnds
  <2>1. /\ mpc \in {"next", "stage"} /\ UNCHANGED <<pc, chan, probe>>
        /\ mpc' \in {"next", "stage"} \/ (mpc' = "close" /\ at' = 1)
    BY <1>5 DEF NoMoreBatches, TakeBatch, BatchEnds, execVars
  <2>2. PoolsRest' /\ \A i \in Stage : probe'[i] = "open"
    BY <1>b, <1>e, <2>1 DEF Phases
  <2>3. QED
    BY <1>c, <1>d, <2>1, <2>2
<1>6. CASE StartPool
  <2>1. /\ mpc = "stage" /\ mpc' = "pool" /\ at' = at /\ at <= N /\ probe' = probe
        /\ chan' = [chan EXCEPT ![at] = current]
        /\ pc' = [w \in Workers |-> IF StageOf[w] = at THEN "idle" ELSE pc[w]]
    BY <1>6 DEF StartPool
  <2>2. PoolsRest
    BY <1>b, <2>1
  <2>3. \A i \in Stage : chan'[i] = {} \/ i = at
    BY <1>0, <2>1, <2>2 DEF PoolsRest
  <2>4. \A w \in Workers : pc'[w] \in {"idle", "exited"}
    BY <2>1, <2>2 DEF PoolsRest
  <2>5. QED
    BY <2>1, <2>3, <2>4 DEF Phases
<1>7. ASSUME NEW w \in Workers, PoolStep(w)
      PROVE  Phases'
  <2>1. /\ mpc = "pool" /\ UNCHANGED <<mpc, at, feed, batches, probe, writer>>
    BY <1>7 DEF PoolStep, StageWork, Work, Checkpoint, Receive, Admit, RunProbe, Claim,
       Write, PassAddress, WorkerError
  <2>2. StageOf[w] = at
    BY <1>7, <2>1 DEF PoolStep, StageWork, PassAddress, WorkerError, Phases
  <2>3. \A v \in Workers : v # w => pc'[v] = pc[v]
    BY <1>0, <1>7 DEF PoolStep, StageWork, Work, Checkpoint, Receive, Admit, RunProbe,
       Claim, Write, PassAddress, WorkerError, Goto
  <2>4. \A i \in Stage : i # at => chan'[i] = chan[i]
    BY <1>0, <1>7, <2>2 DEF PoolStep, StageWork, Work, Checkpoint, Receive, Admit, RunProbe,
       Claim, Write, PassAddress, WorkerError
  <2>5. QED
    BY <2>1, <2>2, <2>3, <2>4 DEF Phases
<1>8. ASSUME NEW i \in Stage, FlushFails(i)
      PROVE  Phases'
  BY <1>8 DEF FlushFails, WriterFails, Phases
<1>9. CASE PoolEnds
  <2>1. /\ mpc = "pool" /\ PoolExited(at) /\ probe' = probe /\ pc' = pc
        /\ chan' = [chan EXCEPT ![at] = {}]
        /\ mpc' = "stage" \/ (mpc' = "close" /\ at' = 1)
    BY <1>9 DEF PoolEnds
  <2>2. \A w \in Workers : pc'[w] \in {"idle", "exited"}
    BY <2>1 DEF Phases, PoolExited, Pool
  <2>3. \A i \in Stage : chan'[i] = {}
    BY <1>0, <2>1 DEF Phases
  <2>4. PoolsRest'
    BY <2>2, <2>3 DEF PoolsRest
  <2>5. \A i \in Stage : probe'[i] = "open"
    BY <2>1 DEF Phases
  <2>6. QED
    BY <1>c, <1>d, <2>1, <2>4, <2>5
<1>10. CASE LateWatcher
  BY <1>10, <1>a DEF LateWatcher
<1>11. CASE CloseNext
  <2>1. /\ mpc = "close" /\ mpc' = "close" /\ at' = at + 1 /\ UNCHANGED <<pc, chan>>
        /\ probe' = [probe EXCEPT ![at] = "closed"]
    BY <1>11 DEF CloseNext, CloseStage
  <2>2. \A i \in Stage : i < at' => probe'[i] # "open"
    BY <1>0, <2>1 DEF Phases
  <2>3. PoolsRest'
    BY <1>b, <1>e, <2>1
  <2>4. QED
    BY <2>1, <2>2, <2>3 DEF Phases, PoolsRest
<1>12. CASE Return
  <2>1. /\ mpc = "close" /\ mpc' = "returned" /\ UNCHANGED <<pc, chan, probe>>
        /\ \A i \in Stage : i >= at => probe[i] # "open"
    BY <1>12 DEF Return, execVars
  <2>2. \A i \in Stage : probe'[i] # "open"
    BY <1>0, <2>1 DEF Phases
  <2>3. PoolsRest'
    BY <1>b, <1>e, <2>1
  <2>4. QED
    BY <2>1, <2>2, <2>3 DEF Phases, PoolsRest
<1>13. CASE UNCHANGED vars
  BY <1>13, <1>a DEF execVars, vars
<1>14. QED
  BY <1>1, <1>2, <1>3, <1>4, <1>5, <1>6, <1>7, <1>8, <1>9, <1>10, <1>11, <1>12, <1>13
     DEF Next, MainStep

-----------------------------------------------------------------------------
(* A writer that lost results is known to the scan, which ends with that.  *)
Reported ==
    /\ \A i \in badWriters : writer[i] = "failed" \/ err
    /\ mpc \notin {"close", "returned"} => err = FALSE
    /\ result # "none" <=> mpc = "returned"

LEMMA SavedStep ==
    BatchTypeOK /\ InHand /\ Phases /\ Together /\ Saved /\ [Next]_vars => Saved'
<1> SUFFICES ASSUME BatchTypeOK, InHand, Phases, Together, Saved, [Next]_vars
             PROVE  Saved'
  OBVIOUS
<1>0. ExecTypeOK
  BY DEF BatchTypeOK
<1>a. ASSUME UNCHANGED <<pc, cur, reported, written, writer, badWriters, ignoreErr>>
      PROVE  Saved'
  BY <1>a DEF Saved, Writing
<1> USE DEF queueVars, workerVars, countVars, openVars, chainVars
<1>1. CASE UserCancel \/ WatcherCancels \/ LateWatcher
  BY <1>1, <1>a DEF UserCancel, WatcherCancels, LateWatcher
<1>2. CASE Build
  <2>1. at \in Stage /\ (IF at = 1 THEN Cardinality(IPs) ELSE 0) \in Nat
    BY <1>2, StageFacts DEF Build, Phases, BatchTypeOK, Stage
  <2>2. QED
    BY <1>0, <1>2, <2>1, SavedOpen DEF Build
<1>3. CASE BuildFails
  <2>1. at \in Stage
    BY <1>3 DEF BuildFails, Phases, BatchTypeOK, Stage
  <2>2. QED
    BY <1>0, <1>3, <2>1, SavedOpen DEF BuildFails
<1>4. CASE MainOnly \/ UNCHANGED vars
  BY <1>4, <1>a DEF MainOnly, NoMoreBatches, TakeBatch, BatchEnds, Return, Feed,
     FeedCanceled, FeedFails, execVars, vars
<1>5. ASSUME NEW w \in Workers, StageWork(w)
      PROVE  Saved'
  <2>1. writer[StageOf[w]] \in {"open", "off", "failed"}
    BY <1>5, StageFacts DEF StageWork, Phases, Together
  <2>2. QED
    BY <1>0, <1>5, <2>1, SavedWork DEF StageWork
<1>6. ASSUME NEW w \in Workers, PassAddress(w) \/ WorkerError(w)
      PROVE  Saved'
  <2>1. /\ pc[w] # "write" /\ UNCHANGED <<cur, reported, written, openVars>>
        /\ \E l \in {"idle", "exited"} : pc' = [pc EXCEPT ![w] = l]
    BY <1>6 DEF PassAddress, WorkerError, Goto
  <2>2. QED
    BY <1>0, <2>1, SavedGoto
<1>7. ASSUME NEW i \in Stage, FlushFails(i)
      PROVE  Saved'
  BY <1>0, <1>7, SavedOpen DEF FlushFails
<1>8. CASE CloseNext
  <2>1. at \in Stage
    BY <1>8 DEF CloseNext, BatchTypeOK, Stage
  <2>2. QED
    BY <1>0, <1>8, <2>1, SavedOpen DEF CloseNext
<1>9. CASE PoolEnds
  BY <1>9, <1>a DEF PoolEnds
<1>10. CASE StartPool
  <2>1. /\ \A w \in Workers : pc[w] # "write"
        /\ UNCHANGED <<cur, reported, written, writer, badWriters, ignoreErr>>
        /\ \A w \in Workers : pc'[w] # "write"
    BY <1>10 DEF StartPool, Phases
  <2>2. QED
    BY <2>1 DEF Saved, Writing
<1>11. QED
  BY <1>1, <1>2, <1>3, <1>4, <1>5, <1>6, <1>7, <1>8, <1>9, <1>10
     DEF Next, MainStep, MainOnly, PoolStep

LEMMA ReportedStep ==
    BatchTypeOK /\ Phases /\ Reported /\ [Next]_vars => Reported'
<1> SUFFICES ASSUME BatchTypeOK, Phases, Reported, [Next]_vars
             PROVE  Reported'
  OBVIOUS
<1>0. /\ writer \in [Stage -> {"new", "open", "off", "failed", "closed"}]
      /\ badWriters \in SUBSET Stage /\ err \in BOOLEAN
  BY DEF BatchTypeOK, ExecTypeOK
<1> USE DEF queueVars, workerVars, countVars, openVars, chainVars
<1>a. ASSUME UNCHANGED <<writer, badWriters, err, result, mpc>>
      PROVE  Reported'
  BY <1>a DEF Reported
(* Before the executors are closed a writer that lost results has failed. *)
<1>b. ASSUME UNCHANGED <<writer, badWriters, result>>,
             mpc \notin {"close", "returned"}, mpc' # "returned",
             mpc' = "close" \/ UNCHANGED err
      PROVE  Reported'
  BY <1>b DEF Reported
<1>1. CASE UserCancel \/ WatcherCancels \/ LateWatcher
  BY <1>1, <1>a DEF UserCancel, WatcherCancels, LateWatcher
<1>2. CASE Build
  <2>1. /\ mpc = "build" /\ mpc' \in {"build", "next"}
        /\ UNCHANGED <<badWriters, err, result>>
        /\ \E s \in {"open", "off"} : writer' = [writer EXCEPT ![at] = s]
    BY <1>2 DEF Build, OpenStage
  <2>2. at \in Stage => writer[at] = "new"
    BY <2>1, StageFacts DEF Phases, BatchTypeOK, Stage
  <2>3. QED
    BY <1>0, <2>1, <2>2 DEF Reported
<1>3. CASE BuildFails
  BY <1>3 DEF BuildFails, OpenStageFails, Reported
<1>4. CASE NoMoreBatches \/ TakeBatch \/ BatchEnds \/ Feed \/ FeedCanceled \/ FeedFails
  BY <1>4, <1>b DEF NoMoreBatches, TakeBatch, BatchEnds, Feed, FeedCanceled, FeedFails,
     execVars
<1>5. CASE StartPool \/ PoolEnds
  BY <1>5, <1>b DEF StartPool, PoolEnds
<1>6. ASSUME NEW w \in Workers, PoolStep(w)
      PROVE  Reported'
  BY <1>6, <1>a DEF PoolStep, StageWork, Work, Checkpoint, Receive, Admit, RunProbe,
     Claim, Write, PassAddress, WorkerError
<1>7. ASSUME NEW i \in Stage, FlushFails(i)
      PROVE  Reported'
  BY <1>0, <1>7 DEF FlushFails, WriterFails, Reported
<1>8. CASE CloseNext
  BY <1>0, <1>8 DEF CloseNext, CloseStage, Reported
<1>9. CASE Return
  BY <1>9 DEF Return, execVars, Reported
<1>10. CASE UNCHANGED vars
  BY <1>10, <1>a DEF vars, execVars
<1>11. QED
  BY <1>1, <1>2, <1>3, <1>4, <1>5, <1>6, <1>7, <1>8, <1>9, <1>10 DEF Next, MainStep

-----------------------------------------------------------------------------
(* What the main goroutine has for stage i that is not in its channel: the *)
(* batch on its way to it, and what the pool of the stage before passed.   *)
Waiting(i) ==
    IF mpc = "stage" /\ at = i THEN current
    ELSE IF mpc = "pool" /\ at + 1 = i THEN out ELSE {}

(* All that has come to a stage; its total counts it when a pool has ended. *)
Come(i) == Arrived(i) \cup Waiting(i)
Counted(i) == IF mpc = "pool" THEN Arrived(i) ELSE Come(i)

(* Between two stages: what the first reported is on its way or there. *)
Link(i) ==
    /\ Come(i + 1) \subseteq reported[i]
    /\ \A ip \in reported[i] : ip \in Come(i + 1) \/ Passing(i, ip)
    /\ total[i + 1] = Cardinality(Counted(i + 1))

(* A worker passes an address once, and leaves only when there is no more. *)
Sent(w) ==
    /\ pc[w] \in {"write", "passed"} /\ StageOf[w] # N => cur[w] \notin Come(StageOf[w] + 1)
    /\ pc[w] = "limit" => StageOf[w] = N
    /\ pc[w] = "exited" /\ mpc = "pool" /\ StageOf[w] = at => chan[at] = {}

(* Every address of the input is unread, in one of the batches, or came. *)
Queued(ip) == \E k \in 1..Len(batches) : ip \in batches[k]

Input ==
    /\ \A ip \in IPs : ip \in unread \/ Queued(ip) \/ ip \in Come(1)
    /\ \A ip \in IPs : ~(ip \in unread /\ ip \in Come(1))
    /\ \A k \in 1..Len(batches) :
         /\ \A ip \in batches[k] : ip \notin unread /\ ip \notin Come(1)
         /\ \A j \in 1..Len(batches) : j # k => batches[j] \cap batches[k] = {}

(***************************************************************************)
(* As long as nothing stops the pipeline no address is lost, whichever     *)
(* batch it is in, and none comes to a stage twice.                        *)
(***************************************************************************)
Flow ==
    /\ Once
    /\ Input
    /\ \A i \in Stage : Waiting(i) \cap Arrived(i) = {}
    /\ \A i \in Stage \ {N} : Link(i)
    /\ \A w \in Workers : Sent(w)
    /\ mpc = "build" => \A i \in Stage : probed[i] = {}
    /\ mpc \in {"close", "returned"} /\ feed = "ok" => batches = <<>>

Calm == cause = "none" /\ ~ending

FlowKept == Calm => Flow

(* The total of the first stage is the input, which is read to its end. *)
Totals ==
    /\ feed = "ok" => unread = {}
    /\ (mpc \in {"next", "stage", "pool"} \/ (mpc = "build" /\ at > 1) \/ feed # "reading")
         => total[1] = Cardinality(IPs)

LEMMA NextStage ==
    /\ \A i \in Stage \ {N} : i + 1 \in Stage /\ i + 1 # 1 /\ i + 1 # i
    /\ \A i \in Stage \ {1} : i - 1 \in Stage \ {N} /\ (i - 1) + 1 = i
    /\ \A i, j \in Stage : i + 1 = j + 1 => i = j
    /\ \A i \in Stage : i + 1 <= N <=> i # N
    /\ 1 \in Stage
  BY StagesAssumption DEF Stage

(* Nothing that was stopped goes on as if it had not been. *)
LEMMA CalmBefore ==
    BatchTypeOK /\ [Next]_vars /\ Calm' =>
       /\ Calm /\ ~UserCancel /\ ~WatcherCancels /\ ~FeedCanceled
       /\ \A w \in Workers : ~WorkerError(w)
<1> SUFFICES ASSUME BatchTypeOK, [Next]_vars, Calm'
             PROVE  /\ Calm /\ ~UserCancel /\ ~WatcherCancels /\ ~FeedCanceled
                    /\ \A w \in Workers : ~WorkerError(w)
  OBVIOUS
<1>0. ending \in BOOLEAN
  BY DEF BatchTypeOK
<1>1. ~UserCancel /\ ~WatcherCancels /\ \A w \in Workers : ~WorkerError(w)
  BY DEF Calm, UserCancel, WatcherCancels, WorkerError, Cancel
<1> USE DEF openVars, chainVars
<1>2. Calm
  <2>1. CASE Build \/ BuildFails \/ CloseNext \/ \E i \in Stage : FlushFails(i)
    BY <2>1 DEF Calm, Build, OpenStage, BuildFails, OpenStageFails, CloseNext, CloseStage,
       FlushFails, WriterFails
  <2>2. CASE \E w \in Workers : PoolStep(w)
    BY <1>1, <2>2 DEF Calm, PoolStep, StageWork, Work, Checkpoint, Receive, Admit,
       RunProbe, Claim, Write, PassAddress
  <2>3. CASE LateWatcher
    BY <2>3 DEF Calm, LateWatcher, Cancel
  <2>4. CASE StartPool \/ PoolEnds
    BY <2>4 DEF Calm, StartPool, PoolEnds
  <2>5. CASE MainOnly
    BY <2>5 DEF Calm, MainOnly, NoMoreBatches, TakeBatch, BatchEnds, Return, Feed,
       FeedCanceled, FeedFails, execVars
  <2>6. CASE UNCHANGED vars
    BY <2>6 DEF Calm, execVars, vars
  <2>7. QED
    BY <1>1, <2>1, <2>2, <2>3, <2>4, <2>5, <2>6 DEF Next, MainStep, MainOnly
<1>3. ~FeedCanceled
  BY <1>2 DEF Calm, FeedCanceled, CtxDone
<1>4. QED
  BY <1>1, <1>2, <1>3

LEMMA LinkStays ==
    ASSUME NEW i \in Stage \ {N}, Link(i),
           Come(i + 1)' = Come(i + 1), Counted(i + 1)' = Counted(i + 1),
           total'[i + 1] = total[i + 1],
           \A ip \in IPs : Passing(i, ip) => Passing(i, ip)',
           reported[i] \subseteq reported'[i], reported'[i] \subseteq IPs,
           \A ip \in reported'[i] \ reported[i] : Passing(i, ip)'
    PROVE  Link(i)'
  BY DEF Link

(***************************************************************************)
(* The flow is kept by a step that leaves the pools, the queues and what   *)
(* waits for a stage alone.                                                *)
(***************************************************************************)
LEMMA FlowStays ==
    ASSUME BatchTypeOK, Flow,
           UNCHANGED <<chan, probed, reported, processed, pc, cur, unread, batches>>,
           \A i \in Stage : Waiting(i)' = Waiting(i),
           \A i \in Stage \ {N} : total'[i + 1] = total[i + 1],
           mpc = "pool" <=> mpc' = "pool", mpc = "pool" => at' = at,
           mpc' = "build" => mpc = "build",
           mpc' \in {"close", "returned"} /\ feed' = "ok" => batches = <<>>
    PROVE  Flow'
<1>1. Once'
  BY DEF Flow, Once
<1>2. \A i \in Stage : /\ Arrived(i)' = Arrived(i) /\ Come(i)' = Come(i)
                       /\ Counted(i)' = Counted(i)
  BY DEF Arrived, InHandOf, Come, Counted
<1>3. Input'
  BY <1>2, NextStage DEF Flow, Input, Queued
<1>4. \A i \in Stage \ {N} : Link(i)'
  <2> SUFFICES ASSUME NEW i \in Stage \ {N}
               PROVE  Link(i)'
    OBVIOUS
  <2>1. \A ip \in IPs : Passing(i, ip) => Passing(i, ip)'
    BY DEF Passing
  <2>2. Link(i) /\ i + 1 \in Stage /\ reported[i] \subseteq IPs
    BY NextStage DEF Flow, BatchTypeOK, ExecTypeOK
  <2>3. QED
    BY <1>2, <2>1, <2>2, LinkStays
<1>5. \A w \in Workers : Sent(w)'
  <2> SUFFICES ASSUME NEW w \in Workers
               PROVE  Sent(w)'
    OBVIOUS
  <2>1. Sent(w) /\ StageOf[w] \in Stage
    BY StageFacts DEF Flow
  <2>2. StageOf[w] # N => Come(StageOf[w] + 1)' = Come(StageOf[w] + 1)
    BY <1>2, <2>1, NextStage
  <2>3. QED
    BY <2>1, <2>2 DEF Sent
<1>6. \A i \in Stage : Waiting(i)' \cap Arrived(i)' = {}
  BY <1>2 DEF Flow
<1>7. QED
  BY <1>1, <1>3, <1>4, <1>5, <1>6 DEF Flow

(* Opening a stage sets a total while nothing has come to a stage yet. *)
LEMMA FlowBuild ==
    ASSUME BatchTypeOK, Phases, Flow, Build
    PROVE  Flow'
<1>1. /\ mpc = "build" /\ mpc' \in {"build", "next"}
      /\ UNCHANGED <<unread, batches, chan, probed, reported, processed, pc, cur, eof>>
      /\ total' = [total EXCEPT ![at] = IF at = 1 THEN Cardinality(IPs) ELSE 0]
  BY DEF Build, OpenStage, queueVars, workerVars, countVars
<1>2. total \in [Stage -> Nat]
  BY DEF BatchTypeOK, ExecTypeOK
<1>3. \A i \in Stage : Waiting(i) = {} /\ Waiting(i)' = {}
  BY <1>1 DEF Waiting
<1>4. ASSUME NEW i \in Stage \ {N}
      PROVE  total'[i + 1] = total[i + 1]
  <2>1. i + 1 \in Stage /\ i + 1 # 1 /\ Link(i)
    BY <1>4, NextStage DEF Flow
  <2>2. /\ \A w \in Workers : pc[w] \in {"idle", "exited"}
        /\ chan[i + 1] = {} /\ probed[i + 1] = {}
    BY <1>1, <2>1 DEF Phases, Flow
  <2>3. Come(i + 1) = {}
    BY <1>3, <2>1, <2>2 DEF Come, Arrived, InHandOf
  <2>4. total[i + 1] = 0
    BY <1>1, <2>1, <2>3, FS_EmptySet DEF Link, Counted
  <2>5. QED
    BY <1>1, <1>2, <2>1, <2>4
<1>5. QED
  BY <1>1, <1>3, <1>4, FlowStays

(* streamBatches cuts a batch from the input. *)
LEMMA FlowFeed ==
    ASSUME BatchTypeOK, Flow, Feed
    PROVE  Flow'
<1>1. /\ mpc \in {"next", "stage", "pool"}
      /\ UNCHANGED <<chan, probed, reported, processed, pc, cur, total, mpc, at, current, out>>
  BY DEF Feed, execVars
<1>2. PICK b \in SUBSET unread : batches' = Append(batches, b) /\ unread' = unread \ b
  BY DEF Feed, Batches
<1>3. /\ batches \in Seq(SUBSET IPs) /\ unread \in SUBSET IPs
  BY DEF BatchTypeOK
<1>4. /\ Len(batches) \in Nat /\ Len(batches') = Len(batches) + 1
      /\ \A k \in 1..Len(batches) : batches'[k] = batches[k]
      /\ batches'[Len(batches) + 1] = b
  BY <1>2, <1>3
<1>5. \A k \in 1..Len(batches') : \/ k = Len(batches) + 1 /\ batches'[k] = b
                                  \/ k \in 1..Len(batches) /\ batches'[k] = batches[k]
  BY <1>4
<1>6. Len(batches) + 1 \in 1..Len(batches') /\ 1..Len(batches) \subseteq 1..Len(batches')
  BY <1>4
<1>7. \A i \in Stage : /\ Arrived(i)' = Arrived(i) /\ Come(i)' = Come(i)
                       /\ Waiting(i)' = Waiting(i) /\ Counted(i)' = Counted(i)
  BY <1>1 DEF Arrived, InHandOf, Come, Waiting, Counted
<1>8. Come(1)' = Come(1)
  BY <1>7, NextStage
<1>9. Input'
  <2>1. \A ip \in IPs : ip \in unread' \/ Queued(ip)' \/ ip \in Come(1)'
    BY <1>2, <1>4, <1>6, <1>8 DEF Flow, Input, Queued
  <2>2. \A ip \in IPs : ~(ip \in unread' /\ ip \in Come(1)')
    BY <1>2, <1>8 DEF Flow, Input
  <2>3. \A ip \in b : ip \notin unread' /\ ip \notin Come(1)
    BY <1>2, <1>3 DEF Flow, Input
  <2>4. \A k \in 1..Len(batches) : batches[k] \cap b = {}
    BY <1>2 DEF Flow, Input
  <2>5. \A k \in 1..Len(batches') : \A ip \in batches'[k] : ip \notin unread' /\ ip \notin Come(1)'
    BY <1>2, <1>5, <1>8, <2>3 DEF Flow, Input
  <2>6. \A j, k \in 1..Len(batches') : j # k => batches'[j] \cap batches'[k] = {}
    BY <1>5, <2>4 DEF Flow, Input
  <2>7. QED
    BY <2>1, <2>2, <2>5, <2>6 DEF Input
<1>10. Once'
  BY <1>1 DEF Flow, Once
<1>11. \A i \in Stage \ {N} : Link(i)'
  <2> SUFFICES ASSUME NEW i \in Stage \ {N}
               PROVE  Link(i)'
    OBVIOUS
  <2>1. \A ip \in IPs : Passing(i, ip) => Passing(i, ip)'
    BY <1>1 DEF Passing
  <2>2. Link(i) /\ i + 1 \in Stage /\ reported[i] \subseteq IPs
    BY NextStage DEF Flow, BatchTypeOK, ExecTypeOK
  <2>3. QED
    BY <1>1, <1>7, <2>1, <2>2, LinkStays
<1>12. \A w \in Workers : Sent(w)'
  <2> SUFFICES ASSUME NEW w \in Workers
               PROVE  Sent(w)'
    OBVIOUS
  <2>1. Sent(w) /\ StageOf[w] \in Stage
    BY StageFacts DEF Flow
  <2>2. StageOf[w] # N => Come(StageOf[w] + 1)' = Come(StageOf[w] + 1)
    BY <1>7, <2>1, NextStage
  <2>3. QED
    BY <1>1, <2>1, <2>2 DEF Sent
<1>13. \A i \in Stage : Waiting(i)' \cap Arrived(i)' = {}
  BY <1>7 DEF Flow
<1>14. QED
  BY <1>1, <1>9, <1>10, <1>11, <1>12, <1>13 DEF Flow

(* The next batch is on its way to the first stage. *)
LEMMA FlowTake ==
    ASSUME BatchTypeOK, Phases, Flow, Calm, TakeBatch
    PROVE  Flow'
<1>1. /\ mpc = "next" /\ mpc' = "stage" /\ at' = 1 /\ batches # <<>>
      /\ batches' = Tail(batches) /\ current' = Head(batches)
      /\ UNCHANGED <<chan, probed, reported, processed, pc, cur, total, unread>>
  BY DEF Calm, TakeBatch, CtxDone, execVars
<1>2. batches \in Seq(SUBSET IPs)
  BY DEF BatchTypeOK
<1>3. /\ Len(batches) \in Nat /\ 1 \in 1..Len(batches) /\ Head(batches) = batches[1]
      /\ Len(batches') = Len(batches) - 1
      /\ \A k \in 1..Len(batches') : k + 1 \in 1..Len(batches) /\ batches'[k] = batches[k + 1]
  BY <1>1, <1>2
<1>4. \A k \in 1..Len(batches) : k = 1 \/ (k - 1 \in 1..Len(batches') /\ batches'[k - 1] = batches[k])
  <2> SUFFICES ASSUME NEW k \in 1..Len(batches), k # 1
               PROVE  k - 1 \in 1..Len(batches') /\ batches'[k - 1] = batches[k]
    OBVIOUS
  <2>1. k - 1 \in 1..Len(batches') /\ (k - 1) + 1 = k
    BY <1>3
  <2>2. QED
    BY <1>3, <2>1
<1> DEFINE b == batches[1]
<1>5. b \subseteq IPs
  BY <1>2, <1>3
<1>6. /\ \A i \in Stage : Waiting(i) = {} /\ Arrived(i)' = Arrived(i)
      /\ \A i \in Stage : Waiting(i)' = IF i = 1 THEN b ELSE {}
  BY <1>1, <1>3 DEF Waiting, Arrived, InHandOf
<1>7. /\ Come(1) = Arrived(1) /\ Come(1)' = Arrived(1) \cup b
      /\ \A i \in Stage : i # 1 => Come(i)' = Come(i) /\ Counted(i)' = Counted(i)
  BY <1>1, <1>6, NextStage DEF Come, Counted
<1>8. \A ip \in b : ip \notin Come(1) /\ ip \notin unread
  BY <1>3 DEF Flow, Input
<1>9. Input'
  <2>1. \A ip \in IPs : ip \in unread' \/ Queued(ip)' \/ ip \in Come(1)'
    <3> SUFFICES ASSUME NEW ip \in IPs, Queued(ip), ip \notin b
                 PROVE  Queued(ip)'
      BY <1>1, <1>7 DEF Flow, Input
    <3>1. PICK k \in 1..Len(batches) : ip \in batches[k]
      BY DEF Queued
    <3>2. QED
      BY <1>4, <3>1 DEF Queued
  <2>2. \A ip \in IPs : ~(ip \in unread' /\ ip \in Come(1)')
    BY <1>1, <1>7, <1>8 DEF Flow, Input
  <2>3. ASSUME NEW k \in 1..Len(batches')
        PROVE  /\ \A ip \in batches'[k] : ip \notin unread' /\ ip \notin Come(1)'
               /\ \A j \in 1..Len(batches') : j # k => batches'[j] \cap batches'[k] = {}
    <3>1. k + 1 \in 1..Len(batches) /\ k + 1 # 1 /\ batches'[k] = batches[k + 1]
      BY <1>3
    <3>2. batches[k + 1] \cap b = {}
      BY <1>3, <3>1 DEF Flow, Input
    <3>3. \A ip \in batches'[k] : ip \notin unread' /\ ip \notin Come(1)'
      BY <1>1, <1>7, <3>1, <3>2 DEF Flow, Input
    <3>4. ASSUME NEW j \in 1..Len(batches'), j # k
          PROVE  batches'[j] \cap batches'[k] = {}
      <4>1. j + 1 \in 1..Len(batches) /\ j + 1 # k + 1 /\ batches'[j] = batches[j + 1]
        BY <1>3, <3>4
      <4>2. QED
        BY <3>1, <4>1 DEF Flow, Input
    <3>5. QED
      BY <3>3, <3>4
  <2>4. QED
    BY <2>1, <2>2, <2>3 DEF Input
<1>10. Once'
  BY <1>1 DEF Flow, Once
<1>11. \A i \in Stage \ {N} : Link(i)'
  <2> SUFFICES ASSUME NEW i \in Stage \ {N}
               PROVE  Link(i)'
    OBVIOUS
  <2>1. \A ip \in IPs : Passing(i, ip) => Passing(i, ip)'
    BY <1>1 DEF Passing
  <2>2. Link(i) /\ i + 1 \in Stage /\ i + 1 # 1 /\ reported[i] \subseteq IPs
    BY NextStage DEF Flow, BatchTypeOK, ExecTypeOK
  <2>3. QED
    BY <1>1, <1>7, <2>1, <2>2, LinkStays
<1>12. \A w \in Workers : Sent(w)'
  BY <1>1 DEF Phases, Sent
<1>13. \A i \in Stage : Waiting(i)' \cap Arrived(i)' = {}
  BY <1>6, <1>7, <1>8
<1>14. QED
  BY <1>1, <1>9, <1>10, <1>11, <1>12, <1>13 DEF Flow

(* The batch is queued for the stage it waits for. *)
LEMMA FlowStart ==
    ASSUME BatchTypeOK, Phases, Flow, StartPool
    PROVE  Flow'
<1>0. /\ chan \in [Stage -> SUBSET IPs] /\ probed \in [Stage -> SUBSET IPs]
      /\ current \in SUBSET IPs /\ at \in 1..(N + 1)
      /\ \A w \in Workers : StageOf[w] \in Stage
  BY StageFacts DEF BatchTypeOK, ExecTypeOK
<1>1. /\ mpc = "stage" /\ mpc' = "pool" /\ at' = at /\ at <= N /\ out' = {}
      /\ chan' = [chan EXCEPT ![at] = current]
      /\ UNCHANGED <<cur, probed, reported, processed, total, unread, batches>>
      /\ current # {}
      /\ pc' = [w \in Workers |-> IF StageOf[w] = at THEN "idle" ELSE pc[w]]
  BY DEF StartPool, countVars
<1>2. at \in Stage /\ \A i \in Stage : chan[i] = {}
  BY <1>0, <1>1, StageFacts DEF Phases, Stage
<1>3. /\ \A w \in Workers : pc[w] \in {"idle", "exited"} /\ pc'[w] \in {"idle", "exited"}
      /\ \A w \in Workers : StageOf[w] = at => pc'[w] = "idle"
  BY <1>1 DEF Phases
<1>4. \A i \in Stage : chan'[i] = IF i = at THEN current ELSE {}
  BY <1>0, <1>1, <1>2
<1>5. /\ \A i \in Stage : Waiting(i) = IF i = at THEN current ELSE {}
      /\ \A i \in Stage : Waiting(i)' = {}
  BY <1>0, <1>1 DEF Waiting
<1>6. \A i \in Stage : Arrived(i) = probed[i]
  BY <1>0, <1>2, <1>3 DEF Arrived, InHandOf
<1>7. \A i \in Stage : Arrived(i)' = IF i = at THEN probed[i] \cup current ELSE probed[i]
  BY <1>0, <1>1, <1>3, <1>4 DEF Arrived, InHandOf
<1>8. \A i \in Stage : Come(i)' = Come(i) /\ Counted(i)' = Counted(i)
  BY <1>1, <1>5, <1>6, <1>7 DEF Come, Counted
<1>9. Once'
  <2>1. current \cap probed[at] = {}
    BY <1>2, <1>5, <1>6 DEF Flow
  <2>2. QED
    BY <1>1, <1>3, <1>4, <2>1 DEF Flow, Once, Busy
<1>10. Input'
  BY <1>1, <1>8, NextStage DEF Flow, Input, Queued
<1>11. \A i \in Stage \ {N} : Link(i)'
  <2> SUFFICES ASSUME NEW i \in Stage \ {N}
               PROVE  Link(i)'
    OBVIOUS
  <2>1. \A ip \in IPs : ~Passing(i, ip)
    BY <1>3 DEF Passing
  <2>2. Link(i) /\ i + 1 \in Stage /\ reported[i] \subseteq IPs
    BY NextStage DEF Flow, BatchTypeOK, ExecTypeOK
  <2>3. QED
    BY <1>1, <1>8, <2>1, <2>2, LinkStays
<1>12. \A w \in Workers : Sent(w)'
  BY <1>1, <1>3 DEF Sent
<1>13. \A i \in Stage : Waiting(i)' \cap Arrived(i)' = {}
  BY <1>5
<1>14. QED
  BY <1>1, <1>9, <1>10, <1>11, <1>12, <1>13 DEF Flow

(* A worker's own steps pass an address on inside its stage. *)
LEMMA FlowWork ==
    ASSUME BatchTypeOK, InHand, Phases, Flow, Calm, NEW w \in Workers, StageWork(w)
    PROVE  Flow'
<1> DEFINE i == StageOf[w]
<1>0. /\ i \in Stage /\ \A v \in Workers : StageOf[v] \in Stage
      /\ chan \in [Stage -> SUBSET IPs] /\ reported \in [Stage -> SUBSET IPs]
      /\ probed \in [Stage -> SUBSET IPs]
      /\ pc \in [Workers -> {"idle", "select", "admit", "probe", "claim", "write",
                              "passed", "count", "limit", "fatal", "exited"}]
      /\ cur \in [Workers -> IPs \cup {NoIP}]
      /\ cause = "none" /\ ExecTypeOK /\ Once /\ Work(w)
      /\ mpc = "pool" /\ i = at
      /\ UNCHANGED <<mpc, at, current, out, feed, unread, batches>>
  BY StageFacts DEF BatchTypeOK, ExecTypeOK, Calm, Flow, StageWork, chainVars
<1>a. /\ \A v \in Workers : v # w => pc'[v] = pc[v] /\ cur'[v] = cur[v]
      /\ total' = total
  BY <1>0, OthersStay
<1>b. Once' /\ \A j \in Stage : Arrived(j)' = Arrived(j)
  BY <1>0, OnceWork, ArrivedWork
<1>c. \A j \in Stage : Waiting(j)' = Waiting(j) /\ Come(j)' = Come(j) /\ Counted(j)' = Counted(j)
  BY <1>0, <1>b DEF Waiting, Come, Counted
<1> USE DEF queueVars, workerVars, countVars, openVars, Goto
(* Where the worker goes. *)
<1>d. /\ pc[w] \in {"write", "passed", "fatal"} =>
           i = N \/ (pc'[w] \in {"passed", "fatal"} /\ cur'[w] = cur[w])
      /\ pc'[w] \in {"write", "passed"} => cur'[w] = cur[w]
           /\ (pc[w] = "write" \/ pc[w] = "claim")
      /\ pc'[w] = "limit" => i = N
      /\ pc'[w] = "exited" => chan[i] = {} /\ chan' = chan
  BY <1>0 DEF Work, Checkpoint, Receive, Admit, RunProbe, Claim, Write, AfterWrite,
     CtxDone, LimitReached, ResultLimit
<1>e. \A j \in Stage : \/ reported'[j] = reported[j]
                       \/ j = i /\ pc'[w] = "write" /\ cur'[w] = cur[w]
                            /\ reported'[j] = reported[j] \cup {cur[w]}
  <2>1. CASE Claim(w)
    BY <1>0, <2>1 DEF Claim
  <2>2. CASE ~Claim(w)
    BY <1>0, <2>2 DEF Work, Checkpoint, Receive, Admit, RunProbe, Write
  <2>3. QED
    BY <2>1, <2>2
<1>f. \A j \in Stage : chan'[j] \subseteq chan[j]
  BY <1>0 DEF Work, Checkpoint, Receive, Admit, RunProbe, Claim, Write
<1>1. \A j \in Stage \ {N} : Link(j)'
  <2> SUFFICES ASSUME NEW j \in Stage \ {N}
               PROVE  Link(j)'
    OBVIOUS
  <2>1. \A ip \in IPs : Passing(j, ip) => Passing(j, ip)'
    BY <1>a, <1>d DEF Passing
  <2>2. \A ip \in reported'[j] \ reported[j] : Passing(j, ip)'
    BY <1>e DEF Passing
  <2>3. reported[j] \subseteq reported'[j]
    BY <1>e
  <2>4. reported'[j] \subseteq IPs
    <3>1. reported' = reported \/ pc[w] = "claim"
      BY <1>0 DEF Work, Checkpoint, Receive, Admit, RunProbe, Claim, Write
    <3>2. pc[w] = "claim" => cur[w] \in IPs
      BY DEF InHand
    <3>3. QED
      BY <1>0, <1>e, <3>1, <3>2
  <2>5. Link(j) /\ j + 1 \in Stage
    BY NextStage DEF Flow
  <2>6. QED
    BY <1>a, <1>c, <2>1, <2>2, <2>3, <2>4, <2>5, LinkStays
<1>2. \A v \in Workers : Sent(v)'
  <2> SUFFICES ASSUME NEW v \in Workers
               PROVE  Sent(v)'
    OBVIOUS
  <2>1. Sent(v) /\ StageOf[v] \in Stage
    BY <1>0 DEF Flow
  <2>2. StageOf[v] # N => Come(StageOf[v] + 1)' = Come(StageOf[v] + 1)
    BY <1>c, <2>1, NextStage
  <2>3. CASE v # w
    BY <1>0, <1>a, <1>f, <2>1, <2>2, <2>3 DEF Sent
  <2>4. CASE v = w
    <3>1. pc'[w] \in {"write", "passed"} /\ i # N => cur[w] \notin Come(i + 1)
      <4>1. CASE pc[w] = "write"
        BY <2>1, <2>4, <4>1 DEF Sent
      <4>2. CASE pc[w] = "claim"
        <5>1. cur[w] \notin reported[i]
          BY <4>2 DEF Flow, Once
        <5>2. i # N => Come(i + 1) \subseteq reported[i]
          BY <1>0 DEF Flow, Link
        <5>3. QED
          BY <5>1, <5>2
      <4>3. QED
        BY <1>d, <4>1, <4>2
    <3>2. QED
      BY <1>0, <1>d, <2>2, <2>4, <3>1 DEF Sent
  <2>5. QED
    BY <2>3, <2>4
<1>3. Input'
  BY <1>0, <1>c, NextStage DEF Flow, Input, Queued
<1>4. \A j \in Stage : Waiting(j)' \cap Arrived(j)' = {}
  BY <1>b, <1>c DEF Flow
<1>5. QED
  BY <1>0, <1>b, <1>1, <1>2, <1>3, <1>4 DEF Flow

(* An address that passed goes to the input of the next pool. *)
LEMMA FlowPass ==
    ASSUME BatchTypeOK, InHand, Phases, Flow, NEW w \in Workers, PassAddress(w)
    PROVE  Flow'
<1> DEFINE c == cur[w]
<1>0. /\ at \in Stage /\ at \in Nat /\ \A v \in Workers : StageOf[v] \in Stage
      /\ reported \in [Stage -> SUBSET IPs]
      /\ pc \in [Workers -> {"idle", "select", "admit", "probe", "claim", "write",
                              "passed", "count", "limit", "fatal", "exited"}]
  <2>1. at \in 1..(N + 1) /\ at <= N
    BY DEF BatchTypeOK, PassAddress, Phases
  <2>2. QED
    BY <2>1, StageFacts DEF Stage, BatchTypeOK, ExecTypeOK
<1>1. /\ mpc = "pool" /\ StageOf[w] = at /\ pc[w] = "passed" /\ pc'[w] = "idle"
      /\ out' = out \cup {c} /\ c \in IPs
      /\ UNCHANGED <<mpc, at, cur, chan, probed, reported, processed, total, unread, batches>>
      /\ \A v \in Workers : v # w => pc'[v] = pc[v]
  BY <1>0 DEF PassAddress, InHand, Goto, queueVars, countVars
<1>2. c \in reported[at] /\ (at # N => c \notin Come(at + 1))
  BY <1>1 DEF Flow, Once, Sent
<1>3. \A k \in Stage : Arrived(k)' = Arrived(k)
  BY <1>1 DEF Arrived, InHandOf
<1>4. \A k \in Stage : Waiting(k)' = IF at + 1 = k THEN Waiting(k) \cup {c} ELSE Waiting(k)
  BY <1>0, <1>1 DEF Waiting
<1>5. \A k \in Stage : /\ Come(k)' = IF at + 1 = k THEN Come(k) \cup {c} ELSE Come(k)
                       /\ Counted(k)' = Counted(k)
  BY <1>1, <1>3, <1>4 DEF Come, Counted
<1>6. Once'
  BY <1>0, <1>1 DEF Flow, Once, Busy
<1>7. Input'
  <2>1. Come(1)' = Come(1)
    BY <1>0, <1>5, NextStage
  <2>2. QED
    BY <1>1, <2>1 DEF Flow, Input, Queued
<1>8. \A k \in Stage : Waiting(k)' \cap Arrived(k)' = {}
  <2> SUFFICES ASSUME NEW k \in Stage
               PROVE  Waiting(k)' \cap Arrived(k)' = {}
    OBVIOUS
  <2>1. CASE k = at + 1
    <3>1. at # N
      BY <1>0, <2>1, NextStage, StageFacts
    <3>2. c \notin Arrived(k)
      BY <1>2, <2>1, <3>1 DEF Come
    <3>3. QED
      BY <1>3, <1>4, <2>1, <3>2 DEF Flow
  <2>2. CASE k # at + 1
    BY <1>3, <1>4, <2>2 DEF Flow
  <2>3. QED
    BY <2>1, <2>2
<1>9. \A k \in Stage \ {N} : Link(k)'
  <2> SUFFICES ASSUME NEW k \in Stage \ {N}
               PROVE  Link(k)'
    OBVIOUS
  <2>1. Link(k) /\ k + 1 \in Stage /\ reported[k] \subseteq IPs
    BY <1>0, NextStage DEF Flow
  <2>2. CASE k # at
    <3>1. at + 1 # k + 1
      BY <1>0, <2>2, NextStage
    <3>2. Come(k + 1)' = Come(k + 1) /\ Counted(k + 1)' = Counted(k + 1)
      BY <1>5, <2>1, <3>1
    <3>3. \A ip \in IPs : Passing(k, ip) => Passing(k, ip)'
      BY <1>1, <2>2 DEF Passing
    <3>4. QED
      BY <1>1, <2>1, <3>2, <3>3, LinkStays
  <2>3. CASE k = at
    <3>1. Come(k + 1)' = Come(k + 1) \cup {c} /\ Counted(k + 1)' = Counted(k + 1)
      BY <1>5, <2>1, <2>3
    <3>2. \A ip \in reported[k] : ip # c /\ Passing(k, ip) => Passing(k, ip)'
      BY <1>1 DEF Passing
    <3>3. QED
      BY <1>1, <1>2, <2>1, <2>3, <3>1, <3>2 DEF Link
  <2>4. QED
    BY <2>2, <2>3
<1>10. \A v \in Workers : Sent(v)'
  <2> SUFFICES ASSUME NEW v \in Workers
               PROVE  Sent(v)'
    OBVIOUS
  <2>1. Sent(v) /\ StageOf[v] \in Stage
    BY <1>0 DEF Flow
  <2>2. CASE v = w
    BY <1>1, <2>2 DEF Sent
  <2>3. CASE v # w /\ pc[v] \in {"write", "passed"} /\ StageOf[v] # N
    <3>1. StageOf[v] = at
      BY <2>3 DEF Phases
    <3>2. cur[v] # c
      BY <1>1, <2>3, <3>1 DEF Flow, Once, Busy
    <3>3. Come(StageOf[v] + 1)' = Come(StageOf[v] + 1) \cup {c}
      <4>1. StageOf[v] \in Stage \ {N} /\ at + 1 = StageOf[v] + 1
        BY <2>1, <2>3, <3>1
      <4>2. StageOf[v] + 1 \in Stage
        BY <4>1, NextStage
      <4>3. QED
        BY <1>5, <4>1, <4>2
    <3>4. cur'[v] = cur[v] /\ pc'[v] = pc[v]
      BY <1>1, <2>3
    <3>5. QED
      BY <2>1, <2>3, <3>2, <3>3, <3>4 DEF Sent
  <2>4. CASE v # w /\ ~(pc[v] \in {"write", "passed"} /\ StageOf[v] # N)
    BY <1>1, <2>1, <2>4 DEF Sent
  <2>5. QED
    BY <2>2, <2>3, <2>4
<1>11. QED
  BY <1>1, <1>6, <1>7, <1>8, <1>9, <1>10 DEF Flow

(* A pool that nothing stopped has emptied its channel. *)
LEMMA PoolDone ==
    ASSUME Flow, mpc = "pool", at \in Stage, PoolExited(at)
    PROVE  chan[at] = {}
<1>1. PICK w \in Workers : StageOf[w] = at
  BY PoolsAssumption DEF Stage
<1>2. pc[w] = "exited"
  BY <1>1 DEF PoolExited, Pool
<1>3. QED
  BY <1>1, <1>2 DEF Flow, Sent

(* What the pool passed is the next stage's batch, and its total's.        *)
LEMMA FlowPoolEnds ==
    ASSUME BatchTypeOK, Phases, Flow, Calm, PoolEnds
    PROVE  Flow'
<1>0. /\ at \in Stage /\ at \in Nat /\ \A v \in Workers : StageOf[v] \in Stage
      /\ chan \in [Stage -> SUBSET IPs] /\ total \in [Stage -> Nat]
      /\ reported \in [Stage -> SUBSET IPs]
      /\ out \in SUBSET IPs
  <2>1. at \in 1..(N + 1) /\ at <= N
    BY DEF BatchTypeOK, PoolEnds, Phases
  <2>2. QED
    BY <2>1, StageFacts DEF Stage, BatchTypeOK, ExecTypeOK
<1>1. /\ mpc = "pool" /\ mpc' = "stage" /\ at' = at + 1 /\ current' = out
      /\ PoolExited(at) /\ chan' = [chan EXCEPT ![at] = {}]
      /\ total' = [i \in Stage |-> IF i = at + 1 THEN total[i] + Cardinality(out) ELSE total[i]]
      /\ UNCHANGED <<pc, cur, probed, reported, processed, unread, batches>>
  BY DEF Calm, PoolEnds, CauseIsError, workerVars
<1>2. chan' = chan
  BY <1>0, <1>1, PoolDone
<1>3. \A w \in Workers : pc[w] \in {"idle", "exited"}
  BY <1>1 DEF Phases, PoolExited, Pool
<1>4. \A k \in Stage : /\ Arrived(k)' = Arrived(k)
                       /\ Waiting(k) = IF at + 1 = k THEN out ELSE {}
                       /\ Waiting(k)' = Waiting(k)
  BY <1>1, <1>2 DEF Arrived, InHandOf, Waiting
<1>5. \A k \in Stage : /\ Come(k)' = Come(k) /\ Counted(k) = Arrived(k)
                       /\ Counted(k)' = Arrived(k) \cup Waiting(k)
  BY <1>1, <1>4 DEF Come, Counted
<1>6. Once'
  BY <1>1, <1>2 DEF Flow, Once
<1>7. Input'
  BY <1>1, <1>5, NextStage DEF Flow, Input, Queued
<1>8. \A k \in Stage \ {N} : Link(k)'
  <2> SUFFICES ASSUME NEW k \in Stage \ {N}
               PROVE  Link(k)'
    OBVIOUS
  <2>1. Link(k) /\ k + 1 \in Stage
    BY NextStage DEF Flow
  <2>2. \A ip \in IPs : Passing(k, ip) => Passing(k, ip)'
    BY <1>1 DEF Passing
  <2>3. total'[k + 1] = Cardinality(Counted(k + 1)')
    <3>1. total[k + 1] = Cardinality(Arrived(k + 1))
      BY <1>5, <2>1 DEF Link
    <3>2. CASE k = at
      <4>1. Waiting(k + 1) = out /\ out \cap Arrived(k + 1) = {}
        BY <1>4, <2>1, <3>2 DEF Flow
      <4>2. IsFiniteSet(out) /\ IsFiniteSet(Arrived(k + 1))
        BY <1>0, InputAssumption, FS_Subset DEF Arrived
      <4>3. Cardinality(Arrived(k + 1) \cup out) = Cardinality(Arrived(k + 1)) + Cardinality(out)
        <5>1. Cardinality(Arrived(k + 1) \cup out) =
                Cardinality(Arrived(k + 1)) + Cardinality(out) - Cardinality(Arrived(k + 1) \cap out)
          BY <4>2, FS_Union
        <5>2. Cardinality(Arrived(k + 1) \cap out) = 0
          <6>1. Arrived(k + 1) \cap out = {}
            BY <4>1
          <6>2. QED
            BY <6>1, FS_EmptySet
        <5>3. Cardinality(out) \in Nat /\ Cardinality(Arrived(k + 1)) \in Nat
          BY <4>2, FS_CardinalityType
        <5>4. QED
          BY <5>1, <5>2, <5>3
      <4>4. total'[k + 1] = total[k + 1] + Cardinality(out)
        BY <1>1, <2>1, <3>2
      <4>5. QED
        BY <1>5, <2>1, <3>1, <4>1, <4>3, <4>4
    <3>3. CASE k # at
      <4>1. at + 1 # k + 1
        BY <1>0, <3>3, NextStage
      <4>2. total'[k + 1] = total[k + 1] /\ Waiting(k + 1) = {}
        BY <1>1, <1>4, <2>1, <4>1
      <4>3. QED
        BY <1>5, <2>1, <3>1, <4>2
    <3>4. QED
      BY <3>2, <3>3
  <2>4. Come(k + 1)' = Come(k + 1) /\ reported[k]' = reported[k] /\ reported[k] \in SUBSET IPs
    BY <1>0, <1>1, <1>5, <2>1
  <2>5. \A ip \in reported[k] : ip \in Come(k + 1) \/ Passing(k, ip)'
    BY <2>1, <2>2, <2>4 DEF Link
  <2>6. QED
    BY <2>1, <2>3, <2>4, <2>5 DEF Link
<1>9. \A w \in Workers : Sent(w)'
  BY <1>1, <1>3 DEF Sent
<1>10. \A k \in Stage : Waiting(k)' \cap Arrived(k)' = {}
  BY <1>4 DEF Flow
<1>11. QED
  BY <1>1, <1>6, <1>7, <1>8, <1>9, <1>10 DEF Flow

(* No step of a scan that nothing has stopped loses an address. *)
LEMMA FlowStep ==
    BatchTypeOK /\ InHand /\ Phases /\ FlowKept /\ [Next]_vars => FlowKept'
<1> SUFFICES ASSUME BatchTypeOK, InHand, Phases, FlowKept, [Next]_vars, Calm'
             PROVE  Flow'
  BY DEF FlowKept
<1>0. /\ Calm /\ ~UserCancel /\ ~WatcherCancels /\ ~FeedCanceled
      /\ \A w \in Workers : ~WorkerError(w)
  BY CalmBefore
<1>1. Flow
  BY <1>0 DEF FlowKept
<1>2. CASE Build
  BY <1>1, <1>2, FlowBuild
<1>3. CASE Feed \/ TakeBatch \/ StartPool \/ PoolEnds
  BY <1>0, <1>1, <1>3, FlowFeed, FlowTake, FlowStart, FlowPoolEnds
<1>4. ASSUME NEW w \in Workers, PoolStep(w)
      PROVE  Flow'
  BY <1>0, <1>1, <1>4, FlowWork, FlowPass DEF PoolStep
<1>5. CASE BuildFails
  <2>1. /\ UNCHANGED <<unread, batches, feed, chan, probed, reported, processed, pc, cur, total>>
        /\ mpc = "build" /\ mpc' = "close"
    BY <1>5 DEF BuildFails, OpenStageFails, queueVars, workerVars, countVars
  <2>2. feed' # "ok" /\ \A i \in Stage : Waiting(i)' = Waiting(i)
    BY <2>1 DEF Waiting, Phases
  <2>3. QED
    BY <1>1, <2>1, <2>2, FlowStays
<1>6. CASE NoMoreBatches \/ FeedFails \/ LateWatcher \/ CloseNext \/ Return
  <2>1. /\ UNCHANGED <<unread, batches, chan, probed, reported, processed, pc, cur, total>>
        /\ \/ UNCHANGED <<mpc, at, current, out>> /\ mpc \notin {"close", "returned"}
           \/ /\ mpc \in {"next", "close"} /\ mpc' \in {"close", "returned"}
              /\ mpc = "next" => batches = <<>>
              /\ mpc = "close" => feed' = feed
    BY <1>6 DEF NoMoreBatches, FeedFails, LateWatcher, CloseNext, CloseStage, Return,
       execVars, queueVars, workerVars, countVars
  <2>2. /\ \A i \in Stage : Waiting(i)' = Waiting(i)
        /\ mpc = "pool" <=> mpc' = "pool"
        /\ mpc = "pool" => at' = at
        /\ mpc' = "build" => mpc = "build"
    BY <2>1 DEF Waiting
  <2>3. mpc' \in {"close", "returned"} /\ feed' = "ok" => batches = <<>>
    BY <1>1, <2>1 DEF Flow
  <2>4. QED
    BY <1>1, <2>1, <2>2, <2>3, FlowStays
<1>7. CASE BatchEnds
  <2>1. /\ UNCHANGED <<unread, batches, chan, probed, reported, processed, pc, cur, total>>
        /\ mpc = "stage" /\ mpc' = "next" /\ (at > N \/ current = {})
    BY <1>0, <1>7 DEF Calm, BatchEnds, CauseIsError, CtxDone, execVars
  <2>2. at \in 1..(N + 1)
    BY DEF BatchTypeOK
  <2>3. \A i \in Stage : Waiting(i) = {} /\ Waiting(i)' = {}
    BY <2>1, <2>2, StageFacts DEF Waiting
  <2>4. QED
    BY <1>1, <2>1, <2>3, FlowStays
<1>8. ASSUME NEW i \in Stage, FlushFails(i)
      PROVE  Flow'
  <2>1. /\ UNCHANGED <<unread, batches, chan, probed, reported, processed, pc, cur, total,
                       mpc, at, current, out, feed>>
        /\ mpc \notin {"close", "returned"}
    BY <1>8 DEF FlushFails, WriterFails, queueVars, workerVars, countVars, chainVars
  <2>2. \A j \in Stage : Waiting(j)' = Waiting(j)
    BY <2>1 DEF Waiting
  <2>3. QED
    BY <1>1, <2>1, <2>2, FlowStays
<1>9. CASE UNCHANGED vars
  <2>1. UNCHANGED <<unread, batches, chan, probed, reported, processed, pc, cur, total,
                    mpc, at, current, out, feed>>
    BY <1>9 DEF vars, execVars, chainVars
  <2>2. \A j \in Stage : Waiting(j)' = Waiting(j)
    BY <2>1 DEF Waiting
  <2>3. mpc' \in {"close", "returned"} /\ feed' = "ok" => batches = <<>>
    BY <1>1, <2>1 DEF Flow
  <2>4. QED
    BY <1>1, <2>1, <2>2, <2>3, FlowStays
<1>10. QED
  BY <1>0, <1>2, <1>3, <1>4, <1>5, <1>6, <1>7, <1>8, <1>9 DEF Next, MainStep

LEMMA TotalsStep ==
    BatchTypeOK /\ Phases /\ Totals /\ [Next]_vars => Totals'
<1> SUFFICES ASSUME BatchTypeOK, Phases, Totals, [Next]_vars
             PROVE  Totals'
  OBVIOUS
<1>0. total \in [Stage -> Nat] /\ at \in 1..(N + 1)
  BY DEF BatchTypeOK, ExecTypeOK
<1> USE NextStage, StageFacts DEF queueVars, workerVars, countVars, openVars, chainVars
<1>a. ASSUME total'[1] = total[1], mpc # "build", mpc' # "build",
             \/ feed' = feed /\ unread' = unread
             \/ mpc \in {"next", "stage", "pool"} /\ (feed' = "ok" => unread' = {}),
             mpc' \in {"next", "stage", "pool"} => mpc \in {"next", "stage", "pool"}
      PROVE  Totals'
  BY <1>a DEF Totals
<1>b. ASSUME UNCHANGED <<total, mpc, at, feed, unread>>
      PROVE  Totals'
  BY <1>b DEF Totals
<1>1. CASE UserCancel \/ WatcherCancels \/ LateWatcher \/ UNCHANGED vars
  BY <1>1, <1>b DEF UserCancel, WatcherCancels, LateWatcher, execVars, vars
<1>2. CASE Build
  <2>1. /\ mpc = "build" /\ feed' = feed /\ unread' = unread
        /\ total' = [total EXCEPT ![at] = IF at = 1 THEN Cardinality(IPs) ELSE 0]
        /\ IF at < N THEN at' = at + 1 /\ mpc' = "build" ELSE at' = 1 /\ mpc' = "next"
    BY <1>2 DEF Build, OpenStage
  <2>2. total'[1] = Cardinality(IPs)
    BY <1>0, <2>1 DEF Totals
  <2>3. QED
    BY <2>1, <2>2 DEF Totals
<1>3. CASE BuildFails
  BY <1>3 DEF BuildFails, OpenStageFails, Totals, Phases
<1>4. CASE NoMoreBatches \/ TakeBatch \/ BatchEnds \/ Return
  <2>1. /\ UNCHANGED <<total, feed, unread>> /\ mpc # "build" /\ mpc' # "build"
        /\ mpc' \in {"next", "stage", "pool"} => mpc \in {"next", "stage", "pool"}
    BY <1>4 DEF NoMoreBatches, TakeBatch, BatchEnds, Return, execVars
  <2>2. QED
    BY <1>a, <2>1
<1>5. CASE Feed \/ FeedCanceled \/ FeedFails
  <2>1. /\ UNCHANGED <<total, mpc>> /\ mpc \in {"next", "stage", "pool"}
        /\ feed' = "ok" => unread' = {}
    BY <1>5 DEF Feed, FeedCanceled, FeedFails, execVars
  <2>2. QED
    BY <1>a, <2>1
<1>6. CASE StartPool
  <2>1. UNCHANGED <<total, feed, unread>> /\ mpc = "stage" /\ mpc' = "pool"
    BY <1>6 DEF StartPool
  <2>2. QED
    BY <1>a, <2>1
<1>7. CASE PoolEnds
  <2>1. total'[1] = total[1]
    BY <1>0, <1>7 DEF PoolEnds
  <2>2. UNCHANGED <<feed, unread>> /\ mpc = "pool" /\ mpc' \in {"close", "stage"}
    BY <1>7 DEF PoolEnds
  <2>3. QED
    BY <1>a, <2>1, <2>2
<1>8. CASE CloseNext
  <2>1. UNCHANGED <<total, feed, unread, mpc>> /\ mpc = "close"
    BY <1>8 DEF CloseNext, CloseStage
  <2>2. QED
    BY <1>a, <2>1
<1>9. ASSUME NEW w \in Workers, PoolStep(w)
      PROVE  Totals'
  BY <1>9, <1>b DEF PoolStep, StageWork, Work, Checkpoint, Receive, Admit, RunProbe,
     Claim, Write, PassAddress, WorkerError
<1>10. ASSUME NEW i \in Stage, FlushFails(i)
       PROVE  Totals'
  BY <1>10, <1>b DEF FlushFails, WriterFails
<1>11. QED
  BY <1>1, <1>2, <1>3, <1>4, <1>5, <1>6, <1>7, <1>8, <1>9, <1>10 DEF Next, MainStep

-----------------------------------------------------------------------------
(***************************************************************************)
(* The inductive invariant.  That nothing is written after a close needs   *)
(* Phases and Together; that a scan is complete needs the flow of the      *)
(* batches; that a nil result has saved what it found needs Saved and      *)
(* Reported.                                                               *)
(***************************************************************************)
BatchInv ==
    /\ BatchTypeOK /\ InHand /\ OnlyClaimed /\ Together /\ Phases
    /\ FlowKept /\ Totals /\ Saved /\ Reported

LEMMA BatchInitially == Init => BatchInv
<1> SUFFICES ASSUME Init
             PROVE  BatchInv
  OBVIOUS
<1>0. /\ \A w \in Workers : pc[w] = "idle"
      /\ \A i \in Stage : /\ chan[i] = {} /\ probed[i] = {} /\ reported[i] = {}
                          /\ written[i] = {} /\ processed[i] = 0 /\ total[i] = 0
                          /\ succeeded[i] = 0 /\ writer[i] = "new" /\ probe[i] = "new"
      /\ mpc = "build" /\ at = 1 /\ feed = "reading" /\ unread = IPs /\ batches = <<>>
      /\ badWriters = {} /\ err = FALSE /\ result = "none"
  BY DEF Init, ExecInit
<1>1. BatchTypeOK
  <2>1. ExecTypeOK
    <3>1. /\ total \in [Stage -> Nat] /\ processed \in [Stage -> Nat]
          /\ succeeded \in [Stage -> Nat] /\ slot \in [Workers -> Nat]
      BY DEF Init, ExecInit
    <3>2. /\ chan \in [Stage -> SUBSET IPs] /\ probed \in [Stage -> SUBSET IPs]
          /\ reported \in [Stage -> SUBSET IPs]
          /\ written \in [Stage -> SUBSET IPs]
          /\ cur \in [Workers -> IPs \cup {NoIP}]
      BY DEF Init, ExecInit
    <3>3. /\ pc \in [Workers -> {"idle", "select", "admit", "probe", "claim",
                                 "write", "passed", "count", "limit", "fatal",
                                 "exited"}]
          /\ writer \in [Stage -> {"new", "open", "off", "failed", "closed"}]
          /\ probe \in [Stage -> {"new", "open", "closed"}]
      BY DEF Init, ExecInit
    <3>4. QED
      BY <3>1, <3>2, <3>3 DEF Init, ExecInit, ExecTypeOK
  <2>2. at \in 1..(N + 1)
    BY <1>0, StageFacts
  <2>3. batches \in Seq(SUBSET IPs)
    BY <1>0
  <2>4. QED
    BY <2>1, <2>2, <2>3 DEF Init, BatchTypeOK
<1>2. InHand
  BY <1>0 DEF InHand
<1>3. OnlyClaimed
  <2>1. \A i \in Stage : Cardinality(reported[i]) = 0 /\ succeeded[i] = 0
    BY <1>0, FS_EmptySet
  <2>2. QED
    BY <2>1, StageFacts DEF OnlyClaimed
<1>4. Together
  BY <1>0 DEF Together
<1>5. Phases
  BY <1>0, StageFacts DEF Phases
<1>6. Flow
  <2>1. Once
    BY <1>0, StageFacts, FS_EmptySet DEF Once, Busy
  <2>2. \A i \in Stage : Waiting(i) = {} /\ Arrived(i) = {} /\ Come(i) = {} /\ Counted(i) = {}
    BY <1>0 DEF Waiting, Arrived, InHandOf, Come, Counted
  <2>3. Input
    BY <1>0, <2>2, NextStage DEF Input
  <2>4. \A i \in Stage \ {N} : Link(i)
    <3> SUFFICES ASSUME NEW i \in Stage \ {N}
                 PROVE  Link(i)
      OBVIOUS
    <3>1. /\ i + 1 \in Stage /\ Come(i + 1) = {} /\ Counted(i + 1) = {}
          /\ total[i + 1] = 0 /\ reported[i] = {}
      BY <1>0, <2>2, NextStage
    <3>2. QED
      BY <3>1, FS_EmptySet DEF Link
  <2>5. \A w \in Workers : Sent(w)
    BY <1>0 DEF Sent
  <2>6. QED
    BY <1>0, <2>1, <2>2, <2>3, <2>4, <2>5 DEF Flow
<1>7. Totals
  BY <1>0 DEF Totals
<1>8. Saved
  BY <1>0 DEF Saved
<1>9. Reported
  BY <1>0 DEF Reported
<1>10. QED
  BY <1>1, <1>2, <1>3, <1>4, <1>5, <1>6, <1>7, <1>8, <1>9 DEF BatchInv, FlowKept

LEMMA BatchInvariant == Spec => []BatchInv
<1>1. BatchInv /\ [Next]_vars => BatchInv'
  BY TypeStep, OnlyClaimedStep, TogetherStep, PhasesStep, FlowStep, TotalsStep,
     SavedStep, ReportedStep DEF BatchInv
<1>2. QED
  BY <1>1, BatchInitially, PTL DEF Spec

(* Every variable of a batch scan keeps its type. *)
THEOREM BatchTypeCorrect == Spec => []BatchTypeOK
  BY BatchInvariant, PTL DEF BatchInv

(***************************************************************************)
(* A batch scan never reports more successes than MaxSuccessfulIPs,        *)
(* although the watcher that cancels for the limit may come late or never. *)
(***************************************************************************)
THEOREM BatchLimit == Spec => []LimitRespected
<1>1. BatchInv => LimitRespected
  <2> SUFFICES ASSUME BatchInv, Limit > 0
               PROVE  succeeded[N] <= Limit /\ Cardinality(reported[N]) <= Limit
    BY DEF LimitRespected
  <2>1. /\ succeeded[N] <= Limit /\ Cardinality(reported[N]) <= succeeded[N]
        /\ succeeded[N] \in Nat /\ reported[N] \in SUBSET IPs
    BY StageFacts DEF BatchInv, OnlyClaimed, BatchTypeOK, ExecTypeOK
  <2>2. Cardinality(reported[N]) \in Nat
    BY <2>1, InputAssumption, FS_Subset, FS_CardinalityType
  <2>3. QED
    BY <2>1, <2>2, StageFacts
<1>2. QED
  BY <1>1, BatchInvariant, PTL

(***************************************************************************)
(* No worker probes or writes with an executor that runBatch has not built *)
(* yet or has closed: it closes them when the last pool has ended.         *)
(***************************************************************************)
THEOREM BatchNoWriteAfterClose == Spec => []NoWriteAfterClose
<1>1. BatchInv => NoWriteAfterClose
  <2>1. BatchInv => DOMAIN pc = Workers
    BY DEF BatchInv, BatchTypeOK, ExecTypeOK
  <2> SUFFICES ASSUME BatchInv, NEW w \in Workers,
                      pc[w] \in {"probe", "claim", "write"}
               PROVE  writer[StageOf[w]] # "closed" /\ probe[StageOf[w]] = "open"
    BY <2>1 DEF NoWriteAfterClose
  <2>2. mpc = "pool"
    BY DEF BatchInv, Phases
  <2>3. probe[StageOf[w]] = "open"
    BY <2>2, StageFacts DEF BatchInv, Phases
  <2>4. QED
    BY <2>3, StageFacts DEF BatchInv, Together
<1>2. QED
  BY <1>1, BatchInvariant, PTL

(***************************************************************************)
(* However a batch scan ends, also when a stage could not be built, it     *)
(* leaves no writer and no probe open (closeExecutors, deferred).          *)
(***************************************************************************)
THEOREM BatchReleasedAtEnd == Spec => []ReleasedAtEnd
<1>1. BatchInv => ReleasedAtEnd
  BY DEF BatchInv, ReleasedAtEnd, Phases, Together, BatchTypeOK, ExecTypeOK
<1>2. QED
  BY <1>1, BatchInvariant, PTL

(***************************************************************************)
(* A batch scan that nobody stops leaves no address out, in whichever      *)
(* batch it was: the first stage probes the whole input, each other stage  *)
(* what the one before reported, and the totals count it (streamBatches,   *)
(* processBatch, runStageBatch).                                           *)
(***************************************************************************)
THEOREM BatchComplete == Spec => []Complete
<1>1. BatchInv => Complete
  <2> SUFFICES ASSUME BatchInv, mpc = "returned", cause = "none", feed = "ok", ~ending
               PROVE  /\ probed[1] = IPs
                      /\ \A i \in Stage \ {N} : probed[i + 1] = reported[i]
                      /\ \A i \in Stage : total[i] = processed[i]
    BY DEF Complete
  <2>0. /\ probed \in [Stage -> SUBSET IPs] /\ reported \in [Stage -> SUBSET IPs]
    BY DEF BatchInv, BatchTypeOK, ExecTypeOK
  <2>1. Flow /\ unread = {} /\ batches = <<>> /\ total[1] = Cardinality(IPs)
    BY DEF BatchInv, FlowKept, Calm, Totals, Flow
  <2>2. \A w \in Workers : pc[w] \in {"idle", "exited"}
    BY DEF BatchInv, Phases
  <2>3. \A i \in Stage : chan[i] = {}
    BY DEF BatchInv, Phases
  <2>4. \A i \in Stage : Come(i) = probed[i] /\ Counted(i) = probed[i]
    <3>1. \A i \in Stage : Arrived(i) = probed[i]
      BY <2>0, <2>2, <2>3 DEF Arrived, InHandOf
    <3>2. \A i \in Stage : Waiting(i) = {}
      BY DEF Waiting
    <3>3. QED
      BY <3>1, <3>2 DEF Come, Counted
  <2>5. probed[1] = IPs
    <3>1. Come(1) = probed[1] /\ probed[1] \in SUBSET IPs
      BY <2>0, <2>4, NextStage
    <3>2. Len(batches) = 0
      BY <2>1
    <3>3. \A ip \in IPs : ~Queued(ip)
      BY <3>2 DEF Queued
    <3>4. \A ip \in IPs : ip \in unread \/ Queued(ip) \/ ip \in Come(1)
      BY <2>1 DEF Flow, Input
    <3>5. QED
      BY <2>1, <3>1, <3>3, <3>4
  <2>6. ASSUME NEW i \in Stage \ {N}
        PROVE  /\ probed[i + 1] = reported[i]
               /\ total[i + 1] = processed[i + 1]
    <3>1. /\ Link(i) /\ i + 1 \in Stage
          /\ Come(i + 1) = probed[i + 1] /\ Counted(i + 1) = probed[i + 1]
      BY <2>1, <2>4, NextStage DEF Flow
    <3>2. \A ip \in IPs : ~Passing(i, ip)
      BY <2>2 DEF Passing
    <3>3. probed[i + 1] = reported[i]
      BY <2>0, <3>1, <3>2 DEF Link
    <3>4. total[i + 1] = Cardinality(probed[i + 1])
      BY <3>1 DEF Link
    <3>5. processed[i + 1] = Cardinality(probed[i + 1])
      BY <2>1, <3>1 DEF Flow, Once
    <3>6. QED
      BY <3>3, <3>4, <3>5
  <2>7. \A i \in Stage : total[i] = processed[i]
    <3> SUFFICES ASSUME NEW i \in Stage
                 PROVE  total[i] = processed[i]
      OBVIOUS
    <3>1. CASE i = 1
      BY <2>1, <2>5, <3>1 DEF Flow, Once
    <3>2. CASE i # 1
      <4>1. i - 1 \in Stage \ {N} /\ (i - 1) + 1 = i
        BY <3>2, NextStage
      <4>2. QED
        BY <2>6, <4>1
    <3>3. QED
      BY <3>1, <3>2
  <2>8. QED
    BY <2>5, <2>6, <2>7
<1>2. QED
  BY <1>1, BatchInvariant, PTL

-----------------------------------------------------------------------------
(* A batch scan that returns nil although the limit is not the cause has   *)
(* saved what it found.                                                    *)
LEMMA NilSaved ==
    ASSUME BatchInv, Return, result' = "nil", cause # "limit"
    PROVE  badWriters = {} /\ (ignoreErr \/ written[N] = reported[N])
<1>0. /\ badWriters \in SUBSET Stage /\ ignoreErr \in BOOLEAN
      /\ reported \in [Stage -> SUBSET IPs]
  BY DEF BatchInv, BatchTypeOK, ExecTypeOK
<1>1. mpc = "close" /\ ~err
  BY DEF Return
<1>2. \A i \in Stage : probe[i] # "open"
  <2>1. /\ \A i \in Stage : i >= at => probe[i] # "open"
        /\ \A i \in Stage : i < at => probe[i] # "open"
    BY <1>1 DEF Return, BatchInv, Phases
  <2>2. at \in 1..(N + 1)
    BY DEF BatchInv, BatchTypeOK
  <2>3. QED
    BY <2>1, <2>2, StageFacts
<1>3. badWriters = {}
  BY <1>0, <1>1, <1>2 DEF BatchInv, Together, Reported
<1>4. \A w \in Workers : pc[w] # "write"
  BY <1>1 DEF BatchInv, Phases
<1>5. ~ignoreErr => written[N] = reported[N]
  BY <1>0, <1>3, <1>4, StageFacts DEF BatchInv, Saved, Writing
<1>6. QED
  BY <1>0, <1>3, <1>5

(* A step of a worker finds or saves an address of the contract, or none.  *)
LEMMA WorkContract ==
    ASSUME BatchInv, NEW w \in Workers, StageWork(w)
    PROVE  [Contract!Next]_(Contract!contractVars)
<1>0. /\ result = "none" /\ result' = result /\ Work(w)
      /\ ExecTypeOK /\ InHand /\ OnlyClaimed /\ Saved
  BY DEF StageWork, chainVars, BatchInv, Reported, BatchTypeOK
<1>1. CASE Checkpoint(w) \/ Receive(w) \/ Admit(w) \/ RunProbe(w)
  BY <1>0, <1>1 DEF Checkpoint, Receive, Admit, RunProbe, countVars, openVars,
     Contract!contractVars
<1>2. CASE Claim(w)
  <2>1. CASE reported'[N] = reported[N]
    BY <1>0, <1>2, <2>1, ClaimLast DEF Contract!contractVars
  <2>2. CASE reported'[N] # reported[N]
    <3>1. PICK ip \in IPs \ reported[N] :
            /\ reported'[N] = reported[N] \cup {ip}
            /\ Limit > 0 => Cardinality(reported[N]) < Limit
      BY <1>0, <1>2, <2>2, ClaimLast
    <3>2. Contract!Cardinality(reported[N]) = Cardinality(reported[N])
      BY DEF Contract!Cardinality, Cardinality
    <3>3. Contract!Find(ip)
      BY <1>0, <1>2, <3>1, <3>2, ClaimLast DEF Contract!Find
    <3>4. QED
      BY <3>1, <3>3 DEF Contract!Next
  <2>3. QED
    BY <2>1, <2>2
<1>3. CASE Write(w)
  <2>1. CASE written'[N] = written[N]
    BY <1>0, <1>3, <2>1, WriteLast DEF Contract!contractVars
  <2>2. CASE written'[N] # written[N]
    <3>1. PICK ip \in IPs \cap reported[N] : written'[N] = written[N] \cup {ip}
      BY <1>0, <1>3, <2>2, WriteLast
    <3>2. Contract!Save(ip)
      BY <1>0, <1>3, <3>1, WriteLast DEF Contract!Save
    <3>3. QED
      BY <3>1, <3>2 DEF Contract!Next
  <2>3. QED
    BY <2>1, <2>2
<1>4. QED
  BY <1>0, <1>1, <1>2, <1>3 DEF Work

(* Every step of a batch scan is a step of the contract, none, or the nil  *)
(* at the limit.                                                           *)
LEMMA ContractStep ==
    BatchInv /\ [Next]_vars => [Contract!Next \/ NilAtLimit]_(Contract!contractVars)
<1> SUFFICES ASSUME BatchInv, [Next]_vars
             PROVE  [Contract!Next \/ NilAtLimit]_(Contract!contractVars)
  OBVIOUS
<1> USE DEF queueVars, workerVars, countVars, openVars, chainVars
<1>a. ASSUME UNCHANGED <<ignoreErr, reported, written, badWriters, result>>
      PROVE  [Contract!Next \/ NilAtLimit]_(Contract!contractVars)
  BY <1>a DEF Contract!contractVars
<1>b. ASSUME UNCHANGED <<ignoreErr, reported, written, result>>, badWriters' # {},
             result = "none"
      PROVE  [Contract!Next \/ NilAtLimit]_(Contract!contractVars)
  BY <1>b DEF Contract!Next, Contract!Lose
<1>1. CASE UserCancel \/ WatcherCancels \/ LateWatcher \/ UNCHANGED vars
  BY <1>1, <1>a DEF UserCancel, WatcherCancels, LateWatcher, execVars, vars
<1>2. CASE Build \/ BuildFails
  BY <1>2, <1>a DEF Build, BuildFails, OpenStage, OpenStageFails
<1>3. CASE NoMoreBatches \/ TakeBatch \/ BatchEnds \/ Feed \/ FeedCanceled \/ FeedFails
  BY <1>3, <1>a DEF NoMoreBatches, TakeBatch, BatchEnds, Feed, FeedCanceled, FeedFails,
     execVars
<1>4. CASE StartPool \/ PoolEnds
  BY <1>4, <1>a DEF StartPool, PoolEnds
<1>5. ASSUME NEW w \in Workers, PoolStep(w)
      PROVE  [Contract!Next \/ NilAtLimit]_(Contract!contractVars)
  <2>1. CASE StageWork(w)
    BY <2>1, WorkContract
  <2>2. CASE PassAddress(w) \/ WorkerError(w)
    BY <2>2, <1>a DEF PassAddress, WorkerError
  <2>3. QED
    BY <1>5, <2>1, <2>2 DEF PoolStep
<1>6. ASSUME NEW i \in Stage, FlushFails(i)
      PROVE  [Contract!Next \/ NilAtLimit]_(Contract!contractVars)
  <2>1. result = "none"
    BY <1>6 DEF FlushFails, BatchInv, Reported
  <2>2. QED
    BY <1>6, <1>b, <2>1 DEF FlushFails, WriterFails
<1>7. CASE CloseNext
  <2>1. result = "none"
    BY <1>7 DEF CloseNext, BatchInv, Reported
  <2>2. UNCHANGED <<ignoreErr, reported, written, result>>
        /\ (badWriters' = badWriters \/ badWriters' # {})
    BY <1>7 DEF CloseNext, CloseStage
  <2>3. QED
    BY <1>a, <1>b, <2>1, <2>2
<1>8. CASE Return
  <2>1. result = "none" /\ UNCHANGED <<ignoreErr, reported, written, badWriters>>
    BY <1>8 DEF Return, execVars, BatchInv, Reported
  <2>2. CASE result' = "error"
    <3>1. Contract!Finish
      BY <2>1, <2>2 DEF Contract!Finish
    <3>2. QED
      BY <3>1 DEF Contract!Next
  <2>3. CASE result' = "nil" /\ cause = "limit"
    BY <2>1, <2>3 DEF NilAtLimit
  <2>4. CASE result' = "nil" /\ cause # "limit"
    <3>1. badWriters = {} /\ (ignoreErr \/ written[N] = reported[N])
      BY <1>8, <2>4, NilSaved
    <3>2. Contract!Finish
      BY <2>1, <2>4, <3>1 DEF Contract!Finish
    <3>3. QED
      BY <3>2 DEF Contract!Next
  <2>5. QED
    BY <1>8, <2>2, <2>3, <2>4 DEF Return
<1>9. QED
  BY <1>1, <1>2, <1>3, <1>4, <1>5, <1>6, <1>7, <1>8 DEF Next, MainStep

(***************************************************************************)
(* A batch scan implements the contract of a scan (ScanContract) but for   *)
(* one end: when the limit is the cause it returns nil whatever its        *)
(* writers lost (RunScanWithChain, stopCause, closeExecutors).             *)
(***************************************************************************)
THEOREM BatchImplementsContract == Spec => KeepsContractToLimit
<1>1. Init => Contract!Init
  BY StageFacts DEF Init, ExecInit, Contract!Init
<1>2. QED
  BY <1>1, BatchInvariant, ContractStep, PTL DEF Spec, KeepsContractToLimit
=============================================================================
