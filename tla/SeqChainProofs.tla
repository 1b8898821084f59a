---------------------------- MODULE SeqChainProofs ----------------------------
(***************************************************************************)
(* The sequential pipeline for any number of stages, workers and           *)
(* addresses.  The inductive invariant SeqInv knows which stage is open    *)
(* (Phases), that the later ones were not touched (Untouched), what the    *)
(* earlier ones did with their input (Done), and where every address of    *)
(* the running one is (FlowKept).                                          *)
(***************************************************************************)
EXTENDS SeqChain, StageExecutorProofs

SeqTypeOK ==
    /\ ExecTypeOK
    /\ mpc \in {"stage", "pool", "close", "returned"}
    /\ at \in 1..(N + 1)
    /\ current \in SUBSET IPs
    /\ reader \in {"reading", "ok", "canceled", "error"}
    /\ unread \in SUBSET IPs
    /\ err \in BOOLEAN
    /\ user \in BOOLEAN
    /\ result \in {"none", "nil", "error"}

(* The executor of the stage is there; it is not there yet. *)
Running == mpc \in {"pool", "close"}
Before == mpc = "stage" \/ result = "nil"

(***************************************************************************)
(* Only the stage the loop is in is open, and only between its start and   *)
(* its close; its workers are at work until its pool ends.                 *)
(***************************************************************************)
Phases ==
    /\ Running => at <= N /\ probe[at] = "open"
    /\ \A i \in Stage : probe[i] = "open" => i = at /\ Running
    /\ \A w \in Workers : pc[w] \in {"idle", "exited"} \/ (mpc = "pool" /\ StageOf[w] = at)
    /\ \A w \in Workers : pc[w] = "exited" => StageOf[w] < at \/ (StageOf[w] = at /\ ~Before)
    /\ \A i \in eof : i < at \/ (i = at /\ ~Before /\ reader # "reading")
    /\ mpc = "close" => PoolExited(at) /\ reader # "reading" /\ (reader = "error" => err)
    /\ result # "none" <=> mpc = "returned"

(* The stages the loop has not reached are as they were. *)
Untouched ==
    \A i \in Stage : i > at \/ (i = at /\ Before) =>
       /\ writer[i] = "new" /\ probe[i] = "new" /\ chan[i] = {}
       /\ probed[i] = {} /\ reported[i] = {} /\ written[i] = {}
       /\ total[i] = 0 /\ processed[i] = 0

-----------------------------------------------------------------------------

(* Every step of a sequential scan keeps the types. *)
LEMMA TypeStep ==
    SeqTypeOK /\ InHand /\ Phases /\ [Next]_vars => SeqTypeOK' /\ InHand'
<1> SUFFICES ASSUME SeqTypeOK, InHand, Phases, [Next]_vars
             PROVE  SeqTypeOK' /\ InHand'
  OBVIOUS
<1>0. ExecTypeOK
  BY DEF SeqTypeOK
<1> USE StageFacts DEF SeqTypeOK, chainVars
<1>1. CASE UserCancel
  <2>1. ExecTypeOK' /\ InHand'
    BY <1>1 DEF UserCancel, Cancel, ExecTypeOK, InHand, queueVars, workerVars, countVars, openVars
  <2>2. QED
    BY <1>1, <2>1 DEF UserCancel
<1>2. CASE LoopEnds \/ PoolEnds
  <2>1. ExecTypeOK' /\ InHand'
    BY <1>2 DEF LoopEnds, PoolEnds, ExecTypeOK, InHand, execVars
  <2>2. (cause = "fatal" \/ reader = "error") \in BOOLEAN
    OBVIOUS
  <2>3. QED
    BY <1>2, <2>1, <2>2 DEF LoopEnds, PoolEnds
<1>3. CASE StartStage
  <2>1. at \in Stage /\ Cardinality(current) \in Nat
    BY <1>3, InputAssumption, FS_Subset, FS_CardinalityType DEF StartStage, Stage
  <2>2. ExecTypeOK' /\ InHand'
    BY <1>0, <1>3, <2>1, ExecTypeOpen DEF StartStage
  <2>3. QED
    BY <1>3, <2>2 DEF StartStage
<1>4. CASE StartStageFails
  <2>1. at \in Stage
    BY <1>4 DEF StartStageFails, Stage
  <2>2. ExecTypeOK' /\ InHand'
    BY <1>0, <1>4, <2>1, ExecTypeOpen DEF StartStageFails
  <2>3. QED
    BY <1>4, <2>2 DEF StartStageFails
<1>5. CASE Read
  <2>1. PICK ip \in unread : /\ unread' = unread \ {ip}
                             /\ chan' = [chan EXCEPT ![at] = @ \cup {ip}]
    BY <1>5 DEF Read
  <2>2. chan' \in [Stage -> SUBSET IPs]
    BY <2>1 DEF ExecTypeOK
  <2>3. ExecTypeOK' /\ InHand'
    BY <1>5, <2>2 DEF Read, ExecTypeOK, InHand, workerVars, countVars, openVars
  <2>4. QED
    BY <1>5, <2>1, <2>3 DEF Read
<1>6. CASE ReadEnd \/ ReadFails
  <2>1. eof' \in SUBSET Stage
    <3>1. at \in Stage
      BY <1>6 DEF ReadEnd, ReadFails, Phases, Running, Stage
    <3>2. QED
      BY <1>6, <3>1 DEF ReadEnd, ReadFails, ExecTypeOK
  <2>2. ExecTypeOK' /\ InHand'
    BY <1>6, <2>1 DEF ReadEnd, ReadFails, ExecTypeOK, InHand, workerVars, countVars, openVars
  <2>3. QED
    BY <1>6, <2>2 DEF ReadEnd, ReadFails
<1>7. ASSUME NEW w \in Workers, StageWork(w)
      PROVE  SeqTypeOK' /\ InHand'
  <2>1. ExecTypeOK' /\ InHand'
    BY <1>0, <1>7, ExecTypeWork DEF StageWork
  <2>2. QED
    BY <1>7, <2>1 DEF StageWork
<1>8. ASSUME NEW w \in Workers, Passed(w) \/ StopAtLimit(w) \/ StopOnFatal(w)
      PROVE  SeqTypeOK' /\ InHand'
  <2>1. ExecTypeOK' /\ InHand'
    BY <1>8 DEF Passed, StopAtLimit, StopOnFatal, Cancel, Goto, ExecTypeOK, InHand,
       queueVars, countVars, openVars
  <2>2. QED
    BY <1>8, <2>1 DEF Passed, StopAtLimit, StopOnFatal
<1>9. CASE FlushFails
  <2>1. at \in Stage
    BY <1>9 DEF FlushFails, Phases, Running, Stage
  <2>2. ExecTypeOK' /\ InHand'
    BY <1>0, <1>9, <2>1, ExecTypeOpen DEF FlushFails
  <2>3. QED
    BY <1>9, <2>2 DEF FlushFails
<1>10. CASE CloseCurrent
  <2>1. at \in Stage /\ at + 1 \in 1..(N + 1)
    BY <1>10 DEF CloseCurrent, Phases, Running, Stage
  <2>2. ExecTypeOK' /\ InHand'
    BY <1>0, <1>10, <2>1, ExecTypeOpen DEF CloseCurrent
  <2>3. \A c \in ReadBack(at) : c \in SUBSET IPs
    <3>1. written[at] \in SUBSET IPs
      BY <2>1 DEF ExecTypeOK
    <3>2. QED
      BY <3>1 DEF ReadBack
  <2>4. QED
    BY <1>10, <2>1, <2>2, <2>3 DEF CloseCurrent
<1>11. CASE UNCHANGED vars
  BY <1>11 DEF vars, ExecTypeOK, InHand, execVars
<1>12. QED
  BY <1>1, <1>2, <1>3, <1>4, <1>5, <1>6, <1>7, <1>8, <1>9, <1>10, <1>11
     DEF Next, MainStep, PoolStep

LEMMA OnlyClaimedStep ==
    SeqTypeOK /\ OnlyClaimed /\ [Next]_vars => OnlyClaimed'
<1> SUFFICES ASSUME SeqTypeOK, OnlyClaimed, [Next]_vars
             PROVE  OnlyClaimed'
  OBVIOUS
<1> USE DEF queueVars, workerVars, countVars, openVars, chainVars
<1>1. ASSUME NEW w \in Workers, PoolStep(w)
      PROVE  OnlyClaimed'
  <2>1. CASE Work(w) /\ Claim(w)
    BY <2>1, ClaimStep DEF SeqTypeOK
  <2>2. CASE Checkpoint(w) \/ Receive(w) \/ Admit(w) \/ RunProbe(w) \/ Write(w)
             \/ Passed(w) \/ StopAtLimit(w) \/ StopOnFatal(w)
    BY <2>2, NoClaim DEF Checkpoint, Receive, Admit, RunProbe, Write, Passed,
       StopAtLimit, StopOnFatal
  <2>3. QED
    BY <1>1, <2>1, <2>2 DEF PoolStep, StageWork, Work
<1>2. CASE UserCancel \/ Read \/ ReadEnd \/ ReadFails
  BY <1>2, NoClaim DEF UserCancel, Read, ReadEnd, ReadFails
<1>3. CASE StartStage \/ StartStageFails \/ CloseCurrent \/ FlushFails
  BY <1>3, NoClaim DEF StartStage, OpenStage, StartStageFails, OpenStageFails, CloseCurrent,
     CloseStage, FlushFails, WriterFails
<1>4. CASE LoopEnds \/ PoolEnds \/ UNCHANGED vars
  BY <1>4, NoClaim DEF LoopEnds, PoolEnds, execVars, vars
<1>5. QED
  BY <1>1, <1>2, <1>3, <1>4 DEF Next, MainStep

-----------------------------------------------------------------------------
(* Which steps touch a stage's writer and probe. *)
LEMMA OpenOnly ==
    [Next]_vars =>
       \/ UNCHANGED <<writer, probe, badWriters, ignoreErr>>
       \/ StartStage \/ StartStageFails \/ FlushFails \/ CloseCurrent
<1> SUFFICES ASSUME [Next]_vars
             PROVE  \/ UNCHANGED <<writer, probe, badWriters, ignoreErr>>
                    \/ StartStage \/ StartStageFails \/ FlushFails \/ CloseCurrent
  OBVIOUS
<1> USE DEF openVars
<1>1. CASE UserCancel \/ Read \/ ReadEnd \/ ReadFails
  BY <1>1 DEF UserCancel, Read, ReadEnd, ReadFails
<1>2. CASE \E w \in Workers : PoolStep(w)
  BY <1>2 DEF PoolStep, StageWork, Work, Checkpoint, Receive, Admit, RunProbe, Claim,
     Write, Passed, StopAtLimit, StopOnFatal
<1>3. CASE LoopEnds \/ PoolEnds \/ UNCHANGED vars
  BY <1>3 DEF LoopEnds, PoolEnds, execVars, vars
<1>4. QED
  BY <1>1, <1>2, <1>3 DEF Next, MainStep

(* Opening, failing and closing a stage keep writer and probe together. *)
LEMMA TogetherStep ==
    SeqTypeOK /\ Phases /\ Untouched /\ Together /\ [Next]_vars => Together'
<1> SUFFICES ASSUME SeqTypeOK, Phases, Untouched, Together, [Next]_vars
             PROVE  Together'
  OBVIOUS
<1>0. /\ writer \in [Stage -> {"new", "open", "off", "failed", "closed"}]
      /\ probe \in [Stage -> {"new", "open", "closed"}]
      /\ at \in 1..(N + 1)
  BY DEF SeqTypeOK, ExecTypeOK
<1>1. CASE UNCHANGED <<writer, probe>>
  BY <1>1 DEF Together
<1>2. CASE StartStage
  BY <1>0, <1>2 DEF StartStage, OpenStage, Together
<1>3. CASE StartStageFails
  <2>1. mpc = "stage" /\ at \in Stage
    BY <1>0, <1>3, StageFacts DEF StartStageFails, Stage
  <2>2. probe[at] = "new"
    BY <2>1 DEF Untouched, Before
  <2>3. /\ probe' = probe
        /\ writer' = writer \/ writer' = [writer EXCEPT ![at] = "closed"]
    BY <1>3 DEF StartStageFails, OpenStageFails
  <2>4. QED
    BY <1>0, <2>2, <2>3 DEF Together
<1>4. CASE CloseCurrent
  BY <1>0, <1>4 DEF CloseCurrent, CloseStage, Together
<1>5. CASE FlushFails
  BY <1>0, <1>5 DEF FlushFails, WriterFails, Together
<1>6. QED
  BY <1>1, <1>2, <1>3, <1>4, <1>5, OpenOnly

(* The steps of the running pool: where its workers go. *)
LEMMA PoolMoves ==
    ASSUME SeqTypeOK, Phases, NEW w \in Workers, PoolStep(w)
    PROVE  /\ mpc = "pool" /\ StageOf[w] = at
           /\ UNCHANGED <<chainVars, openVars, eof, total>>
           /\ \A v \in Workers : v # w => pc'[v] = pc[v] /\ cur'[v] = cur[v]
           /\ \A i \in Stage : i # at => /\ chan'[i] = chan[i] /\ probed'[i] = probed[i]
                                         /\ reported'[i] = reported[i]
                                         /\ written'[i] = written[i]
                                         /\ processed'[i] = processed[i]
<1>1. mpc = "pool" /\ StageOf[w] = at
  BY DEF PoolStep, StageWork, Passed, StopAtLimit, StopOnFatal, Phases
<1>2. CASE StageWork(w)
  <2>1. Work(w) /\ UNCHANGED chainVars /\ ExecTypeOK
    BY <1>2 DEF StageWork, SeqTypeOK
  <2>2. /\ UNCHANGED <<openVars, eof, total>>
        /\ \A v \in Workers : v # w => pc'[v] = pc[v] /\ cur'[v] = cur[v]
    BY <2>1, OthersStay
  <2>3. \A i \in Stage : i # at => /\ chan'[i] = chan[i] /\ probed'[i] = probed[i]
                                   /\ reported'[i] = reported[i]
                                   /\ written'[i] = written[i]
                                   /\ processed'[i] = processed[i]
    <3>1. /\ chan \in [Stage -> SUBSET IPs] /\ probed \in [Stage -> SUBSET IPs]
          /\ reported \in [Stage -> SUBSET IPs] /\ written \in [Stage -> SUBSET IPs]
          /\ processed \in [Stage -> Nat]
      BY <2>1 DEF ExecTypeOK
    <3>2. QED
      BY <1>1, <2>1, <3>1 DEF Work, Checkpoint, Receive, Admit, RunProbe, Claim, Write,
         queueVars, countVars
  <2>4. QED
    BY <1>1, <2>1, <2>2, <2>3
<1>3. CASE Passed(w) \/ StopAtLimit(w) \/ StopOnFatal(w)
  <2>1. /\ UNCHANGED <<queueVars, cur, countVars, openVars, chainVars>>
        /\ \E l \in {"idle", "exited"} : pc' = [pc EXCEPT ![w] = l]
    BY <1>3 DEF Passed, StopAtLimit, StopOnFatal, Goto
  <2>2. pc \in [Workers -> {"idle", "select", "admit", "probe", "claim", "write",
                             "passed", "count", "limit", "fatal", "exited"}]
    BY DEF SeqTypeOK, ExecTypeOK
  <2>3. QED
    BY <1>1, <2>1, <2>2 DEF queueVars, countVars
<1>4. QED
  BY <1>2, <1>3 DEF PoolStep

(***************************************************************************)
(* The stages follow each other: one is started when the one before is     *)
(* closed.                                                                 *)
(***************************************************************************)
LEMMA PhasesStep ==
    SeqTypeOK /\ Phases /\ Untouched /\ [Next]_vars => Phases'
<1> SUFFICES ASSUME SeqTypeOK, Phases, Untouched, [Next]_vars
             PROVE  Phases'
  OBVIOUS
<1>0. /\ probe \in [Stage -> {"new", "open", "closed"}]
      /\ pc \in [Workers -> {"idle", "select", "admit", "probe", "claim", "write",
                              "passed", "count", "limit", "fatal", "exited"}]
      /\ at \in 1..(N + 1) /\ eof \in SUBSET Stage
      /\ result \in {"none", "nil", "error"}
  BY DEF SeqTypeOK, ExecTypeOK
<1> USE StageFacts DEF queueVars, workerVars, countVars, openVars
<1>a. ASSUME UNCHANGED <<mpc, at, reader, err, result, eof, pc, probe>>
      PROVE  Phases'
  BY <1>a DEF Phases, Running, Before, PoolExited
<1>1. CASE UserCancel \/ Read \/ FlushFails \/ UNCHANGED vars
  BY <1>1, <1>a DEF UserCancel, Read, FlushFails, WriterFails, execVars, chainVars, vars
<1>2. CASE LoopEnds
  <2>1. /\ mpc = "stage" /\ mpc' = "returned" /\ result' \in {"nil", "error"}
        /\ UNCHANGED <<at, reader, eof, pc, probe>>
    BY <1>2 DEF LoopEnds, execVars
  <2>2. QED
    BY <2>1 DEF Phases, Running, Before, PoolExited
<1>3. CASE StartStage
  <2>1. /\ mpc = "stage" /\ mpc' = "pool" /\ at <= N /\ at \in Stage
        /\ probe' = [probe EXCEPT ![at] = "open"]
        /\ UNCHANGED <<at, eof, pc, err, result>>
    BY <1>0, <1>3 DEF StartStage, OpenStage, Stage
  <2>2. /\ \A i \in eof : i < at
        /\ \A w \in Workers : pc[w] \in {"idle", "exited"} /\ (pc[w] = "exited" => StageOf[w] < at)
        /\ \A i \in Stage : probe[i] # "open"
        /\ result = "none"
    BY <1>0, <2>1 DEF Phases, Running, Before
  <2>3. \A i \in Stage : probe'[i] = "open" => i = at
    BY <1>0, <2>1, <2>2
  <2>4. probe'[at] = "open"
    BY <1>0, <2>1
  <2>5. QED
    BY <2>1, <2>2, <2>3, <2>4 DEF Phases, Running, Before, PoolExited
<1>4. CASE StartStageFails
  <2>1. /\ mpc = "stage" /\ mpc' = "returned" /\ result' = "error"
        /\ UNCHANGED <<at, reader, eof, pc, probe>>
    BY <1>4 DEF StartStageFails, OpenStageFails
  <2>2. QED
    BY <2>1 DEF Phases, Running, Before, PoolExited
<1>5. CASE ReadEnd \/ ReadFails
  <2>1. /\ mpc = "pool" /\ reader' # "reading" /\ eof' = eof \cup {at}
        /\ UNCHANGED <<mpc, at, err, result, pc, probe>>
    BY <1>5 DEF ReadEnd, ReadFails
  <2>2. result = "none"
    BY <1>0, <2>1 DEF Phases
  <2>3. QED
    BY <2>1, <2>2 DEF Phases, Running, Before, PoolExited
<1>6. ASSUME NEW w \in Workers, PoolStep(w)
      PROVE  Phases'
  <2>1. /\ mpc = "pool" /\ StageOf[w] = at
        /\ UNCHANGED <<mpc, at, reader, err, result, eof, probe>>
        /\ \A v \in Workers : v # w => pc'[v] = pc[v]
    BY <1>6, PoolMoves DEF chainVars
  <2>2. result = "none"
    BY <1>0, <2>1 DEF Phases
  <2>3. QED
    BY <2>1, <2>2 DEF Phases, Running, Before
<1>7. CASE PoolEnds
  <2>1. /\ mpc = "pool" /\ mpc' = "close" /\ PoolExited(at) /\ reader # "reading"
        /\ err' = (cause = "fatal" \/ reader = "error")
        /\ UNCHANGED <<at, reader, result, eof, pc, probe>>
    BY <1>7 DEF PoolEnds, execVars
  <2>2. \A w \in Workers : pc[w] \in {"idle", "exited"}
    BY <2>1 DEF Phases, PoolExited, Pool
  <2>3. PoolExited(at)'
    BY <2>1 DEF PoolExited
  <2>4. result = "none"
    BY <1>0, <2>1 DEF Phases
  <2>5. QED
    BY <2>1, <2>2, <2>3, <2>4 DEF Phases, Running, Before
<1>8. CASE CloseCurrent
  <2>1. /\ mpc = "close" /\ UNCHANGED <<reader, eof, pc>>
        /\ probe' = [probe EXCEPT ![at] = "closed"]
        /\ \/ mpc' = "returned" /\ result' = "error" /\ at' = at
           \/ mpc' = "stage" /\ result' = result /\ at' = at + 1
    BY <1>8 DEF CloseCurrent, CloseStage
  <2>2. \A i \in Stage : probe'[i] # "open"
    BY <1>0, <2>1 DEF Phases
  <2>3. result = "none" /\ \A w \in Workers : pc[w] \in {"idle", "exited"}
    BY <1>0, <2>1 DEF Phases
  <2>4. CASE mpc' = "returned"
    BY <2>1, <2>2, <2>3, <2>4 DEF Phases, Running, Before
  <2>5. CASE mpc' = "stage"
    <3>1. \A j \in Nat : j < at \/ j = at => j < at'
      BY <1>0, <2>1, <2>5
    <3>2. /\ \A i \in eof : i < at'
          /\ \A w \in Workers : pc[w] = "exited" => StageOf[w] < at'
      BY <1>0, <3>1 DEF Phases
    <3>3. QED
      BY <2>1, <2>2, <2>3, <2>5, <3>2 DEF Phases, Running, Before
  <2>6. QED
    BY <2>1, <2>4, <2>5
<1>9. QED
  BY <1>1, <1>2, <1>3, <1>4, <1>5, <1>6, <1>7, <1>8 DEF Next, MainStep

(* A step changes nothing of a stage the loop has not reached. *)
LEMMA UntouchedStep ==
    SeqTypeOK /\ Phases /\ Untouched /\ [Next]_vars => Untouched'
<1> SUFFICES ASSUME SeqTypeOK, Phases, Untouched, [Next]_vars
             PROVE  Untouched'
  OBVIOUS
<1>0. /\ probe \in [Stage -> {"new", "open", "closed"}]
      /\ writer \in [Stage -> {"new", "open", "off", "failed", "closed"}]
      /\ chan \in [Stage -> SUBSET IPs] /\ total \in [Stage -> Nat]
      /\ at \in 1..(N + 1) /\ at' \in 1..(N + 1)
  <2>1. SeqTypeOK /\ at \in 1..(N + 1)
    BY DEF SeqTypeOK
  <2>2. at' = at \/ CloseCurrent
    BY DEF Next, MainStep, UserCancel, LoopEnds, StartStage, StartStageFails, PoolEnds,
       Read, ReadEnd, ReadFails, FlushFails, PoolStep, StageWork, Passed, StopAtLimit,
       StopOnFatal, chainVars, vars
  <2>3. CloseCurrent => at' = at \/ (at' = at + 1 /\ at <= N)
    BY DEF CloseCurrent, Phases, Running
  <2>4. at' \in 1..(N + 1)
    BY <2>1, <2>2, <2>3, StageFacts
  <2>5. QED
    BY <2>1, <2>4 DEF SeqTypeOK, ExecTypeOK
<1> USE StageFacts DEF queueVars, workerVars, countVars, openVars
(* What is not reached after the step was not reached before. *)
<1>a. ASSUME \A i \in Stage : i > at' \/ (i = at' /\ Before') =>
               /\ i > at \/ (i = at /\ Before)
               /\ writer'[i] = writer[i] /\ probe'[i] = probe[i] /\ chan'[i] = chan[i]
               /\ probed'[i] = probed[i] /\ reported'[i] = reported[i]
               /\ written'[i] = written[i] /\ total'[i] = total[i]
               /\ processed'[i] = processed[i]
      PROVE  Untouched'
  BY <1>a DEF Untouched
<1>1. CASE UserCancel \/ ReadEnd \/ ReadFails \/ LoopEnds \/ PoolEnds \/ UNCHANGED vars
  <2>1. /\ UNCHANGED <<at, writer, probe, chan, probed, reported, written, total, processed>>
        /\ Before' => Before
    BY <1>1 DEF UserCancel, ReadEnd, ReadFails, LoopEnds, PoolEnds, Before, execVars,
       chainVars, vars
  <2>2. QED
    BY <1>a, <2>1
<1>2. CASE StartStage
  <2>1. /\ at' = at /\ ~Before'
        /\ UNCHANGED <<chan, probed, reported, written, processed>>
        /\ \A i \in Stage : i # at => /\ writer'[i] = writer[i] /\ probe'[i] = probe[i]
                                      /\ total'[i] = total[i]
    <3>1. result' = "none" /\ mpc' = "pool"
      BY <1>2 DEF StartStage, Phases, SeqTypeOK
    <3>2. QED
      BY <1>0, <1>2, <3>1 DEF StartStage, OpenStage, Before
  <2>2. QED
    BY <1>0, <1>a, <2>1
<1>3. CASE StartStageFails
  <2>1. /\ at' = at /\ ~Before'
        /\ UNCHANGED <<chan, probed, reported, written, total, processed, probe>>
        /\ \A i \in Stage : i # at => writer'[i] = writer[i]
    BY <1>0, <1>3 DEF StartStageFails, OpenStageFails, Before
  <2>2. QED
    BY <1>0, <1>a, <2>1
<1>4. CASE Read
  <2>1. /\ at' = at /\ (Before' => Before)
        /\ UNCHANGED <<writer, probe, probed, reported, written, total, processed>>
        /\ \A i \in Stage : i # at => chan'[i] = chan[i]
        /\ ~Before
    <3>1. result = "none" /\ mpc = "pool"
      BY <1>4 DEF Read, Phases, SeqTypeOK
    <3>2. QED
      BY <1>0, <1>4, <3>1 DEF Read, Before
  <2>2. QED
    BY <1>0, <1>a, <2>1
<1>5. CASE FlushFails
  <2>1. result = "none" /\ mpc = "pool"
    BY <1>5 DEF FlushFails, Phases, SeqTypeOK
  <2>2. /\ at' = at /\ ~Before'
        /\ UNCHANGED <<chan, probed, reported, written, total, processed, probe>>
        /\ \A i \in Stage : i # at => writer'[i] = writer[i]
    BY <1>0, <1>5, <2>1 DEF FlushFails, WriterFails, Before, chainVars
  <2>3. QED
    BY <1>0, <1>a, <2>2
<1>6. ASSUME NEW w \in Workers, PoolStep(w)
      PROVE  Untouched'
  <2>1. result = "none" /\ mpc = "pool"
    BY <1>6, PoolMoves DEF Phases, SeqTypeOK
  <2>2. /\ at' = at /\ ~Before' /\ UNCHANGED <<writer, probe, total>>
        /\ \A i \in Stage : i # at => /\ chan'[i] = chan[i] /\ probed'[i] = probed[i]
                                      /\ reported'[i] = reported[i]
                                      /\ written'[i] = written[i]
                                      /\ processed'[i] = processed[i]
    BY <1>6, <2>1, PoolMoves DEF Before, chainVars
  <2>3. \A i \in Stage : i > at' \/ (i = at' /\ Before') => i > at /\ i # at
    BY <1>0, <2>2
  <2>4. QED
    BY <1>a, <2>2, <2>3
<1>7. CASE CloseCurrent
  <2>1. /\ UNCHANGED <<chan, probed, reported, written, total, processed>>
        /\ \A i \in Stage : i # at => writer'[i] = writer[i] /\ probe'[i] = probe[i]
        /\ (at' = at /\ ~Before') \/ at' = at + 1
    BY <1>0, <1>7 DEF CloseCurrent, CloseStage, Before
  <2>2. \A i \in Stage : i > at' \/ (i = at' /\ Before') => i > at
    BY <1>0, <2>1
  <2>3. QED
    BY <1>0, <1>a, <2>1, <2>2
<1>8. QED
  BY <1>1, <1>2, <1>3, <1>4, <1>5, <1>6, <1>7 DEF Next, MainStep

-----------------------------------------------------------------------------
(* A writer that lost results has failed and is open, or the scan has      *)
(* ended with an error.                                                    *)
Reported == \A i \in badWriters : writer[i] = "failed" \/ result = "error"

LEMMA SavedStep ==
    SeqTypeOK /\ InHand /\ Phases /\ Together /\ Saved /\ [Next]_vars => Saved'
<1> SUFFICES ASSUME SeqTypeOK, InHand, Phases, Together, Saved, [Next]_vars
             PROVE  Saved'
  OBVIOUS
<1>0. ExecTypeOK
  BY DEF SeqTypeOK
<1>a. ASSUME UNCHANGED <<pc, cur, reported, written, writer, badWriters, ignoreErr>>
      PROVE  Saved'
  BY <1>a DEF Saved, Writing
<1> USE DEF queueVars, workerVars, countVars, openVars
<1>1. CASE UserCancel \/ Read \/ ReadEnd \/ ReadFails
  BY <1>1, <1>a DEF UserCancel, Read, ReadEnd, ReadFails
<1>2. CASE LoopEnds \/ PoolEnds \/ UNCHANGED vars
  BY <1>2, <1>a DEF LoopEnds, PoolEnds, execVars, vars
<1>3. CASE StartStage
  <2>1. at \in Stage /\ Cardinality(current) \in Nat
    BY <1>3, InputAssumption, FS_Subset, FS_CardinalityType DEF StartStage, SeqTypeOK, Stage
  <2>2. QED
    BY <1>0, <1>3, <2>1, SavedOpen DEF StartStage
<1>4. CASE StartStageFails
  <2>1. at \in Stage
    BY <1>4 DEF StartStageFails, SeqTypeOK, Stage
  <2>2. QED
    BY <1>0, <1>4, <2>1, SavedOpen DEF StartStageFails
<1>5. CASE FlushFails \/ CloseCurrent
  <2>1. at \in Stage
    BY <1>5 DEF FlushFails, CloseCurrent, Phases, Running, SeqTypeOK, Stage
  <2>2. WriterFails(at) \/ \E e \in BOOLEAN : CloseStage(at, e)
    BY <1>5 DEF FlushFails, CloseCurrent
  <2>3. QED
    BY <1>0, <2>1, <2>2, SavedOpen
<1>6. ASSUME NEW w \in Workers, StageWork(w)
      PROVE  Saved'
  <2>1. writer[StageOf[w]] \in {"open", "off", "failed"}
    <3>1. StageOf[w] \in Stage /\ probe[StageOf[w]] = "open"
      BY <1>6, StageFacts DEF StageWork, Phases, Running
    <3>2. QED
      BY <3>1 DEF Together
  <2>2. QED
    BY <1>0, <1>6, <2>1, SavedWork DEF StageWork
<1>7. ASSUME NEW w \in Workers, Passed(w) \/ StopAtLimit(w) \/ StopOnFatal(w)
      PROVE  Saved'
  <2>1. /\ pc[w] # "write" /\ UNCHANGED <<cur, reported, written, openVars>>
        /\ \E l \in {"idle", "exited"} : pc' = [pc EXCEPT ![w] = l]
    BY <1>7 DEF Passed, StopAtLimit, StopOnFatal, Goto
  <2>2. QED
    BY <1>0, <2>1, SavedGoto
<1>8. QED
  BY <1>1, <1>2, <1>3, <1>4, <1>5, <1>6, <1>7 DEF Next, MainStep, PoolStep

LEMMA ReportedStep ==
    SeqTypeOK /\ Phases /\ Untouched /\ Reported /\ [Next]_vars => Reported'
<1> SUFFICES ASSUME SeqTypeOK, Phases, Untouched, Reported, [Next]_vars
             PROVE  Reported'
  OBVIOUS
<1>0. /\ writer \in [Stage -> {"new", "open", "off", "failed", "closed"}]
      /\ badWriters \in SUBSET Stage /\ at \in 1..(N + 1)
      /\ result \in {"none", "nil", "error"}
  BY DEF SeqTypeOK, ExecTypeOK
<1>1. CASE UNCHANGED <<writer, badWriters>> /\ ~LoopEnds
  <2>1. result' = result \/ result' = "error"
    BY <1>1 DEF Next, MainStep, UserCancel, StartStage, StartStageFails, PoolEnds,
       CloseCurrent, Read, ReadEnd, ReadFails, FlushFails, PoolStep, StageWork, Passed,
       StopAtLimit, StopOnFatal, chainVars, vars
  <2>2. QED
    BY <1>1, <2>1 DEF Reported
<1>2. CASE LoopEnds
  <2>1. mpc = "stage" /\ result = "none" /\ UNCHANGED <<writer, badWriters>>
    BY <1>0, <1>2 DEF LoopEnds, Phases, execVars
  <2>2. QED
    BY <2>1 DEF Reported
<1>3. CASE StartStage \/ StartStageFails
  <2>1. at \in Stage /\ writer[at] = "new"
    BY <1>0, <1>3 DEF StartStage, StartStageFails, Untouched, Before, Stage
  <2>2. /\ UNCHANGED badWriters
        /\ \A i \in Stage : i # at => writer'[i] = writer[i]
        /\ result' = result \/ result' = "error"
    BY <1>0, <1>3 DEF StartStage, StartStageFails, OpenStage, OpenStageFails, openVars
  <2>3. QED
    BY <1>0, <2>1, <2>2 DEF Reported
<1>4. CASE FlushFails
  <2>1. at \in Stage
    BY <1>0, <1>4 DEF FlushFails, Phases, Running, Stage
  <2>2. QED
    BY <1>0, <1>4, <2>1 DEF FlushFails, WriterFails, chainVars, Reported
<1>5. CASE CloseCurrent
  <2>1. mpc = "close" /\ result = "none" /\ at \in Stage
    BY <1>0, <1>5 DEF CloseCurrent, Phases, Running, Stage
  <2>2. PICK e \in BOOLEAN : CloseStage(at, e) /\ (e => result' = "error")
    BY <1>5 DEF CloseCurrent
  <2>3. result' = "error" \/ (result' = result /\ badWriters' = badWriters /\ writer[at] # "failed")
    BY <1>5, <2>2 DEF CloseCurrent, CloseStage
  <2>4. \A i \in Stage : i # at => writer'[i] = writer[i]
    BY <1>0, <2>2 DEF CloseStage
  <2>5. QED
    BY <1>0, <2>1, <2>3, <2>4 DEF Reported
<1>6. QED
  BY <1>1, <1>2, <1>3, <1>4, <1>5, OpenOnly

-----------------------------------------------------------------------------
(***************************************************************************)
(* The flow of the running stage: what its input file held is still to be  *)
(* read, or has come to the stage, and none of it twice; a worker leaves   *)
(* only when there is no more.                                             *)
(***************************************************************************)
Flow ==
    /\ Once
    /\ Running =>
         /\ total[at] = Cardinality(current)
         /\ \A ip \in IPs : ip \in current <=> ip \in unread \/ ip \in Arrived(at)
         /\ \A ip \in IPs : ~(ip \in unread /\ ip \in Arrived(at))
         /\ unread = {} \/ reader \in {"reading", "error"}
         /\ \A w \in Workers : pc[w] = "exited" /\ StageOf[w] = at => at \in eof /\ chan[at] = {}

FlowKept == cause = "none" => Flow

(* Nothing that was stopped goes on as if it had not been. *)
LEMMA CalmBefore ==
    [Next]_vars /\ cause' = "none" =>
       /\ cause = "none" /\ ~UserCancel
       /\ \A w \in Workers : ~StopAtLimit(w) /\ ~StopOnFatal(w)
<1> SUFFICES ASSUME [Next]_vars, cause' = "none"
             PROVE  /\ cause = "none" /\ ~UserCancel
                    /\ \A w \in Workers : ~StopAtLimit(w) /\ ~StopOnFatal(w)
  OBVIOUS
<1>1. ~UserCancel /\ \A w \in Workers : ~StopAtLimit(w) /\ ~StopOnFatal(w)
  BY DEF UserCancel, StopAtLimit, StopOnFatal, Cancel
<1>2. cause = "none"
  <2>1. CASE MainStep
    BY <2>1 DEF MainStep, LoopEnds, StartStage, StartStageFails, PoolEnds, CloseCurrent,
       OpenStage, OpenStageFails, CloseStage, execVars
  <2>2. CASE Read \/ ReadEnd \/ ReadFails \/ FlushFails
    BY <2>2 DEF Read, ReadEnd, ReadFails, FlushFails, WriterFails
  <2>3. CASE \E w \in Workers : StageWork(w) \/ Passed(w)
    BY <2>3 DEF StageWork, Passed, Work, Checkpoint, Receive, Admit, RunProbe, Claim, Write
  <2>4. CASE UNCHANGED vars
    BY <2>4 DEF vars, execVars
  <2>5. QED
    BY <1>1, <2>1, <2>2, <2>3, <2>4 DEF Next, PoolStep
<1>3. QED
  BY <1>1, <1>2

(* The start of a stage, to which nothing has come yet. *)
LEMMA FlowStart ==
    ASSUME SeqTypeOK, Phases, Untouched, Flow, StartStage
    PROVE  Flow'
<1>0. at \in 1..(N + 1) /\ total \in [Stage -> Nat]
  BY DEF SeqTypeOK, ExecTypeOK
<1>1. /\ mpc = "stage" /\ mpc' = "pool" /\ at \in Stage /\ at' = at
      /\ unread' = current /\ current' = current /\ reader' = "reading"
      /\ UNCHANGED <<chan, probed, reported, processed, pc, cur>>
      /\ total' = [total EXCEPT ![at] = Cardinality(current)]
  BY <1>0 DEF StartStage, OpenStage, Stage, queueVars, workerVars
<1>2. Once'
  BY <1>1 DEF Flow, Once
<1>3. \A w \in Workers : pc[w] = "idle" \/ StageOf[w] # at
  BY <1>0, <1>1, StageFacts DEF Phases, Before
<1>4. Arrived(at)' = {}
  <2>1. chan[at] = {} /\ probed[at] = {}
    BY <1>1 DEF Untouched, Before
  <2>2. QED
    BY <1>1, <1>3, <2>1 DEF Arrived, InHandOf
<1>5. total'[at] = Cardinality(current)
  BY <1>0, <1>1
<1>6. QED
  BY <1>1, <1>2, <1>3, <1>4, <1>5 DEF Flow

(* An address read goes to the channel of the stage. *)
LEMMA FlowRead ==
    ASSUME SeqTypeOK, Phases, Flow, Read
    PROVE  Flow'
<1>0. /\ at \in Stage /\ \A w \in Workers : StageOf[w] \in Stage
      /\ chan \in [Stage -> SUBSET IPs] /\ unread \in SUBSET IPs
  BY StageFacts DEF Read, Phases, Running, SeqTypeOK, ExecTypeOK, Stage
<1>1. PICK ip \in unread : /\ unread' = unread \ {ip}
                           /\ chan' = [chan EXCEPT ![at] = @ \cup {ip}]
  BY DEF Read
<1>2. /\ mpc = "pool" /\ reader = "reading"
      /\ UNCHANGED <<mpc, at, current, reader, eof, probed, reported, processed, total, pc, cur>>
  BY DEF Read, workerVars, countVars
<1>3. ip \in IPs /\ ip \notin Arrived(at)
  BY <1>0, <1>2 DEF Flow, Running
<1>4. Once'
  <2>1. /\ ip \notin probed[at]
        /\ \A w \in Workers : StageOf[w] = at /\ pc[w] \in {"admit", "probe"} => cur[w] # ip
    BY <1>3 DEF Arrived, InHandOf
  <2>2. \A i \in Stage : chan'[i] = IF i = at THEN chan[at] \cup {ip} ELSE chan[i]
    BY <1>0, <1>1
  <2>3. QED
    BY <1>0, <1>2, <2>1, <2>2 DEF Flow, Once
<1>5. \A x \in IPs : x \in Arrived(at)' <=> x \in Arrived(at) \/ x = ip
  BY <1>0, <1>1, <1>2, <1>3 DEF Arrived, InHandOf
<1>6. \A w \in Workers : pc[w] = "exited" => StageOf[w] # at
  <2>1. at \notin eof
    BY <1>0, <1>2, StageFacts DEF Phases
  <2>2. QED
    BY <1>2, <2>1 DEF Flow, Running
<1>7. QED
  BY <1>0, <1>1, <1>2, <1>3, <1>4, <1>5, <1>6 DEF Flow, Running

(* A worker of the running stage loses nothing of it. *)
LEMMA FlowWork ==
    ASSUME SeqTypeOK, InHand, Phases, Flow, cause = "none",
           NEW w \in Workers, StageWork(w) \/ Passed(w)
    PROVE  Flow'
<1>0. /\ mpc = "pool" /\ StageOf[w] = at /\ at \in Stage /\ ExecTypeOK
      /\ UNCHANGED <<mpc, at, current, reader, unread, eof, total>>
      /\ \A v \in Workers : v # w => pc'[v] = pc[v] /\ cur'[v] = cur[v]
      /\ pc \in [Workers -> {"idle", "select", "admit", "probe", "claim", "write",
                              "passed", "count", "limit", "fatal", "exited"}]
  BY PoolMoves, StageFacts DEF PoolStep, chainVars, SeqTypeOK, ExecTypeOK
<1>1. Once' /\ Arrived(at)' = Arrived(at)
  <2>1. CASE StageWork(w)
    BY <1>0, <2>1, OnceWork, ArrivedWork DEF Flow, StageWork
  <2>2. CASE Passed(w)
    <3>1. /\ pc[w] = "passed" /\ pc'[w] = "idle"
          /\ UNCHANGED <<cur, chan, probed, reported, processed>>
      BY <1>0, <2>2 DEF Passed, Goto, queueVars, countVars
    <3>2. Once'
      BY <1>0, <3>1 DEF Flow, Once, Busy
    <3>3. Arrived(at)' = Arrived(at)
      BY <1>0, <3>1 DEF Arrived, InHandOf
    <3>4. QED
      BY <3>2, <3>3
  <2>3. QED
    BY <2>1, <2>2
<1>2. /\ chan[at] = {} => chan'[at] = {}
      /\ pc'[w] = "exited" => at \in eof /\ chan'[at] = {}
  <2>1. chan \in [Stage -> SUBSET IPs]
    BY <1>0 DEF ExecTypeOK
  <2>2. pc[w] # "exited"
    BY DEF StageWork, Work, Checkpoint, Receive, Admit, RunProbe, Claim, Write, Passed
  <2>3. CASE Receive(w)
    BY <1>0, <2>1, <2>3 DEF Receive, Goto, CtxDone
  <2>4. CASE ~Receive(w)
    <3>1. UNCHANGED chan
      BY <2>4 DEF StageWork, Work, Checkpoint, Admit, RunProbe, Claim, Write, Passed,
         queueVars
    <3>2. pc'[w] # "exited"
      BY <1>0, <2>4 DEF StageWork, Work, Checkpoint, Admit, RunProbe, Claim, Write, Passed,
         AfterWrite, Goto, CtxDone
    <3>3. QED
      BY <3>1, <3>2
  <2>5. QED
    BY <2>3, <2>4
<1>3. QED
  BY <1>0, <1>1, <1>2 DEF Flow, Running

(* No step of a scan that nothing has stopped loses an address. *)
LEMMA FlowStep ==
    SeqTypeOK /\ InHand /\ Phases /\ Untouched /\ FlowKept /\ [Next]_vars => FlowKept'
<1> SUFFICES ASSUME SeqTypeOK, InHand, Phases, Untouched, FlowKept, [Next]_vars,
                    cause' = "none"
             PROVE  Flow'
  BY DEF FlowKept
<1>0. /\ cause = "none" /\ ~UserCancel
      /\ \A w \in Workers : ~StopAtLimit(w) /\ ~StopOnFatal(w)
  BY CalmBefore
<1>1. Flow
  BY <1>0 DEF FlowKept
<1> USE DEF queueVars, workerVars, countVars, openVars
<1>a. ASSUME UNCHANGED <<chan, probed, reported, processed, pc, cur>>, ~Running'
      PROVE  Flow'
  BY <1>1, <1>a DEF Flow, Once
<1>b. ASSUME UNCHANGED <<chan, probed, reported, processed, pc, cur, at, total, current, unread>>,
             Running, eof \subseteq eof', unread = {} \/ reader' \in {"reading", "error"}
      PROVE  Flow'
  <2>1. Once' /\ Arrived(at)' = Arrived(at)
    BY <1>1, <1>b DEF Flow, Once, Arrived, InHandOf
  <2>2. QED
    BY <1>1, <1>b, <2>1 DEF Flow
<1>2. CASE LoopEnds \/ StartStageFails
  BY <1>2, <1>a DEF LoopEnds, StartStageFails, OpenStageFails, Running, execVars
<1>3. CASE CloseCurrent
  <2>1. UNCHANGED <<chan, probed, reported, processed, pc, cur>> /\ mpc' \in {"stage", "returned"}
    BY <1>3 DEF CloseCurrent, CloseStage
  <2>2. QED
    BY <1>a, <2>1 DEF Running
<1>4. CASE StartStage
  BY <1>1, <1>4, FlowStart
<1>5. CASE Read
  BY <1>1, <1>5, FlowRead
<1>6. CASE ReadEnd \/ ReadFails
  <2>1. /\ UNCHANGED <<chan, probed, reported, processed, pc, cur, at, total, current, unread>>
        /\ Running /\ eof \subseteq eof' /\ (unread = {} \/ reader' \in {"reading", "error"})
    BY <1>0, <1>6 DEF ReadEnd, ReadFails, Running, CtxDone
  <2>2. QED
    BY <1>b, <2>1
<1>7. CASE FlushFails \/ PoolEnds
  <2>1. /\ UNCHANGED <<chan, probed, reported, processed, pc, cur, at, total, current, unread,
                       eof, reader>>
        /\ Running
    BY <1>7 DEF FlushFails, WriterFails, PoolEnds, Running, execVars, chainVars
  <2>2. unread = {} \/ reader \in {"reading", "error"}
    BY <1>1, <2>1 DEF Flow
  <2>3. QED
    BY <1>b, <2>1, <2>2
<1>8. ASSUME NEW w \in Workers, PoolStep(w)
      PROVE  Flow'
  BY <1>0, <1>1, <1>8, FlowWork DEF PoolStep
<1>9. CASE UNCHANGED vars
  <2>1. UNCHANGED <<chan, probed, reported, processed, pc, cur, at, total, current, unread,
                    eof, reader, mpc>>
    BY <1>9 DEF vars, execVars, chainVars
  <2>2. CASE Running
    <3>1. unread = {} \/ reader \in {"reading", "error"}
      BY <1>1, <2>2 DEF Flow
    <3>2. QED
      BY <1>b, <2>1, <2>2, <3>1
  <2>3. CASE ~Running
    BY <1>a, <2>1, <2>3 DEF Running
  <2>4. QED
    BY <2>2, <2>3
<1>10. QED
  BY <1>0, <1>2, <1>3, <1>4, <1>5, <1>6, <1>7, <1>8, <1>9 DEF Next, MainStep

-----------------------------------------------------------------------------
(***************************************************************************)
(* The input of a stage is what the one before wrote, and the stages that  *)
(* are through have probed all of it.                                      *)
(***************************************************************************)
InputOf(i) == IF i = 1 THEN IPs ELSE written[i - 1]

Handed == ~ignoreErr => current = InputOf(at)

Done ==
    cause = "none" /\ ~ignoreErr =>
        \A i \in Stage : i < at => probed[i] = InputOf(i) /\ total[i] = processed[i]

Ended == result = "nil" /\ cause = "none" => at > N \/ current = {}

(* A stage that nothing stopped is closed when all its input is probed. *)
LEMMA StageDone ==
    ASSUME SeqTypeOK, Phases, Flow, Handed, ~ignoreErr, mpc = "close", ~err
    PROVE  probed[at] = InputOf(at) /\ total[at] = processed[at]
<1>0. /\ at \in Stage /\ probed[at] \in SUBSET IPs /\ current \in SUBSET IPs
      /\ current = InputOf(at) /\ Running
  BY DEF Phases, Running, SeqTypeOK, ExecTypeOK, Stage, Handed
<1>1. unread = {}
  BY <1>0 DEF Phases, Flow
<1>2. \A w \in Workers : pc[w] \in {"idle", "exited"}
  BY DEF Phases
<1>3. chan[at] = {}
  <2>1. PICK w \in Workers : StageOf[w] = at
    BY <1>0, PoolsAssumption DEF Stage
  <2>2. pc[w] = "exited"
    BY <2>1 DEF Phases, PoolExited, Pool
  <2>3. QED
    BY <1>0, <2>1, <2>2 DEF Flow
<1>4. Arrived(at) = probed[at]
  BY <1>0, <1>2, <1>3 DEF Arrived, InHandOf
<1>5. probed[at] = current
  BY <1>0, <1>1, <1>4 DEF Flow
<1>6. total[at] = Cardinality(current) /\ processed[at] = Cardinality(probed[at])
  BY <1>0 DEF Flow, Once
<1>7. QED
  BY <1>0, <1>5, <1>6

LEMMA DoneStep ==
    /\ SeqTypeOK /\ InHand /\ Phases /\ FlowKept /\ Handed /\ Done /\ Ended
    /\ [Next]_vars
    => Handed' /\ Done' /\ Ended'
<1> SUFFICES ASSUME SeqTypeOK, InHand, Phases, FlowKept, Handed, Done, Ended, [Next]_vars
             PROVE  Handed' /\ Done' /\ Ended'
  OBVIOUS
<1>0. /\ total \in [Stage -> Nat] /\ at \in 1..(N + 1) /\ ignoreErr' = ignoreErr
      /\ cause' = "none" => cause = "none"
  <2>1. ignoreErr' = ignoreErr
    BY OpenOnly DEF StartStage, OpenStage, StartStageFails, OpenStageFails, FlushFails,
       WriterFails, CloseCurrent, CloseStage
  <2>2. QED
    BY <2>1, CalmBefore DEF SeqTypeOK, ExecTypeOK
<1> USE DEF queueVars, workerVars, countVars, openVars
(* A step within a stage that leaves what the earlier ones did. *)
<1>a. ASSUME UNCHANGED <<at, current>>,
             \A i \in Stage : i < at => /\ probed'[i] = probed[i] /\ total'[i] = total[i]
                                        /\ processed'[i] = processed[i]
                                        /\ written'[i] = written[i]
      PROVE  Handed' /\ Done'
  <2>1. \A i \in 1..(N + 1) : i <= at => InputOf(i)' = InputOf(i)
    <3> SUFFICES ASSUME NEW i \in 1..(N + 1), i <= at
                 PROVE  InputOf(i)' = InputOf(i)
      OBVIOUS
    <3>1. i # 1 => i - 1 \in Stage /\ i - 1 < at
      BY <1>0, StageFacts DEF Stage
    <3>2. QED
      BY <1>a, <3>1 DEF InputOf
  <2>2. Handed'
    <3>1. InputOf(at)' = InputOf(at)
      BY <1>0, <1>a, <2>1
    <3>2. QED
      BY <1>0, <1>a, <3>1 DEF Handed
  <2>3. Done'
    <3> SUFFICES ASSUME cause' = "none", ~ignoreErr', NEW i \in Stage, i < at'
                 PROVE  probed'[i] = InputOf(i)' /\ total'[i] = processed'[i]
      BY DEF Done
    <3>1. i \in 1..(N + 1) /\ i <= at /\ i < at
      BY <1>0, <1>a, StageFacts DEF Stage
    <3>2. InputOf(i)' = InputOf(i)
      BY <2>1, <3>1
    <3>3. QED
      BY <1>0, <1>a, <3>1, <3>2 DEF Done
  <2>4. QED
    BY <2>2, <2>3
<1>1. CASE UserCancel \/ Read \/ ReadEnd \/ ReadFails \/ FlushFails
  <2>1. UNCHANGED <<at, current, probed, total, processed, written, result>>
    BY <1>1 DEF UserCancel, Read, ReadEnd, ReadFails, FlushFails, WriterFails, chainVars
  <2>2. QED
    BY <1>0, <1>a, <2>1 DEF Ended
<1>2. CASE LoopEnds
  <2>1. UNCHANGED <<at, current, probed, total, processed, written, cause>>
        /\ (cause # "none" \/ at > N \/ current = {})
    BY <1>2 DEF LoopEnds, execVars, CtxDone
  <2>2. QED
    BY <1>a, <2>1 DEF Ended
<1>3. CASE PoolEnds \/ UNCHANGED vars
  <2>1. UNCHANGED <<at, current, probed, total, processed, written, cause, result>>
    BY <1>3 DEF PoolEnds, execVars, vars, chainVars
  <2>2. QED
    BY <1>a, <2>1 DEF Ended
<1>4. CASE StartStage \/ StartStageFails
  <2>1. /\ UNCHANGED <<at, current, probed, processed, written, cause>>
        /\ \A i \in Stage : i # at => total'[i] = total[i]
        /\ result' = result \/ result' = "error"
    BY <1>0, <1>4 DEF StartStage, StartStageFails, OpenStage, OpenStageFails
  <2>2. \A i \in Stage : i < at => total'[i] = total[i]
    BY <1>0, <2>1, StageFacts
  <2>3. QED
    BY <1>a, <2>1, <2>2 DEF Ended
<1>5. ASSUME NEW w \in Workers, PoolStep(w)
      PROVE  Handed' /\ Done' /\ Ended'
  <2>1. /\ UNCHANGED <<at, current, total, result>> /\ mpc = "pool"
        /\ \A i \in Stage : i # at => /\ probed'[i] = probed[i] /\ written'[i] = written[i]
                                      /\ processed'[i] = processed[i]
    BY <1>5, PoolMoves DEF chainVars
  <2>2. \A i \in Stage : i < at => i # at
    BY <1>0, StageFacts
  <2>3. Ended'
    BY <2>1 DEF Phases, Ended
  <2>4. QED
    BY <1>a, <2>1, <2>2, <2>3
<1>6. CASE CloseCurrent
  <2>1. /\ mpc = "close" /\ UNCHANGED <<probed, total, processed, written, cause>>
        /\ at \in Stage
    BY <1>0, <1>6 DEF CloseCurrent, CloseStage, Phases, Running, Stage
  <2>2. result = "none"
    BY <2>1 DEF Phases, SeqTypeOK
  <2>3. CASE result' = "error" /\ UNCHANGED <<at, current>>
    BY <1>a, <2>1, <2>3 DEF Ended
  <2>4. CASE ~err /\ result' = result /\ current' \in ReadBack(at) /\ at' = at + 1
    <3>1. Handed'
      <4>1. ~ignoreErr => current' = written[at]
        BY <2>4 DEF ReadBack
      <4>2. InputOf(at)' = written[at]
        BY <1>0, <2>1, <2>4, StageFacts DEF InputOf
      <4>3. QED
        BY <1>0, <4>1, <4>2 DEF Handed
    <3>2. Done'
      <4> SUFFICES ASSUME cause' = "none", ~ignoreErr', NEW i \in Stage, i < at'
                   PROVE  probed'[i] = InputOf(i)' /\ total'[i] = processed'[i]
        BY DEF Done
      <4>1. i < at \/ i = at
        BY <1>0, <2>4, StageFacts
      <4>2. InputOf(i)' = InputOf(i)
        BY <2>1 DEF InputOf
      <4>3. CASE i < at
        BY <1>0, <2>1, <4>2, <4>3 DEF Done
      <4>4. CASE i = at
        <5>1. probed[at] = InputOf(at) /\ total[at] = processed[at]
          BY <1>0, <2>1, <2>4, StageDone DEF FlowKept
        <5>2. QED
          BY <2>1, <4>2, <4>4, <5>1
      <4>5. QED
        BY <4>1, <4>3, <4>4
    <3>3. Ended'
      BY <2>2, <2>4 DEF Ended
    <3>4. QED
      BY <3>1, <3>2, <3>3
  <2>5. QED
    BY <1>6, <2>3, <2>4 DEF CloseCurrent
<1>7. QED
  BY <1>1, <1>2, <1>3, <1>4, <1>5, <1>6 DEF Next, MainStep

-----------------------------------------------------------------------------
(* The inductive invariant. *)
SeqInv ==
    /\ SeqTypeOK /\ InHand /\ OnlyClaimed /\ Together /\ Phases /\ Untouched
    /\ FlowKept /\ Handed /\ Done /\ Ended /\ Saved /\ Reported

LEMMA SeqInitially == Init => SeqInv
<1> SUFFICES ASSUME Init
             PROVE  SeqInv
  OBVIOUS
<1>0. /\ \A w \in Workers : pc[w] = "idle"
      /\ \A i \in Stage : /\ chan[i] = {} /\ probed[i] = {} /\ reported[i] = {}
                          /\ written[i] = {} /\ processed[i] = 0 /\ total[i] = 0
                          /\ succeeded[i] = 0 /\ writer[i] = "new" /\ probe[i] = "new"
      /\ mpc = "stage" /\ at = 1 /\ reader = "ok" /\ current = IPs /\ unread = {}
      /\ badWriters = {} /\ eof = {} /\ err = FALSE /\ result = "none"
  BY DEF Init, ExecInit
<1>1. SeqTypeOK
  <2>1. ExecTypeOK
    <3>1. /\ total \in [Stage -> Nat] /\ processed \in [Stage -> Nat]
          /\ succeeded \in [Stage -> Nat] /\ slot \in [Workers -> Nat]
      BY DEF Init, ExecInit
    <3>2. /\ chan \in [Stage -> SUBSET IPs] /\ probed \in [Stage -> SUBSET IPs]
          /\ reported \in [Stage -> SUBSET IPs]
          /\ written \in [Stage -> SUBSET IPs]
          /\ cur \in [Workers -> IPs \cup {NoIP}]
      BY DEF Init, ExecInit
    <3>3. /\ pc \in [Workers -> {"idle", "select", "admit", "probe", "claim",
                                 "write", "passed", "count", "limit", "fatal",
                                 "exited"}]
          /\ writer \in [Stage -> {"new", "open", "off", "failed", "closed"}]
          /\ probe \in [Stage -> {"new", "open", "closed"}]
      BY DEF Init, ExecInit
    <3>4. QED
      BY <3>1, <3>2, <3>3 DEF Init, ExecInit, ExecTypeOK
  <2>2. at \in 1..(N + 1)
    BY <1>0, StageFacts
  <2>3. QED
    BY <2>1, <2>2 DEF Init, SeqTypeOK
<1>2. InHand /\ Together /\ Saved /\ Reported /\ Ended
  BY <1>0 DEF InHand, Together, Saved, Reported, Ended
<1>3. OnlyClaimed
  <2>1. \A i \in Stage : Cardinality(reported[i]) = 0 /\ succeeded[i] = 0
    BY <1>0, FS_EmptySet
  <2>2. QED
    BY <2>1, StageFacts DEF OnlyClaimed
<1>4. Phases
  BY <1>0 DEF Phases, Running
<1>5. Untouched
  BY <1>0 DEF Untouched
<1>6. Flow
  <2>1. Once
    BY <1>0, StageFacts, FS_EmptySet DEF Once, Busy
  <2>2. ~Running
    BY <1>0 DEF Running
  <2>3. QED
    BY <2>1, <2>2 DEF Flow
<1>7. Handed /\ Done
  <2>1. InputOf(at) = IPs /\ \A i \in Stage : ~(i < at)
    BY <1>0, StageFacts DEF InputOf
  <2>2. QED
    BY <1>0, <2>1 DEF Handed, Done
<1>8. QED
  BY <1>1, <1>2, <1>3, <1>4, <1>5, <1>6, <1>7 DEF SeqInv, FlowKept

LEMMA SeqInvariant == Spec => []SeqInv
<1>1. SeqInv /\ [Next]_vars => SeqInv'
  BY TypeStep, OnlyClaimedStep, TogetherStep, PhasesStep, UntouchedStep, FlowStep,
     DoneStep, SavedStep, ReportedStep DEF SeqInv
<1>2. QED
  BY <1>1, SeqInitially, PTL DEF Spec

(* Every variable of a sequential scan keeps its type. *)
THEOREM SeqTypeCorrect == Spec => []SeqTypeOK
  BY SeqInvariant, PTL DEF SeqInv

(***************************************************************************)
(* A sequential scan never reports more successes than MaxSuccessfulIPs    *)
(* (claimResultSlot).                                                      *)
(***************************************************************************)
THEOREM SeqLimit == Spec => []LimitRespected
<1>1. SeqInv => LimitRespected
  <2> SUFFICES ASSUME SeqInv, Limit > 0
               PROVE  succeeded[N] <= Limit /\ Cardinality(reported[N]) <= Limit
    BY DEF LimitRespected
  <2>1. /\ succeeded[N] <= Limit /\ Cardinality(reported[N]) <= succeeded[N]
        /\ succeeded[N] \in Nat /\ reported[N] \in SUBSET IPs
    BY StageFacts DEF SeqInv, OnlyClaimed, SeqTypeOK, ExecTypeOK
  <2>2. Cardinality(reported[N]) \in Nat
    BY <2>1, InputAssumption, FS_Subset, FS_CardinalityType
  <2>3. QED
    BY <2>1, <2>2, StageFacts
<1>2. QED
  BY <1>1, SeqInvariant, PTL

(***************************************************************************)
(* No worker probes or writes with an executor that runSequential has not  *)
(* started yet or has closed, whatever stops the stage.                    *)
(***************************************************************************)
THEOREM SeqNoWriteAfterClose == Spec => []NoWriteAfterClose
<1>1. SeqInv => NoWriteAfterClose
  <2>1. SeqInv => DOMAIN pc = Workers
    BY DEF SeqInv, SeqTypeOK, ExecTypeOK
  <2> SUFFICES ASSUME SeqInv, NEW w \in Workers,
                      pc[w] \in {"probe", "claim", "write"}
               PROVE  writer[StageOf[w]] # "closed" /\ probe[StageOf[w]] = "open"
    BY <2>1 DEF NoWriteAfterClose
  <2>2. StageOf[w] \in Stage /\ probe[StageOf[w]] = "open"
    BY StageFacts DEF SeqInv, Phases, Running
  <2>3. QED
    BY <2>2 DEF SeqInv, Together
<1>2. QED
  BY <1>1, SeqInvariant, PTL

(***************************************************************************)
(* However a sequential scan ends, also when a stage could not be built or *)
(* its close failed, it leaves no writer and no probe open.                *)
(***************************************************************************)
THEOREM SeqReleasedAtEnd == Spec => []ReleasedAtEnd
<1>1. SeqInv => ReleasedAtEnd
  BY DEF SeqInv, ReleasedAtEnd, Phases, Running, Together, SeqTypeOK, ExecTypeOK
<1>2. QED
  BY <1>1, SeqInvariant, PTL

(* What the writers hold when the loop ends without an error. *)
LEMMA NilSaved ==
    ASSUME SeqInv, mpc \in {"stage", "returned"}, result # "error"
    PROVE  badWriters = {} /\ (ignoreErr \/ \A i \in Stage : written[i] = reported[i])
<1>0. /\ badWriters \in SUBSET Stage /\ ignoreErr \in BOOLEAN
      /\ reported \in [Stage -> SUBSET IPs]
  BY DEF SeqInv, SeqTypeOK, ExecTypeOK
<1>1. \A i \in Stage : probe[i] # "open"
  BY DEF SeqInv, Phases, Running
<1>2. badWriters = {}
  BY <1>0, <1>1 DEF SeqInv, Together, Reported
<1>3. \A w \in Workers : pc[w] # "write"
  BY DEF SeqInv, Phases
<1>4. ~ignoreErr => \A i \in Stage : written[i] = reported[i]
  BY <1>0, <1>2, <1>3 DEF SeqInv, Saved, Writing
<1>5. QED
  BY <1>0, <1>2, <1>4

(***************************************************************************)
(* A sequential scan that returns nil and was not stopped has taken every  *)
(* address through the stages by way of the result files, and saved what   *)
(* it found (runSequential, GetResultPath).                                *)
(***************************************************************************)
THEOREM SeqComplete == Spec => []Complete
<1>1. SeqInv => Complete
  <2> SUFFICES ASSUME SeqInv, result = "nil", cause = "none", ~ignoreErr
               PROVE  /\ probed[1] = IPs
                      /\ badWriters = {}
                      /\ \A i \in Stage \ {N} : probed[i + 1] = written[i]
                      /\ \A i \in Stage : written[i] = reported[i]
                      /\ \A i \in Stage : total[i] = processed[i]
    BY DEF Complete
  <2>0. at \in 1..(N + 1) /\ (at > N \/ current = {})
    BY DEF SeqInv, SeqTypeOK, Ended
  <2>1. badWriters = {} /\ \A i \in Stage : written[i] = reported[i]
    <3>1. mpc = "returned"
      BY DEF SeqInv, Phases
    <3>2. QED
      BY <3>1, NilSaved
  <2>2. \A i \in Stage : probed[i] = InputOf(i) /\ total[i] = processed[i]
    <3> SUFFICES ASSUME NEW i \in Stage
                 PROVE  probed[i] = InputOf(i) /\ total[i] = processed[i]
      OBVIOUS
    <3>1. CASE i < at
      BY <3>1 DEF SeqInv, Done
    <3>2. CASE i = at
      <4>1. current = {} /\ current = InputOf(at)
        BY <2>0, <3>2, StageFacts DEF SeqInv, Handed
      <4>2. probed[i] = {} /\ total[i] = 0 /\ processed[i] = 0
        BY <3>2 DEF SeqInv, Untouched, Before
      <4>3. QED
        BY <3>2, <4>1, <4>2
    <3>3. CASE i > at
      <4>1. i # 1 /\ i - 1 \in Stage /\ (i - 1 > at \/ i - 1 = at)
        BY <2>0, <3>3, StageFacts DEF Stage
      <4>2. written[i - 1] = {}
        BY <4>1 DEF SeqInv, Untouched, Before
      <4>3. probed[i] = {} /\ total[i] = 0 /\ processed[i] = 0
        BY <3>3 DEF SeqInv, Untouched
      <4>4. QED
        BY <4>1, <4>2, <4>3 DEF InputOf
    <3>4. QED
      BY <2>0, <3>1, <3>2, <3>3, StageFacts
  <2>3. probed[1] = IPs
    BY <2>2, StageFacts DEF InputOf, Stage
  <2>4. \A i \in Stage \ {N} : probed[i + 1] = written[i]
    <3> SUFFICES ASSUME NEW i \in Stage \ {N}
                 PROVE  probed[i + 1] = written[i]
      OBVIOUS
    <3>1. i + 1 \in Stage /\ i + 1 # 1 /\ (i + 1) - 1 = i
      BY StageFacts DEF Stage
    <3>2. QED
      BY <2>2, <3>1 DEF InputOf
  <2>5. QED
    BY <2>1, <2>2, <2>3, <2>4
<1>2. QED
  BY <1>1, SeqInvariant, PTL

-----------------------------------------------------------------------------
(* A step of a worker finds or saves an address of the contract, or none.  *)
LEMMA WorkContract ==
    ASSUME SeqInv, NEW w \in Workers, StageWork(w)
    PROVE  [Contract!Next]_(Contract!contractVars)
<1>0. /\ result = "none" /\ result' = result /\ Work(w)
      /\ ExecTypeOK /\ InHand /\ OnlyClaimed /\ Saved
  BY DEF StageWork, chainVars, SeqInv, Phases, SeqTypeOK
<1>1. CASE Checkpoint(w) \/ Receive(w) \/ Admit(w) \/ RunProbe(w)
  BY <1>0, <1>1 DEF Checkpoint, Receive, Admit, RunProbe, countVars, openVars,
     Contract!contractVars
<1>2. CASE Claim(w)
  <2>1. CASE reported'[N] = reported[N]
    BY <1>0, <1>2, <2>1, ClaimLast DEF Contract!contractVars
  <2>2. CASE reported'[N] # reported[N]
    <3>1. PICK ip \in IPs \ reported[N] :
            /\ reported'[N] = reported[N] \cup {ip}
            /\ Limit > 0 => Cardinality(reported[N]) < Limit
      BY <1>0, <1>2, <2>2, ClaimLast
    <3>2. Contract!Cardinality(reported[N]) = Cardinality(reported[N])
      BY DEF Contract!Cardinality, Cardinality
    <3>3. Contract!Find(ip)
      BY <1>0, <1>2, <3>1, <3>2, ClaimLast DEF Contract!Find
    <3>4. QED
      BY <3>1, <3>3 DEF Contract!Next
  <2>3. QED
    BY <2>1, <2>2
<1>3. CASE Write(w)
  <2>1. CASE written'[N] = written[N]
    BY <1>0, <1>3, <2>1, WriteLast DEF Contract!contractVars
  <2>2. CASE written'[N] # written[N]
    <3>1. PICK ip \in IPs \cap reported[N] : written'[N] = written[N] \cup {ip}
      BY <1>0, <1>3, <2>2, WriteLast
    <3>2. Contract!Save(ip)
      BY <1>0, <1>3, <3>1, WriteLast DEF Contract!Save
    <3>3. QED
      BY <3>1, <3>2 DEF Contract!Next
  <2>3. QED
    BY <2>1, <2>2
<1>4. QED
  BY <1>0, <1>1, <1>2, <1>3 DEF Work

(* Every step of a sequential scan is a step of the contract, or none. *)
LEMMA ContractStep ==
    SeqInv /\ [Next]_vars => [Contract!Next]_(Contract!contractVars)
<1> SUFFICES ASSUME SeqInv, [Next]_vars
             PROVE  [Contract!Next]_(Contract!contractVars)
  OBVIOUS
<1> USE DEF queueVars, workerVars, countVars, openVars, chainVars
<1>0. mpc # "returned" => result = "none"
  BY DEF SeqInv, Phases, SeqTypeOK
<1>a. ASSUME UNCHANGED <<ignoreErr, reported, written, badWriters, result>>
      PROVE  [Contract!Next]_(Contract!contractVars)
  BY <1>a DEF Contract!contractVars
<1>b. ASSUME UNCHANGED <<ignoreErr, reported, written, result>>, badWriters' # {},
             result = "none"
      PROVE  [Contract!Next]_(Contract!contractVars)
  BY <1>b DEF Contract!Next, Contract!Lose
<1>c. ASSUME UNCHANGED <<ignoreErr, reported, written>>, result = "none", result' = "error",
             badWriters' = badWriters \/ badWriters' # {}
      PROVE  [Contract!Next]_(Contract!contractVars)
  <2>1. Contract!Finish
    BY <1>c DEF Contract!Finish
  <2>2. QED
    BY <2>1 DEF Contract!Next
<1>1. CASE UserCancel \/ PoolEnds \/ UNCHANGED vars
  BY <1>1, <1>a DEF UserCancel, PoolEnds, execVars, vars
<1>2. CASE StartStage
  BY <1>2, <1>a DEF StartStage, OpenStage
<1>3. CASE StartStageFails
  BY <1>0, <1>3, <1>c DEF StartStageFails, OpenStageFails
<1>4. CASE Read \/ ReadEnd \/ ReadFails
  BY <1>4, <1>a DEF Read, ReadEnd, ReadFails
<1>5. ASSUME NEW w \in Workers, PoolStep(w)
      PROVE  [Contract!Next]_(Contract!contractVars)
  <2>1. CASE StageWork(w)
    BY <2>1, WorkContract
  <2>2. CASE Passed(w) \/ StopAtLimit(w) \/ StopOnFatal(w)
    BY <2>2, <1>a DEF Passed, StopAtLimit, StopOnFatal
  <2>3. QED
    BY <1>5, <2>1, <2>2 DEF PoolStep
<1>6. CASE FlushFails
  BY <1>0, <1>6, <1>b DEF FlushFails, WriterFails
<1>7. CASE CloseCurrent
  <2>1. /\ result = "none" /\ UNCHANGED <<ignoreErr, reported, written>>
        /\ badWriters' = badWriters \/ badWriters' # {}
        /\ result' = "error" \/ (result' = result /\ badWriters' = badWriters)
    BY <1>0, <1>7 DEF CloseCurrent, CloseStage
  <2>2. QED
    BY <1>a, <1>c, <2>1
<1>8. CASE LoopEnds
  <2>1. /\ mpc = "stage" /\ result = "none" /\ result' \in {"nil", "error"}
        /\ UNCHANGED <<ignoreErr, reported, written, badWriters>>
    BY <1>0, <1>8 DEF LoopEnds, execVars
  <2>2. badWriters = {} /\ (ignoreErr \/ written[N] = reported[N])
    BY <2>1, NilSaved, StageFacts
  <2>3. Contract!Finish
    BY <2>1, <2>2 DEF Contract!Finish
  <2>4. QED
    BY <2>3 DEF Contract!Next
<1>9. QED
  BY <1>1, <1>2, <1>3, <1>4, <1>5, <1>6, <1>7, <1>8 DEF Next, MainStep

(***************************************************************************)
(* The sequential mode implements the contract of a scan (ScanContract):   *)
(* also a cancelled scan that returns nil has saved what it found, because *)
(* runSequential returns the error of a close at once.                     *)
(***************************************************************************)
THEOREM SeqImplementsContract == Spec => KeepsContract
<1>1. Init => Contract!Init
  BY StageFacts DEF Init, ExecInit, Contract!Init
<1>2. QED
  BY <1>1, SeqInvariant, ContractStep, PTL DEF Spec, KeepsContract, Contract!Spec
=============================================================================
