---------------------------- MODULE StageExecutor ----------------------------
(***************************************************************************)
(* A stage of a scan and its worker pool (scanner/engine/stage.go and      *)
(* worker.go): how an executor is built and closed, and how a worker takes *)
(* an address through processIP.  The modules StreamChain, BatchChain and  *)
(* SeqChain extend this one with the pipeline modes of chain.go, which     *)
(* decide where a stage's addresses come from, what becomes of an address  *)
(* that passed and how an error that ends the scan is handled.             *)
(*                                                                         *)
(* The pipeline's context is its cancellation cause, the first one wins.   *)
(* A probe passes or fails.  The writer is the one of module ResultWriter, *)
(* reduced to whether a Write is taken and whether Close reports an error. *)
(* Stages are created with a context nobody cancels, so a writer fails     *)
(* only by itself, and only if its errors are not ignored.                 *)
(***************************************************************************)
EXTENDS Naturals, FiniteSets

CONSTANTS N,          \* number of stages
          Workers,    \* the workers of all the pools
          StageOf,    \* the stage of each worker
          IPs,        \* the addresses the input file yields
          Limit,      \* MaxSuccessfulIPs, 0 for none
          Cap         \* capacity of the channels between the stages

ASSUME StagesAssumption == N \in Nat \ {0} /\ StageOf \in [Workers -> 1..N]
ASSUME InputAssumption == IsFiniteSet(IPs)
(* A pool has at least one worker, getWorkerCount. *)
ASSUME PoolsAssumption == \A i \in 1..N : \E w \in Workers : StageOf[w] = i
ASSUME LimitsAssumption == Limit \in Nat /\ Cap \in Nat \ {0}

Stage == 1..N

NoIP == "no address"

VARIABLES ignoreErr,  \* IgnoreWriterError, set before the scan starts
          cause,      \* "none", "canceled", "limit" or "fatal"
          chan,       \* addresses queued for each stage
          eof,        \* the stages whose input channel is closed
          pc,         \* where each worker is
          cur,        \* the address each worker holds
          slot,       \* what claimResultSlot returned to each worker
          total, processed, succeeded,   \* the counters of each stage
          writer,     \* "new", "open", "off", "failed" or "closed"
          probe,      \* "new", "open" or "closed"
          probed,     \* history: addresses each stage probed
          reported,   \* history: addresses given to OnSuccess
          written,    \* history: addresses whose Write returned nil
          badWriters  \* history: stages whose writer lost results

execVars == <<ignoreErr, cause, chan, eof, pc, cur, slot, total, processed, succeeded,
              writer, probe, probed, reported, written, badWriters>>

queueVars  == <<chan, eof>>
workerVars == <<pc, cur, slot>>
countVars  == <<total, processed, succeeded, probed, reported, written>>
openVars   == <<ignoreErr, writer, probe, badWriters>>

ExecInit ==
    /\ ignoreErr \in BOOLEAN
    /\ cause = "none"
    /\ chan = [i \in Stage |-> {}]
    /\ eof = {}
    /\ pc = [w \in Workers |-> "idle"]
    /\ cur = [w \in Workers |-> NoIP]
    /\ slot = [w \in Workers |-> 0]
    /\ total = [i \in Stage |-> 0]
    /\ processed = [i \in Stage |-> 0]
    /\ succeeded = [i \in Stage |-> 0]
    /\ writer = [i \in Stage |-> "new"]
    /\ probe = [i \in Stage |-> "new"]
    /\ probed = [i \in Stage |-> {}]
    /\ reported = [i \in Stage |-> {}]
    /\ written = [i \in Stage |-> {}]
    /\ badWriters = {}

CtxDone == cause # "none"

(* CancelCauseFunc: only the first cause is kept. *)
Cancel(c) == cause' = IF cause = "none" THEN c ELSE cause

(* Only the last stage's successes count, resultLimitFor. *)
ResultLimit(i) == IF i = N THEN Limit ELSE 0

LimitReached(i) == ResultLimit(i) > 0 /\ succeeded[i] >= ResultLimit(i)

-----------------------------------------------------------------------------
(* newStageExecutor and close *)

(* Start of the writer, then Init of the probe; n is the stage's total. *)
OpenStage(i, n) ==
    /\ \/ writer' = [writer EXCEPT ![i] = "open"]
       \/ ignoreErr /\ writer' = [writer EXCEPT ![i] = "off"]
    /\ probe' = [probe EXCEPT ![i] = "open"]
    /\ total' = [total EXCEPT ![i] = n]
    /\ UNCHANGED <<cause, queueVars, workerVars, processed, succeeded, probed,
                   reported, written, ignoreErr, badWriters>>

(* Mutant: the writer stays open when the probe cannot be initialised. *)
OpenStageFailsLeaking(i) ==
    /\ \/ ~ignoreErr /\ UNCHANGED writer
       \/ writer' = [writer EXCEPT ![i] = "open"]
    /\ UNCHANGED <<cause, queueVars, workerVars, countVars, ignoreErr, probe,
                   badWriters>>

(* The writer does not start, or the probe fails and the writer is closed. *)
OpenStageFails(i) ==
    /\ \/ ~ignoreErr /\ UNCHANGED writer
       \/ writer' = [writer EXCEPT ![i] = "closed"]
    /\ UNCHANGED <<cause, queueVars, workerVars, countVars, ignoreErr, probe,
                   badWriters>>

(***************************************************************************)
(* close: the writer's last flush may fail; err tells whether close        *)
(* returns an error, which it does not when writer errors are ignored.     *)
(***************************************************************************)
CloseStage(i, err) ==
    /\ writer' = [writer EXCEPT ![i] = "closed"]
    /\ probe' = [probe EXCEPT ![i] = "closed"]
    /\ \/ /\ writer[i] = "open" /\ ~ignoreErr /\ written[i] # {}
          /\ badWriters' = badWriters \cup {i}
          /\ err
       \/ /\ UNCHANGED badWriters
          /\ err = (writer[i] = "failed")
    /\ UNCHANGED <<cause, queueVars, workerVars, countVars, ignoreErr>>

(* A flush of stage i fails and its writer stops taking results. *)
WriterFails(i) ==
    /\ writer[i] = "open" /\ ~ignoreErr
    /\ written[i] # {}
    /\ writer' = [writer EXCEPT ![i] = "failed"]
    /\ badWriters' = badWriters \cup {i}
    /\ UNCHANGED <<cause, queueVars, workerVars, countVars, ignoreErr, probe>>

-----------------------------------------------------------------------------
(* runWorker and processIP *)

Goto(w, l) == pc' = [pc EXCEPT ![w] = l]

(* The checkpoint of the pause controller, not paused; the last address is *)
(* forgotten.                                                              *)
Checkpoint(w) ==
    /\ pc[w] = "idle"
    /\ Goto(w, IF CtxDone THEN "exited" ELSE "select")
    /\ cur' = [cur EXCEPT ![w] = NoIP]
    /\ slot' = [slot EXCEPT ![w] = 0]
    /\ UNCHANGED <<cause, queueVars, countVars, openVars>>

Receive(w) ==
    LET i == StageOf[w]
    IN  /\ pc[w] = "select"
        /\ \/ /\ \E ip \in chan[i] :
                   /\ chan' = [chan EXCEPT ![i] = @ \ {ip}]
                   /\ cur' = [cur EXCEPT ![w] = ip]
              /\ Goto(w, "admit")
           \/ /\ CtxDone \/ (i \in eof /\ chan[i] = {})
              /\ Goto(w, "exited")
              /\ UNCHANGED <<chan, cur>>
        /\ UNCHANGED <<cause, eof, slot, countVars, openVars>>

(* The limit check, then the rate limiter, which fails on a done context. *)
Admit(w) ==
    /\ pc[w] = "admit"
    /\ Goto(w, IF LimitReached(StageOf[w]) THEN "limit"
               ELSE IF CtxDone THEN "idle" ELSE "probe")
    /\ UNCHANGED <<cause, queueVars, cur, slot, countVars, openVars>>

RunProbe(w) ==
    LET i == StageOf[w]
    IN  /\ pc[w] = "probe"
        /\ processed' = [processed EXCEPT ![i] = @ + 1]
        /\ probed' = [probed EXCEPT ![i] = @ \cup {cur[w]}]
        /\ Goto(w, "idle") \/ Goto(w, "claim")
        /\ UNCHANGED <<cause, queueVars, cur, slot, total, succeeded,
                       reported, written, openVars>>

(* Mutant: the slot is counted without looking at the limit again. *)
ClaimUnchecked(w) ==
    LET i == StageOf[w]
    IN  /\ pc[w] = "claim"
        /\ Goto(w, "write")
        /\ succeeded' = [succeeded EXCEPT ![i] = @ + 1]
        /\ slot' = [slot EXCEPT ![w] = succeeded[i] + 1]
        /\ reported' = [reported EXCEPT ![i] = @ \cup {cur[w]}]
        /\ UNCHANGED <<cause, queueVars, cur, total, processed, probed,
                       written, openVars>>

(* claimResultSlot, a compare-and-swap loop, then OnSuccess. *)
Claim(w) ==
    LET i == StageOf[w]
    IN  /\ pc[w] = "claim"
        /\ IF LimitReached(i)
             THEN Goto(w, "limit") /\ UNCHANGED <<succeeded, slot, reported>>
             ELSE /\ Goto(w, "write")
                  /\ succeeded' = [succeeded EXCEPT ![i] = @ + 1]
                  /\ slot' = [slot EXCEPT ![w] = succeeded[i] + 1]
                  /\ reported' = [reported EXCEPT ![i] = @ \cup {cur[w]}]
        /\ UNCHANGED <<cause, queueVars, cur, total, processed, probed,
                       written, openVars>>

(* What processIP returns once the result is written or its loss ignored. *)
AfterWrite(w) ==
    LET lim == ResultLimit(StageOf[w])
    IN  IF lim > 0 /\ slot[w] >= lim THEN "limit" ELSE "passed"

Write(w) ==
    LET i == StageOf[w]
    IN  /\ pc[w] = "write"
        /\ \/ /\ writer[i] = "open"
              /\ written' = [written EXCEPT ![i] = @ \cup {cur[w]}]
              /\ Goto(w, AfterWrite(w))
           \/ /\ writer[i] = "off"
              /\ Goto(w, AfterWrite(w))
              /\ UNCHANGED written
           \/ /\ writer[i] \in {"failed", "closed"}
              /\ Goto(w, IF ignoreErr THEN AfterWrite(w)
                         ELSE IF CtxDone THEN "idle" ELSE "fatal")
              /\ UNCHANGED written
        /\ UNCHANGED <<cause, queueVars, cur, slot, total, processed,
                       succeeded, probed, reported, openVars>>

Work(w) == Checkpoint(w) \/ Receive(w) \/ Admit(w) \/ RunProbe(w) \/ Claim(w)
           \/ Write(w)

Pool(i) == {w \in Workers : StageOf[w] = i}

PoolExited(i) == \A w \in Pool(i) : pc[w] = "exited"

-----------------------------------------------------------------------------
ExecTypeOK ==
    /\ ignoreErr \in BOOLEAN
    /\ cause \in {"none", "canceled", "limit", "fatal"}
    /\ chan \in [Stage -> SUBSET IPs]
    /\ eof \in SUBSET Stage
    /\ pc \in [Workers -> {"idle", "select", "admit", "probe", "claim",
                           "write", "passed", "count", "limit", "fatal",
                           "exited"}]
    /\ cur \in [Workers -> IPs \cup {NoIP}]
    /\ slot \in [Workers -> Nat]
    /\ total \in [Stage -> Nat]
    /\ processed \in [Stage -> Nat]
    /\ succeeded \in [Stage -> Nat]
    /\ writer \in [Stage -> {"new", "open", "off", "failed", "closed"}]
    /\ probe \in [Stage -> {"new", "open", "closed"}]
    /\ probed \in [Stage -> SUBSET IPs]
    /\ reported \in [Stage -> SUBSET IPs]
    /\ written \in [Stage -> SUBSET IPs]
    /\ badWriters \in SUBSET Stage

(***************************************************************************)
(* The last stage never reports more successes than MaxSuccessfulIPs, with *)
(* any number of workers past the limit check at once: the success that    *)
(* takes the last slot is decided by the compare-and-swap.                 *)
(***************************************************************************)
LimitRespected ==
    Limit > 0 => succeeded[N] <= Limit /\ Cardinality(reported[N]) <= Limit

(***************************************************************************)
(* No worker hands a result to a writer that is closed: the executors are  *)
(* closed only after every pool has ended.                                 *)
(***************************************************************************)
NoWriteAfterClose ==
    \A w \in DOMAIN pc :
        pc[w] \in {"probe", "claim", "write"} =>
            writer[StageOf[w]] # "closed" /\ probe[StageOf[w]] = "open"
=============================================================================
