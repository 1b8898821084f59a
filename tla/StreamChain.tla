----------------------------- MODULE StreamChain -----------------------------
(***************************************************************************)
(* The streaming pipeline (runStreaming and streamStageFromFile in         *)
(* scanner/engine/chain.go): all stages run at the same time, the first    *)
(* one fed from the input file, the others from the channel the stage      *)
(* before them forwards its passing addresses to.                          *)
(***************************************************************************)
EXTENDS StageExecutor

VARIABLES mpc,     \* the goroutine of RunScanWithChain
          at,      \* the executor it builds or closes next
          ended,   \* the stages whose goroutine has ended
          reader,  \* StreamActiveIPs: "reading", "ok", "canceled", "error"
          unread,  \* addresses the reader has not sent yet
          err,     \* an error was recorded or returned
          user,    \* history: the caller's context was cancelled
          result   \* what RunScanWithChain returned: "none", "nil", "error"

chainVars == <<mpc, at, ended, reader, unread, err, user, result>>
vars == <<execVars, chainVars>>

Init ==
    /\ ExecInit
    /\ mpc = "build"
    /\ at = 1
    /\ ended = {}
    /\ reader = "reading"
    /\ unread = IPs
    /\ err = FALSE
    /\ user = FALSE
    /\ result = "none"

(* The caller cancels: the user closes the scan. *)
UserCancel ==
    /\ ~user /\ mpc # "returned"
    /\ user' = TRUE
    /\ Cancel("canceled")
    /\ UNCHANGED <<queueVars, workerVars, countVars, openVars>>
    /\ UNCHANGED <<mpc, at, ended, reader, unread, err, result>>

-----------------------------------------------------------------------------
(* buildExecutors: on failure the executors built so far are closed. *)

Build ==
    /\ mpc = "build"
    /\ OpenStage(at, IF at = 1 THEN Cardinality(IPs) ELSE 0)
    /\ IF at < N THEN at' = at + 1 /\ mpc' = mpc
                 ELSE at' = 1 /\ mpc' = "run"
    /\ UNCHANGED <<ended, reader, unread, err, user, result>>

BuildFails ==
    /\ mpc = "build"
    /\ OpenStageFails(at)
    /\ mpc' = "close"
    /\ at' = 1
    /\ err' = TRUE
    /\ UNCHANGED <<ended, reader, unread, user, result>>

-----------------------------------------------------------------------------
(* The reader of the first stage. *)

Read ==
    /\ mpc = "run" /\ reader = "reading"
    /\ Cardinality(chan[1]) < Cap
    /\ \E ip \in unread :
         /\ unread' = unread \ {ip}
         /\ chan' = [chan EXCEPT ![1] = @ \cup {ip}]
    /\ UNCHANGED <<cause, eof, workerVars, countVars, openVars>>
    /\ UNCHANGED <<mpc, at, ended, reader, err, user, result>>

ReadEnd ==
    /\ mpc = "run" /\ reader = "reading"
    /\ \/ unread = {} /\ reader' = "ok"
       \/ CtxDone /\ reader' = "canceled"
    /\ eof' = eof \cup {1}
    /\ UNCHANGED <<cause, chan, workerVars, countVars, openVars>>
    /\ UNCHANGED <<mpc, at, ended, unread, err, user, result>>

(* The input file cannot be read any further. *)
ReadFails ==
    /\ mpc = "run" /\ reader = "reading"
    /\ reader' = "error"
    /\ eof' = eof \cup {1}
    /\ UNCHANGED <<cause, chan, workerVars, countVars, openVars>>
    /\ UNCHANGED <<mpc, at, ended, unread, err, user, result>>

-----------------------------------------------------------------------------
(* The pools *)

StageWork(w) ==
    /\ mpc = "run"
    /\ Work(w)
    /\ UNCHANGED chainVars

(* stageErr: the limit stops the pipeline, the worker goes on to see that. *)
StopAtLimit(w) ==
    /\ mpc = "run"
    /\ pc[w] = "limit"
    /\ Cancel("canceled")
    /\ Goto(w, "idle")
    /\ UNCHANGED <<queueVars, cur, slot, countVars, openVars, chainVars>>

(* stageErr: a writer error that ends the scan also ends the worker. *)
StopOnFatal(w) ==
    /\ mpc = "run"
    /\ pc[w] = "fatal"
    /\ Cancel("fatal")
    /\ Goto(w, "exited")
    /\ UNCHANGED <<queueVars, cur, slot, countVars, openVars, chainVars>>

(* Mutant: a full channel is not waited for. *)
ForwardDropsWhenFull(w) ==
    LET j == StageOf[w] + 1
    IN  /\ mpc = "run"
        /\ pc[w] = "passed"
        /\ \/ /\ j <= N /\ Cardinality(chan[j]) < Cap
              /\ chan' = [chan EXCEPT ![j] = @ \cup {cur[w]}]
              /\ Goto(w, "count")
           \/ /\ CtxDone \/ (IF j > N THEN TRUE ELSE Cardinality(chan[j]) >= Cap)
              /\ Goto(w, "idle")
              /\ UNCHANGED chan
        /\ UNCHANGED <<cause, eof, cur, slot, countVars, openVars, chainVars>>

(* forward: the send to the next stage, or nothing after the last one. *)
Forward(w) ==
    LET j == StageOf[w] + 1
    IN  /\ mpc = "run"
        /\ pc[w] = "passed"
        /\ \/ /\ j <= N /\ Cardinality(chan[j]) < Cap
              /\ chan' = [chan EXCEPT ![j] = @ \cup {cur[w]}]
              /\ Goto(w, "count")
           \/ /\ j > N \/ CtxDone
              /\ Goto(w, "idle")
              /\ UNCHANGED chan
        /\ UNCHANGED <<cause, eof, cur, slot, countVars, openVars, chainVars>>

(* The next stage's total is raised after the send. *)
CountForwarded(w) ==
    /\ mpc = "run"
    /\ pc[w] = "count"
    /\ total' = [total EXCEPT ![StageOf[w] + 1] = @ + 1]
    /\ Goto(w, "idle")
    /\ UNCHANGED <<cause, queueVars, cur, slot, processed, succeeded, probed,
                   reported, written, openVars, chainVars>>

FlushFails(i) ==
    /\ mpc = "run"
    /\ WriterFails(i)
    /\ UNCHANGED chainVars

(***************************************************************************)
(* The goroutine of stage i ends when its pool has, the first one after    *)
(* the reader, and closes the channel to the next stage.                   *)
(***************************************************************************)
StageEnds(i) ==
    /\ mpc = "run"
    /\ i \notin ended
    /\ PoolExited(i)
    /\ i = 1 => reader # "reading"
    /\ ended' = ended \cup {i}
    /\ eof' = eof \cup ({i + 1} \cap Stage)
    /\ err' = (err \/ cause = "fatal" \/ (i = 1 /\ reader = "error"))
    /\ UNCHANGED <<cause, chan, workerVars, countVars, openVars>>
    /\ UNCHANGED <<mpc, at, reader, unread, user, result>>

(* Mutant: the executors are closed as soon as the last stage has ended. *)
AllEndedLast ==
    /\ mpc = "run"
    /\ N \in ended
    /\ mpc' = "close"
    /\ err' = (err \/ cause = "fatal")
    /\ UNCHANGED execVars
    /\ UNCHANGED <<at, ended, reader, unread, user, result>>

AllEnded ==
    /\ mpc = "run"
    /\ ended = Stage
    /\ mpc' = "close"
    /\ err' = (err \/ cause = "fatal")
    /\ UNCHANGED execVars
    /\ UNCHANGED <<at, ended, reader, unread, user, result>>

-----------------------------------------------------------------------------
(* closeExecutors, also after a failed build, then the result. *)

(* Mutant: the errors of close are dropped. *)
CloseNextSilently ==
    /\ mpc = "close"
    /\ at <= N /\ probe[at] = "open"
    /\ \E e \in BOOLEAN : CloseStage(at, e) /\ err' = err
    /\ at' = at + 1
    /\ UNCHANGED <<mpc, ended, reader, unread, user, result>>

CloseNext ==
    /\ mpc = "close"
    /\ at <= N /\ probe[at] = "open"
    /\ \E e \in BOOLEAN : CloseStage(at, e) /\ err' = (err \/ e)
    /\ at' = at + 1
    /\ UNCHANGED <<mpc, ended, reader, unread, user, result>>

(* The limit is no cause in this mode, so the error is returned as it is. *)
Return ==
    /\ mpc = "close"
    /\ \A i \in Stage : i >= at => probe[i] # "open"
    /\ mpc' = "returned"
    /\ result' = IF err \/ cause = "fatal" THEN "error" ELSE "nil"
    /\ UNCHANGED execVars
    /\ UNCHANGED <<at, ended, reader, unread, err, user>>

-----------------------------------------------------------------------------
PoolStep(w) == StageWork(w) \/ StopAtLimit(w) \/ StopOnFatal(w) \/ Forward(w)
               \/ CountForwarded(w)

MainStep == Build \/ BuildFails \/ AllEnded \/ CloseNext \/ Return

Next ==
    \/ UserCancel
    \/ MainStep
    \/ Read
    \/ ReadEnd
    \/ ReadFails
    \/ \E w \in Workers : PoolStep(w)
    \/ \E i \in Stage : FlushFails(i) \/ StageEnds(i)

Spec == Init /\ [][Next]_vars

(***************************************************************************)
(* Every goroutine that can run does.  Nothing forces the user to cancel,  *)
(* or a read or a flush to fail; a probe ends (its timeout).                  *)
(***************************************************************************)
Fairness ==
    /\ WF_vars(MainStep)
    /\ WF_vars(Read \/ ReadEnd)
    /\ \A w \in Workers : WF_vars(PoolStep(w))
    /\ \A i \in Stage : WF_vars(StageEnds(i))

FairSpec == Spec /\ Fairness

-----------------------------------------------------------------------------
TypeOK ==
    /\ ExecTypeOK
    /\ mpc \in {"build", "run", "close", "returned"}
    /\ at \in 1..(N + 1)
    /\ ended \in SUBSET Stage
    /\ reader \in {"reading", "ok", "canceled", "error"}
    /\ unread \in SUBSET IPs
    /\ err \in BOOLEAN
    /\ user \in BOOLEAN
    /\ result \in {"none", "nil", "error"}

(***************************************************************************)
(* A scan that nobody stops leaves nothing out: every address of the file  *)
(* is probed by the first stage, every address a stage passed is probed by *)
(* the next one, and each stage's total is what it processed.              *)
(***************************************************************************)
Complete ==
    (mpc = "returned" /\ cause = "none" /\ reader = "ok") =>
        /\ probed[1] = IPs
        /\ \A i \in Stage \ {N} : probed[i + 1] = reported[i]
        /\ \A i \in Stage : total[i] = processed[i]

(***************************************************************************)
(* However the scan ends, also when a stage cannot be built, no writer and *)
(* no probe is left open.                                                  *)
(***************************************************************************)
ReleasedAtEnd ==
    mpc = "returned" =>
        \A i \in Stage : writer[i] \in {"new", "closed"} /\ probe[i] # "open"

(* A scan ends. *)
Terminates == <>(mpc = "returned")

(* The streaming mode keeps the contract of a scan. *)
Contract == INSTANCE ScanContract WITH found <- reported[N],
                saved <- written[N], lost <- badWriters # {}, outcome <- result, lenient <- ignoreErr

KeepsContract == Contract!Spec
=============================================================================
