------------------------------ MODULE SeqChain ------------------------------
(***************************************************************************)
(* The sequential pipeline (runSequential in scanner/engine/chain.go): one *)
(* stage after the other, each reading the result file of the one before.  *)
(***************************************************************************)
EXTENDS StageExecutor

VARIABLES mpc,      \* the goroutine of RunScanWithChain
          at,       \* the stage it is in
          current,  \* the addresses in the input file of that stage
          reader,   \* StreamActiveIPs: "reading", "ok", "canceled", "error"
          unread,   \* addresses the reader has not sent yet
          err,      \* the stage's run or close returned an error
          user,     \* history: the caller's context was cancelled
          result    \* what RunScanWithChain returned: "none", "nil", "error"

chainVars == <<mpc, at, current, reader, unread, err, user, result>>
vars == <<execVars, chainVars>>

Init ==
    /\ ExecInit
    /\ mpc = "stage"
    /\ at = 1
    /\ current = IPs
    /\ reader = "ok"
    /\ unread = {}
    /\ err = FALSE
    /\ user = FALSE
    /\ result = "none"

UserCancel ==
    /\ ~user /\ mpc # "returned"
    /\ user' = TRUE
    /\ Cancel("canceled")
    /\ UNCHANGED <<queueVars, workerVars, countVars, openVars>>
    /\ UNCHANGED <<mpc, at, current, reader, unread, err, result>>

-----------------------------------------------------------------------------
(* The loop over the stages *)

(* Every stage is done, there is no input left, or the context is done. *)
LoopEnds ==
    /\ mpc = "stage"
    /\ at > N \/ current = {} \/ CtxDone
    /\ mpc' = "returned"
    /\ result' = IF cause = "fatal" THEN "error" ELSE "nil"
    /\ UNCHANGED execVars
    /\ UNCHANGED <<at, current, reader, unread, err, user>>

(* The executor is built and the reader of its input file started. *)
StartStage ==
    /\ mpc = "stage"
    /\ at <= N /\ current # {} /\ ~CtxDone
    /\ OpenStage(at, Cardinality(current))
    /\ mpc' = "pool"
    /\ reader' = "reading"
    /\ unread' = current
    /\ UNCHANGED <<at, current, err, user, result>>

StartStageFails ==
    /\ mpc = "stage"
    /\ at <= N /\ current # {} /\ ~CtxDone
    /\ OpenStageFails(at)
    /\ mpc' = "returned"
    /\ result' = "error"
    /\ UNCHANGED <<at, current, reader, unread, err, user>>

-----------------------------------------------------------------------------
(* The reader *)

Read ==
    /\ mpc = "pool" /\ reader = "reading"
    /\ Cardinality(chan[at]) < Cap
    /\ \E ip \in unread :
         /\ unread' = unread \ {ip}
         /\ chan' = [chan EXCEPT ![at] = @ \cup {ip}]
    /\ UNCHANGED <<cause, eof, workerVars, countVars, openVars>>
    /\ UNCHANGED <<mpc, at, current, reader, err, user, result>>

ReadEnd ==
    /\ mpc = "pool" /\ reader = "reading"
    /\ \/ unread = {} /\ reader' = "ok"
       \/ CtxDone /\ reader' = "canceled"
    /\ eof' = eof \cup {at}
    /\ UNCHANGED <<cause, chan, workerVars, countVars, openVars>>
    /\ UNCHANGED <<mpc, at, current, unread, err, user, result>>

ReadFails ==
    /\ mpc = "pool" /\ reader = "reading"
    /\ reader' = "error"
    /\ eof' = eof \cup {at}
    /\ UNCHANGED <<cause, chan, workerVars, countVars, openVars>>
    /\ UNCHANGED <<mpc, at, current, unread, err, user, result>>

-----------------------------------------------------------------------------
(* The pool of the running stage; nothing is forwarded. *)

StageWork(w) ==
    /\ mpc = "pool" /\ StageOf[w] = at
    /\ Work(w)
    /\ UNCHANGED chainVars

Passed(w) ==
    /\ pc[w] = "passed"
    /\ Goto(w, "idle")
    /\ UNCHANGED <<cause, queueVars, cur, slot, countVars, openVars, chainVars>>

StopAtLimit(w) ==
    /\ pc[w] = "limit"
    /\ Cancel("canceled")
    /\ Goto(w, "idle")
    /\ UNCHANGED <<queueVars, cur, slot, countVars, openVars, chainVars>>

StopOnFatal(w) ==
    /\ pc[w] = "fatal"
    /\ Cancel("fatal")
    /\ Goto(w, "exited")
    /\ UNCHANGED <<queueVars, cur, slot, countVars, openVars, chainVars>>

FlushFails ==
    /\ mpc = "pool"
    /\ WriterFails(at)
    /\ UNCHANGED chainVars

PoolEnds ==
    /\ mpc = "pool"
    /\ PoolExited(at)
    /\ reader # "reading"
    /\ mpc' = "close"
    /\ err' = (cause = "fatal" \/ reader = "error")
    /\ UNCHANGED execVars
    /\ UNCHANGED <<at, current, reader, unread, user, result>>

(***************************************************************************)
(* GetResultPath: the addresses in the stage's result file, none if there  *)
(* is no file.  A flush whose error is ignored leaves addresses out.       *)
(***************************************************************************)
ReadBack(i) == IF ignoreErr THEN SUBSET written[i] ELSE {written[i]}

(* The stage is closed; without an error its result file is the next input. *)
CloseCurrent ==
    /\ mpc = "close"
    /\ \E e \in BOOLEAN :
         /\ CloseStage(at, e)
         /\ IF err \/ e
              THEN /\ mpc' = "returned" /\ result' = "error"
                   /\ UNCHANGED <<at, current>>
              ELSE /\ mpc' = "stage" /\ UNCHANGED result
                   /\ current' \in ReadBack(at)
                   /\ at' = at + 1
    /\ UNCHANGED <<reader, unread, err, user>>

-----------------------------------------------------------------------------
PoolStep(w) == StageWork(w) \/ Passed(w) \/ StopAtLimit(w) \/ StopOnFatal(w)

MainStep == LoopEnds \/ StartStage \/ StartStageFails \/ PoolEnds \/ CloseCurrent

Next ==
    \/ UserCancel
    \/ MainStep
    \/ Read
    \/ ReadEnd
    \/ ReadFails
    \/ FlushFails
    \/ \E w \in Workers : PoolStep(w)

Spec == Init /\ [][Next]_vars

(* As in the streaming mode: goroutines run, probes and reads end. *)
Fairness ==
    /\ WF_vars(MainStep)
    /\ WF_vars(Read \/ ReadEnd)
    /\ \A w \in Workers : WF_vars(PoolStep(w))

FairSpec == Spec /\ Fairness

-----------------------------------------------------------------------------
(***************************************************************************)
(* A sequential scan that returns nil and was not stopped has taken every  *)
(* address through the stages: the first one probed the whole input, each  *)
(* later one exactly what the stage before it wrote, and what a stage      *)
(* wrote is what it reported, with no writer having lost any of it.        *)
(***************************************************************************)
Complete ==
    (result = "nil" /\ cause = "none" /\ ~ignoreErr) =>
        /\ probed[1] = IPs
        /\ badWriters = {}
        /\ \A i \in Stage \ {N} : probed[i + 1] = written[i]
        /\ \A i \in Stage : written[i] = reported[i]
        /\ \A i \in Stage : total[i] = processed[i]

(***************************************************************************)
(* However the scan ends, no writer and no probe is left open.             *)
(***************************************************************************)
ReleasedAtEnd ==
    mpc = "returned" =>
        \A i \in Stage : writer[i] \in {"new", "closed"} /\ probe[i] # "open"

(* The sequential mode keeps the contract of a scan. *)
Contract == INSTANCE ScanContract WITH found <- reported[N],
                saved <- written[N], lost <- badWriters # {}, outcome <- result, lenient <- ignoreErr

KeepsContract == Contract!Spec
=============================================================================
