----------------------------- MODULE BatchChain -----------------------------
(***************************************************************************)
(* The batch pipeline (runBatch, streamBatches, processBatch and           *)
(* runStageBatch in scanner/engine/chain.go): the input is cut into        *)
(* batches and each one goes through all the stages, a pool at a time.     *)
(*                                                                         *)
(* A worker that ends with an error leaves it in errCh, and a watcher      *)
(* goroutine turns it into the cancellation cause.  When the pool has      *)
(* ended the watcher may as well take the done channel, and it may also be *)
(* late.  The cause of a writer error wraps context.Canceled, so runPool   *)
(* and stopCause take it for an ordinary cancellation.                     *)
(* The feeder of a pool is left out: a batch is queued as a whole.         *)
(***************************************************************************)
EXTENDS StageExecutor, Sequences

CONSTANT BatchSize

ASSUME BatchAssumption == BatchSize \in Nat \ {0}

VARIABLES mpc,      \* the goroutine of RunScanWithChain
          at,       \* the stage of the batch, or the executor built or closed
          current,  \* the addresses of the batch that are still in
          out,      \* what the running pool has passed
          feed,     \* the batcher: "reading", "ok", "canceled", "error"
          unread,   \* addresses not yet in a batch
          batches,  \* the channel of batches
          errCh,    \* the error a worker of the pool left, or "none"
          late,     \* errors watchers of ended pools still hold
          err,      \* runBatch returns an error
          user,     \* history: the caller's context was cancelled
          ending,   \* history: a worker ended with an error that ends the scan
          result    \* what RunScanWithChain returned: "none", "nil", "error"

chainVars == <<mpc, at, current, out, feed, unread, batches, errCh, late, err,
               user, ending, result>>
vars == <<execVars, chainVars>>

Init ==
    /\ ExecInit
    /\ mpc = "build"
    /\ at = 1
    /\ current = {} /\ out = {}
    /\ feed = "reading"
    /\ unread = IPs
    /\ batches = <<>>
    /\ errCh = "none"
    /\ late = {}
    /\ err = FALSE
    /\ user = FALSE
    /\ ending = FALSE
    /\ result = "none"

UserCancel ==
    /\ ~user /\ mpc # "returned"
    /\ user' = TRUE
    /\ Cancel("canceled")
    /\ UNCHANGED <<queueVars, workerVars, countVars, openVars>>
    /\ UNCHANGED <<mpc, at, current, out, feed, unread, batches, errCh, late,
                   err, ending, result>>

-----------------------------------------------------------------------------
(* buildExecutors *)

Build ==
    /\ mpc = "build"
    /\ OpenStage(at, IF at = 1 THEN Cardinality(IPs) ELSE 0)
    /\ IF at < N THEN at' = at + 1 /\ mpc' = mpc
                 ELSE at' = 1 /\ mpc' = "next"
    /\ UNCHANGED <<current, out, feed, unread, batches, errCh, late, err,
                   user, ending, result>>

BuildFails ==
    /\ mpc = "build"
    /\ OpenStageFails(at)
    /\ mpc' = "close"
    /\ at' = 1
    /\ err' = TRUE
    /\ UNCHANGED <<current, out, feed, unread, batches, errCh, late, user,
                   ending, result>>

-----------------------------------------------------------------------------
(* streamBatches: a full batch, or what is left when the input ends. *)

Batches(size) == {b \in SUBSET unread : Cardinality(b) = size}

Feed ==
    /\ mpc \in {"next", "stage", "pool"} /\ feed = "reading"
    /\ Len(batches) < 2
    /\ unread # {}
    /\ \E b \in IF Cardinality(unread) < BatchSize THEN {unread}
                ELSE Batches(BatchSize) :
         /\ batches' = Append(batches, b)
         /\ unread' = unread \ b
    /\ feed' = IF unread' = {} THEN "ok" ELSE feed
    /\ UNCHANGED execVars
    /\ UNCHANGED <<mpc, at, current, out, errCh, late, err, user, ending, result>>

FeedCanceled ==
    /\ mpc \in {"next", "stage", "pool"} /\ feed = "reading"
    /\ CtxDone
    /\ feed' = "canceled"
    /\ UNCHANGED execVars
    /\ UNCHANGED <<mpc, at, current, out, unread, batches, errCh, late, err,
                   user, ending, result>>

(* A read error is logged, nothing else. *)
FeedFails ==
    /\ mpc \in {"next", "stage", "pool"} /\ feed = "reading"
    /\ feed' = "error"
    /\ UNCHANGED execVars
    /\ UNCHANGED <<mpc, at, current, out, unread, batches, errCh, late, err,
                   user, ending, result>>

-----------------------------------------------------------------------------
(* runBatch and processBatch *)

(* Only the limit is a cause that runPool and stopCause return. *)
CauseIsError == cause = "limit"

TakeBatch ==
    /\ mpc = "next"
    /\ batches # <<>>
    /\ batches' = Tail(batches)
    /\ IF CtxDone
         THEN mpc' = "close" /\ err' = CauseIsError /\ UNCHANGED current
         ELSE mpc' = "stage" /\ current' = Head(batches) /\ UNCHANGED err
    /\ at' = 1
    /\ UNCHANGED execVars
    /\ UNCHANGED <<out, feed, unread, errCh, late, user, ending,
                   result>>

(* Mutant: the channel of batches is not closed after a cancellation. *)
NoMoreBatchesUnlessCanceled ==
    /\ mpc = "next"
    /\ batches = <<>> /\ feed \in {"ok", "error"}
    /\ mpc' = "close"
    /\ at' = 1
    /\ err' = CauseIsError
    /\ UNCHANGED execVars
    /\ UNCHANGED <<current, out, feed, unread, batches, errCh, late, user,
                   ending, result>>

NoMoreBatches ==
    /\ mpc = "next"
    /\ batches = <<>> /\ feed # "reading"
    /\ mpc' = "close"
    /\ at' = 1
    /\ err' = CauseIsError
    /\ UNCHANGED execVars
    /\ UNCHANGED <<current, out, feed, unread, batches, errCh, late, user,
                   ending, result>>

(* The batch is through, empty, or the context is done. *)
BatchEnds ==
    /\ mpc = "stage"
    /\ at > N \/ current = {} \/ CtxDone
    /\ IF at <= N /\ CauseIsError
         THEN mpc' = "close" /\ at' = 1 /\ err' = TRUE
         ELSE mpc' = "next" /\ UNCHANGED <<at, err>>
    /\ UNCHANGED execVars
    /\ UNCHANGED <<current, out, feed, unread, batches, errCh, late, user,
                   ending, result>>

StartPool ==
    /\ mpc = "stage"
    /\ at <= N /\ current # {} /\ ~CtxDone
    /\ mpc' = "pool"
    /\ chan' = [chan EXCEPT ![at] = current]
    /\ eof' = eof \cup {at}
    /\ pc' = [w \in Workers |-> IF StageOf[w] = at THEN "idle" ELSE pc[w]]
    /\ out' = {}
    /\ errCh' = "none"
    /\ UNCHANGED <<cause, cur, slot, countVars, openVars>>
    /\ UNCHANGED <<at, current, feed, unread, batches, late, err, user,
                   ending, result>>

-----------------------------------------------------------------------------
(* The pool *)

StageWork(w) ==
    /\ mpc = "pool" /\ StageOf[w] = at
    /\ Work(w)
    /\ UNCHANGED chainVars

PassAddress(w) ==
    /\ mpc = "pool" /\ StageOf[w] = at
    /\ pc[w] = "passed"
    /\ out' = out \cup {cur[w]}
    /\ Goto(w, "idle")
    /\ UNCHANGED <<cause, queueVars, cur, slot, countVars, openVars>>
    /\ UNCHANGED <<mpc, at, current, feed, unread, batches, errCh, late, err,
                   user, ending, result>>

(* The worker ends; its error is kept if it is the first. *)
WorkerError(w) ==
    /\ mpc = "pool"
    /\ pc[w] \in {"limit", "fatal"}
    /\ errCh' = IF errCh = "none" THEN pc[w] ELSE errCh
    /\ ending' = TRUE
    /\ Goto(w, "exited")
    /\ UNCHANGED <<cause, queueVars, cur, slot, countVars, openVars>>
    /\ UNCHANGED <<mpc, at, current, out, feed, unread, batches, late, err,
                   user, result>>

WatcherCancels ==
    /\ mpc = "pool" /\ ~CtxDone
    /\ errCh # "none"
    /\ Cancel(errCh)
    /\ UNCHANGED <<queueVars, workerVars, countVars, openVars, chainVars>>

FlushFails(i) ==
    /\ mpc \in {"next", "stage", "pool"}
    /\ WriterFails(i)
    /\ UNCHANGED chainVars

(* runPool returns the cause; an error still in errCh stays with its watcher. *)
PoolEnds ==
    /\ mpc = "pool"
    /\ PoolExited(at)
    /\ chan' = [chan EXCEPT ![at] = {}]
    /\ late' = IF CtxDone THEN late ELSE late \cup ({errCh} \ {"none"})
    /\ IF CauseIsError
         THEN /\ mpc' = "close" /\ at' = 1 /\ err' = TRUE
              /\ UNCHANGED <<current, total>>
         ELSE /\ mpc' = "stage" /\ at' = at + 1 /\ UNCHANGED err
              /\ current' = out
              /\ total' = [i \in Stage |-> IF i = at + 1
                             THEN total[i] + Cardinality(out) ELSE total[i]]
    /\ UNCHANGED <<cause, eof, workerVars, processed, succeeded, probed,
                   reported, written, openVars>>
    /\ UNCHANGED <<out, feed, unread, batches, errCh, user, ending,
                   result>>

(* The watcher of an ended pool cancels late, or saw the done channel. *)
LateWatcher ==
    /\ mpc \notin {"close", "returned"}
    /\ \E e \in late :
         /\ late' = late \ {e}
         /\ Cancel(e) \/ UNCHANGED cause
    /\ UNCHANGED <<queueVars, workerVars, countVars, openVars>>
    /\ UNCHANGED <<mpc, at, current, out, feed, unread, batches, errCh, err,
                   user, ending, result>>

-----------------------------------------------------------------------------
CloseNext ==
    /\ mpc = "close"
    /\ at <= N /\ probe[at] = "open"
    /\ \E e \in BOOLEAN : CloseStage(at, e) /\ err' = (err \/ e)
    /\ at' = at + 1
    /\ UNCHANGED <<mpc, current, out, feed, unread, batches, errCh, late,
                   user, ending, result>>

(* A limit as the cause makes RunScanWithChain return nil whatever err is. *)
Return ==
    /\ mpc = "close"
    /\ \A i \in Stage : i >= at => probe[i] # "open"
    /\ mpc' = "returned"
    /\ result' = IF cause # "limit" /\ err THEN "error" ELSE "nil"
    /\ UNCHANGED execVars
    /\ UNCHANGED <<at, current, out, feed, unread, batches, errCh, late, err,
                   user, ending>>

-----------------------------------------------------------------------------
PoolStep(w) == StageWork(w) \/ PassAddress(w) \/ WorkerError(w)

MainStep == Build \/ BuildFails \/ TakeBatch \/ NoMoreBatches \/ BatchEnds
            \/ StartPool \/ PoolEnds \/ CloseNext \/ Return

Next ==
    \/ UserCancel
    \/ MainStep
    \/ Feed
    \/ FeedCanceled
    \/ FeedFails
    \/ WatcherCancels
    \/ LateWatcher
    \/ \E w \in Workers : PoolStep(w)
    \/ \E i \in Stage : FlushFails(i)

Spec == Init /\ [][Next]_vars

(* As in the streaming mode; the watcher runs, but it may come too late. *)
Fairness ==
    /\ WF_vars(MainStep)
    /\ WF_vars(Feed \/ FeedCanceled)
    /\ WF_vars(WatcherCancels)
    /\ \A w \in Workers : WF_vars(PoolStep(w))

FairSpec == Spec /\ Fairness

-----------------------------------------------------------------------------
(***************************************************************************)
(* A scan that nobody stops and whose workers met no error that ends it    *)
(* leaves no address out, in whichever batch it was.                       *)
(***************************************************************************)
Complete ==
    (mpc = "returned" /\ cause = "none" /\ feed = "ok" /\ ~ending) =>
        /\ probed[1] = IPs
        /\ \A i \in Stage \ {N} : probed[i + 1] = reported[i]
        /\ \A i \in Stage : total[i] = processed[i]

(* However the scan ends, no writer and no probe is left open. *)
ReleasedAtEnd ==
    mpc = "returned" =>
        \A i \in Stage : writer[i] \in {"new", "closed"} /\ probe[i] # "open"

(* A scan ends. *)
Terminates == <>(mpc = "returned")

(***************************************************************************)
(* close "reports an error that may have left the persisted results        *)
(* incomplete" (stage.go:102): a scan that returns nil has no writer that  *)
(* lost results.                                                           *)
(***************************************************************************)
NilMeansSaved == (result = "nil" /\ ~ignoreErr) => badWriters = {}

Contract == INSTANCE ScanContract WITH found <- reported[N],
                saved <- written[N], lost <- badWriters # {}, outcome <- result, lenient <- ignoreErr

(* RunScanWithChain forgets every other error once the limit is the cause. *)
NilAtLimit ==
    /\ cause = "limit" /\ result' = "nil"
    /\ UNCHANGED <<ignoreErr, reported, written, badWriters>>

(***************************************************************************)
(* The contract of a scan (ScanContract), but for the nil a batch scan     *)
(* returns at the limit without having saved all that it found.            *)
(***************************************************************************)
KeepsContractToLimit ==
    Contract!Init /\ [][Contract!Next \/ NilAtLimit]_Contract!contractVars
=============================================================================
