---------------------------- MODULE ResultWriter ----------------------------
(***************************************************************************)
(* The result writer of a scan stage (internal/core/result/manager.go).    *)
(*                                                                         *)
(* Workers call Write, a background goroutine collects what they enqueue   *)
(* into a batch and merges full batches, or what it has when the timer     *)
(* fires, into the result file.  Close and the cancellation of the context *)
(* end the loop.  Every Write carries its own result, so a result also     *)
(* names the call that writes it.  The order inside the channel and the    *)
(* batch is left out, the merge sorts it away; module ResultMerge has the  *)
(* merge itself, which is one step here that succeeds or fails.            *)
(***************************************************************************)
EXTENDS Naturals, FiniteSets

CONSTANTS Results,    \* the results workers write, one Write call each
          Closers,    \* goroutines that call Close
          ChanSize,   \* WriterConfig.ChanSize
          FlushSize,  \* WriterConfig.BatchSize
          IgnoreErr   \* WriterConfig.IgnoreErr

ASSUME ResultsAssumption == IsFiniteSet(Results) /\ "stale" \notin Results
ASSUME SizesAssumption == ChanSize \in Nat \ {0} /\ FlushSize \in Nat \ {0}
ASSUME IgnoreErrAssumption == IgnoreErr \in BOOLEAN

VARIABLES start,     \* Start: "new", "running" (loop spawned), "ok", "failed"
          writerDone,\* w.ctx is done
          parent,    \* the parent context was cancelled
          input,     \* contents of the channel
          inClosed,  \* the channel is closed, w.closed is set
          batch,     \* w.batch
          pending,   \* the copy a running flush merges
          timer,     \* the flush timer is armed
          lpc,       \* where the loop is
          why,       \* what the running flush was called for
          firstErr,  \* a flush error was recorded
          exited,    \* exited is closed
          closeOnce, \* closeOnce: "new", "running", "done"
          closeErr,  \* Close returns an error
          closePc,   \* where each Close call is
          writePc,   \* where each Write call is
          onFile,    \* what merges that returned nil put into the file
          written,   \* statWritten
          lost       \* history: results of failed flushes

writerVars == <<start, writerDone, parent, input, inClosed, batch, pending, timer,
          lpc, why, firstErr, exited, closeOnce, closeErr, closePc, writePc, onFile,
          written, lost>>

loopVars  == <<batch, pending, timer, lpc, why, firstErr, exited, onFile,
               written, lost>>
closeVars == <<closeOnce, closeErr, closePc, inClosed>>

Stale == "stale"   \* what an earlier scan left under the same path

WriterInit ==
    /\ start = "new"
    /\ writerDone = FALSE
    /\ parent = FALSE
    /\ input = {}
    /\ inClosed = FALSE
    /\ batch = {}
    /\ pending = {}
    /\ timer = FALSE
    /\ lpc = "off"
    /\ why = "batch"
    /\ firstErr = FALSE
    /\ exited = FALSE
    /\ closeOnce = "new"
    /\ closeErr = FALSE
    /\ closePc = [c \in Closers |-> "idle"]
    /\ writePc = [r \in Results |-> "idle"]
    /\ onFile \in {{}, {Stale}}
    /\ written = 0
    /\ lost = {}

-----------------------------------------------------------------------------
(* Start: doStart, then the started flag. *)

(* Mutant: a stale result file is kept. *)
DoStartKeepsFile ==
    /\ start = "new"
    /\ \/ start' = "failed" /\ UNCHANGED <<onFile, lpc, timer>>
       \/ /\ start' = "running"
          /\ onFile' = onFile
          /\ lpc' = "select"
          /\ timer' = TRUE
    /\ UNCHANGED <<writerDone, parent, input, batch, pending, why, firstErr,
                   exited, written, lost, closeVars, writePc>>

DoStart ==
    /\ start = "new"
    /\ \/ start' = "failed" /\ UNCHANGED <<onFile, lpc, timer>>
       \/ /\ start' = "running"
          /\ onFile' = {}
          /\ lpc' = "select"
          /\ timer' = TRUE
    /\ UNCHANGED <<writerDone, parent, input, batch, pending, why, firstErr,
                   exited, written, lost, closeVars, writePc>>

StoreStarted ==
    /\ start = "running"
    /\ start' = "ok"
    /\ UNCHANGED <<writerDone, parent, input, loopVars, closeVars, writePc>>

CancelParent ==
    /\ ~parent
    /\ parent' = TRUE
    /\ writerDone' = TRUE
    /\ UNCHANGED <<start, input, loopVars, closeVars, writePc>>

-----------------------------------------------------------------------------
(* Write: the checks, the read lock, the select. *)

WriteCheck(r) ==
    /\ writePc[r] = "idle"
    /\ writePc' = [writePc EXCEPT ![r] =
                 IF start # "ok" \/ writerDone THEN "dropped" ELSE "checked"]
    /\ UNCHANGED <<start, writerDone, parent, input, loopVars, closeVars>>

(* A Close that waits for the write lock keeps new readers out. *)
WriteLock(r) ==
    /\ writePc[r] = "checked"
    /\ \A c \in Closers : closePc[c] # "locking"
    /\ writePc' = [writePc EXCEPT ![r] = IF inClosed THEN "dropped" ELSE "sending"]
    /\ UNCHANGED <<start, writerDone, parent, input, loopVars, closeVars>>

(* Mutant: the send does not give up when the context is cancelled. *)
WriteSelectIgnoresCtx(r) ==
    /\ writePc[r] = "sending"
    /\ /\ Cardinality(input) < ChanSize
       /\ input' = input \cup {r}
       /\ writePc' = [writePc EXCEPT ![r] = "accepted"]
    /\ UNCHANGED <<start, writerDone, parent, loopVars, closeVars>>

(* When both cases are ready the select takes either one. *)
WriteSelect(r) ==
    /\ writePc[r] = "sending"
    /\ \/ /\ Cardinality(input) < ChanSize
          /\ input' = input \cup {r}
          /\ writePc' = [writePc EXCEPT ![r] = "accepted"]
       \/ /\ writerDone
          /\ writePc' = [writePc EXCEPT ![r] = "dropped"]
          /\ UNCHANGED input
    /\ UNCHANGED <<start, writerDone, parent, loopVars, closeVars>>

-----------------------------------------------------------------------------
(* Close *)

CloseEnter(c) ==
    /\ closePc[c] = "idle"
    /\ \/ closeOnce = "new" /\ closeOnce' = "running"
          /\ closePc' = [closePc EXCEPT ![c] = "locking"]
       \/ closeOnce = "done" /\ closeOnce' = closeOnce
          /\ closePc' = [closePc EXCEPT ![c] = "returned"]
    /\ UNCHANGED <<start, writerDone, parent, input, loopVars, writePc,
                   inClosed, closeErr>>

(* Mutant: the channel is closed without waiting for the readers. *)
CloseInputUnlocked(c) ==
    /\ closePc[c] = "locking"
    /\ inClosed' = TRUE
    /\ closePc' = [closePc EXCEPT ![c] = "closing"]
    /\ UNCHANGED <<start, writerDone, parent, input, loopVars, writePc,
                   closeOnce, closeErr>>

CloseInput(c) ==
    /\ closePc[c] = "locking"
    /\ \A r \in Results : writePc[r] # "sending"
    /\ inClosed' = TRUE
    /\ closePc' = [closePc EXCEPT ![c] = "closing"]
    /\ UNCHANGED <<start, writerDone, parent, input, loopVars, writePc,
                   closeOnce, closeErr>>

CloseNotStarted(c) ==
    /\ closePc[c] = "closing"
    /\ start # "ok"
    /\ writerDone' = TRUE
    /\ closeErr' = firstErr
    /\ closeOnce' = "done"
    /\ closePc' = [closePc EXCEPT ![c] = "returned"]
    /\ UNCHANGED <<start, parent, input, loopVars, writePc, inClosed>>

CloseStarted(c) ==
    /\ closePc[c] = "closing"
    /\ start = "ok"
    /\ closePc' = [closePc EXCEPT ![c] = "waiting"]
    /\ UNCHANGED <<start, writerDone, parent, input, loopVars, writePc,
                   inClosed, closeErr, closeOnce>>

(* Mutant: Close does not wait for the loop. *)
CloseWaitNot(c) ==
    /\ closePc[c] = "waiting"
    /\ closeErr' = firstErr
    /\ closeOnce' = "done"
    /\ closePc' = [closePc EXCEPT ![c] = "returned"]
    /\ UNCHANGED <<start, writerDone, parent, input, loopVars, writePc,
                   inClosed>>

CloseWait(c) ==
    /\ closePc[c] = "waiting"
    /\ exited
    /\ closeErr' = firstErr
    /\ closeOnce' = "done"
    /\ closePc' = [closePc EXCEPT ![c] = "returned"]
    /\ UNCHANGED <<start, writerDone, parent, input, loopVars, writePc,
                   inClosed>>

-----------------------------------------------------------------------------
(* The loop *)

(* A flush takes the batch away before it merges it. *)
BeginFlush(b, reason) ==
    /\ pending' = b
    /\ batch' = {}
    /\ why' = reason
    /\ lpc' = "flush"

LoopReceive ==
    /\ lpc = "select"
    /\ \E r \in input :
         /\ input' = input \ {r}
         /\ IF Cardinality(batch) + 1 >= FlushSize
              THEN BeginFlush(batch \cup {r}, "batch")
              ELSE /\ batch' = batch \cup {r}
                   /\ UNCHANGED <<pending, why, lpc>>
    /\ UNCHANGED <<start, writerDone, parent, timer, firstErr, exited, onFile,
                   written, lost, closeVars, writePc>>

LoopTimer ==
    /\ lpc = "select"
    /\ timer
    /\ timer' = FALSE
    /\ BeginFlush(batch, "timer")
    /\ UNCHANGED <<start, writerDone, parent, input, firstErr, exited, onFile,
                   written, lost, closeVars, writePc>>

LoopInputClosed ==
    /\ lpc = "select"
    /\ inClosed /\ input = {}
    /\ BeginFlush(batch, "final")
    /\ UNCHANGED <<start, writerDone, parent, input, timer, firstErr, exited,
                   onFile, written, lost, closeVars, writePc>>

LoopCtxDone ==
    /\ lpc = "select"
    /\ writerDone
    /\ lpc' = "drain"
    /\ UNCHANGED <<start, writerDone, parent, input, batch, pending, timer, why,
                   firstErr, exited, onFile, written, lost, closeVars,
                   writePc>>

DrainReceive ==
    /\ lpc = "drain"
    /\ \E r \in input : input' = input \ {r} /\ batch' = batch \cup {r}
    /\ UNCHANGED <<start, writerDone, parent, pending, timer, lpc, why,
                   firstErr, exited, onFile, written, lost, closeVars,
                   writePc>>

DrainEmpty ==
    /\ lpc = "drain"
    /\ input = {}
    /\ BeginFlush(batch, "final")
    /\ UNCHANGED <<start, writerDone, parent, input, timer, firstErr, exited,
                   onFile, written, lost, closeVars, writePc>>

(* Where a flush returns to; a flush that stands for "final" ends the loop. *)
FlushReturns(fatal) ==
    /\ lpc' = IF why = "final" THEN "cancel" ELSE "select"
    /\ writerDone' = (writerDone \/ (fatal /\ why # "final"))
    /\ timer' = (timer \/ (~fatal /\ why # "final"))

FlushMerged ==
    /\ lpc = "flush"
    /\ onFile' = onFile \cup pending
    /\ written' = written + Cardinality(pending)
    /\ pending' = {}
    /\ FlushReturns(FALSE)
    /\ UNCHANGED <<start, parent, input, batch, why, firstErr, exited, lost,
                   closeVars, writePc>>

(* An empty batch is not merged, so nothing can fail. *)
FlushFailed ==
    /\ lpc = "flush"
    /\ pending # {}
    /\ lost' = lost \cup pending
    /\ pending' = {}
    /\ firstErr' = (firstErr \/ ~IgnoreErr)
    /\ FlushReturns(~IgnoreErr)
    /\ UNCHANGED <<start, parent, input, batch, why, exited, onFile, written,
                   closeVars, writePc>>

(* The deferred calls: cancel, then close(exited). *)
LoopCancel ==
    /\ lpc = "cancel"
    /\ lpc' = "ending"
    /\ writerDone' = TRUE
    /\ timer' = FALSE
    /\ UNCHANGED <<start, parent, input, batch, pending, why, firstErr,
                   exited, onFile, written, lost, closeVars, writePc>>

LoopExit ==
    /\ lpc = "ending"
    /\ lpc' = "off"
    /\ exited' = TRUE
    /\ UNCHANGED <<start, writerDone, parent, input, batch, pending, timer, why,
                   firstErr, onFile, written, lost, closeVars, writePc>>

-----------------------------------------------------------------------------
StartCall == DoStart \/ StoreStarted

Write(r) == WriteCheck(r) \/ WriteLock(r) \/ WriteSelect(r)

CloseCall(c) == CloseEnter(c) \/ CloseInput(c) \/ CloseNotStarted(c)
            \/ CloseStarted(c) \/ CloseWait(c)

Flush == FlushMerged \/ FlushFailed

Loop == LoopReceive \/ LoopTimer \/ LoopInputClosed \/ LoopCtxDone
        \/ DrainReceive \/ DrainEmpty \/ Flush \/ LoopCancel \/ LoopExit

WriterNext ==
    \/ StartCall
    \/ CancelParent
    \/ \E r \in Results : Write(r)
    \/ \E c \in Closers : CloseCall(c)
    \/ Loop

WriterSpec == WriterInit /\ [][WriterNext]_writerVars

(***************************************************************************)
(* The goroutines run, and the loop's select, which picks a ready case at  *)
(* random, does not take the timer for ever while another case is ready.   *)
(* A Close that was called goes on; nobody has to call Close.              *)
(***************************************************************************)
WriterFairness ==
    /\ WF_writerVars(StoreStarted)
    /\ WF_writerVars(Loop)
    /\ SF_writerVars(LoopReceive)
    /\ SF_writerVars(LoopInputClosed)
    /\ SF_writerVars(LoopCtxDone)
    /\ \A r \in Results : WF_writerVars(Write(r))
    /\ \A c \in Closers :
         WF_writerVars(CloseInput(c) \/ CloseNotStarted(c) \/ CloseStarted(c)
                 \/ CloseWait(c))

WriterFairSpec == WriterSpec /\ WriterFairness

-----------------------------------------------------------------------------
FlagsOK ==
    /\ writerDone \in BOOLEAN /\ parent \in BOOLEAN /\ timer \in BOOLEAN
    /\ inClosed \in BOOLEAN /\ exited \in BOOLEAN
    /\ firstErr \in BOOLEAN /\ closeErr \in BOOLEAN

DataOK ==
    /\ input \in SUBSET Results
    /\ batch \in SUBSET Results
    /\ pending \in SUBSET Results
    /\ lost \in SUBSET Results
    /\ onFile \in SUBSET (Results \cup {Stale})
    /\ written \in Nat

ControlOK ==
    /\ start \in {"new", "running", "ok", "failed"}
    /\ lpc \in {"off", "select", "flush", "drain", "cancel", "ending"}
    /\ why \in {"batch", "timer", "final"}
    /\ closeOnce \in {"new", "running", "done"}
    /\ closePc \in [Closers -> {"idle", "locking", "closing", "waiting",
                            "returned"}]
    /\ writePc \in [Results -> {"idle", "checked", "sending", "accepted",
                            "dropped"}]

WriterTypeOK == FlagsOK /\ DataOK /\ ControlOK

(* The results whose Write returned nil. *)
Accepted == {r \in Results : writePc[r] = "accepted"}

Disjoint(A, B) == A \cap B = {}

(***************************************************************************)
(* Every result whose Write returned nil is in exactly one place: the      *)
(* channel, the batch, a running flush, the file, or a flush that failed;  *)
(* and nothing else is in any of them, the file of an earlier scan         *)
(* included.  The file holds as many results as statWritten says.          *)
(***************************************************************************)
Conservation ==
    start \in {"running", "ok"} =>
        /\ Accepted = input \cup batch \cup pending \cup lost \cup onFile
        /\ Disjoint(input, batch \cup pending \cup lost \cup onFile)
        /\ Disjoint(batch, pending \cup lost \cup onFile)
        /\ Disjoint(pending, lost \cup onFile)
        /\ Disjoint(lost, onFile)
        /\ written = Cardinality(onFile)

(***************************************************************************)
(* A Close that returns nil, with no parent cancellation and with errors   *)
(* not ignored, leaves every accepted result in the file (Close "signals   *)
(* the loop to drain and flush, waits for it to exit, and returns the      *)
(* first error encountered during flushing").                              *)
(***************************************************************************)
CloseMeansDurable ==
    ((\E c \in Closers : closePc[c] = "returned")
       /\ ~closeErr /\ ~parent /\ ~IgnoreErr)
        => Accepted \subseteq onFile

(***************************************************************************)
(* No Write is in its send while the channel is closed: a send on a closed *)
(* channel would panic (the comment on stateMu).                           *)
(***************************************************************************)
NoSendOnClosed == \A r \in Results : writePc[r] = "sending" => ~inClosed

(***************************************************************************)
(* A Write that was let in and a Close that was called return, even if the *)
(* file cannot be written any more: each is called once, and again and     *)
(* again none of them is on its way.                                       *)
(***************************************************************************)
CallsReturn ==
    []<>(/\ \A r \in Results : writePc[r] \notin {"checked", "sending"}
         /\ \A c \in Closers : closePc[c] \in {"idle", "returned"})
=============================================================================
