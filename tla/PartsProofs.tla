------------------------------ MODULE PartsProofs ------------------------------
(***************************************************************************)
(* Proofs about the parts of the core that share no state: the pause       *)
(* controller, for any number of workers, stoppers and pauses; the result  *)
(* writer, for any finite set of results, any number of closers and any    *)
(* channel and batch size; the ICMP probe, for any number of workers,      *)
(* targets, tries and sequence numbers; the import of an address list, for *)
(* every file and any size of the chunks it is sorted in; the merges of    *)
(* batches into a result file, for any keys, any batches and any number of *)
(* merges, failures and crashes.                                           *)
(***************************************************************************)
EXTENDS PauseController, ResultWriter, ResultMerge, IcmpProbe, IPImport,
        SequenceFacts, FiniteSetTheorems, SequenceTheorems, TLAPS

(***************************************************************************)
(* The pause controller.                                                   *)
(***************************************************************************)
(* Type correctness of every variable of the controller and its callers. *)
THEOREM PauseTypeCorrect == Spec => []TypeOK
<1>1. Init => TypeOK
  <2> SUFFICES ASSUME Init PROVE TypeOK
    OBVIOUS
  <2>1. entry \in [Workers -> Entry]
    BY DEF Init, Entry
  <2>2. cpc \in [Callers -> {"idle", "pausing", "resuming", "stopping",
                             "stopped", "returned"}]
    BY DEF Init
  <2> QED
    BY <2>1, <2>2 DEF Init, TypeOK, Chan
<1>2. TypeOK /\ [Next]_vars => TypeOK'
  <2> SUFFICES ASSUME TypeOK, [Next]_vars
               PROVE  TypeOK'
    OBVIOUS
  <2> USE DEF TypeOK, Chan, Callers
  <2>1. CASE PauseSwap
    BY <2>1 DEF PauseSwap
  <2>2. CASE PauseInstall
    BY <2>2 DEF PauseInstall
  <2>3. ASSUME NEW c \in Callers, ResumeSwap(c) PROVE TypeOK'
    <3>1. resumes' \in Nat
      BY <2>3 DEF ResumeSwap
    <3>2. cpc' \in [Callers -> {"idle", "pausing", "resuming", "stopping",
                                "stopped", "returned"}]
      BY <2>3 DEF ResumeSwap
    <3> QED
      BY <2>3, <3>1, <3>2 DEF ResumeSwap
  <2>4. ASSUME NEW c \in Callers, ResumeClose(c) PROVE TypeOK'
    <3>1. panicked' \in BOOLEAN
      BY <2>4 DEF ResumeClose, CloseChan
    <3>2. cpc' \in [Callers -> {"idle", "pausing", "resuming", "stopping",
                                "stopped", "returned"}]
      BY <2>4 DEF ResumeClose
    <3>3. closedChs' \in SUBSET Nat
      BY <2>4 DEF ResumeClose, CloseChan
    <3> QED
      BY <2>4, <3>1, <3>2, <3>3 DEF ResumeClose
  <2>5. ASSUME NEW c \in Stoppers, Stop(c) PROVE TypeOK'
    BY <2>5 DEF Stop, StopEnter, StopNotPaused, StopClose
  <2>6. CASE CancelContext
    BY <2>6 DEF CancelContext
  <2>7. ASSUME NEW w \in Workers, WaitEnter(w) PROVE TypeOK'
    <3>1. [stopped |-> doneCh, held |-> PauseInstalled, resumes |-> resumes]
             \in Entry
      BY DEF Entry, PauseInstalled
    <3>2. entry' \in [Workers -> Entry]
      BY <2>7, <3>1 DEF WaitEnter
    <3> QED
      BY <2>7, <3>2 DEF WaitEnter
  <2>8. ASSUME NEW w \in Workers,
               WaitPoll(w) \/ WaitLoad(w) \/ WaitSelect(w) \/ WaitGuard(w)
                 \/ Work(w)
        PROVE  TypeOK'
    BY <2>8 DEF WaitPoll, WaitLoad, WaitSelect, WaitGuard, Work
  <2>9. CASE UNCHANGED vars
    BY <2>9 DEF vars
  <2> QED
    BY <2>1, <2>2, <2>3, <2>4, <2>5, <2>6, <2>7, <2>8, <2>9 DEF Next, Wait
<1> QED
  BY <1>1, <1>2, PTL DEF Spec

-----------------------------------------------------------------------------
(* Inductive strengthening of NoPassAfterStop: doneCh stays closed. *)
StoppedEntries ==
    \A w \in Workers :
        /\ entry[w].stopped => doneCh
        /\ wpc[w] = "passed" => ~entry[w].stopped

LEMMA StoppedEntriesStep ==
    ASSUME TypeOK, StoppedEntries, [Next]_vars
    PROVE  StoppedEntries'
<1> USE DEF TypeOK, StoppedEntries, Entry
<1>1. CASE PauseSwap \/ PauseInstall \/ CancelContext
  BY <1>1 DEF PauseSwap, PauseInstall, CancelContext
<1>2. ASSUME NEW c \in Callers, ResumeSwap(c) \/ ResumeClose(c)
      PROVE  StoppedEntries'
  BY <1>2 DEF ResumeSwap, ResumeClose
<1>3. ASSUME NEW c \in Stoppers, Stop(c) PROVE StoppedEntries'
  BY <1>3 DEF Stop, StopEnter, StopNotPaused, StopClose
<1>4. ASSUME NEW w \in Workers, Wait(w) PROVE StoppedEntries'
  <2>1. CASE WaitEnter(w)
    BY <2>1 DEF WaitEnter
  <2>2. CASE WaitPoll(w) \/ WaitGuard(w)
    BY <2>2 DEF WaitPoll, WaitGuard
  <2>3. CASE WaitLoad(w) \/ WaitSelect(w) \/ Work(w)
    BY <2>3 DEF WaitLoad, WaitSelect, Work
  <2> QED
    BY <1>4, <2>1, <2>2, <2>3 DEF Wait
<1>5. CASE UNCHANGED vars
  BY <1>5 DEF vars
<1> QED
  BY <1>1, <1>2, <1>3, <1>4, <1>5 DEF Next

(* No worker gets through a Wait it calls after Stop closed doneCh. *)
THEOREM StopIsFinal == Spec => []NoPassAfterStop
<1>1. Init => StoppedEntries
  <2> SUFFICES ASSUME Init, NEW w \in Workers
               PROVE  ~entry[w].stopped
    BY DEF StoppedEntries
  <2>1. entry[w] = [stopped |-> FALSE, held |-> FALSE, resumes |-> 0]
    BY DEF Init
  <2> QED
    BY <2>1
<1>2. TypeOK /\ StoppedEntries /\ [Next]_vars => StoppedEntries'
  BY StoppedEntriesStep
<1>3. StoppedEntries => NoPassAfterStop
  BY DEF StoppedEntries, NoPassAfterStop
<1> QED
  BY <1>1, <1>2, <1>3, PauseTypeCorrect, PTL DEF Spec

-----------------------------------------------------------------------------
(* The callers' part of the strengthening of PauseHolds. *)
LEMMA CallersConsistentStep ==
    ASSUME TypeOK, CallersConsistent, [Next]_vars
    PROVE  CallersConsistent'
<1> USE CallersAssumption
        DEF TypeOK, Chan, Callers, CallersConsistent, PauseInstalled
<1>1. CASE PauseSwap
  BY <1>1 DEF PauseSwap
<1>2. CASE PauseInstall
  BY <1>2 DEF PauseInstall
<1>3. ASSUME NEW c \in Callers, ResumeSwap(c) PROVE CallersConsistent'
  BY <1>3 DEF ResumeSwap
<1>4. ASSUME NEW c \in Callers, ResumeClose(c) PROVE CallersConsistent'
  BY <1>4 DEF ResumeClose, CloseChan
<1>5. ASSUME NEW c \in Stoppers, Stop(c) PROVE CallersConsistent'
  BY <1>5 DEF Stop, StopEnter, StopNotPaused, StopClose
<1>6. CASE CancelContext
  BY <1>6 DEF CancelContext
<1>7. ASSUME NEW w \in Workers, Wait(w) PROVE CallersConsistent'
  <2>1. UNCHANGED <<cpc, closedChs, resumeCh, once, isPaused>>
    BY <1>7 DEF Wait, WaitEnter, WaitPoll, WaitLoad, WaitSelect, WaitGuard,
                Work
  <2> QED
    BY <2>1
<1>8. CASE UNCHANGED vars
  BY <1>8 DEF vars
<1> QED
  BY <1>1, <1>2, <1>3, <1>4, <1>5, <1>6, <1>7, <1>8 DEF Next

(* Without a Stop no sequence of Pause and Resume closes a channel twice. *)
THEOREM PauseResumeSafe == Spec => []PanicNeedsStop
<1>1. Init => CallersConsistent /\ PanicNeedsStop
  BY CallersAssumption
     DEF Init, Callers, CallersConsistent, PauseInstalled, PanicNeedsStop
<1>2. TypeOK /\ CallersConsistent /\ PanicNeedsStop /\ [Next]_vars
        => CallersConsistent' /\ PanicNeedsStop'
  <2> SUFFICES ASSUME TypeOK, CallersConsistent, PanicNeedsStop, [Next]_vars
               PROVE  PanicNeedsStop'
    BY CallersConsistentStep
  <2> USE DEF PanicNeedsStop
  <2>1. ASSUME NEW c \in Callers, ResumeClose(c) PROVE PanicNeedsStop'
    <3>1. CASE once = "new"
      <4>1. c = UI
        BY <2>1, <3>1 DEF ResumeClose, Callers, CallersConsistent
      <4>2. resumeCh \notin closedChs
        BY <2>1, <3>1, <4>1 DEF ResumeClose, CallersConsistent
      <4> QED
        BY <2>1, <4>2 DEF ResumeClose, CloseChan
    <3>2. CASE once # "new"
      BY <2>1, <3>2 DEF ResumeClose
    <3> QED
      BY <3>1, <3>2
  <2>2. CASE PauseSwap \/ PauseInstall \/ CancelContext
    BY <2>2 DEF PauseSwap, PauseInstall, CancelContext
  <2>3. ASSUME NEW c \in Callers, ResumeSwap(c) PROVE PanicNeedsStop'
    BY <2>3 DEF ResumeSwap
  <2>4. ASSUME NEW c \in Stoppers, Stop(c) PROVE PanicNeedsStop'
    BY <2>4 DEF Stop, StopEnter, StopNotPaused, StopClose
  <2>5. ASSUME NEW w \in Workers, Wait(w) PROVE PanicNeedsStop'
    BY <2>5 DEF Wait, WaitEnter, WaitPoll, WaitLoad, WaitSelect, WaitGuard,
                Work
  <2>6. CASE UNCHANGED vars
    BY <2>6 DEF vars
  <2> QED
    BY <2>1, <2>2, <2>3, <2>4, <2>5, <2>6 DEF Next
<1> QED
  BY <1>1, <1>2, PauseTypeCorrect, PTL DEF Spec

(* The workers' part: who met an installed pause stays on its channel. *)
LEMMA HeldWorkersStep ==
    ASSUME TypeOK, CallersConsistent, HeldWorkers, [Next]_vars
    PROVE  HeldWorkers'
<1> USE CallersAssumption
        DEF TypeOK, Chan, Callers, Entry, HeldWorkers, HeldByPause
<1>1. CASE PauseSwap
  BY <1>1 DEF PauseSwap
<1>2. CASE PauseInstall
  BY <1>2 DEF PauseInstall
<1>3. ASSUME NEW c \in Callers, ResumeSwap(c) PROVE HeldWorkers'
  <2>1. resumes' = resumes + 1 /\ entry' = entry
    BY <1>3 DEF ResumeSwap
  <2>2. ASSUME NEW w \in Workers PROVE entry[w].resumes < resumes'
    BY <2>1
  <2> QED
    BY <2>1, <2>2
<1>4. ASSUME NEW c \in Callers, ResumeClose(c) PROVE HeldWorkers'
  BY <1>4 DEF ResumeClose, CloseChan
<1>5. ASSUME NEW c \in Stoppers, Stop(c) PROVE HeldWorkers'
  BY <1>5 DEF Stop, StopEnter, StopNotPaused, StopClose
<1>6. CASE CancelContext
  BY <1>6 DEF CancelContext
<1>7. ASSUME NEW w \in Workers, Wait(w) PROVE HeldWorkers'
  <2>1. CASE WaitEnter(w)
    BY <2>1 DEF WaitEnter, CallersConsistent, PauseInstalled
  <2>2. CASE WaitPoll(w)
    BY <2>2 DEF WaitPoll
  <2>3. CASE WaitLoad(w)
    BY <2>3 DEF WaitLoad
  <2>4. CASE WaitSelect(w)
    BY <2>4 DEF WaitSelect
  <2>5. CASE WaitGuard(w) \/ Work(w)
    BY <2>5 DEF WaitGuard, Work
  <2> QED
    BY <1>7, <2>1, <2>2, <2>3, <2>4, <2>5 DEF Wait
<1>8. CASE UNCHANGED vars
  BY <1>8 DEF vars
<1> QED
  BY <1>1, <1>2, <1>3, <1>4, <1>5, <1>6, <1>7, <1>8 DEF Next

(* A worker that met an installed pause waits for a Resume. *)
THEOREM PauseHoldsAlways == Spec => []PauseHolds
<1>1. Init => CallersConsistent /\ HeldWorkers
  BY CallersAssumption
     DEF Init, Callers, CallersConsistent, PauseInstalled, HeldWorkers
<1>2. TypeOK /\ CallersConsistent /\ HeldWorkers /\ [Next]_vars
        => CallersConsistent' /\ HeldWorkers'
  BY CallersConsistentStep, HeldWorkersStep
<1>3. TypeOK /\ HeldWorkers => PauseHolds
  <2> SUFFICES ASSUME TypeOK, HeldWorkers, NEW w \in Workers,
                      wpc[w] = "passed", entry[w].held
               PROVE  resumes > entry[w].resumes
    BY DEF PauseHolds
  <2>1. resumes \in Nat /\ entry[w].resumes \in Nat
    BY DEF TypeOK, Entry
  <2>2. entry[w].resumes <= resumes
    BY DEF HeldWorkers
  <2>3. entry[w].resumes # resumes
    BY DEF HeldWorkers, HeldByPause
  <2> QED
    BY <2>1, <2>2, <2>3
<1> QED
  BY <1>1, <1>2, <1>3, PauseTypeCorrect, PTL DEF Spec

-----------------------------------------------------------------------------
(***************************************************************************)
(* The result writer.                                                      *)
(***************************************************************************)
LEMMA FlagsStep == ASSUME WriterTypeOK, [WriterNext]_writerVars PROVE FlagsOK'
<1> USE IgnoreErrAssumption DEF WriterTypeOK, FlagsOK, loopVars, closeVars
<1>1. CASE StartCall \/ CancelParent
  BY <1>1 DEF StartCall, DoStart, StoreStarted, CancelParent
<1>2. ASSUME NEW r \in Results, Write(r) PROVE FlagsOK'
  BY <1>2 DEF Write, WriteCheck, WriteLock, WriteSelect
<1>3. ASSUME NEW c \in Closers, CloseCall(c) PROVE FlagsOK'
  BY <1>3 DEF CloseCall, CloseEnter, CloseInput, CloseNotStarted, CloseStarted,
              CloseWait
<1>4. CASE LoopReceive \/ LoopTimer \/ LoopInputClosed \/ LoopCtxDone
             \/ DrainReceive \/ DrainEmpty \/ LoopCancel \/ LoopExit
  BY <1>4 DEF LoopReceive, LoopTimer, LoopInputClosed, LoopCtxDone,
              DrainReceive, DrainEmpty, LoopCancel, LoopExit
<1>5. CASE Flush
  <2>1. writerDone' \in BOOLEAN /\ timer' \in BOOLEAN
    BY <1>5 DEF Flush, FlushMerged, FlushFailed, FlushReturns
  <2>2. firstErr' \in BOOLEAN
    BY <1>5 DEF Flush, FlushMerged, FlushFailed
  <2>3. UNCHANGED <<parent, inClosed, exited, closeErr>>
    BY <1>5 DEF Flush, FlushMerged, FlushFailed
  <2> QED
    BY <2>1, <2>2, <2>3
<1>6. CASE UNCHANGED writerVars
  BY <1>6 DEF writerVars
<1> QED
  BY <1>1, <1>2, <1>3, <1>4, <1>5, <1>6 DEF WriterNext, Loop

LEMMA DataStep == ASSUME WriterTypeOK, [WriterNext]_writerVars PROVE DataOK'
<1> USE DEF WriterTypeOK, DataOK, loopVars, closeVars
<1>1. CASE StartCall \/ CancelParent
  BY <1>1 DEF StartCall, DoStart, StoreStarted, CancelParent
<1>2. ASSUME NEW r \in Results, Write(r) PROVE DataOK'
  BY <1>2 DEF Write, WriteCheck, WriteLock, WriteSelect
<1>3. ASSUME NEW c \in Closers, CloseCall(c) PROVE DataOK'
  BY <1>3 DEF CloseCall, CloseEnter, CloseInput, CloseNotStarted, CloseStarted,
              CloseWait
<1>4. CASE LoopReceive
  BY <1>4 DEF LoopReceive, BeginFlush
<1>5. CASE LoopTimer \/ LoopInputClosed \/ LoopCtxDone
             \/ DrainReceive \/ DrainEmpty \/ LoopCancel \/ LoopExit
  BY <1>5 DEF LoopTimer, LoopInputClosed, LoopCtxDone, DrainReceive,
              DrainEmpty, LoopCancel, LoopExit, BeginFlush
<1>6. CASE FlushMerged
  <2>1. Cardinality(pending) \in Nat
    BY ResultsAssumption, FS_Subset, FS_CardinalityType
  <2> QED
    BY <1>6, <2>1 DEF FlushMerged
<1>7. CASE FlushFailed
  BY <1>7 DEF FlushFailed
<1>8. CASE UNCHANGED writerVars
  BY <1>8 DEF writerVars
<1> QED
  BY <1>1, <1>2, <1>3, <1>4, <1>5, <1>6, <1>7, <1>8 DEF WriterNext, Loop, Flush

LEMMA ControlStep == ASSUME WriterTypeOK, [WriterNext]_writerVars PROVE ControlOK'
<1> USE DEF WriterTypeOK, ControlOK, loopVars, closeVars
<1>1. CASE StartCall \/ CancelParent
  BY <1>1 DEF StartCall, DoStart, StoreStarted, CancelParent
<1>2. ASSUME NEW r \in Results, Write(r) PROVE ControlOK'
  BY <1>2 DEF Write, WriteCheck, WriteLock, WriteSelect
<1>3. ASSUME NEW c \in Closers, CloseCall(c) PROVE ControlOK'
  BY <1>3 DEF CloseCall, CloseEnter, CloseInput, CloseNotStarted, CloseStarted,
              CloseWait
<1>4. CASE LoopReceive
  BY <1>4 DEF LoopReceive, BeginFlush
<1>5. CASE LoopTimer \/ LoopInputClosed \/ LoopCtxDone
             \/ DrainReceive \/ DrainEmpty \/ LoopCancel \/ LoopExit
  BY <1>5 DEF LoopTimer, LoopInputClosed, LoopCtxDone, DrainReceive,
              DrainEmpty, LoopCancel, LoopExit, BeginFlush
<1>6. CASE Flush
  BY <1>6 DEF Flush, FlushMerged, FlushFailed, FlushReturns
<1>7. CASE UNCHANGED writerVars
  BY <1>7 DEF writerVars
<1> QED
  BY <1>1, <1>2, <1>3, <1>4, <1>5, <1>6, <1>7 DEF WriterNext, Loop

(* Type correctness of the writer's state. *)
THEOREM WriterTypeCorrect == WriterSpec => []WriterTypeOK
<1>1. WriterInit => WriterTypeOK
  <2>1. WriterInit => FlagsOK
    BY DEF WriterInit, FlagsOK
  <2>2. WriterInit => DataOK
    BY DEF WriterInit, DataOK
  <2>3. WriterInit => ControlOK
    BY DEF WriterInit, ControlOK
  <2> QED
    BY <2>1, <2>2, <2>3 DEF WriterTypeOK
<1>2. WriterTypeOK /\ [WriterNext]_writerVars => WriterTypeOK'
  BY FlagsStep, DataStep, ControlStep DEF WriterTypeOK
<1> QED
  BY <1>1, <1>2, PTL DEF WriterSpec

-----------------------------------------------------------------------------
(***************************************************************************)
(* What Conservation rests on.  Before the loop is spawned nothing is      *)
(* stored, and while no flush runs nothing is pending, so no flush         *)
(* overwrites the results of another one.                                  *)
(***************************************************************************)
BeforeStart ==
    start \in {"new", "failed"} =>
        /\ lpc = "off"
        /\ input = {} /\ batch = {} /\ pending = {} /\ lost = {}
        /\ written = 0

NotYetWriting ==
    start # "ok" => \A r \in Results : writePc[r] \in {"idle", "dropped"}

NoPending == lpc # "flush" => pending = {}

Partition ==
    start \in {"running", "ok"} =>
        /\ \A r \in Results :
             writePc[r] = "accepted" <=>
               r \in input \cup batch \cup pending \cup lost \cup onFile
        /\ onFile \subseteq Results
        /\ Disjoint(input, batch \cup pending \cup lost \cup onFile)
        /\ Disjoint(batch, pending \cup lost \cup onFile)
        /\ Disjoint(pending, lost \cup onFile)
        /\ Disjoint(lost, onFile)

Counted == start \in {"running", "ok"} => written = Cardinality(onFile)

StoreInv == BeforeStart /\ NotYetWriting /\ NoPending /\ Partition /\ Counted

LEMMA StoreStep == ASSUME WriterTypeOK, StoreInv, [WriterNext]_writerVars PROVE StoreInv'
<1> USE DEF WriterTypeOK, ControlOK, DataOK, StoreInv, BeforeStart, NotYetWriting,
            NoPending, loopVars, closeVars
<1>1. CASE DoStart
  <2>1. BeforeStart' /\ NotYetWriting' /\ NoPending'
    BY <1>1 DEF DoStart
  <2>2. Partition'
    BY <1>1 DEF DoStart, Partition, Disjoint
  <2>3. Counted'
    BY <1>1, FS_EmptySet DEF DoStart, Counted
  <2> QED
    BY <2>1, <2>2, <2>3
<1>2. CASE StoreStarted
  BY <1>2 DEF StoreStarted, Partition, Counted
<1>3. CASE CancelParent
  BY <1>3 DEF CancelParent, Partition, Counted
<1>4. ASSUME NEW r \in Results, Write(r) PROVE StoreInv'
  <2>1. CASE WriteCheck(r) \/ WriteLock(r)
    BY <2>1 DEF WriteCheck, WriteLock, Partition, Counted
  <2>2. CASE WriteSelect(r)
    BY <2>2 DEF WriteSelect, Partition, Counted, Disjoint
  <2> QED
    BY <1>4, <2>1, <2>2 DEF Write
<1>5. ASSUME NEW c \in Closers, CloseCall(c) PROVE StoreInv'
  <2>1. UNCHANGED <<start, lpc, input, batch, pending, lost, onFile, written,
                    writePc>>
    BY <1>5 DEF CloseCall, CloseEnter, CloseInput, CloseNotStarted, CloseStarted,
                CloseWait
  <2> QED
    BY <2>1 DEF Partition, Counted
<1>6. CASE LoopReceive
  <2>1. start \in {"running", "ok"}
    BY <1>6 DEF LoopReceive
  <2> QED
    BY <1>6, <2>1 DEF LoopReceive, BeginFlush, Partition, Counted, Disjoint
<1>7. CASE LoopTimer \/ LoopInputClosed \/ LoopCtxDone \/ DrainEmpty
  BY <1>7 DEF LoopTimer, LoopInputClosed, LoopCtxDone, DrainEmpty, BeginFlush,
              Partition, Counted, Disjoint
<1>8. CASE DrainReceive
  BY <1>8 DEF DrainReceive, Partition, Counted, Disjoint
<1>9. CASE FlushMerged
  <2>1. start \in {"running", "ok"} /\ start' = start
    BY <1>9 DEF FlushMerged
  <2>2. BeforeStart' /\ NotYetWriting' /\ NoPending'
    BY <1>9, <2>1 DEF FlushMerged
  <2>3. Partition'
    BY <1>9 DEF FlushMerged, Partition, Disjoint
  <2>4. IsFiniteSet(pending) /\ IsFiniteSet(onFile)
    BY <2>1, ResultsAssumption, FS_Subset DEF Partition
  <2>5. Cardinality(onFile \cup pending)
          = Cardinality(onFile) + Cardinality(pending)
              - Cardinality(onFile \cap pending)
    BY <2>4, FS_Union
  <2>6. onFile \cap pending = {}
    BY <2>1 DEF Partition, Disjoint
  <2>7. Cardinality(onFile \cap pending) = 0
    BY <2>6, FS_EmptySet
  <2>8. Cardinality(onFile) \in Nat /\ Cardinality(pending) \in Nat
    BY <2>4, FS_CardinalityType
  <2>9. Counted'
    BY <1>9, <2>1, <2>5, <2>7, <2>8 DEF FlushMerged, Counted
  <2> QED
    BY <2>2, <2>3, <2>9
<1>10. CASE FlushFailed
  BY <1>10 DEF FlushFailed, FlushReturns, Partition, Counted, Disjoint
<1>11. CASE LoopCancel \/ LoopExit
  BY <1>11 DEF LoopCancel, LoopExit, Partition, Counted
<1>12. CASE UNCHANGED writerVars
  BY <1>12 DEF writerVars, Partition, Counted
<1> QED
  BY <1>1, <1>2, <1>3, <1>4, <1>5, <1>6, <1>7, <1>8, <1>9, <1>10, <1>11,
     <1>12 DEF WriterNext, StartCall, Loop, Flush

(* Every accepted result is accounted for exactly once. *)
THEOREM ConservationAlways == WriterSpec => []Conservation
<1>1. WriterInit => StoreInv
  BY DEF WriterInit, StoreInv, BeforeStart, NotYetWriting, NoPending, Partition,
         Counted
<1>2. WriterTypeOK /\ StoreInv /\ [WriterNext]_writerVars => StoreInv'
  BY StoreStep
<1>3. WriterTypeOK /\ StoreInv => Conservation
  BY DEF WriterTypeOK, DataOK, StoreInv, Partition, Counted, Conservation, Accepted
<1> QED
  BY <1>1, <1>2, <1>3, WriterTypeCorrect, PTL DEF WriterSpec

-----------------------------------------------------------------------------
(***************************************************************************)
(* What CloseMeansDurable rests on.  The channel is closed only when no    *)
(* Write is in its send.  As long as no parent cancellation and no flush   *)
(* error happened, the loop can have been cancelled only by a Close that   *)
(* found it not started, and then nothing was ever accepted; otherwise it  *)
(* reaches its final flush with the channel closed and empty.              *)
(***************************************************************************)
NoneSending == \A r \in Results : writePc[r] # "sending"

Finishing == \/ lpc = "flush" /\ why = "final"
             \/ lpc \in {"cancel", "ending"}
             \/ exited

Healthy == ~parent /\ ~firstErr

NothingAccepted ==
    inClosed /\ \A r \in Results : writePc[r] # "accepted"

ClosedInv ==
    /\ inClosed => NoneSending
    /\ closeOnce = "done" => inClosed
    /\ \A c \in Closers :
         /\ closePc[c] = "idle" \/ closeOnce # "new"
         /\ closePc[c] \in {"closing", "waiting", "returned"} => inClosed
         /\ closePc[c] = "returned" => closeOnce = "done"

LoopInv ==
    /\ exited => lpc = "off" /\ start \in {"running", "ok"}
    /\ Finishing => batch = {}
    /\ lost # {} => (firstErr \/ IgnoreErr)
    /\ Healthy /\ writerDone =>
         NothingAccepted \/ lpc = "ending" \/ exited
    /\ Healthy /\ lpc = "drain" => NothingAccepted
    /\ Healthy /\ Finishing => inClosed /\ input = {}

DoneInv ==
    closeOnce = "done" =>
        \/ NothingAccepted
        \/ exited /\ closeErr = firstErr

CloseInv == ClosedInv /\ LoopInv /\ DoneInv

LEMMA ClosedStep ==
    ASSUME WriterTypeOK, CloseInv, [WriterNext]_writerVars PROVE ClosedInv'
<1> USE DEF WriterTypeOK, ControlOK, CloseInv, ClosedInv, NoneSending, loopVars,
            closeVars
<1>1. CASE StartCall \/ CancelParent
  BY <1>1 DEF StartCall, DoStart, StoreStarted, CancelParent
<1>2. ASSUME NEW r \in Results, Write(r) PROVE ClosedInv'
  BY <1>2 DEF Write, WriteCheck, WriteLock, WriteSelect
<1>3. ASSUME NEW c \in Closers, CloseCall(c) PROVE ClosedInv'
  <2>1. CASE CloseEnter(c)
    BY <2>1 DEF CloseEnter
  <2>2. CASE CloseInput(c)
    BY <2>2 DEF CloseInput
  <2>3. CASE CloseNotStarted(c)
    BY <2>3 DEF CloseNotStarted
  <2>4. CASE CloseStarted(c)
    BY <2>4 DEF CloseStarted
  <2>5. CASE CloseWait(c)
    BY <2>5 DEF CloseWait
  <2> QED
    BY <1>3, <2>1, <2>2, <2>3, <2>4, <2>5 DEF CloseCall
<1>4. CASE Loop
  <2>1. UNCHANGED <<closePc, writePc, inClosed, closeOnce>>
    BY <1>4 DEF Loop, LoopReceive, LoopTimer, LoopInputClosed, LoopCtxDone,
                DrainReceive, DrainEmpty, Flush, FlushMerged, FlushFailed,
                LoopCancel, LoopExit
  <2> QED
    BY <2>1
<1>5. CASE UNCHANGED writerVars
  BY <1>5 DEF writerVars
<1> QED
  BY <1>1, <1>2, <1>3, <1>4, <1>5 DEF WriterNext

LEMMA LoopStep ==
    ASSUME WriterTypeOK, StoreInv, CloseInv, [WriterNext]_writerVars PROVE LoopInv'
<1> USE DEF WriterTypeOK, ControlOK, FlagsOK, CloseInv, LoopInv, Finishing, Healthy,
            NothingAccepted, loopVars, closeVars
<1>1. CASE DoStart
  BY <1>1 DEF DoStart, StoreInv, BeforeStart
<1>2. CASE StoreStarted \/ CancelParent
  BY <1>2 DEF StoreStarted, CancelParent
<1>3. ASSUME NEW r \in Results, Write(r) PROVE LoopInv'
  BY <1>3 DEF Write, WriteCheck, WriteLock, WriteSelect, ClosedInv, NoneSending
<1>4. ASSUME NEW c \in Closers, CloseCall(c) PROVE LoopInv'
  <2>1. CASE CloseEnter(c) \/ CloseInput(c) \/ CloseStarted(c) \/ CloseWait(c)
    BY <2>1 DEF CloseEnter, CloseInput, CloseStarted, CloseWait
  <2>2. CASE CloseNotStarted(c)
    BY <2>2 DEF CloseNotStarted, ClosedInv, StoreInv, NotYetWriting
  <2> QED
    BY <1>4, <2>1, <2>2 DEF CloseCall
<1>5. CASE LoopReceive
  BY <1>5 DEF LoopReceive, BeginFlush
<1>6. CASE LoopTimer \/ LoopInputClosed \/ LoopCtxDone \/ DrainReceive
  BY <1>6 DEF LoopTimer, LoopInputClosed, LoopCtxDone, DrainReceive, BeginFlush
<1>7. CASE DrainEmpty
  BY <1>7 DEF DrainEmpty, BeginFlush
<1>8. CASE FlushMerged
  BY <1>8 DEF FlushMerged, FlushReturns
<1>9. CASE FlushFailed
  <2>1. CASE why = "final"
    BY <1>9, <2>1 DEF FlushFailed, FlushReturns
  <2>2. CASE why # "final"
    BY <1>9, <2>2, IgnoreErrAssumption DEF FlushFailed, FlushReturns
  <2> QED
    BY <2>1, <2>2
<1>10. CASE LoopCancel \/ LoopExit
  BY <1>10 DEF LoopCancel, LoopExit, StoreInv, BeforeStart
<1>11. CASE UNCHANGED writerVars
  BY <1>11 DEF writerVars
<1> QED
  BY <1>1, <1>2, <1>3, <1>4, <1>5, <1>6, <1>7, <1>8, <1>9, <1>10, <1>11
     DEF WriterNext, StartCall, Loop, Flush

LEMMA DoneStep ==
    ASSUME WriterTypeOK, StoreInv, CloseInv, [WriterNext]_writerVars PROVE DoneInv'
<1> USE DEF WriterTypeOK, ControlOK, CloseInv, DoneInv, NothingAccepted, loopVars,
            closeVars
<1>1. CASE StartCall \/ CancelParent
  BY <1>1 DEF StartCall, DoStart, StoreStarted, CancelParent
<1>2. ASSUME NEW r \in Results, Write(r) PROVE DoneInv'
  <2>1. UNCHANGED <<closeOnce, exited, closeErr, firstErr, inClosed>>
    BY <1>2 DEF Write, WriteCheck, WriteLock, WriteSelect
  <2>2. NothingAccepted => NothingAccepted'
    BY <1>2 DEF Write, WriteCheck, WriteLock, WriteSelect, ClosedInv,
                NoneSending
  <2> QED
    BY <2>1, <2>2 DEF DoneInv
<1>3. ASSUME NEW c \in Closers, CloseCall(c) PROVE DoneInv'
  BY <1>3 DEF CloseCall, CloseEnter, CloseInput, CloseNotStarted, CloseStarted,
              CloseWait, ClosedInv, StoreInv, NotYetWriting
<1>4. CASE Loop
  BY <1>4 DEF Loop, LoopReceive, LoopTimer, LoopInputClosed, LoopCtxDone,
              DrainReceive, DrainEmpty, Flush, FlushMerged, FlushFailed,
              LoopCancel, LoopExit, LoopInv
<1>5. CASE UNCHANGED writerVars
  BY <1>5 DEF writerVars
<1> QED
  BY <1>1, <1>2, <1>3, <1>4, <1>5 DEF WriterNext

LEMMA CloseInvAlways == WriterSpec => [](WriterTypeOK /\ StoreInv /\ CloseInv)
<1>1. WriterInit => StoreInv
  BY DEF WriterInit, StoreInv, BeforeStart, NotYetWriting, NoPending, Partition,
         Counted
<1>2. WriterInit => CloseInv
  BY DEF WriterInit, CloseInv, ClosedInv, LoopInv, DoneInv, Finishing, Healthy
<1>3. WriterTypeOK /\ StoreInv /\ CloseInv /\ [WriterNext]_writerVars => StoreInv' /\ CloseInv'
  BY StoreStep, ClosedStep, LoopStep, DoneStep DEF CloseInv
<1> QED
  BY <1>1, <1>2, <1>3, WriterTypeCorrect, PTL DEF WriterSpec

(* A Close without error, cancellation or ignored errors loses nothing. *)
THEOREM CloseMeansDurableAlways == WriterSpec => []CloseMeansDurable
<1>1. WriterTypeOK /\ StoreInv /\ CloseInv => CloseMeansDurable
  <2> SUFFICES ASSUME WriterTypeOK, StoreInv, CloseInv,
                      NEW c \in Closers, closePc[c] = "returned",
                      ~closeErr, ~parent, ~IgnoreErr,
                      NEW r \in Results, writePc[r] = "accepted"
               PROVE  r \in onFile
    BY DEF CloseMeansDurable, Accepted
  <2>1. exited /\ ~firstErr
    BY DEF CloseInv, ClosedInv, DoneInv, NothingAccepted, WriterTypeOK, FlagsOK
  <2>2. input = {} /\ batch = {} /\ lost = {} /\ pending = {}
    BY <2>1 DEF CloseInv, LoopInv, Finishing, Healthy, StoreInv, NoPending
  <2>3. start \in {"running", "ok"}
    BY DEF StoreInv, NotYetWriting
  <2> QED
    BY <2>2, <2>3 DEF StoreInv, Partition
<1> QED
  BY <1>1, CloseInvAlways, PTL

(* No Write sends on the closed channel. *)
THEOREM NoSendOnClosedAlways == WriterSpec => []NoSendOnClosed
<1>1. WriterTypeOK /\ StoreInv /\ CloseInv => NoSendOnClosed
  BY DEF CloseInv, ClosedInv, NoneSending, NoSendOnClosed
<1> QED
  BY <1>1, CloseInvAlways, PTL

-----------------------------------------------------------------------------
(***************************************************************************)
(* The ICMP probe: a reply counts only for the ping it answers.            *)
(***************************************************************************)
Waiters == [who : Pingers, ip : Targets, run : Nat, try : Nat]
Pings == [at : {"idle", "try", "send", "wait", "leave", "leaveOK", "ok", "failed"},
          ip : Targets, try : Nat, seq : Seqs, runs : Nat, age : 0..SeqSpace, signal : BOOLEAN]

IcmpTypeOK ==
  /\ seq \in Seqs
  /\ waiters \in [Seqs -> Waiters \cup {NoWaiter}]
  /\ ping \in [Pingers -> Pings]
  /\ asked \subseteq Seqs \X Targets
  /\ reader \in [waiter : Waiters \cup {NoWaiter}, from : Targets \cup {NoWaiter}]
  /\ stopped \in BOOLEAN

(* Every signal, and what follows from it, comes from a target that answers. *)
FromAnswering ==
  /\ reader.waiter # NoWaiter => reader.from \in Answering
  /\ \A w \in Pingers :
       ping[w].signal \/ ping[w].at \in {"leaveOK", "ok"} => ping[w].ip \in Answering

(* While the numbers have not come round since a live ping took its own, its  *)
(* age is the distance to the last number handed out, and no two live pings  *)
(* are as old as each other.                                                 *)
AgesTell ==
  \A w \in Pingers : Live(w) /\ ping[w].age < SeqSpace =>
    /\ seq = ping[w].seq + ping[w].age \/ seq + SeqSpace = ping[w].seq + ping[w].age
    /\ \A v \in Pingers \ {w} : Live(v) => ping[v].age # ping[w].age

IcmpInv == IcmpTypeOK /\ FromAnswering /\ AgesTell

(* The next number is one more, or starts over.                              *)
LEMMA NextNumber ==
  ASSUME NEW s \in Seqs
  PROVE  /\ (s + 1) % SeqSpace \in Seqs
         /\ (s + 1) % SeqSpace = IF s + 1 = SeqSpace THEN 0 ELSE s + 1
<1>1. SeqSpace \in Nat /\ SeqSpace > 0 /\ s \in Nat /\ s < SeqSpace
  BY IcmpAssumption DEF Seqs
<1>2. CASE s + 1 = SeqSpace
  <2>1. SeqSpace % SeqSpace = 0
    BY <1>1, Z3
  <2> QED
    BY <1>1, <1>2, <2>1 DEF Seqs
<1>3. CASE s + 1 < SeqSpace
  <2>1. (s + 1) % SeqSpace = s + 1
    BY <1>1, <1>3, Z3
  <2> QED
    BY <1>1, <1>3, <2>1 DEF Seqs
<1> QED
  BY <1>1, <1>2, <1>3

LEMMA IdleType == Idle \in Pings
  BY IcmpAssumption DEF Idle, Pings, Seqs

LEMMA IcmpInitially == IcmpInit => IcmpInv
<1> SUFFICES ASSUME IcmpInit PROVE IcmpInv
  OBVIOUS
<1>1. \A w \in Pingers : ping[w].at = "idle" /\ ping[w].signal = FALSE
  BY DEF IcmpInit, Idle
<1>2. 0 \in Seqs
  BY IcmpAssumption DEF Seqs
<1>3. IcmpTypeOK
  BY <1>2, IdleType DEF IcmpInit, IcmpTypeOK
<1>4. FromAnswering /\ AgesTell
  BY <1>1 DEF IcmpInit, FromAnswering, AgesTell, Live
<1> QED
  BY <1>3, <1>4 DEF IcmpInv

(* A worker that stays what it is, or stops being live, disturbs no age.      *)
LEMMA AgesSame ==
  ASSUME IcmpInv, UNCHANGED seq,
         \A v \in Pingers : Live(v)' =>
            Live(v) /\ ping'[v].seq = ping[v].seq /\ ping'[v].age = ping[v].age
  PROVE  AgesTell'
  BY DEF IcmpInv, AgesTell

(* What a change of one ping leaves alone.                                   *)
LEMMA OnePing ==
  ASSUME IcmpTypeOK, NEW w \in Pingers, NEW p \in Pings, ping' = [ping EXCEPT ![w] = p]
  PROVE  /\ ping' \in [Pingers -> Pings]
         /\ ping'[w] = p
         /\ \A v \in Pingers \ {w} : ping'[v] = ping[v]
  BY DEF IcmpTypeOK

LEMMA StartRunKeeps ==
  ASSUME IcmpInv, NEW w \in Pingers, StartRun(w)
  PROVE  IcmpInv'
<1> PICK t \in Targets :
      ping' = [ping EXCEPT ![w] = [Idle EXCEPT !.at = "try", !.ip = t, !.runs = ping[w].runs + 1]]
  BY DEF StartRun
<1> DEFINE p == [Idle EXCEPT !.at = "try", !.ip = t, !.runs = ping[w].runs + 1]
<1>1. p \in Pings /\ p.at = "try" /\ p.signal = FALSE
  <2>1. ping[w].runs + 1 \in Nat
    BY DEF IcmpInv, IcmpTypeOK, Pings
  <2>2. Idle \in Pings /\ Idle.signal = FALSE
    BY IdleType DEF Idle
  <2> QED
    BY <2>1, <2>2 DEF Pings
<1> HIDE DEF p
<1>2. /\ ping' \in [Pingers -> Pings] /\ ping'[w] = p
      /\ \A v \in Pingers \ {w} : ping'[v] = ping[v]
  BY <1>1, OnePing DEF IcmpInv, p
<1>3. IcmpTypeOK'
  BY <1>2 DEF IcmpInv, IcmpTypeOK, StartRun
<1>4. FromAnswering'
  BY <1>1, <1>2 DEF IcmpInv, FromAnswering, StartRun
<1>5. AgesTell'
  BY <1>1, <1>2, AgesSame DEF StartRun, Live
<1> QED
  BY <1>3, <1>4, <1>5 DEF IcmpInv

(* GiveUp, Send, Wake and Leave only move a worker on.                        *)
LEMMA MoveKeeps ==
  ASSUME IcmpInv, NEW w \in Pingers, GiveUp(w) \/ Send(w) \/ Wake(w) \/ Leave(w)
  PROVE  IcmpInv'
<1>1. PICK a \in {"wait", "leave", "leaveOK", "ok", "try", "failed"} :
        /\ ping' = [ping EXCEPT ![w].at = a]
        /\ a \in {"leaveOK", "ok"} => ping[w].signal \/ ping[w].at \in {"leaveOK", "ok"}
        /\ a \in {"wait", "leave", "leaveOK"} => Live(w)
  BY DEF GiveUp, Send, Wake, Leave, Live
<1> DEFINE p == [ping[w] EXCEPT !.at = a]
<1>2. ping[w] \in Pings
  BY DEF IcmpInv, IcmpTypeOK
<1>3. /\ p \in Pings /\ p.at = a /\ p.ip = ping[w].ip /\ p.signal = ping[w].signal
      /\ p.seq = ping[w].seq /\ p.age = ping[w].age
  BY <1>2 DEF Pings
<1>4. ping' = [ping EXCEPT ![w] = p]
  BY <1>1
<1> HIDE DEF p
<1>5. /\ ping' \in [Pingers -> Pings] /\ ping'[w] = p
      /\ \A v \in Pingers \ {w} : ping'[v] = ping[v]
  BY <1>3, <1>4, OnePing DEF IcmpInv
<1>6. UNCHANGED <<seq, reader, stopped>>
  BY DEF GiveUp, Send, Wake, Leave
<1>7. asked' \subseteq Seqs \X Targets
  <2>1. ping[w].seq \in Seqs /\ ping[w].ip \in Targets
    BY <1>2 DEF Pings
  <2> QED
    BY <2>1 DEF IcmpInv, IcmpTypeOK, GiveUp, Send, Wake, Leave
<1>8. waiters' \in [Seqs -> Waiters \cup {NoWaiter}]
  BY DEF IcmpInv, IcmpTypeOK, GiveUp, Send, Wake, Leave
<1>9. IcmpTypeOK'
  BY <1>5, <1>6, <1>7, <1>8 DEF IcmpInv, IcmpTypeOK
<1>10. FromAnswering'
  BY <1>1, <1>3, <1>5, <1>6 DEF IcmpInv, FromAnswering
<1>11. AgesTell'
  BY <1>1, <1>3, <1>5, <1>6, AgesSame DEF Live
<1> QED
  BY <1>9, <1>10, <1>11 DEF IcmpInv

(* Register makes every age one more and starts the new ping at none.        *)
LEMMA RegisterPings ==
  ASSUME IcmpInv, NEW w \in Pingers, Register(w)
  PROVE  /\ ping' \in [Pingers -> Pings]
         /\ ping'[w].at = "send" /\ ping'[w].seq = seq' /\ ping'[w].age = 0
         /\ ping'[w].signal = FALSE
         /\ \A v \in Pingers \ {w} :
              /\ ping'[v].at = ping[v].at /\ ping'[v].signal = ping[v].signal
              /\ ping'[v].ip = ping[v].ip /\ ping'[v].seq = ping[v].seq
              /\ ping'[v].runs = ping[v].runs /\ ping'[v].try = ping[v].try
              /\ ping'[v].age = IF ping[v].age < SeqSpace THEN ping[v].age + 1 ELSE ping[v].age
<1> DEFINE new == [ping[w] EXCEPT !.at = "send", !.try = @ + 1, !.seq = seq',
                                  !.age = 0, !.signal = FALSE]
           older(v) == [ping[v] EXCEPT !.age = IF @ < SeqSpace THEN @ + 1 ELSE @]
<1>1. ping' = [v \in Pingers |-> IF v = w THEN new ELSE older(v)] /\ seq' \in Seqs
  BY NextNumber DEF Register, IcmpInv, IcmpTypeOK
<1>2. SeqSpace \in Nat /\ 0 \in 0..SeqSpace
  BY IcmpAssumption
<1>3. new \in Pings /\ new.at = "send" /\ new.seq = seq' /\ new.age = 0 /\ new.signal = FALSE
  <2>1. ping[w] \in Pings
    BY DEF IcmpInv, IcmpTypeOK
  <2>2. ping[w].try + 1 \in Nat
    BY <2>1 DEF Pings
  <2> QED
    BY <1>1, <1>2, <2>1, <2>2 DEF Pings
<1>4. ASSUME NEW v \in Pingers
      PROVE  /\ older(v) \in Pings
             /\ older(v).at = ping[v].at /\ older(v).signal = ping[v].signal
             /\ older(v).ip = ping[v].ip /\ older(v).seq = ping[v].seq
             /\ older(v).runs = ping[v].runs /\ older(v).try = ping[v].try
             /\ older(v).age = IF ping[v].age < SeqSpace THEN ping[v].age + 1 ELSE ping[v].age
  <2>1. ping[v] \in Pings
    BY DEF IcmpInv, IcmpTypeOK
  <2>2. ping[v].age \in 0..SeqSpace
    BY <2>1 DEF Pings
  <2>3. (IF ping[v].age < SeqSpace THEN ping[v].age + 1 ELSE ping[v].age) \in 0..SeqSpace
    BY <1>2, <2>2
  <2> QED
    BY <2>1, <2>3 DEF Pings
<1> HIDE DEF new, older
<1> QED
  BY <1>1, <1>3, <1>4

LEMMA RegisterKeeps ==
  ASSUME IcmpInv, NEW w \in Pingers, Register(w)
  PROVE  IcmpInv'
<1>1. /\ seq' = IF seq + 1 = SeqSpace THEN 0 ELSE seq + 1
      /\ seq \in Seqs /\ seq' \in Seqs
  BY NextNumber DEF Register, IcmpInv, IcmpTypeOK
<1>2. waiters' \in [Seqs -> Waiters \cup {NoWaiter}]
  <2>1. ping[w] \in Pings
    BY DEF IcmpInv, IcmpTypeOK
  <2>2. [Waiter(w) EXCEPT !.try = @ + 1] \in Waiters
    BY <2>1 DEF Waiter, Waiters, Pings
  <2> QED
    BY <2>2 DEF Register, IcmpInv, IcmpTypeOK
<1>3. IcmpTypeOK'
  BY <1>1, <1>2, RegisterPings DEF Register, IcmpInv, IcmpTypeOK
<1>4. FromAnswering'
  BY RegisterPings DEF Register, IcmpInv, FromAnswering
<1>5. AgesTell'
  <2> SUFFICES ASSUME NEW v \in Pingers, Live(v)', ping'[v].age < SeqSpace
               PROVE  /\ \/ seq' = ping'[v].seq + ping'[v].age
                         \/ seq' + SeqSpace = ping'[v].seq + ping'[v].age
                      /\ \A u \in Pingers \ {v} : Live(u)' => ping'[u].age # ping'[v].age
    BY DEF AgesTell
  <2>1. SeqSpace \in Nat /\ \A u \in Pingers : ping[u].age \in Nat /\ ping[u].seq \in Nat
                                             /\ ping[u].seq < SeqSpace
    BY IcmpAssumption DEF IcmpInv, IcmpTypeOK, Pings, Seqs
  <2>2. seq \in Nat /\ seq < SeqSpace
    BY <1>1, <2>1 DEF Seqs
  <2>3. \A u \in Pingers \ {w} : (Live(u)' <=> Live(u)) /\ ping'[u].seq = ping[u].seq
           /\ ping'[u].age = IF ping[u].age < SeqSpace THEN ping[u].age + 1 ELSE ping[u].age
    BY RegisterPings DEF Live
  <2>4. ping'[w].seq = seq' /\ ping'[w].age = 0
    BY RegisterPings
  <2>5. CASE v = w
    <3>1. \A u \in Pingers \ {w} : ping'[u].age # 0
      BY <2>1, <2>3
    <3> QED
      BY <1>1, <2>2, <2>4, <2>5, <3>1
  <2>6. CASE v # w
    <3>1. Live(v) /\ ping[v].age < SeqSpace /\ ping'[v].age = ping[v].age + 1
      BY <2>1, <2>3, <2>6
    <3>2. seq = ping[v].seq + ping[v].age \/ seq + SeqSpace = ping[v].seq + ping[v].age
      BY <3>1 DEF IcmpInv, AgesTell
    <3>3. \/ seq' = ping'[v].seq + ping'[v].age
          \/ seq' + SeqSpace = ping'[v].seq + ping'[v].age
      BY <1>1, <2>1, <2>2, <2>3, <2>6, <3>1, <3>2
    <3>4. ASSUME NEW u \in Pingers \ {v}, Live(u)'
          PROVE  ping'[u].age # ping'[v].age
      <4>1. CASE u = w
        BY <2>1, <2>4, <3>1, <4>1
      <4>2. CASE u # w
        <5>1. ping[u].age # ping[v].age
          BY <2>3, <3>1, <3>4, <4>2 DEF IcmpInv, AgesTell
        <5> QED
          BY <2>1, <2>3, <3>1, <4>2, <5>1
      <4> QED
        BY <4>1, <4>2
    <3> QED
      BY <3>3, <3>4
  <2> QED
    BY <2>5, <2>6
<1> QED
  BY <1>3, <1>4, <1>5 DEF IcmpInv

LEMMA LookUpKeeps ==
  ASSUME IcmpInv, LookUp
  PROVE  IcmpInv'
<1>1. PICK r \in asked :
        /\ r[2] \in Answering /\ waiters[r[1]] # NoWaiter
        /\ reader' = [waiter |-> waiters[r[1]], from |-> r[2]]
  BY DEF LookUp
<1>2. r[1] \in Seqs /\ r[2] \in Targets
  BY DEF IcmpInv, IcmpTypeOK
<1>3. waiters[r[1]] \in Waiters \cup {NoWaiter}
  BY <1>2 DEF IcmpInv, IcmpTypeOK
<1>4. reader' \in [waiter : Waiters \cup {NoWaiter}, from : Targets \cup {NoWaiter}]
  BY <1>1, <1>2, <1>3
<1>5. IcmpTypeOK'
  BY <1>4 DEF LookUp, IcmpInv, IcmpTypeOK
<1>6. FromAnswering'
  BY <1>1 DEF LookUp, IcmpInv, FromAnswering
<1>7. AgesTell'
  BY AgesSame DEF LookUp, Live
<1> QED
  BY <1>5, <1>6, <1>7 DEF IcmpInv

(* The signal is for the ping whose waiter was found, and its target answers. *)
LEMMA SignalKeeps ==
  ASSUME IcmpInv, Signal
  PROVE  IcmpInv'
<1> DEFINE w == reader.waiter
<1>1. w \in Waiters /\ reader.from \in Answering
  BY DEF Signal, IcmpInv, IcmpTypeOK, FromAnswering
<1>2. w.who \in Pingers /\ ping[w.who] \in Pings
  BY <1>1 DEF Waiters, IcmpInv, IcmpTypeOK
<1>3. reader' = [waiter |-> NoWaiter, from |-> NoWaiter]
  BY DEF Signal
<1>4. CASE ping' = ping
  <2> UNCHANGED <<seq, waiters, asked, stopped>>
    BY DEF Signal
  <2>1. IcmpTypeOK'
    BY <1>3, <1>4 DEF IcmpInv, IcmpTypeOK
  <2>2. FromAnswering'
    BY <1>3, <1>4 DEF IcmpInv, FromAnswering
  <2>3. AgesTell'
    BY <1>4, AgesSame DEF Signal, Live
  <2> QED
    BY <2>1, <2>2, <2>3 DEF IcmpInv
<1>5. CASE /\ ping' = [ping EXCEPT ![w.who].signal = TRUE]
           /\ AddrMatches(w, reader.from) /\ Waiter(w.who) = w
  <2> DEFINE p == [ping[w.who] EXCEPT !.signal = TRUE]
  <2>1. /\ p \in Pings /\ p.at = ping[w.who].at /\ p.ip = ping[w.who].ip
        /\ p.seq = ping[w.who].seq /\ p.age = ping[w.who].age
    BY <1>2 DEF Pings
  <2>2. ping' = [ping EXCEPT ![w.who] = p]
    BY <1>5
  <2>3. p.ip \in Answering
    BY <1>1, <1>5, <2>1 DEF AddrMatches, Waiter
  <2> HIDE DEF p
  <2>4. /\ ping' \in [Pingers -> Pings] /\ ping'[w.who] = p
        /\ \A v \in Pingers \ {w.who} : ping'[v] = ping[v]
    BY <1>2, <2>1, <2>2, OnePing DEF IcmpInv
  <2>5. IcmpTypeOK'
    BY <1>3, <2>4 DEF Signal, IcmpInv, IcmpTypeOK
  <2>6. FromAnswering'
    BY <1>3, <2>1, <2>3, <2>4 DEF IcmpInv, FromAnswering
  <2>7. AgesTell'
    <3>1. UNCHANGED seq
      BY DEF Signal
    <3>2. \A v \in Pingers : ping'[v].at = ping[v].at /\ ping'[v].seq = ping[v].seq
                             /\ ping'[v].age = ping[v].age
      BY <2>1, <2>4
    <3> QED
      BY <3>1, <3>2, AgesSame DEF Live
  <2> QED
    BY <2>5, <2>6, <2>7 DEF IcmpInv
<1> QED
  BY <1>4, <1>5 DEF Signal

LEMMA IcmpInductive == IcmpInv /\ [IcmpNext]_icmpVars => IcmpInv'
<1> SUFFICES ASSUME IcmpInv, [IcmpNext]_icmpVars PROVE IcmpInv'
  OBVIOUS
<1>1. CASE UNCHANGED icmpVars
  BY <1>1 DEF icmpVars, IcmpInv, IcmpTypeOK, FromAnswering, AgesTell, Live
<1>2. CASE ReaderStops
  BY <1>2 DEF ReaderStops, IcmpInv, IcmpTypeOK, FromAnswering, AgesTell, Live
<1> QED
  BY <1>1, <1>2, StartRunKeeps, MoveKeeps, RegisterKeeps, LookUpKeeps, SignalKeeps DEF IcmpNext

-----------------------------------------------------------------------------
(* Two live pings of one round have different numbers, and the next number is *)
(* nobody's until the round is over.                                         *)
LEMMA NumbersDiffer ==
  ASSUME IcmpInv, NEW w \in Pingers, Live(w), ping[w].age < SeqSpace
  PROVE  /\ \A v \in Pingers \ {w} :
              Live(v) /\ ping[v].age < SeqSpace => ping[v].seq # ping[w].seq
         /\ ping[w].age + 1 < SeqSpace => (seq + 1) % SeqSpace # ping[w].seq
<1>1. /\ SeqSpace \in Nat /\ seq \in Nat /\ seq < SeqSpace
      /\ \A v \in Pingers : ping[v].age \in Nat /\ ping[v].seq \in Nat /\ ping[v].seq < SeqSpace
  BY IcmpAssumption DEF IcmpInv, IcmpTypeOK, Pings, Seqs
<1>2. seq = ping[w].seq + ping[w].age \/ seq + SeqSpace = ping[w].seq + ping[w].age
  BY DEF IcmpInv, AgesTell
<1>3. ASSUME NEW v \in Pingers \ {w}, Live(v), ping[v].age < SeqSpace
      PROVE  ping[v].seq # ping[w].seq
  <2>1. /\ seq = ping[v].seq + ping[v].age \/ seq + SeqSpace = ping[v].seq + ping[v].age
        /\ ping[v].age # ping[w].age
    BY <1>3 DEF IcmpInv, AgesTell
  <2> QED
    BY <1>1, <1>2, <1>3, <2>1
<1>4. (seq + 1) % SeqSpace = IF seq + 1 = SeqSpace THEN 0 ELSE seq + 1
  BY NextNumber DEF IcmpInv, IcmpTypeOK
<1> QED
  BY <1>1, <1>2, <1>3, <1>4

(* No step takes the waiter of a live ping out of the table within a round.    *)
LEMMA StoredStays ==
  ASSUME IcmpInv, [IcmpNext]_icmpVars, NEW w \in Pingers, Stored(w), InOneRound, InOneRound'
  PROVE  Stored(w)' \/ ~Live(w)'
<1>1. ping[w] \in Pings /\ ping[w].seq \in Seqs /\ Live(w) /\ ping[w].age < SeqSpace
      /\ ping[w].at \in {"send", "wait", "leave", "leaveOK"}
  BY DEF IcmpInv, IcmpTypeOK, Pings, Stored, InOneRound, Live
<1>2. ASSUME UNCHANGED waiters, ping'[w].seq = ping[w].seq, Waiter(w)' = Waiter(w)
      PROVE  Stored(w)' \/ ~Live(w)'
  BY <1>2 DEF Stored
<1>3. CASE UNCHANGED icmpVars \/ LookUp \/ ReaderStops
  BY <1>2, <1>3 DEF icmpVars, LookUp, ReaderStops, Waiter
<1>4. ASSUME NEW v \in Pingers, StartRun(v) \/ GiveUp(v) PROVE Stored(w)' \/ ~Live(w)'
  <2>1. v # w
    BY <1>1, <1>4 DEF StartRun, GiveUp
  <2>2. ping'[w] = ping[w] /\ UNCHANGED waiters
    BY <1>4, <2>1 DEF StartRun, GiveUp, IcmpInv, IcmpTypeOK
  <2> QED
    BY <1>2, <2>2 DEF Waiter
<1>5. ASSUME NEW v \in Pingers, Send(v) \/ Wake(v) PROVE Stored(w)' \/ ~Live(w)'
  <2>1. PICK a \in {"wait", "leave", "leaveOK"} : ping' = [ping EXCEPT ![v].at = a]
    BY <1>5 DEF Send, Wake
  <2>2. /\ ping'[w].seq = ping[w].seq /\ ping'[w].ip = ping[w].ip
        /\ ping'[w].runs = ping[w].runs /\ ping'[w].try = ping[w].try
    BY <1>1, <2>1 DEF IcmpInv, IcmpTypeOK, Pings
  <2>3. UNCHANGED waiters
    BY <1>5 DEF Send, Wake
  <2> QED
    BY <1>2, <2>2, <2>3 DEF Waiter
<1>6. CASE Signal
  <2>1. \/ ping' = ping
        \/ ping' = [ping EXCEPT ![reader.waiter.who].signal = TRUE]
    BY <1>6 DEF Signal
  <2>2. /\ ping'[w].seq = ping[w].seq /\ ping'[w].ip = ping[w].ip
        /\ ping'[w].runs = ping[w].runs /\ ping'[w].try = ping[w].try
    BY <1>1, <2>1 DEF IcmpInv, IcmpTypeOK, Pings
  <2>3. UNCHANGED waiters
    BY <1>6 DEF Signal
  <2> QED
    BY <1>2, <2>2, <2>3 DEF Waiter
<1>7. ASSUME NEW v \in Pingers, Leave(v) PROVE Stored(w)' \/ ~Live(w)'
  <2>1. CASE v = w
    BY <1>1, <1>7, <2>1 DEF Leave, Live, IcmpInv, IcmpTypeOK
  <2>2. CASE v # w
    <3>1. ping'[w] = ping[w]
      BY <1>7, <2>2 DEF Leave, IcmpInv, IcmpTypeOK
    <3>2. Live(v) /\ ping[v].age < SeqSpace
      BY <1>7 DEF Leave, Live, InOneRound
    <3>3. ping[v].seq # ping[w].seq
      BY <1>1, <2>2, <3>2, NumbersDiffer
    <3>4. waiters'[ping[w].seq] = waiters[ping[w].seq]
      BY <1>1, <1>7, <3>3 DEF Leave, IcmpInv, IcmpTypeOK
    <3> QED
      BY <3>1, <3>4 DEF Stored, Waiter, Live
  <2> QED
    BY <2>1, <2>2
<1>8. ASSUME NEW v \in Pingers, Register(v) PROVE Stored(w)' \/ ~Live(w)'
  <2>1. v # w
    BY <1>1, <1>8 DEF Register
  <2>2. /\ ping'[w].at = ping[w].at /\ ping'[w].seq = ping[w].seq /\ ping'[w].ip = ping[w].ip
        /\ ping'[w].runs = ping[w].runs /\ ping'[w].try = ping[w].try
        /\ ping'[w].age = IF ping[w].age < SeqSpace THEN ping[w].age + 1 ELSE ping[w].age
    BY <1>8, <2>1, RegisterPings
  <2>3. ping[w].age + 1 < SeqSpace
    BY <1>1, <2>2 DEF Live, InOneRound
  <2>4. seq' # ping[w].seq
    BY <1>1, <1>8, <2>3, NumbersDiffer DEF Register
  <2>5. waiters'[ping[w].seq] = waiters[ping[w].seq]
    BY <1>1, <1>8, <2>4 DEF Register, IcmpInv, IcmpTypeOK
  <2> QED
    BY <2>2, <2>5 DEF Stored, Waiter, Live
<1> QED
  BY <1>3, <1>4, <1>5, <1>6, <1>7, <1>8 DEF IcmpNext

(* Every variable of the probe keeps its type.                               *)
THEOREM IcmpTypeCorrect == IcmpSpec => []IcmpTypeOK
<1>1. IcmpInv => IcmpTypeOK
  BY DEF IcmpInv
<1> QED
  BY <1>1, IcmpInitially, IcmpInductive, PTL DEF IcmpSpec

(* Only a target that answers is reported, and while the sequence numbers have *)
(* not come round no ping loses its place in the table to another one.       *)
THEOREM PingsMatchedAlways == IcmpSpec => PingsMatched
<1>1. IcmpInv => \A w \in Pingers : ping[w].at = "ok" => ping[w].ip \in Answering
  BY DEF IcmpInv, FromAnswering
<1>2. IcmpInv /\ [IcmpNext]_icmpVars =>
        [\A w \in Pingers :
           Stored(w) /\ InOneRound /\ InOneRound' => Stored(w)' \/ ~Live(w)']_icmpVars
  BY StoredStays
<1> QED
  BY <1>1, <1>2, IcmpInitially, IcmpInductive, PTL DEF IcmpSpec, PingsMatched

-----------------------------------------------------------------------------
(***************************************************************************)
(* The import of an address list: nothing of the file is lost, whichever   *)
(* strategy its size selects.  The argument follows the rows: those read   *)
(* so far are in the list, or in the chunks, or in the temporary file, and *)
(* a row is left out only if its prefix is in the list already.            *)
(***************************************************************************)
RowsIn(lines) == {lines[i].row : i \in DOMAIN lines}
RowsOfAll(cs) == UNION {RowsIn(cs[i]) : i \in DOMAIN cs}
RowsUpTo(lines, n) == {lines[i].row : i \in {j \in DOMAIN lines : j < n}}
PrefixesOf(rows) == {Prefix(r) : r \in rows \ {NoRow}}
InList == {Prefix(dst[i]) : i \in DOMAIN dst}

ImportTypeOK ==
    /\ src \in Seq(FileLine) /\ sorted \in Seq(FileLine)
    /\ size \in Sizes
    /\ ipc \in {"start", "map", "sort", "split", "merge", "dedupe", "imported", "failed"}
    /\ next \in Nat \ {0}
    /\ chunks \in Seq(Seq(FileLine))
    /\ dst \in Seq(ListRow)

NothingYet == last = {} /\ dst = <<>>

Followed ==
    /\ ipc \in {"start", "sort"} => NothingYet /\ sorted = <<>> /\ chunks = <<>> /\ next = 1
    /\ ipc = "map" =>
        /\ InList = PrefixesOf(RowsUpTo(src, next))
        /\ last \subseteq InList
    /\ ipc = "split" =>
        /\ NothingYet /\ sorted = <<>>
        /\ RowsOfAll(chunks) = RowsUpTo(src, next)
    /\ ipc = "merge" =>
        /\ NothingYet
        /\ RowsOfAll(chunks) \union RowsIn(sorted) = RowsIn(src)
    /\ ipc = "dedupe" =>
        /\ RowsIn(sorted) = RowsIn(src)
        /\ InList = PrefixesOf(RowsUpTo(sorted, next))
        /\ last \subseteq InList
    /\ ipc = "imported" => InList = PrefixesOf(RowsIn(src))

ImportInv == ImportTypeOK /\ Followed

(* Lines that are sorted are the same lines. *)
LEMMA SortedRows ==
    ASSUME NEW lines \in Seq(FileLine), NEW s \in SortLines(lines)
    PROVE  s \in Seq(FileLine) /\ RowsIn(s) = RowsIn(lines)
<1>1. PICK p \in Bijection(DOMAIN lines, DOMAIN lines) : s = [i \in DOMAIN lines |-> lines[p[i]]]
  BY DEF SortLines
<1>2. p \in [DOMAIN lines -> DOMAIN lines] /\ \A j \in DOMAIN lines : \E i \in DOMAIN lines : p[i] = j
  BY <1>1 DEF Bijection, Surjection, Injection
<1>3. DOMAIN lines = 1..Len(lines) /\ Len(lines) \in Nat /\ \A i \in DOMAIN lines : lines[i] \in FileLine
  BY LenProperties, ElementOfSeq
<1>4. DOMAIN s = DOMAIN lines /\ \A i \in DOMAIN lines : s[i] = lines[p[i]] /\ s[i] \in FileLine
  BY <1>1, <1>2, <1>3
<1>5. s \in [1..Len(lines) -> FileLine]
  BY <1>1, <1>2, <1>3
<1>6. s \in Seq(FileLine)
  BY <1>3, <1>5, SeqDef
<1>7. RowsIn(s) \subseteq RowsIn(lines)
  <2>1. SUFFICES ASSUME NEW i \in DOMAIN lines PROVE s[i].row \in RowsIn(lines)
    BY <1>4 DEF RowsIn
  <2>2. p[i] \in DOMAIN lines /\ s[i] = lines[p[i]]
    BY <1>2, <1>4, <2>1
  <2> QED
    BY <2>2 DEF RowsIn
<1>8. RowsIn(lines) \subseteq RowsIn(s)
  <2>1. SUFFICES ASSUME NEW j \in DOMAIN lines PROVE lines[j].row \in RowsIn(s)
    BY DEF RowsIn
  <2>2. PICK i \in DOMAIN lines : p[i] = j
    BY <1>2, <2>1
  <2>3. i \in DOMAIN s /\ s[i] = lines[j]
    BY <1>4, <2>2
  <2> QED
    BY <2>3 DEF RowsIn
<1> QED
  BY <1>6, <1>7, <1>8

(* The next line is read. *)
LEMMA RowsNext ==
    ASSUME NEW lines \in Seq(FileLine), NEW n \in Nat \ {0}
    PROVE  /\ n <= Len(lines) => /\ lines[n] \in FileLine
                                 /\ RowsUpTo(lines, n + 1) = RowsUpTo(lines, n) \union {lines[n].row}
           /\ n > Len(lines) => RowsUpTo(lines, n) = RowsIn(lines)
           /\ RowsUpTo(lines, 1) = {}
<1>1. DOMAIN lines = 1..Len(lines) /\ Len(lines) \in Nat
  BY LenProperties
<1>2. n <= Len(lines) => n \in DOMAIN lines
  BY <1>1
<1>3. {j \in DOMAIN lines : j < 1} = {}
  BY <1>1
<1>4. n > Len(lines) => {j \in DOMAIN lines : j < n} = DOMAIN lines
  BY <1>1
<1>5. n <= Len(lines) => {j \in DOMAIN lines : j < n + 1} = {j \in DOMAIN lines : j < n} \union {n}
  BY <1>1
<1>6. n <= Len(lines) => lines[n] \in FileLine
  BY <1>2, ElementOfSeq, <1>1
<1> QED
  BY <1>3, <1>4, <1>5, <1>6 DEF RowsUpTo, RowsIn

(* A row is appended to the list. *)
LEMMA RowListed ==
    ASSUME NEW r \in ListRow, dst \in Seq(ListRow), dst' = Append(dst, r)
    PROVE  dst' \in Seq(ListRow) /\ InList' = InList \union {Prefix(r)}
<1>1. /\ dst' \in Seq(ListRow) /\ Len(dst') = Len(dst) + 1
      /\ \A i \in 1..Len(dst) : dst'[i] = dst[i]
      /\ dst'[Len(dst) + 1] = r
  BY AppendProperties
<1>2. DOMAIN dst = 1..Len(dst) /\ DOMAIN dst' = 1..Len(dst) + 1 /\ Len(dst) \in Nat
  BY <1>1, LenProperties
<1>3. \A i \in DOMAIN dst' : i \in DOMAIN dst \/ i = Len(dst) + 1
  BY <1>2
<1>4. InList' \subseteq InList \union {Prefix(r)}
  BY <1>1, <1>2, <1>3 DEF InList
<1>5. InList \subseteq InList'
  BY <1>1, <1>2 DEF InList
<1>6. Prefix(r) \in InList'
  BY <1>1, <1>2 DEF InList
<1> QED
  BY <1>1, <1>4, <1>5, <1>6

(* Whether a row is appended or left out as one whose prefix is known, the   *)
(* list has the prefixes of one more line.                                  *)
LEMMA RowTaken ==
    ASSUME ImportTypeOK, NEW lines \in Seq(FileLine), next <= Len(lines),
           InList = PrefixesOf(RowsUpTo(lines, next)), last \subseteq InList,
           LET r == lines[next].row
           IN  IF r = NoRow \/ Prefix(r) \in last
               THEN UNCHANGED <<last, dst>>
               ELSE /\ last' \subseteq last \union {Prefix(r)}
                    /\ dst' = Append(dst, r)
    PROVE  /\ dst' \in Seq(ListRow)
           /\ InList' = PrefixesOf(RowsUpTo(lines, next + 1))
           /\ last' \subseteq InList'
<1> DEFINE r == lines[next].row
<1>1. r \in ListRow \union {NoRow} /\ RowsUpTo(lines, next + 1) = RowsUpTo(lines, next) \union {r}
  BY RowsNext DEF FileLine, ImportTypeOK
<1>2. PrefixesOf(RowsUpTo(lines, next + 1)) =
        PrefixesOf(RowsUpTo(lines, next)) \union (IF r = NoRow THEN {} ELSE {Prefix(r)})
  BY <1>1 DEF PrefixesOf
<1>3. CASE r = NoRow \/ Prefix(r) \in last
  <2>1. UNCHANGED <<last, dst>>
    BY <1>3
  <2>2. InList' = InList
    BY <2>1 DEF InList
  <2>3. r = NoRow \/ Prefix(r) \in InList
    BY <1>3
  <2> QED
    BY <1>2, <2>1, <2>2, <2>3 DEF ImportTypeOK
<1>4. CASE ~(r = NoRow \/ Prefix(r) \in last)
  <2>1. r \in ListRow /\ dst' = Append(dst, r) /\ last' \subseteq last \union {Prefix(r)}
    BY <1>1, <1>4
  <2>2. dst' \in Seq(ListRow) /\ InList' = InList \union {Prefix(r)}
    BY <2>1, RowListed DEF ImportTypeOK
  <2> QED
    BY <1>2, <1>4, <2>1, <2>2
<1> QED
  BY <1>3, <1>4

(* A sorted chunk is added: it has the rows of its part of the file. *)
LEMMA ChunkAdded ==
    ASSUME ImportTypeOK, ipc = "split", SplitChunk
    PROVE  /\ chunks' \in Seq(Seq(FileLine))
           /\ next' \in Nat \ {0}
           /\ RowsOfAll(chunks') = RowsOfAll(chunks) \union
                                     {src[i].row : i \in {j \in DOMAIN src : next <= j /\ j < next'}}
<1> DEFINE end == IF next + ChunkLines - 1 < Len(src) THEN next + ChunkLines - 1 ELSE Len(src)
           part == SubSeq(src, next, end)
<1>1. Len(src) \in Nat /\ DOMAIN src = 1..Len(src) /\ ChunkLines \in Nat \ {0} /\ next <= Len(src)
      /\ next \in Nat \ {0} /\ src \in Seq(FileLine)
  BY LenProperties, ImportAssumption DEF SplitChunk, ImportTypeOK
<1>2. end \in next..Len(src) /\ next' = end + 1
  BY <1>1 DEF SplitChunk
<1> HIDE DEF end
<1>3. /\ part \in Seq(FileLine) /\ Len(part) = end - next + 1
      /\ \A i \in 1..(end - next + 1) : part[i] = src[next + i - 1]
  <2>1. \A i \in next..end : src[i] \in FileLine
    BY <1>1, <1>2, ElementOfSeq
  <2> QED
    BY <1>1, <1>2, <2>1, SubSeqProperties
<1>4. PICK s \in SortLines(part) : chunks' = Append(chunks, s)
  BY DEF SplitChunk, end
<1>5. s \in Seq(FileLine) /\ RowsIn(s) = RowsIn(part)
  BY <1>3, <1>4, SortedRows
<1>6. RowsIn(part) = {src[i].row : i \in {j \in DOMAIN src : next <= j /\ j < next'}}
  <2>1. DOMAIN part = 1..(end - next + 1)
    BY <1>3, LenProperties
  <2>2. \A i \in DOMAIN part : next + i - 1 \in DOMAIN src /\ next <= next + i - 1 /\ next + i - 1 < next'
    BY <1>1, <1>2, <2>1
  <2>3. \A j \in DOMAIN src : next <= j /\ j < next' =>
          j - next + 1 \in DOMAIN part /\ part[j - next + 1] = src[j]
    BY <1>1, <1>2, <1>3, <2>1
  <2> QED
    BY <1>3, <2>1, <2>2, <2>3 DEF RowsIn
<1>7. /\ chunks' \in Seq(Seq(FileLine)) /\ Len(chunks') = Len(chunks) + 1
      /\ \A i \in 1..Len(chunks) : chunks'[i] = chunks[i]
      /\ chunks'[Len(chunks) + 1] = s
  BY <1>4, <1>5, AppendProperties DEF ImportTypeOK
<1>8. RowsOfAll(chunks') = RowsOfAll(chunks) \union RowsIn(s)
  <2>1. DOMAIN chunks = 1..Len(chunks) /\ DOMAIN chunks' = 1..Len(chunks) + 1 /\ Len(chunks) \in Nat
    BY <1>7, LenProperties DEF ImportTypeOK
  <2>2. DOMAIN chunks' = DOMAIN chunks \union {Len(chunks) + 1}
    BY <2>1
  <2> QED
    BY <1>7, <2>1, <2>2 DEF RowsOfAll
<1>9. next' \in Nat \ {0}
  BY <1>1, <1>2
<1> QED
  BY <1>5, <1>6, <1>7, <1>8, <1>9

(* A line moves from the head of a chunk to the end of the temporary file.   *)
LEMMA LinePopped ==
    ASSUME ImportTypeOK, MergePop
    PROVE  /\ chunks' \in Seq(Seq(FileLine)) /\ sorted' \in Seq(FileLine)
           /\ RowsOfAll(chunks') \union RowsIn(sorted') = RowsOfAll(chunks) \union RowsIn(sorted)
<1>1. PICK c \in DOMAIN chunks :
        /\ chunks[c] # <<>>
        /\ sorted' = Append(sorted, Head(chunks[c]))
        /\ chunks' = [chunks EXCEPT ![c] = Tail(@)]
  BY DEF MergePop
<1>2. chunks[c] \in Seq(FileLine)
  BY ElementOfSeq, LenProperties DEF ImportTypeOK
<1>3. /\ Head(chunks[c]) \in FileLine /\ Head(chunks[c]) = chunks[c][1]
      /\ Tail(chunks[c]) \in Seq(FileLine)
      /\ Len(chunks[c]) \in Nat \ {0}
      /\ Len(Tail(chunks[c])) = Len(chunks[c]) - 1
      /\ \A i \in 1..Len(Tail(chunks[c])) : Tail(chunks[c])[i] = chunks[c][i + 1]
  BY <1>1, <1>2, HeadTailProperties, LenProperties, EmptySeq
<1>4. RowsIn(chunks[c]) = {Head(chunks[c]).row} \union RowsIn(Tail(chunks[c]))
  <2>1. DOMAIN chunks[c] = 1..Len(chunks[c])
        /\ DOMAIN Tail(chunks[c]) = 1..(Len(chunks[c]) - 1)
    BY <1>2, <1>3, LenProperties
  <2>2. \A i \in DOMAIN chunks[c] : i = 1 \/ (i - 1 \in DOMAIN Tail(chunks[c])
                                               /\ Tail(chunks[c])[i - 1] = chunks[c][i])
    BY <1>3, <2>1
  <2>3. RowsIn(chunks[c]) \subseteq {Head(chunks[c]).row} \union RowsIn(Tail(chunks[c]))
    <3>1. SUFFICES ASSUME NEW i \in DOMAIN chunks[c], i # 1
                   PROVE  chunks[c][i].row \in RowsIn(Tail(chunks[c]))
      BY <1>3 DEF RowsIn
    <3>2. i - 1 \in DOMAIN Tail(chunks[c]) /\ Tail(chunks[c])[i - 1] = chunks[c][i]
      BY <2>2, <3>1
    <3> QED
      BY <3>2 DEF RowsIn
  <2>4. 1 \in DOMAIN chunks[c] /\ \A i \in DOMAIN Tail(chunks[c]) :
          i + 1 \in DOMAIN chunks[c] /\ Tail(chunks[c])[i] = chunks[c][i + 1]
    BY <1>3, <2>1
  <2> QED
    BY <1>3, <2>3, <2>4 DEF RowsIn
<1>5. /\ sorted' \in Seq(FileLine) /\ Len(sorted') = Len(sorted) + 1
      /\ \A i \in 1..Len(sorted) : sorted'[i] = sorted[i]
      /\ sorted'[Len(sorted) + 1] = Head(chunks[c])
  BY <1>1, <1>3, AppendProperties DEF ImportTypeOK
<1>6. RowsIn(sorted') = RowsIn(sorted) \union {Head(chunks[c]).row}
  <2>1. DOMAIN sorted = 1..Len(sorted) /\ DOMAIN sorted' = 1..Len(sorted) + 1 /\ Len(sorted) \in Nat
    BY <1>5, LenProperties DEF ImportTypeOK
  <2>2. DOMAIN sorted' = DOMAIN sorted \union {Len(sorted) + 1}
    BY <2>1
  <2> QED
    BY <1>5, <2>1, <2>2 DEF RowsIn
<1>7. chunks' \in Seq(Seq(FileLine)) /\ DOMAIN chunks' = DOMAIN chunks
      /\ \A i \in DOMAIN chunks : chunks'[i] = IF i = c THEN Tail(chunks[c]) ELSE chunks[i]
  <2>1. chunks' \in Seq(Seq(FileLine))
    BY <1>1, <1>3, ExceptSeq DEF ImportTypeOK
  <2> QED
    BY <1>1, <2>1
<1>8. RowsOfAll(chunks') \union {Head(chunks[c]).row} = RowsOfAll(chunks)
  BY <1>4, <1>7 DEF RowsOfAll
<1> QED
  BY <1>5, <1>6, <1>7, <1>8

LEMMA ImportInitially == ImportInit => ImportInv
<1> SUFFICES ASSUME ImportInit PROVE ImportInv
  OBVIOUS
<1>1. src \in Seq(FileLine)
  BY ImportAssumption DEF ImportInit
<1>2. <<>> \in Seq(FileLine) /\ <<>> \in Seq(Seq(FileLine)) /\ <<>> \in Seq(ListRow)
  BY EmptySeq
<1> QED
  BY <1>1, <1>2 DEF ImportInit, ImportInv, ImportTypeOK, Followed, NothingYet

LEMMA ImportInductive ==
    ImportInv /\ [ImportStep \/ ImportFails]_importVars => ImportInv'
<1> SUFFICES ASSUME ImportInv, [ImportStep \/ ImportFails]_importVars PROVE ImportInv'
  OBVIOUS
<1> USE DEF ImportInv
<1>1. CASE Start
  <2>1. ImportTypeOK'
    BY <1>1 DEF Start, ImportTypeOK, Sizes
  <2>2. InList = {} /\ RowsOfAll(<<>>) = {} /\ RowsUpTo(src, 1) = {} /\ PrefixesOf({}) = {}
    BY <1>1, RowsNext DEF Start, Followed, NothingYet, InList, RowsOfAll, PrefixesOf, ImportTypeOK
  <2>3. InList' = InList
    BY <1>1 DEF Start, InList
  <2> QED
    BY <1>1, <2>1, <2>2, <2>3 DEF Start, ImportTypeOK, Followed, NothingYet, Sizes
<1>2. CASE MapRow
  <2>1. /\ dst' \in Seq(ListRow)
        /\ InList' = PrefixesOf(RowsUpTo(src, next + 1))
        /\ last' \subseteq InList'
    BY <1>2, RowTaken DEF MapRow, Followed, ImportTypeOK
  <2>2. ImportTypeOK'
    BY <1>2, <2>1 DEF MapRow, ImportTypeOK
  <2> QED
    BY <1>2, <2>1, <2>2 DEF MapRow, Followed
<1>3. CASE SortInMemory
  <2>1. sorted' \in Seq(FileLine) /\ RowsIn(sorted') = RowsIn(src)
    BY <1>3, SortedRows DEF SortInMemory, ImportTypeOK
  <2>2. ImportTypeOK'
    BY <1>3, <2>1 DEF SortInMemory, ImportTypeOK
  <2>3. InList' = {} /\ RowsUpTo(sorted', 1) = {} /\ PrefixesOf({}) = {} /\ last' = {} /\ next' = 1
    BY <1>3, <2>1, RowsNext DEF SortInMemory, Followed, NothingYet, InList, PrefixesOf
  <2> QED
    BY <1>3, <2>1, <2>2, <2>3 DEF SortInMemory, Followed
<1>4. CASE SplitChunk
  <2>1. /\ chunks' \in Seq(Seq(FileLine))
        /\ next' \in Nat \ {0}
        /\ RowsOfAll(chunks') = RowsOfAll(chunks) \union
                                  {src[i].row : i \in {j \in DOMAIN src : next <= j /\ j < next'}}
    BY <1>4, ChunkAdded DEF SplitChunk
  <2>2. ImportTypeOK'
    BY <1>4, <2>1 DEF SplitChunk, ImportTypeOK
  <2>3. next <= next'
    BY <1>4, ImportAssumption, LenProperties DEF SplitChunk, ImportTypeOK
  <2>4. DOMAIN src \subseteq Nat
    BY LenProperties DEF ImportTypeOK
  <2>5. {j \in DOMAIN src : j < next'} = {j \in DOMAIN src : j < next}
                                           \union {j \in DOMAIN src : next <= j /\ j < next'}
    BY <2>1, <2>3, <2>4 DEF ImportTypeOK
  <2>6. RowsUpTo(src, next') = RowsUpTo(src, next) \union
                                  {src[i].row : i \in {j \in DOMAIN src : next <= j /\ j < next'}}
    BY <2>5 DEF RowsUpTo
  <2> QED
    BY <1>4, <2>1, <2>2, <2>6 DEF SplitChunk, Followed, NothingYet
<1>5. CASE EndSplit
  <2>1. ImportTypeOK'
    BY <1>5 DEF EndSplit, ImportTypeOK
  <2>2. RowsUpTo(src, next) = RowsIn(src) /\ RowsIn(<<>>) = {}
    BY <1>5, RowsNext DEF EndSplit, ImportTypeOK, RowsIn
  <2> QED
    BY <1>5, <2>1, <2>2 DEF EndSplit, Followed, NothingYet
<1>6. CASE MergePop
  <2>1. /\ chunks' \in Seq(Seq(FileLine)) /\ sorted' \in Seq(FileLine)
        /\ RowsOfAll(chunks') \union RowsIn(sorted') = RowsOfAll(chunks) \union RowsIn(sorted)
    BY <1>6, LinePopped
  <2>2. ImportTypeOK'
    BY <1>6, <2>1 DEF MergePop, ImportTypeOK
  <2> QED
    BY <1>6, <2>1, <2>2 DEF MergePop, Followed, NothingYet
<1>7. CASE EndMerge
  <2>1. ImportTypeOK'
    BY <1>7 DEF EndMerge, ImportTypeOK
  <2>2. RowsOfAll(chunks) = {}
    BY <1>7 DEF EndMerge, RowsOfAll, RowsIn
  <2>3. InList' = {} /\ RowsUpTo(sorted, 1) = {} /\ PrefixesOf({}) = {}
    BY <1>7, RowsNext DEF EndMerge, Followed, NothingYet, InList, PrefixesOf, ImportTypeOK
  <2> QED
    BY <1>7, <2>1, <2>2, <2>3 DEF EndMerge, Followed, NothingYet
<1>8. CASE DedupeRow
  <2>1. /\ dst' \in Seq(ListRow)
        /\ InList' = PrefixesOf(RowsUpTo(sorted, next + 1))
        /\ last' \subseteq InList'
    BY <1>8, RowTaken DEF DedupeRow, Followed, ImportTypeOK
  <2>2. ImportTypeOK'
    BY <1>8, <2>1 DEF DedupeRow, ImportTypeOK
  <2> QED
    BY <1>8, <2>1, <2>2 DEF DedupeRow, Followed
<1>9. CASE Imported
  <2>1. ImportTypeOK'
    BY <1>9 DEF Imported, ImportTypeOK
  <2>2. InList = PrefixesOf(RowsIn(src))
    BY <1>9, RowsNext DEF Imported, Followed, ImportTypeOK
  <2> QED
    BY <1>9, <2>1, <2>2 DEF Imported, Followed, InList
<1>10. CASE ImportFails
  BY <1>10 DEF ImportFails, ImportTypeOK, Followed
<1>11. CASE UNCHANGED importVars
  BY <1>11 DEF importVars, ImportTypeOK, Followed, NothingYet, InList
<1> QED
  BY <1>1, <1>2, <1>3, <1>4, <1>5, <1>6, <1>7, <1>8, <1>9, <1>10, <1>11 DEF ImportStep

(* Every variable of the import keeps its type. *)
THEOREM ImportTypeCorrect == ImportSpec => []ImportTypeOK
<1>1. ImportInv => ImportTypeOK
  BY DEF ImportInv
<1> QED
  BY <1>1, ImportInitially, ImportInductive, PTL DEF ImportSpec

(* An import that ends well has listed the prefixes of the file, all of them *)
(* and no others, for every file, every size and every length of the chunks, *)
(* the last of which may be short.                                          *)
THEOREM NothingLostAlways == ImportSpec => []NothingLost
<1>1. ImportInv => NothingLost
  <2>1. SourceRows = RowsIn(src) \ {NoRow}
    BY DEF SourceRows, RowsIn
  <2> QED
    BY <2>1 DEF ImportInv, Followed, NothingLost, InList, PrefixesOf
<1> QED
  BY <1>1, ImportInitially, ImportInductive, PTL DEF ImportSpec

(***************************************************************************)
(* The merges of batches into a result file.                               *)
(***************************************************************************)
(* The parser keeps the scores: it does not round, or the latencies that are *)
(* measured are on the right side of a half.                                 *)
ScoresKept == \A r \in Result : Ms(Parse(r)) = Ms(r)

(* The scores are kept where the parser does not round, and where it does     *)
(* if no latency is rounded up.                                              *)
LEMMA ScoresKeptWhen ==
  ASSUME ~Rounds \/ \A l \in Latencies : l < 10 \/ l % 10 < 5
  PROVE  ScoresKept
<1>1. SUFFICES ASSUME NEW r \in Result PROVE Ms(Parse(r)) = Ms(r)
  BY DEF ScoresKept
<1>2. CASE ~Rounds
  BY <1>2 DEF Parse
<1>3. CASE Rounds
  <2> DEFINE l == r.latency
             ms == IF l < 10 THEN 10 ELSE 10 * ((l + 5) \div 10)
  <2>1. r = [key |-> r.key, latency |-> l] /\ l \in Latencies
    BY DEF Result
  <2>2. Ms(Parse(r)) = (IF ms < 10 THEN 1 ELSE ms \div 10) /\ Ms(r) = IF l < 10 THEN 1 ELSE l \div 10
    BY <1>3, <2>1 DEF Parse, Ms
  <2>3. l \in Int /\ 1 <= l /\ (l < 10 \/ l % 10 < 5)
    <3>1. \A x \in Latencies : x \in Int /\ 1 <= x
      BY LatenciesAssumption
    <3> QED
      BY <1>1, <1>3, <2>1, <3>1
  <2> HIDE DEF l
  <2>4. CASE l < 10
    BY <2>2, <2>4
  <2>5. CASE ~(l < 10)
    <3>1. PICK q \in Int : q = l \div 10 /\ l = 10 * q + (l % 10) /\ l % 10 \in 0..9
      BY <2>3
    <3>2. (l + 5) \div 10 = q /\ 1 <= q
      BY <2>3, <2>5, <3>1
    <3>3. ms = 10 * q
      BY <2>5, <3>2
    <3>4. (10 * q) \div 10 = q /\ ~(10 * q < 10)
      BY <3>2
    <3> QED
      BY <2>2, <2>5, <3>1, <3>3, <3>4
  <2> QED
    BY <2>4, <2>5
<1> QED
  BY <1>2, <1>3

Ordered(f) == \A i, j \in DOMAIN f : i < j => Ms(f[i]) <= Ms(f[j])

Distinct(f) == \A i, j \in DOMAIN f : f[i].key = f[j].key => i = j

GoodFile(f) == f \in Seq(Record) /\ Ordered(f) /\ Distinct(f)

(* There is a record of that key that is not worse. *)
AsGood(f, r) == \E i \in DOMAIN f : f[i].key = r.key /\ Ms(f[i]) <= Ms(r)

(* Rounding stays within the latencies of a record. *)
LEMMA Rounding ==
  ASSUME NEW l \in Int, 10 <= l, l <= 9999
  PROVE  (l + 5) \div 10 \in 1..1000
<1> DEFINE q == (l + 5) \div 10
<1>1. q \in Int /\ 10 * q <= l + 5 /\ l + 5 < 10 * q + 10
  OBVIOUS
<1> HIDE DEF q
<1>2. 1 <= q /\ q <= 1000
  BY <1>1
<1> QED
  BY <1>1, <1>2 DEF q

(* A record has the latency of a result, or a rounded one. *)
LEMMA RecordLatency ==
  ASSUME NEW r \in Record
  PROVE  /\ r = [key |-> r.key, latency |-> r.latency] /\ r.key \in Keys
         /\ r.latency \in Int /\ 1 <= r.latency
         /\ r.latency <= 9999 \/ r.latency = 10000
         /\ r.latency \in Latencies \/ \E n \in 1..1000 : r.latency = 10 * n
<1>1. /\ r = [key |-> r.key, latency |-> r.latency] /\ r.key \in Keys
      /\ r.latency \in Latencies \/ \E n \in 1..1000 : r.latency = 10 * n
  BY DEF Record
<1>2. \A x \in Latencies : x \in Int /\ 1 <= x /\ x <= 9999
  BY LatenciesAssumption
<1>3. \A n \in 1..1000 : 10 * n \in Int /\ 1 <= 10 * n /\ (10 * n <= 9999 \/ 10 * n = 10000)
  OBVIOUS
<1> DEFINE l == r.latency
<1>4. l \in Latencies \/ \E n \in 1..1000 : l = 10 * n
  BY <1>1
<1> HIDE DEF l
<1>5. l \in Int /\ 1 <= l /\ (l <= 9999 \/ l = 10000)
  BY <1>2, <1>3, <1>4
<1> QED
  BY <1>1, <1>5 DEF l

(* A score is that of at least a millisecond. *)
LEMMA ScoreIsNat ==
  ASSUME NEW r \in Record
  PROVE  Ms(r) \in Nat
<1> DEFINE l == r.latency
<1>1. l \in Int /\ 1 <= l /\ Ms(r) = IF l < 10 THEN 1 ELSE l \div 10
  BY RecordLatency DEF Ms
<1> HIDE DEF l
<1> QED
  BY <1>1

(* A record keeps its key and score when it is read back. *)
LEMMA RecordParsed ==
  ASSUME ScoresKept, NEW r \in Record
  PROVE  /\ Parse(r) \in Record /\ Parse(r).key = r.key /\ Ms(Parse(r)) = Ms(r)
<1> DEFINE l == r.latency
           ms == IF l < 10 THEN 10 ELSE 10 * ((l + 5) \div 10)
<1>1. /\ r = [key |-> r.key, latency |-> l] /\ r.key \in Keys
      /\ l \in Int /\ 1 <= l
      /\ l <= 9999 \/ l = 10000
      /\ l \in Latencies \/ \E n \in 1..1000 : l = 10 * n
  BY RecordLatency
<1>2. Parse(r) = IF Rounds THEN [key |-> r.key, latency |-> ms] ELSE r
  BY <1>1 DEF Parse
<1> HIDE DEF l
<1>3. \E n \in 1..1000 : ms = 10 * n
  <2>1. CASE l < 10
    <3>1. 10 = 10 * 1 /\ 1 \in 1..1000
      OBVIOUS
    <3> QED
      BY <2>1, <3>1, Zenon
  <2>2. CASE ~(l < 10) /\ l <= 9999
    <3>1. 10 <= l
      BY <1>1, <2>2
    <3>2. (l + 5) \div 10 \in 1..1000
      BY <1>1, <2>2, <3>1, Rounding
    <3> QED
      <4>1. ms = 10 * ((l + 5) \div 10)
        BY <2>2
      <4> HIDE DEF ms
      <4> QED
        BY <3>2, <4>1, Zenon
  <2>3. CASE l = 10000
    <3>1. (l + 5) \div 10 = 1000 /\ ~(l < 10)
      BY <2>3
    <3> QED
      BY <3>1
  <2>4. l < 10 \/ (~(l < 10) /\ l <= 9999) \/ l = 10000
    BY <1>1
  <2> HIDE DEF ms
  <2> QED
    BY <2>1, <2>2, <2>3, <2>4
<1>4. Parse(r) \in Record /\ Parse(r).key = r.key
  <2> HIDE DEF ms
  <2>1. CASE Rounds
    BY <1>1, <1>2, <1>3, <2>1 DEF Record
  <2>2. CASE ~Rounds
    BY <1>2, <2>2
  <2> QED
    BY <2>1, <2>2
<1>5. Ms(Parse(r)) = Ms(r)
  <2>1. CASE l \in Latencies
    BY <1>1, <2>1 DEF ScoresKept, Result
  <2>2. CASE \E n \in 1..1000 : l = 10 * n
    <3>1. PICK n \in 1..1000 : l = 10 * n
      BY <2>2
    <3>2. (l + 5) \div 10 = n /\ ~(l < 10)
      BY <3>1
    <3>3. Parse(r) = r
      BY <1>1, <1>2, <3>1, <3>2
    <3> QED
      BY <3>3
  <2> QED
    BY <1>1, <2>1, <2>2
<1> QED
  BY <1>4, <1>5

(* A record may follow a file, and the file with it. *)
MayFollow(s, r) == \A k \in DOMAIN s : Ms(s[k]) <= Ms(r) /\ s[k].key # r.key

Added(s, r, t) ==
    /\ AsGood(t, r) /\ \A x : AsGood(s, x) => AsGood(t, x)
    /\ \A k \in DOMAIN t : t[k] = r \/ (k \in DOMAIN s /\ t[k] = s[k])

(* A record that is not better than those before it, of a new key, is added. *)
LEMMA RecordAdded ==
  ASSUME NEW s, GoodFile(s), NEW r \in Record, MayFollow(s, r), NEW t, t = Append(s, r)
  PROVE  GoodFile(t) /\ Added(s, r, t)
<1>1. s \in Seq(Record)
  BY DEF GoodFile
<1>2. /\ t \in Seq(Record) /\ Len(t) = Len(s) + 1
      /\ \A i \in 1..Len(s) : t[i] = s[i]
      /\ t[Len(s) + 1] = r
  BY <1>1, AppendProperties
<1>3. DOMAIN s = 1..Len(s) /\ DOMAIN t = 1..(Len(s) + 1) /\ Len(s) \in Nat
  BY <1>1, <1>2, LenProperties
<1>4. PICK n : /\ DOMAIN t = DOMAIN s \cup {n} /\ n \notin DOMAIN s /\ t[n] = r
               /\ (\A i \in DOMAIN s : t[i] = s[i]) /\ \A i \in DOMAIN t : ~(n < i)
  <2>1. DOMAIN t = DOMAIN s \cup {Len(s) + 1} /\ Len(s) + 1 \notin DOMAIN s
    BY <1>3
  <2>2. \A i \in DOMAIN t : ~(Len(s) + 1 < i)
    BY <1>3
  <2> QED
    BY <1>2, <1>3, <2>1, <2>2
<1>5. Ms(r) <= Ms(r)
  <2>1. Ms(r) \in Nat
    BY ScoreIsNat
  <2> QED
    BY <2>1
<1>6. Ordered(t)
  BY <1>4 DEF GoodFile, Ordered, MayFollow
<1>7. Distinct(t)
  BY <1>4 DEF GoodFile, Distinct, MayFollow
<1>8. AsGood(t, r) /\ \A x : AsGood(s, x) => AsGood(t, x)
  BY <1>4, <1>5 DEF AsGood
<1> QED
  BY <1>2, <1>4, <1>6, <1>7, <1>8 DEF GoodFile, Added

-----------------------------------------------------------------------------
(***************************************************************************)
(* The pass over a file with the records ex and a batch d, in mid-course:   *)
(* what is written is sorted, without duplicates and not worse than what    *)
(* comes next; what the cursor passed is settled and better than the next   *)
(* record of the file; and everything settled or read has a record.         *)
(***************************************************************************)
PassPlace(m, d, ex) ==
    /\ m.next \in 1..(Len(ex) + 1)
    /\ m.cursor \in 1..(Len(d) + 1)
    /\ m.emitted \subseteq DOMAIN d

NotBehind(m, d, ex) ==
    \A k \in DOMAIN m.out :
        /\ m.next \in DOMAIN ex => Ms(m.out[k]) <= Ms(ex[m.next])
        /\ m.cursor \in DOMAIN d => Ms(m.out[k]) <= Ms(d[m.cursor])

Passed(m, d, ex) ==
    \A i \in DOMAIN d :
        i < m.cursor => /\ i \in m.emitted
                        /\ m.next \in DOMAIN ex => Ms(d[i]) < Ms(ex[m.next])

CrossedOut(m, d, ex) ==
    /\ \A i \in DOMAIN d : \A j \in DOMAIN ex :
         j < m.next /\ ex[j].key = d[i].key => i \in m.emitted
    /\ \A i \in m.emitted :
         i < m.cursor \/ \E j \in DOMAIN ex : j < m.next /\ ex[j].key = d[i].key

Origin(m, d, ex) ==
    \A k \in DOMAIN m.out :
        \/ \E i \in m.emitted : m.out[k] = d[i]
        \/ \E j \in DOMAIN ex : j < m.next /\ m.out[k] = ex[j]

Settled(m, d, ex) ==
    /\ \A i \in m.emitted : AsGood(m.out, d[i])
    /\ \A j \in DOMAIN ex : j < m.next => AsGood(m.out, ex[j])

PassOk(m, d, ex) ==
    /\ PassPlace(m, d, ex) /\ GoodFile(m.out) /\ NotBehind(m, d, ex)
    /\ Passed(m, d, ex) /\ CrossedOut(m, d, ex) /\ Origin(m, d, ex)
    /\ Settled(m, d, ex)

(* A pass begins in order. *)
LEMMA PassBegins ==
  ASSUME NEW d, GoodFile(d), NEW ex, GoodFile(ex)
  PROVE  PassOk(NewPass, d, ex)
<1>1. Len(d) \in Nat /\ Len(ex) \in Nat /\ DOMAIN d = 1..Len(d) /\ DOMAIN ex = 1..Len(ex)
  BY LenProperties DEF GoodFile
<1>2. /\ NewPass.next = 1 /\ NewPass.cursor = 1 /\ NewPass.emitted = {} /\ NewPass.out = <<>>
  BY DEF NewPass
<1>3. <<>> \in Seq(Record) /\ DOMAIN <<>> = {}
  BY EmptySeq
<1>4. GoodFile(<<>>)
  BY <1>3 DEF GoodFile, Ordered, Distinct
<1>5. PassPlace(NewPass, d, ex)
  BY <1>1, <1>2 DEF PassPlace
<1>6. NotBehind(NewPass, d, ex) /\ Origin(NewPass, d, ex)
  BY <1>2, <1>3 DEF NotBehind, Origin
<1>7. (\A i \in DOMAIN d : ~(i < 1)) /\ \A j \in DOMAIN ex : ~(j < 1)
  BY <1>1
<1>8. Passed(NewPass, d, ex) /\ CrossedOut(NewPass, d, ex) /\ Settled(NewPass, d, ex)
  BY <1>2, <1>7 DEF Passed, CrossedOut, Settled
<1> QED
  BY <1>2, <1>4, <1>5, <1>6, <1>8 DEF PassOk

(* The facts of two sequences that the steps of a pass compare. *)
LEMMA Compared ==
  ASSUME NEW d, GoodFile(d)
  PROVE  /\ Len(d) \in Nat /\ DOMAIN d = 1..Len(d)
         /\ \A i \in DOMAIN d : d[i] \in Record /\ Ms(d[i]) \in Int
         /\ \A i, j \in DOMAIN d : i <= j => Ms(d[i]) <= Ms(d[j])
         /\ \A i, j \in DOMAIN d : d[i].key = d[j].key => i = j
<1>1. d \in Seq(Record) /\ Ordered(d) /\ Distinct(d)
  BY DEF GoodFile
<1>2. Len(d) \in Nat /\ DOMAIN d = 1..Len(d) /\ \A i \in DOMAIN d : d[i] \in Record
  BY <1>1, LenProperties, ElementOfSeq
<1>3. \A i \in DOMAIN d : Ms(d[i]) \in Int
  <2>1. SUFFICES ASSUME NEW i \in DOMAIN d PROVE Ms(d[i]) \in Int
    OBVIOUS
  <2>2. Ms(d[i]) \in Nat
    BY <1>2, ScoreIsNat
  <2> QED
    BY <2>2
<1>4. \A i, j \in DOMAIN d : i <= j => Ms(d[i]) <= Ms(d[j])
  <2>1. SUFFICES ASSUME NEW i \in DOMAIN d, NEW j \in DOMAIN d, i <= j
                 PROVE  Ms(d[i]) <= Ms(d[j])
    OBVIOUS
  <2>2. i = j \/ i < j
    BY <1>2, <2>1
  <2>3. Ms(d[i]) <= Ms(d[i])
    BY <1>3
  <2> QED
    BY <1>1, <2>2, <2>3 DEF Ordered
<1> QED
  BY <1>1, <1>2, <1>3, <1>4 DEF Distinct

(* The cursor moves: the record of the batch is written unless it is settled. *)
LEMMA PassEmits ==
  ASSUME NEW d, GoodFile(d), NEW ex, GoodFile(ex), NEW m, PassOk(m, d, ex),
         NEW c, c = m.cursor, c \in DOMAIN d,
         m.next \in DOMAIN ex => Ms(d[c]) < Ms(ex[m.next]),
         NEW n, n.next = m.next, n.cursor = c + 1, n.emitted = m.emitted \cup {c},
         n.out = IF c \in m.emitted THEN m.out ELSE Append(m.out, d[c])
  PROVE  PassOk(n, d, ex)
<1>1. /\ Len(d) \in Nat /\ DOMAIN d = 1..Len(d)
      /\ \A i \in DOMAIN d : d[i] \in Record /\ Ms(d[i]) \in Int
      /\ \A i, j \in DOMAIN d : i <= j => Ms(d[i]) <= Ms(d[j])
      /\ \A i, j \in DOMAIN d : d[i].key = d[j].key => i = j
  BY Compared
<1>2. /\ Len(ex) \in Nat /\ DOMAIN ex = 1..Len(ex)
      /\ \A j \in DOMAIN ex : ex[j] \in Record /\ Ms(ex[j]) \in Int
  BY Compared
<1>3. /\ PassPlace(m, d, ex) /\ GoodFile(m.out) /\ NotBehind(m, d, ex)
      /\ Passed(m, d, ex) /\ CrossedOut(m, d, ex) /\ Origin(m, d, ex)
      /\ Settled(m, d, ex)
  BY DEF PassOk
<1>4. c + 1 \in 1..(Len(d) + 1) /\ \A i \in DOMAIN d : i < c + 1 <=> (i < c \/ i = c)
  BY <1>1
<1>5. PassPlace(n, d, ex)
  BY <1>1, <1>3, <1>4 DEF PassPlace
<1>6. Passed(n, d, ex)
  BY <1>3, <1>4 DEF Passed
<1>7. CrossedOut(n, d, ex)
  <2>1. m.emitted \subseteq DOMAIN d
    BY <1>3 DEF PassPlace
  <2> QED
    BY <1>3, <1>4, <2>1 DEF CrossedOut
<1>8. c + 1 \in DOMAIN d => Ms(d[c]) <= Ms(d[c + 1])
  BY <1>1
<1>9. \A k \in DOMAIN m.out : Ms(m.out[k]) \in Int /\ Ms(m.out[k]) <= Ms(d[c])
  BY <1>3, Compared DEF NotBehind
<1>10. \A x : (Ms(x) \in Int /\ Ms(x) <= Ms(d[c])) =>
          /\ m.next \in DOMAIN ex => Ms(x) <= Ms(ex[m.next])
          /\ c + 1 \in DOMAIN d => Ms(x) <= Ms(d[c + 1])
  BY <1>1, <1>2, <1>8
<1>11. CASE c \in m.emitted
  <2>1. n.out = m.out
    BY <1>11
  <2>2. NotBehind(n, d, ex)
    BY <1>9, <1>10, <2>1 DEF NotBehind
  <2>3. n.emitted = m.emitted
    BY <1>11
  <2>4. Origin(n, d, ex) /\ Settled(n, d, ex)
    BY <1>3, <2>1, <2>3 DEF Origin, Settled
  <2> QED
    BY <1>3, <1>5, <1>6, <1>7, <2>1, <2>2, <2>4 DEF PassOk
<1>12. CASE c \notin m.emitted
  <2>1. n.out = Append(m.out, d[c])
    BY <1>12
  <2>2. \A k \in DOMAIN m.out : m.out[k].key # d[c].key
    <3>1. SUFFICES ASSUME NEW k \in DOMAIN m.out, m.out[k].key = d[c].key PROVE FALSE
      OBVIOUS
    <3>2. m.emitted \subseteq DOMAIN d
      BY <1>3 DEF PassPlace
    <3>3. CASE \E i \in m.emitted : m.out[k] = d[i]
      BY <1>1, <1>12, <3>1, <3>2, <3>3
    <3>4. CASE \E j \in DOMAIN ex : j < m.next /\ m.out[k] = ex[j]
      BY <1>3, <1>12, <3>1, <3>4 DEF CrossedOut
    <3> QED
      BY <1>3, <3>3, <3>4 DEF Origin
  <2>3. /\ GoodFile(n.out) /\ AsGood(n.out, d[c])
        /\ \A x : AsGood(m.out, x) => AsGood(n.out, x)
        /\ \A k \in DOMAIN n.out : n.out[k] = d[c] \/ (k \in DOMAIN m.out /\ n.out[k] = m.out[k])
    <3>1. MayFollow(m.out, d[c])
      BY <1>9, <2>2 DEF MayFollow
    <3>2. GoodFile(m.out) /\ d[c] \in Record
      BY <1>1, <1>3
    <3>3. GoodFile(n.out) /\ Added(m.out, d[c], n.out)
      BY <2>1, <3>1, <3>2, RecordAdded
    <3> QED
      BY <3>3 DEF Added
  <2>4. Origin(n, d, ex) /\ Settled(n, d, ex)
    BY <1>3, <2>3 DEF Origin, Settled
  <2>5. NotBehind(n, d, ex)
    BY <1>1, <1>9, <1>10, <2>3 DEF NotBehind
  <2> QED
    BY <1>5, <1>6, <1>7, <2>3, <2>4, <2>5 DEF PassOk
<1> QED
  BY <1>11, <1>12

(* An existing record is read: it is kept, or replaced by one of the batch.  *)
LEMMA PassTakes ==
  ASSUME NEW d, GoodFile(d), NEW ex, GoodFile(ex), NEW m, PassOk(m, d, ex),
         NEW b, b = m.next, b \in DOMAIN ex,
         m.cursor \in DOMAIN d => Ms(ex[b]) <= Ms(d[m.cursor]),
         NEW n, n.next = b + 1, n.cursor = m.cursor,
         \/ /\ \E i \in DOMAIN d : /\ d[i].key = ex[b].key /\ Ms(d[i]) < Ms(ex[b])
                                   /\ n.emitted = m.emitted \cup {i}
                                   /\ n.out = IF i \in m.emitted THEN m.out
                                                ELSE Append(m.out, d[i])
         \/ /\ \A i \in DOMAIN d : d[i].key = ex[b].key => ~(Ms(d[i]) < Ms(ex[b]))
            /\ n.emitted = m.emitted \cup {i \in DOMAIN d : d[i].key = ex[b].key}
            /\ n.out = Append(m.out, ex[b])
  PROVE  PassOk(n, d, ex)
<1>1. /\ Len(d) \in Nat /\ DOMAIN d = 1..Len(d)
      /\ \A i \in DOMAIN d : d[i] \in Record /\ Ms(d[i]) \in Int
      /\ \A i, j \in DOMAIN d : i <= j => Ms(d[i]) <= Ms(d[j])
      /\ \A i, j \in DOMAIN d : d[i].key = d[j].key => i = j
  BY Compared
<1>2. /\ Len(ex) \in Nat /\ DOMAIN ex = 1..Len(ex)
      /\ \A j \in DOMAIN ex : ex[j] \in Record /\ Ms(ex[j]) \in Int
      /\ \A i, j \in DOMAIN ex : i <= j => Ms(ex[i]) <= Ms(ex[j])
      /\ \A i, j \in DOMAIN ex : ex[i].key = ex[j].key => i = j
  BY Compared
<1>3. /\ PassPlace(m, d, ex) /\ GoodFile(m.out) /\ NotBehind(m, d, ex)
      /\ Passed(m, d, ex) /\ CrossedOut(m, d, ex) /\ Origin(m, d, ex)
      /\ Settled(m, d, ex)
  BY DEF PassOk
<1>4. b + 1 \in 1..(Len(ex) + 1) /\ \A j \in DOMAIN ex : j < b + 1 <=> (j < b \/ j = b)
  BY <1>2
<1>5. b + 1 \in DOMAIN ex => Ms(ex[b]) <= Ms(ex[b + 1])
  BY <1>2
<1>6. \A k \in DOMAIN m.out : Ms(m.out[k]) \in Int /\ Ms(m.out[k]) <= Ms(ex[b])
  BY <1>3, Compared DEF NotBehind
<1>7. \A x : (Ms(x) \in Int /\ Ms(x) <= Ms(ex[b])) =>
          /\ b + 1 \in DOMAIN ex => Ms(x) <= Ms(ex[b + 1])
          /\ m.cursor \in DOMAIN d => Ms(x) <= Ms(d[m.cursor])
  BY <1>1, <1>2, <1>5
<1>8. Passed(m, d, ex) /\ n.cursor = m.cursor /\ n.next = b + 1
  BY <1>3
<1>9. ASSUME m.emitted \subseteq n.emitted PROVE Passed(n, d, ex)
  <2>1. \A i \in DOMAIN d : Ms(d[i]) < Ms(ex[b]) =>
           (b + 1 \in DOMAIN ex => Ms(d[i]) < Ms(ex[b + 1]))
    BY <1>1, <1>2, <1>5
  <2> QED
    BY <1>3, <1>9, <2>1 DEF Passed
<1>10. CASE \E i \in DOMAIN d : /\ d[i].key = ex[b].key /\ Ms(d[i]) < Ms(ex[b])
                                /\ n.emitted = m.emitted \cup {i}
                                /\ n.out = IF i \in m.emitted THEN m.out
                                             ELSE Append(m.out, d[i])
  <2>1. PICK i \in DOMAIN d : /\ d[i].key = ex[b].key /\ Ms(d[i]) < Ms(ex[b])
                              /\ n.emitted = m.emitted \cup {i}
                              /\ n.out = IF i \in m.emitted THEN m.out
                                           ELSE Append(m.out, d[i])
    BY <1>10
  <2>2. i \in m.emitted
    <3>1. i < m.cursor
      <4>1. SUFFICES ASSUME ~(i < m.cursor) PROVE FALSE
        OBVIOUS
      <4>2. m.cursor \in DOMAIN d /\ m.cursor <= i
        BY <1>1, <1>3, <4>1 DEF PassPlace
      <4>3. Ms(ex[b]) <= Ms(d[m.cursor]) /\ Ms(d[m.cursor]) <= Ms(d[i])
        BY <1>1, <4>2
      <4> QED
        BY <1>1, <1>2, <2>1, <4>2, <4>3
    <3> QED
      BY <1>3, <3>1 DEF Passed
  <2>3. n.emitted = m.emitted /\ n.out = m.out
    BY <2>1, <2>2
  <2>4. PassPlace(n, d, ex)
    BY <1>3, <1>4, <2>3 DEF PassPlace
  <2>5. NotBehind(n, d, ex)
    BY <1>6, <1>7, <2>3 DEF NotBehind
  <2>6. Passed(n, d, ex)
    BY <1>9, <2>3
  <2>7. CrossedOut(n, d, ex)
    BY <1>1, <1>3, <1>4, <2>1, <2>2, <2>3 DEF CrossedOut
  <2>8. Origin(n, d, ex)
    BY <1>3, <1>4, <2>3 DEF Origin
  <2>9. AsGood(m.out, ex[b])
    <3>1. PICK k \in DOMAIN m.out : m.out[k].key = d[i].key /\ Ms(m.out[k]) <= Ms(d[i])
      BY <1>3, <2>2 DEF Settled, AsGood
    <3>2. Ms(m.out[k]) <= Ms(ex[b])
      BY <1>6
    <3> QED
      BY <2>1, <3>1, <3>2 DEF AsGood
  <2>10. Settled(n, d, ex)
    BY <1>3, <1>4, <2>3, <2>9 DEF Settled
  <2> QED
    BY <1>3, <2>3, <2>4, <2>5, <2>6, <2>7, <2>8, <2>10 DEF PassOk
<1>11. CASE /\ \A i \in DOMAIN d : d[i].key = ex[b].key => ~(Ms(d[i]) < Ms(ex[b]))
            /\ n.emitted = m.emitted \cup {i \in DOMAIN d : d[i].key = ex[b].key}
            /\ n.out = Append(m.out, ex[b])
  <2>1. \A k \in DOMAIN m.out : m.out[k].key # ex[b].key
    <3>1. SUFFICES ASSUME NEW k \in DOMAIN m.out, m.out[k].key = ex[b].key PROVE FALSE
      OBVIOUS
    <3>2. \A j \in DOMAIN ex : j < b => j # b
      BY <1>2
    <3>3. CASE \E i \in m.emitted : m.out[k] = d[i]
      <4>1. PICK i \in m.emitted : m.out[k] = d[i]
        BY <3>3
      <4>2. i \in DOMAIN d /\ d[i].key = ex[b].key
        BY <1>3, <3>1, <4>1 DEF PassPlace
      <4>3. ~(i < m.cursor)
        BY <1>3, <1>11, <4>2 DEF Passed
      <4> QED
        BY <1>2, <1>3, <3>2, <4>1, <4>2, <4>3 DEF CrossedOut
    <3>4. CASE \E j \in DOMAIN ex : j < b /\ m.out[k] = ex[j]
      BY <1>2, <3>1, <3>2, <3>4
    <3> QED
      BY <1>3, <3>3, <3>4 DEF Origin
  <2>2. /\ GoodFile(n.out) /\ AsGood(n.out, ex[b])
        /\ \A x : AsGood(m.out, x) => AsGood(n.out, x)
        /\ \A k \in DOMAIN n.out : n.out[k] = ex[b] \/ (k \in DOMAIN m.out /\ n.out[k] = m.out[k])
    <3>1. MayFollow(m.out, ex[b])
      BY <1>6, <2>1 DEF MayFollow
    <3>2. GoodFile(m.out) /\ ex[b] \in Record /\ n.out = Append(m.out, ex[b])
      BY <1>2, <1>3, <1>11
    <3>3. GoodFile(n.out) /\ Added(m.out, ex[b], n.out)
      BY <3>1, <3>2, RecordAdded
    <3> QED
      BY <3>3 DEF Added
  <2>3. PassPlace(n, d, ex)
    BY <1>3, <1>4, <1>11 DEF PassPlace
  <2>4. NotBehind(n, d, ex)
    BY <1>2, <1>6, <1>7, <2>2 DEF NotBehind
  <2>5. Passed(n, d, ex)
    BY <1>9, <1>11
  <2>6. CrossedOut(n, d, ex)
    BY <1>3, <1>4, <1>11 DEF CrossedOut
  <2>7. Origin(n, d, ex)
    BY <1>3, <1>4, <1>11, <2>2 DEF Origin
  <2>8. \A i \in DOMAIN d : d[i].key = ex[b].key => AsGood(n.out, d[i])
    <3>1. SUFFICES ASSUME NEW i \in DOMAIN d, d[i].key = ex[b].key
                   PROVE  AsGood(n.out, d[i])
      OBVIOUS
    <3>2. Ms(ex[b]) <= Ms(d[i])
      BY <1>1, <1>2, <1>11, <3>1
    <3>3. PICK k \in DOMAIN n.out : n.out[k].key = ex[b].key /\ Ms(n.out[k]) <= Ms(ex[b])
      BY <2>2 DEF AsGood
    <3>4. Ms(n.out[k]) \in Int
      BY <2>2, Compared
    <3>5. Ms(n.out[k]) <= Ms(d[i])
      BY <1>1, <1>2, <3>2, <3>3, <3>4
    <3> QED
      BY <3>1, <3>3, <3>5 DEF AsGood
  <2>9. Settled(n, d, ex)
    BY <1>3, <1>4, <1>11, <2>2, <2>8 DEF Settled
  <2> QED
    BY <2>2, <2>3, <2>4, <2>5, <2>6, <2>7, <2>9 DEF PassOk
<1> QED
  BY <1>10, <1>11

(* A pass that has read everything: all of the batch and of the file counts. *)
LEMMA PassEnds ==
  ASSUME NEW d, GoodFile(d), NEW ex, GoodFile(ex), NEW m, PassOk(m, d, ex),
         m.next = Len(ex) + 1, m.cursor = Len(d) + 1
  PROVE  /\ GoodFile(m.out)
         /\ \A i \in DOMAIN d : AsGood(m.out, d[i])
         /\ \A j \in DOMAIN ex : AsGood(m.out, ex[j])
         /\ \A k \in DOMAIN m.out : \/ \E i \in DOMAIN d : m.out[k] = d[i]
                                    \/ \E j \in DOMAIN ex : m.out[k] = ex[j]
<1>1. /\ \A i \in DOMAIN d : i < m.cursor
      /\ \A j \in DOMAIN ex : j < m.next
  BY Compared
<1>2. m.emitted \subseteq DOMAIN d /\ \A i \in DOMAIN d : i \in m.emitted
  BY <1>1 DEF PassOk, PassPlace, Passed
<1> QED
  BY <1>1, <1>2 DEF PassOk, Settled, Origin

-----------------------------------------------------------------------------
(* A set of indexes has a smallest one: the one of rank 1. *)
LEMMA SmallestIndex ==
  ASSUME NEW I \in SUBSET Nat, IsFiniteSet(I), NEW i \in I
  PROVE  \E m \in I : \A j \in I : m <= j
<1>1. Cardinality(I) \in Nat /\ Rank(I, i) \in 1..Cardinality(I)
  BY FS_CardinalityType, RankNumbers
<1>2. 1 \in 1..Cardinality(I)
  BY <1>1
<1>3. PICK m \in I : Rank(I, m) = 1
  BY <1>2, RankNumbers
<1>4. \A j \in I : m <= j
  <2>1. SUFFICES ASSUME NEW j \in I, j < m PROVE FALSE
    OBVIOUS
  <2>2. Rank(I, j) < Rank(I, m) /\ Rank(I, j) \in 1..Cardinality(I)
    BY <2>1, RankNumbers
  <2> QED
    BY <1>1, <1>3, <2>2
<1> QED
  BY <1>4

(* There are finitely many results, so a batch can be numbered. *)
LEMMA ResultFinite == IsFiniteSet(Result)
<1>1. IsFiniteSet(Latencies)
  <2>1. PICK top \in Int : top = 9999
    OBVIOUS
  <2>2. Latencies \in SUBSET (1..top)
    BY <2>1, LatenciesAssumption
  <2>3. IsFiniteSet(1..top)
    BY FS_Interval
  <2> QED
    BY <2>2, <2>3, FS_Subset
<1>2. IsFiniteSet(Keys \X Latencies)
  BY <1>1, KeysAssumption, FS_Product
<1> DEFINE f == [x \in Keys \X Latencies |-> [key |-> x[1], latency |-> x[2]]]
<1>3. f \in [Keys \X Latencies -> Result]
  BY DEF Result
<1>4. \A r \in Result : \E x \in Keys \X Latencies : f[x] = r
  <2>1. SUFFICES ASSUME NEW r \in Result
                 PROVE  \E x \in Keys \X Latencies : f[x] = r
    OBVIOUS
  <2>2. r = [key |-> r.key, latency |-> r.latency] /\ <<r.key, r.latency>> \in Keys \X Latencies
    BY DEF Result
  <2>3. f[<<r.key, r.latency>>] = r
    BY <2>2
  <2> QED
    BY <2>2, <2>3
<1>5. f \in Surjection(Keys \X Latencies, Result)
  BY <1>3, <1>4 DEF Surjection
<1> QED
  BY <1>2, <1>5, FS_Surjection

(* A result can stand in a file as it is. *)
LEMMA ResultIsRecord == Result \subseteq Record
BY DEF Result, Record

(* The batch, sorted and without duplicates, is a good file that covers it. *)
LEMMA BatchPrepared ==
  ASSUME NEW offer \in SUBSET Result, NEW d \in Prepared(offer)
  PROVE  /\ GoodFile(d)
         /\ \A i \in DOMAIN d : d[i] \in offer
         /\ \A r \in offer : AsGood(d, r)
<1>1. IsFiniteSet(offer)
  BY ResultFinite, FS_Subset
<1>2. PICK t \in Bijection(1..Cardinality(offer), offer) : SortedBatch(t) /\ d = Dedupe(t)
  BY DEF Prepared
<1> DEFINE n == Cardinality(offer)
           I == {i \in DOMAIN t : \A j \in DOMAIN t : j < i => t[j].key # t[i].key}
<1>3. n \in Nat
  BY <1>1, FS_CardinalityType
<1>4. t \in [1..n -> offer] /\ \A r \in offer : \E i \in 1..n : t[i] = r
  BY <1>2 DEF Bijection, Surjection, Injection
<1>5. t \in Seq(Record) /\ DOMAIN t = 1..n
  <2>1. offer \subseteq Record
    BY ResultIsRecord
  <2>2. t \in [1..n -> Record]
    BY <1>4, <2>1
  <2> QED
    BY <1>3, <2>2, SeqDef
<1>6. d = Retain(t, I)
  BY <1>2 DEF Dedupe
<1> HIDE DEF n, I
<1>7. I \in SUBSET DOMAIN t
  BY DEF I
<1>8. d \in Seq(Record)
  BY <1>5, <1>6, <1>7, RetainedElements
<1>9. PICK e \in Bijection(DOMAIN d, I) :
         /\ \A k \in DOMAIN d : d[k] = t[e[k]]
         /\ \A k, m \in DOMAIN d : k < m => e[k] < e[m]
  <2>1. \E e \in Bijection(DOMAIN Retain(t, I), I) :
           /\ \A k \in DOMAIN Retain(t, I) : Retain(t, I)[k] = t[e[k]]
           /\ \A k, m \in DOMAIN Retain(t, I) : k < m => e[k] < e[m]
    BY <1>5, <1>7, RetainedElements
  <2> QED
    BY <1>6, <2>1
<1>10. /\ \A k \in DOMAIN d : e[k] \in I /\ e[k] \in 1..n
       /\ \A k, m \in DOMAIN d : e[k] = e[m] => k = m
       /\ \A i \in I : \E k \in DOMAIN d : e[k] = i
  BY <1>5, <1>7, <1>9 DEF Bijection, Injection, Surjection, IsInjective
<1>11. \A i, j \in 1..n : i < j => Ms(t[i]) <= Ms(t[j])
  <2>1. SUFFICES ASSUME NEW i \in 1..n, NEW j \in 1..n, i < j PROVE Ms(t[i]) <= Ms(t[j])
    OBVIOUS
  <2>2. t[i] \in Record /\ t[j] \in Record
    BY <1>4, ResultIsRecord
  <2>3. Ms(t[i]) \in Nat /\ Ms(t[j]) \in Nat
    BY <2>2, ScoreIsNat
  <2>4. Ms(t[i]) < Ms(t[j]) \/ Ms(t[i]) = Ms(t[j])
    BY <1>2, <1>5, <2>1 DEF SortedBatch, Better
  <2> QED
    BY <2>3, <2>4
<1>12. Ordered(d)
  BY <1>9, <1>10, <1>11 DEF Ordered
<1>13. \A i, j \in I : t[i].key = t[j].key => i = j
  <2>1. SUFFICES ASSUME NEW i \in I, NEW j \in I, t[i].key = t[j].key, i # j PROVE FALSE
    OBVIOUS
  <2>2. i < j \/ j < i
    BY <1>5, <1>7, <2>1
  <2> QED
    BY <2>1, <2>2 DEF I
<1>14. Distinct(d)
  BY <1>9, <1>10, <1>13 DEF Distinct
<1>15. \A r \in offer : AsGood(d, r)
  <2>1. SUFFICES ASSUME NEW r \in offer PROVE AsGood(d, r)
    OBVIOUS
  <2>2. PICK i \in 1..n : t[i] = r
    BY <1>4
  <2> DEFINE J == {j \in 1..n : t[j].key = r.key}
  <2>3. J \in SUBSET Nat /\ i \in J
    BY <2>2
  <2>4. IsFiniteSet(J)
    <3>1. IsFiniteSet(1..n)
      BY <1>3, FS_Interval
    <3> QED
      BY <3>1, FS_Subset
  <2>5. PICK m \in J : \A j \in J : m <= j
    BY <2>3, <2>4, SmallestIndex
  <2>6. m \in I
    <3>1. SUFFICES ASSUME NEW j \in DOMAIN t, j < m, t[j].key = t[m].key PROVE FALSE
      BY <1>5, <2>5 DEF I
    <3>2. j \in J
      BY <1>5, <2>5, <3>1
    <3> QED
      BY <2>3, <2>5, <3>1, <3>2
  <2>7. Ms(t[m]) <= Ms(r)
    <3>1. m = i \/ m < i
      BY <2>3, <2>5
    <3>2. Ms(r) <= Ms(r)
      <4>1. Ms(r) \in Nat
        BY ScoreIsNat, ResultIsRecord
      <4> QED
        BY <4>1
    <3> QED
      BY <1>11, <2>2, <2>5, <3>1, <3>2
  <2>8. PICK k \in DOMAIN d : e[k] = m
    BY <1>10, <2>6
  <2>9. d[k].key = r.key /\ Ms(d[k]) <= Ms(r)
    BY <1>9, <2>5, <2>7, <2>8
  <2> QED
    BY <2>9 DEF AsGood
<1>16. \A k \in DOMAIN d : d[k] \in offer
  BY <1>4, <1>9, <1>10
<1> QED
  BY <1>8, <1>12, <1>14, <1>15, <1>16 DEF GoodFile
-----------------------------------------------------------------------------
(* What the next merge reads of a file. *)
ReadBack(f) == [n \in 1..Len(f) |-> Parse(f[n])]

(* A sorted file without duplicates is still one when it is read back. *)
LEMMA FileReadBack ==
  ASSUME ScoresKept, NEW f, GoodFile(f)
  PROVE  /\ GoodFile(ReadBack(f)) /\ Len(ReadBack(f)) = Len(f)
         /\ DOMAIN ReadBack(f) = DOMAIN f
         /\ \A j \in DOMAIN f : /\ ReadBack(f)[j] = Parse(f[j])
                                /\ ReadBack(f)[j].key = f[j].key
                                /\ Ms(ReadBack(f)[j]) = Ms(f[j])
<1>1. /\ Len(f) \in Nat /\ DOMAIN f = 1..Len(f)
      /\ \A j \in DOMAIN f : f[j] \in Record /\ Ms(f[j]) \in Int
      /\ \A i, j \in DOMAIN f : i <= j => Ms(f[i]) <= Ms(f[j])
      /\ \A i, j \in DOMAIN f : f[i].key = f[j].key => i = j
  BY Compared
<1> DEFINE ex == ReadBack(f)
<1>2. DOMAIN ex = DOMAIN f /\ \A j \in DOMAIN f : ex[j] = Parse(f[j])
  BY <1>1 DEF ReadBack
<1>3. \A j \in DOMAIN f : /\ ex[j] \in Record /\ ex[j].key = f[j].key /\ Ms(ex[j]) = Ms(f[j])
  BY <1>1, <1>2, RecordParsed
<1>4. ex \in [1..Len(f) -> Record]
  <2>1. \A j \in 1..Len(f) : Parse(f[j]) \in Record
    BY <1>1, <1>2, <1>3
  <2> QED
    BY <2>1 DEF ReadBack
<1>5. ex \in Seq(Record) /\ Len(ex) = Len(f)
  BY <1>1, <1>4, SeqDef, LenProperties
<1> HIDE DEF ex
<1>6. Ordered(ex)
  <2>1. SUFFICES ASSUME NEW i \in DOMAIN f, NEW j \in DOMAIN f, i < j
                 PROVE  Ms(ex[i]) <= Ms(ex[j])
    BY <1>2 DEF Ordered
  <2>2. i <= j
    BY <1>1, <2>1
  <2> QED
    BY <1>1, <1>3, <2>2
<1>7. Distinct(ex)
  BY <1>1, <1>2, <1>3 DEF Distinct
<1> QED
  BY <1>2, <1>3, <1>5, <1>6, <1>7 DEF GoodFile, ex

(* A file that is as good as another one, and consists of it and a batch. *)
Covers(t, f) == \A i \in DOMAIN f : AsGood(t, f[i])

MadeOf(t, f, d) ==
    \A k \in DOMAIN t : \/ \E i \in DOMAIN d : t[k].key = d[i].key /\ Ms(t[k]) = Ms(d[i])
                        \/ \E j \in DOMAIN f : t[k].key = f[j].key /\ Ms(t[k]) = Ms(f[j])

MergedFrom(t, f, d) == GoodFile(t) /\ Covers(t, f) /\ Covers(t, d) /\ MadeOf(t, f, d)

(* What the pass has written when it ends has been merged from both. *)
LEMMA PassMerges ==
  ASSUME ScoresKept, NEW d, GoodFile(d), NEW f, GoodFile(f),
         NEW m, PassOk(m, d, ReadBack(f)),
         m.next = Len(f) + 1, m.cursor = Len(d) + 1
  PROVE  MergedFrom(m.out, f, d)
<1> DEFINE ex == ReadBack(f)
<1>1. /\ GoodFile(ex) /\ Len(ex) = Len(f) /\ DOMAIN ex = DOMAIN f
      /\ \A j \in DOMAIN f : ex[j].key = f[j].key /\ Ms(ex[j]) = Ms(f[j])
  BY FileReadBack
<1>2. PassOk(m, d, ex)
  OBVIOUS
<1> HIDE DEF ex
<1>3. /\ GoodFile(m.out)
      /\ \A i \in DOMAIN d : AsGood(m.out, d[i])
      /\ \A j \in DOMAIN ex : AsGood(m.out, ex[j])
      /\ \A k \in DOMAIN m.out : \/ \E i \in DOMAIN d : m.out[k] = d[i]
                                 \/ \E j \in DOMAIN ex : m.out[k] = ex[j]
  BY <1>1, <1>2, PassEnds
<1>4. Covers(m.out, f)
  BY <1>1, <1>3 DEF Covers, AsGood
<1>5. Covers(m.out, d) /\ MadeOf(m.out, f, d)
  BY <1>1, <1>3 DEF Covers, MadeOf
<1> QED
  BY <1>3, <1>4, <1>5 DEF MergedFrom

(* What a file covers for a record, a file that covers it covers too. *)
LEMMA CoversOn ==
  ASSUME NEW f, GoodFile(f), NEW t, GoodFile(t), Covers(t, f),
         NEW r \in Record, AsGood(f, r)
  PROVE  AsGood(t, r)
<1>1. PICK i \in DOMAIN f : f[i].key = r.key /\ Ms(f[i]) <= Ms(r)
  BY DEF AsGood
<1>2. PICK k \in DOMAIN t : t[k].key = f[i].key /\ Ms(t[k]) <= Ms(f[i])
  BY DEF Covers, AsGood
<1>3. Ms(f[i]) \in Int /\ Ms(t[k]) \in Int
  BY Compared
<1>4. Ms(r) \in Nat
  BY ScoreIsNat
<1>5. Ms(t[k]) <= Ms(r)
  BY <1>1, <1>2, <1>3, <1>4
<1> QED
  BY <1>1, <1>2, <1>5 DEF AsGood

-----------------------------------------------------------------------------
(* The invariant of the merges. *)

Written == pc \in {"sync", "close", "replace"}

PassIsRecord == pass = [next |-> pass.next, cursor |-> pass.cursor,
                        emitted |-> pass.emitted, out |-> pass.out]

FilesGood ==
    /\ GoodFile(Content(file)) /\ \A f \in survivors : GoodFile(Content(f))
    /\ file \in survivors

BatchGood ==
    pc \in {"create", "write", "sync", "close", "replace", "syncdir"} =>
        /\ GoodFile(delta) /\ offered \subseteq Result
        /\ \A i \in DOMAIN delta : delta[i] \in offered
        /\ \A r \in offered : AsGood(delta, r)

PassGood ==
    /\ PassIsRecord
    /\ pc = "write" => PassOk(pass, delta, ReadBack(Content(file)))
    /\ pc \notin {"write", "dead"} => pass = NewPass

TempGood ==
    /\ Written => MergedFrom(tmp, Content(file), delta)
    /\ pc \in {"close", "replace"} => synced

MergedKept ==
    /\ merged \subseteq Result
    /\ \A r \in merged : \A f \in survivors : AsGood(Content(f), r)
    /\ pc = "syncdir" => \A r \in offered : AsGood(Content(file), r)

MergeInv == FilesGood /\ BatchGood /\ PassGood /\ TempGood /\ MergedKept

(* What a file that is written holds is its content. *)
LEMMA ContentOfFile ==
  ASSUME NEW f, GoodFile(f)
  PROVE  Content(f) = f
BY NoFileAssumption DEF GoodFile, Content

(* No file is an empty file, which is in order. *)
LEMMA EmptyGood == GoodFile(<<>>) /\ Content(NoFile) = <<>> /\ DOMAIN <<>> = {}
<1>1. <<>> \in Seq(Record) /\ DOMAIN <<>> = {}
  BY EmptySeq
<1> QED
  BY <1>1 DEF GoodFile, Ordered, Distinct, Content

(* The invariant holds before the first merge. *)
LEMMA MergeInitHolds == MergeInit => MergeInv
<1> SUFFICES ASSUME MergeInit PROVE MergeInv
  OBVIOUS
<1> USE DEF MergeInit
<1>1. FilesGood
  BY EmptyGood DEF FilesGood
<1>2. BatchGood /\ TempGood /\ MergedKept
  BY DEF BatchGood, TempGood, MergedKept, Written
<1>3. PassGood
  BY DEF PassGood, PassIsRecord, NewPass
<1> QED
  BY <1>1, <1>2, <1>3 DEF MergeInv
(* Every action of a merge keeps the invariant, beginning with Begin. *)
LEMMA BeginKeeps ==
  ASSUME MergeInv, NEW offer \in SUBSET Result, Begin(offer)
  PROVE  MergeInv'
<1> USE DEF MergeInv, Begin
<1>1. /\ GoodFile(delta') /\ \A i \in DOMAIN delta' : delta'[i] \in offer
      /\ \A r \in offer : AsGood(delta', r)
  BY BatchPrepared
<1>2. FilesGood'
  BY DEF FilesGood, Content
<1>3. BatchGood'
  BY <1>1 DEF BatchGood
<1>4. PassGood'
  BY DEF PassGood, PassIsRecord
<1>5. TempGood' /\ MergedKept'
  BY DEF TempGood, MergedKept, Written
<1> QED
  BY <1>2, <1>3, <1>4, <1>5

(* A new temporary file, and the pass begins. *)
LEMMA CreateTempKeeps ==
  ASSUME ScoresKept, MergeInv, CreateTemp
  PROVE  MergeInv'
<1> USE DEF MergeInv, CreateTemp, Fail
<1>1. FilesGood'
  BY DEF FilesGood, Content
<1>2. BatchGood'
  BY DEF BatchGood
<1>3. PassGood'
  <2>1. GoodFile(delta) /\ GoodFile(ReadBack(Content(file)))
    <3>1. GoodFile(delta) /\ GoodFile(Content(file))
      BY DEF BatchGood, FilesGood
    <3> QED
      BY <3>1, FileReadBack
  <2>2. PassOk(NewPass, delta, ReadBack(Content(file)))
    BY <2>1, PassBegins
  <2> QED
    BY <2>2 DEF PassGood, PassIsRecord
<1>4. TempGood' /\ MergedKept'
  BY DEF TempGood, MergedKept, Written
<1> QED
  BY <1>1, <1>2, <1>3, <1>4

(* What a step of the pass finds in the file is what PassOk speaks of. *)
LEMMA PassReads ==
  ASSUME ScoresKept, MergeInv, pc = "write"
  PROVE  LET ex == ReadBack(Content(file))
         IN  /\ GoodFile(delta) /\ GoodFile(ex) /\ PassOk(pass, delta, ex)
             /\ InBatch <=> pass.cursor \in DOMAIN delta
             /\ InFile <=> pass.next \in DOMAIN ex
             /\ InFile => Existing(pass.next) = ex[pass.next]
             /\ Len(ex) = Len(Content(file))
             /\ ~InFile => pass.next = Len(ex) + 1
             /\ ~InBatch => pass.cursor = Len(delta) + 1
<1> DEFINE f == Content(file)
           ex == ReadBack(f)
<1>1. GoodFile(delta) /\ GoodFile(f) /\ PassOk(pass, delta, ex)
  BY DEF MergeInv, FilesGood, BatchGood, PassGood
<1>2. /\ GoodFile(ex) /\ Len(ex) = Len(f) /\ DOMAIN ex = DOMAIN f
      /\ \A j \in DOMAIN f : ex[j] = Parse(f[j])
  BY <1>1, FileReadBack
<1>3. /\ pass.next \in 1..(Len(f) + 1) /\ pass.cursor \in 1..(Len(delta) + 1)
  BY <1>1, <1>2 DEF PassOk, PassPlace
<1>4. Len(f) \in Nat /\ DOMAIN f = 1..Len(f) /\ Len(delta) \in Nat /\ DOMAIN delta = 1..Len(delta)
  BY <1>1, Compared
<1>5. InBatch <=> pass.cursor <= Len(delta)
  BY DEF InBatch
<1>6. InFile <=> pass.next <= Len(f)
  BY DEF InFile
<1> HIDE DEF f, ex
<1>7. /\ InBatch <=> pass.cursor \in DOMAIN delta
      /\ InFile <=> pass.next \in DOMAIN ex
      /\ ~InFile => pass.next = Len(ex) + 1
      /\ ~InBatch => pass.cursor = Len(delta) + 1
  BY <1>2, <1>3, <1>4, <1>5, <1>6
<1>8. InFile => Existing(pass.next) = ex[pass.next]
  BY <1>2, <1>7 DEF Existing, f
<1> QED
  BY <1>1, <1>2, <1>7, <1>8 DEF f, ex

(* The pass moves in the batch. *)
LEMMA EmitNextKeeps ==
  ASSUME ScoresKept, MergeInv, EmitNext
  PROVE  MergeInv'
<1> DEFINE ex == ReadBack(Content(file))
           c == pass.cursor
<1>1. FilesGood' /\ BatchGood' /\ TempGood' /\ MergedKept'
  BY DEF MergeInv, EmitNext, FilesGood, Content, BatchGood, TempGood, MergedKept, Written
<1>2. pc = "write" /\ InBatch /\ (InFile => Better(delta[c], Existing(pass.next)))
  BY DEF EmitNext
<1>3. /\ GoodFile(delta) /\ GoodFile(ex) /\ PassOk(pass, delta, ex)
      /\ c \in DOMAIN delta
      /\ pass.next \in DOMAIN ex => Ms(delta[c]) < Ms(ex[pass.next])
  BY <1>2, PassReads DEF Better
<1>4. /\ pass' = [next |-> pass.next, cursor |-> c + 1, emitted |-> pass.emitted \cup {c},
                  out |-> IF c \in pass.emitted THEN pass.out ELSE Append(pass.out, delta[c])]
  BY DEF MergeInv, PassGood, PassIsRecord, EmitNext, EmitDelta
<1>5. /\ pass'.next = pass.next /\ pass'.cursor = c + 1 /\ pass'.emitted = pass.emitted \cup {c}
      /\ pass'.out = IF c \in pass.emitted THEN pass.out ELSE Append(pass.out, delta[c])
  BY <1>4
<1>6. PassIsRecord'
  BY <1>4 DEF PassIsRecord
<1> HIDE DEF ex
<1>7. PassOk(pass', delta, ex)
  BY <1>3, <1>5, PassEmits
<1>8. PassGood'
  <2>1. pc' = "write" /\ delta' = delta /\ file' = file
    BY <1>2 DEF EmitNext
  <2>2. PassOk(pass', delta', ReadBack(Content(file')))
    BY <1>7, <2>1 DEF ex
  <2> QED
    BY <1>6, <2>1, <2>2 DEF PassGood, Content
<1> QED
  BY <1>1, <1>8 DEF MergeInv

(* The pass moves in the file. *)
LEMMA TakeExistingKeeps ==
  ASSUME ScoresKept, MergeInv, TakeExisting
  PROVE  MergeInv'
<1> DEFINE ex == ReadBack(Content(file))
           b == pass.next
           e == Existing(b)
<1>1. FilesGood' /\ BatchGood' /\ TempGood' /\ MergedKept'
  BY DEF MergeInv, TakeExisting, FilesGood, Content, BatchGood, TempGood, MergedKept, Written
<1>2. pc = "write" /\ InFile /\ (InBatch => ~Better(delta[pass.cursor], e))
  BY DEF TakeExisting
<1>3. /\ GoodFile(delta) /\ GoodFile(ex) /\ PassOk(pass, delta, ex)
      /\ b \in DOMAIN ex /\ e = ex[b]
      /\ pass.cursor \in DOMAIN delta => ~(Ms(delta[pass.cursor]) < Ms(ex[b]))
  BY <1>2, PassReads DEF Better
<1> HIDE DEF ex, e
<1>4. pass.cursor \in DOMAIN delta => Ms(ex[b]) <= Ms(delta[pass.cursor])
  BY <1>3, Compared
<1>5. ASSUME \E i \in Held(e.key) : Better(delta[i], e)
      PROVE  PassOk(pass', delta, ex) /\ PassIsRecord'
  <2> DEFINE i == CHOOSE i \in Held(e.key) : Better(delta[i], e)
  <2>1. i \in DOMAIN delta /\ delta[i].key = ex[b].key /\ Ms(delta[i]) < Ms(ex[b])
    BY <1>3, <1>5 DEF Held, Better
  <2>2. pass' = [EmitDelta(pass, i) EXCEPT !.next = @ + 1]
    BY <1>5 DEF TakeExisting, KeepOrReplace, e
  <2> HIDE DEF i
  <2>3. pass' = [next |-> b + 1, cursor |-> pass.cursor, emitted |-> pass.emitted \cup {i},
                 out |-> IF i \in pass.emitted THEN pass.out ELSE Append(pass.out, delta[i])]
    BY <2>2 DEF MergeInv, PassGood, PassIsRecord, EmitDelta
  <2>4. /\ pass'.next = b + 1 /\ pass'.cursor = pass.cursor
        /\ pass'.emitted = pass.emitted \cup {i}
        /\ pass'.out = IF i \in pass.emitted THEN pass.out ELSE Append(pass.out, delta[i])
        /\ PassIsRecord'
    BY <2>3 DEF PassIsRecord
  <2> QED
    BY <1>3, <1>4, <2>1, <2>4, PassTakes
<1>6. ASSUME ~ \E i \in Held(e.key) : Better(delta[i], e)
      PROVE  PassOk(pass', delta, ex) /\ PassIsRecord'
  <2>1. /\ \A i \in DOMAIN delta : delta[i].key = ex[b].key => ~(Ms(delta[i]) < Ms(ex[b]))
        /\ Held(e.key) = {i \in DOMAIN delta : delta[i].key = ex[b].key}
    BY <1>3, <1>6 DEF Held, Better
  <2>2. pass' = [[pass EXCEPT !.emitted = @ \cup Held(e.key), !.out = Append(@, e)]
                    EXCEPT !.next = @ + 1]
    BY <1>6 DEF TakeExisting, KeepOrReplace, e
  <2>3. pass' = [next |-> b + 1, cursor |-> pass.cursor,
                 emitted |-> pass.emitted \cup Held(e.key), out |-> Append(pass.out, e)]
    BY <2>2 DEF MergeInv, PassGood, PassIsRecord
  <2>4. /\ pass'.next = b + 1 /\ pass'.cursor = pass.cursor
        /\ pass'.emitted = pass.emitted \cup {i \in DOMAIN delta : delta[i].key = ex[b].key}
        /\ pass'.out = Append(pass.out, ex[b])
        /\ PassIsRecord'
    BY <1>3, <2>1, <2>3 DEF PassIsRecord
  <2> QED
    BY <1>3, <1>4, <2>1, <2>4, PassTakes
<1>7. PassOk(pass', delta, ex) /\ PassIsRecord'
  BY <1>5, <1>6
<1>8. PassGood'
  <2>1. pc' = "write" /\ delta' = delta /\ file' = file
    BY <1>2 DEF TakeExisting
  <2>2. PassOk(pass', delta', ReadBack(Content(file')))
    BY <1>7, <2>1 DEF ex
  <2> QED
    BY <1>7, <2>1, <2>2 DEF PassGood, Content
<1> QED
  BY <1>1, <1>8 DEF MergeInv

(* At the end of the pass the temporary file is the merge of both. *)
LEMMA WriteTempKeeps ==
  ASSUME ScoresKept, MergeInv, WriteTemp
  PROVE  MergeInv'
<1> DEFINE f == Content(file)
<1>1. pc = "write" /\ ~InFile /\ ~InBatch /\ tmp' = pass.out
  BY DEF WriteTemp
<1>2. /\ GoodFile(delta) /\ GoodFile(f) /\ PassOk(pass, delta, ReadBack(f))
      /\ pass.next = Len(f) + 1 /\ pass.cursor = Len(delta) + 1
  BY <1>1, PassReads DEF MergeInv, FilesGood
<1> HIDE DEF f
<1>3. MergedFrom(pass.out, f, delta)
  BY <1>2, PassMerges
<1>4. MergedFrom(tmp', Content(file'), delta')
  BY <1>1, <1>3 DEF WriteTemp, f, Content
<1>5. TempGood'
  BY <1>4 DEF TempGood, WriteTemp
<1>6. FilesGood' /\ BatchGood' /\ MergedKept'
  BY DEF MergeInv, WriteTemp, FilesGood, Content, BatchGood, MergedKept
<1>7. PassGood'
  BY DEF PassGood, WriteTemp, PassIsRecord, NewPass
<1> QED
  BY <1>5, <1>6, <1>7 DEF MergeInv

LEMMA WriteFailsKeeps == MergeInv /\ WriteFails => MergeInv'
<1> SUFFICES ASSUME MergeInv, WriteFails PROVE MergeInv'
  OBVIOUS
<1> USE DEF MergeInv, WriteFails, Fail
<1>1. FilesGood' /\ BatchGood'
  BY DEF FilesGood, Content, BatchGood
<1>2. PassGood'
  BY DEF PassGood, PassIsRecord, NewPass
<1>3. TempGood' /\ MergedKept'
  BY DEF TempGood, MergedKept, Written
<1> QED
  BY <1>1, <1>2, <1>3

LEMMA SyncTempKeeps == MergeInv /\ SyncTemp => MergeInv'
<1> SUFFICES ASSUME MergeInv, SyncTemp PROVE MergeInv'
  OBVIOUS
<1> USE DEF MergeInv, SyncTemp, Fail
<1>1. FilesGood' /\ BatchGood'
  BY DEF FilesGood, Content, BatchGood
<1>2. PassGood' /\ MergedKept'
  BY DEF PassGood, PassIsRecord, MergedKept
<1>3. TempGood'
  BY DEF TempGood, Written, Content
<1> QED
  BY <1>1, <1>2, <1>3

LEMMA CloseTempKeeps == MergeInv /\ CloseTemp => MergeInv'
<1> SUFFICES ASSUME MergeInv, CloseTemp PROVE MergeInv'
  OBVIOUS
<1> USE DEF MergeInv, CloseTemp, Fail
<1>1. FilesGood' /\ BatchGood'
  BY DEF FilesGood, Content, BatchGood
<1>2. PassGood' /\ MergedKept'
  BY DEF PassGood, PassIsRecord, MergedKept
<1>3. TempGood'
  BY DEF TempGood, Written, Content
<1> QED
  BY <1>1, <1>2, <1>3

(* The new file is whole and covers what the old one covers, and the batch. *)
LEMMA ReplaceKeeps ==
  ASSUME MergeInv, Replace
  PROVE  MergeInv'
<1> DEFINE f == Content(file)
<1>1. /\ GoodFile(f) /\ GoodFile(delta) /\ MergedFrom(tmp, f, delta) /\ synced
      /\ file \in survivors /\ \A g \in survivors : GoodFile(Content(g))
      /\ offered \subseteq Result /\ \A r \in offered : AsGood(delta, r)
      /\ merged \subseteq Result /\ \A r \in merged : \A g \in survivors : AsGood(Content(g), r)
  BY DEF MergeInv, Replace, FilesGood, BatchGood, TempGood, Written, MergedKept
<1>2. GoodFile(tmp) /\ Covers(tmp, f) /\ Covers(tmp, delta) /\ Content(tmp) = tmp
  BY <1>1, ContentOfFile DEF MergedFrom
<1>3. \A r \in merged : AsGood(tmp, r)
  BY <1>1, <1>2, CoversOn, ResultIsRecord
<1>4. \A r \in offered : AsGood(tmp, r)
  BY <1>1, <1>2, CoversOn, ResultIsRecord
<1>5. PassGood' /\ TempGood' /\ BatchGood'
  BY DEF MergeInv, Replace, Fail, PassGood, PassIsRecord, TempGood, Written, BatchGood
<1>6. CASE file' = tmp /\ survivors' = survivors \cup {tmp} /\ UNCHANGED <<offered, merged>>
  <2>1. FilesGood'
    BY <1>1, <1>2, <1>6 DEF FilesGood, Content
  <2>2. MergedKept'
    BY <1>1, <1>2, <1>3, <1>4, <1>6 DEF MergedKept, Content
  <2> QED
    BY <1>5, <2>1, <2>2 DEF MergeInv
<1>7. CASE Fail /\ UNCHANGED <<file, survivors>>
  <2>1. FilesGood' /\ MergedKept'
    BY <1>7 DEF MergeInv, Replace, Fail, FilesGood, MergedKept, Content
  <2> QED
    BY <1>5, <2>1 DEF MergeInv
<1> QED
  BY <1>1, <1>6, <1>7 DEF Replace

LEMMA SyncDirKeeps == MergeInv /\ SyncDir => MergeInv'
<1> SUFFICES ASSUME MergeInv, SyncDir PROVE MergeInv'
  OBVIOUS
<1> USE DEF MergeInv, SyncDir, Fail
<1>1. FilesGood' /\ BatchGood'
  BY DEF FilesGood, Content, BatchGood
<1>2. PassGood' /\ TempGood'
  BY DEF PassGood, PassIsRecord, TempGood, Written
<1>3. MergedKept'
  BY DEF MergedKept, FilesGood, BatchGood, Content
<1> QED
  BY <1>1, <1>2, <1>3

LEMMA CrashKeeps == MergeInv /\ Crash => MergeInv'
<1> SUFFICES ASSUME MergeInv, Crash PROVE MergeInv'
  OBVIOUS
<1> USE DEF MergeInv, Crash
<1>1. FilesGood' /\ BatchGood'
  BY DEF FilesGood, Content, BatchGood
<1>2. PassGood' /\ TempGood'
  BY DEF PassGood, PassIsRecord, TempGood, Written
<1>3. MergedKept'
  BY DEF MergedKept
<1> QED
  BY <1>1, <1>2, <1>3

(* The invariant is inductive. *)
LEMMA MergeInvKept == ScoresKept /\ MergeInv /\ [MergeNext]_mergeVars => MergeInv'
<1> SUFFICES ASSUME ScoresKept, MergeInv, [MergeNext]_mergeVars PROVE MergeInv'
  OBVIOUS
<1>1. ASSUME NEW offer \in SUBSET Result, Begin(offer) PROVE MergeInv'
  BY <1>1, BeginKeeps
<1>2. CASE CreateTemp
  BY <1>2, CreateTempKeeps
<1>3. CASE EmitNext
  BY <1>3, EmitNextKeeps
<1>4. CASE TakeExisting
  BY <1>4, TakeExistingKeeps
<1>5. CASE WriteTemp
  BY <1>5, WriteTempKeeps
<1>6. CASE WriteFails
  BY <1>6, WriteFailsKeeps
<1>7. CASE SyncTemp
  BY <1>7, SyncTempKeeps
<1>8. CASE CloseTemp
  BY <1>8, CloseTempKeeps
<1>9. CASE Replace
  BY <1>9, ReplaceKeeps
<1>10. CASE SyncDir
  BY <1>10, SyncDirKeeps
<1>11. CASE Crash
  BY <1>11, CrashKeeps
<1>12. CASE UNCHANGED mergeVars
  BY <1>12 DEF mergeVars, MergeInv, FilesGood, BatchGood, PassGood, PassIsRecord,
               TempGood, Written, MergedKept, Content
<1> QED
  BY <1>1, <1>2, <1>3, <1>4, <1>5, <1>6, <1>7, <1>8, <1>9, <1>10, <1>11, <1>12 DEF MergeNext

(* It holds in every state of the merges. *)
LEMMA MergeInvAlways ==
  ASSUME ScoresKept
  PROVE  MergeSpec => []MergeInv
<1>1. MergeInit => MergeInv
  BY MergeInitHolds
<1>2. MergeInv /\ [MergeNext]_mergeVars => MergeInv'
  BY MergeInvKept
<1> QED
  BY <1>1, <1>2, PTL DEF MergeSpec

(* The result file stays sorted by score and without duplicates. *)
THEOREM FileSortedAlways ==
  ASSUME ScoresKept
  PROVE  MergeSpec => []FileSorted
<1>1. MergeInv => FileSorted
  <2>1. SUFFICES ASSUME GoodFile(Content(file)) PROVE FileSorted
    BY DEF MergeInv, FilesGood
  <2> DEFINE f == Content(file)
  <2>2. /\ DOMAIN f = 1..Len(f) /\ Len(f) \in Nat
        /\ \A i \in DOMAIN f : Ms(f[i]) \in Int
        /\ \A i, j \in DOMAIN f : i <= j => Ms(f[i]) <= Ms(f[j])
        /\ \A i, j \in DOMAIN f : f[i].key = f[j].key => i = j
    BY <2>1, Compared
  <2> HIDE DEF f
  <2>3. \A i, j \in DOMAIN f : i < j => ~(Ms(f[j]) < Ms(f[i])) /\ f[i].key # f[j].key
    BY <2>2
  <2> QED
    BY <2>3 DEF FileSorted, Better, f
<1>2. MergeSpec => []MergeInv
  BY MergeInvAlways
<1> QED
  BY <1>1, <1>2, PTL

(* What has been merged stays in the file, and in what a crash leaves of it. *)
THEOREM BestKeptAlways ==
  ASSUME ScoresKept
  PROVE  MergeSpec => []BestKept
<1>1. MergeInv => BestKept
  <2>1. SUFFICES ASSUME MergeInv, NEW f \in survivors \cup {file}, NEW r \in merged
                 PROVE  \E i \in DOMAIN Content(f) :
                           Content(f)[i].key = r.key /\ ~Better(r, Content(f)[i])
    BY DEF BestKept
  <2> DEFINE g == Content(f)
  <2>2. GoodFile(g) /\ AsGood(g, r) /\ r \in Record
    BY <2>1, ResultIsRecord DEF MergeInv, FilesGood, MergedKept
  <2> HIDE DEF g
  <2>3. PICK i \in DOMAIN g : g[i].key = r.key /\ Ms(g[i]) <= Ms(r)
    BY <2>2 DEF AsGood
  <2>4. Ms(g[i]) \in Int /\ Ms(r) \in Nat
    BY <2>2, Compared, ScoreIsNat
  <2>5. ~(Ms(r) < Ms(g[i]))
    BY <2>3, <2>4
  <2> QED
    BY <2>3, <2>5 DEF Better, g
<1>2. MergeSpec => []MergeInv
  BY MergeInvAlways
<1> QED
  BY <1>1, <1>2, PTL
-----------------------------------------------------------------------------
(* The dictionary that a file stands for. *)

Has(f, k) == \E i \in DOMAIN f : f[i].key = k

LEMMA BestOfFile ==
  ASSUME NEW f, GoodFile(f), NEW k \in Keys
  PROVE  /\ \A i \in DOMAIN f : f[i].key = k => BestOf(f)[k] = Ms(f[i])
         /\ ~Has(f, k) => BestOf(f)[k] = NoFile
<1> DEFINE ms == {Ms(f[i]) : i \in {n \in DOMAIN f : f[n].key = k}}
<1>1. BestOf(f)[k] = IF ms = {} THEN NoFile ELSE CHOOSE x \in ms : \A y \in ms : x <= y
  BY DEF BestOf
<1>2. ASSUME NEW i \in DOMAIN f, f[i].key = k
      PROVE  BestOf(f)[k] = Ms(f[i])
  <2>1. ms = {Ms(f[i])}
    BY <1>2, Compared
  <2>2. Ms(f[i]) \in Int
    BY Compared
  <2>3. Ms(f[i]) <= Ms(f[i])
    BY <2>2
  <2> HIDE DEF ms
  <2> QED
    BY <1>1, <2>1, <2>3
<1>3. ASSUME ~Has(f, k) PROVE BestOf(f)[k] = NoFile
  <2>1. ms = {}
    BY <1>3 DEF Has
  <2> QED
    BY <1>1, <2>1
<1> QED
  BY <1>2, <1>3

(* The file that is merged is the old dictionary with the batch absorbed. *)
LEMMA MergeAbsorbs ==
  ASSUME NEW f, GoodFile(f), NEW d, GoodFile(d), NEW t, MergedFrom(t, f, d)
  PROVE  BestOf(t) = Store!Absorbed(BestOf(f), BestOf(d))
<1>1. GoodFile(t) /\ Covers(t, f) /\ Covers(t, d) /\ MadeOf(t, f, d)
  BY DEF MergedFrom
<1>2. ASSUME NEW k \in Keys
      PROVE  BestOf(t)[k] = IF Store!Improves(BestOf(d)[k], BestOf(f)[k])
                              THEN BestOf(d)[k] ELSE BestOf(f)[k]
  <2>1. /\ \A i \in DOMAIN t : t[i].key = k => BestOf(t)[k] = Ms(t[i]) /\ Ms(t[i]) \in Int
        /\ ~Has(t, k) => BestOf(t)[k] = NoFile
    BY <1>1, BestOfFile, Compared
  <2>2. /\ \A i \in DOMAIN f : f[i].key = k => BestOf(f)[k] = Ms(f[i]) /\ Ms(f[i]) \in Int
        /\ ~Has(f, k) => BestOf(f)[k] = NoFile
    BY BestOfFile, Compared
  <2>3. /\ \A i \in DOMAIN d : d[i].key = k => /\ BestOf(d)[k] = Ms(d[i]) /\ Ms(d[i]) \in Int
                                               /\ BestOf(d)[k] # NoFile
        /\ ~Has(d, k) => BestOf(d)[k] = NoFile
    <3>1. /\ \A i \in DOMAIN d : d[i].key = k => BestOf(d)[k] = Ms(d[i])
          /\ ~Has(d, k) => BestOf(d)[k] = NoFile
      BY BestOfFile
    <3>2. \A i \in DOMAIN d : Ms(d[i]) \in Nat /\ Ms(d[i]) \in Int
      <4>1. SUFFICES ASSUME NEW i \in DOMAIN d PROVE Ms(d[i]) \in Nat /\ Ms(d[i]) \in Int
        OBVIOUS
      <4>2. d[i] \in Record
        BY Compared
      <4>3. Ms(d[i]) \in Nat
        BY <4>2, ScoreIsNat
      <4> QED
        BY <4>3
    <3> QED
      BY <3>1, <3>2, NoFileAssumption
  <2>4. CASE ~Has(t, k)
    <3>1. ~Has(f, k) /\ ~Has(d, k)
      BY <1>1, <2>4 DEF Has, Covers, AsGood
    <3> QED
      BY <2>1, <2>2, <2>3, <2>4, <3>1 DEF Store!Improves
  <2>5. CASE Has(t, k)
    <3>1. PICK i \in DOMAIN t : t[i].key = k
      BY <2>5 DEF Has
    <3>2. BestOf(t)[k] = Ms(t[i]) /\ Ms(t[i]) \in Int
      BY <2>1, <3>1
    <3>3. \A n \in DOMAIN t : t[n].key = k => n = i
      BY <1>1, <3>1, Compared
    <3>4. /\ \A j \in DOMAIN f : f[j].key = k => Ms(t[i]) <= Ms(f[j])
          /\ \A j \in DOMAIN d : d[j].key = k => Ms(t[i]) <= Ms(d[j])
      BY <1>1, <3>3 DEF Covers, AsGood
    <3>5. CASE \E j \in DOMAIN d : t[i].key = d[j].key /\ Ms(t[i]) = Ms(d[j])
      <4>1. BestOf(d)[k] = Ms(t[i]) /\ BestOf(d)[k] # NoFile
        BY <2>3, <3>1, <3>5
      <4>2. CASE Has(f, k)
        <5>1. PICK j \in DOMAIN f : f[j].key = k
          BY <4>2 DEF Has
        <5>2. BestOf(f)[k] = Ms(f[j]) /\ Ms(f[j]) \in Int /\ Ms(t[i]) <= Ms(f[j])
          BY <2>2, <3>4, <5>1
        <5>3. CASE Ms(t[i]) = Ms(f[j])
          BY <3>2, <4>1, <5>2, <5>3
        <5>4. CASE Ms(t[i]) < Ms(f[j])
          BY <3>2, <4>1, <5>2, <5>4 DEF Store!Improves
        <5> QED
          BY <3>2, <5>2, <5>3, <5>4
      <4>3. CASE ~Has(f, k)
        BY <2>2, <3>2, <4>1, <4>3 DEF Store!Improves
      <4> QED
        BY <4>2, <4>3
    <3>6. CASE \E j \in DOMAIN f : t[i].key = f[j].key /\ Ms(t[i]) = Ms(f[j])
      <4>1. BestOf(f)[k] = Ms(t[i])
        BY <2>2, <3>1, <3>6
      <4>2. ~Store!Improves(BestOf(d)[k], BestOf(f)[k])
        <5>1. CASE Has(d, k)
          <6>1. PICK j \in DOMAIN d : d[j].key = k
            BY <5>1 DEF Has
          <6>2. BestOf(d)[k] = Ms(d[j]) /\ Ms(d[j]) \in Int /\ Ms(t[i]) <= Ms(d[j])
            BY <2>3, <3>4, <6>1
          <6>3. BestOf(f)[k] # NoFile
            <7>1. t[i] \in Record
              BY <1>1, Compared
            <7>2. Ms(t[i]) \in Nat
              BY <7>1, ScoreIsNat
            <7> QED
              BY <4>1, <7>2, NoFileAssumption
          <6>4. ~(Ms(d[j]) < Ms(t[i]))
            BY <3>2, <6>2
          <6> QED
            BY <4>1, <6>2, <6>3, <6>4 DEF Store!Improves
        <5>2. CASE ~Has(d, k)
          BY <2>3, <5>2 DEF Store!Improves
        <5> QED
          BY <5>1, <5>2
      <4> QED
        BY <3>2, <4>1, <4>2
    <3> QED
      BY <1>1, <3>5, <3>6 DEF MadeOf
  <2> QED
    BY <2>4, <2>5
<1>3. BestOf(t) = [k \in Keys |-> BestOf(t)[k]]
  BY DEF BestOf
<1> QED
  BY <1>2, <1>3 DEF Store!Absorbed

(* A batch is a dictionary of the store. *)
LEMMA BatchIsDictionary ==
  ASSUME NEW d, GoodFile(d), \A i \in DOMAIN d : d[i] \in Result
  PROVE  BestOf(d) \in Store!Dictionary
<1>1. \A k \in Keys : BestOf(d)[k] \in {Ms(r) : r \in Result} \cup {NoFile}
  <2>1. SUFFICES ASSUME NEW k \in Keys
                 PROVE  BestOf(d)[k] \in {Ms(r) : r \in Result} \cup {NoFile}
    OBVIOUS
  <2>2. CASE Has(d, k)
    <3>1. PICK i \in DOMAIN d : d[i].key = k
      BY <2>2 DEF Has
    <3>2. BestOf(d)[k] = Ms(d[i])
      BY <3>1, BestOfFile
    <3> QED
      BY <3>2
  <2>3. CASE ~Has(d, k)
    BY <2>3, BestOfFile
  <2> QED
    BY <2>2, <2>3
<1>2. BestOf(d) = [k \in Keys |-> BestOf(d)[k]]
  BY DEF BestOf
<1> QED
  BY <1>1, <1>2 DEF Store!Dictionary
(* Every step of a merge is one of the store, or leaves the store alone. *)
LEMMA DictionaryStep ==
  ASSUME ScoresKept, MergeInv, [MergeNext]_mergeVars
  PROVE  [Store!Next]_(Store!storeVars)
<1> DEFINE best == BestOf(Content(file))
           kept == {BestOf(Content(f)) : f \in survivors}
<1>1. ASSUME UNCHANGED <<file, survivors>>
      PROVE  UNCHANGED Store!storeVars
  BY <1>1 DEF Store!storeVars, BestOf, Content, Ms
<1>2. CASE Replace
  <2>1. CASE UNCHANGED <<file, survivors>>
    BY <1>1, <2>1
  <2>2. CASE file' = tmp /\ survivors' = survivors \cup {tmp}
                                 \cup (IF synced THEN {} ELSE {<<>>})
    <3>1. /\ GoodFile(Content(file)) /\ GoodFile(delta) /\ synced
          /\ MergedFrom(tmp, Content(file), delta)
          /\ \A i \in DOMAIN delta : delta[i] \in Result
      BY <1>2 DEF MergeInv, Replace, FilesGood, BatchGood, TempGood, Written
    <3>2. Content(tmp) = tmp
      BY <3>1, ContentOfFile DEF MergedFrom
    <3>3. BestOf(tmp) = Store!Absorbed(best, BestOf(delta))
      BY <3>1, MergeAbsorbs
    <3>4. BestOf(delta) \in Store!Dictionary
      BY <3>1, BatchIsDictionary
    <3>5. best' = BestOf(tmp)
      <4>1. best' = BestOf(Content(file'))
        BY DEF Content, BestOf, Ms
      <4> HIDE DEF best
      <4> QED
        BY <2>2, <3>2, <4>1
    <3>6. survivors' = survivors \cup {tmp}
      BY <2>2, <3>1
    <3>7. kept' = kept \cup {best'}
      <4>1. kept' = {BestOf(Content(f)) : f \in survivors'}
        BY DEF BestOf, Content, Ms
      <4>2. best' = BestOf(Content(tmp))
        BY <3>2, <3>5
      <4> QED
        BY <3>6, <4>1, <4>2
    <3>8. Store!Absorb(BestOf(delta))
      BY <3>3, <3>5, <3>7 DEF Store!Absorb
    <3> QED
      BY <3>4, <3>8 DEF Store!Next
  <2> QED
    BY <1>2, <2>1, <2>2 DEF Replace
<1>3. CASE SyncDir
  <2>1. CASE UNCHANGED survivors
    BY <1>1, <1>3, <2>1 DEF SyncDir
  <2>2. CASE survivors' = {file}
    <3>1. file' = file
      BY <1>3 DEF SyncDir
    <3>2. best' = best
      BY <3>1 DEF BestOf, Content, Ms
    <3>3. kept' = {BestOf(Content(f)) : f \in survivors'}
      BY DEF BestOf, Content, Ms
    <3>4. kept' = {best}
      BY <2>2, <3>3
    <3>5. Store!MakeSafe
      BY <3>2, <3>4 DEF Store!MakeSafe
    <3> QED
      BY <3>5 DEF Store!Next
  <2> QED
    BY <1>3, <2>1, <2>2 DEF SyncDir
<1>4. CASE Crash
  <2>1. file' \in survivors /\ survivors' = {file'}
    BY <1>4 DEF Crash
  <2>2. best' = BestOf(Content(file')) /\ kept' = {BestOf(Content(f)) : f \in survivors'}
    BY DEF BestOf, Content, Ms
  <2>3. best' \in kept /\ kept' = {best'}
    BY <2>1, <2>2
  <2>4. Store!Crash
    BY <2>3 DEF Store!Crash
  <2> QED
    BY <2>4 DEF Store!Next
<1>5. CASE \/ \E offer \in SUBSET Result : Begin(offer)
           \/ CreateTemp \/ EmitNext \/ TakeExisting \/ WriteTemp \/ WriteFails
           \/ SyncTemp \/ CloseTemp \/ UNCHANGED mergeVars
  <2>1. UNCHANGED <<file, survivors>>
    BY <1>5 DEF Begin, CreateTemp, EmitNext, TakeExisting, WriteTemp, WriteFails,
                SyncTemp, CloseTemp, mergeVars
  <2> QED
    BY <1>1, <2>1
<1> QED
  BY <1>2, <1>3, <1>4, <1>5 DEF MergeNext

(* The merges implement the dictionary that absorbs whole batches. *)
THEOREM MergesKeepStore ==
  ASSUME ScoresKept
  PROVE  MergeSpec => KeepsStore
<1>1. MergeInit => Store!Init
  <2>1. SUFFICES ASSUME MergeInit PROVE Store!Init
    OBVIOUS
  <2>2. Content(file) = <<>> /\ survivors = {NoFile} /\ Content(NoFile) = <<>>
    BY <2>1, EmptyGood DEF MergeInit
  <2>3. \A k \in Keys : BestOf(<<>>)[k] = NoFile
    BY EmptyGood, BestOfFile DEF Has
  <2>4. BestOf(<<>>) = [k \in Keys |-> BestOf(<<>>)[k]]
    BY DEF BestOf
  <2>5. BestOf(<<>>) = [k \in Keys |-> NoFile]
    BY <2>3, <2>4
  <2>6. BestOf(Content(file)) = [k \in Keys |-> NoFile]
    BY <2>2, <2>5
  <2>7. {BestOf(Content(f)) : f \in survivors} = {BestOf(Content(file))}
    BY <2>2
  <2> QED
    BY <2>6, <2>7 DEF Store!Init
<1>2. MergeInv /\ [MergeNext]_mergeVars => [Store!Next]_(Store!storeVars)
  BY DictionaryStep
<1>3. MergeSpec => []MergeInv
  BY MergeInvAlways
<1> QED
  BY <1>1, <1>2, <1>3, PTL DEF MergeSpec, KeepsStore, Store!Spec
==============================================================================
