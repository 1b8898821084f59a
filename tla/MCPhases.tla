------------------------------ MODULE MCPhases ------------------------------
(* The three modes of a scan in one instance: a behaviour is a batch scan, a *)
(* sequential or a streaming one.  The streaming mode, whose stages all run  *)
(* at once, has one worker in each stage, the others two in the second.      *)
EXTENDS BatchChain

CONSTANTS a1, b1, b2,  \* the workers
          p1, p2, p3   \* the addresses

VARIABLES mode, reader, ended

MCStageOf == [w \in Workers |-> IF w = a1 THEN 1 ELSE 2]

Seq1 == INSTANCE SeqChain
Stream1 == INSTANCE StreamChain
             WITH Workers <- {a1, b1}, StageOf <- [w \in {a1, b1} |-> StageOf[w]]

allVars == <<vars, mode, reader, ended>>
batchOnly == <<out, feed, batches, errCh, late, ending>>

PhasesInit ==
    /\ \/ mode = "batch" /\ Init /\ reader = "ok" /\ ended = {}
       \/ mode = "sequential" /\ Seq1!Init /\ ended = {}
       \/ mode = "streaming" /\ Stream1!Init /\ current = {}
    /\ mode # "batch" =>
         /\ out = {} /\ feed = "ok" /\ batches = <<>>
         /\ errCh = "none" /\ late = {} /\ ending = FALSE

InMode(batchStep, seqStep, streamStep) ==
    /\ \/ mode = "batch" /\ batchStep /\ UNCHANGED <<reader, ended>>
       \/ mode = "sequential" /\ seqStep /\ UNCHANGED <<batchOnly, ended>>
       \/ mode = "streaming" /\ streamStep /\ UNCHANGED <<batchOnly, current>>
    /\ UNCHANGED mode

\* The addresses are alike, so they may have the order in which the input of the
\* first stage is read; a later stage reads them in the order of a result file.
InputOrder == {{p1, p2, p3}, {p2, p3}, {p3}, {}}
ReadInOrder == (mode = "sequential" /\ at # 1) \/ unread' \in InputOrder

PhasesNext == InMode(Next, Seq1!Next, Stream1!Next) /\ ReadInOrder

\* The fairness each mode has in its module.
PhasesFairness ==
    /\ WF_allVars(InMode(MainStep, Seq1!MainStep, Stream1!MainStep))
    /\ WF_allVars(InMode(Feed \/ FeedCanceled, Seq1!Read \/ Seq1!ReadEnd,
                         Stream1!Read \/ Stream1!ReadEnd))
    /\ WF_allVars(InMode(WatcherCancels, FALSE, FALSE))
    /\ \A w \in {a1, b1} : WF_allVars(InMode(PoolStep(w), Seq1!PoolStep(w), Stream1!PoolStep(w)))
    /\ WF_allVars(InMode(PoolStep(b2), Seq1!PoolStep(b2), FALSE))
    /\ \A i \in Stage : WF_allVars(InMode(FALSE, FALSE, Stream1!StageEnds(i)))

PhasesSpec == PhasesInit /\ [][PhasesNext]_allVars /\ PhasesFairness

\* BatchChain.Complete for a batch scan: every address went through its batch;
\* SeqChain.Complete for a sequential one: a stage probed what the one before
\* wrote; StreamChain.Complete for a streaming one: it probed what was forwarded
\* (chain.go: runStageBatch, runSequential, forward).
CompleteInMode ==
    CASE mode = "batch" -> Complete
      [] mode = "sequential" -> Seq1!Complete
      [] mode = "streaming" -> Stream1!Complete

\* A scan in any mode keeps the contract of a scan (ScanContract), except that
\* a batch scan that reached its limit may return nil without having saved what
\* it found (run batch_unsaved; chain.go: RunScanWithChain).
KeepsContract ==
    /\ Contract!Init
    /\ [][Contract!Next \/ (mode = "batch" /\ NilAtLimit)]_Contract!contractVars
=============================================================================
