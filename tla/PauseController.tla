--------------------------- MODULE PauseController ---------------------------
(***************************************************************************)
(* The pause controller of a scan (internal/core/scanner/engine/pause.go). *)
(*                                                                         *)
(* Scan workers pass the checkpoint Wait before they take an address.  The *)
(* user interface calls Pause and Resume, one after the other, from its    *)
(* own goroutine; the goroutine of Scanner.Run calls Stop when the chain   *)
(* returns and Scanner.Close calls Stop as well (scanner.go:395, 466).     *)
(*                                                                         *)
(* Every atomic operation, every critical section of mu and every select   *)
(* is one step; what lies between two of them is visible to the others.    *)
(* Channels are numbered in the order Pause makes them.  The duration      *)
(* arithmetic is left out: pausedAt only records whether a pause is being  *)
(* timed.                                                                  *)
(***************************************************************************)
EXTENDS Integers

CONSTANTS Workers,   \* goroutines that call Wait
          UI,        \* the goroutine that calls Pause and Resume
          Stoppers,  \* goroutines that call Stop once: Run and Close
          MaxPauses  \* bound: how often the user pauses

ASSUME CallersAssumption == UI \notin Stoppers
ASSUME MaxPausesAssumption == MaxPauses \in Nat

VARIABLES isPaused,  \* atomic.Bool
          resumeCh,  \* number of the channel in the field resumeCh
          closedChs, \* the channels that have been closed
          pausedAt,  \* TRUE when the field pausedAt is not the zero time
          doneCh,    \* TRUE when doneCh is closed
          once,      \* stopOnce: "new", "running" or "done"
          ctxDone,   \* the context given to Wait is cancelled
          cpc,       \* where each caller is
          wpc,       \* where each worker is
          wch,       \* the channel a worker loaded from resumeCh
          panicked,  \* a channel was closed twice: the program is gone
          resumes,   \* history: Resume calls that cleared the flag
          entry      \* history: what held when the worker called Wait

vars == <<isPaused, resumeCh, closedChs, pausedAt, doneCh, once, ctxDone,
          cpc, wpc, wch, panicked, resumes, entry>>

Callers == Stoppers \cup {UI}
Chan == Nat

Entry == [stopped : BOOLEAN, held : BOOLEAN, resumes : Nat]

(***************************************************************************)
(* A pause is installed when the flag is set and the Pause that set it has *)
(* replaced the channel.  It counts only while nobody is stopping.         *)
(***************************************************************************)
PauseInstalled == isPaused /\ cpc[UI] = "idle" /\ once = "new"

Init ==
    /\ isPaused = FALSE
    /\ resumeCh = 0
    /\ closedChs = {}
    /\ pausedAt = FALSE
    /\ doneCh = FALSE
    /\ once = "new"
    /\ ctxDone = FALSE
    /\ cpc = [c \in Callers |-> "idle"]
    /\ wpc = [w \in Workers |-> "outside"]
    /\ wch = [w \in Workers |-> 0]
    /\ panicked = FALSE
    /\ resumes = 0
    /\ entry = [w \in Workers |->
                  [stopped |-> FALSE, held |-> FALSE, resumes |-> 0]]

-----------------------------------------------------------------------------
(* Pause: the compare-and-swap, then the critical section. *)

PauseSwap ==
    /\ ~panicked
    /\ cpc[UI] = "idle"
    /\ resumeCh < MaxPauses
    /\ ~isPaused
    /\ isPaused' = TRUE
    /\ cpc' = [cpc EXCEPT ![UI] = "pausing"]
    /\ UNCHANGED <<resumeCh, closedChs, pausedAt, doneCh, once, ctxDone,
                   wpc, wch, panicked, resumes, entry>>

(* Mutant: the channel of the previous pause stays in the field. *)
PauseInstallKeepsChannel ==
    /\ ~panicked
    /\ cpc[UI] = "pausing"
    /\ pausedAt' = TRUE
    /\ cpc' = [cpc EXCEPT ![UI] = "idle"]
    /\ UNCHANGED <<isPaused, resumeCh, closedChs, doneCh, once, ctxDone, wpc,
                   wch, panicked, resumes, entry>>

PauseInstall ==
    /\ ~panicked
    /\ cpc[UI] = "pausing"
    /\ pausedAt' = TRUE
    /\ resumeCh' = resumeCh + 1
    /\ cpc' = [cpc EXCEPT ![UI] = "idle"]
    /\ UNCHANGED <<isPaused, closedChs, doneCh, once, ctxDone, wpc, wch,
                   panicked, resumes, entry>>

(* Resume, called by the UI and, inside Stop, by a stopper. *)
ResumeSwap(c) ==
    /\ ~panicked
    /\ \/ c = UI /\ cpc[c] = "idle"
       \/ cpc[c] = "stopping"
    /\ isPaused
    /\ isPaused' = FALSE
    /\ cpc' = [cpc EXCEPT ![c] = "resuming"]
    /\ resumes' = resumes + 1
    /\ UNCHANGED <<resumeCh, closedChs, pausedAt, doneCh, once, ctxDone,
                   wpc, wch, panicked, entry>>

(* Closing a closed channel panics and takes the process down. *)
CloseChan(ch) ==
    /\ closedChs' = closedChs \cup {ch}
    /\ panicked' = (ch \in closedChs)

ResumeClose(c) ==
    /\ ~panicked
    /\ cpc[c] = "resuming"
    /\ pausedAt' = FALSE
    /\ CloseChan(resumeCh)
    /\ cpc' = [cpc EXCEPT ![c] = IF c = UI THEN "idle" ELSE "stopped"]
    /\ UNCHANGED <<isPaused, resumeCh, doneCh, once, ctxDone, wpc, wch,
                   resumes, entry>>

(* Stop runs its body once; a second caller waits for the first. *)
StopEnter(c) ==
    /\ ~panicked
    /\ cpc[c] = "idle"
    /\ \/ once = "new" /\ once' = "running"
          /\ cpc' = [cpc EXCEPT ![c] = "stopping"]
       \/ once = "done" /\ once' = once
          /\ cpc' = [cpc EXCEPT ![c] = "returned"]
    /\ UNCHANGED <<isPaused, resumeCh, closedChs, pausedAt, doneCh, ctxDone,
                   wpc, wch, panicked, resumes, entry>>

StopNotPaused(c) ==
    /\ ~panicked
    /\ cpc[c] = "stopping"
    /\ ~isPaused
    /\ cpc' = [cpc EXCEPT ![c] = "stopped"]
    /\ UNCHANGED <<isPaused, resumeCh, closedChs, pausedAt, doneCh, once,
                   ctxDone, wpc, wch, panicked, resumes, entry>>

StopClose(c) ==
    /\ ~panicked
    /\ cpc[c] = "stopped"
    /\ doneCh' = TRUE
    /\ once' = "done"
    /\ cpc' = [cpc EXCEPT ![c] = "returned"]
    /\ UNCHANGED <<isPaused, resumeCh, closedChs, pausedAt, ctxDone, wpc,
                   wch, panicked, resumes, entry>>

(* The scan context is cancelled from outside. *)
CancelContext ==
    /\ ~panicked
    /\ ~ctxDone
    /\ ctxDone' = TRUE
    /\ UNCHANGED <<isPaused, resumeCh, closedChs, pausedAt, doneCh, once,
                   cpc, wpc, wch, panicked, resumes, entry>>

-----------------------------------------------------------------------------
(* Wait: the load of the flag decides which of two selects is run. *)

WaitEnter(w) ==
    /\ ~panicked
    /\ wpc[w] = "outside"
    /\ wpc' = [wpc EXCEPT ![w] = IF isPaused THEN "load" ELSE "poll"]
    /\ entry' = [entry EXCEPT ![w] = [stopped |-> doneCh,
                                      held    |-> PauseInstalled,
                                      resumes |-> resumes]]
    /\ UNCHANGED <<isPaused, resumeCh, closedChs, pausedAt, doneCh, once,
                   ctxDone, cpc, wch, panicked, resumes>>

WaitPoll(w) ==
    /\ ~panicked
    /\ wpc[w] = "poll"
    /\ wpc' = [wpc EXCEPT ![w] = IF ctxDone \/ doneCh THEN "left"
                                                       ELSE "passed"]
    /\ UNCHANGED <<isPaused, resumeCh, closedChs, pausedAt, doneCh, once,
                   ctxDone, cpc, wch, panicked, resumes, entry>>

WaitLoad(w) ==
    /\ ~panicked
    /\ wpc[w] = "load"
    /\ wch' = [wch EXCEPT ![w] = resumeCh]
    /\ wpc' = [wpc EXCEPT ![w] = "blocked"]
    /\ UNCHANGED <<isPaused, resumeCh, closedChs, pausedAt, doneCh, once,
                   ctxDone, cpc, panicked, resumes, entry>>

(* Mutant: the blocking select does not listen to doneCh. *)
WaitSelectIgnoresDone(w) ==
    /\ ~panicked
    /\ wpc[w] = "blocked"
    /\ \/ /\ ctxDone
          /\ wpc' = [wpc EXCEPT ![w] = "left"]
       \/ /\ wch[w] \in closedChs
          /\ wpc' = [wpc EXCEPT ![w] = "guard"]
    /\ UNCHANGED <<isPaused, resumeCh, closedChs, pausedAt, doneCh, once,
                   ctxDone, cpc, wch, panicked, resumes, entry>>

(* The blocking select takes any ready case. *)
WaitSelect(w) ==
    /\ ~panicked
    /\ wpc[w] = "blocked"
    /\ \/ /\ ctxDone \/ doneCh
          /\ wpc' = [wpc EXCEPT ![w] = "left"]
       \/ /\ wch[w] \in closedChs
          /\ wpc' = [wpc EXCEPT ![w] = "guard"]
    /\ UNCHANGED <<isPaused, resumeCh, closedChs, pausedAt, doneCh, once,
                   ctxDone, cpc, wch, panicked, resumes, entry>>

(* Mutant: the second look at doneCh is left out. *)
WaitGuardUnchecked(w) ==
    /\ ~panicked
    /\ wpc[w] = "guard"
    /\ wpc' = [wpc EXCEPT ![w] = "passed"]
    /\ UNCHANGED <<isPaused, resumeCh, closedChs, pausedAt, doneCh, once,
                   ctxDone, cpc, wch, panicked, resumes, entry>>

WaitGuard(w) ==
    /\ ~panicked
    /\ wpc[w] = "guard"
    /\ wpc' = [wpc EXCEPT ![w] = IF doneCh THEN "left" ELSE "passed"]
    /\ UNCHANGED <<isPaused, resumeCh, closedChs, pausedAt, doneCh, once,
                   ctxDone, cpc, wch, panicked, resumes, entry>>

(* The worker handles one address and comes back to the checkpoint. *)
Work(w) ==
    /\ ~panicked
    /\ wpc[w] = "passed"
    /\ wpc' = [wpc EXCEPT ![w] = "outside"]
    /\ UNCHANGED <<isPaused, resumeCh, closedChs, pausedAt, doneCh, once,
                   ctxDone, cpc, wch, panicked, resumes, entry>>

-----------------------------------------------------------------------------
Wait(w) == WaitEnter(w) \/ WaitPoll(w) \/ WaitLoad(w) \/ WaitSelect(w)
           \/ WaitGuard(w) \/ Work(w)

Stop(c) == StopEnter(c) \/ StopNotPaused(c) \/ StopClose(c)

Next ==
    \/ PauseSwap
    \/ PauseInstall
    \/ \E c \in Callers : ResumeSwap(c) \/ ResumeClose(c)
    \/ \E c \in Stoppers : Stop(c)
    \/ CancelContext
    \/ \E w \in Workers : Wait(w)

Spec == Init /\ [][Next]_vars

(* Goroutines that can run do run; the user need not do anything. *)
Fairness ==
    /\ \A w \in Workers : WF_vars(Wait(w))
    /\ WF_vars(PauseInstall)
    /\ \A c \in Callers : WF_vars(ResumeClose(c))
    /\ \A c \in Stoppers :
         WF_vars(cpc[c] # "idle" /\ (Stop(c) \/ ResumeSwap(c)))

FairSpec == Spec /\ Fairness

-----------------------------------------------------------------------------
TypeOK ==
    /\ isPaused \in BOOLEAN
    /\ resumeCh \in Chan
    /\ closedChs \in SUBSET Chan
    /\ pausedAt \in BOOLEAN
    /\ doneCh \in BOOLEAN
    /\ once \in {"new", "running", "done"}
    /\ ctxDone \in BOOLEAN
    /\ cpc \in [Callers -> {"idle", "pausing", "resuming", "stopping",
                            "stopped", "returned"}]
    /\ wpc \in [Workers -> {"outside", "poll", "load", "blocked", "guard",
                            "passed", "left"}]
    /\ wch \in [Workers -> Chan]
    /\ panicked \in BOOLEAN
    /\ resumes \in Nat
    /\ entry \in [Workers -> Entry]

(***************************************************************************)
(* A Wait that is called after Stop has closed doneCh never lets its       *)
(* worker through, whatever Pause and Resume do meanwhile: the select may  *)
(* take the resume channel although doneCh is closed, and the second       *)
(* select of Wait (pause.go:113) is there for that case.                   *)
(***************************************************************************)
NoPassAfterStop ==
    \A w \in Workers : wpc[w] = "passed" => ~entry[w].stopped

(***************************************************************************)
(* A worker that reaches the checkpoint while a pause is installed does    *)
(* not get past it before some Resume cleared the flag.                    *)
(***************************************************************************)
PauseHolds ==
    \A w \in Workers :
        (wpc[w] = "passed" /\ entry[w].held) => resumes > entry[w].resumes

(***************************************************************************)
(* What PauseHolds rests on.  Its first part is about the callers: until   *)
(* somebody stops, the channel of an installed pause is open, and the flag *)
(* tells which half of Pause or Resume the user interface is in.  The      *)
(* second part follows a worker that met an installed pause: until a       *)
(* Resume clears the flag it is blocked on the channel of that pause, and  *)
(* nobody is about to close it.                                            *)
(***************************************************************************)
CallersConsistent ==
    /\ cpc[UI] \in {"idle", "pausing", "resuming"}
    /\ \A ch \in closedChs : ch <= resumeCh
    /\ once = "new" =>
         /\ \A c \in Stoppers : cpc[c] = "idle"
         /\ cpc[UI] = "pausing" => isPaused
         /\ cpc[UI] = "resuming" => ~isPaused /\ resumeCh \notin closedChs
         /\ PauseInstalled => resumeCh \notin closedChs

HeldByPause(w) ==
    /\ wpc[w] \in {"load", "blocked"}
    /\ wpc[w] = "blocked" => wch[w] = resumeCh
    /\ isPaused
    /\ cpc[UI] = "idle"
    /\ \A c \in Callers : cpc[c] # "resuming"
    /\ resumeCh \notin closedChs

HeldWorkers ==
    \A w \in Workers :
        /\ entry[w].resumes <= resumes
        /\ (wpc[w] \in {"poll", "load", "blocked", "guard", "passed"}
              /\ entry[w].held /\ entry[w].resumes = resumes) => HeldByPause(w)

(***************************************************************************)
(* Stop releases everybody: once doneCh is closed no worker stays blocked  *)
(* in Wait (pause_test.go:68, "Wait did not unblock after Stop").          *)
(***************************************************************************)
StopReleases ==
    \A w \in Workers : doneCh ~> (wpc[w] = "left" \/ panicked)

(***************************************************************************)
(* "Resume releases workers paused at a pause checkpoint" (scanner.go:446):*)
(* a worker blocked in Wait does not stay blocked for ever while the       *)
(* controller is not paused any more.                                      *)
(***************************************************************************)
ResumeReleases ==
    \A w \in Workers :
        (wpc[w] = "blocked" /\ ~isPaused)
            ~> (wpc[w] # "blocked" \/ isPaused \/ panicked)

(***************************************************************************)
(* Pause and Resume alone never close a channel twice, which would panic:  *)
(* the second Resume is a no-op (pause_test.go:49) and every Pause makes a *)
(* channel of its own.  Stop is not part of that: it calls Resume from     *)
(* another goroutine, and one that finds the flag of a Pause whose channel *)
(* is not made yet closes the channel of the pause before.                 *)
(***************************************************************************)
PanicNeedsStop == panicked => once # "new"
=============================================================================
