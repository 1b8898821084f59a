--------------------------- MODULE StartupChecks ---------------------------
(***************************************************************************)
(* The start of the program (ui/main/app/update.go, ui/main/startup): the  *)
(* splash screen, the checks that run one category after the other in a    *)
(* goroutine and report through a channel, and the step into the           *)
(* workspace, which the user confirms.                                     *)
(*                                                                         *)
(* A category is checked with any number of reports; the last decides its  *)
(* status, and a critical one ends the checks.  What each check looks at   *)
(* is left out.                                                            *)
(***************************************************************************)
EXTENDS Naturals, Sequences

CONSTANTS
  Categories,    \* the ids of the categories, in the order of the checks
  ConfigCheck,   \* the category that loads the configuration
  ChanSize,      \* what the log channel holds
  MaxReports     \* bound: reports of one category

\* The configuration is one of the categories, checked once.
ASSUME CategoriesAssumption ==
  /\ Categories \in Seq(STRING)
  /\ \E i \in DOMAIN Categories : Categories[i] = ConfigCheck

VARIABLES
  page,          \* splash, startup or workspace
  checker,       \* the goroutine: idle, the step it is at, or over
  cat,           \* the category it checks, by position
  reports,       \* reports it made in this category
  worst,         \* the status of the category (reporter.status)
  logCh,         \* the log channel
  logChClosed,
  listening,     \* a listenForLogs command is running
  shown,         \* the status of each category on the screen
  config,        \* the session has its configuration
  checked, fatal,
  doneMsgs       \* SplashDone and StartupChecksDone messages in flight

startVars == <<page, checker, cat, reports, worst, logCh, logChClosed, listening,
               shown, config, checked, fatal, doneMsgs>>

StartupInit ==
  /\ page = "splash"
  /\ checker = "idle" /\ cat = 1 /\ reports = 0 /\ worst = "running"
  /\ logCh = <<>> /\ logChClosed = FALSE /\ listening = FALSE
  /\ shown = [i \in DOMAIN Categories |-> "running"]
  /\ config = FALSE /\ checked = FALSE /\ fatal = FALSE
  /\ doneMsgs = [splash |-> 0, checks |-> 0]

(* The splash screen ends by itself and with a key: up to two messages. *)
SplashDone ==
  /\ page = "splash"
  /\ doneMsgs.splash < 2
  /\ doneMsgs' = [doneMsgs EXCEPT !.splash = @ + 1]
  /\ UNCHANGED <<page, checker, cat, reports, worst, logCh, logChClosed, listening,
                 shown, config, checked, fatal>>

(* app/update.go: the stage only moves forward, and startup's Init is run    *)
(* with it.                                                                 *)
EnterStartup ==
  /\ doneMsgs.splash > 0
  /\ doneMsgs' = [doneMsgs EXCEPT !.splash = @ - 1]
  /\ IF page = "splash"
     THEN /\ page' = "startup"
          /\ checker' = "check"
          /\ listening' = TRUE
     ELSE UNCHANGED <<page, checker, listening>>
  /\ UNCHANGED <<cat, reports, worst, logCh, logChClosed, shown, config, checked, fatal>>

(* A send on the channel waits while it is full. *)
SendLog(msg) ==
  /\ Len(logCh) < ChanSize
  /\ logCh' = Append(logCh, msg)

(* A report: an "info" leaves a status that is already decided. *)
Report(status) ==
  /\ checker = "check"
  /\ reports < MaxReports
  /\ SendLog([type |-> "log", cat |-> cat, status |-> status])
  /\ reports' = reports + 1
  /\ worst' = IF status # "running" \/ worst = "running" THEN status ELSE worst
  /\ UNCHANGED <<page, checker, cat, logChClosed, listening, shown, config, checked,
                 fatal, doneMsgs>>

(* critical: the message, and no check after this one. *)
Critical ==
  /\ checker = "check"
  /\ SendLog([type |-> "critical", cat |-> cat, status |-> "error"])
  /\ checker' = "aborted"
  /\ UNCHANGED <<page, cat, reports, worst, logChClosed, listening, shown, config,
                 checked, fatal, doneMsgs>>

(* runConfigCheck hands the configuration to the loop (Program.Send waits    *)
(* until it was taken) before it ends its category.                         *)
DeliverConfig ==
  /\ checker = "check"
  /\ Categories[cat] = ConfigCheck
  /\ ~config
  /\ config' = TRUE
  /\ UNCHANGED <<page, checker, cat, reports, worst, logCh, logChClosed, listening,
                 shown, checked, fatal, doneMsgs>>

EndCategory ==
  /\ checker = "check"
  /\ Categories[cat] = ConfigCheck => config
  /\ SendLog([type |-> "end", cat |-> cat, status |-> worst])
  /\ reports' = 0 /\ worst' = "running"
  /\ IF cat < Len(Categories)
     THEN cat' = cat + 1 /\ UNCHANGED checker
     ELSE checker' = "finished" /\ UNCHANGED cat
  /\ UNCHANGED <<page, logChClosed, listening, shown, config, checked, fatal, doneMsgs>>

CloseLogCh ==
  /\ checker \in {"aborted", "finished"}
  /\ checker' = "over"
  /\ logChClosed' = TRUE
  /\ UNCHANGED <<page, cat, reports, worst, logCh, listening, shown, config, checked,
                 fatal, doneMsgs>>

(* The message a listener brings, and the next listener; after a critical    *)
(* one nobody listens any more.                                             *)
Listen ==
  /\ listening
  /\ \/ /\ logCh # <<>>
        /\ LET msg == Head(logCh)
           IN  /\ logCh' = Tail(logCh)
               /\ shown' = IF msg.type = "end" THEN [shown EXCEPT ![msg.cat] = msg.status]
                                               ELSE shown
               /\ fatal' = (fatal \/ msg.type = "critical")
               /\ listening' = (msg.type # "critical")
        /\ UNCHANGED checked
     \/ /\ logCh = <<>> /\ logChClosed
        /\ checked' = TRUE
        /\ listening' = FALSE
        /\ UNCHANGED <<logCh, shown, fatal>>
  /\ UNCHANGED <<page, checker, cat, reports, worst, logChClosed, config, doneMsgs>>

(* Mutant: the "continue" key works before the checks are over. *)
ContinueEarly ==
  /\ page = "startup"
  /\ ~fatal
  /\ doneMsgs.checks < 2
  /\ doneMsgs' = [doneMsgs EXCEPT !.checks = @ + 1]
  /\ UNCHANGED <<page, checker, cat, reports, worst, logCh, logChClosed, listening,
                 shown, config, checked, fatal>>

(* A key: after a fatal error any key quits (left out); otherwise the        *)
(* "continue" key asks for the workspace, as often as it is pressed.         *)
Continue ==
  /\ page = "startup"
  /\ ~fatal /\ checked
  /\ doneMsgs.checks < 2
  /\ doneMsgs' = [doneMsgs EXCEPT !.checks = @ + 1]
  /\ UNCHANGED <<page, checker, cat, reports, worst, logCh, logChClosed, listening,
                 shown, config, checked, fatal>>

EnterWorkspace ==
  /\ doneMsgs.checks > 0
  /\ doneMsgs' = [doneMsgs EXCEPT !.checks = @ - 1]
  /\ page' = "workspace"
  /\ UNCHANGED <<checker, cat, reports, worst, logCh, logChClosed, listening,
                 shown, config, checked, fatal>>

StartupProgress ==
  \/ EnterStartup
  \/ DeliverConfig
  \/ EndCategory
  \/ CloseLogCh
  \/ Listen

StartupNext ==
  \/ StartupProgress
  \/ SplashDone
  \/ \E status \in {"running", "ok", "warn", "error"} : Report(status)
  \/ Critical
  \/ Continue
  \/ EnterWorkspace

StartupSpec == StartupInit /\ [][StartupNext]_startVars

(* Nobody gets to the workspace, where a scan reads the configuration,       *)
(* before it was loaded and every check was passed and shown, nor after a    *)
(* critical failure (app/update.go: prevent run twice; startup/model.go:     *)
(* runCheck stops on fatal abort).                                          *)
WorkspaceReady ==
  page = "workspace" =>
    config /\ ~fatal /\ checker = "over" /\ cat = Len(Categories)
=============================================================================
