---------------------------- MODULE Application ----------------------------
(***************************************************************************)
(* The user interface's update loop (ui/main/app/update.go) over its two   *)
(* stacks, with the menus that make scanners and the screens that show     *)
(* them (ui/components/menus/scantype, ui/components/scanner).             *)
(*                                                                         *)
(* A command runs beside the loop and ends in a message; commands and      *)
(* messages in flight are a bag, and any of them may be the next to arrive. *)
(* A scan is named after its screen.  Quitting, the splash screen and the  *)
(* start-up checks are left out: the workspace is on the screen.           *)
(***************************************************************************)
EXTENDS DialogStack, ScreenStack, Bags, FiniteSets

CONSTANTS
  StartMenu,    \* the menu a scan is started from
  Menus,        \* other menus and tables, each opened at most once
  Scans,        \* the scan screens, with the scanner each shows
  MaxOpen,      \* bound: screens and dialogs opened in a behaviour
  MaxMail       \* bound: keys that send a message wait while so many are in flight

\* The screens of an application are different ones.
ASSUME ScreensAssumption ==
  /\ Main # StartMenu /\ {Main, StartMenu} \cap (Menus \cup Scans) = {}
  /\ Menus \cap Scans = {}

VARIABLES
  mail,         \* the bag of commands and messages in flight
  scanner,      \* the state of each scan's scanner
  asked,        \* the screens that were asked for, each at most once
  dialogs       \* the number of dialogs built so far

vars == <<dialogVars, screenVars, mail, scanner, asked, dialogs>>

(* The main menu, and over it the menu that starts scans. *)
Init ==
  /\ DialogInit
  /\ ScreenInit(<<[s |-> StartMenu, closing |-> "no"]>>)
  /\ mail = EmptyBag
  /\ scanner = [s \in Scans |-> "none"]
  /\ asked = {}
  /\ dialogs = 0

Msg(type, what) == [type |-> type, what |-> what]

Sent(msgs) == mail (+) SetToBag(msgs)

Took(msg) == mail (-) SetToBag({msg})

(* A new dialog; opened by an OpenDialogMsg. *)
Dialog(kind, does, of) ==
  [id |-> dialogs + 1, kind |-> kind, does |-> does, of |-> of]

CanOpen == Cardinality(asked) + dialogs < MaxOpen

Fresh(S) == CHOOSE s \in S : s \notin asked

TopScan == TopScreen.s \in Scans

(* Making a scanner loads its targets and takes long: keys go on meanwhile. *)
KeysAllowed ==
  Cardinality({m \in BagToSet(mail) : m.type # "make"}) < MaxMail

-----------------------------------------------------------------------------
(* Keys.  The top dialog gets them; while it is closing they are dropped.   *)

OpenDialogOnTop == HasDialog /\ ~Closing(TopLayer)

KeysReachScreen == ~HasDialog /\ ~KeysBlocked

(* app/update.go closeTopDialog, then body/update.go.  At the main menu the *)
(* key asks whether to quit, which is left out; the scan screen ignores it. *)
KeyBack ==
  /\ \/ /\ OpenDialogOnTop
        /\ BeginCloseTop
        /\ UNCHANGED screenVars
     \/ /\ KeysReachScreen
        /\ ~TopScan
        /\ PopScreen
        /\ UNCHANGED dialogVars
  /\ UNCHANGED <<mail, scanner, asked, dialogs>>

(* confirm/update.go, notice/update.go: the dialog asks to be closed, and    *)
(* the confirmed command runs beside that.                                  *)
KeyEnter ==
  /\ KeysAllowed
  /\ OpenDialogOnTop
  /\ LET d == TopLayer.d
     IN  \/ mail' = Sent({Msg("close", d.id)})
         \/ /\ d.kind = "confirm"
            /\ mail' = Sent({Msg("close", d.id), Msg("stop", d.of)})
  /\ UNCHANGED <<dialogVars, screenVars, scanner, asked, dialogs>>

(* An item of a menu that opens another menu or table. *)
SelectMenu(s) ==
  /\ KeysAllowed
  /\ CanOpen
  /\ KeysReachScreen
  /\ ~TopScan
  /\ asked' = asked \cup {s}
  /\ mail' = Sent({Msg("open", s)})
  /\ UNCHANGED <<dialogVars, screenVars, scanner, dialogs>>

(* scantype, open: the command makes the scanner. *)
SelectScan(s) ==
  /\ KeysAllowed
  /\ CanOpen
  /\ KeysReachScreen
  /\ TopScreen.s = StartMenu
  /\ asked' = asked \cup {s}
  /\ mail' = Sent({Msg("make", s)})
  /\ UNCHANGED <<dialogVars, screenVars, scanner, dialogs>>

(* scanner/update.go handleKey: leaving a scan is asked for. *)
KeyCancel ==
  /\ KeysAllowed
  /\ KeysReachScreen
  /\ TopScan
  /\ CanOpen
  /\ mail' = Sent({Msg("dialog", Dialog("confirm", "nothing", TopScreen.s))})
  /\ dialogs' = dialogs + 1
  /\ UNCHANGED <<dialogVars, screenVars, scanner, asked>>

-----------------------------------------------------------------------------
(* Commands that end and messages that arrive. *)

(* scantype, createScanner: a scanner whose stages were added is handed over *)
(* to a new screen.  If a stage fails some paths close the scanner; those of *)
(* a DNS tunnel, and every AddStage, return without.                        *)
MakeScanner(s) ==
  /\ Msg("make", s) \in BagToSet(mail)
  /\ \/ /\ scanner' = [scanner EXCEPT ![s] = "made"]
        /\ mail' = Took(Msg("make", s)) (+) SetToBag({Msg("open", s)})
     \/ \E left \in {"none", "closed", "dropped"} :
          /\ scanner' = [scanner EXCEPT ![s] = left]
          /\ mail' = Took(Msg("make", s))
  /\ UNCHANGED <<dialogVars, screenVars, asked, dialogs>>

(* OpenComponentMsg; the Init of a scan screen starts its scan. *)
OpenComponent(s) ==
  /\ Msg("open", s) \in BagToSet(mail)
  /\ mail' = Took(Msg("open", s))
  /\ PushScreen(s)
  /\ scanner' = [x \in Scans |-> IF x = s THEN "running" ELSE scanner[x]]
  /\ UNCHANGED <<dialogVars, asked, dialogs>>

OpenDialog(msg) ==
  /\ msg \in BagToSet(mail)
  /\ msg.type = "dialog"
  /\ mail' = Took(msg)
  /\ PushDialog(msg.what)
  /\ UNCHANGED <<screenVars, scanner, asked, dialogs>>

(* CloseComponentMsg: only dialogs send it. *)
CloseComponent(id) ==
  /\ Msg("close", id) \in BagToSet(mail)
  /\ mail' = Took(Msg("close", id))
  /\ BeginCloseById(id)
  /\ UNCHANGED <<screenVars, scanner, asked, dialogs>>

(* The scan ends by itself, with or without an error. *)
ScanEnds(s) ==
  /\ scanner[s] = "running"
  /\ scanner' = [scanner EXCEPT ![s] = "done"]
  /\ mail' \in {mail, Sent({Msg("error", s)})}
  /\ UNCHANGED <<dialogVars, screenVars, asked, dialogs>>

(* What closeScan sends: Close waits for the scan, which ends with or       *)
(* without an error, or gives up after its timeout.                         *)
Stopping(s) ==
  {Msg("result", ok) : ok \in BOOLEAN} \cup
  (IF scanner[s] = "running" THEN {Msg("error", s)} ELSE {})

(* Mutant: the stacks are reset although the scan was not ended. *)
StopScanResetsOnly(s) ==
  /\ Msg("stop", s) \in BagToSet(mail)
  /\ mail' = Took(Msg("stop", s)) (+) SetToBag({Msg("result", TRUE)})
  /\ UNCHANGED <<dialogVars, screenVars, scanner, asked, dialogs>>

(* The command a dialog confirmed, running to its end. *)
StopScan(s) ==
  /\ Msg("stop", s) \in BagToSet(mail)
  /\ scanner' = [scanner EXCEPT ![s] = "closed"]
  /\ \E out \in SUBSET Stopping(s) :
       /\ \E ok \in BOOLEAN : {m \in out : m.type = "result"} = {Msg("result", ok)}
       /\ mail' = Took(Msg("stop", s)) (+) SetToBag(out)
  /\ UNCHANGED <<dialogVars, screenVars, asked, dialogs>>

(* scanCloseResultMsg goes to the top screen, which need not be the scan's:  *)
(* a scan screen resets the stacks, or tells the error and resets after it.  *)
ScanCloseResult(ok) ==
  /\ Msg("result", ok) \in BagToSet(mail)
  /\ LET rest == Took(Msg("result", ok))
     IN  IF ~TopScan
         THEN mail' = rest /\ UNCHANGED dialogs
         ELSE IF ok
         THEN mail' = rest (+) SetToBag({Msg("reset", Main)}) /\ UNCHANGED dialogs
         ELSE /\ CanOpen
              /\ mail' = rest (+) SetToBag({Msg("dialog", Dialog("notice", "reset", Main))})
              /\ dialogs' = dialogs + 1
  /\ UNCHANGED <<dialogVars, screenVars, scanner, asked>>

(* scanErrorMsg, also to the top screen: a notice that closes that screen's  *)
(* scan once it is gone.                                                    *)
ScanError(s) ==
  /\ Msg("error", s) \in BagToSet(mail)
  /\ LET rest == Took(Msg("error", s))
     IN  IF ~TopScan
         THEN mail' = rest /\ UNCHANGED dialogs
         ELSE /\ CanOpen
              /\ mail' = rest (+) SetToBag({Msg("dialog", Dialog("notice", "stop", TopScreen.s))})
              /\ dialogs' = dialogs + 1
  /\ UNCHANGED <<dialogVars, screenVars, scanner, asked>>

ResetStacks ==
  /\ Msg("reset", Main) \in BagToSet(mail)
  /\ mail' = Took(Msg("reset", Main))
  /\ ResetStack
  /\ UNCHANGED <<dialogVars, scanner, asked, dialogs>>

-----------------------------------------------------------------------------
(* Time, frames and the commands that wait for a dialog to be gone. *)

BodyFrame == ScreenFrame /\ UNCHANGED <<dialogVars, mail, scanner, asked, dialogs>>

SlideElapse == ScreenElapse /\ UNCHANGED <<dialogVars, mail, scanner, asked, dialogs>>

LayerFrame == DialogFrame /\ UNCHANGED <<screenVars, mail, scanner, asked, dialogs>>

DialogElapse(i) == LayerElapse(i) /\ UNCHANGED <<screenVars, mail, scanner, asked, dialogs>>

(* A closing command: the reset is only sent, closeScan is started and its   *)
(* sequence goes on when it is over.                                        *)
CloseCommand(c) ==
  LET d == Head(c.todo)
  IN  /\ RunCloseCmd(c)
      /\ IF d.does = "reset"
         THEN mail' = Sent({Msg("reset", Main)}) /\ UNCHANGED scanner
         ELSE /\ scanner' = [scanner EXCEPT ![d.of] = "closed"]
              /\ \E out \in SUBSET Stopping(d.of) :
                   /\ \E ok \in BOOLEAN : {m \in out : m.type = "result"} = {Msg("result", ok)}
                   /\ mail' = Sent(out)
      /\ UNCHANGED <<screenVars, asked, dialogs>>

Arrive ==
  \/ \E s \in Scans : MakeScanner(s) \/ StopScan(s) \/ ScanError(s)
  \/ \E s \in Menus \cup Scans : OpenComponent(s)
  \/ \E msg \in BagToSet(mail) : OpenDialog(msg)
  \/ \E id \in 1..MaxOpen : CloseComponent(id)
  \/ \E ok \in BOOLEAN : ScanCloseResult(ok)
  \/ ResetStacks

Keys ==
  \/ KeyBack
  \/ KeyEnter
  \/ KeyCancel
  \/ Menus \ asked # {} /\ SelectMenu(Fresh(Menus))
  \/ Scans \ asked # {} /\ SelectScan(Fresh(Scans))

Time ==
  \/ SlideElapse
  \/ \E i \in DOMAIN layers : DialogElapse(i)

Next ==
  /\ ~panicked
  /\ \/ Keys
     \/ Arrive
     \/ \E s \in Scans : ScanEnds(s)
     \/ Time
     \/ BodyFrame
     \/ LayerFrame
     \/ \E c \in chains : CloseCommand(c)

Spec == Init /\ [][Next]_vars

(* The runtime runs every command and delivers every message, timers fire,   *)
(* and time passes; nobody has to press a key and a scan may take for ever.  *)
Fairness ==
  /\ WF_vars(~panicked /\ Arrive)
  /\ WF_vars(~panicked /\ SlideElapse)
  /\ WF_vars(~panicked /\ \E i \in DOMAIN layers : DialogElapse(i))
  /\ WF_vars(~panicked /\ BodyFrame)
  /\ WF_vars(~panicked /\ LayerFrame)
  /\ WF_vars(~panicked /\ \E c \in chains : CloseCommand(c))

FairSpec == Spec /\ Fairness

-----------------------------------------------------------------------------
(* The command set on closing a dialog is started once, and never while the  *)
(* dialog is on the stack (dialogs.go, closeCmd: whichever path closed it);  *)
(* OnClose of a screen runs once, when it leaves (body/update.go).          *)
ClosedOnceEach ==
  /\ ClosedOnce
  /\ \A id \in DOMAIN fired :
       fired[id] = 1 /\ \A i \in DOMAIN layers : layers[i].d.id # id

(* The stacks come to rest: again and again no dialog is closing (a closing  *)
(* one takes every key; dialogs.go: closing layers stay in the stack until   *)
(* their collapse finishes), and no timer is left once nothing moves        *)
(* (app/update.go: idle stacks need no timers), whatever is opened, closed   *)
(* and pressed meanwhile.                                                   *)
StacksSettle ==
  []<>(\/ panicked
       \/ /\ \A i \in DOMAIN layers : ~Closing(layers[i])
          /\ dticks = 0 /\ ticks = 0)

(* A scan that is running has its screen on the stack, so that somebody can  *)
(* end it: the stacks are reset only once its scanner is closed              *)
(* (scanner/update.go, scanCloseResultMsg).  A second scan started while the *)
(* command of the first was making its scanner is the exception.            *)
OnStack(s) == \E i \in DOMAIN screens : screens[i].s = s

ScanHasScreen ==
  \A s \in Scans : scanner[s] = "running" => OnStack(s) \/ asked \cap Scans # {s}

(* A menu that leaves the stack has closed the scanner it made and handed to *)
(* no screen (scantype/model.go, OnClose: closes the active scanner if this  *)
(* menu opened it).                                                         *)
MenuClosesItsScanner ==
  [][OnStack(StartMenu) /\ ~OnStack(StartMenu)' =>
       \A s \in Scans : scanner'[s] # "dropped"]_vars
=============================================================================
