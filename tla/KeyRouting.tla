------------------------------ MODULE KeyRouting ------------------------------
(***************************************************************************)
(* What a key does (ui/shared/keys, main/app, main/body and the components *)
(* of ui/components): the bindings, who sees a key first, what each        *)
(* component makes of it, and what the bar of keys below it promises.      *)
(*                                                                         *)
(* The top dialog, or else the top screen, has the key, after the program  *)
(* has taken its own.  The transitions of the stacks, during which keys    *)
(* are dropped, are in DialogStack and ScreenStack and are over here; what *)
(* a table, a form or a scan does with its data is in other modules.       *)
(* The widgets of charm.land (bubbles, huh) are external: which keys they  *)
(* take is what the code binds, or their default.                          *)
(***************************************************************************)
EXTENDS Naturals, Sequences, SequencesExt, TLC

CONSTANTS
  Typed,        \* the keys that are pressed
  NonLatin,     \* those of them that are letters of another script, in a sequence
  MaxOverlays,  \* bound: dialogs open at once
  MaxPlaces     \* bound: screens open at once

ASSUME KeyBounds == NonLatin \in Seq(Typed) /\ MaxOverlays \in Nat /\ MaxPlaces \in Nat

VARIABLES
  pile,   \* the screens, the last one on top
  overlays   \* the dialogs, the last one on top

\* Of a screen or a dialog: what it is, what is being edited in it ("rest", or
\* "typing" a text or a filter, "applied" for a filter in force, "no" and "yes"
\* for the choice in a confirmation), and whether it is loading.
keyVars == <<pile, overlays>>

-----------------------------------------------------------------------------
(* shared/keys: a binding has its keys, the first of which is shown in the   *)
(* bar, and may tell capitals from small letters.                            *)

B(keys) == [keys |-> keys, exact |-> FALSE]
Exact(b) == [b EXCEPT !.exact = TRUE]

Small == ("B" :> "b") @@ ("G" :> "g") @@ ("J" :> "j") @@ ("K" :> "k") @@ ("N" :> "n")
           @@ ("Q" :> "q") @@ ("S" :> "s") @@ ("Y" :> "y")
Lower(k) == IF k \in DOMAIN Small THEN Small[k] ELSE k

Matches(b, k) ==
  IF b.exact THEN Contains(b.keys, k)
             ELSE \E i \in DOMAIN b.keys : Lower(b.keys[i]) = Lower(k)

Global ==
  [Quit |-> B(<<"q">>), ForceQuit |-> Exact(B(<<"ctrl+c">>)),
   DumpGoroutines |-> Exact(B(<<"ctrl+t">>)), Help |-> B(<<"?">>),
   Back |-> B(<<"esc", "b">>), BackFromInput |-> B(<<"esc">>)]

Nav ==
  [Up |-> B(<<"up", "k">>), Down |-> B(<<"down", "j">>),
   Left |-> B(<<"left", "h">>), Right |-> B(<<"right", "l">>),
   PageUp |-> B(<<"pgup", "ctrl+u">>), PageDown |-> B(<<"pgdown", "ctrl+d">>),
   Top |-> Exact(B(<<"g">>)), Bottom |-> Exact(B(<<"G">>)),
   NextTab |-> B(<<"tab">>), PrevTab |-> B(<<"shift+tab">>)]

Table ==
  [HalfPageUp |-> B(<<"u">>), HalfPageDown |-> B(<<"d">>),
   ChangeSort |-> B(<<"s">>), ToggleOrder |-> B(<<"o">>), Filter |-> B(<<"/">>)]

\* What moves in a text, deletes or marks some of it is one thing here.
TextInput ==
  [Submit |-> B(<<"enter">>),
   Change |-> B(<<"right", "ctrl+f", "left", "ctrl+b", "alt+right", "ctrl+right", "alt+f",
                "alt+left", "ctrl+left", "alt+b", "alt+backspace", "ctrl+w",
                "ctrl+backspace", "alt+delete", "alt+d", "ctrl+delete", "ctrl+k", "ctrl+u",
                "backspace", "ctrl+h", "delete", "ctrl+d", "home", "ctrl+a", "end",
                "ctrl+e", "ctrl+v">>)]

TextArea ==
  [Submit |-> B(<<"enter">>), NewLine |-> B(<<"shift+enter", "ctrl+m">>),
   Change |-> B(TextInput.Change.keys \o
              <<"down", "ctrl+n", "up", "ctrl+p", "pgup", "pgdown", "alt+<", "ctrl+home",
                "alt+>", "ctrl+end", "alt+c", "alt+l", "alt+u", "ctrl+t", "shift+right",
                "shift+left", "ctrl+shift+right", "alt+shift+right", "alt+shift+f",
                "ctrl+shift+left", "alt+shift+left", "alt+shift+b", "shift+up",
                "shift+down", "ctrl+g", "ctrl+shift+c">>)]

SelectInput ==
  [Submit |-> B(<<"enter">>), Prev |-> B(<<"shift+tab">>), Next |-> B(<<"tab">>),
   Up |-> B(<<"up", "k", "ctrl+k", "ctrl+p">>), Down |-> B(<<"down", "j", "ctrl+j", "ctrl+n">>),
   HalfPageUp |-> B(<<"ctrl+u">>), HalfPageDown |-> B(<<"ctrl+d">>),
   GotoTop |-> B(<<"home", "g">>), GotoBottom |-> B(<<"end", "G">>),
   Filter |-> B(<<"/">>), SetFilter |-> B(<<"esc">>)]

MultiSelectInput ==
  [Submit |-> B(<<"enter">>), Prev |-> B(<<"shift+tab">>), Next |-> B(<<"enter", "tab">>),
   Toggle |-> B(<<"space", "x">>),
   Up |-> B(<<"up", "k", "ctrl+p">>), Down |-> B(<<"down", "j", "ctrl+n">>),
   HalfPageUp |-> B(<<"ctrl+u">>), HalfPageDown |-> B(<<"ctrl+d">>),
   GotoTop |-> B(<<"home", "g">>), GotoBottom |-> B(<<"end", "G">>),
   Filter |-> B(<<"/">>), SetFilter |-> B(<<"enter", "esc">>), SelectAll |-> B(<<"ctrl+a">>)]

ToggleInput ==
  [Submit |-> B(<<"enter">>), Prev |-> B(<<"shift+tab">>), Next |-> B(<<"enter", "tab">>),
   Toggle |-> B(<<"right", "left", "h", "l">>), Accept |-> B(<<"y", "Y">>),
   Reject |-> B(<<"n", "N">>)]

Picker ==
  [GotoTop |-> Exact(B(<<"g">>)), GotoLast |-> Exact(B(<<"G">>)),
   Up |-> B(<<"up", "k", "ctrl+p">>), Down |-> B(<<"down", "j", "ctrl+n">>),
   PageUp |-> B(<<"pgup", "K">>), PageDown |-> B(<<"pgdown", "J">>),
   Back |-> B(<<"esc", "h", "backspace", "left">>), Open |-> B(<<"enter", "l", "right">>),
   Select |-> B(<<"enter">>)]

LogView == [HalfPageUp |-> B(<<"u">>), HalfPageDown |-> B(<<"d">>)]
Inspector == [Edit |-> B(<<"enter">>), Description |-> B(<<"d">>)]
Confirm == [Accept |-> B(<<"enter", "y">>)]
Notice == [Continue |-> B(<<"enter">>)]
Menu == [Select |-> B(<<"enter">>)]
DialogKeys == [Cancel |-> B(<<"esc">>)]
Form == [Save |-> B(<<"s">>), Cancel |-> Exact(B(Global.Quit.keys \o Global.Back.keys))]
Crud ==
  [Select |-> B(<<"enter">>), Add |-> B(<<"a">>), Delete |-> B(<<"x">>), Rename |-> B(<<"r">>)]
Filter == [Accept |-> B(<<"enter">>), Clear |-> B(<<"esc">>)]
Scan ==
  [TogglePause |-> Exact(B(<<"p", "space">>)), ToggleLogs |-> Exact(B(<<"l">>)),
   Cancel |-> Exact(B(<<"esc", "b", "q">>))]

\* The widgets compare a key as it is, and have bindings of their own.
PlainTable ==
  [PageUp |-> Exact(B(<<"b", "pgup">>)), PageDown |-> Exact(B(<<"f", "pgdown", "space">>)),
   HalfPageUp |-> Exact(B(<<"u", "ctrl+u">>)), HalfPageDown |-> Exact(B(<<"d", "ctrl+d">>)),
   Top |-> Exact(B(<<"home", "g">>)), Bottom |-> Exact(B(<<"end", "G">>))]
PlainList ==
  [Up |-> Exact(B(<<"up", "k">>)), Down |-> Exact(B(<<"down", "j">>)),
   PageUp |-> Exact(B(<<"left", "h", "pgup", "b", "u">>)),
   PageDown |-> Exact(B(<<"right", "l", "pgdown", "f", "d">>)),
   Top |-> Exact(B(<<"home", "g">>)), Bottom |-> Exact(B(<<"end", "G">>))]
PlainViewport ==
  [Up |-> Exact(B(<<"up", "k">>)), Down |-> Exact(B(<<"down", "j">>)),
   PageUp |-> Exact(B(<<"pgup", "b">>)), PageDown |-> Exact(B(<<"pgdown", "space", "f">>)),
   HalfPageUp |-> Exact(B(<<"u", "ctrl+u">>)), HalfPageDown |-> Exact(B(<<"d", "ctrl+d">>))]

-----------------------------------------------------------------------------
(* The screens and the dialogs. *)

\* The items of each menu: a shortcut, and what opens.  The last two menus are
\* dialogs.
MainItems ==
  <<<<"s", "target">>, <<"i", "ips">>, <<"r", "results">>, <<"x", "outbounds">>,
    <<"d", "configs">>, <<"c", "settings">>, <<"l", "logs">>>>
SettingsItems ==
  <<<<"g", "tabbed">>, <<"i", "plain">>, <<"t", "plain">>, <<"h", "tabbed">>,
    <<"x", "plain">>, <<"d", "tabbed">>, <<"u", "plain">>>>
LogsItems == <<<<"c", "log">>, <<"u", "log">>>>
TargetItems == <<<<"i", "sources">>, <<"r", "earlier">>>>
ScanItems ==
  <<<<"i", "scan">>, <<"t", "scan">>, <<"h", "scan">>, <<"x", "templates">>, <<"r", "scan">>,
    <<"d", "tunnels">>>>
MethodItems == <<<<"l", "area">>, <<"f", "picker">>>>
ProtocolItems ==
  <<<<"d", "form">>, <<"s", "form">>, <<"v", "form">>, <<"m", "form">>, <<"t", "form">>,
    <<"f", "feed">>>>

Items ==
  [main |-> MainItems, settings |-> SettingsItems, logs |-> LogsItems, target |-> TargetItems,
   scantype |-> ScanItems, methods |-> MethodItems, protocols |-> ProtocolItems]

\* The lists of files, each twice: to manage them, and to pick one for a scan.
Hooks ==
  [ips |-> <<"Add", "Delete", "Rename">>,
   sources |-> <<"Select", "Add", "Delete", "Rename">>,
   results |-> <<"Select", "Delete", "Rename">>,
   earlier |-> <<"Select", "Delete", "Rename">>,
   outbounds |-> <<"Add", "Delete", "Rename">>,
   templates |-> <<"Select", "Add", "Delete", "Rename">>,
   configs |-> <<"Select", "Add", "Delete", "Rename">>,
   tunnels |-> <<"Select", "Add", "Delete", "Rename">>]

Picked ==
  [sources |-> "scantype", earlier |-> "scantype", results |-> "viewer",
   templates |-> "scan", tunnels |-> "scan"]

Added ==
  [ips |-> "picker", sources |-> "picker", outbounds |-> "methods", templates |-> "methods",
   configs |-> "protocols", tunnels |-> "protocols"]

FileLists == DOMAIN Hooks
MenuNames == DOMAIN Items
Inspectors == {"tabbed", "plain"}
Forms == {"form", "feed"}
Questions == {"exit", "cancel", "delete", "discard", "save"}
Notices == {"notice", "layout", "failed"}
Fields == {"text", "area", "select", "multi", "toggle"}

(* A screen or a dialog as it is opened: a list of files is being loaded, and *)
(* "No" is chosen, but for saving.                                            *)
Opened(what) ==
  [is |-> what, busy |-> what \in FileLists,
   edit |-> CASE what = "save" -> "yes" [] what \in Questions -> "no" [] OTHER -> "rest"]

KeyHolder == IF overlays # <<>> THEN Last(overlays) ELSE Last(pile)

(* Mutant: the scan's screen has the mode of the others. *)
KeyModeFlat(c) ==
  CASE c.is \in {"text", "area"} -> "Input"
    [] c.is \in Forms -> "Manage"
    [] c.is \in FileLists /\ (c.busy \/ c.edit # "rest") -> "Manage"
    [] OTHER -> "Normal"

(* Mode of every component. *)
KeyMode(c) ==
  CASE c.is \in {"text", "area"} -> "Input"
    [] c.is \in Forms \cup {"scan"} -> "Manage"
    [] c.is \in FileLists /\ (c.busy \/ c.edit # "rest") -> "Manage"
    [] OTHER -> "Normal"

-----------------------------------------------------------------------------
(* Who listens to a key.  A listener takes the first of its bindings that     *)
(* matches, and a component may have several that do not hear of each other.  *)

Hears(group, names) == [i \in DOMAIN names |-> <<names[i], group[names[i]]>>]
Widget(listener) == [i \in DOMAIN listener |-> <<listener[i][1], Exact(listener[i][2])>>]
As(effect, binding) == <<<<effect, binding>>>>
When(condition, listener) == IF condition THEN listener ELSE <<>>

\* menu/update.go: an item's shortcut is compared as it is.
MenuClaims(c) ==
  Hears(Menu, <<"Select">>)
    \o As("Item", Exact(B([i \in DOMAIN Items[c.is] |-> Items[c.is][i][1]])))
    \o Hears(Nav, <<"Up", "Down", "PageUp", "PageDown", "Top", "Bottom">>)
    \o When(c.is # "methods", Hears(Global, <<"Help">>))

\* table/update.go: what the table itself does not take, its widget has.
RowClaims(filters) ==
  Hears(Nav, <<"Up", "Down", "PageUp", "PageDown">>)
    \o Hears(Table, <<"HalfPageUp", "HalfPageDown", "ChangeSort", "ToggleOrder">>)
    \o When(filters, Hears(Table, <<"Filter">>))
    \o Hears(Filter, <<"Clear">>)
    \o Hears(PlainTable, <<"PageUp", "PageDown", "HalfPageUp", "HalfPageDown", "Top", "Bottom">>)
    \o Hears(Global, <<"Help">>)

\* crud: the verbs come before the table, and are there while it is loading.
ListClaims(c) ==
  IF c.edit = "typing"
  THEN Hears(Filter, <<"Clear", "Accept">>)
  ELSE Hears(Crud, Hooks[c.is]) \o When(~c.busy, RowClaims(TRUE))

\* Of the results of a stage, or of a file of them, no filter is offered.
ViewerClaims == As("Copy", Exact(B(<<"enter">>))) \o RowClaims(FALSE)

ScanClaims ==
  As("Warn", Exact(B(NonLatin)))
    \o Hears(Scan, <<"Cancel", "TogglePause", "ToggleLogs">>)
    \o ViewerClaims \o Hears(Nav, <<"NextTab", "PrevTab">>)

InspectorClaims(tabs) ==
  {Hears(Inspector, <<"Edit", "Description">>),
   Hears(PlainList, <<"Up", "Down", "PageUp", "PageDown", "Top", "Bottom">>),
   When(tabs, Hears(Nav, <<"NextTab", "PrevTab">>)),
   Hears(Global, <<"Help">>)}

\* Mutant: the viewport keeps its own keys.
LogClaimsPlain ==
  {Hears(Nav, <<"Top", "Bottom">>),
   Hears(PlainViewport,
          <<"PageDown", "PageUp", "HalfPageUp", "HalfPageDown", "Down", "Up">>),
   Hears(Global, <<"Help">>)}

\* logview: the viewport is given the keys of the program.
LogClaims ==
  {Hears(Nav, <<"Top", "Bottom">>),
   Widget(Hears(Nav, <<"PageDown", "PageUp">>)
            \o Hears(LogView, <<"HalfPageUp", "HalfPageDown">>)
            \o Hears(Nav, <<"Down", "Up">>)),
   Hears(Global, <<"Help">>)}

\* The inputs; in a choice the slash begins a filter, which then has the keys.
TextClaims ==
  {Widget(Hears(TextInput, <<"Change">>)), Hears(TextInput, <<"Submit">>)}
AreaClaims ==
  {Hears(TextArea, <<"NewLine", "Submit">>) \o Widget(Hears(TextArea, <<"Change">>))}
SelectClaims(typing) ==
  {Hears(SelectInput, <<"Submit">>),
   When(~typing, Widget(Hears(SelectInput,
          <<"Filter", "Up", "Down", "GotoTop", "GotoBottom", "HalfPageUp", "HalfPageDown">>)))}
MultiClaims(typing) ==
  {Hears(MultiSelectInput, <<"Submit">>),
   When(~typing, Widget(Hears(MultiSelectInput,
          <<"Filter", "Up", "Down", "GotoTop", "GotoBottom", "HalfPageUp", "HalfPageDown",
            "Toggle", "SelectAll">>)))}
ToggleClaims ==
  {Hears(ToggleInput, <<"Submit">>), Widget(Hears(ToggleInput, <<"Toggle", "Accept", "Reject">>))}

PickerClaims ==
  {Hears(Picker, <<"Select">>),
   Widget(Hears(Picker, <<"GotoTop", "GotoLast", "Down", "Up", "PageDown", "PageUp", "Back", "Open">>))}

\* confirm/update.go has its keys by itself, not from shared/keys.
ConfirmClaims ==
  {As("No", Exact(B(<<"left", "l">>))) \o As("Yes", Exact(B(<<"right", "j">>)))
     \o As("Answer", Exact(B(<<"enter">>)))}

NoticeClaims == {Hears(Notice, <<"Continue">>) \o Hears(PlainViewport, <<"Up", "Down">>)}
HelpClaims == {As("Unhelp", Global.Help) \o Hears(PlainViewport, <<"Up", "Down">>)}

Claims(c) ==
  CASE c.is \in MenuNames -> {MenuClaims(c)}
    [] c.is \in FileLists -> {ListClaims(c)}
    [] c.is = "viewer" -> {ViewerClaims}
    [] c.is = "scan" -> {ScanClaims}
    [] c.is \in Inspectors \cup Forms -> InspectorClaims(c.is \in {"tabbed", "form"})
    [] c.is = "log" -> LogClaims
    [] c.is = "text" -> TextClaims
    [] c.is = "area" -> AreaClaims
    [] c.is = "select" -> SelectClaims(c.edit = "typing")
    [] c.is = "multi" -> MultiClaims(c.edit = "typing")
    [] c.is = "toggle" -> ToggleClaims
    [] c.is = "picker" -> PickerClaims
    [] c.is \in Questions -> ConfirmClaims
    [] c.is \in Notices -> NoticeClaims
    [] c.is = "help" -> HelpClaims

First(listener, k) ==
  LET hits == SelectSeq(listener, LAMBDA l : Matches(l[2], k))
  IN  IF hits = <<>> THEN {} ELSE {Head(hits)[1]}

-----------------------------------------------------------------------------
(* Who comes before the component: the program, the stack of dialogs, the      *)
(* warning about the keyboard's layout, the stack of screens, and the form    *)
(* before its inspector.                                                      *)

Leaves(mode) ==
  When(overlays # <<>> /\ mode = "Normal",
       As("Leave", Global.Back) \o As("Leave", Global.Quit))
    \o When(overlays # <<>> /\ mode = "Input", As("Leave", Global.BackFromInput))

Warns(mode) ==
  When(mode = "Normal" /\ \A i \in DOMAIN overlays : overlays[i].is # "layout",
       As("Warn", Exact(B(NonLatin))))

GoesBack(mode) ==
  When(overlays = <<>> /\ mode = "Normal",
       As(IF Len(pile) > 1 THEN "Pop" ELSE "AskExit", Global.Back)
         \o As("AskExit", Global.Quit))

FormClaims == As("Save", Form.Save) \o As("Discard", Form.Cancel)

AppClaims ==
  LET mode == KeyMode(KeyHolder)
  IN  Hears(Global, <<"ForceQuit">>) \o Leaves(mode) \o Warns(mode) \o GoesBack(mode)
        \o When(KeyHolder.is \in Forms, FormClaims)

(* What a key does now. *)
KeyDoes(k) ==
  IF First(AppClaims, k) # {}
  THEN First(AppClaims, k)
  ELSE UNION {First(l, k) : l \in Claims(KeyHolder)}

-----------------------------------------------------------------------------
(* What becomes of the stacks. *)

KeyInit ==
  /\ pile = <<Opened("main")>>
  /\ overlays = <<>>

Root == SubSeq(pile, 1, 1)

\* The list of files under the dialogs is told to load itself again.
Reloaded ==
  IF Last(pile).is \in FileLists
  THEN [pile EXCEPT ![Len(pile)].busy = TRUE]
  ELSE pile

Push(what) ==
  /\ Len(pile) < MaxPlaces
  /\ pile' = Append(pile, Opened(what))
  /\ UNCHANGED overlays

Show(what) ==
  /\ Len(overlays) < MaxOverlays
  /\ overlays' = Append(overlays, Opened(what))
  /\ UNCHANGED pile

\* The top dialogs go, the last n of them, and others come.
Become(n, whats) ==
  overlays' = SubSeq(overlays, 1, Len(overlays) - n) \o [i \in DOMAIN whats |-> Opened(whats[i])]

Edited(how) ==
  IF overlays # <<>>
  THEN overlays' = [overlays EXCEPT ![Len(overlays)].edit = how] /\ UNCHANGED pile
  ELSE pile' = [pile EXCEPT ![Len(pile)].edit = how] /\ UNCHANGED overlays

Ended ==
  /\ pile' = <<>>
  /\ overlays' = <<>>

\* A dialog is closed; the notice that a scan did not close resets the screens.
LeaveDialog ==
  /\ Become(1, <<>>)
  /\ pile' = IF Last(overlays).is = "failed" THEN Root ELSE pile

\* An item of a menu; in the menus that are dialogs the choice replaces them,
\* and a scan that cannot be set up is not opened.
Chosen(what) ==
  CASE KeyHolder.is \in {"methods", "protocols"} -> Become(1, <<what>>) /\ UNCHANGED pile
    [] what = "scan" -> Push(what) \/ UNCHANGED keyVars
    [] OTHER -> Push(what)

\* The verb "select" of a list of files, for the row it is on, if there is one.
SelectRow ==
  \/ Show("notice")
  \/ /\ Last(pile).is \in DOMAIN Picked
     /\ Chosen(Picked[Last(pile).is])
  \/ /\ Last(pile).is = "configs"
     /\ \E f \in Forms : Show(f)

\* The file of a new entry has been picked, its name is asked for; "enter" on a
\* directory opens it.
PickFile ==
  \/ Become(1, <<"text">>) /\ UNCHANGED pile
  \/ UNCHANGED keyVars

\* A link is asked for in an area, then the name of its outbound in a text.
IsLink ==
  KeyHolder.is = "area" /\ Len(overlays) = 1 /\ Last(pile).is \in {"outbounds", "templates"}

\* An input is submitted: it is refused, or done, which may not work out.
Submitted ==
  \/ Edited("rest")
  \/ /\ IsLink
     /\ \E next \in {"text", "notice"} : Become(1, <<next>>)
     /\ UNCHANGED pile
  \/ /\ ~IsLink
     /\ \E next \in {<<>>, <<"notice">>} : Become(1, next)
     /\ pile' = IF Len(overlays) = 1 THEN Reloaded ELSE pile

\* "Yes": the program ends, the scan is closed, or not, the file is deleted, and
\* the form, which is the dialog below, is left or saved.
AgreedExit == Ended
AgreedClose ==
  \/ Become(1, <<>>) /\ pile' = Root
  \/ Become(1, <<"failed">>) /\ UNCHANGED pile
AgreedDelete ==
  /\ \E next \in {<<>>, <<"notice">>} : Become(1, next)
  /\ pile' = Reloaded
AgreedDiscard == Become(2, <<>>) /\ pile' = Reloaded
AgreedSave == AgreedDiscard \/ (Become(1, <<"notice">>) /\ UNCHANGED pile)

Agreed ==
  LET q == Last(overlays).is
  IN  \/ q = "exit" /\ AgreedExit
      \/ q = "cancel" /\ AgreedClose
      \/ q = "delete" /\ AgreedDelete
      \/ q = "discard" /\ AgreedDiscard
      \/ q = "save" /\ AgreedSave

Answered ==
  IF Last(overlays).edit = "yes" THEN Agreed ELSE Become(1, <<>>) /\ UNCHANGED pile

\* An input for a field of an inspector, or none for one that has none.
EditField == (\E f \in Fields : Show(f)) \/ UNCHANGED keyVars

\* A filter is begun, put in force (if it is not empty), or cleared.
FilterKey(e) ==
  \/ e = "Filter" /\ Edited("typing")
  \/ /\ e = "Accept" /\ KeyHolder.is \in FileLists
     /\ \E how \in {"applied", "rest"} : Edited(how)
  \/ e = "Clear" /\ Edited("rest")

Shows ==
  [Help |-> {"help"}, Description |-> {"notice"}, Copy |-> {"notice"}, Warn |-> {"layout"},
   AskExit |-> {"exit"}, Cancel |-> {"cancel"}, Discard |-> {"discard"},
   Save |-> {"save", "notice"}, Delete |-> {"delete", "notice"}, Rename |-> {"text", "notice"},
   ToggleLogs |-> {"log"}]

Acting ==
  DOMAIN Shows \cup
  {"ForceQuit", "Leave", "Unhelp", "Continue", "Pop", "Item", "Select", "Add", "Filter",
   "Accept", "Clear", "NewLine", "Submit", "No", "Yes", "Answer", "Edit"}

Effect(e, k) ==
  \/ e = "ForceQuit" /\ Ended
  \/ e \in {"Leave", "Unhelp", "Continue"} /\ LeaveDialog
  \/ e = "Pop" /\ pile' = Front(pile) /\ UNCHANGED overlays
  \/ e \in DOMAIN Shows /\ \E b \in Shows[e] : Show(b)
  \/ e = "Item" /\ \E i \in DOMAIN Items[KeyHolder.is] :
       Items[KeyHolder.is][i][1] = k /\ Chosen(Items[KeyHolder.is][i][2])
  \/ e = "Select" /\ KeyHolder.is \in MenuNames /\ \E i \in DOMAIN Items[KeyHolder.is] :
       Chosen(Items[KeyHolder.is][i][2])
  \/ e = "Select" /\ KeyHolder.is \in FileLists /\ SelectRow
  \/ e = "Select" /\ KeyHolder.is = "picker" /\ PickFile
  \/ e = "Add" /\ Show(Added[KeyHolder.is])
  \/ FilterKey(e)
  \/ e = "NewLine" /\ (Submitted \/ UNCHANGED keyVars)
  \/ e = "Submit" /\ Submitted
  \/ e = "No" /\ Edited("no")
  \/ e = "Yes" /\ Edited("yes")
  \/ e = "Answer" /\ Answered
  \/ e = "Edit" /\ EditField
  \/ e \notin Acting /\ UNCHANGED keyVars

Press(k) == \E e \in KeyDoes(k) : Effect(e, k)

\* The files have been read, or could not be.  While another screen is on top
\* the message is not seen.
ListLoaded ==
  /\ Last(pile).busy
  /\ pile' = [pile EXCEPT ![Len(pile)].busy = FALSE]
  /\ \/ UNCHANGED overlays
     \/ Len(overlays) < MaxOverlays /\ overlays' = Append(overlays, Opened("notice"))

KeyNext ==
  /\ pile # <<>>
  /\ (\E k \in Typed : Press(k)) \/ ListLoaded

KeySpec == KeyInit /\ [][KeyNext]_keyVars

-----------------------------------------------------------------------------
(* The keys that are shown: in the bar below a screen or a dialog only the     *)
(* first of a binding, in the full help all of them.                           *)

MenuBar(c) == Hears(Nav, <<"Up", "Down">>) \o Hears(Menu, <<"Select">>)

ListBar(c) ==
  Hears(Nav, <<"Up", "Down">>) \o Hears(Table, <<"ChangeSort", "ToggleOrder">>)
    \o When(c.is \in FileLists, Hears(Table, <<"Filter">>) \o Hears(Crud, Hooks[c.is]))

ScanBar(c) ==
  ListBar(c) \o Hears(Nav, <<"NextTab">>) \o Hears(Scan, <<"TogglePause", "ToggleLogs">>)

InspectorBar(c) ==
  Hears(Nav, <<"Up", "Down">>)
    \o When(c.is \in {"tabbed", "form"}, Hears(Nav, <<"NextTab", "PrevTab">>))
    \o Hears(Inspector, <<"Edit", "Description">>)

LogBar == Hears(Nav, <<"Up", "Down", "PageUp", "PageDown">>)

TextBar == Hears(TextInput, <<"Submit">>)
AreaBar == Hears(TextArea, <<"Submit">>)
SelectBar == Hears(SelectInput, <<"Up", "Down", "Submit">>)
MultiBar == Hears(MultiSelectInput, <<"Up", "Down", "Toggle", "Submit">>)
ToggleBar == Hears(ToggleInput, <<"Toggle", "Submit">>)
PickerBar == Hears(Picker, <<"Up", "Down", "Open", "Select">>)
ConfirmBar == As("No", Nav.Left) \o As("Yes", Nav.Right) \o As("Answer", Confirm.Accept)
NoticeBar == Hears(Notice, <<"Continue">>)

Ways == Hears(Global, <<"Back", "Quit", "Help">>)

\* The frame of every dialog adds the key that closes it.
Framed == Hears(DialogKeys, <<"Cancel">>)

Bar(c) ==
  CASE c.is = "methods" -> MenuBar(c) \o Framed
    [] c.is = "main" -> MenuBar(c) \o Hears(Global, <<"Quit", "Help">>)
    [] c.is \in MenuNames \ {"main", "methods"} -> MenuBar(c) \o Ways
    [] c.is \in FileLists \cup {"viewer"} -> ListBar(c) \o Ways
    [] c.is = "scan" -> ScanBar(c) \o Ways
    [] c.is \in Inspectors -> InspectorBar(c) \o Ways
    [] c.is \in Forms -> Hears(Form, <<"Save">>) \o InspectorBar(c) \o Ways \o Framed
    [] c.is = "log" -> LogBar \o Ways
    [] c.is = "text" -> TextBar \o Framed
    [] c.is = "area" -> AreaBar \o Framed
    [] c.is = "select" -> SelectBar \o Framed
    [] c.is = "multi" -> MultiBar \o Framed
    [] c.is = "toggle" -> ToggleBar \o Framed
    [] c.is = "picker" -> PickerBar \o Framed
    [] c.is \in Questions -> ConfirmBar \o Framed
    [] c.is \in Notices -> NoticeBar \o Framed
    [] c.is = "help" -> Framed

MenuHelp(c) ==
  MenuBar(c) \o Ways \o As("Item", B([i \in DOMAIN Items[c.is] |-> Items[c.is][i][1]]))
ListHelp(c) ==
  Bar(c) \o Hears(Nav, <<"PageUp", "PageDown", "Top", "Bottom">>)
    \o Hears(Table, <<"HalfPageUp", "HalfPageDown">>)
InspectorHelp(c) == InspectorBar(c) \o Ways
LogHelp ==
  LogBar \o Ways \o Hears(LogView, <<"HalfPageUp", "HalfPageDown">>)
    \o Hears(Nav, <<"Top", "Bottom">>)

\* A plain inspector's has the tabs too, which it has not.
FullHelp(c) ==
  CASE c.is \in MenuNames \ {"main", "methods"} -> MenuHelp(c)
    [] c.is \in FileLists \cup {"viewer", "scan"} -> ListHelp(c)
    [] c.is \in {"tabbed", "form"} -> InspectorHelp(c)
    [] c.is = "log" -> LogHelp
    [] OTHER -> <<>>

-----------------------------------------------------------------------------
(* What the user is told, and may rely on. *)

\* What "back", "quit" and "close" may mean: to go, or to be asked about it.
Going == {"Leave", "Pop", "AskExit", "Cancel", "Discard"}
Meant(e) == IF e \in {"Back", "Quit", "Cancel"} THEN Going ELSE {e}

(* Every key that is shown for a screen or a dialog does what is written next *)
(* to it, whatever comes before the component and however its own bindings,   *)
(* those of its widgets and its verbs overlap; while it is not loading and    *)
(* nothing is being typed or filtered in it.                                  *)
BarIsTrue ==
  pile # <<>> /\ ~KeyHolder.busy /\ KeyHolder.edit \notin {"typing", "applied"} =>
    /\ \A i \in DOMAIN Bar(KeyHolder) :
         LET b == Bar(KeyHolder)[i] IN KeyDoes(Head(b[2].keys)) \cap Meant(b[1]) # {}
    /\ \A i \in DOMAIN FullHelp(KeyHolder) :
         LET b == FullHelp(KeyHolder)[i]
         IN  \A j \in DOMAIN b[2].keys : KeyDoes(b[2].keys[j]) \cap Meant(b[1]) # {}

Has(stack, what) == \E i \in DOMAIN stack : stack[i].is \in what

Agrees(questions) ==
  /\ overlays # <<>>
  /\ Last(overlays).is \in questions
  /\ Last(overlays).is \in Questions => Last(overlays).edit = "yes"

(* A running scan is left only by the answer "yes" to the question about it,  *)
(* or by the notice that it could not be closed, and the changes in a form    *)
(* only by a "yes" to save or to discard them, whichever keys are pressed     *)
(* over them and whatever dialogs are open; unless the program is ended.       *)
AsksFirst ==
  [][pile' # <<>> =>
       /\ Has(pile, {"scan"}) /\ ~Has(pile', {"scan"}) => Agrees({"cancel", "failed"})
       /\ Has(overlays, Forms) /\ ~Has(overlays', Forms) => Agrees({"discard", "save"})]_keyVars
=============================================================================
