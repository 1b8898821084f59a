----------------------------- MODULE FileTables -----------------------------
(***************************************************************************)
(* The lists of files of the user interface: address lists, results, DNS   *)
(* tunnels and outbounds (ui/components/basic/crud over the providers of   *)
(* ui/components/tables, their dialogs and the folders they list).         *)
(*                                                                         *)
(* The user acts on the row under the cursor, a dialog asks, and what it   *)
(* confirms runs beside the update loop: a command is a sequence of steps, *)
(* and the commands in flight are a bag.  A file is its folder, its name   *)
(* and its age, the time it was written last; results and tunnels lie in a *)
(* folder per kind of scan and per protocol.                               *)
(***************************************************************************)
EXTENDS ListView, SequencesExt, Bags

CONSTANTS
  Folders,     \* the folders of a list that has several; naturals
  Disks,       \* what lies on the disk at first: sets of paths
  MaxBoxes,    \* bound: dialogs opened
  MaxAge,      \* bound: files written
  MaxCommands  \* bound: of each list, the commands in flight when a key is pressed

ASSUME DisksArePaths ==
  \A S \in Disks : IsFiniteSet(S) /\ S \subseteq [folder : Folders \cup {1}, name : FileNames]

VARIABLES
  list,        \* "ips", "results", "tunnels" or "outbounds"
  disk,        \* the files
  boxes,       \* the stack of dialogs, the top last
  commands,    \* the bag of commands in flight
  opened,      \* the dialogs built so far
  excused      \* a listing failed, commands overlapped, or a file went without one

fileVars == <<viewOnly, list, disk, boxes, commands, opened, excused>>

\* The hooks of these lists touch the disk when they are called, those of the
\* others when the command they return is run.
Eager == {"results", "tunnels"}

\* Saving or renaming onto an existing name is refused.
Refusing == {"tunnels", "outbounds"}

FoldersOf(k) == IF k \in {"results", "tunnels"} THEN Folders ELSE {1}

Path(f) == [folder |-> f.folder, name |-> f.name]

At(p) == {f \in disk : Path(f) = p}

Paths(S) == {Path(f) : f \in S}

Ages(S) == {f.age : f \in S}

Newest == CHOOSE n \in Ages(disk) \cup {0} : \A f \in disk : f.age <= n

Written(p) == [folder |-> p.folder, name |-> p.name, age |-> Newest + 1]

(* Load: the files of every folder, newest first. *)
Sorted(files) ==
  [k \in 1..Cardinality(files) |->
     CHOOSE f \in files : Cardinality({g \in files : g.age >= f.age}) = k]

Listing == Sorted(disk)

-----------------------------------------------------------------------------
(* Steps of commands. *)

Delete(p) == [do |-> "remove", path |-> p]
\* Unless the path is free, or is taken, the next "skip" steps are left out.
NeedFree(p, skip) == [do |-> "free", path |-> p, skip |-> skip]
NeedFile(p, skip) == [do |-> "file", path |-> p, skip |-> skip]
Move(p, q) == [do |-> "move", path |-> p, to |-> q]
Write(p) == [do |-> "write", path |-> p]
Edit(p) == [do |-> "edit", path |-> p]
Verify(p, skip) == [do |-> "verify", path |-> p, skip |-> skip]
CloseBox(id) == [do |-> "close", id |-> id]
OpenBox(box) == [do |-> "open", box |-> box]
Refresh == [do |-> "refresh"]
Load == [do |-> "load"]
Loaded(rows) == [do |-> "loaded", rows |-> rows]

Started(cmds) == commands (+) SetToBag(cmds)

(* What the rename hooks of the providers do, as steps. *)
RenameSteps(f, name) ==
  LET q == [folder |-> f.folder, name |-> name]
  IN  CASE list = "outbounds" -> <<NeedFile(Path(f), 2), NeedFree(q, 1), Move(Path(f), q)>>
        [] OTHER -> <<Move(Path(f), q)>>

(* The same at once, for a hook that runs when it is called.  Renaming a     *)
(* file onto another replaces it, unless that is refused.                   *)
Moved(S, p, q) ==
  {f \in S : Path(f) \notin {p, q}} \cup
  {[f EXCEPT !.folder = q.folder, !.name = q.name] : f \in {g \in S : Path(g) = p}}

\* Mutant: RenameConfig does not look for the new name.
RenamedAtOnceAlways(f, name) ==
  LET q == [folder |-> f.folder, name |-> name]
  IN  IF Path(f) \notin Paths(disk) THEN disk ELSE Moved(disk, Path(f), q)

RenamedAtOnce(f, name) ==
  LET q == [folder |-> f.folder, name |-> name]
  IN  IF \/ Path(f) \notin Paths(disk)
         \/ list \in Refusing /\ q \in Paths(disk)
      THEN disk
      ELSE Moved(disk, Path(f), q)

(* How a list saves a file under a name, and what follows: the import of an  *)
(* address list, an outbound from a file or from a link.                    *)
SaveCommands(how, name, box) ==
  LET p == [folder |-> 1, name |-> name]
  IN  CASE how = "import" -> {<<Write(p), Refresh, CloseBox(box)>>}
        [] how = "file" -> {<<NeedFree(p, 2), Write(p), Verify(p, 0), CloseBox(box)>>, <<Refresh>>}
        [] how = "link" -> {<<NeedFree(p, 3), Write(p), Verify(p, 1), Refresh, CloseBox(box)>>,
                            <<Refresh>>}

(* formkit.Save: a new tunnel is created, an old one edited and renamed; the *)
(* form stays open if that fails.                                           *)
FormSteps(form, name) ==
  LET p == [folder |-> form.folder, name |-> name]
      old == [folder |-> form.folder, name |-> form.original]
  IN  IF form.original = 0
      THEN <<NeedFree(p, 2), Write(p), CloseBox(form.id)>>
      ELSE IF form.original = name
      THEN <<NeedFile(old, 2), Edit(old), CloseBox(form.id)>>
      ELSE <<NeedFile(old, 5), Edit(old), NeedFile(old, 3), NeedFree(p, 2), Move(old, p),
             CloseBox(form.id)>>

-----------------------------------------------------------------------------
FilesInit ==
  /\ ListViewInit
  /\ list \in {"ips", "results", "tunnels", "outbounds"}
  /\ \E S \in Disks :
       /\ \A p \in S : p.folder \in FoldersOf(list)
       /\ LET order == SetToSeq(S)
          IN  disk = {[folder |-> order[i].folder, name |-> order[i].name, age |-> i] :
                        i \in DOMAIN order}
  /\ boxes = <<>>
  /\ commands = SetToBag({<<Load>>})
  /\ opened = 0
  /\ excused = FALSE

CanPress == BagCardinality(commands) < MaxCommands[list]

CanOpenBox == opened < MaxBoxes

TopBox == Last(boxes)

OnTable == boxes = <<>> /\ CanPress

(* getSelected: rows carry their file's name only, and the index by name     *)
(* keeps the last of the files with one.                                    *)
\* Mutant: the item is taken by the position of the cursor.
SelectedByPosition(row) ==
  items[IF cursor < Len(items) THEN cursor + 1 ELSE Len(items)]

Selected(row) ==
  items[CHOOSE i \in DOMAIN items :
          /\ items[i].name = row.name
          /\ \A j \in DOMAIN items : items[j].name = row.name => j <= i]

Box(kind, row, file, runs) ==
  [id |-> opened + 1, kind |-> kind, row |-> row, file |-> file, runs |-> runs,
   how |-> "-", folder |-> 0, original |-> 0]

NoFile == [folder |-> 0, name |-> 0, age |-> 0]

DiskSteps == {"remove", "free", "file", "move", "write", "edit", "verify"}

OnDisk(cmds) == {c \in cmds : \E i \in DOMAIN c : c[i].do \in DiskSteps}

\* The dialogs a command closes.
Closes(cmd) == {cmd[i].id : i \in {j \in DOMAIN cmd : cmd[j].do = "close"}}

IsOpen(id) == \E b \in ToSet(boxes) : b.id = id

\* These commands of the top dialog are started, after a hook that may have run
\* at once; what comes of two at the disk together is excused, and of a dialog
\* submitted that is closing or gone.
Run(cmds, atOnce) ==
  /\ commands' = Started(cmds)
  /\ excused' = \/ excused
                \/ (atOnce \/ OnDisk(cmds) # {}) /\ OnDisk(BagToSet(commands)) # {}
                \/ \E c \in cmds : \E id \in Closes(c) :
                     ~IsOpen(id) \/ \E d \in BagToSet(commands) : id \in Closes(d)

AskFor(box) ==
  /\ CanOpenBox
  /\ opened' = opened + 1
  /\ commands' = Started({<<OpenBox(box)>>})

(* Keys of the table itself; bound: pressed when nothing is in flight. *)
Browse ==
  /\ OnTable /\ commands = EmptyBag
  /\ TableKey
  /\ UNCHANGED <<list, disk, boxes, commands, opened, excused>>

(* os.Remove may fail; then a notice says so. *)
Removals(p) == {disk, disk \ At(p)}

(* requestDeletion builds the confirmed command before it asks: hooks that   *)
(* remove the file themselves do it here.                                   *)
AskDelete ==
  /\ OnTable /\ ~view.typing
  /\ \E row \in ToSet(SelectedRow) :
       LET f == Selected(row)
       IN  IF list \in Eager
           THEN /\ AskFor(Box("confirm", row, f, {<<Refresh>>}))
                /\ disk' \in Removals(Path(f))
                /\ excused' = TRUE
           ELSE /\ AskFor(Box("confirm", row, f, {<<Delete(Path(f)), Refresh>>}))
                /\ UNCHANGED <<disk, excused>>
  /\ UNCHANGED <<viewOnly, list, boxes>>

(* requestRename *)
AskRename ==
  /\ OnTable /\ ~view.typing
  /\ \E row \in ToSet(SelectedRow) : AskFor(Box("rename", row, Selected(row), {}))
  /\ UNCHANGED <<viewOnly, list, disk, boxes, excused>>

(* OnSelect of the tunnels: the form of the row's tunnel is opened. *)
SelectTunnel ==
  /\ OnTable /\ ~view.typing
  /\ list = "tunnels"
  /\ \E row \in ToSet(SelectedRow) :
       LET f == Selected(row)
       IN  AskFor([Box("form", row, f, {}) EXCEPT !.folder = f.folder, !.original = f.name])
  /\ UNCHANGED <<viewOnly, list, disk, boxes, excused>>

(* OnAdd, once its menu and its picker are through: a name for the import or *)
(* the outbound, or the form of a new tunnel.  Results have no such key.     *)
AskAdd ==
  /\ OnTable /\ ~view.typing
  /\ \/ list = "ips" /\ AskFor([Box("name", NoFile, NoFile, {}) EXCEPT !.how = "import"])
     \/ /\ list = "outbounds"
        /\ \E how \in {"file", "link"} :
             AskFor([Box("name", NoFile, NoFile, {}) EXCEPT !.how = how])
     \/ /\ list = "tunnels"
        /\ \E d \in Folders : AskFor([Box("form", NoFile, NoFile, {}) EXCEPT !.folder = d])
  /\ UNCHANGED <<viewOnly, list, disk, boxes, excused>>

(* confirm/update.go: the dialog closes, and beside that what was confirmed  *)
(* runs.                                                                    *)
Answer(yes) ==
  /\ boxes # <<>> /\ CanPress
  /\ TopBox.kind = "confirm"
  /\ Run({<<CloseBox(TopBox.id)>>} \cup (IF yes THEN TopBox.runs ELSE {}), FALSE)
  /\ UNCHANGED <<viewOnly, list, disk, boxes, opened>>

(* textinput submit, with the handler OpenInputDialog chained: what the name *)
(* is for is done, then the dialog is closed, whether that failed or not.    *)
\* Mutant: the listing is not ordered after the rename.
SubmitRenameUnordered(name) ==
  /\ boxes # <<>> /\ CanPress
  /\ TopBox.kind = "rename"
  /\ LET f == TopBox.file
     IN  IF list \in Eager
         THEN /\ disk' = RenamedAtOnce(f, name)
              /\ Run({<<Refresh, CloseBox(TopBox.id)>>}, TRUE)
         ELSE /\ Run({RenameSteps(f, name) \o <<CloseBox(TopBox.id)>>, <<Refresh>>}, FALSE)
              /\ UNCHANGED disk
  /\ UNCHANGED <<viewOnly, list, boxes, opened>>

SubmitRename(name) ==
  /\ boxes # <<>> /\ CanPress
  /\ TopBox.kind = "rename"
  /\ LET f == TopBox.file
     IN  IF list \in Eager
         THEN /\ disk' = RenamedAtOnce(f, name)
              /\ Run({<<Refresh, CloseBox(TopBox.id)>>}, TRUE)
         ELSE /\ Run({RenameSteps(f, name) \o <<Refresh, CloseBox(TopBox.id)>>}, FALSE)
              /\ UNCHANGED disk
  /\ UNCHANGED <<viewOnly, list, boxes, opened>>

SubmitName(name) ==
  /\ boxes # <<>> /\ CanPress
  /\ TopBox.kind = "name"
  /\ Run(SaveCommands(TopBox.how, name, TopBox.id), FALSE)
  /\ UNCHANGED <<viewOnly, list, disk, boxes, opened>>

(* The keys of a form: both ask first (form.Save once the form is valid). *)
SaveForm(name) ==
  /\ boxes # <<>> /\ CanPress
  /\ TopBox.kind = "form"
  /\ AskFor(Box("confirm", TopBox.row, TopBox.file, {FormSteps(TopBox, name)}))
  /\ UNCHANGED <<viewOnly, list, disk, boxes, excused>>

DiscardForm ==
  /\ boxes # <<>> /\ CanPress
  /\ TopBox.kind = "form"
  /\ AskFor(Box("confirm", TopBox.row, TopBox.file, {<<CloseBox(TopBox.id)>>}))
  /\ UNCHANGED <<viewOnly, list, disk, boxes, excused>>

(* A back key closes every dialog but a form. *)
LeaveBox ==
  /\ boxes # <<>> /\ TopBox.kind # "form"
  /\ boxes' = Front(boxes)
  /\ UNCHANGED <<viewOnly, list, disk, commands, opened, excused>>

-----------------------------------------------------------------------------
(* A command in flight takes its next step. *)

Continued(cmd, skipped) ==
  LET left == SubSeq(cmd, 2 + skipped, Len(cmd))
  IN  (commands (-) SetToBag({cmd})) (+) (IF left = <<>> THEN EmptyBag ELSE SetToBag({left}))

RunDisk(cmd) ==
  LET s == Head(cmd)
  IN  /\ \/ s.do = "remove" /\ disk' \in Removals(s.path) /\ commands' = Continued(cmd, 0)
         \/ /\ s.do = "free" /\ disk' = disk
            /\ commands' = Continued(cmd, IF At(s.path) = {} THEN 0 ELSE s.skip)
         \/ /\ s.do = "file" /\ disk' = disk
            /\ commands' = Continued(cmd, IF At(s.path) # {} THEN 0 ELSE s.skip)
         \/ /\ s.do = "move" /\ commands' = Continued(cmd, 0)
            /\ disk' = IF At(s.path) = {} THEN disk ELSE Moved(disk, s.path, s.to)
         \/ /\ s.do \in {"write", "edit"} /\ commands' = Continued(cmd, 0)
            /\ \A f \in disk : f.age < MaxAge
            /\ disk' = (disk \ At(s.path)) \cup {Written(s.path)}
         \/ /\ s.do = "verify"
            /\ \/ disk' = disk /\ commands' = Continued(cmd, 0)
               \/ disk' = disk \ At(s.path) /\ commands' = Continued(cmd, s.skip)
      /\ UNCHANGED <<viewOnly, list, boxes, opened, excused>>

InFlight == {cmd \in BagToSet(commands) : Head(cmd).do \in {"load", "loaded"}}

(* crud Update: RefreshMsg starts a listing, which is a message when it is   *)
(* there, and then replaces the rows; a listing that fails leaves them.     *)
RunList(cmd) ==
  LET s == Head(cmd)
  IN  \/ /\ s.do = "refresh"
         /\ StartLoading
         /\ commands' = Continued(cmd, 0) (+) SetToBag({<<Load>>})
         /\ excused' = (excused \/ InFlight # {})
         /\ UNCHANGED disk
      \/ /\ s.do = "load"
         /\ commands' = (commands (-) SetToBag({cmd})) (+) SetToBag({<<Loaded(Listing)>>})
         /\ UNCHANGED <<viewOnly, disk, excused>>
      \/ /\ s.do = "load"
         /\ commands' = Continued(cmd, 0)
         /\ loading' = FALSE
         /\ excused' = TRUE
         /\ UNCHANGED <<items, view, cursor, disk>>
      \/ /\ s.do = "loaded"
         /\ commands' = Continued(cmd, 0)
         /\ ShowRows(s.rows)
         /\ UNCHANGED <<disk, excused>>

(* Dialogs open and close by messages; a form that closes has the list read. *)
RunBox(cmd) ==
  LET s == Head(cmd)
  IN  /\ \/ s.do = "open" /\ boxes' = Append(boxes, s.box) /\ commands' = Continued(cmd, 0)
         \/ /\ s.do = "close"
            /\ LET gone == {i \in DOMAIN boxes : boxes[i].id = s.id}
               IN  /\ boxes' = Retain(boxes, DOMAIN boxes \ gone)
                   /\ commands' = Continued(cmd, 0) (+)
                        (IF \E i \in gone : boxes[i].kind = "form"
                         THEN SetToBag({<<Refresh>>}) ELSE EmptyBag)
      /\ UNCHANGED <<viewOnly, disk, opened, excused>>

RunCommand ==
  \E cmd \in BagToSet(commands) :
    \/ RunDisk(cmd)
    \/ RunList(cmd) /\ UNCHANGED <<list, boxes, opened>>
    \/ RunBox(cmd) /\ UNCHANGED list

FilesNext ==
  \/ Browse
  \/ AskDelete
  \/ AskRename
  \/ SelectTunnel
  \/ AskAdd
  \/ \E yes \in BOOLEAN : Answer(yes)
  \/ \E n \in FileNames : SubmitRename(n) \/ SubmitName(n) \/ SaveForm(n)
  \/ DiscardForm
  \/ LeaveBox
  \/ RunCommand

FilesSpec == FilesInit /\ [][FilesNext]_fileVars

-----------------------------------------------------------------------------
Asking == ToSet(boxes) \cup
          UNION {{cmd[i].box : i \in {j \in DOMAIN cmd : cmd[j].do = "open"}} : cmd \in BagToSet(commands)}

Heads == {Head(cmd).do : cmd \in BagToSet(commands)}

(* A dialog asks about the file of the row the cursor was on, however the    *)
(* rows are ordered and filtered and whatever was renamed meanwhile, in the  *)
(* lists with one folder (crud/update.go, getSelected: the highlighted row   *)
(* to its underlying item).                                                 *)
ActsOnRow ==
  list \in {"ips", "outbounds"} => \A b \in Asking : b.file = b.row

(* The same of every list, as crud/provider.go has it: Identity returns a    *)
(* stable unique key for the item.                                          *)
IdentityIsUnique == \A b \in Asking : b.file = b.row

(* A file goes only by a command that is running: an answer, never a         *)
(* question, deletes it (confirm/msg.go: runs confirm when accepted).        *)
OnlyAgreed ==
  [][\/ Paths(disk) \subseteq Paths(disk')
     \/ Heads \cap {"remove", "move", "verify"} # {}]_fileVars

(* A list that refuses names in use loses what a file holds only to its      *)
(* deletion, to the form that edits it and to a save whose outcome does not  *)
(* validate, never to another file's saving or renaming (dns/store.go and    *)
(* xray/outbound.go: already exists).                                       *)
NamesKept ==
  [][\/ list \notin Refusing \/ excused'
     \/ Ages(disk) \subseteq Ages(disk')
     \/ Heads \cap {"remove", "edit", "verify"} # {}]_fileVars

(* Once everything asked for has run, the table shows what is on the disk:   *)
(* every change is followed by a listing that starts after it (crud/update.go *)
(* tea.Sequence).  An outbound's listing runs beside its saving.             *)
TableFresh ==
  (list # "outbounds" /\ ~excused /\ commands = EmptyBag /\ boxes = <<>>) => items = Listing
=============================================================================
