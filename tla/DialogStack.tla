---------------------------- MODULE DialogStack ----------------------------
(***************************************************************************)
(* The stack of dialogs of the root model (ui/main/app/dialogs.go).        *)
(*                                                                         *)
(* A closed dialog stays on the stack until its exit transition has been   *)
(* played; only then does the command its opener set on closing run.  The  *)
(* transitions are paced by ticks: a tick is asked for when a transition   *)
(* starts and by every tick that still finds one, and after a tick that    *)
(* removed dialogs the next one waits for their commands (tea.Sequence).   *)
(*                                                                         *)
(* A transition's age is abstracted to whether its duration has passed.    *)
(* A dialog is a record with the fields "id", "does" (the command its      *)
(* opener set on closing) and "of" (the scan it is about).                 *)
(***************************************************************************)
EXTENDS Naturals, Sequences, SequencesExt, Retain

VARIABLES
  layers,    \* the dialogs, the top one last, each with its transition "at"
  dticks,    \* dialogFrameMsg ticks on their way
  chains,    \* running tea.Sequences: close commands and the tick after them
  fired      \* how often the closing command of each dialog has been started

dialogVars == <<layers, dticks, chains, fired>>

DialogInit ==
  /\ layers = <<>>
  /\ dticks = 0
  /\ chains = {}
  /\ fired = [d \in {} |-> 0]

Closing(l) == l.at \in {"closing", "closed"}

Settled(l) == l.at \in {"open", "closed"}

HasDialog == layers # <<>>

TopLayer == Last(layers)

(* dialogs.go, push: the open transition starts, with a tick to pace it. *)
PushDialog(d) ==
  /\ layers' = Append(layers, [d |-> d, at |-> "opening"])
  /\ dticks' = dticks + 1
  /\ UNCHANGED <<chains, fired>>

(* Mutant: the exit animation is left to the ticks that are on their way. *)
BeginCloseUnpaced(i) ==
  IF Closing(layers[i])
  THEN UNCHANGED dialogVars
  ELSE /\ layers' = [layers EXCEPT ![i].at = "closing"]
       /\ UNCHANGED <<dticks, chains, fired>>

(* dialogs.go, beginClose: a dialog that is already leaving is left alone. *)
BeginClose(i) ==
  IF Closing(layers[i])
  THEN UNCHANGED dialogVars
  ELSE /\ layers' = [layers EXCEPT ![i].at = "closing"]
       /\ dticks' = dticks + 1
       /\ UNCHANGED <<chains, fired>>

BeginCloseTop == BeginClose(Len(layers))

(* The first layer with that id; an id no layer has changes nothing. *)
BeginCloseById(id) ==
  LET named == {i \in DOMAIN layers : layers[i].d.id = id}
  IN  IF named = {} THEN UNCHANGED dialogVars
      ELSE \E i \in named : (\A j \in named : i <= j) /\ BeginClose(i)

(* The duration of a layer's transition passes. *)
LayerElapse(i) ==
  /\ ~Settled(layers[i])
  /\ layers' = [layers EXCEPT ![i].at = IF @ = "opening" THEN "open" ELSE "closed"]
  /\ UNCHANGED <<dticks, chains, fired>>

(* The layers a frame keeps, the commands of those it removes. *)
Kept == Retain(layers, {i \in DOMAIN layers : layers[i].at # "closed"})

Deferred ==
  Retain([i \in DOMAIN layers |-> layers[i].d],
         {i \in DOMAIN layers : layers[i].at = "closed" /\ layers[i].d.does # "nothing"})

Animating(ls) == \E i \in DOMAIN ls : ~Settled(ls[i])

(* update.go, dialogFrameMsg: expire, then another tick if something still  *)
(* moves, in one sequence after the commands of the removed dialogs.        *)
DialogFrame ==
  /\ dticks > 0
  /\ layers' = Kept
  /\ IF Deferred = <<>>
     THEN /\ dticks' = dticks - 1 + (IF Animating(Kept) THEN 1 ELSE 0)
          /\ UNCHANGED chains
     ELSE /\ dticks' = dticks - 1
          /\ chains' = chains \cup {[todo |-> Deferred, tick |-> Animating(Kept)]}
  /\ UNCHANGED fired

(* The next command of a sequence runs to its end; the tick comes last. *)
RunCloseCmd(c) ==
  LET rest == Tail(c.todo)
      id == Head(c.todo).id
  IN  /\ c \in chains
      /\ fired' = [d \in DOMAIN fired \cup {id} |->
                     (IF d \in DOMAIN fired THEN fired[d] ELSE 0) + (IF d = id THEN 1 ELSE 0)]
      /\ chains' = (chains \ {c}) \cup
                     (IF rest = <<>> THEN {} ELSE {[c EXCEPT !.todo = rest]})
      /\ dticks' = dticks + (IF rest = <<>> /\ c.tick THEN 1 ELSE 0)
      /\ UNCHANGED layers
=============================================================================
