---------------------------- MODULE ScreenStack ----------------------------
(***************************************************************************)
(* The stack of screens of the workspace (ui/main/body): menus, tables and *)
(* the scan screen, with the slide that replaces one by another.           *)
(*                                                                         *)
(* With animations a popped screen stays on the stack, marked as closing,  *)
(* until a frame finds that its slide is over; frames are asked for by the *)
(* slide and by every frame that finds it unfinished.  The age of a slide  *)
(* and of a closing screen is abstracted to whether its duration passed.   *)
(* The closing mark of a screen and the slide its pop starts get the same  *)
(* time, so they get old together.                                         *)
(***************************************************************************)
EXTENDS Naturals, Sequences, SequencesExt, Retain

CONSTANT Main            \* the main menu, always at the bottom

VARIABLES
  screens,     \* the stack, the top last: [s |-> screen, closing |-> no/new/due]
  swap,        \* the running slide: [kind |-> none/open/close, old |-> BOOLEAN]
  ticks,       \* bodyFrameMsg ticks on their way
  closes,      \* how often OnClose of each screen ran
  animated,    \* the Animated setting
  panicked     \* an index out of range ended the program

screenVars == <<screens, swap, ticks, closes, animated, panicked>>

NoSwap == [kind |-> "none", old |-> TRUE]

ScreenInit(opened) ==
  /\ screens = <<[s |-> Main, closing |-> "no"]>> \o opened
  /\ swap = NoSwap
  /\ ticks = 0
  /\ closes = [s \in {} |-> 0]
  /\ animated \in BOOLEAN
  /\ panicked = FALSE

TopScreen == Last(screens)

(* Keys are dropped while a slide is running. *)
KeysBlocked == swap.kind # "none" /\ ~swap.old

Closed(ss) ==
  [s \in DOMAIN closes \cup ss |->
     (IF s \in DOMAIN closes THEN closes[s] ELSE 0) + (IF s \in ss THEN 1 ELSE 0)]

(* expire: the screens whose closing transition has finished, and the rest. *)
Staying == Retain(screens, {i \in DOMAIN screens : screens[i].closing # "due"})

Leaving == {screens[i].s : i \in {j \in DOMAIN screens : screens[j].closing = "due"}}

(* settleSwap: without a running slide nothing is removed. *)
AfterSettle == IF swap.kind = "none" THEN screens ELSE Staying

ClosedBySettle == IF swap.kind = "none" THEN {} ELSE Leaving

(* pushComponent *)
PushScreen(s) ==
  /\ screens' = Append(AfterSettle, [s |-> s, closing |-> "no"])
  /\ closes' = Closed(ClosedBySettle)
  /\ swap' = IF animated THEN [kind |-> "open", old |-> FALSE] ELSE NoSwap
  /\ ticks' = ticks + (IF animated THEN 1 ELSE 0)
  /\ UNCHANGED <<animated, panicked>>

(* Mutant: OnClose runs when the closing transition starts, and at its end. *)
PopScreenClosesEarly ==
  LET n == Len(screens)
  IN  /\ n > 1 /\ TopScreen.closing = "no" /\ n = Len(AfterSettle)
      /\ closes' = Closed({TopScreen.s})
      /\ IF animated
         THEN /\ screens' = [screens EXCEPT ![n].closing = "new"]
              /\ swap' = [kind |-> "close", old |-> FALSE]
              /\ ticks' = ticks + 1
         ELSE screens' = Front(screens) /\ UNCHANGED <<swap, ticks>>
      /\ UNCHANGED <<animated, panicked>>

(* popComponent.  The depth is read before settleSwap shortens the stack:   *)
(* when it does, the closing mark is written past the end.                  *)
PopScreen ==
  LET n == Len(screens)
  IN  IF n <= 1 \/ TopScreen.closing # "no"
      THEN UNCHANGED screenVars
      ELSE IF ~animated
      THEN /\ screens' = Front(screens)
           /\ closes' = Closed({TopScreen.s})
           /\ UNCHANGED <<swap, ticks, animated, panicked>>
      ELSE IF n > Len(AfterSettle)
      THEN /\ panicked' = TRUE
           /\ screens' = AfterSettle
           /\ closes' = Closed(ClosedBySettle)
           /\ swap' = NoSwap
           /\ UNCHANGED <<ticks, animated>>
      ELSE /\ screens' = [screens EXCEPT ![n].closing = "new"]
           /\ swap' = [kind |-> "close", old |-> FALSE]
           /\ ticks' = ticks + 1
           /\ UNCHANGED <<closes, animated, panicked>>

(* ResetComponentStacksMsg: back to the main menu, every other screen closed. *)
ResetStack ==
  /\ screens' = <<Head(screens)>>
  /\ closes' = Closed({screens[i].s : i \in 2..Len(screens)})
  /\ swap' = NoSwap
  /\ UNCHANGED <<ticks, animated, panicked>>

(* bodyFrameMsg.  expire compares with the time read at the start, the      *)
(* slide's end with the clock read later ("later": the duration passed in   *)
(* between).                                                                *)
ScreenFrame ==
  \E later \in {swap.old, TRUE} :
    /\ ticks > 0
    /\ screens' = Staying
    /\ closes' = Closed(Leaving)
    /\ swap' = IF later THEN NoSwap ELSE swap
    /\ ticks' = ticks - (IF swap.kind = "none" \/ later THEN 1 ELSE 0)
    /\ UNCHANGED <<animated, panicked>>

(* The next duration passes: marks and slides get old in the order in which *)
(* they started.  An older closing mark comes first; the mark of the top    *)
(* goes with the slide of its pop.                                          *)
ScreenElapse ==
  LET marks == {i \in DOMAIN screens : screens[i].closing = "new"}
      own == {i \in marks : i = Len(screens) /\ swap.kind = "close" /\ ~swap.old}
  IN  /\ UNCHANGED <<ticks, closes, animated, panicked>>
      /\ \/ \E i \in marks \ own :
              /\ \A j \in marks : i <= j
              /\ screens' = [screens EXCEPT ![i].closing = "due"]
              /\ UNCHANGED swap
         \/ /\ marks \subseteq own
            /\ KeysBlocked
            /\ screens' = [i \in DOMAIN screens |->
                             IF i \in own THEN [screens[i] EXCEPT !.closing = "due"]
                                          ELSE screens[i]]
            /\ swap' = [swap EXCEPT !.old = TRUE]

(* Every screen that left the stack had OnClose exactly once, and none that *)
(* is on it has (each screen is opened once).  body/update.go, all paths.   *)
ClosedOnce ==
  /\ \A s \in DOMAIN closes : closes[s] = 1
  /\ \A i \in DOMAIN screens : screens[i].s \notin DOMAIN closes
=============================================================================
