----------------------------- MODULE LogStream -----------------------------
(***************************************************************************)
(* The live log: the subscribers of a log file (logger/logger.go) and the  *)
(* viewer that shows it (ui/components/basic/logview/model.go).            *)
(*                                                                         *)
(* A viewer subscribes in a command of its own and reads the channel in a  *)
(* goroutine; it may be closed before, between and after those steps, and  *)
(* the program may close the logger at any time.  Lines are left out but   *)
(* for their number; the file and its rotation are not modelled.           *)
(***************************************************************************)
EXTENDS Naturals, FiniteSets

CONSTANTS
  Viewers,       \* the viewers that are opened
  Buffer,        \* lines a channel holds (maxBuffer)
  MaxLines       \* bound: lines that are logged

VARIABLES
  subs,          \* the channels of the logger, named after their viewer
  subClosed,     \* Close has closed the channels
  chans,         \* per viewer: [lines: waiting, closed: how often closed]
  sub,           \* per viewer, the Init command: idle, subscribed, done
  held,          \* loggerChan is set
  gone,          \* OnClose ran: the context is cancelled, "closed" is set
  reader,        \* per viewer: none, reading, over
  logged,        \* the number of lines logged
  writing        \* channels the running broadcast has still to try

logVars == <<subs, subClosed, chans, sub, held, gone, reader, logged, writing>>

LogInit ==
  /\ subs = {} /\ subClosed = FALSE
  /\ chans = [v \in Viewers |-> [lines |-> 0, closed |-> 0]]
  /\ sub = [v \in Viewers |-> "idle"]
  /\ held = {} /\ gone = {}
  /\ reader = [v \in Viewers |-> "none"]
  /\ logged = 0 /\ writing = {}

(* broadcast holds the read lock while it offers the line to each channel. *)
Locked == writing # {}

Broadcast ==
  /\ ~Locked
  /\ logged < MaxLines
  /\ logged' = logged + 1
  /\ writing' = subs
  /\ UNCHANGED <<subs, subClosed, chans, sub, held, gone, reader>>

(* A full channel drops the line. *)
Offer(v) ==
  /\ v \in writing
  /\ writing' = writing \ {v}
  /\ chans' = [chans EXCEPT ![v].lines = IF @ < Buffer THEN @ + 1 ELSE @]
  /\ UNCHANGED <<subs, subClosed, sub, held, gone, reader, logged>>

CloseChan(v) == [chans EXCEPT ![v].closed = @ + 1]

(* Subscribe; on a closed logger the channel comes back closed. *)
Subscribe(v) ==
  /\ sub[v] = "idle"
  /\ ~Locked
  /\ sub' = [sub EXCEPT ![v] = "subscribed"]
  /\ IF subClosed
     THEN chans' = CloseChan(v) /\ UNCHANGED subs
     ELSE subs' = subs \cup {v} /\ UNCHANGED chans
  /\ UNCHANGED <<subClosed, held, gone, reader, logged, writing>>

(* Unsubscribe: a channel the logger does not have any more is left alone. *)
Unsubscribe(v) ==
  /\ ~Locked
  /\ subs' = subs \ {v}
  /\ chans' = IF v \in subs THEN CloseChan(v) ELSE chans

(* Mutant: the command does not notice that the viewer was closed. *)
StartReaderUnchecked(v) ==
  /\ sub[v] = "subscribed"
  /\ sub' = [sub EXCEPT ![v] = "done"]
  /\ held' = held \cup {v}
  /\ reader' = [reader EXCEPT ![v] = "reading"]
  /\ UNCHANGED <<subs, subClosed, chans, gone, logged, writing>>

(* The rest of the Init command, under subMu. *)
StartReader(v) ==
  /\ sub[v] = "subscribed"
  /\ sub' = [sub EXCEPT ![v] = "done"]
  /\ IF v \in gone
     THEN Unsubscribe(v) /\ UNCHANGED <<held, reader>>
     ELSE /\ held' = held \cup {v}
          /\ reader' = [reader EXCEPT ![v] = "reading"]
          /\ UNCHANGED <<subs, chans>>
  /\ UNCHANGED <<subClosed, gone, logged, writing>>

(* readLogs: a line, or the end because of the context or the channel. *)
Read(v) ==
  /\ reader[v] = "reading"
  /\ chans[v].lines > 0
  /\ chans' = [chans EXCEPT ![v].lines = @ - 1]
  /\ UNCHANGED <<subs, subClosed, sub, held, gone, reader, logged, writing>>

EndReader(v) ==
  /\ reader[v] = "reading"
  /\ v \in gone \/ (chans[v].closed > 0 /\ chans[v].lines = 0)
  /\ reader' = [reader EXCEPT ![v] = "over"]
  /\ UNCHANGED <<subs, subClosed, chans, sub, held, gone, logged, writing>>

(* OnClose of the viewer, in the update loop. *)
CloseViewer(v) ==
  /\ v \notin gone
  /\ gone' = gone \cup {v}
  /\ held' = held \ {v}
  /\ IF v \in held THEN Unsubscribe(v) ELSE UNCHANGED <<subs, chans>>
  /\ UNCHANGED <<subClosed, sub, reader, logged, writing>>

(* Close of the logger; calling it again changes nothing. *)
CloseLogger ==
  /\ ~Locked
  /\ ~subClosed
  /\ subClosed' = TRUE
  /\ chans' = [v \in Viewers |->
                 IF v \in subs THEN [chans[v] EXCEPT !.closed = @ + 1] ELSE chans[v]]
  /\ subs' = {}
  /\ UNCHANGED <<sub, held, gone, reader, logged, writing>>

(* What the code does by itself; opening and closing are the user's. *)
LogProgress ==
  \/ \E v \in Viewers : Offer(v) \/ StartReader(v) \/ EndReader(v)

LogNext ==
  \/ LogProgress
  \/ Broadcast
  \/ CloseLogger
  \/ \E v \in Viewers : Subscribe(v) \/ Read(v) \/ CloseViewer(v)

LogSpec == LogInit /\ [][LogNext]_logVars

(* A channel is closed once, no line is offered to a closed channel, and a   *)
(* viewer that was closed and whose command ended has no subscription left,  *)
(* in whichever order closing, subscribing and shutting down came            *)
(* (logger.go, SubscriberCount: used by the UI to make sure views            *)
(* unsubscribe on close).                                                   *)
ViewsUnsubscribe ==
  \A v \in Viewers :
    /\ chans[v].closed <= 1
    /\ v \in writing => chans[v].closed = 0
    /\ v \in gone /\ sub[v] = "done" => v \notin subs
    /\ v \in subs => chans[v].closed = 0
=============================================================================
