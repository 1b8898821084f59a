--------------------------- MODULE InterfaceProofs ---------------------------
(***************************************************************************)
(* Proofs about the parts of the user interface: the start of the program, *)
(* for any list of checks and any number of reports; the live log, for any *)
(* number of viewers, lines and places in a channel; the forms of the      *)
(* tunnels, for every stored configuration, any values entered and any     *)
(* number of visits; the update loop with its stacks of dialogs and        *)
(* screens, for any menus and scans and any messages in flight; the lists  *)
(* of files, for any files, filters, dialogs and commands in flight.       *)
(***************************************************************************)
EXTENDS Application, StartupChecks, LogStream, TunnelForm, FileTables, SequenceFacts

(***************************************************************************)
(* The start of the program.  A critical failure is in the log or on the   *)
(* screen from the moment it happens, so an empty, closed log on a screen  *)
(* without one means that every category passed.                           *)
(***************************************************************************)

Status == {"running", "ok", "warn", "error"}

LogMsg == [type : {"log", "critical", "end"}, cat : DOMAIN Categories, status : Status]

StartTypeOK ==
  /\ page \in {"splash", "startup", "workspace"}
  /\ checker \in {"idle", "check", "aborted", "finished", "over"}
  /\ cat \in DOMAIN Categories
  /\ reports \in Nat
  /\ worst \in Status
  /\ logCh \in Seq(LogMsg)
  /\ logChClosed \in BOOLEAN /\ listening \in BOOLEAN /\ config \in BOOLEAN
  /\ checked \in BOOLEAN /\ fatal \in BOOLEAN
  /\ shown \in [DOMAIN Categories -> Status]
  /\ doneMsgs \in [splash : Nat, checks : Nat]

(* A critical failure is on its way to the screen. *)
CriticalSent == \E i \in DOMAIN logCh : logCh[i].type = "critical"

(* Every category was checked, the configuration among them. *)
AllPassed == cat = Len(Categories) /\ config

(* The checks go in order, and end because all passed or one was critical.  *)
Progress ==
  /\ page = "splash" => checker = "idle" /\ ~fatal /\ ~checked /\ ~listening
  /\ \A i \in DOMAIN Categories : i < cat /\ Categories[i] = ConfigCheck => config
  /\ logChClosed <=> checker = "over"
  /\ checker = "finished" => AllPassed
  /\ checker = "aborted" => fatal \/ CriticalSent
  /\ checker = "over" => fatal \/ CriticalSent \/ AllPassed

(* The end of the log is seen once, and only where nothing critical was:     *)
(* after a critical message nobody listens, and after the end neither.       *)
EndSeen ==
  /\ fatal => ~listening /\ ~checked
  /\ checked => ~listening /\ logCh = <<>> /\ logChClosed

(* Who asks for the workspace has seen the end of the log. *)
AskedAfter == page = "workspace" \/ doneMsgs.checks > 0 => checked

StartInv == StartTypeOK /\ Progress /\ EndSeen /\ AskedAfter

LEMMA StartInitially == StartupInit => StartInv
<1> SUFFICES ASSUME StartupInit PROVE StartInv
  OBVIOUS
<1>1. 1 \in DOMAIN Categories /\ ~\E i \in DOMAIN Categories : i < 1
  BY CategoriesAssumption
<1>2. logCh \in Seq(LogMsg)
  BY EmptySeq DEF StartupInit
<1>3. shown \in [DOMAIN Categories -> Status] /\ doneMsgs \in [splash : Nat, checks : Nat]
  BY DEF StartupInit, Status
<1>4. StartTypeOK
  BY <1>1, <1>2, <1>3 DEF StartupInit, StartTypeOK, Status
<1> QED
  BY <1>1, <1>3, <1>4 DEF StartupInit, StartInv, Progress, EndSeen, AskedAfter

(* A send appends one message to the log. *)
LEMMA SendKeeps ==
  ASSUME StartTypeOK, NEW m \in LogMsg, SendLog(m)
  PROVE  /\ logCh' \in Seq(LogMsg)
         /\ logCh' # <<>>
         /\ CriticalSent => CriticalSent'
         /\ m.type = "critical" => CriticalSent'
<1> USE DEF StartTypeOK
<1>1. logCh' = Append(logCh, m)
  BY DEF SendLog
<1>2. /\ Len(logCh') = Len(logCh) + 1
      /\ \A i \in DOMAIN logCh : logCh'[i] = logCh[i]
      /\ logCh'[Len(logCh) + 1] = m
      /\ logCh' \in Seq(LogMsg)
  BY <1>1, AppendProperties
<1>3. DOMAIN logCh \subseteq DOMAIN logCh' /\ Len(logCh) + 1 \in DOMAIN logCh'
  BY <1>2, LenProperties
<1> QED
  BY <1>2, <1>3 DEF CriticalSent

(* A message the listener takes. *)
LEMMA TakeKeeps ==
  ASSUME StartTypeOK, logCh # <<>>, logCh' = Tail(logCh)
  PROVE  /\ logCh' \in Seq(LogMsg)
         /\ Head(logCh) \in LogMsg
         /\ CriticalSent => CriticalSent' \/ Head(logCh).type = "critical"
<1> USE DEF StartTypeOK
<1>1. /\ Len(logCh') = Len(logCh) - 1
      /\ \A i \in 1 .. Len(logCh') : logCh'[i] = logCh[i + 1]
      /\ Head(logCh) = logCh[1] /\ Head(logCh) \in LogMsg
      /\ logCh' \in Seq(LogMsg)
  BY HeadTailProperties
<1>2. ASSUME NEW i \in DOMAIN logCh, logCh[i].type = "critical", i # 1 PROVE CriticalSent'
  <2>1. i - 1 \in DOMAIN logCh' /\ logCh'[i - 1] = logCh[i]
    BY <1>1, <1>2, LenProperties
  <2> QED
    BY <2>1, <1>2 DEF CriticalSent
<1> QED
  BY <1>1, <1>2 DEF CriticalSent

LEMMA StartInductive == StartInv /\ [StartupNext]_startVars => StartInv'
<1> SUFFICES ASSUME StartInv, [StartupNext]_startVars PROVE StartInv'
  OBVIOUS
<1> USE DEF StartInv, Progress, EndSeen, AskedAfter
<1>1. CASE SplashDone
  <2>1. StartTypeOK'
    BY <1>1 DEF SplashDone, StartTypeOK
  <2> QED
    BY <1>1, <2>1 DEF SplashDone, CriticalSent, AllPassed, StartTypeOK
<1>2. CASE EnterStartup
  <2>1. doneMsgs' \in [splash : Nat, checks : Nat] /\ doneMsgs'.checks = doneMsgs.checks
    BY <1>2 DEF EnterStartup, StartTypeOK
  <2>2. /\ page' \in {"splash", "startup", "workspace"} /\ listening' \in BOOLEAN
        /\ checker' \in {"idle", "check", "aborted", "finished", "over"}
    BY <1>2 DEF EnterStartup, StartTypeOK
  <2>3. StartTypeOK'
    BY <1>2, <2>1, <2>2 DEF EnterStartup, StartTypeOK
  <2> QED
    BY <1>2, <2>1, <2>3 DEF EnterStartup, CriticalSent, AllPassed, StartTypeOK
<1>3. ASSUME NEW status \in Status, Report(status) PROVE StartInv'
  <2>1. [type |-> "log", cat |-> cat, status |-> status] \in LogMsg
    BY DEF LogMsg, StartTypeOK
  <2>2. logCh' \in Seq(LogMsg)
    BY <1>3, <2>1, SendKeeps DEF Report
  <2>3. StartTypeOK'
    BY <1>3, <2>2 DEF Report, StartTypeOK
  <2> QED
    BY <1>3, <2>3 DEF Report, AllPassed
<1>4. CASE Critical
  <2>1. [type |-> "critical", cat |-> cat, status |-> "error"] \in LogMsg
    BY DEF LogMsg, StartTypeOK, Status
  <2>2. logCh' \in Seq(LogMsg) /\ CriticalSent'
    BY <1>4, <2>1, SendKeeps DEF Critical
  <2>3. StartTypeOK'
    BY <1>4, <2>2 DEF Critical, StartTypeOK
  <2> QED
    BY <1>4, <2>2, <2>3 DEF Critical, AllPassed
<1>5. CASE DeliverConfig
  <2>1. StartTypeOK'
    BY <1>5 DEF DeliverConfig, StartTypeOK
  <2> QED
    BY <1>5, <2>1 DEF DeliverConfig, AllPassed, CriticalSent
<1>6. CASE EndCategory
  <2>1. [type |-> "end", cat |-> cat, status |-> worst] \in LogMsg
    BY DEF LogMsg, StartTypeOK
  <2>2. logCh' \in Seq(LogMsg)
    BY <1>6, <2>1, SendKeeps DEF EndCategory
  <2>3. cat' \in DOMAIN Categories /\ (cat' # cat => cat' = cat + 1)
    BY <1>6, CategoriesAssumption DEF EndCategory, StartTypeOK
  <2>4. StartTypeOK'
    BY <1>6, <2>2, <2>3 DEF EndCategory, StartTypeOK, Status
  <2>5. \A i \in DOMAIN Categories : i <= cat /\ Categories[i] = ConfigCheck => config
    BY <1>6, CategoriesAssumption DEF EndCategory, StartTypeOK
  <2>6. \A i \in DOMAIN Categories : i < cat' /\ Categories[i] = ConfigCheck => config'
    BY <1>6, <2>3, <2>5, CategoriesAssumption DEF EndCategory, StartTypeOK
  <2>7. checker' = "finished" => AllPassed'
    <3> SUFFICES ASSUME checker' = "finished" PROVE AllPassed'
      OBVIOUS
    <3>1. cat' = cat /\ cat = Len(Categories)
      BY <1>6, CategoriesAssumption DEF EndCategory, StartTypeOK
    <3>2. PICK i \in DOMAIN Categories : Categories[i] = ConfigCheck
      BY CategoriesAssumption
    <3>3. config
      BY <2>5, <3>1, <3>2, CategoriesAssumption
    <3> QED
      BY <1>6, <3>1, <3>3 DEF AllPassed, EndCategory
  <2> QED
    BY <1>6, <2>4, <2>6, <2>7 DEF EndCategory
<1>7. CASE CloseLogCh
  <2>1. StartTypeOK'
    BY <1>7 DEF CloseLogCh, StartTypeOK
  <2> QED
    BY <1>7, <2>1 DEF CloseLogCh, AllPassed, CriticalSent
<1>8. CASE Listen
  <2>1. CASE logCh # <<>>
    <3>1. logCh' = Tail(logCh) /\ UNCHANGED checked
      BY <1>8, <2>1 DEF Listen
    <3>2. /\ logCh' \in Seq(LogMsg)
          /\ Head(logCh) \in LogMsg
          /\ CriticalSent => CriticalSent' \/ Head(logCh).type = "critical"
      BY <2>1, <3>1, TakeKeeps
    <3>3. shown' \in [DOMAIN Categories -> Status]
      BY <1>8, <2>1, <3>2 DEF Listen, StartTypeOK, LogMsg
    <3>4. fatal' = (fatal \/ Head(logCh).type = "critical")
          /\ listening' = (Head(logCh).type # "critical")
      BY <1>8, <2>1 DEF Listen
    <3>5. StartTypeOK'
      BY <1>8, <3>1, <3>2, <3>3, <3>4 DEF Listen, StartTypeOK
    <3> QED
      BY <1>8, <2>1, <3>1, <3>2, <3>4, <3>5 DEF Listen, AllPassed
  <2>2. CASE logCh = <<>> /\ logChClosed
    <3>1. StartTypeOK'
      BY <1>8, <2>2 DEF Listen, StartTypeOK
    <3> QED
      BY <1>8, <2>2, <3>1 DEF Listen, AllPassed, CriticalSent
  <2> QED
    BY <1>8, <2>1, <2>2 DEF Listen
<1>9. CASE Continue
  <2>1. StartTypeOK'
    BY <1>9 DEF Continue, StartTypeOK
  <2> QED
    BY <1>9, <2>1 DEF Continue, AllPassed, CriticalSent
<1>10. CASE EnterWorkspace
  <2>1. StartTypeOK'
    BY <1>10 DEF EnterWorkspace, StartTypeOK
  <2> QED
    BY <1>10, <2>1 DEF EnterWorkspace, AllPassed, CriticalSent
<1>11. CASE UNCHANGED startVars
  <2>1. StartTypeOK'
    BY <1>11 DEF startVars, StartTypeOK
  <2> QED
    BY <1>11, <2>1 DEF startVars, AllPassed, CriticalSent
<1> QED
  BY <1>1, <1>2, <1>3, <1>4, <1>5, <1>6, <1>7, <1>8, <1>9, <1>10, <1>11
     DEF StartupNext, StartupProgress, Status

(* Every variable of the start of the program keeps its type. *)
THEOREM StartTypeCorrect == StartupSpec => []StartTypeOK
<1>1. StartInv => StartTypeOK
  BY DEF StartInv
<1> QED
  BY <1>1, StartInitially, StartInductive, PTL DEF StartupSpec

(* Whatever the checks report and however often "continue" is pressed, the   *)
(* workspace is entered only with a configuration, after every category was  *)
(* checked, and never after a critical failure.                             *)
THEOREM WorkspaceReadyAlways == StartupSpec => []WorkspaceReady
<1>1. StartInv => WorkspaceReady
  <2> SUFFICES ASSUME StartInv, page = "workspace"
               PROVE  config /\ ~fatal /\ checker = "over" /\ cat = Len(Categories)
    BY DEF WorkspaceReady
  <2>1. checked /\ ~fatal /\ logCh = <<>> /\ checker = "over"
    BY DEF StartInv, AskedAfter, EndSeen, Progress, StartTypeOK
  <2>2. ~CriticalSent
    BY <2>1 DEF CriticalSent
  <2> QED
    BY <2>1, <2>2 DEF StartInv, Progress, AllPassed
<1> QED
  BY <1>1, StartInitially, StartInductive, PTL DEF StartupSpec

-----------------------------------------------------------------------------
(***************************************************************************)
(* The live log: closed viewers leave no subscription behind.              *)
(***************************************************************************)
LogTypeOK ==
  /\ subs \subseteq Viewers /\ held \subseteq Viewers /\ gone \subseteq Viewers
  /\ writing \subseteq Viewers
  /\ subClosed \in BOOLEAN
  /\ chans \in [Viewers -> [lines : Nat, closed : Nat]]
  /\ sub \in [Viewers -> {"idle", "subscribed", "done"}]
  /\ reader \in [Viewers -> {"none", "reading", "over"}]
  /\ logged \in Nat

(* What makes ViewsUnsubscribe inductive: a broadcast only offers to          *)
(* channels the logger still has, because it holds the lock; a channel is   *)
(* subscribed from the moment it exists until it is closed; and a viewer    *)
(* whose command ended either holds its channel or was closed.              *)
ChannelLife ==
  /\ writing \subseteq subs
  /\ \A v \in Viewers :
       /\ sub[v] = "idle" => chans[v].closed = 0 /\ v \notin subs
       /\ v \in subs => chans[v].closed = 0
       /\ chans[v].closed <= 1
       /\ sub[v] = "done" => (v \in held <=> v \notin gone)
       /\ v \in held => sub[v] = "done"
       /\ v \in gone /\ sub[v] = "done" => v \notin subs

LogInv == LogTypeOK /\ ChannelLife

LEMMA LogInitially == LogInit => LogInv
<1> SUFFICES ASSUME LogInit PROVE LogInv
  OBVIOUS
<1>1. \A v \in Viewers :
        chans[v].closed = 0 /\ sub[v] = "idle" /\ v \notin held /\ v \notin subs
  BY DEF LogInit
<1>2. LogTypeOK
  BY DEF LogInit, LogTypeOK
<1>3. ChannelLife
  BY <1>1 DEF LogInit, ChannelLife
<1> QED
  BY <1>2, <1>3 DEF LogInv

(* The type of the record of channels after one of them is closed.          *)
LEMMA ClosedType ==
  ASSUME LogTypeOK, NEW v \in Viewers
  PROVE  /\ CloseChan(v) \in [Viewers -> [lines : Nat, closed : Nat]]
         /\ CloseChan(v)[v].closed = chans[v].closed + 1
         /\ \A u \in Viewers \ {v} : CloseChan(v)[u] = chans[u]
  BY DEF LogTypeOK, CloseChan

LEMMA LogInductive == LogInv /\ [LogNext]_logVars => LogInv'
<1> SUFFICES ASSUME LogInv, [LogNext]_logVars PROVE LogInv'
  OBVIOUS
<1> USE DEF LogInv, LogTypeOK, ChannelLife
<1>1. CASE UNCHANGED logVars
  BY <1>1 DEF logVars
<1>2. CASE Broadcast
  BY <1>2 DEF Broadcast
<1>3. ASSUME NEW v \in Viewers, Offer(v) PROVE LogInv'
  <2>1. chans' \in [Viewers -> [lines : Nat, closed : Nat]]
    BY <1>3 DEF Offer
  <2>2. \A u \in Viewers : chans'[u].closed = chans[u].closed
    BY <1>3 DEF Offer
  <2>3. /\ writing' \subseteq writing
        /\ UNCHANGED <<subs, subClosed, sub, held, gone, reader, logged>>
    BY <1>3 DEF Offer
  <2> QED
    BY <2>1, <2>2, <2>3
<1>4. ASSUME NEW v \in Viewers, StartReader(v) PROVE LogInv'
  <2>1. CASE v \in gone /\ v \in subs
    <3>1. chans' = CloseChan(v) /\ subs' = subs \ {v} /\ writing = {}
      BY <1>4, <2>1 DEF StartReader, Unsubscribe, Locked
    <3> QED
      BY <1>4, <2>1, <3>1, ClosedType DEF StartReader
  <2>2. CASE v \in gone /\ v \notin subs
    BY <1>4, <2>2 DEF StartReader, Unsubscribe
  <2>3. CASE v \notin gone
    BY <1>4, <2>3 DEF StartReader
  <2> QED
    BY <2>1, <2>2, <2>3
<1>5. ASSUME NEW v \in Viewers, EndReader(v) PROVE LogInv'
  BY <1>5 DEF EndReader
<1>6. CASE CloseLogger
  <2>1. writing = {} /\ writing' = {} /\ subs' = {}
    BY <1>6 DEF CloseLogger, Locked
  <2>2. chans' \in [Viewers -> [lines : Nat, closed : Nat]]
    BY <1>6 DEF CloseLogger
  <2>3. \A u \in Viewers :
          chans'[u].closed = IF u \in subs THEN chans[u].closed + 1 ELSE chans[u].closed
    BY <1>6 DEF CloseLogger
  <2> QED
    BY <1>6, <2>1, <2>2, <2>3 DEF CloseLogger
<1>7. ASSUME NEW v \in Viewers, Subscribe(v) PROVE LogInv'
  <2>1. CASE subClosed
    <3>1. chans' = CloseChan(v) /\ UNCHANGED subs
      BY <1>7, <2>1 DEF Subscribe
    <3> QED
      BY <1>7, <3>1, ClosedType DEF Subscribe
  <2>2. CASE ~subClosed
    BY <1>7, <2>2 DEF Subscribe
  <2> QED
    BY <2>1, <2>2
<1>8. ASSUME NEW v \in Viewers, Read(v) PROVE LogInv'
  <2>1. chans' \in [Viewers -> [lines : Nat, closed : Nat]]
    BY <1>8 DEF Read
  <2>2. \A u \in Viewers : chans'[u].closed = chans[u].closed
    BY <1>8 DEF Read
  <2> QED
    BY <1>8, <2>1, <2>2 DEF Read
<1>9. ASSUME NEW v \in Viewers, CloseViewer(v) PROVE LogInv'
  <2>1. CASE v \in held /\ v \in subs
    <3>1. chans' = CloseChan(v) /\ subs' = subs \ {v} /\ writing = {}
      BY <1>9, <2>1 DEF CloseViewer, Unsubscribe, Locked
    <3> QED
      BY <1>9, <2>1, <3>1, ClosedType DEF CloseViewer
  <2>2. CASE v \in held /\ v \notin subs
    BY <1>9, <2>2 DEF CloseViewer, Unsubscribe
  <2>3. CASE v \notin held
    BY <1>9, <2>3 DEF CloseViewer
  <2> QED
    BY <2>1, <2>2, <2>3
<1> QED
  BY <1>1, <1>2, <1>3, <1>4, <1>5, <1>6, <1>7, <1>8, <1>9 DEF LogNext, LogProgress

(* Every variable of the live log keeps its type.                           *)
THEOREM LogTypeCorrect == LogSpec => []LogTypeOK
<1>1. LogInv => LogTypeOK
  BY DEF LogInv
<1> QED
  BY <1>1, LogInitially, LogInductive, PTL DEF LogSpec

(* However opening, closing, logging and shutting down interleave, a channel *)
(* is closed at most once, a line is only offered to an open channel, and a *)
(* closed viewer has no subscription once its command ended.                *)
THEOREM ViewsUnsubscribeAlways == LogSpec => []ViewsUnsubscribe
<1>1. LogInv => ViewsUnsubscribe
  BY DEF LogInv, LogTypeOK, ChannelLife, ViewsUnsubscribe
<1> QED
  BY <1>1, LogInitially, LogInductive, PTL DEF LogSpec

-----------------------------------------------------------------------------
(***************************************************************************)
(* The forms: what the list shows is what will be saved.  The argument: an *)
(* input and its snapshot hold the configuration's value unless the field  *)
(* was left with escape, and a port that a choice sets is in the tab of the*)
(* choice, so its snapshot is taken again with it.                         *)
(***************************************************************************)
Holds(values) == \A f \in DOMAIN cfg : values[f] # cfg[f] => f \in left

FormInv ==
  /\ protocol \in Protocols
  /\ group \in DOMAIN Groups
  /\ cfg = [f \in DOMAIN cfg |-> cfg[f]]
  /\ input = [f \in DOMAIN cfg |-> input[f]]
  /\ snapshot = [f \in DOMAIN cfg |-> snapshot[f]]
  /\ Holds(input) /\ Holds(snapshot)

(* The port that a choice sets is listed in the tab of the choice.           *)
LEMMA PortInTab ==
  ASSUME protocol \in Protocols, NEW g \in DOMAIN Groups
  PROVE  /\ "resolver_type" \in Groups[g] => "resolver_port" \in Groups[g]
         /\ "proxy_type" \in Groups[g] => "proxy_port" \in Groups[g]
<1>1. CASE protocol = "vaydns"
  BY <1>1 DEF Groups, VayDNSGroups, Proxy, ProxyDefault
<1>2. CASE protocol = "dnstt"
  BY <1>2 DEF Groups, DNSTTGroups, Proxy, ProxyDefault
<1>3. CASE protocol = "slipstream"
  BY <1>3 DEF Groups, SlipstreamGroups, Proxy, ProxyDefault
<1>4. CASE protocol = "masterdns"
  BY <1>4 DEF Groups, MasterDNSGroups, MasterDNSDefault
<1>5. CASE protocol = "stormdns"
  BY <1>5 DEF Groups, StormDNSGroups, StormDNSDefault
<1>6. CASE protocol = "thefeed"
  BY <1>6 DEF Groups, TheFeedGroups, TheFeedDefault
<1> QED
  BY <1>1, <1>2, <1>3, <1>4, <1>5, <1>6, ProtocolsAssumption

LEMMA FormInitially == FormInit => FormInv
<1> SUFFICES ASSUME FormInit PROVE FormInv
  OBVIOUS
<1>1. protocol \in Protocols /\ group = 1
  BY DEF FormInit
<1>2. 1 \in DOMAIN Groups
  BY <1>1, ProtocolsAssumption DEF Groups, VayDNSGroups, DNSTTGroups, SlipstreamGroups,
     MasterDNSGroups, StormDNSGroups, TheFeedGroups
<1>3. cfg = [f \in DOMAIN cfg |-> cfg[f]] /\ input = cfg /\ snapshot = cfg
  BY DEF FormInit
<1> QED
  BY <1>1, <1>2, <1>3 DEF FormInv, Holds

(* A port goes into the configuration and into its input alike.              *)
LEMMA PortsGoTogether ==
  ASSUME FormInv, NEW f \in DOMAIN cfg, NEW v
  PROVE  /\ DOMAIN Ports(f, v) \subseteq DOMAIN cfg
         /\ DOMAIN Changed(f, v) = DOMAIN cfg /\ DOMAIN Inputs(f, v) = DOMAIN cfg
         /\ Changed(f, v) = [g \in DOMAIN cfg |-> Changed(f, v)[g]]
         /\ Inputs(f, v) = [g \in DOMAIN cfg |-> Inputs(f, v)[g]]
         /\ \A g \in DOMAIN cfg :
              IF g = f \/ g \in DOMAIN Ports(f, v)
                THEN Inputs(f, v)[g] = Changed(f, v)[g]
                ELSE Inputs(f, v)[g] = input[g] /\ Changed(f, v)[g] = cfg[g]
         /\ \A g \in DOMAIN Ports(f, v) :
              <<f, g>> \in {<<"resolver_type", "resolver_port">>, <<"proxy_type", "proxy_port">>}
<1> DEFINE R == {"resolver_port"} \cap {h \in DOMAIN cfg : f = "resolver_type" /\ v # cfg[f]}
           P == {"proxy_port"} \cap {h \in DOMAIN cfg : f = "proxy_type" /\ v # cfg[f]}
           new == Ports(f, v)
<1>1. DOMAIN new = R \cup P /\ new = [g \in DOMAIN new |-> new[g]]
  BY DEF Ports, ResolverPort, ProxyPort
<1>2. R \subseteq DOMAIN cfg /\ P \subseteq DOMAIN cfg
  OBVIOUS
<1>3. \A g \in R \cup P :
        <<f, g>> \in {<<"resolver_type", "resolver_port">>, <<"proxy_type", "proxy_port">>}
  OBVIOUS
<1>4. DOMAIN new \subseteq DOMAIN cfg
  BY <1>1, <1>2
<1> HIDE DEF new, R, P
<1>5. Changed(f, v) = [g \in DOMAIN cfg |-> IF g \in DOMAIN new THEN new[g]
                                            ELSE IF g = f THEN v ELSE cfg[g]]
  BY <1>1, <1>4 DEF Changed, Put, FormInv, new
<1>6. Inputs(f, v) = [g \in DOMAIN cfg |-> IF g \in DOMAIN new THEN new[g]
                                           ELSE IF g = f THEN v ELSE input[g]]
  BY <1>1, <1>4 DEF Inputs, Put, FormInv, new
<1> QED
  BY <1>1, <1>3, <1>4, <1>5, <1>6 DEF new

LEMMA SubmitKeeps ==
  ASSUME FormInv, NEW f \in DOMAIN cfg, NEW v, Submit(f, v)
  PROVE  FormInv'
<1> DEFINE new == Ports(f, v)
           c == Changed(f, v)
           i == Inputs(f, v)
<1>1. /\ cfg' = c /\ input' = i /\ snapshot' = Snapshots(i) /\ left' = left \ ({f} \cup DOMAIN new)
      /\ f \in Groups[group] /\ UNCHANGED <<protocol, group>>
  BY DEF Submit, Opens
<1>2. protocol' \in Protocols /\ group' \in DOMAIN Groups'
  BY <1>1 DEF FormInv, Groups
<1>3. DOMAIN new \subseteq Groups[group]
  BY <1>1, PortsGoTogether, PortInTab DEF FormInv
<1>4. /\ DOMAIN c = DOMAIN cfg /\ DOMAIN i = DOMAIN cfg
      /\ c = [g \in DOMAIN cfg |-> c[g]] /\ i = [g \in DOMAIN cfg |-> i[g]]
      /\ \A g \in DOMAIN cfg : IF g = f \/ g \in DOMAIN new
                                 THEN i[g] = c[g] ELSE i[g] = input[g] /\ c[g] = cfg[g]
  BY PortsGoTogether
<1> HIDE DEF new, c, i
<1>5. snapshot' = [g \in DOMAIN cfg |-> IF g \in Groups[group] THEN i[g] ELSE snapshot[g]]
  BY <1>1 DEF Snapshots, FormInv
<1>6. ASSUME NEW g \in DOMAIN cfg PROVE input'[g] # cfg'[g] => g \in left'
  BY <1>1, <1>4 DEF FormInv, Holds
<1>7. ASSUME NEW g \in DOMAIN cfg PROVE snapshot'[g] # cfg'[g] => g \in left'
  BY <1>1, <1>3, <1>4, <1>5 DEF FormInv, Holds
<1>8. DOMAIN cfg' = DOMAIN cfg
  BY <1>1, <1>4
<1>9. Holds(input)' /\ Holds(snapshot)'
  BY <1>6, <1>7, <1>8 DEF Holds
<1>10. /\ cfg' = [g \in DOMAIN cfg' |-> cfg'[g]]
       /\ input' = [g \in DOMAIN cfg' |-> input'[g]]
       /\ snapshot' = [g \in DOMAIN cfg' |-> snapshot'[g]]
  BY <1>1, <1>4, <1>5, <1>8
<1> QED
  BY <1>2, <1>9, <1>10 DEF FormInv

LEMMA LeaveKeeps ==
  ASSUME FormInv, NEW f \in DOMAIN cfg, NEW v, Leave(f, v)
  PROVE  FormInv'
<1>1. /\ input' = [input EXCEPT ![f] = v]
      /\ left' = IF v = snapshot[f] THEN left ELSE left \cup {f}
      /\ UNCHANGED <<protocol, cfg, snapshot, group>>
  BY DEF Leave
<1>2. protocol' \in Protocols /\ group' \in DOMAIN Groups'
  BY <1>1 DEF FormInv, Groups
<1>3. input' = [g \in DOMAIN cfg |-> IF g = f THEN v ELSE input[g]]
  BY <1>1 DEF FormInv
<1>4. Holds(input)'
  BY <1>1, <1>3 DEF FormInv, Holds
<1>5. Holds(snapshot)'
  BY <1>1 DEF FormInv, Holds
<1> QED
  BY <1>1, <1>2, <1>3, <1>4, <1>5 DEF FormInv

LEMMA FormInductive == FormInv /\ [FormNext]_formVars => FormInv'
<1> SUFFICES ASSUME FormInv, [FormNext]_formVars PROVE FormInv'
  OBVIOUS
<1>1. CASE OpenTab
  BY <1>1 DEF OpenTab, FormInv, Holds, Groups
<1>2. CASE Save \/ Discard \/ UNCHANGED formVars
  BY <1>2 DEF Save, Discard, formVars, FormInv, Holds, Groups
<1> QED
  BY <1>1, <1>2, SubmitKeeps, LeaveKeeps DEF FormNext

(* What the list shows is what is saved, but for fields left with escape     *)
(* (inspector/model.go: Refresh, value).                                    *)
THEOREM ShownIsSavedAlways == FormSpec => []ShownIsSaved
<1>1. FormInv => ShownIsSaved
  BY DEF FormInv, ShownIsSaved, Holds
<1> QED
  BY <1>1, FormInitially, FormInductive, PTL DEF FormSpec

-----------------------------------------------------------------------------
(***************************************************************************)
(* The update loop over its two stacks.  A screen is on its way, on the    *)
(* stack or has left; a dialog is on its way, on the stack, in a sequence  *)
(* of closing commands or its command was started.  The bounds of the      *)
(* model (MaxOpen, MaxMail) are not used.                                  *)
(***************************************************************************)

(* A bag in which some kinds of messages are there once at most. *)
Unique == {"make", "open", "dialog"}

Sparse(B) ==
  /\ B \in [DOMAIN B -> Nat \ {0}]
  /\ \A m \in DOMAIN B : m.type \in Unique => B[m] = 1

(* Messages are put into the bag. *)
LEMMA Sending ==
  ASSUME NEW B, Sparse(B), NEW S, \A m \in S : m.type \in Unique => m \notin DOMAIN B
  PROVE  /\ Sparse(B (+) SetToBag(S))
         /\ DOMAIN (B (+) SetToBag(S)) = DOMAIN B \cup S
<1> DEFINE C == B (+) SetToBag(S)
<1>1. /\ DOMAIN C = DOMAIN B \cup S
      /\ \A m \in DOMAIN C : C[m] = (IF m \in DOMAIN B THEN B[m] ELSE 0) + (IF m \in S THEN 1 ELSE 0)
      /\ C = [m \in DOMAIN C |-> C[m]]
  BY DEF (+), SetToBag
<1>2. \A m \in DOMAIN B : B[m] \in Nat \ {0} /\ (m.type \in Unique => B[m] = 1)
  BY DEF Sparse
<1> HIDE DEF C
<1>3. \A m \in DOMAIN C : C[m] \in Nat \ {0} /\ (m.type \in Unique => C[m] = 1)
  <2>1. SUFFICES ASSUME NEW m \in DOMAIN C
                 PROVE  C[m] \in Nat \ {0} /\ (m.type \in Unique => C[m] = 1)
    OBVIOUS
  <2>2. CASE m \in DOMAIN B /\ m \in S
    BY <1>1, <1>2, <2>2
  <2>3. CASE m \in DOMAIN B /\ m \notin S
    BY <1>1, <1>2, <2>3
  <2>4. CASE m \notin DOMAIN B
    BY <1>1, <2>4
  <2> QED
    BY <2>2, <2>3, <2>4
<1>4. C \in [DOMAIN C -> Nat \ {0}]
  BY <1>1, <1>3
<1> QED
  BY <1>1, <1>3, <1>4 DEF Sparse, C

(* A message is taken out. *)
LEMMA Taking ==
  ASSUME NEW B, Sparse(B), NEW m
  PROVE  /\ Sparse(B (-) SetToBag({m}))
         /\ DOMAIN (B (-) SetToBag({m})) \subseteq DOMAIN B
         /\ DOMAIN B \subseteq DOMAIN (B (-) SetToBag({m})) \cup {m}
         /\ m.type \in Unique => m \notin DOMAIN (B (-) SetToBag({m}))
<1> DEFINE C == B (-) SetToBag({m})
           rest(e) == IF e = m THEN B[e] - 1 ELSE B[e]
<1>1. /\ DOMAIN C = {e \in DOMAIN B : rest(e) > 0}
      /\ \A e \in DOMAIN C : C[e] = rest(e)
      /\ C = [e \in DOMAIN C |-> C[e]]
  BY DEF (-), SetToBag
<1>2. \A e \in DOMAIN B : B[e] \in Nat \ {0} /\ (e.type \in Unique => B[e] = 1)
  BY DEF Sparse
<1> HIDE DEF C
<1>3. \A e \in DOMAIN B : e # m => e \in DOMAIN C /\ C[e] = B[e]
  BY <1>1, <1>2
<1>4. m \in DOMAIN C => C[m] \in Nat \ {0} /\ m.type \notin Unique
  BY <1>1, <1>2
<1>5. \A e \in DOMAIN C : e \in DOMAIN B /\ C[e] \in Nat \ {0} /\ (e.type \in Unique => C[e] = 1)
  BY <1>1, <1>2, <1>3, <1>4
<1>6. C \in [DOMAIN C -> Nat \ {0}]
  BY <1>1, <1>5
<1> QED
  BY <1>3, <1>4, <1>5, <1>6 DEF Sparse, C

-----------------------------------------------------------------------------
(* The stack of screens. *)

AnyScreen == Menus \cup Scans \cup {Main, StartMenu}

Entry == [s : AnyScreen, closing : {"no", "new", "due"}]

Names(ss) == {ss[i].s : i \in DOMAIN ss}

Left == DOMAIN closes

(* The main menu stays at the bottom, a screen is on the stack once, and not *)
(* after it left, and a scan's screen is not closed by a key.                *)
StackOK(ss, away) ==
  /\ ss \in Seq(Entry) /\ ss # <<>> /\ ss[1] = [s |-> Main, closing |-> "no"]
  /\ \A i, j \in DOMAIN ss : ss[i].s = ss[j].s => i = j
  /\ Names(ss) \cap away = {}
  /\ \A i \in DOMAIN ss : ss[i].s \in Scans => ss[i].closing = "no"

ScreensOK ==
  /\ StackOK(screens, Left)
  /\ \A s \in Left : closes[s] = 1
  /\ swap \in [kind : {"none", "open", "close"}, old : BOOLEAN]
  /\ ticks \in Nat /\ animated \in BOOLEAN /\ panicked \in BOOLEAN

(* The names at some indexes, and what is drawn from them in their order. *)
NamesAt(I) == {screens[i].s : i \in I}

DrawnFrom(ss, I) ==
  /\ ss \in Seq(Entry)
  /\ \E e \in Bijection(DOMAIN ss, I) :
       /\ \A k \in DOMAIN ss : ss[k] = screens[e[k]]
       /\ \A k, m \in DOMAIN ss : k < m => e[k] < e[m]

(* Some screens leave the stack, but not the main menu. *)
LEMMA ScreensLeave ==
  ASSUME ScreensOK, NEW I \in SUBSET DOMAIN screens, 1 \in I, NEW ss,
         DrawnFrom(ss, I), NEW away, away = NamesAt(DOMAIN screens \ I)
  PROVE  /\ StackOK(ss, Left \cup away)
         /\ Names(ss) \cup away = Names(screens)
         /\ Names(ss) = NamesAt(I)
         /\ DOMAIN Closed(away) = Left \cup away
         /\ \A s \in Left \cup away : Closed(away)[s] = 1
<1>a. ss \in Seq(Entry)
  BY DEF DrawnFrom
<1>0. PICK e \in Bijection(DOMAIN ss, I) :
            /\ \A k \in DOMAIN ss : ss[k] = screens[e[k]]
            /\ \A k, m \in DOMAIN ss : k < m => e[k] < e[m]
  BY DEF DrawnFrom
<1>1. /\ DOMAIN screens = 1..Len(screens) /\ Len(screens) \in Nat
      /\ DOMAIN ss = 1..Len(ss) /\ Len(ss) \in Nat
  BY <1>a, LenProperties DEF ScreensOK, StackOK
<1>2. /\ e \in [DOMAIN ss -> I]
      /\ \A k, m \in DOMAIN ss : e[k] = e[m] => k = m
      /\ \A i \in I : \E k \in DOMAIN ss : e[k] = i
  BY <1>0 DEF Bijection, Injection, Surjection, IsInjective
<1>3. PICK one \in DOMAIN ss : e[one] = 1
  BY <1>2
<1>4. 1 \in DOMAIN ss /\ e[1] = 1
  <2>1. 1 \in DOMAIN ss /\ (one = 1 \/ 1 < one)
    BY <1>1, <1>3
  <2>2. e[1] \in 1..Len(screens)
    BY <1>1, <1>2, <2>1
  <2>3. 1 < one => e[1] < e[one]
    BY <1>0, <2>1
  <2> QED
    BY <1>3, <2>1, <2>2, <2>3
<1>5. ss # <<>> /\ ss[1] = [s |-> Main, closing |-> "no"]
  BY <1>1, <1>0, <1>4 DEF ScreensOK, StackOK
<1>6. \A k, m \in DOMAIN ss : ss[k].s = ss[m].s => k = m
  BY <1>0, <1>2 DEF ScreensOK, StackOK
<1>7. Names(ss) = {screens[i].s : i \in I}
  <2>1. \A k \in DOMAIN ss : e[k] \in I /\ ss[k].s = screens[e[k]].s
    BY <1>0, <1>2
  <2>2. \A i \in I : \E k \in DOMAIN ss : ss[k].s = screens[i].s
    BY <1>0, <1>2
  <2>3. Names(ss) \subseteq {screens[i].s : i \in I}
    BY <2>1 DEF Names
  <2>4. {screens[i].s : i \in I} \subseteq Names(ss)
    BY <2>2 DEF Names
  <2> QED
    BY <2>3, <2>4
<1>14. Names(ss) = NamesAt(I)
  BY <1>7 DEF NamesAt
<1>8. Names(ss) \cap away = {}
  BY <1>7 DEF NamesAt, ScreensOK, StackOK
<1>9. Names(ss) \cup away = Names(screens)
  BY <1>7 DEF Names, NamesAt
<1>10. \A k \in DOMAIN ss : ss[k].s \in Scans => ss[k].closing = "no"
  BY <1>0, <1>2 DEF ScreensOK, StackOK
<1>11. Names(ss) \cap Left = {} /\ away \cap Left = {}
  BY <1>9 DEF ScreensOK, StackOK
<1>12. DOMAIN Closed(away) = Left \cup away
  BY DEF Closed, Left
<1>13. \A s \in Left \cup away : Closed(away)[s] = 1
  <2>1. \A s \in Left \cup away :
          Closed(away)[s] = (IF s \in Left THEN closes[s] ELSE 0) + (IF s \in away THEN 1 ELSE 0)
    BY DEF Closed, Left
  <2>2. \A s \in Left : closes[s] = 1 /\ s \notin away
    BY <1>11 DEF ScreensOK
  <2>3. ASSUME NEW s \in Left PROVE Closed(away)[s] = 1
    BY <2>1, <2>2
  <2>4. ASSUME NEW s \in away, s \notin Left PROVE Closed(away)[s] = 1
    BY <2>1, <2>4
  <2> QED
    BY <2>3, <2>4
<1> QED
  BY <1>a, <1>5, <1>6, <1>14, <1>8, <1>9, <1>10, <1>11, <1>12, <1>13 DEF StackOK

(* What is retained of the stack. *)
LEMMA ScreensRetained ==
  ASSUME ScreensOK, NEW P \in SUBSET DOMAIN screens, 1 \notin P,
         NEW ss, ss = Retain(screens, DOMAIN screens \ P),
         NEW away, away = NamesAt(P)
  PROVE  /\ StackOK(ss, Left \cup away)
         /\ Names(ss) \cup away = Names(screens)
         /\ Names(ss) = NamesAt(DOMAIN screens \ P)
         /\ DOMAIN Closed(away) = Left \cup away
         /\ \A s \in Left \cup away : Closed(away)[s] = 1
<1> DEFINE I == DOMAIN screens \ P
<1>1. screens \in Seq(Entry) /\ screens # <<>>
  BY DEF ScreensOK, StackOK
<1>2. 1 \in DOMAIN screens
  BY <1>1, LenProperties, EmptySeq
<1>3. 1 \in I /\ I \in SUBSET DOMAIN screens /\ DOMAIN screens \ I = P
  BY <1>2
<1>4. DrawnFrom(ss, I)
  <2>1. ss = Retain(screens, I)
    OBVIOUS
  <2> HIDE DEF I
  <2>2. /\ Retain(screens, I) \in Seq(Entry)
        /\ \E e \in Bijection(DOMAIN Retain(screens, I), I) :
              /\ \A k \in DOMAIN Retain(screens, I) : Retain(screens, I)[k] = screens[e[k]]
              /\ \A k, m \in DOMAIN Retain(screens, I) : k < m => e[k] < e[m]
    BY <1>1, <1>3, RetainedElements
  <2> QED
    BY <2>1, <2>2 DEF DrawnFrom
<1> HIDE DEF I
<1>6. away = NamesAt(DOMAIN screens \ I)
  BY <1>3
<1> QED
  BY <1>3, <1>4, <1>6, ScreensLeave DEF I

(* The screens that are due leave. *)
Due == {j \in DOMAIN screens : screens[j].closing = "due"}

(* A frame lets the screens whose closing is over leave (body, expire).    *)
LEMMA DueLeave ==
  ASSUME ScreensOK
  PROVE  /\ StackOK(Staying, Left \cup Leaving)
         /\ Names(Staying) \cup Leaving = Names(screens)
         /\ Names(screens) \cap Scans \subseteq Names(Staying)
         /\ DOMAIN Closed(Leaving) = Left \cup Leaving
         /\ \A s \in Left \cup Leaving : Closed(Leaving)[s] = 1
<1>1. Due \in SUBSET DOMAIN screens /\ 1 \notin Due /\ Leaving = NamesAt(Due)
  BY DEF Due, NamesAt, Leaving, ScreensOK, StackOK
<1>2. Staying = Retain(screens, DOMAIN screens \ Due)
  <2>1. {i \in DOMAIN screens : screens[i].closing # "due"} = DOMAIN screens \ Due
    BY DEF Due
  <2> QED
    BY <2>1 DEF Staying
<1>3. /\ StackOK(Staying, Left \cup Leaving)
      /\ Names(Staying) \cup Leaving = Names(screens)
      /\ Names(Staying) = NamesAt(DOMAIN screens \ Due)
      /\ DOMAIN Closed(Leaving) = Left \cup Leaving
      /\ \A s \in Left \cup Leaving : Closed(Leaving)[s] = 1
  BY <1>1, <1>2, ScreensRetained
<1>4. \A i \in DOMAIN screens : screens[i].s \in Scans => i \notin Due
  BY DEF Due, ScreensOK, StackOK
<1>5. Names(screens) \cap Scans \subseteq Names(Staying)
  BY <1>3, <1>4 DEF Names, NamesAt
<1> QED
  BY <1>3, <1>5

(* settleSwap lets those leave, or none. *)
LEMMA SettleLeaves ==
  ASSUME ScreensOK
  PROVE  /\ StackOK(AfterSettle, Left \cup ClosedBySettle)
         /\ Names(AfterSettle) \cup ClosedBySettle = Names(screens)
         /\ Names(screens) \cap Scans \subseteq Names(AfterSettle)
         /\ DOMAIN Closed(ClosedBySettle) = Left \cup ClosedBySettle
         /\ \A s \in Left \cup ClosedBySettle : Closed(ClosedBySettle)[s] = 1
<1>1. CASE swap.kind = "none"
  <2>1. AfterSettle = screens /\ ClosedBySettle = {}
    BY <1>1 DEF AfterSettle, ClosedBySettle
  <2>2. DOMAIN Closed({}) = Left /\ \A s \in Left : Closed({})[s] = closes[s] + 0
    BY DEF Closed, Left
  <2>3. Left \cup {} = Left
    OBVIOUS
  <2> QED
    BY <2>1, <2>2, <2>3 DEF ScreensOK
<1>2. CASE swap.kind # "none"
  BY <1>2, DueLeave DEF AfterSettle, ClosedBySettle
<1> QED
  BY <1>1, <1>2

(***************************************************************************)
(* The stack of screens keeps its order whatever happens to it; a screen   *)
(* that was on it is on it or has left, and only a reset takes a scan's    *)
(* screen away.                                                            *)
(***************************************************************************)
OnScreens(s) == s \in Names(screens)

Opened(s) == OnScreens(s) \/ s \in Left

(* A new screen comes on top of what settling the last slide leaves.       *)
LEMMA ScreenPushed ==
  ASSUME ScreensOK, NEW s \in AnyScreen, PushScreen(s), ~Opened(s)
  PROVE  /\ ScreensOK'
         /\ OnScreens(s)'
         /\ \A x : Opened(x)' <=> Opened(x) \/ x = s
         /\ \A x \in Scans : OnScreens(x) => OnScreens(x)'
<1> DEFINE ss == AfterSettle
           new == [s |-> s, closing |-> "no"]
<1>1. /\ StackOK(ss, Left \cup ClosedBySettle)
      /\ Names(ss) \cup ClosedBySettle = Names(screens)
      /\ Names(screens) \cap Scans \subseteq Names(ss)
      /\ DOMAIN Closed(ClosedBySettle) = Left \cup ClosedBySettle
      /\ \A x \in Left \cup ClosedBySettle : Closed(ClosedBySettle)[x] = 1
  BY SettleLeaves
<1>2. screens' = Append(ss, new) /\ closes' = Closed(ClosedBySettle)
  BY DEF PushScreen
<1>3. new \in Entry /\ new.s = s /\ new.closing = "no"
  BY DEF Entry
<1>4. ss \in Seq(Entry) /\ ss # <<>>
  BY <1>1 DEF StackOK
<1> HIDE DEF ss, new
<1>5. /\ screens' \in Seq(Entry) /\ screens' # <<>> /\ Len(screens') = Len(ss) + 1
      /\ \A i \in 1..Len(ss) : screens'[i] = ss[i]
      /\ screens'[Len(ss) + 1] = new
  BY <1>2, <1>3, <1>4, AppendProperties
<1>6. DOMAIN ss = 1..Len(ss) /\ DOMAIN screens' = 1..(Len(ss) + 1) /\ Len(ss) \in Nat /\ Len(ss) # 0
  BY <1>4, <1>5, LenProperties, EmptySeq
<1>7. /\ \A i \in DOMAIN screens' : i \in DOMAIN ss \/ i = Len(ss) + 1
      /\ 1 \in DOMAIN ss /\ Len(ss) + 1 \notin DOMAIN ss
      /\ \A i \in DOMAIN ss : i \in DOMAIN screens' /\ screens'[i] = ss[i]
      /\ Len(ss) + 1 \in DOMAIN screens'
  BY <1>5, <1>6
<1>8. Names(screens') = Names(ss) \cup {s}
  <2>1. Names(screens') \subseteq Names(ss) \cup {s}
    BY <1>3, <1>5, <1>7 DEF Names
  <2>2. s \in Names(screens')
    BY <1>3, <1>5, <1>7 DEF Names
  <2>3. Names(ss) \subseteq Names(screens')
    BY <1>7 DEF Names
  <2> QED
    BY <2>1, <2>2, <2>3
<1>9. Left' = Left \cup ClosedBySettle
  BY <1>1, <1>2 DEF Left
<1>10. s \notin Names(ss) /\ s \notin Left'
  BY <1>1, <1>9 DEF Opened, OnScreens
<1>11. StackOK(screens', Left')
  <2>1. screens'[1] = [s |-> Main, closing |-> "no"]
    BY <1>1, <1>7 DEF StackOK
  <2>2. \A i \in DOMAIN ss : ss[i].s # s
    BY <1>10 DEF Names
  <2>3. \A i, j \in DOMAIN screens' : screens'[i].s = screens'[j].s => i = j
    BY <1>1, <1>3, <1>5, <1>7, <2>2 DEF StackOK
  <2>4. Names(screens') \cap Left' = {}
    BY <1>1, <1>8, <1>9, <1>10 DEF StackOK
  <2>5. \A i \in DOMAIN screens' : screens'[i].s \in Scans => screens'[i].closing = "no"
    BY <1>1, <1>3, <1>5, <1>7 DEF StackOK
  <2> QED
    BY <1>5, <2>1, <2>3, <2>4, <2>5 DEF StackOK
<1>12. /\ \A x \in Left' : closes'[x] = 1
       /\ swap' \in [kind : {"none", "open", "close"}, old : BOOLEAN]
       /\ ticks' \in Nat /\ animated' \in BOOLEAN /\ panicked' \in BOOLEAN
  BY <1>1, <1>2, <1>9 DEF PushScreen, ScreensOK, NoSwap
<1> QED
  BY <1>1, <1>8, <1>9, <1>11, <1>12 DEF ScreensOK, Opened, OnScreens

(* A step that makes some screens leave and counts them loses none. *)
LEMMA LeftCounted ==
  ASSUME ScreensOK, NEW away,
         StackOK(screens', Left \cup away), Names(screens') \cup away = Names(screens),
         closes' = Closed(away), DOMAIN Closed(away) = Left \cup away,
         \A s \in Left \cup away : Closed(away)[s] = 1,
         swap' \in [kind : {"none", "open", "close"}, old : BOOLEAN],
         ticks' \in Nat, UNCHANGED animated, panicked' \in BOOLEAN
  PROVE  ScreensOK' /\ \A x : Opened(x)' <=> Opened(x)
<1>1. Left' = Left \cup away
  BY DEF Left
<1>2. StackOK(screens', Left') /\ \A s \in Left' : closes'[s] = 1
  BY <1>1
<1>3. \A x : x \in Names(screens') \/ x \in Left' <=> x \in Names(screens) \/ x \in Left
  BY <1>1
<1> QED
  BY <1>2, <1>3 DEF ScreensOK, Opened, OnScreens

(* A key that goes back never closes a scan's screen (popComponent).       *)
LEMMA ScreenPopped ==
  ASSUME ScreensOK, PopScreen, ~TopScan
  PROVE  /\ ScreensOK' /\ \A x : Opened(x)' <=> Opened(x)
         /\ \A x \in Scans : OnScreens(x) => OnScreens(x)'
<1> DEFINE n == Len(screens)
<1>1. /\ screens \in Seq(Entry) /\ screens # <<>> /\ DOMAIN screens = 1..n
      /\ n \in Nat \ {0} /\ n \in DOMAIN screens
      /\ \A i \in DOMAIN screens : screens[i] \in Entry
  BY LenProperties, EmptySeq, ElementOfSeq DEF ScreensOK, StackOK
<1>2. TopScreen = screens[n] /\ screens[n].s \notin Scans
  BY DEF TopScreen, Last, TopScan
<1>3. CASE n <= 1 \/ TopScreen.closing # "no"
  <2>1. UNCHANGED screenVars
    BY <1>3 DEF PopScreen
  <2> QED
    BY <2>1 DEF screenVars, ScreensOK, StackOK, Left, Names, Opened, OnScreens
<1>4. CASE ~(n <= 1 \/ TopScreen.closing # "no") /\ ~animated
  <2> DEFINE I == 1..(n - 1)
             ss == Front(screens)
             e == [k \in I |-> k]
             away == {TopScreen.s}
  <2>1. /\ screens' = ss /\ closes' = Closed(away)
        /\ UNCHANGED <<swap, ticks, animated, panicked>>
    BY <1>4 DEF PopScreen
  <2>2. n \in Nat /\ n > 1
    BY <1>1, <1>4
  <2>3. /\ ss \in Seq(Entry) /\ DOMAIN ss = I
        /\ \A k \in I : ss[k] = screens[k]
    BY <1>1, <2>2, SubSeqProperties, LenProperties DEF Front
  <2>4. I \in SUBSET DOMAIN screens /\ 1 \in I /\ DOMAIN screens \ I = {n}
    BY <1>1, <2>2
  <2>5. away = NamesAt(DOMAIN screens \ I)
    BY <1>2, <2>4 DEF NamesAt
  <2> HIDE DEF ss, away
  <2>6. DrawnFrom(ss, I)
    <3>1. /\ e \in Bijection(DOMAIN ss, I)
          /\ \A k \in DOMAIN ss : ss[k] = screens[e[k]]
          /\ \A k, m \in DOMAIN ss : k < m => e[k] < e[m]
      BY <2>3 DEF Bijection, Injection, Surjection, IsInjective
    <3> QED
      BY <2>3, <3>1 DEF DrawnFrom
  <2> HIDE DEF I
  <2>7. /\ StackOK(ss, Left \cup away)
        /\ Names(ss) \cup away = Names(screens)
        /\ Names(ss) = NamesAt(I)
        /\ DOMAIN Closed(away) = Left \cup away
        /\ \A s \in Left \cup away : Closed(away)[s] = 1
    BY <2>4, <2>5, <2>6, ScreensLeave
  <2>8. ScreensOK' /\ \A x : Opened(x)' <=> Opened(x)
    BY <2>1, <2>7, LeftCounted DEF ScreensOK
  <2>9. \A x \in Scans : OnScreens(x) => OnScreens(x)'
    BY <1>2, <2>1, <2>7 DEF OnScreens, away
  <2> QED
    BY <2>8, <2>9
<1>5. CASE ~(n <= 1 \/ TopScreen.closing # "no") /\ animated /\ n > Len(AfterSettle)
  <2>1. /\ panicked' = TRUE
        /\ screens' = AfterSettle
        /\ closes' = Closed(ClosedBySettle)
        /\ swap' = NoSwap
        /\ UNCHANGED <<ticks, animated>>
    BY <1>5 DEF PopScreen
  <2>2. ScreensOK' /\ \A x : Opened(x)' <=> Opened(x)
    BY <2>1, SettleLeaves, LeftCounted DEF ScreensOK, NoSwap
  <2>3. \A x \in Scans : OnScreens(x) => OnScreens(x)'
    BY <2>1, SettleLeaves DEF OnScreens
  <2> QED
    BY <2>2, <2>3
<1>6. CASE ~(n <= 1 \/ TopScreen.closing # "no") /\ animated /\ ~(n > Len(AfterSettle))
  <2>1. /\ screens' = [screens EXCEPT ![n].closing = "new"]
        /\ swap' = [kind |-> "close", old |-> FALSE]
        /\ ticks' = ticks + 1
        /\ UNCHANGED <<closes, animated, panicked>>
    BY <1>6 DEF PopScreen
  <2>2. n \in Nat /\ n > 1
    BY <1>1, <1>6
  <2>3. /\ screens' \in Seq(Entry) /\ screens' # <<>> /\ DOMAIN screens' = DOMAIN screens
        /\ \A i \in DOMAIN screens : /\ screens'[i].s = screens[i].s
                                     /\ i # n => screens'[i] = screens[i]
    <3>1. DOMAIN screens' = 1..n
      BY <1>1, <2>1
    <3>2. \A i \in 1..n : screens'[i] \in Entry /\ screens'[i].s = screens[i].s
                            /\ (i # n => screens'[i] = screens[i])
      BY <1>1, <2>1 DEF Entry
    <3>3. screens' \in [1..n -> Entry]
      <4>1. screens' = [i \in 1..n |-> screens'[i]]
        BY <1>1, <2>1
      <4> QED
        BY <3>2, <4>1
    <3>4. screens' \in Seq(Entry)
      BY <1>1, <3>3, SeqDef
    <3>5. DOMAIN screens' # {}
      BY <1>1, <3>1
    <3>6. DOMAIN screens' = DOMAIN screens /\ screens' # <<>>
      BY <1>1, <3>1, <3>5
    <3> QED
      BY <1>1, <3>2, <3>4, <3>6
  <2>4. Names(screens') = Names(screens)
    BY <2>3 DEF Names
  <2>5. 1 # n /\ 1 \in DOMAIN screens
    BY <1>1, <2>2
  <2>6. StackOK(screens', Left)
    BY <1>2, <2>3, <2>4, <2>5 DEF ScreensOK, StackOK
  <2>7. Left' = Left
    BY <2>1 DEF Left
  <2>8. swap' \in [kind : {"none", "open", "close"}, old : BOOLEAN] /\ ticks' \in Nat
    BY <2>1 DEF ScreensOK
  <2>9. ScreensOK'
    BY <2>1, <2>6, <2>7, <2>8 DEF ScreensOK
  <2> QED
    BY <2>4, <2>7, <2>9 DEF Opened, OnScreens
<1> QED
  BY <1>3, <1>4, <1>5, <1>6 DEF ScreensOK

(* A reset closes every screen but the main menu, each once.               *)
LEMMA StackReset ==
  ASSUME ScreensOK, ResetStack
  PROVE  ScreensOK' /\ \A x : Opened(x)' <=> Opened(x)
<1> DEFINE ss == <<Head(screens)>>
           away == {screens[i].s : i \in 2..Len(screens)}
           e == [k \in {1} |-> 1]
<1>1. /\ screens \in Seq(Entry) /\ screens # <<>> /\ DOMAIN screens = 1..Len(screens)
      /\ Len(screens) \in Nat \ {0} /\ 1 \in DOMAIN screens /\ screens[1] \in Entry
  BY LenProperties, EmptySeq, ElementOfSeq DEF ScreensOK, StackOK
<1>2. ss \in Seq(Entry) /\ DOMAIN ss = {1} /\ ss[1] = screens[1]
  BY <1>1
<1>3. {1} \in SUBSET DOMAIN screens /\ DOMAIN screens \ {1} = 2..Len(screens)
  BY <1>1
<1>4. e \in Bijection(DOMAIN ss, {1}) /\ e[1] = 1
  BY <1>2 DEF Bijection, Injection, Surjection, IsInjective
<1>5. away = NamesAt(DOMAIN screens \ {1})
  BY <1>3 DEF NamesAt
<1>6. screens' = ss /\ closes' = Closed(away) /\ swap' = NoSwap /\ UNCHANGED <<ticks, animated, panicked>>
  BY DEF ResetStack
<1> HIDE DEF ss, away, e
<1>7. DrawnFrom(ss, {1})
  <2>1. /\ \A k \in DOMAIN ss : ss[k] = screens[e[k]]
        /\ \A k, m \in DOMAIN ss : k < m => e[k] < e[m]
    BY <1>2, <1>4
  <2> QED
    BY <1>2, <1>4, <2>1 DEF DrawnFrom
<1>8. /\ StackOK(ss, Left \cup away)
      /\ Names(ss) \cup away = Names(screens)
      /\ DOMAIN Closed(away) = Left \cup away
      /\ \A s \in Left \cup away : Closed(away)[s] = 1
  BY <1>3, <1>5, <1>7, ScreensLeave
<1> QED
  BY <1>6, <1>8, LeftCounted DEF ScreensOK, NoSwap

(* Frames and time close no screen twice and keep the scans' screens.      *)
LEMMA FrameAndTime ==
  ASSUME ScreensOK, ScreenFrame \/ ScreenElapse
  PROVE  /\ ScreensOK' /\ \A x : Opened(x)' <=> Opened(x)
         /\ \A x \in Scans : OnScreens(x) => OnScreens(x)'
<1>1. CASE ScreenFrame
  <2>1. /\ screens' = Staying /\ closes' = Closed(Leaving)
        /\ swap' \in {swap, NoSwap} /\ ticks' \in Nat /\ UNCHANGED <<animated, panicked>>
    BY <1>1 DEF ScreenFrame, ScreensOK
  <2>2. ScreensOK' /\ \A x : Opened(x)' <=> Opened(x)
    <3>1. swap' \in [kind : {"none", "open", "close"}, old : BOOLEAN] /\ panicked' \in BOOLEAN
      <4>1. NoSwap \in [kind : {"none", "open", "close"}, old : BOOLEAN]
        BY DEF NoSwap
      <4>2. swap' = swap \/ swap' = NoSwap
        BY <2>1
      <4> QED
        BY <2>1, <4>1, <4>2 DEF ScreensOK
    <3> QED
      BY <2>1, <3>1, DueLeave, LeftCounted
  <2>3. \A x \in Scans : OnScreens(x) => OnScreens(x)'
    BY <2>1, DueLeave DEF OnScreens
  <2> QED
    BY <2>2, <2>3
<1>2. CASE ScreenElapse
  <2>1. screens \in Seq(Entry) /\ \A i \in DOMAIN screens : screens[i] \in Entry
    BY ElementOfSeq, LenProperties DEF ScreensOK, StackOK
  <2>2. /\ DOMAIN screens' = DOMAIN screens /\ screens' = [i \in DOMAIN screens |-> screens'[i]]
        /\ \A i \in DOMAIN screens :
             \/ screens'[i] = screens[i]
             \/ screens[i].closing = "new" /\ screens'[i] = [screens[i] EXCEPT !.closing = "due"]
    BY <1>2, <2>1 DEF ScreenElapse
  <2>3. /\ UNCHANGED <<ticks, closes, animated, panicked>>
        /\ swap' \in [kind : {"none", "open", "close"}, old : BOOLEAN]
    BY <1>2 DEF ScreenElapse, ScreensOK
  <2>4. \A i \in DOMAIN screens : /\ screens'[i] \in Entry /\ screens'[i].s = screens[i].s
                                  /\ screens[i].closing = "no" => screens'[i] = screens[i]
    BY <2>1, <2>2 DEF Entry
  <2>5. screens' \in Seq(Entry) /\ screens' # <<>>
    <3>1. DOMAIN screens = 1..Len(screens) /\ Len(screens) \in Nat /\ DOMAIN screens # {}
      BY <2>1, LenProperties, EmptySeq DEF ScreensOK, StackOK
    <3>2. screens' \in [1..Len(screens) -> Entry]
      BY <2>2, <2>4, <3>1
    <3>3. screens' \in Seq(Entry)
      BY <3>1, <3>2, SeqDef
    <3> QED
      BY <2>2, <3>1, <3>3
  <2>6. Names(screens') = Names(screens)
    BY <2>2, <2>4 DEF Names
  <2>7. 1 \in DOMAIN screens
    BY LenProperties, EmptySeq DEF ScreensOK, StackOK
  <2>8. StackOK(screens', Left)
    BY <2>2, <2>4, <2>5, <2>6, <2>7 DEF ScreensOK, StackOK
  <2>9. Left' = Left
    BY <2>3 DEF Left
  <2> QED
    BY <2>3, <2>6, <2>8, <2>9 DEF ScreensOK, Opened, OnScreens
<1> QED
  BY <1>1, <1>2

-----------------------------------------------------------------------------
(* The stack of dialogs. *)

Dlg == {d \in [id : Nat, kind : {"confirm", "notice"}, does : {"nothing", "reset", "stop"},
               of : Scans \cup {Main}] :
          d.kind = "confirm" \/ d.does = "stop" => d.of \in Scans}

Layer == [d : Dlg, at : {"opening", "open", "closing", "closed"}]

Chain == [todo : Seq(Dlg), tick : BOOLEAN]

Ids(ds) == {ds[i].id : i \in DOMAIN ds}

OnTop == {layers[i].d.id : i \in DOMAIN layers}

Waiting == UNION {Ids(c.todo) : c \in chains}

Fired == DOMAIN fired

Used == OnTop \cup Waiting \cup Fired

(* The dialogs that are on the stack or whose closing commands wait. *)
Alive == {layers[i].d : i \in DOMAIN layers} \cup
         UNION {{c.todo[i] : i \in DOMAIN c.todo} : c \in chains}

(* A sequence of closing commands, each of another dialog. *)
ChainOK(c) ==
  /\ c \in Chain /\ c.todo # <<>>
  /\ \A i, j \in DOMAIN c.todo : c.todo[i].id = c.todo[j].id => i = j
  /\ \A i \in DOMAIN c.todo : c.todo[i].does # "nothing"

(* A dialog is on the stack, in one sequence, or its command was started. *)
DialogsOK ==
  /\ layers \in Seq(Layer)
  /\ \A i, j \in DOMAIN layers : layers[i].d.id = layers[j].d.id => i = j
  /\ \A c \in chains : ChainOK(c)
  /\ \A c, x \in chains : Ids(c.todo) \cap Ids(x.todo) # {} => c = x
  /\ OnTop \cap Waiting = {} /\ OnTop \cap Fired = {} /\ Waiting \cap Fired = {}
  /\ \A id \in Fired : fired[id] = 1
  /\ dticks \in Nat

(* An opened dialog is on the stack and was not before (push).             *)
LEMMA DialogPushed ==
  ASSUME DialogsOK, NEW d \in Dlg, d.id \notin Used, PushDialog(d)
  PROVE  /\ DialogsOK'
         /\ Used' = Used \cup {d.id}
         /\ Alive' = Alive \cup {d}
<1> DEFINE new == [d |-> d, at |-> "opening"]
<1>1. /\ layers' = Append(layers, new) /\ dticks' = dticks + 1
      /\ UNCHANGED <<chains, fired>>
  BY DEF PushDialog
<1>2. new \in Layer /\ new.d = d
  BY DEF Layer
<1>3. layers \in Seq(Layer)
  BY DEF DialogsOK
<1> HIDE DEF new
<1>4. /\ layers' \in Seq(Layer) /\ Len(layers') = Len(layers) + 1
      /\ \A i \in 1..Len(layers) : layers'[i] = layers[i]
      /\ layers'[Len(layers) + 1] = new
  BY <1>1, <1>2, <1>3, AppendProperties
<1>5. DOMAIN layers = 1..Len(layers) /\ DOMAIN layers' = 1..(Len(layers) + 1) /\ Len(layers) \in Nat
  BY <1>3, <1>4, LenProperties
<1>6. PICK n : /\ DOMAIN layers' = DOMAIN layers \cup {n} /\ n \notin DOMAIN layers
               /\ layers'[n] = new /\ \A i \in DOMAIN layers : layers'[i] = layers[i]
  <2>1. DOMAIN layers' = DOMAIN layers \cup {Len(layers) + 1} /\ Len(layers) + 1 \notin DOMAIN layers
    BY <1>5
  <2> QED
    BY <1>4, <1>5, <2>1
<1>7. OnTop' = OnTop \cup {d.id}
  BY <1>2, <1>6 DEF OnTop
<1>8. Waiting' = Waiting /\ Fired' = Fired
  BY <1>1 DEF Waiting, Fired
<1>9. Alive' = Alive \cup {d}
  BY <1>1, <1>2, <1>6 DEF Alive
<1>10. \A i, j \in DOMAIN layers' : layers'[i].d.id = layers'[j].d.id => i = j
  <2>1. \A i \in DOMAIN layers : layers[i].d.id # d.id
    BY DEF Used, OnTop
  <2> QED
    BY <1>2, <1>6, <2>1 DEF DialogsOK
<1>11. OnTop' \cap Waiting' = {} /\ OnTop' \cap Fired' = {} /\ Waiting' \cap Fired' = {}
  BY <1>7, <1>8 DEF DialogsOK, Used
<1>12. DialogsOK'
  <2>1. \A c \in chains' : ChainOK(c)
    BY <1>1 DEF DialogsOK
  <2>2. \A c, x \in chains' : Ids(c.todo) \cap Ids(x.todo) # {} => c = x
    BY <1>1 DEF DialogsOK
  <2>3. \A id \in Fired' : fired'[id] = 1
    BY <1>1, <1>8 DEF DialogsOK
  <2>4. dticks' \in Nat
    BY <1>1 DEF DialogsOK
  <2>5. layers' \in Seq(Layer)
    BY <1>4
  <2> QED
    BY <1>10, <1>11, <2>1, <2>2, <2>3, <2>4, <2>5 DEF DialogsOK
<1> QED
  BY <1>7, <1>8, <1>9, <1>12 DEF Used

(* The transitions of the layers leave everything else. *)
LEMMA LayersMove ==
  ASSUME DialogsOK, UNCHANGED <<chains, fired>>, dticks' \in Nat,
         DOMAIN layers' = DOMAIN layers, layers' = [i \in DOMAIN layers |-> layers'[i]],
         \A i \in DOMAIN layers : layers'[i] \in Layer /\ layers'[i].d = layers[i].d
  PROVE  DialogsOK' /\ Used' = Used /\ Alive' = Alive
<1>1. layers' \in Seq(Layer)
  <2>1. DOMAIN layers = 1..Len(layers) /\ Len(layers) \in Nat
    BY LenProperties DEF DialogsOK
  <2>2. layers' \in [1..Len(layers) -> Layer]
    BY <2>1
  <2> QED
    BY <2>1, <2>2, SeqDef
<1>2. OnTop' = OnTop /\ Waiting' = Waiting /\ Fired' = Fired
  BY DEF OnTop, Waiting, Fired
<1>3. \A i, j \in DOMAIN layers' : layers'[i].d.id = layers'[j].d.id => i = j
  BY DEF DialogsOK
<1>4. DialogsOK'
  BY <1>1, <1>2, <1>3 DEF DialogsOK
<1>5. Alive' = Alive
  BY DEF Alive
<1> QED
  BY <1>2, <1>4, <1>5 DEF Used

(* A dialog that starts or ends a transition stays on the stack.           *)
LEMMA DialogCloses ==
  ASSUME DialogsOK, NEW i \in DOMAIN layers, BeginClose(i) \/ LayerElapse(i)
  PROVE  DialogsOK' /\ Used' = Used /\ Alive' = Alive
<1>1. \A j \in DOMAIN layers : layers[j] \in Layer
  BY LenProperties, ElementOfSeq DEF DialogsOK
<1>2. CASE UNCHANGED dialogVars
  <2>1. UNCHANGED <<layers, dticks, chains, fired>>
    BY <1>2 DEF dialogVars
  <2>2. Alive' = Alive
    BY <2>1 DEF Alive
  <2>3. OnTop' = OnTop /\ Waiting' = Waiting /\ Fired' = Fired
    BY <2>1 DEF OnTop, Waiting, Fired
  <2>4. DialogsOK'
    BY <2>1, <2>3 DEF DialogsOK
  <2> QED
    BY <2>2, <2>3, <2>4 DEF Used
<1>3. CASE ~UNCHANGED dialogVars
  <2>1. PICK at \in {"open", "closing", "closed"} : layers' = [layers EXCEPT ![i].at = at]
    BY <1>1, <1>3 DEF BeginClose, LayerElapse
  <2>2. UNCHANGED <<chains, fired>> /\ dticks' \in Nat
    BY <1>3 DEF BeginClose, LayerElapse, DialogsOK
  <2>3. /\ DOMAIN layers' = DOMAIN layers /\ layers' = [j \in DOMAIN layers |-> layers'[j]]
        /\ \A j \in DOMAIN layers : layers'[j] \in Layer /\ layers'[j].d = layers[j].d
    BY <1>1, <2>1 DEF Layer
  <2> QED
    BY <2>2, <2>3, LayersMove
<1> QED
  BY <1>2, <1>3

(* The closed ones leave; their commands wait in a sequence. *)
LEMMA DialogsLeave ==
  ASSUME DialogsOK, DialogFrame
  PROVE  DialogsOK' /\ Used' \subseteq Used /\ Alive' \subseteq Alive
<1> DEFINE D == DOMAIN layers
           K == {i \in D : layers[i].at # "closed"}
           G == {i \in D : layers[i].at = "closed" /\ layers[i].d.does # "nothing"}
           ds == [i \in D |-> layers[i].d]
<1>1. layers \in Seq(Layer) /\ \A i \in D : layers[i] \in Layer
  BY LenProperties, ElementOfSeq DEF DialogsOK
<1>2. ds \in Seq(Dlg) /\ DOMAIN ds = D
  <2>1. DOMAIN layers = 1..Len(layers) /\ Len(layers) \in Nat
    BY <1>1, LenProperties
  <2>2. ds \in [1..Len(layers) -> Dlg]
    BY <1>1, <2>1 DEF Layer
  <2> QED
    BY <2>1, <2>2, SeqDef
<1>3. /\ Kept \in Seq(Layer)
      /\ \E e \in [DOMAIN Kept -> K] :
            /\ \A k, m \in DOMAIN Kept : e[k] = e[m] => k = m
            /\ \A k \in DOMAIN Kept : Kept[k] = layers[e[k]]
  <2>1. K \in SUBSET DOMAIN layers /\ Kept = Retain(layers, K)
    BY DEF Kept
  <2> HIDE DEF K
  <2>2. /\ Retain(layers, K) \in Seq(Layer)
        /\ \E e \in Bijection(DOMAIN Retain(layers, K), K) :
              \A k \in DOMAIN Retain(layers, K) : Retain(layers, K)[k] = layers[e[k]]
    BY <1>1, <2>1, RetainedElements
  <2> QED
    BY <2>1, <2>2 DEF Bijection, Injection, IsInjective
<1>4. /\ Deferred \in Seq(Dlg)
      /\ \E e \in [DOMAIN Deferred -> G] :
            /\ \A k, m \in DOMAIN Deferred : e[k] = e[m] => k = m
            /\ \A k \in DOMAIN Deferred : Deferred[k] = layers[e[k]].d
  <2>1. G \in SUBSET DOMAIN ds /\ Deferred = Retain(ds, G)
    BY DEF Deferred
  <2>2. \A i \in G : ds[i] = layers[i].d
    OBVIOUS
  <2> HIDE DEF G, ds
  <2>3. /\ Retain(ds, G) \in Seq(Dlg)
        /\ \E e \in Bijection(DOMAIN Retain(ds, G), G) :
              \A k \in DOMAIN Retain(ds, G) : Retain(ds, G)[k] = ds[e[k]]
    BY <1>2, <2>1, RetainedElements
  <2> QED
    BY <2>1, <2>2, <2>3 DEF Bijection, Injection, IsInjective
<1>5. PICK e \in [DOMAIN Kept -> K] :
            /\ \A k, m \in DOMAIN Kept : e[k] = e[m] => k = m
            /\ \A k \in DOMAIN Kept : Kept[k] = layers[e[k]]
  BY <1>3
<1>6. PICK g \in [DOMAIN Deferred -> G] :
            /\ \A k, m \in DOMAIN Deferred : g[k] = g[m] => k = m
            /\ \A k \in DOMAIN Deferred : Deferred[k] = layers[g[k]].d
  BY <1>4
<1>7. layers' = Kept /\ fired' = fired
  BY DEF DialogFrame
<1>8. \A i, j \in D : layers[i].d.id = layers[j].d.id => i = j
  BY DEF DialogsOK
<1>9. \A k \in DOMAIN Kept : e[k] \in D /\ layers[e[k]].at # "closed"
  BY <1>5
<1>10. \A k \in DOMAIN Deferred :
         g[k] \in D /\ layers[g[k]].at = "closed" /\ layers[g[k]].d.does # "nothing"
  BY <1>6
<1> HIDE DEF D, K, G, ds
<1>11. /\ layers' \in Seq(Layer)
       /\ \A i, j \in DOMAIN layers' : layers'[i].d.id = layers'[j].d.id => i = j
  BY <1>3, <1>5, <1>7, <1>8, <1>9
<1>12. OnTop' \subseteq OnTop /\ {layers'[i].d : i \in DOMAIN layers'} \subseteq Alive
  BY <1>5, <1>7, <1>9 DEF OnTop, Alive, D
<1>13. CASE Deferred = <<>>
  <2>1. chains' = chains /\ dticks' \in Nat
    BY <1>13 DEF DialogFrame, DialogsOK
  <2>2. Waiting' = Waiting /\ Fired' = Fired
    BY <1>7, <2>1 DEF Waiting, Fired
  <2>3. DialogsOK'
    BY <1>7, <1>11, <1>12, <2>1, <2>2 DEF DialogsOK
  <2>4. Alive' \subseteq Alive
    BY <1>12, <2>1 DEF Alive
  <2> QED
    BY <1>12, <2>2, <2>3, <2>4 DEF Used
<1>14. CASE Deferred # <<>>
  <2> DEFINE new == [todo |-> Deferred, tick |-> Animating(Kept)]
  <2>1. chains' = chains \cup {new} /\ dticks' \in Nat
    BY <1>14 DEF DialogFrame, DialogsOK
  <2>2. new.todo = Deferred /\ new \in Chain
    BY <1>4 DEF Chain, Animating
  <2> HIDE DEF new
  <2>3. ChainOK(new)
    BY <1>6, <1>8, <1>10, <1>14, <2>2 DEF ChainOK
  <2>4. Ids(Deferred) \subseteq OnTop
    BY <1>6, <1>10 DEF Ids, OnTop, D
  <2>5. Ids(Deferred) \cap OnTop' = {}
    <3>1. SUFFICES ASSUME NEW k \in DOMAIN Kept, NEW m \in DOMAIN Deferred,
                          Kept[k].d.id = Deferred[m].id
                   PROVE  FALSE
      BY <1>7 DEF Ids, OnTop
    <3>2. e[k] = g[m]
      BY <1>5, <1>6, <1>8, <1>9, <1>10, <3>1
    <3> QED
      BY <1>9, <1>10, <3>2
  <2>6. Waiting' = Waiting \cup Ids(Deferred) /\ Fired' = Fired
    BY <1>7, <2>1, <2>2 DEF Waiting, Fired
  <2>7. \A c \in chains : Ids(c.todo) \cap Ids(Deferred) = {}
    BY <2>4 DEF DialogsOK, Waiting
  <2>8. \A c, x \in chains' : Ids(c.todo) \cap Ids(x.todo) # {} => c = x
    BY <2>1, <2>2, <2>7 DEF DialogsOK
  <2>9. OnTop' \cap Waiting' = {} /\ OnTop' \cap Fired' = {} /\ Waiting' \cap Fired' = {}
    BY <1>12, <2>4, <2>5, <2>6 DEF DialogsOK
  <2>10. DialogsOK'
    BY <1>7, <1>11, <2>1, <2>3, <2>6, <2>8, <2>9 DEF DialogsOK
  <2>11. {Deferred[i] : i \in DOMAIN Deferred} \subseteq Alive
    BY <1>6, <1>10 DEF Alive, D
  <2>12. UNION {{c.todo[i] : i \in DOMAIN c.todo} : c \in chains'} \subseteq Alive
    <3>1. SUFFICES ASSUME NEW c \in chains', NEW i \in DOMAIN c.todo PROVE c.todo[i] \in Alive
      OBVIOUS
    <3>2. CASE c \in chains
      BY <3>2 DEF Alive
    <3>3. CASE c = new
      BY <2>2, <2>11, <3>3
    <3> QED
      BY <2>1, <3>2, <3>3
  <2>13. Alive' \subseteq Alive
    BY <1>12, <2>12 DEF Alive
  <2> QED
    BY <1>12, <2>4, <2>6, <2>10, <2>13 DEF Used
<1> QED
  BY <1>13, <1>14


(* The next command of a sequence is started. *)
LEMMA CommandStarts ==
  ASSUME DialogsOK, NEW c, RunCloseCmd(c)
  PROVE  /\ DialogsOK' /\ Used' = Used /\ Alive' \subseteq Alive
         /\ Head(c.todo) \in Alive /\ Head(c.todo) \in Dlg /\ Head(c.todo).does # "nothing"
<1> DEFINE d == Head(c.todo)
           rest == Tail(c.todo)
           rem == [c EXCEPT !.todo = rest]
<1>1. c \in chains /\ ChainOK(c)
  BY DEF RunCloseCmd, DialogsOK
<1>2. c \in Chain /\ c.todo \in Seq(Dlg) /\ c.todo # <<>>
  BY <1>1 DEF ChainOK, Chain
<1>3. /\ rest \in Seq(Dlg) /\ Len(rest) = Len(c.todo) - 1 /\ Len(c.todo) \in Nat \ {0}
      /\ \A i \in 1..Len(rest) : rest[i] = c.todo[i + 1]
  BY <1>2, HeadTailProperties, EmptySeq, LenProperties
<1>4. DOMAIN c.todo = 1..Len(c.todo) /\ DOMAIN rest = 1..Len(rest) /\ Len(rest) \in Nat
  BY <1>2, <1>3, LenProperties
<1>5. 1 \in DOMAIN c.todo /\ d = c.todo[1] /\ d \in Dlg
  BY <1>2, <1>3, <1>4, HeadTailProperties
<1>6. /\ \A i \in DOMAIN rest : i + 1 \in DOMAIN c.todo /\ i + 1 # 1 /\ rest[i] = c.todo[i + 1]
      /\ \A i \in DOMAIN c.todo : i = 1 \/ \E k \in DOMAIN rest : i = k + 1
  <2>1. \A i \in DOMAIN c.todo : i = 1 \/ (i - 1 \in DOMAIN rest /\ i = (i - 1) + 1)
    BY <1>3, <1>4
  <2>2. \A i \in DOMAIN rest : i + 1 \in DOMAIN c.todo /\ i + 1 # 1
    BY <1>3, <1>4
  <2> QED
    BY <1>3, <1>4, <2>1, <2>2
<1>7. rem.todo = rest /\ rem \in Chain /\ rem.tick = c.tick
  BY <1>2, <1>3 DEF Chain
<1>8. /\ chains' = (chains \ {c}) \cup (IF rest = <<>> THEN {} ELSE {rem})
      /\ fired' = [x \in Fired \cup {d.id} |->
                     (IF x \in Fired THEN fired[x] ELSE 0) + (IF x = d.id THEN 1 ELSE 0)]
      /\ dticks' = dticks + (IF rest = <<>> /\ c.tick THEN 1 ELSE 0)
      /\ layers' = layers
  BY DEF RunCloseCmd, Fired
<1>9. d \in Alive /\ d.does # "nothing" /\ \A i \in DOMAIN rest : rest[i] \in Alive
  BY <1>1, <1>5, <1>6 DEF ChainOK, Alive
<1> HIDE DEF d, rest, rem
<1>10. Ids(c.todo) = {d.id} \cup Ids(rest) /\ d.id \notin Ids(rest)
  <2>1. \A i \in DOMAIN rest : rest[i].id # d.id
    BY <1>1, <1>5, <1>6 DEF ChainOK
  <2>2. \A i \in DOMAIN c.todo : c.todo[i].id = d.id \/ \E k \in DOMAIN rest : c.todo[i].id = rest[k].id
    BY <1>5, <1>6
  <2>3. Ids(c.todo) \subseteq {d.id} \cup Ids(rest)
    BY <2>2 DEF Ids
  <2>4. {d.id} \cup Ids(rest) \subseteq Ids(c.todo)
    BY <1>5, <1>6 DEF Ids
  <2> QED
    BY <2>1, <2>3, <2>4 DEF Ids
<1>11. d.id \in Waiting /\ d.id \notin Fired
  BY <1>1, <1>10 DEF Waiting, DialogsOK
<1>12. \A x \in chains \ {c} : Ids(x.todo) \cap Ids(c.todo) = {}
  BY <1>1 DEF DialogsOK
<1>13. rest = <<>> => Ids(rest) = {}
  BY DEF Ids
<1>14. /\ Waiting' \subseteq Waiting /\ d.id \notin Waiting'
       /\ Waiting \subseteq Waiting' \cup {d.id}
  <2>1. \A x \in chains' : x \in chains \ {c} \/ (x = rem /\ rest # <<>>)
    BY <1>8
  <2>2. chains \ {c} \subseteq chains' /\ (rest # <<>> => rem \in chains')
    BY <1>8
  <2>3. Waiting' \subseteq Waiting
    BY <1>1, <1>7, <1>10, <2>1 DEF Waiting
  <2>4. d.id \notin Waiting'
    BY <1>7, <1>10, <1>12, <2>1 DEF Waiting
  <2>5. \A x \in chains : Ids(x.todo) \subseteq Waiting' \cup {d.id}
    <3>1. SUFFICES ASSUME NEW x \in chains PROVE Ids(x.todo) \subseteq Waiting' \cup {d.id}
      OBVIOUS
    <3>2. CASE x # c
      BY <2>2, <3>2 DEF Waiting
    <3>3. CASE x = c /\ rest # <<>>
      BY <1>7, <1>10, <2>2, <3>3 DEF Waiting
    <3>4. CASE x = c /\ rest = <<>>
      BY <1>10, <1>13, <3>4
    <3> QED
      BY <3>2, <3>3, <3>4
  <2> QED
    BY <2>3, <2>4, <2>5 DEF Waiting
<1>15. Fired' = Fired \cup {d.id} /\ \A x \in Fired' : fired'[x] = 1
  <2>1. Fired' = Fired \cup {d.id}
    BY <1>8 DEF Fired
  <2>2. \A x \in Fired : fired'[x] = fired[x] + 0 /\ fired[x] = 1
    BY <1>8, <1>11 DEF DialogsOK
  <2>3. fired'[d.id] = 0 + 1
    BY <1>8, <1>11
  <2> QED
    BY <2>1, <2>2, <2>3
<1>16. OnTop' = OnTop
  BY <1>8 DEF OnTop
<1>17. Used' = Used
  BY <1>11, <1>14, <1>15, <1>16 DEF Used
<1>18. DialogsOK'
  <2>1. \A x \in chains' : ChainOK(x)
    <3>1. rest # <<>> => ChainOK(rem)
      <4>1. \A i, j \in DOMAIN rest : rest[i].id = rest[j].id => i = j
        <5>1. SUFFICES ASSUME NEW i \in DOMAIN rest, NEW j \in DOMAIN rest, rest[i].id = rest[j].id
                       PROVE  i = j
          OBVIOUS
        <5>2. i + 1 = j + 1
          BY <1>1, <1>6, <5>1 DEF ChainOK
        <5> QED
          BY <1>4, <5>2
      <4>2. \A i \in DOMAIN rest : rest[i].does # "nothing"
        BY <1>1, <1>6 DEF ChainOK
      <4> QED
        BY <1>7, <4>1, <4>2 DEF ChainOK
    <3> QED
      BY <1>8, <3>1 DEF DialogsOK
  <2>2. \A x, y \in chains' : Ids(x.todo) \cap Ids(y.todo) # {} => x = y
    <3>1. \A x \in chains' : x \in chains \ {c} \/ x = rem
      BY <1>8
    <3>2. Ids(rem.todo) \subseteq Ids(c.todo)
      BY <1>7, <1>10
    <3> QED
      BY <1>12, <3>1, <3>2 DEF DialogsOK
  <2>3. OnTop' \cap Waiting' = {} /\ OnTop' \cap Fired' = {} /\ Waiting' \cap Fired' = {}
    BY <1>11, <1>14, <1>15, <1>16 DEF DialogsOK
  <2>4. dticks' \in Nat
    BY <1>8 DEF DialogsOK
  <2>5. /\ layers' \in Seq(Layer)
        /\ \A i, j \in DOMAIN layers' : layers'[i].d.id = layers'[j].d.id => i = j
    BY <1>8 DEF DialogsOK
  <2> QED
    BY <1>15, <2>1, <2>2, <2>3, <2>4, <2>5 DEF DialogsOK
<1>19. Alive' \subseteq Alive
  <2>1. \A x \in chains' : x \in chains \/ (x = rem /\ rest # <<>>)
    BY <1>8
  <2>2. \A x \in chains' : \A i \in DOMAIN x.todo : x.todo[i] \in Alive
    BY <1>7, <1>9, <2>1 DEF Alive
  <2>3. \A i \in DOMAIN layers' : layers'[i].d \in Alive
    BY <1>8 DEF Alive
  <2> QED
    BY <2>2, <2>3 DEF Alive
<1> QED
  BY <1>5, <1>9, <1>17, <1>18, <1>19 DEF d


(* Closing by id removes nothing, whether a dialog has that id or not.     *)
LEMMA DialogNamedCloses ==
  ASSUME DialogsOK, NEW id, BeginCloseById(id)
  PROVE  DialogsOK' /\ Used' = Used /\ Alive' = Alive
<1>1. CASE UNCHANGED dialogVars
  <2>1. UNCHANGED <<layers, dticks, chains, fired>>
    BY <1>1 DEF dialogVars
  <2>2. OnTop' = OnTop /\ Waiting' = Waiting /\ Fired' = Fired /\ Alive' = Alive
    BY <2>1 DEF OnTop, Waiting, Fired, Alive
  <2>3. DialogsOK'
    BY <2>1, <2>2 DEF DialogsOK
  <2> QED
    BY <2>2, <2>3 DEF Used
<1>2. CASE \E i \in DOMAIN layers : BeginClose(i)
  BY <1>2, DialogCloses
<1> QED
  BY <1>1, <1>2 DEF BeginCloseById

-----------------------------------------------------------------------------
(* Commands and messages. *)

Mail == [type : {"close"}, what : Nat] \cup [type : {"make", "stop", "error"}, what : Scans]
        \cup [type : {"open"}, what : Menus \cup Scans] \cup [type : {"dialog"}, what : Dlg]
        \cup [type : {"result"}, what : BOOLEAN] \cup [type : {"reset"}, what : {Main}]

InMail == DOMAIN mail

MailOK ==
  /\ Sparse(mail) /\ InMail \subseteq Mail
  /\ scanner \in [Scans -> {"none", "made", "dropped", "running", "done", "closed"}]
  /\ dialogs \in Nat /\ asked \subseteq Menus \cup Scans

(* A message is its type and what it is about.                             *)
LEMMA MessagesTyped ==
  /\ \A t, x : Msg(t, x).type = t /\ Msg(t, x).what = x
  /\ \A t, x, u, y : Msg(t, x) = Msg(u, y) <=> t = u /\ x = y
  /\ \A id \in Nat : Msg("close", id) \in Mail
  /\ \A s \in Scans : Msg("make", s) \in Mail /\ Msg("stop", s) \in Mail /\ Msg("error", s) \in Mail
  /\ \A s \in Menus \cup Scans : Msg("open", s) \in Mail
  /\ \A d \in Dlg : Msg("dialog", d) \in Mail
  /\ \A ok \in BOOLEAN : Msg("result", ok) \in Mail
  /\ Msg("reset", Main) \in Mail
  /\ \A m \in Mail : /\ m = Msg(m.type, m.what)
                     /\ m.type = "dialog" => m.what \in Dlg
                     /\ m.type = "open" => m.what \in Menus \cup Scans
                     /\ m.type \in {"make", "stop", "error"} => m.what \in Scans
<1>1. \A t, x : Msg(t, x).type = t /\ Msg(t, x).what = x
  BY DEF Msg
<1>2. \A t, x, u, y : Msg(t, x) = Msg(u, y) <=> t = u /\ x = y
  BY DEF Msg
<1>3. \A id \in Nat : Msg("close", id) \in Mail
  BY DEF Msg, Mail
<1>4. \A s \in Scans : Msg("make", s) \in Mail /\ Msg("stop", s) \in Mail /\ Msg("error", s) \in Mail
  BY DEF Msg, Mail
<1>5. \A s \in Menus \cup Scans : Msg("open", s) \in Mail
  BY DEF Msg, Mail
<1>6. \A d \in Dlg : Msg("dialog", d) \in Mail
  BY DEF Msg, Mail
<1>7. \A ok \in BOOLEAN : Msg("result", ok) \in Mail
  BY DEF Msg, Mail
<1>8. Msg("reset", Main) \in Mail
  BY DEF Msg, Mail
<1>9. \A m \in Mail : m = Msg(m.type, m.what)
  BY DEF Msg, Mail
<1>10. \A m \in Mail : /\ m.type = "dialog" => m.what \in Dlg
                       /\ m.type = "open" => m.what \in Menus \cup Scans
                       /\ m.type \in {"make", "stop", "error"} => m.what \in Scans
  BY DEF Mail
<1> QED
  BY <1>1, <1>2, <1>3, <1>4, <1>5, <1>6, <1>7, <1>8, <1>9, <1>10

(* What a key or a command sends is in flight (tea.Batch).                 *)
LEMMA MailSent ==
  ASSUME MailOK, NEW out, out \subseteq Mail,
         \A m \in out : m.type \in Unique => m \notin InMail,
         mail' = Sent(out)
  PROVE  Sparse(mail') /\ InMail' = InMail \cup out /\ InMail' \subseteq Mail
<1>1. Sparse(mail') /\ InMail' = InMail \cup out
  BY Sending DEF MailOK, Sent, InMail
<1> QED
  BY <1>1 DEF MailOK

(* A message that arrived is gone.                                         *)
LEMMA MailTaken ==
  ASSUME MailOK, NEW msg, mail' = Took(msg)
  PROVE  /\ Sparse(mail') /\ InMail' \subseteq InMail /\ InMail' \subseteq Mail
         /\ msg.type \in Unique => msg \notin InMail'
<1>1. /\ Sparse(mail') /\ InMail' \subseteq InMail
      /\ msg.type \in Unique => msg \notin InMail'
  BY Taking DEF MailOK, Took, InMail
<1> QED
  BY <1>1 DEF MailOK

(* A message that arrived is gone and its answers are in flight.           *)
LEMMA MailAnswered ==
  ASSUME MailOK, NEW msg, NEW out, out \subseteq Mail,
         \A m \in out : m.type \in Unique => m \notin InMail,
         mail' = Took(msg) (+) SetToBag(out)
  PROVE  /\ Sparse(mail') /\ InMail' \subseteq InMail \cup out /\ InMail' \subseteq Mail
         /\ msg.type \in Unique /\ msg \notin out => msg \notin InMail'
<1> DEFINE B == Took(msg)
<1>1. /\ Sparse(B) /\ DOMAIN B \subseteq InMail
      /\ msg.type \in Unique => msg \notin DOMAIN B
  BY Taking DEF MailOK, Took, InMail
<1> HIDE DEF B
<1>2. Sparse(B (+) SetToBag(out)) /\ DOMAIN (B (+) SetToBag(out)) = DOMAIN B \cup out
  BY <1>1, Sending
<1>3. Sparse(mail') /\ InMail' = DOMAIN B \cup out
  BY <1>2 DEF B, InMail
<1> QED
  BY <1>1, <1>3 DEF MailOK


(* A dialog that is built waits in a message until it is opened. *)
Built == {d \in Dlg : Msg("dialog", d) \in InMail}

BuiltOK ==
  /\ \A d \in Built : d.id <= dialogs /\ d.id \notin Used
  /\ \A d, e \in Built : d.id = e.id => d = e
  /\ \A id \in Used : id \in Nat /\ id <= dialogs

(* A screen that was asked for is on its way, and opened once at most. *)
Making(s) == Msg("make", s) \in InMail

Opening(s) == Msg("open", s) \in InMail

ComingOK ==
  /\ \A s \in Scans : Making(s) => s \in asked /\ ~Opened(s) /\ ~Opening(s)
  /\ \A s \in Menus \cup Scans : Opening(s) => s \in asked /\ ~Opened(s)
  /\ \A s \in Menus \cup Scans : Opened(s) => s \in asked

(* The scans that a dialog or a command is about to close were opened. *)
Known == Alive \cup Built

Target(s) ==
  \/ Msg("stop", s) \in InMail
  \/ \E d \in Known : d.of = s /\ (d.kind = "confirm" \/ d.does = "stop")

TargetsOK == \A s \in Scans : Target(s) => Opened(s)

(* The stacks are about to be reset. *)
Resetting ==
  \/ Msg("reset", Main) \in InMail
  \/ \E ok \in BOOLEAN : Msg("result", ok) \in InMail
  \/ \E d \in Known : d.does = "reset"

(* No other scan was asked for, and this one was not closed yet. *)
Lone(s) ==
  /\ asked \cap Scans \subseteq {s}
  /\ scanner[s] = "running" \/ Making(s) \/ Opening(s) \/ s \notin asked

QuietOK == \A s \in Scans : Lone(s) => ~Resetting

(* A scan that runs was opened, and is on the stack if it is the only one. *)
ShownOK ==
  \A s \in Scans : scanner[s] = "running" =>
    Opened(s) /\ (asked \cap Scans = {s} => OnScreens(s))

AppOK ==
  /\ ScreensOK /\ DialogsOK /\ MailOK
  /\ BuiltOK /\ ComingOK /\ TargetsOK /\ QuietOK /\ ShownOK

(* The invariant implies what the run checks.                              *)
LEMMA AppImplies ==
  ASSUME AppOK PROVE ClosedOnceEach /\ ScanHasScreen
<1>1. \A s \in DOMAIN closes : closes[s] = 1
  BY DEF AppOK, ScreensOK, Left
<1>2. \A i \in DOMAIN screens : screens[i].s \notin DOMAIN closes
  BY DEF AppOK, ScreensOK, StackOK, Left, Names
<1>3. \A id \in DOMAIN fired : fired[id] = 1
  BY DEF AppOK, DialogsOK, Fired
<1>4. \A id \in DOMAIN fired : \A i \in DOMAIN layers : layers[i].d.id # id
  BY DEF AppOK, DialogsOK, Fired, OnTop
<1>5. ASSUME NEW s \in Scans, scanner[s] = "running", asked \cap Scans = {s} PROVE OnStack(s)
  BY <1>5 DEF AppOK, ShownOK, OnScreens, Names, OnStack
<1> QED
  BY <1>1, <1>2, <1>3, <1>4, <1>5 DEF ClosedOnceEach, ClosedOnce, ScanHasScreen

(***************************************************************************)
(* What a step that asks for no screen and makes no scan run changes: what *)
(* is on its way, what is known and what is about to be closed or reset.   *)
(***************************************************************************)
LEMMA ComingKept ==
  ASSUME ComingOK, UNCHANGED asked, \A x : Opened(x)' <=> Opened(x),
         \A s \in Scans : Making(s)' => Making(s),
         \A s \in Menus \cup Scans : Opening(s)' => Opening(s)
  PROVE  ComingOK'
<1>1. \A s \in Scans : Making(s)' => s \in asked' /\ ~Opened(s)' /\ ~Opening(s)'
  BY DEF ComingOK
<1>2. \A s \in Menus \cup Scans : Opening(s)' => s \in asked' /\ ~Opened(s)'
  BY DEF ComingOK
<1>3. \A s \in Menus \cup Scans : Opened(s)' => s \in asked'
  BY DEF ComingOK
<1> QED
  BY <1>1, <1>2, <1>3 DEF ComingOK

(* The dialogs on their way when none is built or opened.                  *)
LEMMA BuiltKept ==
  ASSUME BuiltOK, UNCHANGED dialogs, Used' \subseteq Used, Built' \subseteq Built
  PROVE  BuiltOK'
<1>1. \A d \in Built' : d.id <= dialogs' /\ d.id \notin Used'
  BY DEF BuiltOK
<1>2. \A d, e \in Built' : d.id = e.id => d = e
  BY DEF BuiltOK
<1>3. \A id \in Used' : id \in Nat /\ id <= dialogs'
  BY DEF BuiltOK
<1> QED
  BY <1>1, <1>2, <1>3 DEF BuiltOK

(* A dialog that is built gets a number of its own.                        *)
LEMMA BuiltOneMore ==
  ASSUME BuiltOK, dialogs \in Nat, dialogs' = dialogs + 1, Used' = Used,
         NEW new \in Dlg, new.id = dialogs + 1, Built' \subseteq Built \cup {new}
  PROVE  BuiltOK'
<1>1. \A d \in Built : d.id \in Nat /\ d.id <= dialogs /\ d.id \notin Used
  BY DEF BuiltOK, Built, Dlg
<1>2. new.id \notin Used
  BY DEF BuiltOK
<1>3. \A d \in Built' : d.id <= dialogs' /\ d.id \notin Used'
  BY <1>1, <1>2
<1>4. \A d \in Built : d.id # new.id
  BY <1>1
<1>5. \A d, e \in Built' : d.id = e.id => d = e
  BY <1>4 DEF BuiltOK
<1>6. \A id \in Used' : id \in Nat /\ id <= dialogs'
  BY DEF BuiltOK
<1> QED
  BY <1>3, <1>5, <1>6 DEF BuiltOK

(* A dialog that is opened is no longer on its way.                        *)
LEMMA BuiltOpened ==
  ASSUME BuiltOK, UNCHANGED dialogs, NEW d \in Built, Used' = Used \cup {d.id},
         Built' \subseteq Built \ {d}
  PROVE  BuiltOK'
<1>1. \A x \in Built' : x.id <= dialogs' /\ x.id \notin Used'
  BY DEF BuiltOK
<1>2. \A x, y \in Built' : x.id = y.id => x = y
  BY DEF BuiltOK
<1>3. \A id \in Used' : id \in Nat /\ id <= dialogs'
  BY DEF BuiltOK, Built, Dlg
<1> QED
  BY <1>1, <1>2, <1>3 DEF BuiltOK

(* Nothing new is closed or reset, unless it was opened or known before. *)
LEMMA ScansKept ==
  ASSUME TargetsOK, QuietOK, ShownOK, UNCHANGED asked,
         \A x : Opened(x) => Opened(x)', \A s \in Scans : OnScreens(s) => OnScreens(s)',
         \A s \in Scans : scanner'[s] = "running" => scanner[s] = "running",
         \A s \in Scans : Making(s)' => Making(s),
         \A s \in Menus \cup Scans : Opening(s)' => Opening(s),
         \A s \in Scans : Target(s)' => Target(s) \/ Opened(s),
         Resetting' => Resetting
  PROVE  TargetsOK' /\ QuietOK' /\ ShownOK'
<1>1. TargetsOK'
  BY DEF TargetsOK
<1>2. \A s \in Scans : Lone(s)' => Lone(s)
  BY DEF Lone
<1>3. QuietOK'
  BY <1>2 DEF QuietOK
<1>4. ShownOK'
  BY DEF ShownOK
<1> QED
  BY <1>1, <1>3, <1>4

(* A scan is closed, and the answer is on its way. *)
LEMMA ScanStopped ==
  ASSUME TargetsOK, ShownOK, ComingOK, ComingOK', UNCHANGED asked,
         NEW x \in Scans, Opened(x), scanner'[x] = "closed",
         \A y : Opened(y)' <=> Opened(y), \A s \in Scans : OnScreens(s) => OnScreens(s)',
         \A s \in Scans : scanner'[s] = "running" => scanner[s] = "running",
         \A s \in Scans : Target(s)' => Target(s)
  PROVE  TargetsOK' /\ QuietOK' /\ ShownOK'
<1>1. TargetsOK'
  BY DEF TargetsOK
<1>2. x \in asked' /\ Opened(x)'
  BY DEF ComingOK
<1>3. \A s \in Scans : ~Lone(s)'
  <2>1. ~Making(x)' /\ ~Opening(x)'
    BY <1>2 DEF ComingOK
  <2>2. \A s \in Scans : asked' \cap Scans \subseteq {s} => s = x
    BY <1>2
  <2> QED
    BY <1>2, <2>1, <2>2 DEF Lone
<1>4. QuietOK'
  BY <1>3 DEF QuietOK
<1>5. ShownOK'
  BY DEF ShownOK
<1> QED
  BY <1>1, <1>4, <1>5


(* A step of the screens leaves the dialogs as they are.                   *)
LEMMA DialogsStay ==
  ASSUME DialogsOK, UNCHANGED dialogVars
  PROVE  DialogsOK' /\ Used' = Used /\ Alive' = Alive
<1>1. UNCHANGED <<layers, dticks, chains, fired>>
  BY DEF dialogVars
<1>2. OnTop' = OnTop /\ Waiting' = Waiting /\ Fired' = Fired /\ Alive' = Alive
  BY <1>1 DEF OnTop, Waiting, Fired, Alive
<1>3. DialogsOK'
  BY <1>1, <1>2 DEF DialogsOK
<1> QED
  BY <1>2, <1>3 DEF Used

(* A step of the dialogs leaves the screens as they are.                   *)
LEMMA ScreensStay ==
  ASSUME ScreensOK, UNCHANGED screenVars
  PROVE  /\ ScreensOK' /\ \A x : Opened(x)' <=> Opened(x)
         /\ \A x \in Scans : OnScreens(x) => OnScreens(x)'
<1>1. UNCHANGED <<screens, swap, ticks, closes, animated, panicked>>
  BY DEF screenVars
<1>2. Left' = Left /\ Names(screens') = Names(screens)
  BY <1>1 DEF Left
<1> QED
  BY <1>1, <1>2 DEF ScreensOK, StackOK, Opened, OnScreens

ScannerStates == {"none", "made", "dropped", "running", "done", "closed"}

(* A step that opens nothing, builds no dialog and closes no scan: what it  *)
(* sends asks to close a dialog or an opened scan, tells an error, or        *)
(* resets the stacks because that was coming anyway.                        *)
LEMMA Routine ==
  ASSUME AppOK, ScreensOK', DialogsOK', Sparse(mail'), InMail' \subseteq Mail,
         scanner' \in [Scans -> ScannerStates],
         \A s \in Scans : scanner'[s] = "running" => scanner[s] = "running",
         UNCHANGED <<asked, dialogs>>,
         \A x : Opened(x)' <=> Opened(x), \A x \in Scans : OnScreens(x) => OnScreens(x)',
         Used' \subseteq Used, Alive' \subseteq Alive,
         NEW out, InMail' \subseteq InMail \cup out,
         \A m \in out : /\ m.type \in {"close", "stop", "error", "reset"}
                        /\ m.type = "stop" => Opened(m.what)
                        /\ m.type = "reset" => Resetting
  PROVE  AppOK'
<1>1. MailOK'
  BY DEF AppOK, MailOK, ScannerStates
<1>2. \A t, x : Msg(t, x) \in out => /\ t \in {"close", "stop", "error", "reset"}
                                     /\ t = "stop" => Opened(x)
                                     /\ t = "reset" => Resetting
  BY MessagesTyped
<1>3. \A t, x : Msg(t, x) \in InMail' => Msg(t, x) \in InMail \/ Msg(t, x) \in out
  OBVIOUS
<1>4. \A s : (Making(s)' => Making(s)) /\ (Opening(s)' => Opening(s))
  BY <1>2, <1>3 DEF Making, Opening
<1>5. Built' \subseteq Built
  BY <1>2, <1>3 DEF Built
<1>6. Known' \subseteq Known
  BY <1>5 DEF Known
<1>7. \A s \in Scans : Target(s)' => Target(s) \/ Opened(s)
  BY <1>2, <1>3, <1>6 DEF Target
<1>8. Resetting' => Resetting
  BY <1>2, <1>3, <1>6 DEF Resetting
<1>9. ComingOK'
  BY <1>4, ComingKept DEF AppOK
<1>10. BuiltOK'
  BY <1>5, BuiltKept DEF AppOK
<1>11. TargetsOK' /\ QuietOK' /\ ShownOK'
  BY <1>4, <1>7, <1>8, ScansKept DEF AppOK
<1> QED
  BY <1>1, <1>9, <1>10, <1>11 DEF AppOK


(* The same of a step that sends nothing. *)
LEMMA Silent ==
  ASSUME AppOK, ScreensOK', DialogsOK', Sparse(mail'), InMail' \subseteq Mail,
         scanner' \in [Scans -> ScannerStates],
         \A s \in Scans : scanner'[s] = "running" => scanner[s] = "running",
         UNCHANGED <<asked, dialogs>>,
         \A x : Opened(x)' <=> Opened(x), \A x \in Scans : OnScreens(x) => OnScreens(x)',
         Used' \subseteq Used, Alive' \subseteq Alive, InMail' \subseteq InMail
  PROVE  AppOK'
<1> DEFINE out == {}
<1>1. InMail' \subseteq InMail \cup out /\ \A m \in out : FALSE
  OBVIOUS
<1> HIDE DEF out
<1>2. \A m \in out : /\ m.type \in {"close", "stop", "error", "reset"}
                     /\ m.type = "stop" => Opened(m.what)
                     /\ m.type = "reset" => Resetting
  BY <1>1
<1> QED
  BY <1>1, <1>2, Routine

(* The top dialog is known, and the scan it confirms was opened.           *)
LEMMA TopDialog ==
  ASSUME AppOK, HasDialog
  PROVE  /\ Len(layers) \in DOMAIN layers
         /\ TopLayer.d \in Dlg /\ TopLayer.d \in Alive /\ TopLayer.d.id \in Nat
         /\ TopLayer.d.kind = "confirm" => TopLayer.d.of \in Scans /\ Opened(TopLayer.d.of)
<1>1. /\ layers \in Seq(Layer) /\ layers # <<>> /\ DOMAIN layers = 1..Len(layers)
      /\ Len(layers) \in Nat \ {0}
  BY LenProperties, EmptySeq DEF AppOK, DialogsOK, HasDialog
<1>2. Len(layers) \in DOMAIN layers /\ TopLayer = layers[Len(layers)]
  BY <1>1 DEF TopLayer, Last
<1>3. layers[Len(layers)] \in Layer
  BY <1>1, <1>2, ElementOfSeq
<1>4. TopLayer.d \in Dlg /\ TopLayer.d \in Alive
  BY <1>2, <1>3 DEF Layer, Alive
<1>5. TopLayer.d.id \in Nat /\ (TopLayer.d.kind = "confirm" => TopLayer.d.of \in Scans)
  BY <1>4 DEF Dlg
<1>6. TopLayer.d.kind = "confirm" => Opened(TopLayer.d.of)
  BY <1>4, <1>5 DEF Target, Known, AppOK, TargetsOK
<1> QED
  BY <1>2, <1>4, <1>5, <1>6

(* Nothing is sent or taken.                                               *)
LEMMA MailStays ==
  ASSUME AppOK, UNCHANGED mail
  PROVE  Sparse(mail') /\ InMail' = InMail /\ InMail' \subseteq Mail
BY DEF AppOK, MailOK, InMail

(* Going back closes the top dialog or a menu.                             *)
LEMMA KeyBackKeeps == ASSUME AppOK, KeyBack PROVE AppOK'
<1>1. UNCHANGED <<mail, scanner, asked, dialogs>>
  BY DEF KeyBack
<1>2. scanner' \in [Scans -> ScannerStates]
  BY <1>1 DEF AppOK, MailOK, ScannerStates
<1>3. CASE OpenDialogOnTop /\ BeginCloseTop /\ UNCHANGED screenVars
  <2>1. DialogsOK' /\ Used' = Used /\ Alive' = Alive
    BY <1>3, TopDialog, DialogCloses DEF OpenDialogOnTop, BeginCloseTop, AppOK
  <2>2. ScreensOK' /\ (\A x : Opened(x)' <=> Opened(x)) /\ \A x \in Scans : OnScreens(x) => OnScreens(x)'
    BY <1>3, ScreensStay DEF AppOK
  <2>3. Sparse(mail') /\ InMail' \subseteq InMail /\ InMail' \subseteq Mail
    BY <1>1, MailStays
  <2> QED
    BY <1>1, <1>2, <2>1, <2>2, <2>3, Silent
<1>4. CASE KeysReachScreen /\ ~TopScan /\ PopScreen /\ UNCHANGED dialogVars
  <2>1. DialogsOK' /\ Used' = Used /\ Alive' = Alive
    BY <1>4, DialogsStay DEF AppOK
  <2>2. ScreensOK' /\ (\A x : Opened(x)' <=> Opened(x)) /\ \A x \in Scans : OnScreens(x) => OnScreens(x)'
    BY <1>4, ScreenPopped DEF AppOK
  <2>3. Sparse(mail') /\ InMail' \subseteq InMail /\ InMail' \subseteq Mail
    BY <1>1, MailStays
  <2> QED
    BY <1>1, <1>2, <2>1, <2>2, <2>3, Silent
<1> QED
  BY <1>3, <1>4 DEF KeyBack

(* A dialog answers with its id and the scan it is about.                  *)
LEMMA KeyEnterKeeps == ASSUME AppOK, KeyEnter PROVE AppOK'
<1> DEFINE d == TopLayer.d
<1>1. UNCHANGED <<dialogVars, screenVars, scanner, asked, dialogs>> /\ HasDialog
  BY DEF KeyEnter, OpenDialogOnTop
<1>2. scanner' \in [Scans -> ScannerStates]
  BY <1>1 DEF AppOK, MailOK, ScannerStates
<1>3. DialogsOK' /\ Used' = Used /\ Alive' = Alive
  BY <1>1, DialogsStay DEF AppOK
<1>4. ScreensOK' /\ (\A x : Opened(x)' <=> Opened(x)) /\ \A x \in Scans : OnScreens(x) => OnScreens(x)'
  BY <1>1, ScreensStay DEF AppOK
<1>5. d.id \in Nat /\ (d.kind = "confirm" => d.of \in Scans /\ Opened(d.of))
  BY <1>1, TopDialog
<1>6. PICK out : /\ mail' = Sent(out)
                 /\ out \subseteq {Msg("close", d.id), Msg("stop", d.of)}
                 /\ Msg("stop", d.of) \in out => d.kind = "confirm"
  <2>1. Msg("stop", d.of) # Msg("close", d.id)
    BY MessagesTyped
  <2>2. CASE mail' = Sent({Msg("close", d.id)})
    BY <2>1, <2>2
  <2>3. CASE d.kind = "confirm" /\ mail' = Sent({Msg("close", d.id), Msg("stop", d.of)})
    BY <2>3
  <2> QED
    BY <2>2, <2>3 DEF KeyEnter
<1> HIDE DEF d
<1>7. \A m \in out : \/ m.type = "close" /\ m \in Mail
                     \/ m.type = "stop" /\ m.what = d.of /\ m \in Mail /\ Opened(d.of)
  BY <1>5, <1>6, MessagesTyped
<1>8. Sparse(mail') /\ InMail' = InMail \cup out /\ InMail' \subseteq Mail
  <2>1. out \subseteq Mail /\ \A m \in out : m.type \in Unique => m \notin InMail
    BY <1>7 DEF Unique
  <2> QED
    BY <1>6, <2>1, MailSent DEF AppOK
<1> QED
  BY <1>1, <1>2, <1>3, <1>4, <1>7, <1>8, Routine


(* A screen is asked for: only the scans' screens say whose scan is alone. *)
LEMMA SelectMenuKeeps ==
  ASSUME AppOK, NEW s \in Menus, s \notin asked, SelectMenu(s)
  PROVE  AppOK'
<1>1. /\ UNCHANGED <<dialogVars, screenVars, scanner, dialogs>>
      /\ asked' = asked \cup {s} /\ mail' = Sent({Msg("open", s)})
  BY DEF SelectMenu
<1>2. DialogsOK' /\ Used' = Used /\ Alive' = Alive
  BY <1>1, DialogsStay DEF AppOK
<1>3. ScreensOK' /\ (\A x : Opened(x)' <=> Opened(x)) /\ \A x \in Scans : OnScreens(x) => OnScreens(x)'
  BY <1>1, ScreensStay DEF AppOK
<1>4. ~Opening(s) /\ ~Opened(s) /\ s \notin Scans
  BY ScreensAssumption DEF AppOK, ComingOK
<1>5. Sparse(mail') /\ InMail' = InMail \cup {Msg("open", s)} /\ InMail' \subseteq Mail
  <2>1. {Msg("open", s)} \subseteq Mail
    BY MessagesTyped
  <2>2. \A m \in {Msg("open", s)} : m.type \in Unique => m \notin InMail
    BY <1>4 DEF Opening
  <2> QED
    BY <1>1, <2>1, <2>2, MailSent DEF AppOK
<1>6. \A t, x : Msg(t, x) \in InMail' <=> Msg(t, x) \in InMail \/ (t = "open" /\ x = s)
  BY <1>5, MessagesTyped
<1>7. Built' = Built /\ Known' = Known
  <2>1. Built' = Built
    BY <1>6 DEF Built
  <2> QED
    BY <1>2, <2>1 DEF Known
<1>8. \A x \in Scans : /\ Making(x)' <=> Making(x)
                       /\ Opening(x)' <=> Opening(x)
                       /\ Target(x)' <=> Target(x)
                       /\ Lone(x)' => Lone(x)
  <2>1. \A x \in Scans : Making(x)' <=> Making(x)
    BY <1>6 DEF Making
  <2>2. \A x \in Scans : Opening(x)' <=> Opening(x)
    BY <1>4, <1>6 DEF Opening
  <2>3. \A x \in Scans : Target(x)' <=> Target(x)
    BY <1>6, <1>7 DEF Target
  <2>4. \A x \in Scans : Lone(x)' => Lone(x)
    BY <1>1, <1>4, <2>1, <2>2 DEF Lone
  <2> QED
    BY <2>1, <2>2, <2>3, <2>4
<1>9. Resetting' => Resetting
  BY <1>6, <1>7 DEF Resetting
<1>10. MailOK'
  BY <1>1, <1>5 DEF AppOK, MailOK
<1>11. BuiltOK'
  BY <1>1, <1>2, <1>7, BuiltKept DEF AppOK
<1>12. ComingOK'
  <2>1. \A x \in Scans : Making(x)' => x \in asked' /\ ~Opened(x)' /\ ~Opening(x)'
    BY <1>1, <1>3, <1>8 DEF AppOK, ComingOK
  <2>2. \A x \in Menus \cup Scans : Opening(x)' => x \in asked' /\ ~Opened(x)'
    BY <1>1, <1>3, <1>4, <1>6 DEF AppOK, ComingOK, Opening
  <2>3. \A x \in Menus \cup Scans : Opened(x)' => x \in asked'
    BY <1>1, <1>3 DEF AppOK, ComingOK
  <2> QED
    BY <2>1, <2>2, <2>3 DEF ComingOK
<1>13. TargetsOK'
  BY <1>3, <1>8 DEF AppOK, TargetsOK
<1>14. QuietOK'
  BY <1>8, <1>9 DEF AppOK, QuietOK
<1>15. ShownOK'
  <2>1. asked' \cap Scans = asked \cap Scans
    BY <1>1, <1>4
  <2> QED
    BY <1>1, <1>3, <2>1 DEF AppOK, ShownOK
<1> QED
  BY <1>2, <1>3, <1>10, <1>11, <1>12, <1>13, <1>14, <1>15 DEF AppOK

(* A scan is asked for: after it no other scan is the only one.            *)
LEMMA SelectScanKeeps ==
  ASSUME AppOK, NEW s \in Scans, s \notin asked, SelectScan(s)
  PROVE  AppOK'
<1>1. /\ UNCHANGED <<dialogVars, screenVars, scanner, dialogs>>
      /\ asked' = asked \cup {s} /\ mail' = Sent({Msg("make", s)})
  BY DEF SelectScan
<1>2. DialogsOK' /\ Used' = Used /\ Alive' = Alive
  BY <1>1, DialogsStay DEF AppOK
<1>3. ScreensOK' /\ (\A x : Opened(x)' <=> Opened(x)) /\ \A x \in Scans : OnScreens(x) => OnScreens(x)'
  BY <1>1, ScreensStay DEF AppOK
<1>4. ~Making(s) /\ ~Opening(s) /\ ~Opened(s)
  BY DEF AppOK, ComingOK
<1>5. Sparse(mail') /\ InMail' = InMail \cup {Msg("make", s)} /\ InMail' \subseteq Mail
  <2>1. {Msg("make", s)} \subseteq Mail
    BY MessagesTyped
  <2>2. \A m \in {Msg("make", s)} : m.type \in Unique => m \notin InMail
    BY <1>4 DEF Making
  <2> QED
    BY <1>1, <2>1, <2>2, MailSent DEF AppOK
<1>6. \A t, x : Msg(t, x) \in InMail' <=> Msg(t, x) \in InMail \/ (t = "make" /\ x = s)
  BY <1>5, MessagesTyped
<1>7. Built' = Built /\ Known' = Known
  <2>1. Built' = Built
    BY <1>6 DEF Built
  <2> QED
    BY <1>2, <2>1 DEF Known
<1>8. /\ \A x \in Menus \cup Scans : Opening(x)' <=> Opening(x)
      /\ \A x \in Scans : (Making(x)' => Making(x) \/ x = s) /\ (Target(x)' <=> Target(x))
  <2>1. \A x \in Menus \cup Scans : Opening(x)' <=> Opening(x)
    BY <1>6 DEF Opening
  <2>2. \A x \in Scans : Making(x)' => Making(x) \/ x = s
    BY <1>6 DEF Making
  <2>3. \A x \in Scans : Target(x)' <=> Target(x)
    BY <1>6, <1>7 DEF Target
  <2> QED
    BY <2>1, <2>2, <2>3
<1>9. \A x \in Scans : Lone(x)' => x = s /\ Lone(x)
  BY <1>1 DEF Lone
<1>10. Resetting' => Resetting
  BY <1>6, <1>7 DEF Resetting
<1>11. MailOK'
  BY <1>1, <1>5 DEF AppOK, MailOK
<1>12. BuiltOK'
  BY <1>1, <1>2, <1>7, BuiltKept DEF AppOK
<1>13. ComingOK'
  <2>1. \A x \in Scans : Making(x)' => x \in asked' /\ ~Opened(x)' /\ ~Opening(x)'
    BY <1>1, <1>3, <1>4, <1>8 DEF AppOK, ComingOK
  <2>2. \A x \in Menus \cup Scans : Opening(x)' => x \in asked' /\ ~Opened(x)'
    BY <1>1, <1>3, <1>8 DEF AppOK, ComingOK
  <2>3. \A x \in Menus \cup Scans : Opened(x)' => x \in asked'
    BY <1>1, <1>3 DEF AppOK, ComingOK
  <2> QED
    BY <2>1, <2>2, <2>3 DEF ComingOK
<1>14. TargetsOK'
  BY <1>3, <1>8 DEF AppOK, TargetsOK
<1>15. QuietOK'
  BY <1>9, <1>10 DEF AppOK, QuietOK
<1>16. ShownOK'
  <2>1. scanner[s] # "running" /\ \A x \in Scans : asked' \cap Scans = {x} => x = s
    BY <1>1, <1>4 DEF AppOK, ShownOK
  <2> QED
    BY <1>1, <1>3, <2>1 DEF AppOK, ShownOK
<1> QED
  BY <1>2, <1>3, <1>11, <1>12, <1>13, <1>14, <1>15, <1>16 DEF AppOK


(* A dialog is built and sent to be opened. *)
LEMMA DialogSent ==
  ASSUME AppOK, UNCHANGED <<dialogVars, screenVars, scanner, asked>>, dialogs' = dialogs + 1,
         NEW new \in Dlg, new.id = dialogs + 1,
         new.kind = "confirm" \/ new.does = "stop" => Opened(new.of),
         new.does = "reset" => Resetting,
         Sparse(mail'), InMail' \subseteq Mail, InMail' \subseteq InMail \cup {Msg("dialog", new)}
  PROVE  AppOK'
<1>1. DialogsOK' /\ Used' = Used /\ Alive' = Alive
  BY DialogsStay DEF AppOK
<1>2. ScreensOK' /\ (\A x : Opened(x)' <=> Opened(x)) /\ \A x \in Scans : OnScreens(x) => OnScreens(x)'
  BY ScreensStay DEF AppOK
<1>3. \A t, x : Msg(t, x) \in InMail' => Msg(t, x) \in InMail \/ (t = "dialog" /\ x = new)
  BY MessagesTyped
<1>4. Built' \subseteq Built \cup {new}
  BY <1>3 DEF Built
<1>5. Known' \subseteq Known \cup {new}
  BY <1>1, <1>4 DEF Known
<1>6. \A s : (Making(s)' => Making(s)) /\ (Opening(s)' => Opening(s))
  BY <1>3 DEF Making, Opening
<1>7. \A s \in Scans : Target(s)' => Target(s) \/ Opened(s)
  BY <1>3, <1>5 DEF Target
<1>8. Resetting' => Resetting
  BY <1>3, <1>5 DEF Resetting
<1>9. MailOK'
  BY DEF AppOK, MailOK
<1>10. BuiltOK'
  BY <1>1, <1>4, BuiltOneMore DEF AppOK, MailOK
<1>11. ComingOK'
  BY <1>2, <1>6, ComingKept DEF AppOK
<1>12. TargetsOK' /\ QuietOK' /\ ShownOK'
  BY <1>2, <1>6, <1>7, <1>8, ScansKept DEF AppOK
<1> QED
  BY <1>1, <1>2, <1>9, <1>10, <1>11, <1>12 DEF AppOK

(* A scan's screen on top was opened.                                      *)
LEMMA TopScanOpened ==
  ASSUME ScreensOK, TopScan
  PROVE  TopScreen.s \in Scans /\ Opened(TopScreen.s)
<1>1. /\ screens \in Seq(Entry) /\ screens # <<>> /\ DOMAIN screens = 1..Len(screens)
      /\ Len(screens) \in Nat \ {0}
  BY LenProperties, EmptySeq DEF ScreensOK, StackOK
<1>2. Len(screens) \in DOMAIN screens /\ TopScreen = screens[Len(screens)]
  BY <1>1 DEF TopScreen, Last
<1> QED
  BY <1>2 DEF TopScan, Opened, OnScreens, Names

(* Leaving a scan builds the dialog that asks about it.                    *)
LEMMA KeyCancelKeeps == ASSUME AppOK, KeyCancel PROVE AppOK'
<1> DEFINE new == Dialog("confirm", "nothing", TopScreen.s)
<1>1. /\ UNCHANGED <<dialogVars, screenVars, scanner, asked>> /\ dialogs' = dialogs + 1
      /\ mail' = Sent({Msg("dialog", new)}) /\ TopScan
  BY DEF KeyCancel
<1>2. TopScreen.s \in Scans /\ Opened(TopScreen.s)
  BY <1>1, TopScanOpened DEF AppOK
<1>3. /\ new \in Dlg /\ new.id = dialogs + 1 /\ new.of = TopScreen.s
      /\ new.kind = "confirm" /\ new.does = "nothing"
  BY <1>2 DEF Dialog, Dlg, AppOK, MailOK
<1> HIDE DEF new
<1>4. new \notin Built
  BY <1>3 DEF AppOK, MailOK, BuiltOK
<1>5. Sparse(mail') /\ InMail' = InMail \cup {Msg("dialog", new)} /\ InMail' \subseteq Mail
  <2>1. {Msg("dialog", new)} \subseteq Mail
    BY <1>3, MessagesTyped
  <2>2. \A m \in {Msg("dialog", new)} : m.type \in Unique => m \notin InMail
    BY <1>3, <1>4 DEF Built
  <2> QED
    BY <1>1, <2>1, <2>2, MailSent DEF AppOK
<1> QED
  BY <1>1, <1>2, <1>3, <1>5, DialogSent

(* The answers to a notice are one more dialog. *)
LEMMA NoticeSent ==
  ASSUME AppOK, UNCHANGED <<dialogVars, screenVars, scanner, asked>>, dialogs' = dialogs + 1,
         NEW msg, NEW does \in {"reset", "stop"}, NEW of \in Scans \cup {Main},
         does = "stop" => of \in Scans /\ Opened(of), does = "reset" => Resetting,
         mail' = Took(msg) (+) SetToBag({Msg("dialog", Dialog("notice", does, of))})
  PROVE  AppOK'
<1> DEFINE new == Dialog("notice", does, of)
<1>1. /\ new \in Dlg /\ new.id = dialogs + 1 /\ new.of = of
      /\ new.kind = "notice" /\ new.does = does
  BY DEF Dialog, Dlg, AppOK, MailOK
<1>2. mail' = Took(msg) (+) SetToBag({Msg("dialog", new)})
  OBVIOUS
<1> HIDE DEF new
<1>3. new \notin Built
  BY <1>1 DEF AppOK, MailOK, BuiltOK
<1>4. Sparse(mail') /\ InMail' \subseteq InMail \cup {Msg("dialog", new)} /\ InMail' \subseteq Mail
  <2>1. {Msg("dialog", new)} \subseteq Mail
    BY <1>1, MessagesTyped
  <2>2. \A m \in {Msg("dialog", new)} : m.type \in Unique => m \notin InMail
    BY <1>1, <1>3 DEF Built
  <2> QED
    BY <1>2, <2>1, <2>2, MailAnswered DEF AppOK
<1> QED
  BY <1>1, <1>4, DialogSent

(* What Close returned is dropped, resets the stacks or builds a notice.   *)
LEMMA ScanCloseResultKeeps ==
  ASSUME AppOK, NEW ok \in BOOLEAN, ScanCloseResult(ok)
  PROVE  AppOK'
<1>1. UNCHANGED <<dialogVars, screenVars, scanner, asked>> /\ Msg("result", ok) \in InMail
  BY DEF ScanCloseResult, InMail, BagToSet
<1>2. Resetting
  BY <1>1 DEF Resetting
<1>3. scanner' \in [Scans -> ScannerStates]
  BY <1>1 DEF AppOK, MailOK, ScannerStates
<1>4. DialogsOK' /\ Used' = Used /\ Alive' = Alive
  BY <1>1, DialogsStay DEF AppOK
<1>5. ScreensOK' /\ (\A x : Opened(x)' <=> Opened(x)) /\ \A x \in Scans : OnScreens(x) => OnScreens(x)'
  BY <1>1, ScreensStay DEF AppOK
<1>6. CASE ~TopScan
  <2>1. mail' = Took(Msg("result", ok)) /\ UNCHANGED dialogs
    BY <1>6 DEF ScanCloseResult
  <2>2. Sparse(mail') /\ InMail' \subseteq InMail /\ InMail' \subseteq Mail
    BY <2>1, MailTaken DEF AppOK
  <2> QED
    BY <1>1, <1>3, <1>4, <1>5, <2>1, <2>2, Silent
<1>7. CASE TopScan /\ ok
  <2> DEFINE out == {Msg("reset", Main)}
  <2>1. mail' = Took(Msg("result", ok)) (+) SetToBag(out) /\ UNCHANGED dialogs
    BY <1>7 DEF ScanCloseResult
  <2>2. out \subseteq Mail /\ \A m \in out : m.type = "reset"
    BY MessagesTyped
  <2> HIDE DEF out
  <2>3. \A m \in out : m.type \in Unique => m \notin InMail
    BY <2>2 DEF Unique
  <2>4. Sparse(mail') /\ InMail' \subseteq InMail \cup out /\ InMail' \subseteq Mail
    BY <2>1, <2>2, <2>3, MailAnswered DEF AppOK
  <2> QED
    BY <1>1, <1>2, <1>3, <1>4, <1>5, <2>1, <2>2, <2>4, Routine
<1>8. CASE TopScan /\ ~ok
  <2>1. /\ mail' = Took(Msg("result", ok)) (+) SetToBag({Msg("dialog", Dialog("notice", "reset", Main))})
        /\ dialogs' = dialogs + 1
    BY <1>8 DEF ScanCloseResult
  <2> QED
    BY <1>1, <1>2, <2>1, NoticeSent
<1> QED
  BY <1>6, <1>7, <1>8

(* An error is dropped or builds a notice about the scan on top.           *)
LEMMA ScanErrorKeeps ==
  ASSUME AppOK, NEW s \in Scans, ScanError(s)
  PROVE  AppOK'
<1>1. UNCHANGED <<dialogVars, screenVars, scanner, asked>>
  BY DEF ScanError
<1>2. CASE ~TopScan
  <2>1. mail' = Took(Msg("error", s)) /\ UNCHANGED dialogs
    BY <1>2 DEF ScanError
  <2>2. Sparse(mail') /\ InMail' \subseteq InMail /\ InMail' \subseteq Mail
    BY <2>1, MailTaken DEF AppOK
  <2>3. scanner' \in [Scans -> ScannerStates]
    BY <1>1 DEF AppOK, MailOK, ScannerStates
  <2>4. DialogsOK' /\ Used' = Used /\ Alive' = Alive
    BY <1>1, DialogsStay DEF AppOK
  <2>5. ScreensOK' /\ (\A x : Opened(x)' <=> Opened(x)) /\ \A x \in Scans : OnScreens(x) => OnScreens(x)'
    BY <1>1, ScreensStay DEF AppOK
  <2> QED
    BY <1>1, <2>1, <2>2, <2>3, <2>4, <2>5, Silent
<1>3. CASE TopScan
  <2>1. /\ mail' = Took(Msg("error", s))
                     (+) SetToBag({Msg("dialog", Dialog("notice", "stop", TopScreen.s))})
        /\ dialogs' = dialogs + 1
    BY <1>3 DEF ScanError
  <2>2. TopScreen.s \in Scans /\ Opened(TopScreen.s)
    BY <1>3, TopScanOpened DEF AppOK
  <2> QED
    BY <1>1, <2>1, <2>2, NoticeSent
<1> QED
  BY <1>2, <1>3


(* A scanner is handed to its screen, which is not open yet.               *)
LEMMA MakeScannerKeeps ==
  ASSUME AppOK, NEW s \in Scans, MakeScanner(s)
  PROVE  AppOK'
<1>1. UNCHANGED <<dialogVars, screenVars, asked, dialogs>> /\ Making(s)
  BY DEF MakeScanner, Making, InMail, BagToSet
<1>2. DialogsOK' /\ Used' = Used /\ Alive' = Alive
  BY <1>1, DialogsStay DEF AppOK
<1>3. ScreensOK' /\ (\A x : Opened(x)' <=> Opened(x)) /\ \A x \in Scans : OnScreens(x) => OnScreens(x)'
  BY <1>1, ScreensStay DEF AppOK
<1>4. s \in asked /\ ~Opened(s) /\ ~Opening(s)
  BY <1>1 DEF AppOK, ComingOK
<1>5. /\ scanner' \in [Scans -> ScannerStates]
      /\ \A x \in Scans : scanner'[x] = "running" => scanner[x] = "running"
  <2>1. PICK rem \in {"made", "none", "closed", "dropped"} : scanner' = [scanner EXCEPT ![s] = rem]
    BY DEF MakeScanner
  <2> QED
    BY <2>1 DEF AppOK, MailOK, ScannerStates
<1>6. /\ Sparse(mail') /\ InMail' \subseteq InMail \cup {Msg("open", s)} /\ InMail' \subseteq Mail
      /\ ~Making(s)'
  <2>1. CASE mail' = Took(Msg("make", s)) (+) SetToBag({Msg("open", s)})
    <3>1. {Msg("open", s)} \subseteq Mail
      BY MessagesTyped
    <3>2. \A m \in {Msg("open", s)} : m.type \in Unique => m \notin InMail
      BY <1>4 DEF Opening
    <3>3. Msg("make", s).type \in Unique /\ Msg("make", s) \notin {Msg("open", s)}
      BY MessagesTyped DEF Unique
    <3> QED
      BY <2>1, <3>1, <3>2, <3>3, MailAnswered DEF AppOK, Making
  <2>2. CASE mail' = Took(Msg("make", s))
    <3>1. Msg("make", s).type \in Unique
      BY MessagesTyped DEF Unique
    <3> QED
      BY <2>2, <3>1, MailTaken DEF AppOK, Making
  <2> QED
    BY <2>1, <2>2 DEF MakeScanner
<1>7. \A t, x : Msg(t, x) \in InMail' => Msg(t, x) \in InMail \/ (t = "open" /\ x = s)
  BY <1>6, MessagesTyped
<1>8. Built' \subseteq Built /\ Known' \subseteq Known
  <2>1. Built' \subseteq Built
    BY <1>7 DEF Built
  <2> QED
    BY <1>2, <2>1 DEF Known
<1>9. /\ \A x \in Menus \cup Scans : Opening(x)' => Opening(x) \/ x = s
      /\ \A x \in Scans : Making(x)' => Making(x) /\ x # s
      /\ \A x \in Scans : Target(x)' => Target(x)
  <2>1. \A x \in Menus \cup Scans : Opening(x)' => Opening(x) \/ x = s
    BY <1>7 DEF Opening
  <2>2. \A x \in Scans : Making(x)' => Making(x) /\ x # s
    BY <1>6, <1>7 DEF Making
  <2>3. \A x \in Scans : Target(x)' => Target(x)
    BY <1>7, <1>8 DEF Target
  <2> QED
    BY <2>1, <2>2, <2>3
<1>10. \A x \in Scans : Lone(x)' => Lone(x)
  BY <1>1, <1>5, <1>9 DEF Lone
<1>11. Resetting' => Resetting
  BY <1>7, <1>8 DEF Resetting
<1>12. MailOK'
  BY <1>1, <1>5, <1>6 DEF AppOK, MailOK, ScannerStates
<1>13. BuiltOK'
  BY <1>1, <1>2, <1>8, BuiltKept DEF AppOK
<1>14. ComingOK'
  <2>1. \A x \in Scans : Making(x)' => x \in asked' /\ ~Opened(x)' /\ ~Opening(x)'
    BY <1>1, <1>3, <1>9 DEF AppOK, ComingOK
  <2>2. \A x \in Menus \cup Scans : Opening(x)' => x \in asked' /\ ~Opened(x)'
    BY <1>1, <1>3, <1>4, <1>9 DEF AppOK, ComingOK
  <2>3. \A x \in Menus \cup Scans : Opened(x)' => x \in asked'
    BY <1>1, <1>3 DEF AppOK, ComingOK
  <2> QED
    BY <2>1, <2>2, <2>3 DEF ComingOK
<1>15. TargetsOK'
  BY <1>3, <1>9 DEF AppOK, TargetsOK
<1>16. QuietOK'
  BY <1>10, <1>11 DEF AppOK, QuietOK
<1>17. ShownOK'
  BY <1>1, <1>3, <1>5 DEF AppOK, ShownOK
<1> QED
  BY <1>2, <1>3, <1>12, <1>13, <1>14, <1>15, <1>16, <1>17 DEF AppOK

(* A screen is opened once, and a scan runs on its own screen.             *)
LEMMA OpenComponentKeeps ==
  ASSUME AppOK, NEW s \in Menus \cup Scans, OpenComponent(s)
  PROVE  AppOK'
<1>1. /\ UNCHANGED <<dialogVars, asked, dialogs>> /\ Opening(s) /\ PushScreen(s)
      /\ mail' = Took(Msg("open", s))
      /\ scanner' = [x \in Scans |-> IF x = s THEN "running" ELSE scanner[x]]
  BY DEF OpenComponent, Opening, InMail, BagToSet
<1>2. DialogsOK' /\ Used' = Used /\ Alive' = Alive
  BY <1>1, DialogsStay DEF AppOK
<1>3. s \in asked /\ ~Opened(s) /\ \A x \in Scans : Making(x) => x # s
  BY <1>1 DEF AppOK, ComingOK
<1>4. /\ ScreensOK' /\ OnScreens(s)' /\ (\A x : Opened(x)' <=> Opened(x) \/ x = s)
      /\ \A x \in Scans : OnScreens(x) => OnScreens(x)'
  BY <1>1, <1>3, ScreenPushed DEF AppOK, AnyScreen
<1>5. Sparse(mail') /\ InMail' \subseteq InMail /\ InMail' \subseteq Mail /\ ~Opening(s)'
  <2>1. Msg("open", s).type \in Unique
    BY MessagesTyped DEF Unique
  <2> QED
    BY <1>1, <2>1, MailTaken DEF AppOK, Opening
<1>6. Built' \subseteq Built /\ Known' \subseteq Known
  <2>1. Built' \subseteq Built
    BY <1>5 DEF Built
  <2> QED
    BY <1>2, <2>1 DEF Known
<1>7. /\ \A x \in Menus \cup Scans : Opening(x)' => Opening(x) /\ x # s
      /\ \A x \in Scans : Making(x)' => Making(x)
      /\ \A x \in Scans : Target(x)' => Target(x)
  <2>1. \A x \in Menus \cup Scans : Opening(x)' => Opening(x) /\ x # s
    BY <1>5 DEF Opening
  <2>2. \A x \in Scans : Making(x)' => Making(x)
    BY <1>5 DEF Making
  <2>3. \A x \in Scans : Target(x)' => Target(x)
    BY <1>5, <1>6 DEF Target
  <2> QED
    BY <2>1, <2>2, <2>3
<1>8. \A x \in Scans : scanner'[x] = "running" => scanner[x] = "running" \/ x = s
  BY <1>1
<1>9. \A x \in Scans : Lone(x)' => Lone(x)
  BY <1>1, <1>7, <1>8 DEF Lone
<1>10. Resetting' => Resetting
  BY <1>5, <1>6 DEF Resetting
<1>11. MailOK'
  <2>1. scanner' \in [Scans -> ScannerStates]
    BY <1>1 DEF AppOK, MailOK, ScannerStates
  <2> QED
    BY <1>1, <1>5, <2>1 DEF AppOK, MailOK, ScannerStates
<1>12. BuiltOK'
  BY <1>1, <1>2, <1>6, BuiltKept DEF AppOK
<1>13. ComingOK'
  <2>1. \A x \in Scans : Making(x)' => x \in asked' /\ ~Opened(x)' /\ ~Opening(x)'
    BY <1>1, <1>3, <1>4, <1>7 DEF AppOK, ComingOK
  <2>2. \A x \in Menus \cup Scans : Opening(x)' => x \in asked' /\ ~Opened(x)'
    BY <1>1, <1>4, <1>7 DEF AppOK, ComingOK
  <2>3. \A x \in Menus \cup Scans : Opened(x)' => x \in asked'
    BY <1>1, <1>3, <1>4 DEF AppOK, ComingOK
  <2> QED
    BY <2>1, <2>2, <2>3 DEF ComingOK
<1>14. TargetsOK'
  BY <1>4, <1>7 DEF AppOK, TargetsOK
<1>15. QuietOK'
  BY <1>9, <1>10 DEF AppOK, QuietOK
<1>16. ShownOK'
  BY <1>1, <1>4, <1>8 DEF AppOK, ShownOK
<1> QED
  BY <1>2, <1>4, <1>11, <1>12, <1>13, <1>14, <1>15, <1>16 DEF AppOK

(* A dialog is opened once.                                                *)
LEMMA OpenDialogKeeps ==
  ASSUME AppOK, NEW msg, OpenDialog(msg)
  PROVE  AppOK'
<1> DEFINE d == msg.what
<1>1. /\ UNCHANGED <<screenVars, scanner, asked, dialogs>> /\ msg \in InMail /\ msg.type = "dialog"
      /\ mail' = Took(msg) /\ PushDialog(d)
  BY DEF OpenDialog, InMail, BagToSet
<1>2. d \in Built /\ d \in Dlg /\ msg = Msg("dialog", d)
  <2>1. msg \in Mail
    BY <1>1 DEF AppOK, MailOK
  <2>2. d \in Dlg /\ msg = Msg("dialog", d)
    BY <1>1, <2>1, MessagesTyped
  <2> QED
    BY <1>1, <2>2 DEF Built
<1> HIDE DEF d
<1>3. ScreensOK' /\ (\A x : Opened(x)' <=> Opened(x)) /\ \A x \in Scans : OnScreens(x) => OnScreens(x)'
  BY <1>1, ScreensStay DEF AppOK
<1>4. DialogsOK' /\ Used' = Used \cup {d.id} /\ Alive' = Alive \cup {d}
  BY <1>1, <1>2, DialogPushed DEF AppOK, BuiltOK
<1>5. Sparse(mail') /\ InMail' \subseteq InMail /\ InMail' \subseteq Mail /\ msg \notin InMail'
  BY <1>1, MailTaken DEF AppOK, Unique
<1>6. Built' \subseteq Built \ {d}
  BY <1>2, <1>5 DEF Built
<1>7. Known' \subseteq Known
  BY <1>2, <1>4, <1>6 DEF Known
<1>8. \A s : (Making(s)' => Making(s)) /\ (Opening(s)' => Opening(s))
  BY <1>5 DEF Making, Opening
<1>9. \A s \in Scans : Target(s)' => Target(s)
  BY <1>5, <1>7 DEF Target
<1>10. Resetting' => Resetting
  BY <1>5, <1>7 DEF Resetting
<1>11. MailOK'
  BY <1>1, <1>5 DEF AppOK, MailOK
<1>12. BuiltOK'
  BY <1>1, <1>2, <1>4, <1>6, BuiltOpened DEF AppOK
<1>13. ComingOK'
  BY <1>1, <1>3, <1>8, ComingKept DEF AppOK
<1>14. TargetsOK' /\ QuietOK' /\ ShownOK'
  BY <1>1, <1>3, <1>8, <1>9, <1>10, ScansKept DEF AppOK
<1> QED
  BY <1>3, <1>4, <1>11, <1>12, <1>13, <1>14 DEF AppOK


(* A dialog that asks to be closed starts to leave.                        *)
LEMMA CloseComponentKeeps ==
  ASSUME AppOK, NEW id, CloseComponent(id)
  PROVE  AppOK'
<1>1. /\ UNCHANGED <<screenVars, scanner, asked, dialogs>> /\ mail' = Took(Msg("close", id))
      /\ BeginCloseById(id)
  BY DEF CloseComponent
<1>2. DialogsOK' /\ Used' = Used /\ Alive' = Alive
  BY <1>1, DialogNamedCloses DEF AppOK
<1>3. ScreensOK' /\ (\A x : Opened(x)' <=> Opened(x)) /\ \A x \in Scans : OnScreens(x) => OnScreens(x)'
  BY <1>1, ScreensStay DEF AppOK
<1>4. Sparse(mail') /\ InMail' \subseteq InMail /\ InMail' \subseteq Mail
  BY <1>1, MailTaken DEF AppOK
<1>5. scanner' \in [Scans -> ScannerStates]
  BY <1>1 DEF AppOK, MailOK, ScannerStates
<1> QED
  BY <1>1, <1>2, <1>3, <1>4, <1>5, Silent

(* A scan that ended may tell an error.                                    *)
LEMMA ScanEndsKeeps ==
  ASSUME AppOK, NEW s \in Scans, ScanEnds(s)
  PROVE  AppOK'
<1> DEFINE out == {Msg("error", s)}
<1>1. /\ UNCHANGED <<dialogVars, screenVars, asked, dialogs>>
      /\ scanner' = [scanner EXCEPT ![s] = "done"]
      /\ mail' = mail \/ mail' = Sent(out)
  BY DEF ScanEnds
<1>2. DialogsOK' /\ Used' = Used /\ Alive' = Alive
  BY <1>1, DialogsStay DEF AppOK
<1>3. ScreensOK' /\ (\A x : Opened(x)' <=> Opened(x)) /\ \A x \in Scans : OnScreens(x) => OnScreens(x)'
  BY <1>1, ScreensStay DEF AppOK
<1>4. /\ scanner' \in [Scans -> ScannerStates]
      /\ \A x \in Scans : scanner'[x] = "running" => scanner[x] = "running"
  BY <1>1 DEF AppOK, MailOK, ScannerStates
<1>5. out \subseteq Mail /\ \A m \in out : m.type = "error"
  BY MessagesTyped
<1> HIDE DEF out
<1>6. \A m \in out : m.type \in Unique => m \notin InMail
  BY <1>5 DEF Unique
<1>7. Sparse(mail') /\ InMail' \subseteq InMail \cup out /\ InMail' \subseteq Mail
  BY <1>1, <1>5, <1>6, MailSent, MailStays DEF AppOK
<1> QED
  BY <1>1, <1>2, <1>3, <1>4, <1>5, <1>7, Routine

(* A scan that was opened is closed by a command. *)
LEMMA ClosingSends ==
  ASSUME AppOK, DialogsOK', Used' = Used, Alive' \subseteq Alive,
         UNCHANGED <<screenVars, asked, dialogs>>,
         NEW x \in Scans, Opened(x), scanner' = [scanner EXCEPT ![x] = "closed"],
         NEW out \in SUBSET Stopping(x),
         \/ mail' = Sent(out)
         \/ \E msg : mail' = Took(msg) (+) SetToBag(out)
  PROVE  AppOK'
<1>1. ScreensOK' /\ (\A y : Opened(y)' <=> Opened(y)) /\ \A y \in Scans : OnScreens(y) => OnScreens(y)'
  BY ScreensStay DEF AppOK
<1>2. \A m \in out : m \in Mail /\ m.type \in {"result", "error"}
  <2>1. \A m \in Stopping(x) : (\E ok \in BOOLEAN : m = Msg("result", ok)) \/ m = Msg("error", x)
    BY DEF Stopping
  <2> QED
    BY <2>1, MessagesTyped
<1>3. out \subseteq Mail /\ \A m \in out : m.type \in Unique => m \notin InMail
  BY <1>2 DEF Unique
<1>4. Sparse(mail') /\ InMail' \subseteq InMail \cup out /\ InMail' \subseteq Mail
  <2>1. CASE mail' = Sent(out)
    BY <1>3, <2>1, MailSent DEF AppOK
  <2>2. CASE \E msg : mail' = Took(msg) (+) SetToBag(out)
    BY <1>3, <2>2, MailAnswered DEF AppOK
  <2> QED
    BY <2>1, <2>2
<1>5. \A t, y : Msg(t, y) \in InMail' => Msg(t, y) \in InMail \/ t \in {"result", "error"}
  BY <1>2, <1>4, MessagesTyped
<1>6. Built' \subseteq Built /\ Known' \subseteq Known
  <2>1. Built' \subseteq Built
    BY <1>5 DEF Built
  <2> QED
    BY <2>1 DEF Known
<1>7. \A s : (Making(s)' => Making(s)) /\ (Opening(s)' => Opening(s))
  BY <1>5 DEF Making, Opening
<1>8. \A s \in Scans : Target(s)' => Target(s)
  BY <1>5, <1>6 DEF Target
<1>9. /\ scanner' \in [Scans -> ScannerStates] /\ scanner'[x] = "closed"
      /\ \A s \in Scans : scanner'[s] = "running" => scanner[s] = "running"
  BY DEF AppOK, MailOK, ScannerStates
<1>10. MailOK'
  BY <1>4, <1>9 DEF AppOK, MailOK, ScannerStates
<1>11. BuiltOK'
  BY <1>6, BuiltKept DEF AppOK
<1>12. ComingOK'
  BY <1>1, <1>7, ComingKept DEF AppOK
<1>13. TargetsOK' /\ QuietOK' /\ ShownOK'
  BY <1>1, <1>8, <1>9, <1>12, ScanStopped DEF AppOK
<1> QED
  BY <1>1, <1>10, <1>11, <1>12, <1>13 DEF AppOK

(* The command of a confirmed dialog closes a scan that was opened.        *)
LEMMA StopScanKeeps ==
  ASSUME AppOK, NEW s \in Scans, StopScan(s)
  PROVE  AppOK'
<1>1. /\ UNCHANGED <<dialogVars, screenVars, asked, dialogs>> /\ Msg("stop", s) \in InMail
      /\ scanner' = [scanner EXCEPT ![s] = "closed"]
  BY DEF StopScan, InMail, BagToSet
<1>2. PICK out \in SUBSET Stopping(s) : mail' = Took(Msg("stop", s)) (+) SetToBag(out)
  BY DEF StopScan
<1>3. Opened(s)
  BY <1>1 DEF AppOK, TargetsOK, Target
<1>4. DialogsOK' /\ Used' = Used /\ Alive' = Alive
  BY <1>1, DialogsStay DEF AppOK
<1> QED
  BY <1>1, <1>2, <1>3, <1>4, ClosingSends

(* A closing command closes an opened scan or resets the stacks.           *)
LEMMA CloseCommandKeeps ==
  ASSUME AppOK, NEW c, CloseCommand(c)
  PROVE  AppOK'
<1> DEFINE d == Head(c.todo)
           sent == {Msg("reset", Main)}
<1>1. RunCloseCmd(c) /\ UNCHANGED <<screenVars, asked, dialogs>>
  BY DEF CloseCommand
<1>2. /\ DialogsOK' /\ Used' = Used /\ Alive' \subseteq Alive
      /\ d \in Alive /\ d \in Dlg /\ d.does # "nothing"
  BY <1>1, CommandStarts DEF AppOK
<1>3. CASE d.does = "reset"
  <2>1. mail' = Sent(sent) /\ UNCHANGED scanner
    BY <1>3 DEF CloseCommand
  <2> HIDE DEF d
  <2>2. sent \subseteq Mail /\ \A m \in sent : m.type = "reset"
    BY MessagesTyped
  <2> HIDE DEF sent
  <2>3. \A m \in sent : m.type \in Unique => m \notin InMail
    BY <2>2 DEF Unique
  <2>4. Sparse(mail') /\ InMail' \subseteq InMail \cup sent /\ InMail' \subseteq Mail
    BY <2>1, <2>2, <2>3, MailSent DEF AppOK
  <2>5. Resetting
    BY <1>2, <1>3 DEF Resetting, Known
  <2>6. scanner' \in [Scans -> ScannerStates]
    BY <2>1 DEF AppOK, MailOK, ScannerStates
  <2>7. ScreensOK' /\ (\A x : Opened(x)' <=> Opened(x)) /\ \A x \in Scans : OnScreens(x) => OnScreens(x)'
    BY <1>1, ScreensStay DEF AppOK
  <2> QED
    BY <1>1, <1>2, <2>1, <2>2, <2>4, <2>5, <2>6, <2>7, Routine
<1>4. CASE d.does # "reset"
  <2>1. PICK out \in SUBSET Stopping(d.of) : mail' = Sent(out)
    BY <1>4 DEF CloseCommand
  <2>2. scanner' = [scanner EXCEPT ![d.of] = "closed"]
    BY <1>4 DEF CloseCommand
  <2> HIDE DEF d
  <2>3. d.does = "stop" /\ d.of \in Scans
    BY <1>2, <1>4 DEF Dlg
  <2>4. Opened(d.of)
    BY <1>2, <2>3 DEF AppOK, TargetsOK, Target, Known
  <2> QED
    BY <1>1, <1>2, <2>1, <2>2, <2>3, <2>4, ClosingSends
<1> QED
  BY <1>3, <1>4

(* When the stacks are reset, the only scan has been closed.               *)
LEMMA ResetStacksKeeps ==
  ASSUME AppOK, ResetStacks
  PROVE  AppOK'
<1>1. /\ UNCHANGED <<dialogVars, scanner, asked, dialogs>> /\ ResetStack
      /\ mail' = Took(Msg("reset", Main)) /\ Resetting
  BY DEF ResetStacks, Resetting, InMail, BagToSet
<1>2. DialogsOK' /\ Used' = Used /\ Alive' = Alive
  BY <1>1, DialogsStay DEF AppOK
<1>3. ScreensOK' /\ \A x : Opened(x)' <=> Opened(x)
  BY <1>1, StackReset DEF AppOK
<1>4. Sparse(mail') /\ InMail' \subseteq InMail /\ InMail' \subseteq Mail
  BY <1>1, MailTaken DEF AppOK
<1>5. Built' \subseteq Built /\ Known' \subseteq Known
  <2>1. Built' \subseteq Built
    BY <1>4 DEF Built
  <2> QED
    BY <1>2, <2>1 DEF Known
<1>6. \A s : (Making(s)' => Making(s)) /\ (Opening(s)' => Opening(s))
  BY <1>4 DEF Making, Opening
<1>7. \A s \in Scans : Target(s)' => Target(s)
  BY <1>4, <1>5 DEF Target
<1>8. \A s \in Scans : ~Lone(s) /\ (Lone(s)' => Lone(s))
  BY <1>1, <1>6 DEF AppOK, QuietOK, Lone
<1>9. MailOK'
  BY <1>1, <1>4 DEF AppOK, MailOK
<1>10. BuiltOK'
  BY <1>1, <1>2, <1>5, BuiltKept DEF AppOK
<1>11. ComingOK'
  BY <1>1, <1>3, <1>6, ComingKept DEF AppOK
<1>12. TargetsOK'
  BY <1>3, <1>7 DEF AppOK, TargetsOK
<1>13. QuietOK'
  BY <1>8 DEF QuietOK
<1>14. ShownOK'
  <2>1. \A s \in Scans : asked' \cap Scans = {s} => scanner'[s] # "running"
    BY <1>1, <1>8 DEF Lone
  <2>2. \A s \in Scans : scanner'[s] = "running" => Opened(s)'
    BY <1>1, <1>3 DEF AppOK, ShownOK
  <2> QED
    BY <2>1, <2>2 DEF ShownOK
<1> QED
  BY <1>2, <1>3, <1>9, <1>10, <1>11, <1>12, <1>13, <1>14 DEF AppOK

(* Frames and slides of the screens.                                       *)
LEMMA ScreensMoveKeeps ==
  ASSUME AppOK, BodyFrame \/ SlideElapse
  PROVE  AppOK'
<1>1. UNCHANGED <<dialogVars, mail, scanner, asked, dialogs>> /\ (ScreenFrame \/ ScreenElapse)
  BY DEF BodyFrame, SlideElapse
<1>2. DialogsOK' /\ Used' = Used /\ Alive' = Alive
  BY <1>1, DialogsStay DEF AppOK
<1>3. ScreensOK' /\ (\A x : Opened(x)' <=> Opened(x)) /\ \A x \in Scans : OnScreens(x) => OnScreens(x)'
  BY <1>1, FrameAndTime DEF AppOK
<1>4. Sparse(mail') /\ InMail' \subseteq InMail /\ InMail' \subseteq Mail
  BY <1>1, MailStays
<1>5. scanner' \in [Scans -> ScannerStates]
  BY <1>1 DEF AppOK, MailOK, ScannerStates
<1> QED
  BY <1>1, <1>2, <1>3, <1>4, <1>5, Silent

(* Frames and transitions of the dialogs.                                  *)
LEMMA LayersMoveKeeps ==
  ASSUME AppOK, LayerFrame \/ \E i \in DOMAIN layers : DialogElapse(i)
  PROVE  AppOK'
<1>1. UNCHANGED <<screenVars, mail, scanner, asked, dialogs>>
  BY DEF LayerFrame, DialogElapse
<1>2. DialogsOK' /\ Used' \subseteq Used /\ Alive' \subseteq Alive
  <2>1. CASE LayerFrame
    BY <2>1, DialogsLeave DEF LayerFrame, AppOK
  <2>2. CASE \E i \in DOMAIN layers : DialogElapse(i)
    BY <2>2, DialogCloses DEF DialogElapse, AppOK
  <2> QED
    BY <2>1, <2>2
<1>3. ScreensOK' /\ (\A x : Opened(x)' <=> Opened(x)) /\ \A x \in Scans : OnScreens(x) => OnScreens(x)'
  BY <1>1, ScreensStay DEF AppOK
<1>4. Sparse(mail') /\ InMail' \subseteq InMail /\ InMail' \subseteq Mail
  BY <1>1, MailStays
<1>5. scanner' \in [Scans -> ScannerStates]
  BY <1>1 DEF AppOK, MailOK, ScannerStates
<1> QED
  BY <1>1, <1>2, <1>3, <1>4, <1>5, Silent


(* The program starts with its two menus and nothing in flight.            *)
LEMMA InitOK == Init => AppOK
<1>1. SUFFICES ASSUME Init PROVE AppOK
  OBVIOUS
<1>2. /\ layers = <<>> /\ dticks = 0 /\ chains = {} /\ fired = [d \in {} |-> 0]
      /\ screens = <<[s |-> Main, closing |-> "no"]>> \o <<[s |-> StartMenu, closing |-> "no"]>>
      /\ swap = NoSwap /\ ticks = 0 /\ closes = [s \in {} |-> 0]
      /\ animated \in BOOLEAN /\ panicked = FALSE /\ mail = EmptyBag
      /\ scanner = [s \in Scans |-> "none"] /\ asked = {} /\ dialogs = 0
  BY <1>1 DEF Init, DialogInit, ScreenInit
<1>3. InMail = {} /\ Sparse(mail)
  BY <1>2 DEF InMail, Sparse, EmptyBag, SetToBag
<1>4. MailOK
  BY <1>2, <1>3 DEF MailOK
<1>5. Left = {} /\ Fired = {}
  BY <1>2 DEF Left, Fired
<1>6. /\ screens \in Seq(Entry) /\ screens # <<>> /\ DOMAIN screens = {1, 2}
       /\ screens[1] = [s |-> Main, closing |-> "no"] /\ screens[2] = [s |-> StartMenu, closing |-> "no"]
  <2> DEFINE a == [s |-> Main, closing |-> "no"]
             b == [s |-> StartMenu, closing |-> "no"]
  <2>1. a \in Entry /\ b \in Entry
    BY DEF Entry, AnyScreen
  <2>2. screens = <<a>> \o <<b>>
    BY <1>2
  <2> HIDE DEF a, b
  <2>3. <<a>> \in Seq(Entry) /\ <<b>> \in Seq(Entry) /\ Len(<<a>>) = 1 /\ Len(<<b>>) = 1
    BY <2>1
  <2>4. /\ screens \in Seq(Entry) /\ Len(screens) = 2
        /\ \A i \in 1..2 : screens[i] = IF i <= 1 THEN <<a>>[i] ELSE <<b>>[i - 1]
    BY <2>2, <2>3, ConcatProperties
  <2>5. DOMAIN screens = 1..2
    BY <2>4, LenProperties
  <2>6. screens[1] = a /\ screens[2] = b /\ DOMAIN screens = {1, 2}
    BY <2>4, <2>5
  <2>7. screens # <<>>
    BY <2>4, EmptySeq
  <2> QED
    BY <2>4, <2>6, <2>7 DEF a, b
<1>7. ScreensOK
  <2>1. screens[1].s = Main /\ screens[2].s = StartMenu /\ screens[1].closing = "no" /\ screens[2].closing = "no"
    BY <1>6
  <2>2. StackOK(screens, Left)
    BY <1>5, <1>6, <2>1, ScreensAssumption DEF StackOK
  <2> QED
    BY <1>2, <1>5, <2>2 DEF ScreensOK, NoSwap
<1>8. OnTop = {} /\ Waiting = {} /\ Alive = {}
  BY <1>2 DEF OnTop, Waiting, Alive
<1>9. DialogsOK
  BY <1>2, <1>5, <1>8 DEF DialogsOK
<1>10. Built = {} /\ Known = {} /\ Used = {}
  BY <1>3, <1>5, <1>8 DEF Built, Known, Used
<1>11. BuiltOK /\ TargetsOK
  BY <1>3, <1>10 DEF BuiltOK, TargetsOK, Target
<1>12. ComingOK
  <2>1. \A s \in Menus \cup Scans : ~Opened(s)
    <3>1. Names(screens) \subseteq {Main, StartMenu}
      BY <1>6 DEF Names
    <3> QED
      BY <1>5, <3>1, ScreensAssumption DEF Opened, OnScreens
  <2> QED
    BY <1>3, <2>1 DEF ComingOK, Making, Opening
<1>13. QuietOK /\ ShownOK
  BY <1>2, <1>3, <1>10 DEF QuietOK, Resetting, ShownOK
<1> QED
  BY <1>4, <1>7, <1>9, <1>11, <1>12, <1>13 DEF AppOK

(* Every step of the update loop keeps the invariant.                      *)
LEMMA AppStep == AppOK /\ [Next]_vars => AppOK'
<1> SUFFICES ASSUME AppOK, [Next]_vars PROVE AppOK'
  OBVIOUS
<1>1. CASE KeyBack
  BY <1>1, KeyBackKeeps
<1>2. CASE KeyEnter
  BY <1>2, KeyEnterKeeps
<1>3. CASE KeyCancel
  BY <1>3, KeyCancelKeeps
<1>4. CASE Menus \ asked # {} /\ SelectMenu(Fresh(Menus))
  <2>1. Fresh(Menus) \in Menus /\ Fresh(Menus) \notin asked
    BY <1>4 DEF Fresh
  <2> QED
    BY <1>4, <2>1, SelectMenuKeeps
<1>5. CASE Scans \ asked # {} /\ SelectScan(Fresh(Scans))
  <2>1. Fresh(Scans) \in Scans /\ Fresh(Scans) \notin asked
    BY <1>5 DEF Fresh
  <2> QED
    BY <1>5, <2>1, SelectScanKeeps
<1>6. CASE \E s \in Scans : MakeScanner(s) \/ StopScan(s) \/ ScanError(s)
  BY <1>6, MakeScannerKeeps, StopScanKeeps, ScanErrorKeeps
<1>7. CASE \E s \in Menus \cup Scans : OpenComponent(s)
  BY <1>7, OpenComponentKeeps
<1>8. CASE \E msg \in BagToSet(mail) : OpenDialog(msg)
  BY <1>8, OpenDialogKeeps
<1>9. CASE \E id \in 1..MaxOpen : CloseComponent(id)
  BY <1>9, CloseComponentKeeps
<1>10. CASE \E ok \in BOOLEAN : ScanCloseResult(ok)
  BY <1>10, ScanCloseResultKeeps
<1>11. CASE ResetStacks
  BY <1>11, ResetStacksKeeps
<1>12. CASE \E s \in Scans : ScanEnds(s)
  BY <1>12, ScanEndsKeeps
<1>13. CASE Time
  BY <1>13, ScreensMoveKeeps, LayersMoveKeeps DEF Time
<1>14. CASE BodyFrame
  BY <1>14, ScreensMoveKeeps
<1>15. CASE LayerFrame
  BY <1>15, LayersMoveKeeps
<1>16. CASE \E c \in chains : CloseCommand(c)
  BY <1>16, CloseCommandKeeps
<1>17. CASE UNCHANGED vars
  <2>1. UNCHANGED <<dialogVars, screenVars, mail, scanner, asked, dialogs>>
    BY <1>17 DEF vars
  <2>2. DialogsOK' /\ Used' = Used /\ Alive' = Alive
    BY <2>1, DialogsStay DEF AppOK
  <2>3. ScreensOK' /\ (\A x : Opened(x)' <=> Opened(x)) /\ \A x \in Scans : OnScreens(x) => OnScreens(x)'
    BY <2>1, ScreensStay DEF AppOK
  <2>4. Sparse(mail') /\ InMail' \subseteq InMail /\ InMail' \subseteq Mail
    BY <2>1, MailStays
  <2>5. scanner' \in [Scans -> ScannerStates]
    BY <2>1 DEF AppOK, MailOK, ScannerStates
  <2> QED
    BY <2>1, <2>2, <2>3, <2>4, <2>5, Silent
<1> QED
  BY <1>1, <1>2, <1>3, <1>4, <1>5, <1>6, <1>7, <1>8, <1>9, <1>10, <1>11, <1>12, <1>13, <1>14,
     <1>15, <1>16, <1>17 DEF Next, Keys, Arrive

(* The whole invariant holds in every state of the update loop.            *)
THEOREM AppInvariant == Spec => []AppOK
BY InitOK, AppStep, PTL DEF Spec

(* Whatever keys, messages, frames and timers come in any order: a screen  *)
(* has OnClose called once and is off the stack by then (body/update.go),  *)
(* and the closing command of a dialog is started once, after it left      *)
(* (app/dialogs.go, closeCmd).                                             *)
THEOREM ClosedOnceEachAlways == Spec => []ClosedOnceEach
<1>1. AppOK => ClosedOnceEach
  BY AppImplies
<1> QED
  BY AppInvariant, <1>1, PTL

(* The only scan that was asked for has its screen on the stack as long as *)
(* it runs: no result, notice or closing command can reset the stacks      *)
(* before it is closed (scanner/update.go, scanCloseResultMsg).            *)
THEOREM ScanHasScreenAlways == Spec => []ScanHasScreen
<1>1. AppOK => ScanHasScreen
  BY AppImplies
<1> QED
  BY AppInvariant, <1>1, PTL

-----------------------------------------------------------------------------

(***************************************************************************)
(* The lists of files: what the table shows once nothing is under way.     *)
(* Every step that changes the disk has, in the same command, a reading of *)
(* the list after it, or the closing of a form that is open; a form that   *)
(* closes has the list read.                                               *)
(***************************************************************************)

Changing == {"remove", "move", "write", "edit"}

Listings == {"load", "loaded"}

(* The form of a command.  Nothing that may be skipped reads the list.      *)
CommandOK(c) ==
  /\ c \in Seq({c[i] : i \in DOMAIN c}) /\ c # <<>>
  /\ \A i \in DOMAIN c :
       /\ c[i].do \in Changing \cup Listings \cup {"free", "file", "close", "open", "refresh"}
       /\ c[i].do \in Listings \cup {"open"} => Len(c) = 1
       /\ c[i].do = "close" => i = Len(c)
       /\ c[i].do \in {"free", "file"} =>
            /\ c[i].skip \in Nat /\ i + c[i].skip <= Len(c)
            /\ \A j \in DOMAIN c : c[j].do # "refresh"

(* A change that no reading of the same command follows. *)
Unlisted(c) ==
  \E i \in DOMAIN c : c[i].do \in Changing /\ \A j \in DOMAIN c : i < j => c[j].do # "refresh"

EndsInClose(c) == Unlisted(c) => c[Len(c)].do = "close"

FormIsOpen(id) == \E b \in ToSet(boxes) : b.id = id /\ b.kind = "form"

Backed(c) == Unlisted(c) => c[Len(c)].do = "close" /\ FormIsOpen(c[Len(c)].id)

(* A dialog of the user: what it may start is one command, which reads no    *)
(* list itself and closes only dialogs built before.                        *)
BoxOK(b) ==
  /\ b.id \in 1..opened
  /\ b.kind = "name" => b.how = "import"
  /\ \A r, q \in b.runs : r = q
  /\ \A r \in b.runs :
       /\ CommandOK(r) /\ EndsInClose(r)
       /\ \A i \in DOMAIN r : r[i].do \notin Listings \cup {"open"}
       /\ \A id \in Closes(r) : id \in 1..b.id - 1

(* Dialogs with one number are of one kind, and a question closes forms. *)
OneKind(a, b) ==
  /\ a.id = b.id => a.kind = b.kind
  /\ \A r \in a.runs : b.id \in Closes(r) => b.kind = "form"

ClosesOnce(B) ==
  \A c \in DOMAIN B : \A id \in Closes(c) :
    B[c] = 1 /\ \A d \in DOMAIN B : id \in Closes(d) => d = c

ListsOnce(B) ==
  \A c \in DOMAIN B : c[1].do \in Listings =>
    B[c] = 1 /\ \A d \in DOMAIN B : d[1].do \in Listings => d = c

ListsLater(c) == \E i \in DOMAIN c : c[i].do \in {"refresh", "load"}

(* The table shows the disk, or a listing is to come or will when a form     *)
(* closes.                                                                  *)
FreshOrListed ==
  \/ \E c \in DOMAIN commands : ListsLater(c)
  \/ \E b \in ToSet(boxes) : b.kind = "form"
  \/ /\ \A c \in DOMAIN commands : c[1].do = "loaded" => c[1].rows = Listing
     /\ (\A c \in DOMAIN commands : c[1].do # "loaded") => items = Listing

Counts(B) == B \in [DOMAIN B -> Nat \ {0}]

FilesTyped ==
  /\ opened \in Nat
  /\ Counts(commands)
  /\ boxes \in Seq(ToSet(boxes))

FilesOK ==
  /\ FilesTyped
  /\ \A c \in DOMAIN commands : CommandOK(c) /\ Backed(c)
  /\ \A b \in Asking : BoxOK(b)
  /\ \A a, b \in Asking : OneKind(a, b)
  /\ ClosesOnce(commands)
  /\ ListsOnce(commands)
  /\ FreshOrListed

FilesInv == (list # "outbounds" /\ ~excused) => FilesOK

-----------------------------------------------------------------------------
(* Bags of commands. *)

LEMMA BagPlusCopies ==
  ASSUME NEW B, Counts(B), NEW S, NEW C, C = B (+) SetToBag(S)
  PROVE  /\ \A d : d \in DOMAIN C <=> d \in DOMAIN B \/ d \in S
         /\ \A d \in DOMAIN B : d \notin S => C[d] = B[d]
         /\ \A d \in S : d \notin DOMAIN B => C[d] = 1
<1>1. C = [e \in DOMAIN B \cup S |->
             (IF e \in DOMAIN B THEN B[e] ELSE 0) + (IF e \in S THEN 1 ELSE 0)]
  BY DEF (+), SetToBag
<1>2. DOMAIN C = DOMAIN B \cup S
  BY <1>1
<1>3. \A d \in DOMAIN B : B[d] \in Nat /\ B[d] # 0
  BY DEF Counts
<1>4. \A d \in DOMAIN B \cup S :
        C[d] = (IF d \in DOMAIN B THEN B[d] ELSE 0) + (IF d \in S THEN 1 ELSE 0)
  BY <1>1
<1> QED
  BY <1>2, <1>3, <1>4

LEMMA BagPlusCounts ==
  ASSUME NEW B, Counts(B), NEW S, NEW C, C = B (+) SetToBag(S)
  PROVE  Counts(C)
<1>1. C = [e \in DOMAIN B \cup S |->
             (IF e \in DOMAIN B THEN B[e] ELSE 0) + (IF e \in S THEN 1 ELSE 0)]
  BY DEF (+), SetToBag
<1>2. \A d \in DOMAIN B : B[d] \in Nat /\ B[d] # 0
  BY DEF Counts
<1>3. \A d \in DOMAIN B \cup S :
        C[d] = (IF d \in DOMAIN B THEN B[d] ELSE 0) + (IF d \in S THEN 1 ELSE 0)
  BY <1>1
<1>4. DOMAIN C = DOMAIN B \cup S /\ C = [e \in DOMAIN C |-> C[e]]
  BY <1>1
<1>5. \A d \in DOMAIN C : C[d] \in Nat \ {0}
  BY <1>2, <1>3, <1>4
<1> QED
  BY <1>4, <1>5 DEF Counts

LEMMA BagMinus ==
  ASSUME NEW B, Counts(B), NEW c \in DOMAIN B,
         NEW C, C = B (-) SetToBag({c})
  PROVE  /\ Counts(C)
         /\ \A d \in DOMAIN C : d \in DOMAIN B
         /\ \A d \in DOMAIN B : d # c => d \in DOMAIN C
         /\ \A d \in DOMAIN C : d # c => C[d] = B[d]
         /\ B[c] = 1 => c \notin DOMAIN C
<1> DEFINE F == [e \in DOMAIN B |-> IF e \in {c} THEN B[e] - 1 ELSE B[e]]
<1>1. C = [e \in {d \in DOMAIN F : F[d] > 0} |-> F[e]]
  BY DEF (-), SetToBag
<1>2. \A d \in DOMAIN B : B[d] \in Nat /\ B[d] # 0
  BY DEF Counts
<1>3. \A d \in DOMAIN B : F[d] \in Nat /\ (d # c => F[d] = B[d] /\ F[d] > 0)
  BY <1>2
<1>4. B[c] = 1 => ~(F[c] > 0)
  OBVIOUS
<1>5. DOMAIN F = DOMAIN B
  OBVIOUS
<1> HIDE DEF F
<1>6. DOMAIN C = {d \in DOMAIN B : F[d] > 0} /\ \A d \in DOMAIN C : C[d] = F[d]
  BY <1>1, <1>5
<1>7. Counts(C)
  <2>1. C = [e \in DOMAIN C |-> C[e]]
    BY <1>1, <1>5, <1>6
  <2>2. \A d \in DOMAIN C : C[d] \in Nat \ {0}
    BY <1>3, <1>6
  <2> QED
    BY <2>1, <2>2 DEF Counts
<1>8. /\ \A d \in DOMAIN C : d \in DOMAIN B
      /\ \A d \in DOMAIN B : d # c => d \in DOMAIN C
      /\ \A d \in DOMAIN C : d # c => C[d] = B[d]
      /\ B[c] = 1 => c \notin DOMAIN C
  BY <1>3, <1>4, <1>6
<1> QED
  BY <1>7, <1>8


-----------------------------------------------------------------------------
(* What is left of a command after some of its steps. *)

Rest(c, k) == SubSeq(c, 2 + k, Len(c))

Checks == {"free", "file", "verify"}

Stepwise(c) ==
  /\ c \in Seq({c[i] : i \in DOMAIN c}) /\ c # <<>>
  /\ \A i \in DOMAIN c : c[i].do \in Checks => c[i].skip \in Nat /\ i + c[i].skip <= Len(c)

LEMMA CommandSteps ==
  ASSUME NEW c, CommandOK(c)
  PROVE  /\ Len(c) \in Nat /\ Len(c) >= 1 /\ DOMAIN c = 1..Len(c) /\ 1 \in DOMAIN c
         /\ Head(c) = c[1]
<1> DEFINE T == {c[i] : i \in DOMAIN c}
<1>1. c \in Seq(T) /\ c # <<>>
  BY DEF CommandOK
<1> HIDE DEF T
<1>2. Len(c) \in Nat /\ DOMAIN c = 1..Len(c) /\ Len(c) # 0 /\ Head(c) = c[1]
  BY <1>1
<1> QED
  BY <1>2

(* The rest has the steps that come after those. *)
RestHas(c, k) ==
  /\ Rest(c, k) = <<>> <=> Len(c) = k + 1
  /\ Len(Rest(c, k)) = Len(c) - k - 1
  /\ DOMAIN Rest(c, k) = 1..Len(Rest(c, k))
  /\ Rest(c, k) \in Seq({Rest(c, k)[i] : i \in DOMAIN Rest(c, k)})
  /\ \A i \in DOMAIN Rest(c, k) : i + k + 1 \in DOMAIN c /\ Rest(c, k)[i] = c[i + k + 1]
  /\ \A j \in DOMAIN c : j > k + 1 => j - k - 1 \in DOMAIN Rest(c, k)

LEMMA RestSteps ==
  ASSUME NEW c, Stepwise(c), NEW k \in Nat, k + 1 <= Len(c)
  PROVE  RestHas(c, k)
<1> DEFINE T == {c[i] : i \in DOMAIN c}
           l == Rest(c, k)
<1>1. c \in Seq(T)
  BY DEF Stepwise
<1>2. Len(c) \in Nat /\ DOMAIN c = 1..Len(c)
  BY <1>1
<1> HIDE DEF T
<1>3. /\ l \in Seq(T) /\ Len(l) = Len(c) - k - 1 /\ DOMAIN l = 1..Len(l)
      /\ \A i \in 1..Len(l) : l[i] = c[i + k + 1]
  <2>1. 2 + k \in 1..Len(c) + 1 /\ Len(c) \in (2 + k) - 1 .. Len(c)
    BY <1>2
  <2>2. l = SubSeq(c, 2 + k, Len(c))
    BY DEF Rest
  <2> HIDE DEF l
  <2>3. /\ l \in Seq(T)
        /\ Len(l) = IF 2 + k <= Len(c) THEN Len(c) - (2 + k) + 1 ELSE 0
        /\ \A i \in 1..Len(c) - (2 + k) + 1 : l[i] = c[2 + k + i - 1]
    BY <1>1, <2>1, <2>2, SubSeqProperties
  <2>6. k \in Nat /\ k + 1 <= Len(c) /\ Len(c) \in Nat
    BY <1>2
  <2>7. Len(l) = Len(c) - k - 1
    <3> DEFINE n == Len(l)
               m == Len(c)
    <3>1. n = IF 2 + k <= m THEN m - (2 + k) + 1 ELSE 0
      BY <2>3
    <3>2. m \in Nat /\ k \in Nat /\ k + 1 <= m
      BY <2>6
    <3> HIDE DEF n, m
    <3>3. n = m - k - 1
      BY <3>1, <3>2
    <3> QED
      BY <3>3 DEF n, m
  <2>4. Len(l) = Len(c) - k - 1 /\ DOMAIN l = 1..Len(l)
    BY <2>3, <2>7
  <2>5. \A i \in 1..Len(l) : 2 + k + i - 1 = i + k + 1
    BY <1>2, <2>4
  <2> QED
    BY <1>2, <2>3, <2>4, <2>5
<1> HIDE DEF l
<1>4. l = <<>> <=> Len(l) = 0
  BY <1>3
<1>5. l \in Seq({l[i] : i \in DOMAIN l})
  <2>1. l \in [1..Len(l) -> {l[i] : i \in DOMAIN l}] /\ Len(l) \in Nat
    BY <1>3
  <2> QED
    BY <2>1
<1>6. (\A i \in DOMAIN l : i + k + 1 \in DOMAIN c) /\ (\A j \in DOMAIN c : j > k + 1 => j - k - 1 \in DOMAIN l)
  BY <1>2, <1>3
<1>7. l = <<>> <=> Len(c) = k + 1
  <2>1. Len(l) = Len(c) - k - 1 /\ Len(c) \in Nat
    BY <1>2, <1>3
  <2>2. Len(l) = 0 <=> Len(c) = k + 1
    BY <2>1
  <2> QED
    BY <1>4, <2>2, Zenon
<1> QED
  BY <1>3, <1>5, <1>6, <1>7 DEF l, RestHas

LEMMA LeftSteps ==
  ASSUME NEW c, CommandOK(c), NEW k \in Nat, k + 1 <= Len(c)
  PROVE  /\ Rest(c, k) = <<>> <=> Len(c) = k + 1
         /\ Len(Rest(c, k)) = Len(c) - k - 1
         /\ DOMAIN Rest(c, k) = 1..Len(Rest(c, k))
         /\ Rest(c, k) \in Seq({Rest(c, k)[i] : i \in DOMAIN Rest(c, k)})
         /\ \A i \in DOMAIN Rest(c, k) : i + k + 1 \in DOMAIN c /\ Rest(c, k)[i] = c[i + k + 1]
         /\ \A j \in DOMAIN c : j > k + 1 => j - k - 1 \in DOMAIN Rest(c, k)
<1>1. Stepwise(c)
  BY DEF CommandOK, Stepwise, Checks, Changing, Listings
<1> QED
  BY <1>1, RestSteps DEF RestHas

LEMMA LeftKeeps ==
  ASSUME NEW c, CommandOK(c), NEW k \in Nat, k + 1 <= Len(c), Rest(c, k) # <<>>
  PROVE  /\ CommandOK(Rest(c, k)) /\ Rest(c, k) # c
         /\ \A i \in DOMAIN Rest(c, k) : Rest(c, k)[i].do \notin Listings \cup {"open"}
         /\ Unlisted(Rest(c, k)) =>
              Unlisted(c) /\ Rest(c, k)[Len(Rest(c, k))] = c[Len(c)]
         /\ Closes(Rest(c, k)) \subseteq Closes(c)
         /\ ListsLater(c) /\ (\A i \in 1..k + 1 : c[i].do \notin {"refresh", "load"}) =>
              ListsLater(Rest(c, k))
<1> DEFINE l == Rest(c, k)
           n == Len(c)
           m == Len(l)
<1>1. /\ n \in Nat /\ k + 1 < n /\ m = n - k - 1 /\ m >= 1
      /\ DOMAIN c = 1..n /\ DOMAIN l = 1..m
      /\ l \in Seq({l[i] : i \in DOMAIN l}) /\ l # <<>>
      /\ \A i \in DOMAIN l : i + k + 1 \in DOMAIN c /\ l[i] = c[i + k + 1]
      /\ \A j \in DOMAIN c : j > k + 1 => j - k - 1 \in DOMAIN l
  <2>1. n \in Nat /\ DOMAIN c = 1..n
    BY CommandSteps
  <2>2. /\ ~(l = <<>>) /\ (l = <<>> <=> n = k + 1) /\ m = n - k - 1 /\ DOMAIN l = 1..m
        /\ l \in Seq({l[i] : i \in DOMAIN l})
        /\ \A i \in DOMAIN l : i + k + 1 \in DOMAIN c /\ l[i] = c[i + k + 1]
        /\ \A j \in DOMAIN c : j > k + 1 => j - k - 1 \in DOMAIN l
    BY LeftSteps
  <2>3. n # k + 1
    BY <2>2, Zenon
  <2> HIDE DEF l, n, m
  <2>5. k + 1 <= n
    BY DEF n
  <2>4. k + 1 < n /\ m >= 1
    <3>1. n \in Nat /\ m = n - k - 1
      BY <2>1, <2>2
    <3> QED
      BY <2>3, <2>5, <3>1
  <2> QED
    BY <2>1, <2>2, <2>4
<1>2. \A i \in DOMAIN c :
        /\ c[i].do \in Changing \cup Listings \cup {"free", "file", "close", "open", "refresh"}
        /\ c[i].do \in Listings \cup {"open"} => n = 1
        /\ c[i].do = "close" => i = n
        /\ c[i].do \in {"free", "file"} =>
             /\ c[i].skip \in Nat /\ i + c[i].skip <= n
             /\ \A j \in DOMAIN c : c[j].do # "refresh"
  BY DEF CommandOK
<1> HIDE DEF l, n, m
<1>3. CommandOK(l)
  <2>1. ASSUME NEW i \in DOMAIN l
        PROVE  /\ l[i].do \in Changing \cup Listings \cup {"free", "file", "close", "open", "refresh"}
               /\ l[i].do \in Listings \cup {"open"} => m = 1
               /\ l[i].do = "close" => i = m
    <3> DEFINE j == i + k + 1
    <3>1. j \in DOMAIN c /\ l[i] = c[j]
      BY <1>1
    <3>2. n # 1
      BY <1>1
    <3>3. j = n => i = m
      BY <1>1
    <3> QED
      BY <1>2, <3>1, <3>2, <3>3
  <2>2. ASSUME NEW i \in DOMAIN l, l[i].do \in {"free", "file"}
        PROVE  /\ l[i].skip \in Nat /\ i + l[i].skip <= m
               /\ \A j \in DOMAIN l : l[j].do # "refresh"
    <3> DEFINE j == i + k + 1
               s == l[i].skip
    <3>1. j \in DOMAIN c /\ l[i] = c[j]
      BY <1>1
    <3>2. s \in Nat /\ j + s <= n /\ \A q \in DOMAIN c : c[q].do # "refresh"
      BY <1>2, <2>2, <3>1
    <3>3. i \in Nat
      BY <1>1
    <3> HIDE DEF s
    <3>4. i + s <= m
      BY <1>1, <3>2, <3>3
    <3>5. \A q \in DOMAIN l : l[q].do # "refresh"
      BY <1>1, <3>2
    <3> QED
      BY <3>2, <3>4, <3>5 DEF s
  <2> QED
    BY <1>1, <2>1, <2>2 DEF CommandOK, m
<1>4. l # c
  BY <1>1 DEF m, n
<1>5. \A i \in DOMAIN l : l[i].do \notin Listings \cup {"open"}
  <2>1. n # 1
    BY <1>1
  <2> QED
    BY <1>1, <1>2, <2>1
<1>6. Unlisted(l) => Unlisted(c) /\ l[m] = c[n]
  <2>1. SUFFICES ASSUME NEW i \in DOMAIN l, l[i].do \in Changing,
                        \A j \in DOMAIN l : i < j => l[j].do # "refresh"
                 PROVE  Unlisted(c) /\ l[m] = c[n]
    BY DEF Unlisted
  <2>2. i + k + 1 \in DOMAIN c /\ c[i + k + 1].do \in Changing
    BY <1>1, <2>1
  <2>3. ASSUME NEW j \in DOMAIN c, i + k + 1 < j
        PROVE  c[j].do # "refresh"
    <3>0. DOMAIN c = 1..n /\ DOMAIN l = 1..m
      BY <1>1
    <3>1. i \in Nat /\ j \in Nat
      BY <3>0
    <3>2. j > k + 1 /\ i < j - k - 1 /\ (j - k - 1) + k + 1 = j
      BY <2>3, <3>1
    <3>3. j - k - 1 \in DOMAIN l
      BY <1>1, <3>2
    <3>4. l[j - k - 1] = c[j]
      BY <1>1, <3>2, <3>3
    <3> QED
      BY <2>1, <3>2, <3>3, <3>4
  <2>4. l[m] = c[n]
    <3>1. m \in DOMAIN l /\ m + k + 1 = n
      BY <1>1
    <3> QED
      BY <1>1, <3>1
  <2> QED
    BY <2>2, <2>3, <2>4 DEF Unlisted
<1>7. Closes(l) \subseteq Closes(c)
  <2>1. SUFFICES ASSUME NEW i \in DOMAIN l, l[i].do = "close"
                 PROVE  l[i].id \in Closes(c)
    BY DEF Closes
  <2> QED
    BY <1>1, <2>1 DEF Closes
<1>8. ASSUME ListsLater(c), \A i \in 1..k + 1 : c[i].do \notin {"refresh", "load"}
      PROVE  ListsLater(l)
  <2>1. PICK j \in DOMAIN c : c[j].do \in {"refresh", "load"}
    BY <1>8 DEF ListsLater
  <2>2. j > k + 1 /\ j \in Nat
    BY <1>1, <1>8, <2>1
  <2>3. j - k - 1 \in DOMAIN l /\ (j - k - 1) + k + 1 = j
    BY <1>1, <2>2
  <2>4. l[j - k - 1] = c[j]
    BY <1>1, <2>3
  <2> QED
    BY <2>1, <2>3, <2>4 DEF ListsLater
<1> QED
  BY <1>3, <1>4, <1>5, <1>6, <1>7, <1>8 DEF l, m, n


(* B after a command took a step: cmd became rest, and S was started. *)
Ran(cmd, rest, S, B, C) ==
  /\ Counts(C)
  /\ DOMAIN C \subseteq DOMAIN B \cup S \cup ({rest} \ {<<>>})
  /\ DOMAIN B \ {cmd} \subseteq DOMAIN C /\ S \subseteq DOMAIN C
  /\ rest # <<>> => rest \in DOMAIN C
  /\ B[cmd] = 1 /\ cmd \notin S \cup {rest} => cmd \notin DOMAIN C
  /\ \A d \in DOMAIN B : d \notin S /\ d # cmd /\ d # rest => C[d] = B[d]
  /\ \A d \in DOMAIN C : d \notin DOMAIN B /\ (d \notin S \/ d # rest) => C[d] = 1

LEMMA ContinuedRan ==
  ASSUME NEW B, Counts(B), NEW cmd \in DOMAIN B, NEW rest, NEW S, rest # cmd,
         NEW C, C = ((B (-) SetToBag({cmd})) (+) SetToBag(IF rest = <<>> THEN {} ELSE {rest}))
                      (+) SetToBag(S)
  PROVE  Ran(cmd, rest, S, B, C)
<1> DEFINE L == IF rest = <<>> THEN {} ELSE {rest}
           M == B (-) SetToBag({cmd})
           N == M (+) SetToBag(L)
<1>0. C = N (+) SetToBag(S)
  OBVIOUS
<1>1. /\ Counts(M)
      /\ \A d \in DOMAIN M : d \in DOMAIN B
      /\ \A d \in DOMAIN B : d # cmd => d \in DOMAIN M
      /\ \A d \in DOMAIN M : d # cmd => M[d] = B[d]
      /\ B[cmd] = 1 => cmd \notin DOMAIN M
  BY BagMinus
<1> HIDE DEF M
<1>2. /\ Counts(N)
      /\ \A d : d \in DOMAIN N <=> d \in DOMAIN M \/ d \in L
      /\ \A d \in DOMAIN M : d \notin L => N[d] = M[d]
      /\ \A d \in L : d \notin DOMAIN M => N[d] = 1
  <2>1. N = M (+) SetToBag(L)
    OBVIOUS
  <2> HIDE DEF L, N
  <2>2. Counts(N)
    BY <1>1, <2>1, BagPlusCounts
  <2> QED
    BY <1>1, <2>1, <2>2, BagPlusCopies
<1> HIDE DEF N
<1>3. /\ Counts(C)
      /\ \A d : d \in DOMAIN C <=> d \in DOMAIN N \/ d \in S
      /\ \A d \in DOMAIN N : d \notin S => C[d] = N[d]
      /\ \A d \in S : d \notin DOMAIN N => C[d] = 1
  <2>1. Counts(C)
    BY <1>0, <1>2, BagPlusCounts
  <2>2. \A d : d \in DOMAIN C <=> d \in DOMAIN N \/ d \in S
    BY <1>0, <1>2, BagPlusCopies
  <2>3. \A d \in DOMAIN N : d \notin S => C[d] = N[d]
    BY <1>0, <1>2, BagPlusCopies
  <2>4. \A d \in S : d \notin DOMAIN N => C[d] = 1
    BY <1>0, <1>2, BagPlusCopies
  <2> QED
    BY <2>1, <2>2, <2>3, <2>4
<1>4. L = {rest} \ {<<>>}
  OBVIOUS
<1> HIDE DEF L
<1>5. /\ DOMAIN C \subseteq DOMAIN B \cup S \cup ({rest} \ {<<>>})
      /\ DOMAIN B \ {cmd} \subseteq DOMAIN C /\ S \subseteq DOMAIN C
      /\ rest # <<>> => rest \in DOMAIN C
      /\ B[cmd] = 1 /\ cmd \notin S \cup {rest} => cmd \notin DOMAIN C
  BY <1>1, <1>2, <1>3, <1>4
<1>6. ASSUME NEW d \in DOMAIN B, d \notin S, d # cmd, d # rest
      PROVE  C[d] = B[d]
  <2>1. d \in DOMAIN M /\ M[d] = B[d]
    BY <1>1, <1>6
  <2>2. d \notin L
    BY <1>4, <1>6
  <2>3. d \in DOMAIN N /\ N[d] = M[d]
    BY <1>2, <2>1, <2>2
  <2> QED
    BY <1>3, <1>6, <2>1, <2>3
<1>7. ASSUME NEW d \in DOMAIN C, d \notin DOMAIN B, d \notin S \/ d # rest
      PROVE  C[d] = 1
  <2>1. d \in S \cup L /\ d \notin DOMAIN M
    <3>1. d \notin DOMAIN M
      BY <1>1, <1>7
    <3> QED
      BY <1>2, <1>3, <3>1
  <2>2. CASE d \in S
    <3>1. d \notin L
      BY <1>4, <1>7, <2>2
    <3> QED
      BY <1>2, <1>3, <2>1, <2>2, <3>1
  <2>3. CASE d \notin S
    BY <1>2, <1>3, <2>1, <2>3
  <2> QED
    BY <2>2, <2>3
<1> QED
  BY <1>3, <1>5, <1>6, <1>7 DEF Ran

LEMMA RanCloses ==
  ASSUME NEW B, NEW C, NEW cmd \in DOMAIN B, NEW rest, NEW S,
         Ran(cmd, rest, S, B, C), ClosesOnce(B),
         rest # cmd, Closes(rest) \subseteq Closes(cmd), \A s \in S : Closes(s) = {}
  PROVE  ClosesOnce(C)
<1> SUFFICES ASSUME NEW c \in DOMAIN C, NEW id \in Closes(c)
             PROVE  C[c] = 1 /\ \A d \in DOMAIN C : id \in Closes(d) => d = c
  BY DEF ClosesOnce
<1>1. \A a \in DOMAIN B : \A x \in Closes(a) :
        B[a] = 1 /\ \A d \in DOMAIN B : x \in Closes(d) => d = a
  BY DEF ClosesOnce
<1>2. /\ DOMAIN C \subseteq DOMAIN B \cup S \cup {rest}
      /\ B[cmd] = 1 /\ cmd \notin S \cup {rest} => cmd \notin DOMAIN C
      /\ \A d \in DOMAIN B : d \notin S /\ d # cmd /\ d # rest => C[d] = B[d]
      /\ \A d \in DOMAIN C : d \notin DOMAIN B /\ (d \notin S \/ d # rest) => C[d] = 1
  BY DEF Ran
<1>3. \A d \in DOMAIN C : id \in Closes(d) => d \notin S /\ d \in DOMAIN B \cup {rest}
  BY <1>2
\* The command that took the step closes the dialog, and only what is left of it does now.
<1>4. CASE id \in Closes(cmd)
  <2>1. B[cmd] = 1 /\ \A d \in DOMAIN B : id \in Closes(d) => d = cmd
    BY <1>1, <1>4
  <2>2. cmd \notin S
    BY <1>4
  <2>3. cmd \notin DOMAIN C
    BY <1>2, <2>1, <2>2
  <2>4. \A d \in DOMAIN C : id \in Closes(d) => d = rest
    BY <1>3, <2>1, <2>3
  <2>5. rest \notin DOMAIN B
    BY <2>1, <2>4
  <2> QED
    BY <1>2, <1>3, <2>4, <2>5
<1>5. CASE id \notin Closes(cmd)
  <2>1. \A d \in DOMAIN C : id \in Closes(d) => d \in DOMAIN B /\ d \notin S \cup {cmd, rest}
    BY <1>3, <1>5
  <2> QED
    BY <1>1, <1>2, <2>1
<1> QED
  BY <1>4, <1>5

LEMMA RanLists ==
  ASSUME NEW B, NEW C, NEW cmd \in DOMAIN B, NEW rest, NEW S,
         Ran(cmd, rest, S, B, C), ListsOnce(B),
         rest # <<>> => rest[1].do \notin Listings,
         \A s \in S : s[1].do \notin Listings, <<>> \notin DOMAIN B \cup S
  PROVE  ListsOnce(C)
<1> SUFFICES ASSUME NEW c \in DOMAIN C, c[1].do \in Listings
             PROVE  C[c] = 1 /\ \A d \in DOMAIN C : d[1].do \in Listings => d = c
  BY DEF ListsOnce
<1>1. \A a \in DOMAIN B : a[1].do \in Listings =>
        B[a] = 1 /\ \A d \in DOMAIN B : d[1].do \in Listings => d = a
  BY DEF ListsOnce
<1>2. /\ DOMAIN C \subseteq DOMAIN B \cup S \cup ({rest} \ {<<>>})
      /\ B[cmd] = 1 /\ cmd \notin S \cup {rest} => cmd \notin DOMAIN C
      /\ \A d \in DOMAIN B : d \notin S /\ d # cmd /\ d # rest => C[d] = B[d]
  BY DEF Ran
<1>3. \A d \in DOMAIN C : d[1].do \in Listings => d \in DOMAIN B /\ d \notin S /\ d # rest
  BY <1>2
<1>4. B[c] = 1 /\ \A d \in DOMAIN C : d[1].do \in Listings => d = c
  BY <1>1, <1>3
<1>5. c # cmd
  BY <1>2, <1>3, <1>4
<1> QED
  BY <1>2, <1>3, <1>4, <1>5


LEMMA BagPlusNone ==
  ASSUME NEW B, Counts(B)
  PROVE  B (+) SetToBag({}) = B
<1>1. B (+) SetToBag({}) = [e \in DOMAIN B |-> B[e] + 0]
  BY DEF (+), SetToBag
<1>2. \A e \in DOMAIN B : B[e] \in Nat
  BY DEF Counts
<1>3. B = [e \in DOMAIN B |-> B[e]]
  BY DEF Counts
<1> QED
  BY <1>1, <1>2, <1>3

-----------------------------------------------------------------------------
(* What is asked or about to be. *)

AsksBy(c, b) == \E i \in DOMAIN c : c[i].do = "open" /\ b = c[i].box

LEMMA AskingIs ==
  \A b : b \in Asking <=> b \in ToSet(boxes) \/ \E c \in DOMAIN commands : AsksBy(c, b)
  BY DEF Asking, BagToSet, AsksBy

LEMMA AskingIsNext ==
  \A b : b \in Asking' <=> b \in ToSet(boxes') \/ \E c \in DOMAIN commands' : AsksBy(c, b)
  BY DEF Asking, BagToSet, AsksBy

(* Whatever is in flight now was, or was started, or is left of cmd.        *)
Foreseen(cmd, k, S) ==
  \A c \in DOMAIN commands' :
    c \in DOMAIN commands \/ c \in S \/ (c = Rest(cmd, k) /\ c # <<>>)

(* A command of the bag took a step, and S was started.                     *)
LEMMA CommandStep ==
  ASSUME Counts(commands), ClosesOnce(commands), ListsOnce(commands),
         \A c \in DOMAIN commands : CommandOK(c),
         NEW cmd \in DOMAIN commands, NEW k \in Nat, k + 1 <= Len(cmd), NEW S,
         \A s \in S : CommandOK(s) /\ Closes(s) = {},
         commands' = Continued(cmd, k) (+) SetToBag(S)
  PROVE  /\ Ran(cmd, Rest(cmd, k), S, commands, commands')
         /\ Counts(commands') /\ ClosesOnce(commands')
         /\ (\A s \in S : s[1].do \notin Listings) => ListsOnce(commands')
         /\ \A c \in DOMAIN commands' : CommandOK(c)
         /\ Foreseen(cmd, k, S)
<1> DEFINE l == Rest(cmd, k)
           B == commands
           L == IF l = <<>> THEN {} ELSE {l}
<1>1. commands' = ((B (-) SetToBag({cmd})) (+) SetToBag(L)) (+) SetToBag(S)
  BY DEF Continued, EmptyBag, Rest
<1>2. CommandOK(cmd)
  OBVIOUS
<1>3. l # cmd /\ Closes(l) \subseteq Closes(cmd) /\ (l # <<>> => CommandOK(l) /\ l[1].do \notin Listings)
  <2>1. CASE l = <<>>
    <3>1. l # cmd /\ Closes(l) = {}
      BY <1>2, <2>1 DEF Closes, CommandOK
    <3> QED
      BY <2>1, <3>1
  <2>2. CASE l # <<>>
    <3>1. /\ CommandOK(l) /\ l # cmd /\ Closes(l) \subseteq Closes(cmd)
          /\ \A i \in DOMAIN l : l[i].do \notin Listings \cup {"open"}
      BY <1>2, <2>2, LeftKeeps
    <3>2. 1 \in DOMAIN l
      BY <3>1, CommandSteps
    <3> QED
      BY <3>1, <3>2
  <2> QED
    BY <2>1, <2>2
<1> HIDE DEF l
<1>4. Ran(cmd, l, S, commands, commands')
  <2>1. commands' = ((B (-) SetToBag({cmd})) (+) SetToBag(IF l = <<>> THEN {} ELSE {l})) (+) SetToBag(S)
    BY <1>1
  <2> HIDE DEF L
  <2> QED
    BY <1>3, <2>1, ContinuedRan
<1>5. Counts(commands')
  BY <1>4 DEF Ran
<1>6. ClosesOnce(commands')
  BY <1>3, <1>4, RanCloses
<1>7. <<>> \notin DOMAIN commands \cup S
  BY DEF CommandOK
<1>8. (\A s \in S : s[1].do \notin Listings) => ListsOnce(commands')
  BY <1>3, <1>4, <1>7, RanLists
<1>9. \A c \in DOMAIN commands' : c \in DOMAIN commands \/ c \in S \/ (c = l /\ c # <<>>)
  BY <1>4 DEF Ran
<1>10. \A c \in DOMAIN commands' : CommandOK(c)
  BY <1>3, <1>9
<1> QED
  BY <1>4, <1>5, <1>6, <1>8, <1>9, <1>10 DEF l, Foreseen

(* Whoever is followed by a closing now was before. *)
LEMMA StepBacked ==
  ASSUME \A c \in DOMAIN commands : CommandOK(c), \A c \in DOMAIN commands : Backed(c)',
         NEW cmd \in DOMAIN commands, NEW k \in Nat, k + 1 <= Len(cmd), NEW S,
         \A s \in S : ~Unlisted(s),
         Foreseen(cmd, k, S)
  PROVE  \A c \in DOMAIN commands' : Backed(c)'
<1> SUFFICES ASSUME NEW c \in DOMAIN commands', Unlisted(c)
             PROVE  c[Len(c)].do = "close" /\ FormIsOpen(c[Len(c)].id)'
  BY DEF Backed
<1>0. c \in DOMAIN commands \/ c \in S \/ (c = Rest(cmd, k) /\ c # <<>>)
  BY DEF Foreseen
<1>1. \A d \in DOMAIN commands : Unlisted(d) => d[Len(d)].do = "close" /\ FormIsOpen(d[Len(d)].id)'
  BY DEF Backed
<1>2. CASE c \in DOMAIN commands
  BY <1>1, <1>2
<1>3. CASE c = Rest(cmd, k) /\ c # <<>>
  <2>1. Unlisted(cmd) /\ c[Len(c)] = cmd[Len(cmd)]
    BY <1>3, LeftKeeps
  <2> QED
    BY <1>1, <2>1
<1> QED
  BY <1>0, <1>2, <1>3

(* A step opens no dialog that was not asked for. *)
LEMMA StepAsks ==
  ASSUME \A c \in DOMAIN commands : CommandOK(c),
         NEW cmd \in DOMAIN commands, NEW k \in Nat, k + 1 <= Len(cmd), NEW S,
         \A s \in S : \A i \in DOMAIN s : s[i].do # "open",
         Foreseen(cmd, k, S),
         \A b \in ToSet(boxes') : b \in Asking
  PROVE  Asking' \subseteq Asking
<1>1. SUFFICES ASSUME NEW b, NEW c \in DOMAIN commands', AsksBy(c, b)
               PROVE  b \in Asking
  BY AskingIsNext
<1>2. c \in DOMAIN commands
  <2>1. PICK i \in DOMAIN c : c[i].do = "open"
    BY <1>1 DEF AsksBy
  <2>2. CASE c = Rest(cmd, k) /\ c # <<>>
    BY <2>1, <2>2, LeftKeeps
  <2> QED
    BY <2>1, <2>2 DEF Foreseen
<1> QED
  BY <1>1, <1>2, AskingIs


LEMMA ContinuedNone ==
  ASSUME Counts(commands), NEW cmd \in DOMAIN commands, NEW k
  PROVE  Continued(cmd, k) (+) SetToBag({}) = Continued(cmd, k)
<1> DEFINE M == commands (-) SetToBag({cmd})
           N == M (+) SetToBag(IF Rest(cmd, k) = <<>> THEN {} ELSE {Rest(cmd, k)})
<1>1. Continued(cmd, k) = N
  BY DEF Continued, EmptyBag, Rest
<1>2. Counts(M)
  BY BagMinus
<1> HIDE DEF M
<1>3. Counts(N)
  BY <1>2, BagPlusCounts
<1> HIDE DEF N
<1> QED
  BY <1>1, <1>3, BagPlusNone

LEMMA SameBoxes ==
  ASSUME \A b \in Asking : BoxOK(b), \A a, b \in Asking : OneKind(a, b),
         Asking' \subseteq Asking, opened' = opened
  PROVE  (\A b \in Asking' : BoxOK(b)') /\ \A a, b \in Asking' : OneKind(a, b)
<1>1. \A b : BoxOK(b) => BoxOK(b)'
  BY DEF BoxOK
<1> QED
  BY <1>1

(* A reading that is to come still is when other commands went on.           *)
LEMMA StillListed ==
  ASSUME \A c \in DOMAIN commands : CommandOK(c),
         NEW cmd \in DOMAIN commands, NEW k \in Nat, k + 1 <= Len(cmd), NEW S,
         Ran(cmd, Rest(cmd, k), S, commands, commands'),
         \A i \in 1..k + 1 : cmd[i].do \notin {"refresh", "load"},
         \E c \in DOMAIN commands : ListsLater(c)
  PROVE  \E c \in DOMAIN commands' : ListsLater(c)
<1>1. PICK c \in DOMAIN commands : ListsLater(c)
  OBVIOUS
<1>2. /\ \A d \in DOMAIN commands : d # cmd => d \in DOMAIN commands'
      /\ Rest(cmd, k) # <<>> => Rest(cmd, k) \in DOMAIN commands'
  BY DEF Ran
<1>3. CASE c # cmd
  BY <1>1, <1>2, <1>3
<1>4. CASE c = cmd
  <2>1. Rest(cmd, k) # <<>>
    <3>1. SUFFICES ASSUME Rest(cmd, k) = <<>> PROVE FALSE
      OBVIOUS
    <3>2. Len(cmd) = k + 1
      BY <3>1, LeftSteps
    <3>3. DOMAIN cmd = 1..Len(cmd)
      BY CommandSteps
    <3> QED
      BY <1>1, <1>4, <3>2, <3>3 DEF ListsLater
  <2>2. ListsLater(Rest(cmd, k))
    BY <1>1, <1>4, <2>1, LeftKeeps
  <2> QED
    BY <1>2, <2>1, <2>2
<1> QED
  BY <1>3, <1>4

(* A step on the disk: nothing is looked for but the first step, or it       *)
(* changes something.                                                       *)
LEMMA DiskStep ==
  ASSUME FilesOK, NEW cmd \in DOMAIN commands, NEW k \in Nat, k + 1 <= Len(cmd),
         commands' = Continued(cmd, k), UNCHANGED <<items, boxes, opened>>,
         \A i \in 1..k + 1 : cmd[i].do \notin {"refresh", "load"},
         \/ disk' = disk /\ cmd[1].do # "loaded"
         \/ k = 0 /\ cmd[1].do \in Changing
  PROVE  FilesOK'
<1>1. /\ FilesTyped /\ Counts(commands) /\ ClosesOnce(commands) /\ ListsOnce(commands)
      /\ \A c \in DOMAIN commands : CommandOK(c) /\ Backed(c)
      /\ \A b \in Asking : BoxOK(b)
      /\ \A a, b \in Asking : OneKind(a, b)
  BY DEF FilesOK, FilesTyped
<1>2. commands' = Continued(cmd, k) (+) SetToBag({})
  BY <1>1, ContinuedNone
<1>3. /\ Ran(cmd, Rest(cmd, k), {}, commands, commands')
      /\ Counts(commands') /\ ClosesOnce(commands') /\ ListsOnce(commands')
      /\ \A c \in DOMAIN commands' : CommandOK(c)
      /\ Foreseen(cmd, k, {})
  BY <1>1, <1>2, CommandStep
<1>4. \A c \in DOMAIN commands' : Backed(c)'
  <2>1. \A c \in DOMAIN commands : Backed(c)'
    BY <1>1 DEF Backed, FormIsOpen
  <2> QED
    BY <1>1, <1>3, <2>1, StepBacked
<1>5. \A b \in ToSet(boxes') : b \in Asking
  BY AskingIs
<1>6. Asking' \subseteq Asking
  BY <1>1, <1>3, <1>5, StepAsks
<1>7. (\A b \in Asking' : BoxOK(b)') /\ \A a, b \in Asking' : OneKind(a, b)
  BY <1>1, <1>6, SameBoxes
<1>8. FreshOrListed'
  <2>1. CASE \E c \in DOMAIN commands : ListsLater(c)
    <3>1. \E c \in DOMAIN commands' : ListsLater(c)
      BY <1>1, <1>3, <2>1, StillListed
    <3> QED
      BY <3>1 DEF FreshOrListed
  <2>2. CASE \E b \in ToSet(boxes) : b.kind = "form"
    BY <2>2 DEF FreshOrListed
  <2>3. CASE /\ cmd[1].do \in Changing /\ k = 0
             /\ ~\E c \in DOMAIN commands : ListsLater(c)
    <3>1. 1 \in DOMAIN cmd
      BY <1>1, CommandSteps
    <3>2. Unlisted(cmd)
      BY <2>3, <3>1 DEF Unlisted, ListsLater
    <3>3. \E b \in ToSet(boxes) : b.kind = "form"
      BY <1>1, <3>2 DEF Backed, FormIsOpen
    <3> QED
      BY <2>2, <3>3
  <2>4. CASE /\ disk' = disk /\ cmd[1].do # "loaded"
             /\ ~\E c \in DOMAIN commands : ListsLater(c)
             /\ ~\E b \in ToSet(boxes) : b.kind = "form"
    <3>1. /\ \A c \in DOMAIN commands : c[1].do = "loaded" => c[1].rows = Listing
          /\ (\A c \in DOMAIN commands : c[1].do # "loaded") => items = Listing
      BY <2>4 DEF FilesOK, FreshOrListed
    <3>2. Listing' = Listing
      BY <2>4 DEF Listing
    <3>3. \A c \in DOMAIN commands' : c[1].do = "loaded" => c \in DOMAIN commands
      <4>1. SUFFICES ASSUME NEW c \in DOMAIN commands', c[1].do = "loaded", c = Rest(cmd, k), c # <<>>
                     PROVE  FALSE
        BY <1>3 DEF Foreseen
      <4>2. 1 \in DOMAIN c
        BY <1>3, CommandSteps
      <4> QED
        BY <1>1, <4>1, <4>2, LeftKeeps DEF Listings
    <3>4. \A c \in DOMAIN commands : c[1].do = "loaded" => c \in DOMAIN commands'
      BY <1>3, <2>4 DEF Ran
    <3>5. /\ \A c \in DOMAIN commands' : c[1].do = "loaded" => c[1].rows = Listing'
          /\ (\A c \in DOMAIN commands' : c[1].do # "loaded") => items' = Listing'
      BY <3>1, <3>2, <3>3, <3>4
    <3> QED
      BY <3>5 DEF FreshOrListed
  <2> QED
    BY <2>1, <2>2, <2>3, <2>4
<1>9. FilesTyped'
  BY <1>1, <1>3 DEF FilesTyped
<1> QED
  BY <1>3, <1>4, <1>7, <1>8, <1>9 DEF FilesOK


LEMMA RunDiskStep ==
  ASSUME FilesOK, NEW cmd \in DOMAIN commands, RunDisk(cmd)
  PROVE  FilesOK'
<1>1. CommandOK(cmd)
  BY DEF FilesOK
<1>2. Head(cmd) = cmd[1] /\ 1 \in DOMAIN cmd /\ Len(cmd) \in Nat /\ Len(cmd) >= 1
  BY <1>1, CommandSteps
<1>3. UNCHANGED <<items, boxes, opened>>
  BY DEF RunDisk, viewOnly
<1>4. ASSUME cmd[1].do \in Changing, commands' = Continued(cmd, 0)
      PROVE  FilesOK'
  <2>1. \A i \in 1..0 + 1 : cmd[i].do \notin {"refresh", "load"}
    BY <1>4 DEF Changing
  <2>2. 0 + 1 <= Len(cmd)
    BY <1>2
  <2> QED
    BY <1>3, <1>4, <2>1, <2>2, DiskStep
<1>5. ASSUME cmd[1].do \in {"free", "file"}, disk' = disk,
             NEW k \in {0, cmd[1].skip}, commands' = Continued(cmd, k)
      PROVE  FilesOK'
  <2>1. /\ cmd[1].skip \in Nat /\ 1 + cmd[1].skip <= Len(cmd)
        /\ \A j \in DOMAIN cmd : cmd[j].do # "refresh"
        /\ \A j \in DOMAIN cmd : cmd[j].do = "load" => Len(cmd) = 1
    BY <1>1, <1>2, <1>5 DEF CommandOK, Listings
  <2>2. k \in Nat /\ k + 1 <= Len(cmd)
    BY <1>2, <2>1
  <2>3. ASSUME NEW i \in 1..k + 1
        PROVE  cmd[i].do \notin {"refresh", "load"}
    <3>1. i \in DOMAIN cmd /\ DOMAIN cmd = 1..Len(cmd)
      BY <1>1, <2>2, CommandSteps
    <3>2. CASE Len(cmd) = 1
      <4>1. i = 1
        BY <3>1, <3>2
      <4> QED
        BY <1>5, <4>1
    <3> QED
      BY <2>1, <3>1, <3>2
  <2> QED
    BY <1>3, <1>5, <2>2, <2>3, DiskStep
<1>6. CASE cmd[1].do = "remove" /\ commands' = Continued(cmd, 0)
  BY <1>4, <1>6 DEF Changing
<1>7. CASE cmd[1].do = "free" /\ disk' = disk /\ commands' = Continued(cmd, IF At(cmd[1].path) = {} THEN 0 ELSE cmd[1].skip)
  <2>1. PICK k \in {0, cmd[1].skip} : commands' = Continued(cmd, k)
    BY <1>7
  <2> QED
    BY <1>5, <1>7, <2>1
<1>8. CASE cmd[1].do = "file" /\ disk' = disk /\ commands' = Continued(cmd, IF At(cmd[1].path) # {} THEN 0 ELSE cmd[1].skip)
  <2>1. PICK k \in {0, cmd[1].skip} : commands' = Continued(cmd, k)
    BY <1>8
  <2> QED
    BY <1>5, <1>8, <2>1
<1>9. CASE cmd[1].do = "move" /\ commands' = Continued(cmd, 0)
  BY <1>4, <1>9 DEF Changing
<1>10. CASE cmd[1].do \in {"write", "edit"} /\ commands' = Continued(cmd, 0)
  BY <1>4, <1>10 DEF Changing
<1>11. cmd[1].do # "verify"
  BY <1>1, <1>2 DEF CommandOK, Changing, Listings
<1> QED
  BY <1>2, <1>6, <1>7, <1>8, <1>9, <1>10, <1>11 DEF RunDisk


(* What the steps of listing commands and of dialogs have in common. *)
LEMMA ListStep ==
  ASSUME FilesOK, NEW cmd \in DOMAIN commands, NEW S,
         commands' = Continued(cmd, 0) (+) SetToBag(S), opened' = opened,
         \A s \in S : /\ CommandOK(s) /\ Closes(s) = {} /\ ~Unlisted(s)
                      /\ \A i \in DOMAIN s : s[i].do # "open",
         boxes' \in Seq(ToSet(boxes')), \A b \in ToSet(boxes') : b \in Asking,
         \A c \in DOMAIN commands : Backed(c)',
         ListsOnce(commands'), FreshOrListed'
  PROVE  FilesOK'
<1>1. /\ FilesTyped /\ Counts(commands) /\ ClosesOnce(commands) /\ ListsOnce(commands)
      /\ \A c \in DOMAIN commands : CommandOK(c)
      /\ \A b \in Asking : BoxOK(b)
      /\ \A a, b \in Asking : OneKind(a, b)
  BY DEF FilesOK, FilesTyped
<1>2. 0 \in Nat /\ 0 + 1 <= Len(cmd)
  BY <1>1, CommandSteps
<1>3. /\ Counts(commands') /\ ClosesOnce(commands')
      /\ \A c \in DOMAIN commands' : CommandOK(c)
      /\ Foreseen(cmd, 0, S)
  BY <1>1, <1>2, CommandStep
<1>4. \A c \in DOMAIN commands' : Backed(c)'
  BY <1>1, <1>2, <1>3, StepBacked
<1>5. Asking' \subseteq Asking
  BY <1>1, <1>2, <1>3, StepAsks
<1>6. (\A b \in Asking' : BoxOK(b)') /\ \A a, b \in Asking' : OneKind(a, b)
  BY <1>1, <1>5, SameBoxes
<1>7. FilesTyped'
  BY <1>1, <1>3 DEF FilesTyped
<1> QED
  BY <1>3, <1>4, <1>6, <1>7 DEF FilesOK

LEMMA OneStep ==
  ASSUME NEW s, s.do \in {"refresh", "load", "loaded"}
  PROVE  /\ CommandOK(<<s>>) /\ Closes(<<s>>) = {} /\ ~Unlisted(<<s>>)
         /\ \A i \in DOMAIN <<s>> : <<s>>[i].do # "open"
         /\ s.do # "loaded" => ListsLater(<<s>>)
<1> DEFINE c == <<s>>
<1>1. DOMAIN c = {1} /\ c[1] = s /\ Len(c) = 1 /\ c # <<>>
  OBVIOUS
<1>2. c \in Seq({c[i] : i \in DOMAIN c})
  OBVIOUS
<1> HIDE DEF c
<1>3. CommandOK(c)
  BY <1>1, <1>2 DEF CommandOK, Listings
<1>4. Closes(c) = {} /\ ~Unlisted(c) /\ \A i \in DOMAIN c : c[i].do # "open"
  BY <1>1 DEF Closes, Unlisted, Changing
<1>5. s.do # "loaded" => ListsLater(c)
  BY <1>1 DEF ListsLater
<1> QED
  BY <1>3, <1>4, <1>5 DEF c

LEMMA RefreshStep ==
  ASSUME FilesOK, NEW cmd \in DOMAIN commands, cmd[1].do = "refresh",
         commands' = Continued(cmd, 0) (+) SetToBag({<<Load>>}), InFlight = {},
         UNCHANGED <<boxes, opened>>
  PROVE  FilesOK'
<1>1. /\ Counts(commands) /\ ClosesOnce(commands) /\ ListsOnce(commands)
      /\ \A c \in DOMAIN commands : CommandOK(c) /\ Backed(c)
      /\ boxes \in Seq(ToSet(boxes)) /\ CommandOK(cmd)
  BY DEF FilesOK, FilesTyped
<1>2. /\ CommandOK(<<Load>>) /\ Closes(<<Load>>) = {} /\ ~Unlisted(<<Load>>)
      /\ \A i \in DOMAIN <<Load>> : <<Load>>[i].do # "open"
      /\ ListsLater(<<Load>>) /\ <<Load>>[1].do = "load"
  BY OneStep DEF Load
<1>3. 0 \in Nat /\ 0 + 1 <= Len(cmd)
  BY <1>1, CommandSteps
<1>4. Ran(cmd, Rest(cmd, 0), {<<Load>>}, commands, commands') /\ Foreseen(cmd, 0, {<<Load>>})
  BY <1>1, <1>2, <1>3, CommandStep
<1>5. \A c \in DOMAIN commands : c[1].do \notin Listings
  <2>1. SUFFICES ASSUME NEW c \in DOMAIN commands, c[1].do \in Listings
                 PROVE  c \in InFlight
    OBVIOUS
  <2>2. Head(c) = c[1]
    BY <1>1, CommandSteps
  <2> QED
    BY <2>1, <2>2 DEF InFlight, BagToSet, Listings
<1>6. Rest(cmd, 0) # <<>> => Rest(cmd, 0)[1].do \notin Listings
  <2>1. SUFFICES ASSUME Rest(cmd, 0) # <<>> PROVE Rest(cmd, 0)[1].do \notin Listings
    OBVIOUS
  <2>2. CommandOK(Rest(cmd, 0)) /\ \A i \in DOMAIN Rest(cmd, 0) : Rest(cmd, 0)[i].do \notin Listings
    BY <1>1, <1>3, <2>1, LeftKeeps
  <2> QED
    BY <2>2, CommandSteps
<1>7. ListsOnce(commands')
  <2>1. \A c \in DOMAIN commands' : c[1].do \in Listings => c = <<Load>>
    BY <1>4, <1>5, <1>6 DEF Foreseen
  <2>2. <<Load>> \notin DOMAIN commands /\ <<Load>> \in DOMAIN commands'
    BY <1>2, <1>4, <1>5 DEF Ran, Listings
  <2>3. <<Load>> # Rest(cmd, 0)
    BY <1>2, <1>6 DEF Listings
  <2>4. commands'[<<Load>>] = 1
    BY <1>4, <2>2, <2>3 DEF Ran
  <2> QED
    BY <2>1, <2>4 DEF ListsOnce
<1>8. FreshOrListed'
  BY <1>2, <1>4 DEF FreshOrListed, Ran
<1>9. \A c \in DOMAIN commands : Backed(c)'
  BY <1>1 DEF Backed, FormIsOpen
<1>10. boxes' \in Seq(ToSet(boxes')) /\ \A b \in ToSet(boxes') : b \in Asking
  BY <1>1, AskingIs
<1> QED
  BY <1>2, <1>7, <1>8, <1>9, <1>10, ListStep


LEMMA AloneSteps ==
  ASSUME NEW c, CommandOK(c), c[1].do \in Listings \cup {"open"} \/ Len(c) = 1
  PROVE  Len(c) = 1 /\ DOMAIN c = {1} /\ Rest(c, 0) = <<>> /\ 0 \in Nat /\ 0 + 1 <= Len(c)
<1>1. 1 \in DOMAIN c /\ DOMAIN c = 1..Len(c)
  BY CommandSteps
<1>2. Len(c) = 1
  BY <1>1 DEF CommandOK
<1>3. 0 \in Nat /\ 0 + 1 <= Len(c) /\ Len(c) = 0 + 1
  BY <1>2
<1>4. Rest(c, 0) = <<>> <=> Len(c) = 0 + 1
  BY <1>3, LeftSteps
<1> QED
  BY <1>1, <1>2, <1>3, <1>4

LEMMA LoadStep ==
  ASSUME FilesOK, NEW cmd \in DOMAIN commands, cmd[1].do = "load",
         commands' = (commands (-) SetToBag({cmd})) (+) SetToBag({<<Loaded(Listing)>>}),
         UNCHANGED <<boxes, opened, disk>>
  PROVE  FilesOK'
<1> DEFINE r == <<Loaded(Listing)>>
<1>1. /\ Counts(commands) /\ ClosesOnce(commands) /\ ListsOnce(commands)
      /\ \A c \in DOMAIN commands : CommandOK(c) /\ Backed(c)
      /\ boxes \in Seq(ToSet(boxes)) /\ CommandOK(cmd)
  BY DEF FilesOK, FilesTyped
<1>2. /\ CommandOK(r) /\ Closes(r) = {} /\ ~Unlisted(r)
      /\ \A i \in DOMAIN r : r[i].do # "open"
  BY OneStep DEF Loaded
<1>3. r[1].do = "loaded" /\ r[1].rows = Listing
  BY DEF Loaded
<1>4. Len(cmd) = 1 /\ Rest(cmd, 0) = <<>> /\ 0 \in Nat /\ 0 + 1 <= Len(cmd)
  BY <1>1, AloneSteps DEF Listings
<1> HIDE DEF r
<1>5. commands' = Continued(cmd, 0) (+) SetToBag({r})
  <2> DEFINE M == commands (-) SetToBag({cmd})
  <2>1. Counts(M)
    BY <1>1, BagMinus
  <2>2. Continued(cmd, 0) = M (+) SetToBag({})
    BY <1>4 DEF Continued, EmptyBag, Rest
  <2>3. commands' = M (+) SetToBag({r})
    BY DEF r
  <2> HIDE DEF M
  <2>4. Continued(cmd, 0) = M
    BY <2>1, <2>2, BagPlusNone
  <2> QED
    BY <2>3, <2>4
<1>6. Ran(cmd, <<>>, {r}, commands, commands') /\ Foreseen(cmd, 0, {r})
  BY <1>1, <1>2, <1>4, <1>5, CommandStep
<1>7. commands[cmd] = 1 /\ \A d \in DOMAIN commands : d[1].do \in Listings => d = cmd
  BY <1>1 DEF ListsOnce, Listings
<1>8. cmd \notin DOMAIN commands'
  <2>1. cmd \notin {r} \cup {<<>>}
    BY <1>1, <1>3 DEF CommandOK
  <2> QED
    BY <1>6, <1>7, <2>1 DEF Ran
<1>9. \A c \in DOMAIN commands' : c[1].do \in Listings => c = r
  BY <1>4, <1>6, <1>7, <1>8 DEF Foreseen
<1>10. r \in DOMAIN commands' /\ r \notin DOMAIN commands
  BY <1>3, <1>6, <1>7 DEF Ran, Listings
<1>11. ListsOnce(commands')
  <2>1. r # <<>>
    BY <1>2 DEF CommandOK
  <2>2. commands'[r] = 1
    BY <1>6, <1>10, <2>1 DEF Ran
  <2> QED
    BY <1>9, <2>2 DEF ListsOnce
<1>12. FreshOrListed'
  <2>1. Listing' = Listing
    BY DEF Listing
  <2>2. \A c \in DOMAIN commands' : c[1].do = "loaded" => c[1].rows = Listing'
    BY <1>3, <1>9, <2>1 DEF Listings
  <2> QED
    BY <1>3, <1>10, <2>2 DEF FreshOrListed
<1>13. \A c \in DOMAIN commands : Backed(c)'
  BY <1>1 DEF Backed, FormIsOpen
<1>14. boxes' \in Seq(ToSet(boxes')) /\ \A b \in ToSet(boxes') : b \in Asking
  BY <1>1, AskingIs
<1> QED
  BY <1>2, <1>5, <1>11, <1>12, <1>13, <1>14, ListStep

LEMMA LoadedStep ==
  ASSUME FilesOK, NEW cmd \in DOMAIN commands, cmd[1].do = "loaded",
         commands' = Continued(cmd, 0), items' = cmd[1].rows,
         UNCHANGED <<boxes, opened, disk>>
  PROVE  FilesOK'
<1>1. /\ Counts(commands) /\ ClosesOnce(commands) /\ ListsOnce(commands)
      /\ \A c \in DOMAIN commands : CommandOK(c) /\ Backed(c)
      /\ boxes \in Seq(ToSet(boxes)) /\ CommandOK(cmd)
  BY DEF FilesOK, FilesTyped
<1>2. Len(cmd) = 1 /\ DOMAIN cmd = {1} /\ Rest(cmd, 0) = <<>> /\ 0 \in Nat /\ 0 + 1 <= Len(cmd)
  BY <1>1, AloneSteps DEF Listings
<1>3. commands' = Continued(cmd, 0) (+) SetToBag({})
  BY <1>1, ContinuedNone
<1>4. /\ Ran(cmd, <<>>, {}, commands, commands') /\ Foreseen(cmd, 0, {})
      /\ ListsOnce(commands')
  <2>0. 0 \in Nat /\ 0 + 1 <= Len(cmd)
    BY <1>2
  <2>1. Ran(cmd, Rest(cmd, 0), {}, commands, commands') /\ Foreseen(cmd, 0, {}) /\ ListsOnce(commands')
    BY <1>1, <1>3, <2>0, CommandStep
  <2> QED
    BY <1>2, <2>1
<1>5. FreshOrListed'
  <2>1. CASE \E c \in DOMAIN commands : ListsLater(c)
    <3>1. PICK c \in DOMAIN commands : ListsLater(c)
      BY <2>1
    <3>2. c # cmd
      BY <1>2, <3>1 DEF ListsLater
    <3>3. c \in DOMAIN commands'
      BY <1>4, <3>2 DEF Ran
    <3> QED
      BY <3>1, <3>3 DEF FreshOrListed
  <2>2. CASE \E b \in ToSet(boxes) : b.kind = "form"
    BY <2>2 DEF FreshOrListed
  <2>3. CASE \A c \in DOMAIN commands : c[1].do = "loaded" => c[1].rows = Listing
    <3>1. Listing' = Listing
      BY DEF Listing
    <3>2. \A c \in DOMAIN commands' : c \in DOMAIN commands
      BY <1>2, <1>4 DEF Foreseen
    <3>3. items' = Listing'
      BY <2>3, <3>1
    <3>4. \A c \in DOMAIN commands' : c[1].do = "loaded" => c[1].rows = Listing'
      BY <2>3, <3>1, <3>2
    <3> QED
      BY <3>3, <3>4 DEF FreshOrListed
  <2> QED
    BY <2>1, <2>2, <2>3 DEF FilesOK, FreshOrListed
<1>6. \A c \in DOMAIN commands : Backed(c)'
  BY <1>1 DEF Backed, FormIsOpen
<1>7. boxes' \in Seq(ToSet(boxes')) /\ \A b \in ToSet(boxes') : b \in Asking
  BY <1>1, AskingIs
<1> QED
  BY <1>3, <1>4, <1>5, <1>6, <1>7, ListStep

LEMMA RunListStep ==
  ASSUME FilesOK, NEW cmd \in DOMAIN commands, RunList(cmd), UNCHANGED <<list, boxes, opened>>,
         ~excused'
  PROVE  FilesOK'
<1>1. Head(cmd) = cmd[1]
  BY CommandSteps DEF FilesOK
<1>2. CASE /\ cmd[1].do = "refresh" /\ excused' = (excused \/ InFlight # {})
           /\ commands' = Continued(cmd, 0) (+) SetToBag({<<Load>>})
  <2>1. InFlight = {}
    BY <1>2
  <2> QED
    BY <1>2, <2>1, RefreshStep
<1>3. CASE /\ cmd[1].do = "load" /\ UNCHANGED disk
           /\ commands' = (commands (-) SetToBag({cmd})) (+) SetToBag({<<Loaded(Listing)>>})
  BY <1>3, LoadStep
<1>4. CASE excused' = TRUE
  BY <1>4
<1>5. CASE cmd[1].do = "loaded" /\ commands' = Continued(cmd, 0) /\ ShowRows(cmd[1].rows) /\ UNCHANGED disk
  <2>1. items' = cmd[1].rows
    BY <1>5 DEF ShowRows, Display
  <2> QED
    BY <1>5, <2>1, LoadedStep
<1> QED
  BY <1>1, <1>2, <1>3, <1>4, <1>5 DEF RunList


(* What a filtered stack holds. *)
LEMMA RetainedBoxes ==
  ASSUME NEW T, NEW s \in Seq(T), NEW I \in SUBSET DOMAIN s
  PROVE  /\ Retain(s, I) \in Seq(ToSet(Retain(s, I)))
         /\ \A b : b \in ToSet(Retain(s, I)) <=> \E i \in I : b = s[i]
<1> DEFINE t == Retain(s, I)
<1>1. t \in Seq(T)
  BY RetainedElements
<1>2. PICK e \in Bijection(DOMAIN t, I) : \A k \in DOMAIN t : t[k] = s[e[k]]
  BY RetainedElements
<1> HIDE DEF t
<1>3. (\A k \in DOMAIN t : e[k] \in I) /\ \A i \in I : \E k \in DOMAIN t : e[k] = i
  BY DEF Bijection, Injection, Surjection
<1>4. \A b : b \in ToSet(t) <=> \E i \in I : b = s[i]
  BY <1>2, <1>3 DEF ToSet
<1>5. t \in Seq(ToSet(t))
  <2>1. t \in [1..Len(t) -> ToSet(t)] /\ Len(t) \in Nat
    BY <1>1 DEF ToSet
  <2> QED
    BY <2>1
<1> QED
  BY <1>4, <1>5 DEF t

LEMMA AppendedBoxes ==
  ASSUME NEW s, s \in Seq(ToSet(s)), NEW x
  PROVE  /\ Append(s, x) \in Seq(ToSet(Append(s, x)))
         /\ \A b : b \in ToSet(Append(s, x)) <=> b \in ToSet(s) \/ b = x
<1> DEFINE t == Append(s, x)
           n == Len(s)
<1>1. /\ n \in Nat /\ DOMAIN s = 1..n /\ DOMAIN t = 1..n + 1 /\ Len(t) = n + 1
      /\ \A i \in 1..n : t[i] = s[i]
      /\ t[n + 1] = x
  OBVIOUS
<1>2. t \in Seq(ToSet(s) \cup {x})
  OBVIOUS
<1> HIDE DEF t, n
<1>3. \A b : b \in ToSet(t) <=> b \in ToSet(s) \/ b = x
  BY <1>1 DEF ToSet
<1>4. t \in Seq(ToSet(t))
  <2>1. t \in [1..Len(t) -> ToSet(t)] /\ Len(t) \in Nat
    BY <1>1, <1>2 DEF ToSet
  <2> QED
    BY <2>1
<1> QED
  BY <1>3, <1>4 DEF t

(* Nothing was listed and the disk is as it was. *)
LEMMA StillFresh ==
  ASSUME FreshOrListed, UNCHANGED <<items, disk>>, NEW cmd \in DOMAIN commands, NEW S,
         \A c \in DOMAIN commands : CommandOK(c),
         Len(cmd) = 1, cmd[1].do \in {"open", "close"},
         Ran(cmd, <<>>, S, commands, commands'), \A s \in S : s[1].do # "loaded",
         \/ \A b \in ToSet(boxes) : b.kind = "form" => b \in ToSet(boxes')
         \/ \E s \in S : ListsLater(s)
  PROVE  FreshOrListed'
<1>0. DOMAIN cmd = {1}
  <2>1. DOMAIN cmd = 1..Len(cmd)
    BY CommandSteps
  <2> QED
    BY <2>1
<1>1. /\ \A c \in DOMAIN commands : c # cmd => c \in DOMAIN commands'
      /\ \A c \in DOMAIN commands' : c \in DOMAIN commands \/ c \in S
      /\ \A s \in S : s \in DOMAIN commands'
  BY DEF Ran
<1>2. CASE \E s \in S : ListsLater(s)
  BY <1>1, <1>2 DEF FreshOrListed
<1>3. CASE \E c \in DOMAIN commands : ListsLater(c)
  <2>1. PICK c \in DOMAIN commands : ListsLater(c)
    BY <1>3
  <2>2. c # cmd
    BY <1>0, <2>1 DEF ListsLater
  <2> QED
    BY <1>1, <2>1, <2>2 DEF FreshOrListed
<1>4. CASE (\E b \in ToSet(boxes) : b.kind = "form") /\ ~\E s \in S : ListsLater(s)
  BY <1>4 DEF FreshOrListed
<1>5. CASE /\ \A c \in DOMAIN commands : c[1].do = "loaded" => c[1].rows = Listing
           /\ (\A c \in DOMAIN commands : c[1].do # "loaded") => items = Listing
  <2>1. Listing' = Listing
    BY DEF Listing
  <2>2. \A c \in DOMAIN commands' : c[1].do = "loaded" => c[1].rows = Listing'
    BY <1>1, <1>5, <2>1
  <2>3. (\A c \in DOMAIN commands' : c[1].do # "loaded") => items' = Listing'
    BY <1>1, <1>5, <2>1
  <2> QED
    BY <2>2, <2>3 DEF FreshOrListed
<1> QED
  BY <1>2, <1>3, <1>4, <1>5 DEF FreshOrListed

LEMMA OpenStep ==
  ASSUME FilesOK, NEW cmd \in DOMAIN commands, cmd[1].do = "open",
         commands' = Continued(cmd, 0), boxes' = Append(boxes, cmd[1].box),
         UNCHANGED <<items, opened, disk>>
  PROVE  FilesOK'
<1>1. /\ Counts(commands) /\ ClosesOnce(commands) /\ ListsOnce(commands)
      /\ \A c \in DOMAIN commands : CommandOK(c) /\ Backed(c)
      /\ boxes \in Seq(ToSet(boxes)) /\ CommandOK(cmd) /\ FreshOrListed
  BY DEF FilesOK, FilesTyped
<1>2. Len(cmd) = 1 /\ DOMAIN cmd = {1} /\ Rest(cmd, 0) = <<>>
  BY <1>1, AloneSteps
<1>3. commands' = Continued(cmd, 0) (+) SetToBag({})
  BY <1>1, ContinuedNone
<1>4. /\ Ran(cmd, <<>>, {}, commands, commands')
      /\ ListsOnce(commands')
  <2>0. 0 \in Nat /\ 0 + 1 <= Len(cmd)
    BY <1>2
  <2>1. Ran(cmd, Rest(cmd, 0), {}, commands, commands') /\ ListsOnce(commands')
    BY <1>1, <1>3, <2>0, CommandStep
  <2> QED
    BY <1>2, <2>1
<1>5. boxes' \in Seq(ToSet(boxes')) /\ \A b : b \in ToSet(boxes') <=> b \in ToSet(boxes) \/ b = cmd[1].box
  BY <1>1, AppendedBoxes
<1>6. \A b \in ToSet(boxes') : b \in Asking
  <2>1. AsksBy(cmd, cmd[1].box)
    BY <1>2 DEF AsksBy
  <2> QED
    BY <1>5, <2>1, AskingIs
<1>7. \A c \in DOMAIN commands : Backed(c)'
  <2>1. \A id : FormIsOpen(id) => FormIsOpen(id)'
    BY <1>5 DEF FormIsOpen
  <2> QED
    BY <1>1, <2>1 DEF Backed
<1>8. FreshOrListed'
  <2>1. \A b \in ToSet(boxes) : b.kind = "form" => b \in ToSet(boxes')
    BY <1>5
  <2> QED
    BY <1>1, <1>2, <1>4, <2>1, StillFresh
<1> QED
  BY <1>3, <1>4, <1>5, <1>6, <1>7, <1>8, ListStep

LEMMA CloseStep ==
  ASSUME FilesOK, NEW cmd \in DOMAIN commands, cmd[1].do = "close",
         NEW closed, closed = {i \in DOMAIN boxes : boxes[i].id = cmd[1].id},
         boxes' = Retain(boxes, DOMAIN boxes \ closed),
         commands' = Continued(cmd, 0) (+)
                       (IF \E i \in closed : boxes[i].kind = "form"
                        THEN SetToBag({<<Refresh>>}) ELSE EmptyBag),
         UNCHANGED <<items, opened, disk>>
  PROVE  FilesOK'
<1> DEFINE S == IF \E i \in closed : boxes[i].kind = "form" THEN {<<Refresh>>} ELSE {}
<1>1. /\ Counts(commands) /\ ClosesOnce(commands) /\ ListsOnce(commands)
      /\ \A c \in DOMAIN commands : CommandOK(c) /\ Backed(c)
      /\ boxes \in Seq(ToSet(boxes)) /\ CommandOK(cmd) /\ FreshOrListed
  BY DEF FilesOK, FilesTyped
<1>2. Len(cmd) = 1 /\ DOMAIN cmd = {1} /\ Rest(cmd, 0) = <<>>
  <2>1. 1 \in DOMAIN cmd
    BY <1>1, CommandSteps
  <2>2. Len(cmd) = 1
    BY <1>1, <2>1 DEF CommandOK
  <2> QED
    BY <1>1, <2>2, AloneSteps
<1>3. commands' = Continued(cmd, 0) (+) SetToBag(S)
  BY DEF EmptyBag
<1>4. \A s \in S : /\ CommandOK(s) /\ Closes(s) = {} /\ ~Unlisted(s)
                   /\ \A i \in DOMAIN s : s[i].do # "open"
                   /\ ListsLater(s) /\ s[1].do = "refresh"
  BY OneStep DEF Refresh
<1>5. (\E i \in closed : boxes[i].kind = "form") => \E s \in S : ListsLater(s)
  BY <1>4
<1> HIDE DEF S
<1>6. /\ Ran(cmd, <<>>, S, commands, commands')
      /\ ListsOnce(commands')
  <2>0. 0 \in Nat /\ 0 + 1 <= Len(cmd)
    BY <1>2
  <2>1. Ran(cmd, Rest(cmd, 0), S, commands, commands') /\ ListsOnce(commands')
    BY <1>1, <1>3, <1>4, <2>0, CommandStep DEF Listings
  <2> QED
    BY <1>2, <2>1
<1>7. /\ boxes' \in Seq(ToSet(boxes'))
      /\ \A b : b \in ToSet(boxes') <=> \E i \in DOMAIN boxes \ closed : b = boxes[i]
  BY <1>1, RetainedBoxes
<1>8. \A b \in ToSet(boxes') : b \in Asking
  <2>1. \A i \in DOMAIN boxes : boxes[i] \in ToSet(boxes)
    BY DEF ToSet
  <2> QED
    BY <1>7, <2>1, AskingIs
<1>9. \A c \in DOMAIN commands : Backed(c)'
  <2>1. SUFFICES ASSUME NEW c \in DOMAIN commands, Unlisted(c)
                 PROVE  c[Len(c)].do = "close" /\ FormIsOpen(c[Len(c)].id)'
    BY DEF Backed
  <2>2. c[Len(c)].do = "close" /\ FormIsOpen(c[Len(c)].id)
    BY <1>1, <2>1 DEF Backed
  <2>3. c[Len(c)].id # cmd[1].id
    <3>1. SUFFICES ASSUME c[Len(c)].id = cmd[1].id PROVE FALSE
      OBVIOUS
    <3>2. Len(c) \in DOMAIN c
      BY <1>1, CommandSteps
    <3>3. cmd[1].id \in Closes(c) /\ cmd[1].id \in Closes(cmd)
      BY <1>2, <2>2, <3>1, <3>2 DEF Closes
    <3>4. c = cmd
      BY <1>1, <3>3 DEF ClosesOnce
    <3> QED
      BY <1>2, <2>1, <3>4 DEF Unlisted, Changing
  <2>4. PICK b \in ToSet(boxes) : b.id = c[Len(c)].id /\ b.kind = "form"
    BY <2>2 DEF FormIsOpen
  <2>5. b \in ToSet(boxes')
    BY <1>7, <2>3, <2>4 DEF ToSet
  <2> QED
    BY <2>2, <2>4, <2>5 DEF FormIsOpen
<1>10. FreshOrListed'
  <2>1. \/ \A b \in ToSet(boxes) : b.kind = "form" => b \in ToSet(boxes')
        \/ \E s \in S : ListsLater(s)
    <3>1. CASE \A i \in closed : boxes[i].kind # "form"
      BY <1>7, <3>1 DEF ToSet
    <3> QED
      BY <1>5, <3>1
  <2> QED
    BY <1>1, <1>2, <1>4, <1>6, <2>1, StillFresh
<1> QED
  <2>1. \A s \in S : /\ CommandOK(s) /\ Closes(s) = {} /\ ~Unlisted(s)
                     /\ \A i \in DOMAIN s : s[i].do # "open"
    BY <1>4
  <2>2. boxes' \in Seq(ToSet(boxes'))
    BY <1>7
  <2>3. ListsOnce(commands')
    BY <1>6
  <2> QED
    BY <1>3, <1>8, <1>9, <1>10, <2>1, <2>2, <2>3, ListStep

LEMMA RunBoxStep ==
  ASSUME FilesOK, NEW cmd \in DOMAIN commands, RunBox(cmd)
  PROVE  FilesOK'
<1>1. Head(cmd) = cmd[1]
  BY CommandSteps DEF FilesOK
<1>2. UNCHANGED <<items, opened, disk>>
  BY DEF RunBox, viewOnly
<1>3. CASE cmd[1].do = "open" /\ boxes' = Append(boxes, cmd[1].box) /\ commands' = Continued(cmd, 0)
  BY <1>2, <1>3, OpenStep
<1>4. CASE cmd[1].do = "close" /\ ~(cmd[1].do = "open")
  BY <1>1, <1>2, <1>4, CloseStep DEF RunBox
<1> QED
  BY <1>1, <1>3, <1>4 DEF RunBox


-----------------------------------------------------------------------------
(* The keys of the user. *)

LEMMA StartStep ==
  ASSUME Counts(commands), ClosesOnce(commands), ListsOnce(commands),
         NEW S, commands' = Started(S), \A s \in S : s[1].do \notin Listings,
         \A s \in S : \A id \in Closes(s) :
           /\ \A d \in DOMAIN commands : id \notin Closes(d)
           /\ \A t \in S : id \in Closes(t) => t = s
  PROVE  /\ Counts(commands') /\ ClosesOnce(commands') /\ ListsOnce(commands')
         /\ \A c : c \in DOMAIN commands' <=> c \in DOMAIN commands \/ c \in S
<1>1. commands' = commands (+) SetToBag(S)
  BY DEF Started
<1>2. Counts(commands')
  BY <1>1, BagPlusCounts
<1>3. \A c : c \in DOMAIN commands' <=> c \in DOMAIN commands \/ c \in S
  BY <1>1, BagPlusCopies
<1>4. \A c \in DOMAIN commands : c \notin S => commands'[c] = commands[c]
  BY <1>1, BagPlusCopies
<1>5. \A c \in S : c \notin DOMAIN commands => commands'[c] = 1
  BY <1>1, BagPlusCopies
<1>6. ListsOnce(commands')
  BY <1>3, <1>4 DEF ListsOnce
<1>7. ClosesOnce(commands')
  <2>1. SUFFICES ASSUME NEW c \in DOMAIN commands', NEW id \in Closes(c)
                 PROVE  commands'[c] = 1 /\ \A d \in DOMAIN commands' : id \in Closes(d) => d = c
    BY DEF ClosesOnce
  <2>2. CASE c \in S
    BY <1>3, <1>5, <2>2
  <2>3. CASE c \notin S
    <3>1. c \in DOMAIN commands
      BY <1>3, <2>3
    <3>2. commands[c] = 1 /\ \A d \in DOMAIN commands : id \in Closes(d) => d = c
      BY <3>1 DEF ClosesOnce
    <3>3. \A d \in S : id \notin Closes(d)
      BY <3>1
    <3> QED
      BY <1>3, <1>4, <2>3, <3>1, <3>2, <3>3
  <2> QED
    BY <2>2, <2>3
<1> QED
  BY <1>2, <1>3, <1>6, <1>7

LEMMA AskStep ==
  ASSUME FilesOK, NEW box, AskFor(box), box.id = opened + 1, BoxOK(box)',
         \A b \in Asking : \A r \in box.runs : b.id \in Closes(r) => b.kind = "form",
         UNCHANGED <<items, disk, boxes>>
  PROVE  FilesOK'
<1> DEFINE c0 == <<OpenBox(box)>>
<1>1. /\ Counts(commands) /\ ClosesOnce(commands) /\ ListsOnce(commands)
      /\ \A c \in DOMAIN commands : CommandOK(c) /\ Backed(c)
      /\ \A b \in Asking : BoxOK(b)
      /\ \A a, b \in Asking : OneKind(a, b)
      /\ boxes \in Seq(ToSet(boxes)) /\ FreshOrListed /\ opened \in Nat
  BY DEF FilesOK, FilesTyped
<1>2. commands' = Started({c0}) /\ opened' = opened + 1
  BY DEF AskFor
<1>3. /\ CommandOK(c0) /\ Closes(c0) = {} /\ ~Unlisted(c0) /\ c0[1].do = "open"
      /\ \A b : AsksBy(c0, b) <=> b = box
  <2>1. DOMAIN c0 = {1} /\ c0[1] = OpenBox(box) /\ Len(c0) = 1 /\ c0 # <<>>
    OBVIOUS
  <2>2. c0 \in Seq({c0[i] : i \in DOMAIN c0})
    OBVIOUS
  <2> HIDE DEF c0
  <2>3. c0[1].do = "open" /\ c0[1].box = box
    BY <2>1 DEF OpenBox
  <2> QED
    BY <2>1, <2>2, <2>3 DEF CommandOK, Closes, Unlisted, Changing, AsksBy
<1> HIDE DEF c0
<1>4. /\ Counts(commands') /\ ClosesOnce(commands') /\ ListsOnce(commands')
      /\ \A c : c \in DOMAIN commands' <=> c \in DOMAIN commands \/ c \in {c0}
  BY <1>1, <1>2, <1>3, StartStep DEF Listings
<1>5. \A c \in DOMAIN commands' : CommandOK(c) /\ Backed(c)'
  BY <1>1, <1>3, <1>4 DEF Backed, FormIsOpen
<1>6. \A b \in Asking' : b \in Asking \/ b = box
  BY <1>3, <1>4, AskingIs, AskingIsNext
<1>7. \A b \in Asking : BoxOK(b)' /\ b.id \in 1..opened
  BY <1>1, <1>2 DEF BoxOK
<1>8. \A b \in Asking' : BoxOK(b)'
  BY <1>6, <1>7
<1>9. ASSUME NEW a \in Asking', NEW b \in Asking'
      PROVE  OneKind(a, b)
  <2>1. CASE a \in Asking /\ b \in Asking
    BY <1>1, <2>1
  <2>2. CASE a \in Asking /\ b = box
    <3>1. a.id # b.id
      BY <1>1, <1>7, <2>2
    <3>2. \A r \in a.runs : \A id \in Closes(r) : id \in 1..a.id - 1
      BY <1>1, <2>2 DEF BoxOK
    <3>3. b.id \notin 1..a.id - 1
      <4>1. a.id \in Nat /\ a.id <= opened
        BY <1>1, <1>7, <2>2
      <4> QED
        BY <1>1, <2>2, <4>1
    <3> QED
      BY <3>1, <3>2, <3>3 DEF OneKind
  <2>3. CASE a = box /\ b \in Asking
    <3>1. a.id # b.id
      BY <1>1, <1>7, <2>3
    <3> QED
      BY <2>3, <3>1 DEF OneKind
  <2>4. CASE a = box /\ b = box
    <3>1. \A r \in box.runs : \A id \in Closes(r) : id \in 1..box.id - 1
      BY DEF BoxOK
    <3>2. box.id \notin 1..box.id - 1
      BY <1>1
    <3> QED
      BY <2>4, <3>1, <3>2 DEF OneKind
  <2> QED
    BY <1>6, <2>1, <2>2, <2>3, <2>4
<1>10. FreshOrListed'
  <2>1. Listing' = Listing
    BY DEF Listing
  <2> QED
    BY <1>1, <1>3, <1>4, <2>1 DEF FreshOrListed
<1>11. FilesTyped'
  BY <1>1, <1>2, <1>4 DEF FilesTyped
<1> QED
  BY <1>4, <1>5, <1>8, <1>9, <1>10, <1>11 DEF FilesOK

(* The commands of the dialog on top are started. *)
LEMMA RunStep ==
  ASSUME FilesOK, NEW S, commands' = Started(S), opened' = opened, boxes' = boxes,
         \A s \in S : /\ CommandOK(s) /\ EndsInClose(s)
                      /\ \A i \in DOMAIN s : s[i].do \notin Listings \cup {"open"},
         \A s \in S : \A id \in Closes(s) :
           /\ \A d \in DOMAIN commands : id \notin Closes(d)
           /\ \A t \in S : id \in Closes(t) => t = s,
         \A s \in S : Unlisted(s) => FormIsOpen(s[Len(s)].id),
         \/ UNCHANGED <<items, disk>>
         \/ \E s \in S : ListsLater(s)
  PROVE  FilesOK'
<1>1. /\ Counts(commands) /\ ClosesOnce(commands) /\ ListsOnce(commands)
      /\ \A c \in DOMAIN commands : CommandOK(c) /\ Backed(c)
      /\ \A b \in Asking : BoxOK(b)
      /\ \A a, b \in Asking : OneKind(a, b)
      /\ boxes \in Seq(ToSet(boxes)) /\ FreshOrListed /\ opened \in Nat
  BY DEF FilesOK, FilesTyped
<1>2. \A s \in S : s[1].do \notin Listings
  BY CommandSteps
<1>3. /\ Counts(commands') /\ ClosesOnce(commands') /\ ListsOnce(commands')
      /\ \A c : c \in DOMAIN commands' <=> c \in DOMAIN commands \/ c \in S
  BY <1>1, <1>2, StartStep
<1>4. \A s \in S : Backed(s)
  BY DEF Backed, EndsInClose
<1>5. \A c : Backed(c) => Backed(c)'
  BY DEF Backed, FormIsOpen
<1>6. \A c \in DOMAIN commands' : CommandOK(c) /\ Backed(c)'
  BY <1>1, <1>3, <1>4, <1>5
<1>7. \A s \in S : \A b : ~AsksBy(s, b)
  BY DEF AsksBy
<1>8. Asking' \subseteq Asking
  BY <1>3, <1>7, AskingIs, AskingIsNext
<1>9. (\A b \in Asking' : BoxOK(b)') /\ \A a, b \in Asking' : OneKind(a, b)
  BY <1>1, <1>8, SameBoxes
<1>10. FreshOrListed'
  <2>1. CASE \E s \in S : ListsLater(s)
    BY <1>3, <2>1 DEF FreshOrListed
  <2>2. CASE UNCHANGED <<items, disk>>
    <3>1. Listing' = Listing
      BY <2>2 DEF Listing
    <3> QED
      BY <1>1, <1>2, <1>3, <2>2, <3>1 DEF FreshOrListed, Listings
  <2> QED
    BY <2>1, <2>2
<1>11. FilesTyped'
  BY <1>1, <1>3 DEF FilesTyped
<1> QED
  BY <1>3, <1>6, <1>9, <1>10, <1>11 DEF FilesOK


(* The commands that keys start. *)

Submitted(c, id) ==
  /\ CommandOK(c) /\ EndsInClose(c)
  /\ \A i \in DOMAIN c : c[i].do \notin Listings \cup {"open"}
  /\ Closes(c) \subseteq {id} /\ (Unlisted(c) => c[Len(c)].id = id)

LEMMA ClosingCommand ==
  ASSUME NEW id
  PROVE  Submitted(<<CloseBox(id)>>, id) /\ ~Unlisted(<<CloseBox(id)>>)
<1> DEFINE c == <<CloseBox(id)>>
<1>1. DOMAIN c = {1} /\ Len(c) = 1 /\ c # <<>> /\ c[1] = CloseBox(id)
  OBVIOUS
<1>2. c \in Seq({c[i] : i \in DOMAIN c})
  OBVIOUS
<1>3. c[1].do = "close" /\ c[1].id = id
  BY DEF CloseBox
<1> HIDE DEF c
<1> QED
  BY <1>1, <1>2, <1>3 DEF Submitted, CommandOK, EndsInClose, Closes, Unlisted, Changing, Listings, c

LEMMA DeletingCommand ==
  ASSUME NEW p, NEW id
  PROVE  Submitted(<<Delete(p), Refresh>>, id) /\ ~Unlisted(<<Delete(p), Refresh>>)
         /\ Closes(<<Delete(p), Refresh>>) = {}
<1> DEFINE c == <<Delete(p), Refresh>>
<1>1. DOMAIN c = {1, 2} /\ Len(c) = 2 /\ c # <<>>
  OBVIOUS
<1>2. c \in Seq({c[i] : i \in DOMAIN c})
  OBVIOUS
<1>3. c[1].do = "remove" /\ c[2].do = "refresh"
  BY DEF Delete, Refresh
<1> HIDE DEF c
<1>4. ~Unlisted(c)
  BY <1>1, <1>3 DEF Unlisted, Changing
<1>5. Closes(c) = {}
  BY <1>1, <1>3 DEF Closes
<1> QED
  BY <1>1, <1>2, <1>3, <1>4, <1>5 DEF Submitted, CommandOK, EndsInClose, Changing, Listings, c

LEMMA RefreshingCommand ==
  ASSUME NEW id
  PROVE  Submitted(<<Refresh, CloseBox(id)>>, id) /\ ~Unlisted(<<Refresh, CloseBox(id)>>)
         /\ ListsLater(<<Refresh, CloseBox(id)>>)
<1> DEFINE c == <<Refresh, CloseBox(id)>>
<1>1. DOMAIN c = {1, 2} /\ Len(c) = 2 /\ c # <<>>
  OBVIOUS
<1>2. c \in Seq({c[i] : i \in DOMAIN c})
  OBVIOUS
<1>3. c[1].do = "refresh" /\ c[2].do = "close" /\ c[2].id = id
  BY DEF CloseBox, Refresh
<1> HIDE DEF c
<1>4. ~Unlisted(c) /\ ListsLater(c)
  BY <1>1, <1>3 DEF Unlisted, Changing, ListsLater
<1>5. Closes(c) \subseteq {id}
  BY <1>1, <1>3 DEF Closes
<1> QED
  BY <1>1, <1>2, <1>3, <1>4, <1>5 DEF Submitted, CommandOK, EndsInClose, Changing, Listings, c

LEMMA ChangingCommand ==
  ASSUME NEW s, s.do \in {"move", "write"}, NEW id
  PROVE  Submitted(<<s, Refresh, CloseBox(id)>>, id) /\ ~Unlisted(<<s, Refresh, CloseBox(id)>>)
         /\ ListsLater(<<s, Refresh, CloseBox(id)>>)
<1> DEFINE c == <<s, Refresh, CloseBox(id)>>
<1>1. DOMAIN c = {1, 2, 3} /\ Len(c) = 3 /\ c # <<>> /\ c[1] = s
  OBVIOUS
<1>2. c \in Seq({c[i] : i \in DOMAIN c})
  OBVIOUS
<1>3. c[2].do = "refresh" /\ c[3].do = "close" /\ c[3].id = id
  BY DEF CloseBox, Refresh
<1> HIDE DEF c
<1>4. ~Unlisted(c) /\ ListsLater(c)
  BY <1>1, <1>3 DEF Unlisted, Changing, ListsLater
<1>5. Closes(c) \subseteq {id}
  BY <1>1, <1>3 DEF Closes
<1> QED
  BY <1>1, <1>2, <1>3, <1>4, <1>5 DEF Submitted, CommandOK, EndsInClose, Changing, Listings, c

LEMMA GuardedCommand ==
  ASSUME NEW s, s.do \in {"free", "file"}, s.skip = 2, NEW t, t.do \in {"write", "edit"}, NEW id
  PROVE  Submitted(<<s, t, CloseBox(id)>>, id)
<1> DEFINE c == <<s, t, CloseBox(id)>>
<1>1. DOMAIN c = {1, 2, 3} /\ Len(c) = 3 /\ c # <<>> /\ c[1] = s /\ c[2] = t
  OBVIOUS
<1>2. c \in Seq({c[i] : i \in DOMAIN c})
  OBVIOUS
<1>3. c[3].do = "close" /\ c[3].id = id
  BY DEF CloseBox
<1> HIDE DEF c
<1>4. CommandOK(c)
  BY <1>1, <1>2, <1>3 DEF CommandOK, Changing, Listings
<1>5. Closes(c) \subseteq {id}
  BY <1>1, <1>3 DEF Closes
<1> QED
  BY <1>1, <1>3, <1>4, <1>5 DEF Submitted, EndsInClose, Listings, c

LEMMA RenamingCommand ==
  ASSUME NEW old, NEW p, NEW id
  PROVE  Submitted(<<NeedFile(old, 5), Edit(old), NeedFile(old, 3), NeedFree(p, 2), Move(old, p),
                     CloseBox(id)>>, id)
<1> DEFINE c == <<NeedFile(old, 5), Edit(old), NeedFile(old, 3), NeedFree(p, 2), Move(old, p),
                  CloseBox(id)>>
<1>1. DOMAIN c = {1, 2, 3, 4, 5, 6} /\ Len(c) = 6 /\ c # <<>>
  OBVIOUS
<1>2. c \in Seq({c[i] : i \in DOMAIN c})
  OBVIOUS
<1>3. /\ c[1].do = "file" /\ c[1].skip = 5 /\ c[2].do = "edit" /\ c[3].do = "file" /\ c[3].skip = 3
      /\ c[4].do = "free" /\ c[4].skip = 2 /\ c[5].do = "move" /\ c[6].do = "close" /\ c[6].id = id
  BY DEF NeedFree, NeedFile, Edit, Move, CloseBox
<1> HIDE DEF c
<1>4. CommandOK(c)
  BY <1>1, <1>2, <1>3 DEF CommandOK, Changing, Listings
<1>5. Closes(c) \subseteq {id}
  BY <1>1, <1>3 DEF Closes
<1> QED
  BY <1>1, <1>3, <1>4, <1>5 DEF Submitted, EndsInClose, Listings, c

LEMMA FormCommand ==
  ASSUME NEW form, NEW name
  PROVE  Submitted(FormSteps(form, name), form.id)
<1> DEFINE p == [folder |-> form.folder, name |-> name]
           old == [folder |-> form.folder, name |-> form.original]
<1>1. /\ NeedFree(p, 2).do = "free" /\ NeedFree(p, 2).skip = 2 /\ Write(p).do = "write"
      /\ NeedFile(old, 2).do = "file" /\ NeedFile(old, 2).skip = 2 /\ Edit(old).do = "edit"
  BY DEF NeedFree, NeedFile, Write, Edit
<1>2. /\ Submitted(<<NeedFree(p, 2), Write(p), CloseBox(form.id)>>, form.id)
      /\ Submitted(<<NeedFile(old, 2), Edit(old), CloseBox(form.id)>>, form.id)
  BY <1>1, GuardedCommand
<1>3. Submitted(<<NeedFile(old, 5), Edit(old), NeedFile(old, 3), NeedFree(p, 2), Move(old, p),
                  CloseBox(form.id)>>, form.id)
  BY RenamingCommand
<1> QED
  BY <1>2, <1>3 DEF FormSteps


LEMMA TopBoxAsks ==
  ASSUME FilesOK, boxes # <<>>
  PROVE  /\ TopBox \in ToSet(boxes) /\ TopBox \in Asking
         /\ BoxOK(TopBox) /\ \A b \in Asking : OneKind(TopBox, b)
<1>1. boxes \in Seq(ToSet(boxes))
  BY DEF FilesOK, FilesTyped
<1>2. TopBox \in ToSet(boxes)
  BY <1>1 DEF TopBox, Last, ToSet
<1>3. TopBox \in Asking
  BY <1>2 DEF Asking
<1> QED
  BY <1>2, <1>3 DEF FilesOK

LEMMA NotExcused ==
  ASSUME NEW S, NEW atOnce, Run(S, atOnce), ~excused'
  PROVE  /\ commands' = Started(S)
         /\ \A c \in S : \A id \in Closes(c) :
              IsOpen(id) /\ \A d \in DOMAIN commands : id \notin Closes(d)
BY DEF Run, BagToSet

LEMMA SubmitStep ==
  ASSUME FilesOK, NEW s, NEW id, Submitted(s, id), ~Unlisted(s), NEW atOnce, Run({s}, atOnce),
         ~excused', opened' = opened, boxes' = boxes,
         UNCHANGED <<items, disk>> \/ ListsLater(s)
  PROVE  FilesOK'
<1>1. /\ commands' = Started({s})
      /\ \A i \in Closes(s) : \A d \in DOMAIN commands : i \notin Closes(d)
  BY NotExcused
<1>2. CommandOK(s) /\ EndsInClose(s) /\ \A i \in DOMAIN s : s[i].do \notin Listings \cup {"open"}
  BY DEF Submitted
<1> QED
  BY <1>1, <1>2, RunStep

LEMMA AskNothing ==
  ASSUME FilesOK, NEW box, AskFor(box), box.id = opened + 1, box.runs = {},
         box.kind = "name" => box.how = "import", UNCHANGED <<items, disk, boxes>>
  PROVE  FilesOK'
<1>1. opened \in Nat /\ opened' = opened + 1
  BY DEF FilesOK, FilesTyped, AskFor
<1>2. BoxOK(box)'
  BY <1>1 DEF BoxOK
<1> QED
  BY <1>2, AskStep

LEMMA AskFirst ==
  ASSUME FilesOK, NEW box, AskFor(box), box.id = opened + 1, box.kind = "confirm",
         NEW r, box.runs = {r}, NEW id, Submitted(r, id),
         \/ Closes(r) = {}
         \/ id \in 1..opened /\ \A b \in Asking : b.id = id => b.kind = "form",
         UNCHANGED <<items, disk, boxes>>
  PROVE  FilesOK'
<1>1. opened \in Nat /\ opened' = opened + 1
  BY DEF FilesOK, FilesTyped, AskFor
<1>2. /\ CommandOK(r) /\ EndsInClose(r) /\ Closes(r) \subseteq {id}
      /\ \A i \in DOMAIN r : r[i].do \notin Listings \cup {"open"}
  BY DEF Submitted
<1>3. \A i \in Closes(r) : i \in 1..box.id - 1
  BY <1>1, <1>2
<1>4. BoxOK(box)'
  BY <1>1, <1>2, <1>3 DEF BoxOK
<1>5. \A b \in Asking : \A q \in box.runs : b.id \in Closes(q) => b.kind = "form"
  BY <1>2
<1> QED
  BY <1>4, <1>5, AskStep

LEMMA AnswerStep ==
  ASSUME FilesOK, NEW yes, Answer(yes), ~excused'
  PROVE  FilesOK'
<1> DEFINE b0 == TopBox
           c0 == <<CloseBox(b0.id)>>
           S == {c0} \cup (IF yes THEN b0.runs ELSE {})
<1>1. b0 \in Asking /\ BoxOK(b0) /\ \A b \in Asking : OneKind(b0, b)
  BY TopBoxAsks DEF Answer
<1>2. Run(S, FALSE) /\ UNCHANGED <<items, disk, boxes, opened>>
  BY DEF Answer, viewOnly
<1>3. Submitted(c0, b0.id) /\ ~Unlisted(c0)
  BY ClosingCommand
<1>4. \A s \in S : s = c0 \/ s \in b0.runs
  OBVIOUS
<1> HIDE DEF b0, c0, S
<1>5. commands' = Started(S)
  BY <1>2, NotExcused
<1>6. \A s \in S : \A id \in Closes(s) : IsOpen(id) /\ \A d \in DOMAIN commands : id \notin Closes(d)
  BY <1>2, NotExcused
<1>7. \A s \in S : /\ CommandOK(s) /\ EndsInClose(s)
                   /\ \A i \in DOMAIN s : s[i].do \notin Listings \cup {"open"}
  BY <1>1, <1>3, <1>4 DEF BoxOK, Submitted
<1>8. \A s \in S : \A t \in S : \A id \in Closes(s) : id \in Closes(t) => t = s
  <2>1. \A id \in Closes(c0) : id = b0.id
    BY <1>3 DEF Submitted
  <2>2. \A r \in b0.runs : b0.id \notin Closes(r)
    <3>1. \A r \in b0.runs : \A id \in Closes(r) : id \in 1..b0.id - 1
      BY <1>1 DEF BoxOK
    <3>2. b0.id \notin 1..b0.id - 1
      BY <1>1 DEF BoxOK, FilesOK, FilesTyped
    <3> QED
      BY <3>1, <3>2
  <2>3. \A r, q \in b0.runs : r = q
    BY <1>1 DEF BoxOK
  <2> QED
    BY <1>4, <2>1, <2>2, <2>3
<1>9. ASSUME NEW s \in S, Unlisted(s)
      PROVE  FormIsOpen(s[Len(s)].id)
  <2>1. s \in b0.runs
    BY <1>3, <1>4, <1>9
  <2>2. Len(s) \in DOMAIN s /\ s[Len(s)].do = "close"
    <3>1. Len(s) \in Nat /\ Len(s) >= 1 /\ DOMAIN s = 1..Len(s)
      BY <1>7, CommandSteps
    <3>2. s[Len(s)].do = "close"
      BY <1>7, <1>9 DEF EndsInClose
    <3> QED
      BY <3>1, <3>2
  <2>3. s[Len(s)].id \in Closes(s)
    BY <2>2 DEF Closes
  <2>4. PICK b \in ToSet(boxes) : b.id = s[Len(s)].id
    BY <1>6, <2>3 DEF IsOpen
  <2>5. b.kind = "form"
    BY <1>1, <2>1, <2>3, <2>4 DEF OneKind, Asking
  <2> QED
    BY <2>4, <2>5 DEF FormIsOpen
<1> QED
  BY <1>2, <1>5, <1>6, <1>7, <1>8, <1>9, RunStep


LEMMA JoinedSteps ==
  ASSUME NEW s, NEW t, NEW u
  PROVE  <<s>> \o <<t, u>> = <<s, t, u>>
<1> DEFINE T == {s, t, u}
           a == <<s>>
           b == <<t, u>>
           x == a \o b
           y == <<s, t, u>>
<1>1. /\ a \in Seq(T) /\ Len(a) = 1 /\ a[1] = s
      /\ b \in Seq(T) /\ Len(b) = 2 /\ b[1] = t /\ b[2] = u
  OBVIOUS
<1>2. y \in Seq(T) /\ Len(y) = 3 /\ y[1] = s /\ y[2] = t /\ y[3] = u
  OBVIOUS
<1> HIDE DEF T, a, b
<1>3. /\ x \in Seq(T) /\ Len(x) = 3
      /\ x[1] = a[1] /\ x[2] = b[1] /\ x[3] = b[2]
  <2>1. /\ x \in Seq(T) /\ Len(x) = 3
        /\ \A i \in 1..3 : x[i] = IF i <= 1 THEN a[i] ELSE b[i - 1]
    BY <1>1, ConcatProperties
  <2> HIDE DEF x
  <2> QED
    BY <2>1
<1> HIDE DEF x, y
<1>4. \A i \in 1..Len(x) : x[i] = y[i]
  BY <1>1, <1>2, <1>3
<1>5. x = y
  BY <1>2, <1>3, <1>4, SeqEqual
<1> QED
  BY <1>5 DEF x, y, a, b

LEMMA SubmitRenameStep ==
  ASSUME FilesOK, list # "outbounds", NEW name, SubmitRename(name), ~excused'
  PROVE  FilesOK'
<1> DEFINE id == TopBox.id
           f == TopBox.file
           q == [folder |-> f.folder, name |-> name]
<1>1. UNCHANGED <<items, boxes, opened>>
  BY DEF SubmitRename, viewOnly
<1>2. CASE list \in Eager
  <2>1. Run({<<Refresh, CloseBox(id)>>}, TRUE)
    BY <1>2 DEF SubmitRename
  <2>2. /\ Submitted(<<Refresh, CloseBox(id)>>, id) /\ ~Unlisted(<<Refresh, CloseBox(id)>>)
        /\ ListsLater(<<Refresh, CloseBox(id)>>)
    BY RefreshingCommand
  <2> HIDE DEF id
  <2> QED
    BY <1>1, <2>1, <2>2, SubmitStep
<1>3. CASE list \notin Eager
  <2>1. Run({RenameSteps(f, name) \o <<Refresh, CloseBox(id)>>}, FALSE)
    BY <1>3 DEF SubmitRename
  <2>2. RenameSteps(f, name) = <<Move(Path(f), q)>>
    BY DEF RenameSteps
  <2>3. RenameSteps(f, name) \o <<Refresh, CloseBox(id)>> = <<Move(Path(f), q), Refresh, CloseBox(id)>>
    BY <2>2, JoinedSteps
  <2>4. Move(Path(f), q).do = "move"
    BY DEF Move
  <2> HIDE DEF id, f, q
  <2>5. /\ Submitted(<<Move(Path(f), q), Refresh, CloseBox(id)>>, id)
        /\ ~Unlisted(<<Move(Path(f), q), Refresh, CloseBox(id)>>)
        /\ ListsLater(<<Move(Path(f), q), Refresh, CloseBox(id)>>)
    BY <2>4, ChangingCommand
  <2> QED
    BY <1>1, <2>1, <2>3, <2>5, SubmitStep
<1> QED
  BY <1>2, <1>3

LEMMA SubmitNameStep ==
  ASSUME FilesOK, NEW name, SubmitName(name), ~excused'
  PROVE  FilesOK'
<1> DEFINE id == TopBox.id
           p == [folder |-> 1, name |-> name]
<1>1. UNCHANGED <<items, boxes, opened>> /\ Run(SaveCommands(TopBox.how, name, id), FALSE)
  BY DEF SubmitName, viewOnly
<1>2. TopBox.how = "import"
  BY TopBoxAsks DEF BoxOK, SubmitName
<1>3. Run({<<Write(p), Refresh, CloseBox(id)>>}, FALSE)
  BY <1>1, <1>2 DEF SaveCommands
<1>4. Write(p).do = "write"
  BY DEF Write
<1> HIDE DEF id, p
<1>5. /\ Submitted(<<Write(p), Refresh, CloseBox(id)>>, id)
      /\ ~Unlisted(<<Write(p), Refresh, CloseBox(id)>>)
      /\ ListsLater(<<Write(p), Refresh, CloseBox(id)>>)
  BY <1>4, ChangingCommand
<1> QED
  BY <1>1, <1>3, <1>5, SubmitStep

LEMMA NewBox ==
  ASSUME NEW kind, NEW row, NEW file, NEW runs
  PROVE  LET b == Box(kind, row, file, runs)
         IN  b.id = opened + 1 /\ b.kind = kind /\ b.runs = runs
BY DEF Box

LEMMA SaveFormStep ==
  ASSUME FilesOK, NEW name, SaveForm(name)
  PROVE  FilesOK'
<1> DEFINE r == FormSteps(TopBox, name)
           id == TopBox.id
<1>1. PICK box : box = Box("confirm", TopBox.row, TopBox.file, {r}) /\ AskFor(box)
  BY DEF SaveForm
<1>2. box.id = opened + 1 /\ box.kind = "confirm" /\ box.runs = {r}
  BY <1>1, NewBox
<1>3. UNCHANGED <<items, disk, boxes>> /\ boxes # <<>> /\ TopBox.kind = "form"
  BY DEF SaveForm, viewOnly
<1>4. Submitted(r, id)
  BY FormCommand
<1>5. id \in 1..opened /\ \A b \in Asking : b.id = id => b.kind = "form"
  BY <1>3, TopBoxAsks DEF OneKind, BoxOK
<1> HIDE DEF r, id
<1> QED
  BY <1>1, <1>2, <1>3, <1>4, <1>5, AskFirst

LEMMA DiscardFormStep ==
  ASSUME FilesOK, DiscardForm
  PROVE  FilesOK'
<1> DEFINE id == TopBox.id
           r == <<CloseBox(id)>>
<1>1. PICK box : box = Box("confirm", TopBox.row, TopBox.file, {r}) /\ AskFor(box)
  BY DEF DiscardForm
<1>2. box.id = opened + 1 /\ box.kind = "confirm" /\ box.runs = {r}
  BY <1>1, NewBox
<1>3. UNCHANGED <<items, disk, boxes>> /\ boxes # <<>> /\ TopBox.kind = "form"
  BY DEF DiscardForm, viewOnly
<1>4. Submitted(r, id)
  BY ClosingCommand
<1>5. id \in 1..opened /\ \A b \in Asking : b.id = id => b.kind = "form"
  BY <1>3, TopBoxAsks DEF OneKind, BoxOK
<1> HIDE DEF r, id
<1> QED
  BY <1>1, <1>2, <1>3, <1>4, <1>5, AskFirst

LEMMA AskDeleteStep ==
  ASSUME FilesOK, AskDelete, ~excused'
  PROVE  FilesOK'
<1>1. PICK row \in ToSet(SelectedRow) :
        LET f == Selected(row)
        IN  IF list \in Eager
            THEN /\ AskFor(Box("confirm", row, f, {<<Refresh>>}))
                 /\ disk' \in Removals(Path(f))
                 /\ excused' = TRUE
            ELSE /\ AskFor(Box("confirm", row, f, {<<Delete(Path(f)), Refresh>>}))
                 /\ UNCHANGED <<disk, excused>>
  BY DEF AskDelete
<1> DEFINE f == Selected(row)
           r == <<Delete(Path(f)), Refresh>>
<1>2. UNCHANGED <<items, disk, boxes>> /\ AskFor(Box("confirm", row, f, {r}))
  BY <1>1 DEF AskDelete, viewOnly
<1>3. PICK box : box = Box("confirm", row, f, {r}) /\ AskFor(box)
  BY <1>2
<1>4. box.id = opened + 1 /\ box.kind = "confirm" /\ box.runs = {r}
  BY <1>3, NewBox
<1>5. Submitted(r, 0) /\ Closes(r) = {}
  BY DeletingCommand
<1> HIDE DEF f, r
<1> QED
  BY <1>2, <1>3, <1>4, <1>5, AskFirst

LEMMA AskRenameStep ==
  ASSUME FilesOK, AskRename
  PROVE  FilesOK'
<1>1. PICK row \in ToSet(SelectedRow) : AskFor(Box("rename", row, Selected(row), {}))
  BY DEF AskRename
<1>2. PICK box : box = Box("rename", row, Selected(row), {}) /\ AskFor(box)
  BY <1>1
<1>3. box.id = opened + 1 /\ box.kind = "rename" /\ box.runs = {}
  BY <1>2, NewBox
<1>4. UNCHANGED <<items, disk, boxes>>
  BY DEF AskRename, viewOnly
<1> QED
  BY <1>2, <1>3, <1>4, AskNothing

LEMMA SelectTunnelStep ==
  ASSUME FilesOK, SelectTunnel
  PROVE  FilesOK'
<1>1. PICK row \in ToSet(SelectedRow) :
        AskFor([Box("form", row, Selected(row), {})
                  EXCEPT !.folder = Selected(row).folder, !.original = Selected(row).name])
  BY DEF SelectTunnel
<1>2. PICK box :
        /\ box = [Box("form", row, Selected(row), {})
                    EXCEPT !.folder = Selected(row).folder, !.original = Selected(row).name]
        /\ AskFor(box)
  BY <1>1
<1>3. box.id = opened + 1 /\ box.kind = "form" /\ box.runs = {}
  BY <1>2 DEF Box
<1>4. UNCHANGED <<items, disk, boxes>>
  BY DEF SelectTunnel, viewOnly
<1> QED
  BY <1>2, <1>3, <1>4, AskNothing

LEMMA AskAddStep ==
  ASSUME FilesOK, list # "outbounds", AskAdd
  PROVE  FilesOK'
<1>1. PICK box :
        /\ AskFor(box)
        /\ \/ box = [Box("name", NoFile, NoFile, {}) EXCEPT !.how = "import"]
           \/ \E d \in Folders : box = [Box("form", NoFile, NoFile, {}) EXCEPT !.folder = d]
  BY DEF AskAdd
<1>2. /\ box.id = opened + 1 /\ box.runs = {}
      /\ box.kind = "name" => box.how = "import"
  BY <1>1 DEF Box
<1>3. UNCHANGED <<items, disk, boxes>>
  BY DEF AskAdd, viewOnly
<1> QED
  BY <1>1, <1>2, <1>3, AskNothing

LEMMA LeaveBoxStep ==
  ASSUME FilesOK, LeaveBox
  PROVE  FilesOK'
<1> DEFINE n == Len(boxes)
<1>1. /\ boxes \in Seq(ToSet(boxes)) /\ boxes # <<>>
      /\ boxes' = Front(boxes) /\ TopBox.kind # "form"
      /\ UNCHANGED <<items, disk, commands, opened>>
  BY DEF FilesOK, FilesTyped, LeaveBox, viewOnly
<1>2. n \in Nat /\ n >= 1 /\ DOMAIN boxes = 1..n /\ TopBox = boxes[n]
  BY <1>1 DEF TopBox, Last
<1>3. /\ DOMAIN boxes' = 1..n - 1 /\ Len(boxes') = n - 1
      /\ \A i \in 1..n - 1 : boxes'[i] = boxes[i]
  BY <1>1, <1>2 DEF Front
<1> HIDE DEF n
<1>4. \A b \in ToSet(boxes') : b \in ToSet(boxes)
  BY <1>2, <1>3 DEF ToSet
<1>5. \A b \in ToSet(boxes) : b.kind = "form" => b \in ToSet(boxes')
  <2>1. ASSUME NEW i \in 1..n, boxes[i].kind = "form"
        PROVE  boxes[i] \in ToSet(boxes')
    <3>1. i # n
      BY <1>1, <1>2, <2>1
    <3>2. i \in 1..n - 1
      BY <1>2, <3>1
    <3> QED
      BY <1>3, <3>2 DEF ToSet
  <2> QED
    BY <1>2, <2>1 DEF ToSet
<1>6. boxes' \in Seq(ToSet(boxes'))
  <2>1. boxes' \in Seq(ToSet(boxes))
    BY <1>1 DEF Front
  <2>2. boxes' \in [1..Len(boxes') -> ToSet(boxes')] /\ Len(boxes') \in Nat
    BY <2>1 DEF ToSet
  <2> QED
    BY <2>2
<1>7. FilesTyped'
  BY <1>1, <1>6 DEF FilesTyped, FilesOK
<1>8. \A c \in DOMAIN commands' : CommandOK(c) /\ Backed(c)'
  BY <1>1, <1>5 DEF FilesOK, Backed, FormIsOpen
<1>9. \A b \in Asking' : b \in Asking
  BY <1>1, <1>4 DEF Asking
<1>10. (\A b \in Asking' : BoxOK(b)') /\ \A a, b \in Asking' : OneKind(a, b)
  BY <1>1, <1>9 DEF FilesOK, BoxOK
<1>11. ClosesOnce(commands') /\ ListsOnce(commands')
  BY <1>1 DEF FilesOK
<1>12. FreshOrListed'
  BY <1>1, <1>5 DEF FilesOK, FreshOrListed, Listing
<1> QED
  BY <1>7, <1>8, <1>10, <1>11, <1>12 DEF FilesOK

LEMMA SameFiles ==
  ASSUME FilesOK, UNCHANGED <<items, disk, boxes, commands, opened>>
  PROVE  FilesOK'
<1>1. Asking' = Asking /\ Listing' = Listing
  BY DEF Asking, Listing
<1>2. \A c : Backed(c)' <=> Backed(c)
  BY DEF Backed, FormIsOpen
<1>3. \A b : BoxOK(b)' <=> BoxOK(b)
  BY DEF BoxOK
<1>4. FreshOrListed' <=> FreshOrListed
  BY <1>1 DEF FreshOrListed
<1>5. FilesTyped'
  BY DEF FilesOK, FilesTyped
<1> QED
  BY <1>1, <1>2, <1>3, <1>4, <1>5 DEF FilesOK

LEMMA BrowseStep ==
  ASSUME FilesOK, Browse
  PROVE  FilesOK'
<1>1. items' = items
  BY DEF Browse, TableKey, MoveCursor, CycleSort, ToggleOrder, OpenFilter, TypeFilter, AcceptFilter,
         ClearFilter, Display
<1> QED
  BY <1>1, SameFiles DEF Browse


(* Every step keeps FilesInv: an excuse is never taken back, nor does the    *)
(* list change.                                                             *)
LEMMA FilesStep ==
  ASSUME FilesInv, [FilesNext]_fileVars
  PROVE  FilesInv'
<1>1. SUFFICES ASSUME list' # "outbounds", ~excused'
               PROVE  FilesOK'
  BY DEF FilesInv
<1>2. list' = list
  BY DEF FilesNext, Browse, AskDelete, AskRename, SelectTunnel, AskAdd, Answer, SubmitRename,
         SubmitName, SaveForm, DiscardForm, LeaveBox, RunCommand, RunDisk, RunBox, fileVars
<1>3. ~excused
  BY <1>1 DEF FilesNext, Browse, AskDelete, AskRename, SelectTunnel, AskAdd, Answer, SubmitRename,
         SubmitName, SaveForm, DiscardForm, LeaveBox, RunCommand, RunDisk, RunList, RunBox, Run,
         fileVars
<1>4. FilesOK /\ list # "outbounds"
  BY <1>1, <1>2, <1>3 DEF FilesInv
<1>5. CASE Browse \/ AskRename \/ SelectTunnel \/ AskAdd \/ DiscardForm \/ LeaveBox
  BY <1>4, <1>5, BrowseStep, AskRenameStep, SelectTunnelStep, AskAddStep, DiscardFormStep, LeaveBoxStep
<1>6. CASE AskDelete \/ \E yes \in BOOLEAN : Answer(yes)
  BY <1>1, <1>4, <1>6, AskDeleteStep, AnswerStep
<1>7. CASE \E n \in FileNames : SubmitRename(n) \/ SubmitName(n) \/ SaveForm(n)
  BY <1>1, <1>4, <1>7, SubmitRenameStep, SubmitNameStep, SaveFormStep
<1>8. CASE RunCommand
  <2>1. PICK cmd \in BagToSet(commands) :
          \/ RunDisk(cmd)
          \/ RunList(cmd) /\ UNCHANGED <<list, boxes, opened>>
          \/ RunBox(cmd) /\ UNCHANGED list
    BY <1>8 DEF RunCommand
  <2>2. cmd \in DOMAIN commands
    BY DEF BagToSet
  <2> QED
    BY <1>1, <1>4, <2>1, <2>2, RunDiskStep, RunListStep, RunBoxStep
<1>9. CASE UNCHANGED fileVars
  BY <1>4, <1>9, SameFiles DEF fileVars, viewOnly
<1> QED
  BY <1>5, <1>6, <1>7, <1>8, <1>9 DEF FilesNext

LEMMA FilesStart ==
  ASSUME FilesInit
  PROVE  FilesInv
<1> DEFINE c0 == <<Load>>
<1>1. /\ commands = SetToBag({c0}) /\ boxes = <<>> /\ opened = 0
  BY DEF FilesInit
<1>2. /\ CommandOK(c0) /\ Closes(c0) = {} /\ ~Unlisted(c0) /\ ListsLater(c0)
      /\ \A i \in DOMAIN c0 : c0[i].do # "open"
  <2>1. Load.do = "load"
    BY DEF Load
  <2>2. DOMAIN c0 = {1} /\ c0[1] = Load /\ Len(c0) = 1 /\ c0 # <<>>
    OBVIOUS
  <2>3. c0 \in Seq({c0[i] : i \in DOMAIN c0})
    OBVIOUS
  <2> HIDE DEF c0
  <2> QED
    BY <2>1, <2>2, <2>3 DEF CommandOK, Closes, Unlisted, Changing, ListsLater, Listings
<1> HIDE DEF c0
<1>3. commands = [e \in {c0} |-> 1]
  BY <1>1 DEF SetToBag
<1>4. Counts(commands) /\ DOMAIN commands = {c0} /\ commands[c0] = 1
  BY <1>3 DEF Counts
<1>5. ToSet(boxes) = {}
  BY <1>1 DEF ToSet
<1>6. Asking = {}
  BY <1>2, <1>4, <1>5 DEF Asking, BagToSet
<1>7. FilesTyped
  BY <1>1, <1>4 DEF FilesTyped
<1>8. \A c \in DOMAIN commands : CommandOK(c) /\ Backed(c)
  BY <1>2, <1>4 DEF Backed
<1>9. ClosesOnce(commands) /\ ListsOnce(commands)
  BY <1>2, <1>4 DEF ClosesOnce, ListsOnce
<1>10. FreshOrListed
  BY <1>2, <1>4 DEF FreshOrListed
<1> QED
  BY <1>6, <1>7, <1>8, <1>9, <1>10 DEF FilesOK, FilesInv

(* The lists of files: while no run is excused, every change of the disk in *)
(* the commands has its listing after it, or the closing of an open form,   *)
(* for any number of dialogs, files and commands (crud/update.go).          *)
THEOREM FilesInvariant == FilesSpec => []FilesInv
<1>1. FilesInit => FilesInv
  BY FilesStart
<1>2. FilesInv /\ [FilesNext]_fileVars => FilesInv'
  BY FilesStep
<1> QED
  BY <1>1, <1>2, PTL DEF FilesSpec

LEMMA FilesInvShows == FilesInv => TableFresh
<1>1. SUFFICES ASSUME FilesInv, list # "outbounds", ~excused, commands = EmptyBag, boxes = <<>>
               PROVE  items = Listing
  BY DEF TableFresh
<1>2. FreshOrListed
  BY <1>1 DEF FilesInv, FilesOK
<1>3. DOMAIN commands = {}
  BY <1>1 DEF EmptyBag, SetToBag
<1>4. ToSet(boxes) = {}
  BY <1>1 DEF ToSet
<1> QED
  BY <1>2, <1>3, <1>4 DEF FreshOrListed

(* Once everything asked for has run, the table shows what is on the disk   *)
(* (crud/update.go tea.Sequence), for any number of dialogs and commands.   *)
THEOREM FilesTableFresh == FilesSpec => []TableFresh
BY FilesInvariant, FilesInvShows, PTL

-----------------------------------------------------------------------------

(***************************************************************************)
(* The lists with one folder: the rows have different names, and so have   *)
(* the files, whatever runs and however often a listing fails.             *)
(***************************************************************************)

Single == {"ips", "outbounds"}

Place == [folder : {1}, name : FileNames]

File == [folder : {1}, name : FileNames, age : Nat]

RowsOK(rows) ==
  /\ rows \in Seq(File)
  /\ \A i, j \in DOMAIN rows : rows[i].name = rows[j].name => i = j

PlainDisk ==
  /\ IsFiniteSet(disk) /\ disk \subseteq File
  /\ \A f, g \in disk : f.name = g.name => f = g
  /\ \A f, g \in disk : f.age = g.age => f = g

PlainStep(s) ==
  /\ s.do \in {"write", "edit"} => s.path \in Place
  /\ s.do = "move" => s.to \in Place
  /\ s.do = "loaded" => RowsOK(s.rows)

PlainCommand(c) == Stepwise(c) /\ \A i \in DOMAIN c : PlainStep(c[i])

AsksOfRow(b) ==
  /\ b.file = b.row /\ b.kind # "form"
  /\ b.kind = "rename" => b.file.folder = 1
  /\ b.kind = "name" => b.how \in {"import", "file", "link"}
  /\ \A r \in b.runs : PlainCommand(r) /\ \A i \in DOMAIN r : r[i].do # "open"

ViewOK ==
  view \in [col : 0..Len(Columns), asc : BOOLEAN, needle : Needles \cup {NoNeedle}, typing : BOOLEAN]

RowsKept ==
  /\ Counts(commands) /\ boxes \in Seq(ToSet(boxes))
  /\ \A c \in DOMAIN commands : PlainCommand(c)
  /\ \A b \in Asking : AsksOfRow(b)
  /\ PlainDisk /\ RowsOK(items) /\ ViewOK

RowsInv == list \in Single => RowsKept

(* A list of files shows each of them once, the newest first. *)
LEMMA SortedFiles ==
  ASSUME NEW S, IsFiniteSet(S), \A f \in S : f.age \in Nat,
         \A f, g \in S : f.age = g.age => f = g
  PROVE  /\ Sorted(S) \in Seq(S) /\ Len(Sorted(S)) = Cardinality(S)
         /\ \A i, j \in DOMAIN Sorted(S) : i < j => Sorted(S)[i].age > Sorted(S)[j].age
         /\ \A i, j \in DOMAIN Sorted(S) : Sorted(S)[i] = Sorted(S)[j] => i = j
         /\ ToSet(Sorted(S)) = S
<1> DEFINE L == {p \in S \X S : p[1].age >= p[2].age}
           p == [f \in S |-> PlaceIn(S, L, f)]
           n == Cardinality(S)
           s == Sorted(S)
<1>1. \A f, g \in S : <<f, g>> \in L <=> f.age >= g.age
  OBVIOUS
<1>2. \A f \in S : Cardinality({g \in S : g.age >= f.age}) = p[f]
  <2>1. ASSUME NEW f \in S
        PROVE  {g \in S : g.age >= f.age} = {g \in S : <<g, f>> \in L}
    BY <1>1
  <2> QED
    BY <2>1 DEF PlaceIn
<1>3. \A f \in S : p[f] = PlaceIn(S, L, f)
  OBVIOUS
<1> HIDE DEF L, p
<1>4. Linear(L, S)
  <2>1. /\ \A f \in S : <<f, f>> \in L
        /\ \A f, g \in S : <<f, g>> \in L \/ <<g, f>> \in L
        /\ \A f, g \in S : <<f, g>> \in L /\ <<g, f>> \in L => f = g
    BY <1>1
  <2>2. \A f, g, h \in S : <<f, g>> \in L /\ <<g, h>> \in L => <<f, h>> \in L
    BY <1>1
  <2> QED
    BY <2>1, <2>2 DEF Linear
<1>5. /\ \A f \in S : p[f] \in 1..n
      /\ \A f, g \in S : <<f, g>> \in L /\ f # g => p[f] < p[g]
      /\ \A k \in 1..n : \E f \in S : p[f] = k
  BY <1>3, <1>4, PlacesNumber
<1>8. n \in Nat
  BY FS_CardinalityType
<1>9. s = [k \in 1..n |-> CHOOSE f \in S : Cardinality({g \in S : g.age >= f.age}) = k]
  BY DEF Sorted
<1> HIDE DEF s, n
<1>10. \A k \in 1..n : s[k] \in S /\ p[s[k]] = k
  <2>1. SUFFICES ASSUME NEW k \in 1..n PROVE s[k] \in S /\ p[s[k]] = k
    OBVIOUS
  <2>2. s[k] = CHOOSE f \in S : Cardinality({g \in S : g.age >= f.age}) = k
    BY <1>9
  <2>3. \E f \in S : Cardinality({g \in S : g.age >= f.age}) = k
    BY <1>5, <1>2
  <2>4. s[k] \in S /\ Cardinality({g \in S : g.age >= s[k].age}) = k
    BY <2>2, <2>3
  <2> QED
    BY <1>2, <2>4
<1>11. s \in [1..n -> S] /\ DOMAIN s = 1..n
  BY <1>9, <1>10
<1>12. s \in Seq(S) /\ Len(s) = n
  BY <1>8, <1>11, SeqDef, LenProperties
<1>13. \A i, j \in 1..n : s[i] = s[j] => i = j
  BY <1>10
<1>14. ToSet(s) = S
  <2>1. ASSUME NEW f \in S
        PROVE  f = s[p[f]] /\ p[f] \in 1..n
    <3>1. p[f] \in 1..n
      BY <1>5
    <3>2. s[p[f]] \in S /\ p[s[p[f]]] = p[f]
      BY <1>10, <3>1
    <3>3. \A x, y \in S : p[x] = p[y] => x = y
      BY <1>3, <1>4, PlacesNumber
    <3> QED
      BY <3>1, <3>2, <3>3
  <2> QED
    BY <1>10, <1>11, <2>1 DEF ToSet
<1>15. ASSUME NEW i \in 1..n, NEW j \in 1..n, i < j
       PROVE  s[i].age > s[j].age
  <2>1. s[i] \in S /\ s[j] \in S /\ p[s[i]] = i /\ p[s[j]] = j
    BY <1>10
  <2>2. s[i] # s[j] /\ ~(<<s[j], s[i]>> \in L)
    BY <1>5, <1>8, <1>15, <2>1
  <2> QED
    BY <1>1, <2>1, <2>2
<1> QED
  BY <1>11, <1>12, <1>13, <1>14, <1>15 DEF s, n


(* What is shown are rows of the list, in some order. *)
LEMMA LexicallyLinear ==
  ASSUME NEW S, NEW key, \A i \in S : i \in Nat /\ key[i] \in Nat, NEW L, NEW up \in BOOLEAN,
         \A i, j \in S : <<i, j>> \in L <=>
           \/ IF up THEN key[i] < key[j] ELSE key[i] > key[j]
           \/ key[i] = key[j] /\ i <= j
  PROVE  Linear(L, S)
<1>1. ASSUME NEW i \in S, NEW j \in S
      PROVE  /\ <<i, i>> \in L
             /\ <<i, j>> \in L \/ <<j, i>> \in L
             /\ <<i, j>> \in L /\ <<j, i>> \in L => i = j
  <2> DEFINE x == key[i]
             y == key[j]
  <2>1. x \in Nat /\ y \in Nat /\ i \in Nat /\ j \in Nat
    OBVIOUS
  <2>2. /\ <<i, i>> \in L <=> (IF up THEN x < x ELSE x > x) \/ (x = x /\ i <= i)
        /\ <<i, j>> \in L <=> (IF up THEN x < y ELSE x > y) \/ (x = y /\ i <= j)
        /\ <<j, i>> \in L <=> (IF up THEN y < x ELSE y > x) \/ (y = x /\ j <= i)
    OBVIOUS
  <2> HIDE DEF x, y
  <2> QED
    BY <2>1, <2>2
<1>2. ASSUME NEW i \in S, NEW j \in S, NEW h \in S, <<i, j>> \in L, <<j, h>> \in L
      PROVE  <<i, h>> \in L
  <2> DEFINE x == key[i]
             y == key[j]
             z == key[h]
  <2>1. x \in Nat /\ y \in Nat /\ z \in Nat /\ i \in Nat /\ j \in Nat /\ h \in Nat
    OBVIOUS
  <2>2. /\ <<i, j>> \in L <=> (IF up THEN x < y ELSE x > y) \/ (x = y /\ i <= j)
        /\ <<j, h>> \in L <=> (IF up THEN y < z ELSE y > z) \/ (y = z /\ j <= h)
        /\ <<i, h>> \in L <=> (IF up THEN x < z ELSE x > z) \/ (x = z /\ i <= h)
    OBVIOUS
  <2> HIDE DEF x, y, z
  <2> QED
    BY <1>2, <2>1, <2>2
<1> QED
  BY <1>1, <1>2 DEF Linear

LEMMA OrderedRows ==
  ASSUME NEW T, NEW rows \in Seq(T), \A r \in T : r.name \in Nat /\ r.age \in Nat,
         NEW v, v.col \in 1..Len(Columns), v.asc \in BOOLEAN, NEW k \in DOMAIN InOrder(rows, v)
  PROVE  InOrder(rows, v)[k] \in ToSet(rows)
<1> DEFINE S == DOMAIN rows
           n == Len(rows)
           L == {p \in S \X S : p[1] \in UpTo(rows, v, p[2])}
<1>1. /\ n \in Nat /\ S = 1..n /\ \A i \in S : rows[i] \in T
      /\ IsFiniteSet(S) /\ Cardinality(S) = n
  <2>1. n \in Nat /\ S = 1..n /\ \A i \in S : rows[i] \in T
    BY LenProperties, ElementOfSeq
  <2> HIDE DEF S, n
  <2>2. IsFiniteSet(1..n) /\ Cardinality(1..n) = n
    BY <2>1, FS_Interval
  <2> QED
    BY <2>1, <2>2
<1>2. \A i \in S : Key(rows[i], v) \in Nat
  <2>1. Columns[v.col] \in {"name", "age"}
    BY ColumnsAreFields, ElementOfSeq
  <2> QED
    BY <1>1, <2>1 DEF Key
<1> DEFINE key == [i \in S |-> Key(rows[i], v)]
<1>3. \A i, j \in S : <<i, j>> \in L <=>
        \/ IF v.asc THEN key[i] < key[j] ELSE key[i] > key[j]
        \/ key[i] = key[j] /\ i <= j
  BY DEF UpTo, Precedes
<1>4. \A i \in S : key[i] \in Nat /\ i \in Nat
  BY <1>1, <1>2
<1>5. \A i \in S : UpTo(rows, v, i) = {j \in S : <<j, i>> \in L}
  BY DEF UpTo
<1> HIDE DEF L, key
<1>6. Linear(L, S)
  BY <1>3, <1>4, LexicallyLinear
<1>7. k \in 1..n /\ InOrder(rows, v)[k] = rows[CHOOSE i \in S : Cardinality(UpTo(rows, v, i)) = k]
  BY <1>1 DEF InOrder
<1>8. \E i \in S : PlaceIn(S, L, i) = k
  <2> HIDE DEF S, n
  <2> QED
    BY <1>1, <1>6, <1>7, PlacesNumber
<1>9. \E i \in S : Cardinality(UpTo(rows, v, i)) = k
  BY <1>5, <1>8 DEF PlaceIn
<1> QED
  BY <1>7, <1>9 DEF ToSet

LEMMA ShownRows ==
  ASSUME RowsOK(items), ViewOK, NEW row \in ToSet(SelectedRow)
  PROVE  row \in ToSet(items)
<1> DEFINE I == {i \in DOMAIN items : items[i].name \in view.needle}
           m == Matching(items, view)
<1>1. items \in Seq(File)
  BY DEF RowsOK
<1>2. \A r \in File : r.name \in Nat /\ r.age \in Nat
  BY NamesAreOrdered DEF File
<1>3. m \in Seq(File) /\ \A r \in ToSet(m) : r \in ToSet(items)
  <2>1. m = Retain(items, I)
    BY DEF Matching
  <2>2. I \in SUBSET DOMAIN items
    OBVIOUS
  <2> HIDE DEF I, m
  <2>3. m \in Seq(File)
    BY <1>1, <2>1, <2>2, RetainedElements
  <2>4. \A r \in ToSet(m) : r \in ToSet(items)
    <3>1. ASSUME NEW r \in ToSet(m) PROVE r \in ToSet(items)
      <4>1. PICK i \in I : r = items[i]
        BY <1>1, <2>1, <2>2, RetainedBoxes
      <4> QED
        BY <2>2, <4>1 DEF ToSet
    <3> QED
      BY <3>1
  <2> QED
    BY <2>3, <2>4
<1>4. row = Shown[cursor + 1] /\ cursor + 1 \in DOMAIN Shown
  BY DEF SelectedRow, ToSet
<1> HIDE DEF m
<1>5. CASE view.col = 0
  <2>1. Shown = m
    BY <1>5 DEF Shown, Visible, m
  <2> QED
    BY <1>3, <1>4, <2>1 DEF ToSet
<1>6. CASE view.col # 0
  <2>1. Shown = InOrder(m, view)
    BY <1>6 DEF Shown, Visible, m
  <2>2. view.col \in 1..Len(Columns)
    <3>1. view.col \in 0..Len(Columns) /\ Len(Columns) \in Nat
      BY ColumnsAreFields DEF ViewOK
    <3> QED
      BY <1>6, <3>1
  <2>3. row \in ToSet(m)
    <3>1. view.asc \in BOOLEAN
      BY DEF ViewOK
    <3> QED
      BY <1>2, <1>3, <1>4, <2>1, <2>2, <3>1, OrderedRows
  <2> QED
    BY <1>3, <2>3
<1> QED
  BY <1>5, <1>6

(* The row under the cursor is the file that is acted on. *)
LEMMA SelectedIsRow ==
  ASSUME RowsOK(items), ViewOK, NEW row \in ToSet(SelectedRow)
  PROVE  Selected(row) = row /\ row \in File
<1>1. PICK k \in DOMAIN items : items[k] = row
  BY ShownRows DEF ToSet
<1>2. row \in File /\ \A i, j \in DOMAIN items : items[i].name = items[j].name => i = j
  BY <1>1 DEF RowsOK
<1>3. \A i \in DOMAIN items : i \in Nat
  BY DEF RowsOK
<1> DEFINE P(i) == /\ items[i].name = row.name
                   /\ \A j \in DOMAIN items : items[j].name = row.name => j <= i
<1>4. P(k) /\ \A i \in DOMAIN items : P(i) => i = k
  BY <1>1, <1>2, <1>3
<1>5. Selected(row) = items[CHOOSE i \in DOMAIN items : P(i)]
  BY DEF Selected
<1> HIDE DEF P
<1>6. (CHOOSE i \in DOMAIN items : P(i)) = k
  BY <1>4
<1> QED
  BY <1>1, <1>2, <1>5, <1>6


-----------------------------------------------------------------------------
(* Commands go on. *)

LEMMA StepwiseSteps ==
  ASSUME NEW c, Stepwise(c)
  PROVE  /\ Len(c) \in Nat /\ Len(c) >= 1 /\ DOMAIN c = 1..Len(c) /\ 1 \in DOMAIN c
         /\ Head(c) = c[1]
<1> DEFINE T == {c[i] : i \in DOMAIN c}
<1>1. c \in Seq(T) /\ c # <<>>
  BY DEF Stepwise
<1> HIDE DEF T
<1>2. Len(c) \in Nat /\ DOMAIN c = 1..Len(c) /\ Len(c) # 0 /\ Head(c) = c[1]
  BY <1>1
<1> QED
  BY <1>2

LEMMA RestStepwise ==
  ASSUME NEW c, Stepwise(c), NEW k \in Nat, k + 1 <= Len(c)
  PROVE  /\ Rest(c, k) # c
         /\ Rest(c, k) # <<>> => Stepwise(Rest(c, k))
         /\ \A i \in DOMAIN Rest(c, k) : i + k + 1 \in DOMAIN c /\ Rest(c, k)[i] = c[i + k + 1]
<1> DEFINE l == Rest(c, k)
           n == Len(c)
           m == Len(l)
<1>1. n \in Nat /\ n >= 1 /\ DOMAIN c = 1..n
  BY StepwiseSteps
<1>2. /\ m = n - k - 1 /\ DOMAIN l = 1..m /\ l \in Seq({l[i] : i \in DOMAIN l})
      /\ \A i \in DOMAIN l : i + k + 1 \in DOMAIN c /\ l[i] = c[i + k + 1]
  <2> HIDE DEF l, n, m
  <2>1. l = Rest(c, k) /\ n = Len(c) /\ m = Len(l)
    BY DEF l, n, m
  <2>2. /\ Len(Rest(c, k)) = Len(c) - k - 1
        /\ DOMAIN Rest(c, k) = 1..Len(Rest(c, k))
        /\ Rest(c, k) \in Seq({Rest(c, k)[i] : i \in DOMAIN Rest(c, k)})
        /\ \A i \in DOMAIN Rest(c, k) : i + k + 1 \in DOMAIN c /\ Rest(c, k)[i] = c[i + k + 1]
    <3>1. RestHas(c, k)
      BY RestSteps
    <3> QED
      BY <3>1 DEF RestHas
  <2> QED
    BY <2>1, <2>2, Zenon
<1>3. \A i \in DOMAIN c : c[i].do \in Checks => c[i].skip \in Nat /\ i + c[i].skip <= n
  BY DEF Stepwise
<1> HIDE DEF l, n
<1>4. l # c
  BY <1>1, <1>2 DEF n
<1> HIDE DEF m
<1>5. ASSUME NEW i \in DOMAIN l, l[i].do \in Checks
      PROVE  l[i].skip \in Nat /\ i + l[i].skip <= m
  <2> DEFINE j == i + k + 1
             s == l[i].skip
  <2>1. j \in DOMAIN c /\ l[i] = c[j]
    BY <1>2
  <2>2. s \in Nat /\ j + s <= n
    BY <1>3, <1>5, <2>1
  <2>3. i \in Nat
    BY <1>2
  <2> HIDE DEF s
  <2>4. i + s <= m
    BY <1>1, <1>2, <2>2, <2>3
  <2> QED
    BY <2>2, <2>4 DEF s
<1>6. l # <<>> => Stepwise(l)
  BY <1>2, <1>5 DEF Stepwise, m
<1> QED
  BY <1>2, <1>4, <1>6 DEF l

LEMMA StepwiseRan ==
  ASSUME Counts(commands), NEW cmd \in DOMAIN commands, Stepwise(cmd),
         NEW k \in Nat, k + 1 <= Len(cmd), NEW S,
         commands' = Continued(cmd, k) (+) SetToBag(S)
  PROVE  Ran(cmd, Rest(cmd, k), S, commands, commands') /\ Foreseen(cmd, k, S)
<1> DEFINE l == Rest(cmd, k)
           B == commands
           L == IF l = <<>> THEN {} ELSE {l}
<1>1. commands' = ((B (-) SetToBag({cmd})) (+) SetToBag(L)) (+) SetToBag(S)
  BY DEF Continued, EmptyBag, Rest
<1>2. l # cmd
  BY RestStepwise
<1> HIDE DEF l
<1>3. Ran(cmd, l, S, commands, commands')
  <2>1. commands' = ((B (-) SetToBag({cmd})) (+) SetToBag(IF l = <<>> THEN {} ELSE {l})) (+) SetToBag(S)
    BY <1>1
  <2> HIDE DEF L
  <2> QED
    BY <1>2, <2>1, ContinuedRan
<1>4. \A c \in DOMAIN commands' : c \in DOMAIN commands \/ c \in S \/ (c = l /\ c # <<>>)
  BY <1>3 DEF Ran
<1> QED
  BY <1>3, <1>4 DEF l, Foreseen

LEMMA StepwiseAsks ==
  ASSUME NEW cmd \in DOMAIN commands, Stepwise(cmd), NEW k \in Nat, k + 1 <= Len(cmd), NEW S,
         \A s \in S : \A i \in DOMAIN s : s[i].do # "open",
         Foreseen(cmd, k, S),
         \A b \in ToSet(boxes') : b \in Asking
  PROVE  Asking' \subseteq Asking
<1>1. SUFFICES ASSUME NEW b, NEW c \in DOMAIN commands', AsksBy(c, b)
               PROVE  b \in Asking
  BY AskingIsNext
<1>2. PICK i \in DOMAIN c : c[i].do = "open" /\ c[i].box = b
  BY <1>1 DEF AsksBy
<1>3. CASE c \in DOMAIN commands
  BY <1>1, <1>3, AskingIs
<1>4. CASE c = Rest(cmd, k)
  <2>1. i + k + 1 \in DOMAIN cmd /\ c[i] = cmd[i + k + 1]
    BY <1>4, RestStepwise
  <2>2. AsksBy(cmd, b)
    BY <1>2, <2>1 DEF AsksBy
  <2> QED
    BY <2>2, AskingIs
<1>5. CASE c \in S
  BY <1>2, <1>5
<1> QED
  BY <1>3, <1>4, <1>5 DEF Foreseen


-----------------------------------------------------------------------------
(* What steps make of the disk. *)

LEMMA NewestAge ==
  ASSUME PlainDisk
  PROVE  Newest \in Nat /\ \A f \in disk : f.age <= Newest
<1> DEFINE s == Sorted(disk)
           A == Ages(disk) \cup {0}
<1>1. \A f \in disk : f.age \in Nat
  BY DEF PlainDisk, File
<1>2. \E n \in A : \A f \in disk : f.age <= n
  <2>1. CASE disk = {}
    BY <2>1
  <2>2. CASE disk # {}
    <3>1. /\ s \in Seq(disk) /\ ToSet(s) = disk
          /\ \A i, j \in DOMAIN s : i < j => s[i].age > s[j].age
      BY <1>1, SortedFiles DEF PlainDisk
    <3> HIDE DEF s
    <3>2. DOMAIN s = 1..Len(s) /\ Len(s) \in Nat
      BY <3>1
    <3>3. 1 \in DOMAIN s
      BY <2>2, <3>1, <3>2 DEF ToSet
    <3>4. s[1] \in disk
      BY <3>1, <3>3 DEF ToSet
    <3>5. ASSUME NEW f \in disk
          PROVE  f.age <= s[1].age
      <4>1. PICK i \in DOMAIN s : f = s[i]
        BY <3>1 DEF ToSet
      <4>2. CASE i = 1
        BY <1>1, <4>1, <4>2
      <4>3. CASE i # 1
        <5>1. 1 < i
          BY <3>2, <4>3
        <5>2. s[1].age > s[i].age
          BY <3>1, <3>3, <5>1
        <5> QED
          BY <1>1, <3>4, <4>1, <5>2
      <4> QED
        BY <4>2, <4>3
    <3>6. s[1].age \in A
      BY <3>4 DEF Ages
    <3> QED
      BY <3>5, <3>6
  <2> QED
    BY <2>1, <2>2
<1>3. Newest \in A /\ \A f \in disk : f.age <= Newest
  BY <1>2 DEF Newest
<1> QED
  BY <1>1, <1>3 DEF Ages

LEMMA SmallerDisk ==
  ASSUME PlainDisk, disk' \subseteq disk
  PROVE  PlainDisk'
<1>1. IsFiniteSet(disk)'
  BY FS_Subset DEF PlainDisk
<1> QED
  BY <1>1 DEF PlainDisk

LEMMA WrittenDisk ==
  ASSUME PlainDisk, NEW p \in Place, disk' = (disk \ At(p)) \cup {Written(p)}
  PROVE  PlainDisk'
<1> DEFINE w == Written(p)
           D == disk \ At(p)
<1>1. Newest \in Nat /\ \A f \in disk : f.age <= Newest
  BY NewestAge
<1>2. w \in File /\ w.name = p.name /\ w.age = Newest + 1
  BY <1>1 DEF Written, File, Place
<1>3. \A f \in D : f \in disk /\ f.name # p.name
  BY DEF PlainDisk, At, Path, Place, File
<1>4. \A f \in disk : f.age \in Nat
  BY DEF PlainDisk, File
<1>5. IsFiniteSet(D \cup {w})
  <2>1. IsFiniteSet(D)
    BY FS_Subset DEF PlainDisk
  <2> HIDE DEF D, w
  <2> QED
    BY <2>1, FS_AddElement
<1> HIDE DEF w, D
<1>6. disk' = D \cup {w}
  BY DEF w, D
<1>7. \A f \in D : f \in disk /\ f.age # w.age
  BY <1>1, <1>2, <1>3, <1>4
<1>8. IsFiniteSet(disk') /\ disk' \subseteq File
  BY <1>2, <1>3, <1>5, <1>6 DEF PlainDisk
<1>9. \A f, g \in disk' : f.name = g.name => f = g
  BY <1>2, <1>3, <1>6 DEF PlainDisk
<1>10. \A f, g \in disk' : f.age = g.age => f = g
  BY <1>6, <1>7 DEF PlainDisk
<1> QED
  BY <1>8, <1>9, <1>10 DEF PlainDisk

LEMMA MovedDisk ==
  ASSUME PlainDisk, NEW p, NEW q \in Place, disk' = Moved(disk, p, q)
  PROVE  PlainDisk'
<1> DEFINE e(f) == [f EXCEPT !.folder = q.folder, !.name = q.name]
           D == {f \in disk : Path(f) \notin {p, q}}
           G == {g \in disk : Path(g) = p}
           M == {e(f) : f \in G}
<1>1. disk' = D \cup M
  BY DEF Moved
<1>2. \A f \in disk : /\ f.folder = 1 /\ f \in File
                      /\ Path(f) = q <=> f.name = q.name
  BY DEF PlainDisk, File, Path, Place
<1>3. \A f \in G : e(f) \in File /\ e(f).name = q.name /\ e(f).age = f.age
  BY <1>2 DEF Place, File
<1>4. \A f, g \in G : f = g
  <2>1. \A f, g \in disk : Path(f) = Path(g) => f.name = g.name
    BY DEF Path
  <2> QED
    BY <2>1 DEF PlainDisk
<1>5. \A f \in D : f \in disk /\ f.name # q.name /\ f \notin G
  BY <1>2
<1>6. \A f \in G : f \in disk
  OBVIOUS
<1>7. IsFiniteSet(D)
  BY FS_Subset DEF PlainDisk
<1>8. G = {} \/ \E g \in G : M = {e(g)}
  BY <1>4
<1>9. IsFiniteSet(D \cup M)
  <2>1. CASE G = {}
    <3>1. D \cup M = D
      BY <2>1
    <3> QED
      BY <1>7, <3>1
  <2>2. CASE \E g \in G : M = {e(g)}
    <3>1. PICK x : M = {x}
      BY <2>2
    <3> HIDE DEF D, M
    <3> QED
      BY <1>7, <3>1, FS_AddElement
  <2> QED
    BY <1>8, <2>1, <2>2
<1>10. \A x \in M : \E f \in G : x \in File /\ x.name = q.name /\ x.age = f.age /\ x = e(f)
  BY <1>3
<1> HIDE DEF e, D, G, M
<1>11. IsFiniteSet(disk') /\ disk' \subseteq File
  BY <1>1, <1>2, <1>5, <1>9, <1>10
<1>12. \A x, y \in M : x = y
  BY <1>4, <1>10
<1>13. \A x \in M : \A f \in D : x.name # f.name /\ x.age # f.age
  BY <1>5, <1>6, <1>10 DEF PlainDisk
<1>14. \A f, g \in D : (f.name = g.name => f = g) /\ (f.age = g.age => f = g)
  BY <1>5 DEF PlainDisk
<1>15. \A x, y \in disk' : (x.name = y.name => x = y) /\ (x.age = y.age => x = y)
  BY <1>1, <1>12, <1>13, <1>14
<1> QED
  BY <1>11, <1>15 DEF PlainDisk

LEMMA ListedRows ==
  ASSUME PlainDisk
  PROVE  RowsOK(Listing)
<1>1. /\ Listing \in Seq(disk)
      /\ \A i, j \in DOMAIN Listing : Listing[i] = Listing[j] => i = j
  BY SortedFiles DEF PlainDisk, File, Listing
<1>2. Listing \in Seq(File)
  BY <1>1 DEF PlainDisk
<1>3. \A i \in DOMAIN Listing : Listing[i] \in disk
  BY <1>1, ElementOfSeq
<1> QED
  BY <1>1, <1>2, <1>3 DEF RowsOK, PlainDisk


-----------------------------------------------------------------------------
(* What a step of a command leaves to ask and to run. *)

Queued == 
  /\ Counts(commands) /\ boxes \in Seq(ToSet(boxes))
  /\ \A c \in DOMAIN commands : PlainCommand(c)
  /\ \A b \in Asking : AsksOfRow(b)

LEMMA RowsWent ==
  ASSUME Queued, NEW cmd \in DOMAIN commands, NEW k \in Nat, k + 1 <= Len(cmd), NEW S,
         \A s \in S : PlainCommand(s) /\ \A i \in DOMAIN s : s[i].do # "open",
         commands' = Continued(cmd, k) (+) SetToBag(S),
         boxes' \in Seq(ToSet(boxes')), \A b \in ToSet(boxes') : b \in Asking
  PROVE  Queued'
<1>1. Counts(commands) /\ PlainCommand(cmd) /\ Stepwise(cmd)
  BY DEF Queued, PlainCommand
<1>2. Ran(cmd, Rest(cmd, k), S, commands, commands') /\ Foreseen(cmd, k, S)
  BY <1>1, StepwiseRan
<1>3. Counts(commands')
  BY <1>2 DEF Ran
<1>4. Asking' \subseteq Asking
  BY <1>1, <1>2, StepwiseAsks
<1>5. Rest(cmd, k) # <<>> => PlainCommand(Rest(cmd, k))
  BY <1>1, RestStepwise DEF PlainCommand
<1>6. \A c \in DOMAIN commands' : PlainCommand(c)
  BY <1>2, <1>5 DEF Foreseen, Queued
<1> QED
  BY <1>3, <1>4, <1>6 DEF Queued

LEMMA RowsWentOn ==
  ASSUME Queued, NEW cmd \in DOMAIN commands, NEW k \in Nat, k + 1 <= Len(cmd),
         commands' = Continued(cmd, k), boxes' = boxes
  PROVE  Queued'
<1>1. commands' = Continued(cmd, k) (+) SetToBag({})
  BY ContinuedNone DEF Queued
<1>2. \A b \in ToSet(boxes') : b \in Asking
  BY AskingIs
<1>3. boxes' \in Seq(ToSet(boxes'))
  BY DEF Queued
<1> QED
  BY <1>1, <1>2, <1>3, RowsWent

(* The dialog that is asked for is new, the others stay.                     *)
LEMMA AskedNext ==
  ASSUME Counts(commands), NEW box, commands' = Started({<<OpenBox(box)>>}), boxes' = boxes
  PROVE  /\ Counts(commands') /\ Stepwise(<<OpenBox(box)>>)
         /\ DOMAIN <<OpenBox(box)>> = {1} /\ <<OpenBox(box)>>[1].do = "open"
         /\ \A c : c \in DOMAIN commands' <=> c \in DOMAIN commands \/ c = <<OpenBox(box)>>
         /\ \A d \in DOMAIN commands : d # <<OpenBox(box)>> => commands'[d] = commands[d]
         /\ \A b \in Asking' : b \in Asking \/ b = box
<1> DEFINE c0 == <<OpenBox(box)>>
<1>1. DOMAIN c0 = {1} /\ c0[1] = OpenBox(box) /\ Len(c0) = 1 /\ c0 # <<>>
  OBVIOUS
<1>2. c0 \in Seq({c0[i] : i \in DOMAIN c0})
  OBVIOUS
<1>3. commands' = commands (+) SetToBag({c0})
  BY DEF Started
<1> HIDE DEF c0
<1>4. c0[1].do = "open" /\ c0[1].box = box
  BY <1>1 DEF OpenBox
<1>5. Counts(commands')
  BY <1>3, BagPlusCounts
<1>6. \A c : c \in DOMAIN commands' <=> c \in DOMAIN commands \/ c \in {c0}
  BY <1>3, BagPlusCopies
<1>7. \A d \in DOMAIN commands : d \notin {c0} => commands'[d] = commands[d]
  BY <1>3, BagPlusCopies
<1>8. Stepwise(c0)
  BY <1>1, <1>2, <1>4 DEF Stepwise, Checks
<1>9. \A b : AsksBy(c0, b) <=> b = box
  BY <1>1, <1>4 DEF AsksBy
<1>10. \A b \in Asking' : b \in Asking \/ b = box
  BY <1>6, <1>9, AskingIs, AskingIsNext
<1> QED
  BY <1>1, <1>4, <1>5, <1>6, <1>7, <1>8, <1>10 DEF c0

LEMMA RowsAsked ==
  ASSUME Queued, NEW box, AsksOfRow(box), commands' = Started({<<OpenBox(box)>>}), boxes' = boxes
  PROVE  Queued'
<1> DEFINE c0 == <<OpenBox(box)>>
<1>1. /\ Counts(commands') /\ Stepwise(c0) /\ DOMAIN c0 = {1} /\ c0[1].do = "open"
      /\ \A c : c \in DOMAIN commands' <=> c \in DOMAIN commands \/ c = c0
      /\ \A b \in Asking' : b \in Asking \/ b = box
  BY AskedNext DEF Queued
<1> HIDE DEF c0
<1>2. PlainCommand(c0)
  BY <1>1 DEF PlainCommand, PlainStep
<1> QED
  BY <1>1, <1>2 DEF Queued

LEMMA StartedNext ==
  ASSUME Counts(commands), NEW S, commands' = Started(S)
  PROVE  /\ Counts(commands')
         /\ \A c : c \in DOMAIN commands' <=> c \in DOMAIN commands \/ c \in S
         /\ \A d \in DOMAIN commands : d \notin S => commands'[d] = commands[d]
         /\ \A d \in S : d \notin DOMAIN commands => commands'[d] = 1
<1>1. commands' = commands (+) SetToBag(S)
  BY DEF Started
<1> QED
  BY <1>1, BagPlusCounts, BagPlusCopies

LEMMA RowsStarted ==
  ASSUME Queued, NEW S, commands' = Started(S), boxes' = boxes,
         \A s \in S : PlainCommand(s) /\ \A i \in DOMAIN s : s[i].do # "open"
  PROVE  Queued'
<1>1. /\ Counts(commands')
      /\ \A c : c \in DOMAIN commands' <=> c \in DOMAIN commands \/ c \in S
  BY StartedNext DEF Queued
<1>2. \A s \in S : \A b : ~AsksBy(s, b)
  BY DEF AsksBy
<1>3. \A b \in Asking' : b \in Asking
  BY <1>1, <1>2, AskingIs, AskingIsNext
<1> QED
  BY <1>1, <1>3 DEF Queued

-----------------------------------------------------------------------------
(* Steps of the commands. *)

LEMMA RowsKeptIs ==
  RowsKept <=> Queued /\ PlainDisk /\ RowsOK(items) /\ ViewOK
BY DEF RowsKept, Queued

LEMMA RowsKeptNext ==
  RowsKept' <=> Queued' /\ PlainDisk' /\ RowsOK(items') /\ ViewOK'
BY DEF RowsKept, Queued

LEMMA RowsDisk ==
  ASSUME RowsKept, NEW cmd \in DOMAIN commands, RunDisk(cmd)
  PROVE  RowsKept'
<1> DEFINE s == cmd[1]
<1>1. Queued /\ PlainDisk /\ RowsOK(items) /\ ViewOK /\ Stepwise(cmd) /\ PlainCommand(cmd)
  BY RowsKeptIs DEF Queued, PlainCommand
<1>2. /\ Head(cmd) = s /\ 1 \in DOMAIN cmd /\ Len(cmd) \in Nat /\ Len(cmd) >= 1
      /\ s.do \in Checks => s.skip \in Nat /\ 1 + s.skip <= Len(cmd)
  BY <1>1, StepwiseSteps DEF Stepwise
<1>3. PlainStep(s)
  BY <1>1, <1>2 DEF PlainCommand
<1> HIDE DEF s
<1>4. UNCHANGED <<items, view, boxes>>
  BY DEF RunDisk, viewOnly
<1>5. \E k \in Nat : k + 1 <= Len(cmd) /\ commands' = Continued(cmd, k)
  <2>1. 0 \in Nat /\ 0 + 1 <= Len(cmd)
    BY <1>2
  <2>2. \/ commands' = Continued(cmd, 0)
        \/ s.do \in Checks /\ commands' = Continued(cmd, s.skip)
    BY <1>2 DEF RunDisk, Checks
  <2>3. s.do \in Checks => s.skip \in Nat /\ s.skip + 1 <= Len(cmd)
    BY <1>2
  <2> QED
    BY <2>1, <2>2, <2>3
<1>6. Queued'
  BY <1>1, <1>4, <1>5, RowsWentOn
<1>7. PlainDisk'
  <2>1. CASE disk' \subseteq disk
    BY <1>1, <2>1, SmallerDisk
  <2>2. CASE s.do = "move" /\ disk' = Moved(disk, s.path, s.to)
    BY <1>1, <1>3, <2>2, MovedDisk DEF PlainStep
  <2>3. CASE s.do \in {"write", "edit"} /\ disk' = (disk \ At(s.path)) \cup {Written(s.path)}
    BY <1>1, <1>3, <2>3, WrittenDisk DEF PlainStep
  <2> QED
    BY <1>2, <2>1, <2>2, <2>3 DEF RunDisk, Removals
<1> QED
  BY <1>1, <1>4, <1>6, <1>7, RowsKeptNext DEF ViewOK

(* One listing message, or one key to list. *)
LEMMA PlainSingle ==
  ASSUME NEW s, PlainStep(s), s.do \notin Checks
  PROVE  PlainCommand(<<s>>)
<1> DEFINE c == <<s>>
<1>1. DOMAIN c = {1} /\ c[1] = s /\ Len(c) = 1 /\ c # <<>>
  OBVIOUS
<1>2. c \in Seq({c[i] : i \in DOMAIN c})
  OBVIOUS
<1> HIDE DEF c
<1>3. Stepwise(c)
  BY <1>1, <1>2 DEF Stepwise
<1> QED
  BY <1>1, <1>3 DEF PlainCommand, c

LEMMA RowsLoad ==
  ASSUME Queued, PlainDisk, NEW cmd \in DOMAIN commands, boxes' = boxes,
         commands' = (commands (-) SetToBag({cmd})) (+) SetToBag({<<Loaded(Listing)>>})
  PROVE  Queued'
<1> DEFINE r == <<Loaded(Listing)>>
           M == commands (-) SetToBag({cmd})
<1>1. PlainStep(Loaded(Listing)) /\ Loaded(Listing).do = "loaded"
  BY ListedRows DEF PlainStep, Loaded
<1>2. PlainCommand(r)
  BY <1>1, PlainSingle DEF Checks
<1>3. r[1].do = "loaded" /\ DOMAIN r = {1}
  BY <1>1
<1>4. Counts(commands)
  BY DEF Queued
<1>5. Counts(M) /\ \A d \in DOMAIN M : d \in DOMAIN commands
  BY <1>4, BagMinus
<1>6. commands' = M (+) SetToBag({r})
  OBVIOUS
<1> HIDE DEF r, M
<1>7. Counts(commands') /\ \A d : d \in DOMAIN commands' <=> d \in DOMAIN M \/ d \in {r}
  BY <1>5, <1>6, BagPlusCounts, BagPlusCopies
<1>8. \A b : ~AsksBy(r, b)
  BY <1>3 DEF AsksBy
<1>9. \A b \in Asking' : b \in Asking
  BY <1>5, <1>7, <1>8, AskingIs, AskingIsNext
<1> QED
  BY <1>2, <1>5, <1>7, <1>9 DEF Queued

LEMMA RowsList ==
  ASSUME RowsKept, NEW cmd \in DOMAIN commands, RunList(cmd), boxes' = boxes
  PROVE  RowsKept'
<1> DEFINE s == cmd[1]
<1>1. Queued /\ PlainDisk /\ RowsOK(items) /\ ViewOK /\ Stepwise(cmd) /\ PlainCommand(cmd)
  BY RowsKeptIs DEF Queued, PlainCommand
<1>2. Head(cmd) = s /\ 1 \in DOMAIN cmd /\ 0 \in Nat /\ 0 + 1 <= Len(cmd)
  BY <1>1, StepwiseSteps
<1>3. PlainStep(s)
  BY <1>1, <1>2 DEF PlainCommand
<1> HIDE DEF s
<1>4. disk' = disk
  BY DEF RunList
<1>5. PlainDisk'
  BY <1>1, <1>4 DEF PlainDisk
<1>6. CASE s.do = "refresh" /\ StartLoading /\ commands' = Continued(cmd, 0) (+) SetToBag({<<Load>>})
  <2>1. PlainStep(Load) /\ Load.do = "load"
    BY DEF PlainStep, Load
  <2>2. PlainCommand(<<Load>>) /\ \A i \in DOMAIN <<Load>> : <<Load>>[i].do # "open"
    BY <2>1, PlainSingle DEF Checks
  <2>3. boxes' \in Seq(ToSet(boxes')) /\ \A b \in ToSet(boxes') : b \in Asking
    BY <1>1, AskingIs DEF Queued
  <2>4. Queued'
    BY <1>1, <1>2, <1>6, <2>2, <2>3, RowsWent
  <2>5. items' = items /\ view' = view
    BY <1>6 DEF StartLoading
  <2> QED
    BY <1>1, <1>5, <2>4, <2>5, RowsKeptNext DEF ViewOK
<1>7. CASE /\ commands' = (commands (-) SetToBag({cmd})) (+) SetToBag({<<Loaded(Listing)>>})
           /\ UNCHANGED <<viewOnly, disk, excused>>
  <2>1. Queued'
    BY <1>1, <1>7, RowsLoad
  <2>2. items' = items /\ view' = view
    BY <1>7 DEF viewOnly
  <2> QED
    BY <1>1, <1>5, <2>1, <2>2, RowsKeptNext DEF ViewOK
<1>8. CASE commands' = Continued(cmd, 0) /\ UNCHANGED <<items, view, cursor, disk>>
  <2>1. Queued'
    BY <1>1, <1>2, <1>8, RowsWentOn
  <2> QED
    BY <1>1, <1>5, <1>8, <2>1, RowsKeptNext DEF ViewOK
<1>9. CASE s.do = "loaded" /\ commands' = Continued(cmd, 0) /\ ShowRows(s.rows)
  <2>1. Queued'
    BY <1>1, <1>2, <1>9, RowsWentOn
  <2>2. items' = s.rows /\ view' = view
    BY <1>9 DEF ShowRows, Display
  <2>3. RowsOK(items')
    BY <1>3, <1>9, <2>2 DEF PlainStep
  <2> QED
    BY <1>1, <1>5, <2>1, <2>2, <2>3, RowsKeptNext DEF ViewOK
<1> QED
  BY <1>2, <1>6, <1>7, <1>8, <1>9 DEF RunList

LEMMA RowsBox ==
  ASSUME RowsKept, NEW cmd \in DOMAIN commands, RunBox(cmd)
  PROVE  RowsKept'
<1> DEFINE s == cmd[1]
<1>1. Queued /\ PlainDisk /\ RowsOK(items) /\ ViewOK /\ Stepwise(cmd) /\ PlainCommand(cmd)
  BY RowsKeptIs DEF Queued, PlainCommand
<1>2. Head(cmd) = s /\ 1 \in DOMAIN cmd /\ 0 \in Nat /\ 0 + 1 <= Len(cmd)
  BY <1>1, StepwiseSteps
<1> HIDE DEF s
<1>3. UNCHANGED <<items, view, disk>>
  BY DEF RunBox, viewOnly
<1>4. boxes \in Seq(ToSet(boxes)) /\ Counts(commands)
  BY <1>1 DEF Queued
<1>5. ASSUME s.do = "open", boxes' = Append(boxes, s.box), commands' = Continued(cmd, 0)
      PROVE  Queued'
  <2>1. AsksBy(cmd, s.box)
    BY <1>2, <1>5 DEF AsksBy, s
  <2>2. boxes' \in Seq(ToSet(boxes')) /\ \A b : b \in ToSet(boxes') <=> b \in ToSet(boxes) \/ b = s.box
    BY <1>4, <1>5, AppendedBoxes
  <2>3. \A b \in ToSet(boxes') : b \in Asking
    BY <2>1, <2>2, AskingIs
  <2>4. commands' = Continued(cmd, 0) (+) SetToBag({})
    BY <1>4, <1>5, ContinuedNone
  <2> QED
    BY <1>1, <1>2, <2>2, <2>3, <2>4, RowsWent
<1>6. ASSUME NEW S \in {{}, {<<Refresh>>}}, commands' = Continued(cmd, 0) (+) SetToBag(S),
             boxes' = Retain(boxes, DOMAIN boxes \ {i \in DOMAIN boxes : boxes[i].id = s.id})
      PROVE  Queued'
  <2> DEFINE I == DOMAIN boxes \ {i \in DOMAIN boxes : boxes[i].id = s.id}
  <2>1. I \in SUBSET DOMAIN boxes
    OBVIOUS
  <2>2. boxes' = Retain(boxes, I)
    BY <1>6
  <2> HIDE DEF I
  <2>3. boxes' \in Seq(ToSet(boxes')) /\ \A b : b \in ToSet(boxes') <=> \E i \in I : b = boxes[i]
    BY <1>4, <2>1, <2>2, RetainedBoxes
  <2>4. \A b \in ToSet(boxes') : b \in Asking
    BY <2>1, <2>3, AskingIs DEF ToSet
  <2>5. PlainStep(Refresh) /\ Refresh.do = "refresh"
    BY DEF PlainStep, Refresh
  <2>6. PlainCommand(<<Refresh>>) /\ \A i \in DOMAIN <<Refresh>> : <<Refresh>>[i].do # "open"
    BY <2>5, PlainSingle DEF Checks
  <2>8. \A t \in S : PlainCommand(t) /\ \A i \in DOMAIN t : t[i].do # "open"
    BY <2>6
  <2> QED
    BY <1>1, <1>2, <1>6, <2>3, <2>4, <2>8, RowsWent
<1>7. Queued'
  <2>1. CASE s.do = "open" /\ boxes' = Append(boxes, s.box) /\ commands' = Continued(cmd, 0)
    BY <1>5, <2>1
  <2>2. CASE /\ boxes' = Retain(boxes, DOMAIN boxes \ {i \in DOMAIN boxes : boxes[i].id = s.id})
             /\ \/ commands' = Continued(cmd, 0) (+) SetToBag({<<Refresh>>})
                \/ commands' = Continued(cmd, 0) (+) SetToBag({})
    BY <1>6, <2>2
  <2> QED
    BY <1>2, <2>1, <2>2 DEF RunBox, EmptyBag
<1>8. PlainDisk' /\ ViewOK' /\ RowsOK(items')
  BY <1>1, <1>3 DEF PlainDisk, ViewOK
<1> QED
  BY <1>7, <1>8, RowsKeptNext

-----------------------------------------------------------------------------
(* The user's keys. *)

LEMMA RowsBrowse ==
  ASSUME RowsKept, Browse
  PROVE  RowsKept'
<1> DEFINE n == Len(Columns)
<1>1. Queued /\ PlainDisk /\ RowsOK(items) /\ ViewOK /\ n \in Nat
  BY RowsKeptIs, ColumnsAreFields
<1>2. UNCHANGED <<items, disk, boxes, commands>>
  BY DEF Browse, TableKey, MoveCursor, CycleSort, ToggleOrder, OpenFilter, TypeFilter, AcceptFilter,
         ClearFilter, Display
<1>3. /\ view = [col |-> view.col, asc |-> view.asc, needle |-> view.needle, typing |-> view.typing]
      /\ view.col \in 0..n /\ view.asc \in BOOLEAN /\ view.needle \in Needles \cup {NoNeedle}
      /\ view.typing \in BOOLEAN
  BY <1>1 DEF ViewOK
<1>4. Columns # <<>> => n # 0
  BY ColumnsAreFields
<1> HIDE DEF n
<1>5. ASSUME NEW v, view' = v, NEW c \in 0..n, NEW a \in BOOLEAN, NEW d \in Needles \cup {NoNeedle},
             NEW t \in BOOLEAN, v = [col |-> c, asc |-> a, needle |-> d, typing |-> t]
      PROVE  ViewOK'
  <2>1. view' \in [col : 0..n, asc : BOOLEAN, needle : Needles \cup {NoNeedle}, typing : BOOLEAN]
    BY <1>5
  <2> QED
    BY <2>1 DEF ViewOK, NoNeedle, n
<1>6. ViewOK'
  <2>1. CASE view' = view
    BY <1>3, <1>5, <2>1
  <2>2. CASE \E t \in BOOLEAN : view' = [view EXCEPT !.typing = t]
    BY <1>3, <1>5, <2>2
  <2>3. CASE CycleSort
    <3>1. CASE view.col = n /\ view' = [view EXCEPT !.col = 0, !.asc = TRUE]
      <4>1. 0 \in 0..n /\ TRUE \in BOOLEAN
        BY <1>1
      <4>2. view' = [col |-> 0, asc |-> TRUE, needle |-> view.needle, typing |-> view.typing]
        BY <1>3, <3>1
      <4> QED
        BY <1>3, <1>5, <4>1, <4>2
    <3>2. CASE view.col # n /\ view' = [view EXCEPT !.col = @ + 1, !.asc = TRUE]
      <4>1. view.col + 1 \in 0..n
        BY <1>1, <1>3, <3>2
      <4> QED
        BY <1>3, <1>5, <3>2, <4>1
    <3> QED
      BY <2>3, <3>1, <3>2 DEF CycleSort, Display, n
  <2>4. CASE ToggleOrder
    <3>1. CASE n # 0 /\ view' = [view EXCEPT !.col = 1, !.asc = FALSE]
      <4>1. 1 \in 0..n
        BY <1>1, <3>1
      <4> QED
        BY <1>3, <1>5, <3>1, <4>1
    <3>2. CASE view' = [view EXCEPT !.asc = ~@]
      BY <1>3, <1>5, <3>2
    <3> QED
      BY <1>4, <2>4, <3>1, <3>2 DEF ToggleOrder, Display
  <2>5. CASE \E d \in Needles : TypeFilter(d)
    <3>1. PICK d \in Needles : view' = [view EXCEPT !.needle = d]
      BY <2>5 DEF TypeFilter, Display
    <3> QED
      BY <1>3, <1>5, <3>1
  <2>6. CASE ClearFilter
    <3>1. view' = [view EXCEPT !.needle = NoNeedle, !.typing = FALSE]
      BY <2>6 DEF ClearFilter, Display
    <3> QED
      BY <1>3, <1>5, <3>1
  <2> QED
    BY <2>1, <2>2, <2>3, <2>4, <2>5, <2>6 DEF Browse, TableKey, MoveCursor, OpenFilter, AcceptFilter
<1>7. PlainDisk' /\ RowsOK(items') /\ Queued'
  <2>1. Asking' = Asking
    BY <1>2 DEF Asking
  <2> QED
    BY <1>1, <1>2, <2>1 DEF PlainDisk, Queued
<1> QED
  BY <1>6, <1>7, RowsKeptNext

(* What is asked is of the row the cursor is on. *)
LEMMA RowsAsk ==
  ASSUME RowsKept, NEW box, AskFor(box), AsksOfRow(box), UNCHANGED <<viewOnly, disk, boxes>>
  PROVE  RowsKept'
<1>1. Queued /\ PlainDisk /\ RowsOK(items) /\ ViewOK
  BY RowsKeptIs
<1>2. UNCHANGED <<items, view, disk, boxes>> /\ commands' = Started({<<OpenBox(box)>>})
  BY DEF viewOnly, AskFor
<1>3. Queued'
  BY <1>1, <1>2, RowsAsked
<1>4. PlainDisk' /\ ViewOK' /\ RowsOK(items')
  BY <1>1, <1>2 DEF PlainDisk, ViewOK
<1> QED
  BY <1>3, <1>4, RowsKeptNext

LEMMA PlainTwo ==
  ASSUME NEW s, NEW t, PlainStep(s), PlainStep(t), s.do \notin Checks, t.do \notin Checks
  PROVE  PlainCommand(<<s, t>>)
<1> DEFINE c == <<s, t>>
<1>1. DOMAIN c = {1, 2} /\ c[1] = s /\ c[2] = t /\ Len(c) = 2 /\ c # <<>>
  OBVIOUS
<1>2. c \in Seq({c[i] : i \in DOMAIN c})
  OBVIOUS
<1> HIDE DEF c
<1>3. Stepwise(c)
  BY <1>1, <1>2 DEF Stepwise
<1> QED
  BY <1>1, <1>3 DEF PlainCommand, c

LEMMA RowsDelete ==
  ASSUME RowsKept, list \in Single, AskDelete
  PROVE  RowsKept'
<1>1. list \notin Eager
  BY DEF Single, Eager
<1>2. PICK row \in ToSet(SelectedRow) :
        /\ AskFor(Box("confirm", row, Selected(row), {<<Delete(Path(Selected(row))), Refresh>>}))
        /\ UNCHANGED <<disk, excused>>
  BY <1>1 DEF AskDelete
<1>3. Selected(row) = row
  BY RowsKeptIs, SelectedIsRow
<1> DEFINE r == <<Delete(Path(row)), Refresh>>
<1>4. PICK box : box = Box("confirm", row, row, {r}) /\ AskFor(box)
  BY <1>2, <1>3
<1>5. /\ PlainStep(Delete(Path(row))) /\ PlainStep(Refresh)
      /\ Delete(Path(row)).do = "remove" /\ Refresh.do = "refresh"
  BY DEF PlainStep, Delete, Refresh
<1>6. PlainCommand(r)
  BY <1>5, PlainTwo DEF Checks
<1>7. \A i \in DOMAIN r : r[i].do # "open"
  BY <1>5
<1> HIDE DEF r
<1>8. box.file = row /\ box.row = row /\ box.kind = "confirm" /\ box.runs = {r}
  BY <1>4 DEF Box
<1>9. AsksOfRow(box)
  BY <1>6, <1>7, <1>8 DEF AsksOfRow
<1> QED
  BY <1>2, <1>4, <1>9, RowsAsk DEF AskDelete

LEMMA RowsRename ==
  ASSUME RowsKept, AskRename
  PROVE  RowsKept'
<1>1. PICK row \in ToSet(SelectedRow) : AskFor(Box("rename", row, Selected(row), {}))
  BY DEF AskRename
<1>2. Selected(row) = row /\ row \in File
  BY RowsKeptIs, SelectedIsRow
<1>3. PICK box : box = Box("rename", row, row, {}) /\ AskFor(box)
  BY <1>1, <1>2
<1>4. box.file = row /\ box.row = row /\ box.kind = "rename" /\ box.runs = {} /\ row.folder = 1
  BY <1>2, <1>3 DEF Box, File
<1>5. AsksOfRow(box)
  BY <1>4 DEF AsksOfRow
<1> QED
  BY <1>3, <1>5, RowsAsk DEF AskRename

LEMMA RowsAdd ==
  ASSUME RowsKept, list \in Single, AskAdd
  PROVE  RowsKept'
<1>1. PICK box :
        /\ AskFor(box)
        /\ \E how \in {"import", "file", "link"} :
             box = [Box("name", NoFile, NoFile, {}) EXCEPT !.how = how]
  BY DEF AskAdd, Single
<1>2. /\ box.file = NoFile /\ box.row = NoFile /\ box.kind = "name" /\ box.runs = {}
      /\ box.how \in {"import", "file", "link"}
  BY <1>1 DEF Box
<1>3. AsksOfRow(box)
  BY <1>2 DEF AsksOfRow
<1> QED
  BY <1>1, <1>3, RowsAsk DEF AskAdd

(* What a dialog submitted starts. *)
LEMMA RowsRun ==
  ASSUME RowsKept, NEW S, NEW atOnce, Run(S, atOnce), UNCHANGED <<viewOnly, disk, boxes>>,
         \A s \in S : PlainCommand(s) /\ \A i \in DOMAIN s : s[i].do # "open"
  PROVE  RowsKept'
<1>1. Queued /\ PlainDisk /\ RowsOK(items) /\ ViewOK
  BY RowsKeptIs
<1>2. UNCHANGED <<items, view, disk, boxes>> /\ commands' = Started(S)
  BY DEF viewOnly, Run
<1>3. Queued'
  BY <1>1, <1>2, RowsStarted
<1>4. PlainDisk' /\ ViewOK' /\ RowsOK(items')
  BY <1>1, <1>2 DEF PlainDisk, ViewOK
<1> QED
  BY <1>3, <1>4, RowsKeptNext

LEMMA TopBoxAsksOfRow ==
  ASSUME RowsKept, boxes # <<>>
  PROVE  AsksOfRow(TopBox)
<1>1. boxes \in Seq(ToSet(boxes))
  BY DEF RowsKept
<1>2. TopBox \in ToSet(boxes)
  BY <1>1 DEF TopBox, Last, ToSet
<1> QED
  BY <1>2 DEF Asking, RowsKept

LEMMA RowsAnswer ==
  ASSUME RowsKept, NEW yes, Answer(yes)
  PROVE  RowsKept'
<1> DEFINE c0 == <<CloseBox(TopBox.id)>>
           S == {c0} \cup (IF yes THEN TopBox.runs ELSE {})
<1>1. Run(S, FALSE) /\ UNCHANGED <<viewOnly, disk, boxes>>
  BY DEF Answer
<1>2. AsksOfRow(TopBox)
  BY TopBoxAsksOfRow DEF Answer
<1>3. PlainStep(CloseBox(TopBox.id)) /\ CloseBox(TopBox.id).do = "close"
  BY DEF PlainStep, CloseBox
<1>4. PlainCommand(c0) /\ \A i \in DOMAIN c0 : c0[i].do # "open"
  BY <1>3, PlainSingle DEF Checks
<1>5. \A s \in S : s = c0 \/ s \in TopBox.runs
  OBVIOUS
<1> HIDE DEF c0, S
<1>6. \A s \in S : PlainCommand(s) /\ \A i \in DOMAIN s : s[i].do # "open"
  BY <1>2, <1>4, <1>5 DEF AsksOfRow
<1> QED
  BY <1>1, <1>6, RowsRun

LEMMA PlainThree ==
  ASSUME NEW s, PlainStep(s), s.do \in {"move", "write"}, NEW id
  PROVE  /\ PlainCommand(<<s, Refresh, CloseBox(id)>>)
         /\ \A i \in DOMAIN <<s, Refresh, CloseBox(id)>> : <<s, Refresh, CloseBox(id)>>[i].do # "open"
<1> DEFINE c == <<s, Refresh, CloseBox(id)>>
<1>1. DOMAIN c = {1, 2, 3} /\ Len(c) = 3 /\ c # <<>> /\ c[1] = s
  OBVIOUS
<1>2. c \in Seq({c[i] : i \in DOMAIN c})
  OBVIOUS
<1>3. c[2].do = "refresh" /\ c[3].do = "close"
  BY DEF CloseBox, Refresh
<1> HIDE DEF c
<1>4. Stepwise(c)
  BY <1>1, <1>2, <1>3 DEF Stepwise, Checks
<1>5. \A i \in DOMAIN c : PlainStep(c[i]) /\ c[i].do # "open"
  BY <1>1, <1>3 DEF PlainStep
<1> QED
  BY <1>4, <1>5 DEF PlainCommand, c

LEMMA PlainFour ==
  ASSUME NEW s, NEW t, NEW u, NEW v, PlainStep(s), PlainStep(t), PlainStep(u), PlainStep(v),
         s.do \in Checks, s.skip \in Nat, s.skip <= 3,
         t.do \in Checks => t.skip \in Nat /\ t.skip <= 2,
         u.do \in Checks => u.skip \in Nat /\ u.skip <= 1,
         v.do \notin Checks, "open" \notin {t.do, u.do, v.do}
  PROVE  /\ PlainCommand(<<s, t, u, v>>)
         /\ \A i \in DOMAIN <<s, t, u, v>> : <<s, t, u, v>>[i].do # "open"
<1> DEFINE c == <<s, t, u, v>>
<1>1. DOMAIN c = {1, 2, 3, 4} /\ Len(c) = 4 /\ c # <<>> /\ c[1] = s /\ c[2] = t /\ c[3] = u /\ c[4] = v
  OBVIOUS
<1>2. c \in Seq({c[i] : i \in DOMAIN c})
  OBVIOUS
<1> HIDE DEF c
<1>3. \A i \in DOMAIN c : c[i].do \in Checks => c[i].skip \in Nat /\ i + c[i].skip <= Len(c)
  BY <1>1
<1>4. Stepwise(c)
  BY <1>1, <1>2, <1>3 DEF Stepwise
<1>5. \A i \in DOMAIN c : PlainStep(c[i]) /\ c[i].do # "open"
  BY <1>1 DEF Checks
<1> QED
  BY <1>4, <1>5 DEF PlainCommand, c

LEMMA PlainFive ==
  ASSUME NEW s, NEW t, NEW u, NEW v, NEW w,
         PlainStep(s), PlainStep(t), PlainStep(u), PlainStep(v), PlainStep(w),
         s.do \in Checks, s.skip \in Nat, s.skip <= 4,
         t.do \in Checks => t.skip \in Nat /\ t.skip <= 3,
         u.do \in Checks => u.skip \in Nat /\ u.skip <= 2,
         v.do \notin Checks, w.do \notin Checks, "open" \notin {t.do, u.do, v.do, w.do}
  PROVE  /\ PlainCommand(<<s, t, u, v, w>>)
         /\ \A i \in DOMAIN <<s, t, u, v, w>> : <<s, t, u, v, w>>[i].do # "open"
<1> DEFINE c == <<s, t, u, v, w>>
<1>1. /\ DOMAIN c = {1, 2, 3, 4, 5} /\ Len(c) = 5 /\ c # <<>>
      /\ c[1] = s /\ c[2] = t /\ c[3] = u /\ c[4] = v /\ c[5] = w
  OBVIOUS
<1>2. c \in Seq({c[i] : i \in DOMAIN c})
  OBVIOUS
<1> HIDE DEF c
<1>3. \A i \in DOMAIN c : c[i].do \in Checks => c[i].skip \in Nat /\ i + c[i].skip <= Len(c)
  BY <1>1
<1>4. Stepwise(c)
  BY <1>1, <1>2, <1>3 DEF Stepwise
<1>5. \A i \in DOMAIN c : PlainStep(c[i]) /\ c[i].do # "open"
  BY <1>1 DEF Checks
<1> QED
  BY <1>4, <1>5 DEF PlainCommand, c

LEMMA JoinedFive ==
  ASSUME NEW s, NEW t, NEW u, NEW v, NEW w
  PROVE  <<s, t, u>> \o <<v, w>> = <<s, t, u, v, w>>
<1> DEFINE T == {s, t, u, v, w}
           a == <<s, t, u>>
           b == <<v, w>>
           x == a \o b
           y == <<s, t, u, v, w>>
<1>1. /\ a \in Seq(T) /\ Len(a) = 3 /\ a[1] = s /\ a[2] = t /\ a[3] = u
      /\ b \in Seq(T) /\ Len(b) = 2 /\ b[1] = v /\ b[2] = w
  OBVIOUS
<1>2. y \in Seq(T) /\ Len(y) = 5 /\ y[1] = s /\ y[2] = t /\ y[3] = u /\ y[4] = v /\ y[5] = w
  OBVIOUS
<1> HIDE DEF T, a, b
<1>3. /\ x \in Seq(T) /\ Len(x) = 5
      /\ x[1] = a[1] /\ x[2] = a[2] /\ x[3] = a[3] /\ x[4] = b[1] /\ x[5] = b[2]
  <2>1. /\ x \in Seq(T) /\ Len(x) = Len(a) + Len(b)
        /\ \A i \in 1..Len(a) + Len(b) : x[i] = IF i <= Len(a) THEN a[i] ELSE b[i - Len(a)]
    BY <1>1, ConcatProperties
  <2> HIDE DEF x
  <2>2. \A i \in 1..5 : x[i] = IF i <= 3 THEN a[i] ELSE b[i - 3]
    BY <1>1, <2>1
  <2> QED
    BY <1>1, <2>1, <2>2
<1> HIDE DEF x, y
<1>4. \A i \in 1..Len(x) : x[i] = y[i]
  BY <1>1, <1>2, <1>3
<1>5. x = y
  BY <1>2, <1>3, <1>4, SeqEqual
<1> QED
  BY <1>5 DEF x, y, a, b

LEMMA RowsSubmitRename ==
  ASSUME RowsKept, list \in Single, NEW name \in FileNames, SubmitRename(name)
  PROVE  RowsKept'
<1> DEFINE id == TopBox.id
           f == TopBox.file
           q == [folder |-> f.folder, name |-> name]
           c == RenameSteps(f, name) \o <<Refresh, CloseBox(id)>>
<1>1. list \notin Eager
  BY DEF Single, Eager
<1>2. Run({c}, FALSE) /\ UNCHANGED <<viewOnly, disk, boxes>>
  BY <1>1 DEF SubmitRename
<1>3. AsksOfRow(TopBox) /\ TopBox.kind = "rename"
  BY TopBoxAsksOfRow DEF SubmitRename
<1>4. q \in Place
  <2>1. f.folder = 1
    BY <1>3 DEF AsksOfRow
  <2> QED
    BY <2>1 DEF Place
<1> DEFINE m == Move(Path(f), q)
<1>5. PlainStep(m) /\ m.do = "move"
  BY <1>4 DEF PlainStep, Move
<1>6. PlainCommand(c) /\ \A i \in DOMAIN c : c[i].do # "open"
  <2>1. CASE list = "outbounds"
    <3> DEFINE s == NeedFile(Path(f), 2)
               t == NeedFree(q, 1)
    <3>1. RenameSteps(f, name) = <<s, t, m>>
      BY <2>1 DEF RenameSteps
    <3>2. /\ PlainStep(s) /\ s.do \in Checks /\ s.skip = 2
          /\ PlainStep(t) /\ t.do = "free" /\ t.skip = 1
          /\ PlainStep(Refresh) /\ Refresh.do = "refresh"
          /\ PlainStep(CloseBox(id)) /\ CloseBox(id).do = "close"
      BY DEF PlainStep, NeedFile, NeedFree, Refresh, CloseBox, Checks
    <3>3. c = <<s, t, m>> \o <<Refresh, CloseBox(id)>>
      BY <3>1
    <3> HIDE DEF s, t, m, c, id
    <3>4. c = <<s, t, m, Refresh, CloseBox(id)>>
      BY <3>3, JoinedFive
    <3>5. /\ PlainCommand(<<s, t, m, Refresh, CloseBox(id)>>)
          /\ \A i \in DOMAIN <<s, t, m, Refresh, CloseBox(id)>> :
               <<s, t, m, Refresh, CloseBox(id)>>[i].do # "open"
      BY <1>5, <3>2, PlainFive DEF Checks
    <3> QED
      BY <3>4, <3>5
  <2>2. CASE list # "outbounds"
    <3>1. c = <<m>> \o <<Refresh, CloseBox(id)>>
      BY <2>2 DEF RenameSteps
    <3> HIDE DEF m, c, id
    <3>2. c = <<m, Refresh, CloseBox(id)>>
      BY <3>1, JoinedSteps
    <3>3. /\ PlainCommand(<<m, Refresh, CloseBox(id)>>)
          /\ \A i \in DOMAIN <<m, Refresh, CloseBox(id)>> : <<m, Refresh, CloseBox(id)>>[i].do # "open"
      BY <1>5, PlainThree
    <3> QED
      BY <3>2, <3>3
  <2> QED
    BY <2>1, <2>2
<1> DEFINE S == {c}
<1>7. Run(S, FALSE)
  BY <1>2
<1> HIDE DEF c
<1>8. \A s \in S : PlainCommand(s) /\ \A i \in DOMAIN s : s[i].do # "open"
  BY <1>6
<1> HIDE DEF S, id, f, q, m
<1> QED
  BY <1>2, <1>7, <1>8, RowsRun

LEMMA RowsSubmitName ==
  ASSUME RowsKept, NEW name \in FileNames, SubmitName(name)
  PROVE  RowsKept'
<1> DEFINE p == [folder |-> 1, name |-> name]
           id == TopBox.id
           S == SaveCommands(TopBox.how, name, id)
<1>1. Run(S, FALSE) /\ UNCHANGED <<viewOnly, disk, boxes>>
  BY DEF SubmitName
<1>2. p \in Place
  BY DEF Place
<1>3. TopBox.how \in {"import", "file", "link"}
  BY TopBoxAsksOfRow DEF SubmitName, AsksOfRow
<1> DEFINE w == Write(p)
           one == <<w, Refresh, CloseBox(id)>>
           two == <<NeedFree(p, 2), w, Verify(p, 0), CloseBox(id)>>
           three == <<NeedFree(p, 3), w, Verify(p, 1), Refresh, CloseBox(id)>>
<1>4. S \in {{one}, {two, <<Refresh>>}, {three, <<Refresh>>}}
  BY <1>3 DEF SaveCommands
<1>5. PlainStep(w) /\ w.do = "write"
  BY <1>2 DEF PlainStep, Write
<1>6. /\ \A k \in Nat : /\ PlainStep(NeedFree(p, k)) /\ NeedFree(p, k).do = "free"
                       /\ NeedFree(p, k).skip = k
                       /\ PlainStep(Verify(p, k)) /\ Verify(p, k).do = "verify"
                       /\ Verify(p, k).skip = k
      /\ PlainStep(Refresh) /\ Refresh.do = "refresh"
      /\ PlainStep(CloseBox(id)) /\ CloseBox(id).do = "close"
  BY DEF PlainStep, NeedFree, Verify, Refresh, CloseBox
<1> HIDE DEF p, id, w, S
<1>7. PlainCommand(one) /\ \A i \in DOMAIN one : one[i].do # "open"
  BY <1>5, PlainThree
<1>8. PlainCommand(two) /\ \A i \in DOMAIN two : two[i].do # "open"
  <2>1. 2 \in Nat /\ 0 \in Nat /\ 2 <= 3 /\ 0 <= 1
    OBVIOUS
  <2> DEFINE s == NeedFree(p, 2)
             v == Verify(p, 0)
             x == CloseBox(id)
  <2>2. /\ PlainStep(s) /\ s.do \in Checks /\ s.skip \in Nat /\ s.skip <= 3
        /\ PlainStep(v) /\ v.do = "verify" /\ v.skip \in Nat /\ v.skip <= 1
        /\ PlainStep(x) /\ x.do = "close" /\ w.do \notin Checks
    BY <1>5, <1>6 DEF Checks
  <2>3. two = <<s, w, v, x>>
    OBVIOUS
  <2> HIDE DEF s, v, x, two
  <2>4. x.do \notin Checks /\ "open" \notin {w.do, v.do, x.do}
    BY <1>5, <2>2 DEF Checks
  <2>5. PlainCommand(<<s, w, v, x>>) /\ \A i \in DOMAIN <<s, w, v, x>> : <<s, w, v, x>>[i].do # "open"
    BY <1>5, <2>2, <2>4, PlainFour
  <2> QED
    BY <2>3, <2>5
<1>9. PlainCommand(three) /\ \A i \in DOMAIN three : three[i].do # "open"
  <2> DEFINE s == NeedFree(p, 3)
             v == Verify(p, 1)
             x == CloseBox(id)
  <2>2. /\ PlainStep(s) /\ s.do \in Checks /\ s.skip \in Nat /\ s.skip <= 4
        /\ PlainStep(v) /\ v.do = "verify" /\ v.skip \in Nat /\ v.skip <= 2
        /\ PlainStep(x) /\ x.do = "close" /\ w.do \notin Checks
    BY <1>5, <1>6 DEF Checks
  <2>3. three = <<s, w, v, Refresh, x>> /\ PlainStep(Refresh) /\ Refresh.do = "refresh"
    BY <1>6
  <2> HIDE DEF s, v, x, three
  <2>4. /\ x.do \notin Checks /\ Refresh.do \notin Checks
        /\ "open" \notin {w.do, v.do, Refresh.do, x.do}
    BY <1>5, <2>2, <2>3 DEF Checks
  <2>5. /\ PlainCommand(<<s, w, v, Refresh, x>>)
        /\ \A i \in DOMAIN <<s, w, v, Refresh, x>> : <<s, w, v, Refresh, x>>[i].do # "open"
    BY <1>5, <2>2, <2>3, <2>4, PlainFive
  <2> QED
    BY <2>3, <2>5
<1>10. PlainCommand(<<Refresh>>) /\ \A i \in DOMAIN <<Refresh>> : <<Refresh>>[i].do # "open"
  BY <1>6, PlainSingle DEF Checks
<1> HIDE DEF one, two, three
<1>11. \A s \in S : PlainCommand(s) /\ \A i \in DOMAIN s : s[i].do # "open"
  BY <1>4, <1>7, <1>8, <1>9, <1>10
<1> QED
  BY <1>1, <1>11, RowsRun

LEMMA RowsLeave ==
  ASSUME RowsKept, LeaveBox
  PROVE  RowsKept'
<1> DEFINE n == Len(boxes)
<1>1. /\ boxes \in Seq(ToSet(boxes)) /\ boxes # <<>> /\ boxes' = Front(boxes)
      /\ UNCHANGED <<items, view, disk, commands>>
  BY DEF RowsKept, LeaveBox, viewOnly
<1>2. n \in Nat /\ n >= 1 /\ DOMAIN boxes = 1..n
  BY <1>1
<1>3. DOMAIN boxes' = 1..n - 1 /\ \A i \in 1..n - 1 : boxes'[i] = boxes[i]
  BY <1>1, <1>2 DEF Front
<1> HIDE DEF n
<1>4. \A b \in ToSet(boxes') : b \in ToSet(boxes)
  BY <1>2, <1>3 DEF ToSet
<1>5. boxes' \in Seq(ToSet(boxes'))
  <2>1. boxes' \in Seq(ToSet(boxes))
    BY <1>1 DEF Front
  <2>2. boxes' \in [1..Len(boxes') -> ToSet(boxes')] /\ Len(boxes') \in Nat
    BY <2>1 DEF ToSet
  <2> QED
    BY <2>2
<1>6. \A b \in Asking' : b \in Asking
  BY <1>1, <1>4 DEF Asking
<1>7. Queued'
  BY <1>1, <1>5, <1>6 DEF Queued, RowsKept
<1>8. PlainDisk' /\ ViewOK' /\ RowsOK(items')
  BY <1>1 DEF PlainDisk, ViewOK, RowsKept
<1> QED
  BY <1>7, <1>8, RowsKeptNext

LEMMA RowsStep ==
  ASSUME RowsInv, [FilesNext]_fileVars
  PROVE  RowsInv'
<1>1. SUFFICES ASSUME list' \in Single PROVE RowsKept'
  BY DEF RowsInv
<1>2. list' = list
  BY DEF FilesNext, Browse, AskDelete, AskRename, SelectTunnel, AskAdd, Answer, SubmitRename,
         SubmitName, SaveForm, DiscardForm, LeaveBox, RunCommand, RunDisk, RunBox, fileVars
<1>3. RowsKept /\ list \in Single
  BY <1>1, <1>2 DEF RowsInv
<1>4. CASE Browse \/ AskDelete \/ AskRename \/ AskAdd \/ LeaveBox
  BY <1>3, <1>4, RowsBrowse, RowsDelete, RowsRename, RowsAdd, RowsLeave
<1>5. CASE SelectTunnel
  BY <1>3, <1>5 DEF SelectTunnel, Single
<1>6. CASE DiscardForm \/ \E n \in FileNames : SaveForm(n)
  <2>1. boxes # <<>> /\ TopBox.kind = "form"
    BY <1>6 DEF DiscardForm, SaveForm
  <2> QED
    BY <1>3, <2>1, TopBoxAsksOfRow DEF AsksOfRow
<1>7. CASE \E yes \in BOOLEAN : Answer(yes)
  BY <1>3, <1>7, RowsAnswer
<1>8. CASE \E n \in FileNames : SubmitRename(n) \/ SubmitName(n)
  BY <1>3, <1>8, RowsSubmitRename, RowsSubmitName
<1>9. CASE RunCommand
  <2>1. PICK cmd \in BagToSet(commands) :
          \/ RunDisk(cmd)
          \/ RunList(cmd) /\ UNCHANGED <<list, boxes, opened>>
          \/ RunBox(cmd) /\ UNCHANGED list
    BY <1>9 DEF RunCommand
  <2>2. cmd \in DOMAIN commands
    BY DEF BagToSet
  <2> QED
    BY <1>3, <2>1, <2>2, RowsDisk, RowsList, RowsBox
<1>10. CASE UNCHANGED fileVars
  <2>1. UNCHANGED <<items, view, disk, boxes, commands>>
    BY <1>10 DEF fileVars, viewOnly
  <2>2. Asking' = Asking
    BY <2>1 DEF Asking
  <2> QED
    BY <1>3, <2>1, <2>2 DEF RowsKept, PlainDisk, ViewOK
<1> QED
  BY <1>4, <1>5, <1>6, <1>7, <1>8, <1>9, <1>10 DEF FilesNext

LEMMA ListedOnce ==
  ASSUME NEW S, IsFiniteSet(S)
  PROVE  /\ SetToSeq(S) \in [1..Cardinality(S) -> S] /\ Cardinality(S) \in Nat
         /\ \A i, j \in 1..Cardinality(S) : SetToSeq(S)[i] = SetToSeq(S)[j] => i = j
<1> DEFINE n == Cardinality(S)
           F == [1..n -> S]
<1>1. PICK m \in Nat : ExistsBijection(1..m, S)
  BY FS_NatBijection
<1>2. n = m
  BY <1>1, FS_CountingElements
<1>3. PICK f \in Bijection(1..n, S) : TRUE
  BY <1>1, <1>2 DEF ExistsBijection
<1>4. f \in F /\ IsInjective(f)
  BY <1>3 DEF Bijection, Injection
<1>5. SetToSeq(S) = CHOOSE g \in F : IsInjective(g)
  BY DEF SetToSeq
<1> HIDE DEF F, n
<1>6. SetToSeq(S) \in F /\ IsInjective(SetToSeq(S))
  BY <1>4, <1>5
<1> QED
  BY <1>1, <1>2, <1>6 DEF F, n, IsInjective

LEMMA RowsStart ==
  ASSUME FilesInit
  PROVE  RowsInv
<1>1. SUFFICES ASSUME list \in Single PROVE RowsKept
  BY DEF RowsInv
<1> DEFINE c0 == <<Load>>
<1>2. /\ commands = SetToBag({c0}) /\ boxes = <<>> /\ items = <<>>
      /\ view = [col |-> 0, asc |-> TRUE, needle |-> NoNeedle, typing |-> FALSE]
  BY DEF FilesInit, ListViewInit
<1>3. PlainCommand(c0) /\ \A i \in DOMAIN c0 : c0[i].do # "open"
  <2>1. PlainStep(Load) /\ Load.do = "load"
    BY DEF PlainStep, Load
  <2> QED
    BY <2>1, PlainSingle DEF Checks
<1> HIDE DEF c0
<1>4. commands = [e \in {c0} |-> 1]
  BY <1>2 DEF SetToBag
<1>5. Counts(commands) /\ DOMAIN commands = {c0}
  BY <1>4 DEF Counts
<1>6. Asking = {}
  BY <1>2, <1>3, <1>5 DEF Asking, BagToSet, ToSet
<1>7. Queued
  <2>1. boxes \in Seq(ToSet(boxes))
    BY <1>2
  <2> QED
    BY <1>3, <1>5, <1>6, <2>1 DEF Queued
<1>8. ViewOK
  <2>1. 0 \in 0..Len(Columns)
    BY ColumnsAreFields
  <2> QED
    BY <1>2, <2>1 DEF ViewOK
<1>9. RowsOK(items)
  BY <1>2 DEF RowsOK
<1>10. PlainDisk
  <2>1. PICK S \in Disks :
          /\ \A p \in S : p.folder \in FoldersOf(list)
          /\ disk = {[folder |-> SetToSeq(S)[i].folder, name |-> SetToSeq(S)[i].name, age |-> i] :
                       i \in DOMAIN SetToSeq(S)}
    BY DEF FilesInit
  <2>2. IsFiniteSet(S) /\ S \subseteq Place
    <3>1. IsFiniteSet(S) /\ S \subseteq [folder : Folders \cup {1}, name : FileNames]
      BY DisksArePaths
    <3>2. \A p \in S : p.folder \in {1}
      BY <1>1, <2>1 DEF FoldersOf, Single
    <3> QED
      BY <3>1, <3>2 DEF Place
  <2> DEFINE n == Cardinality(S)
             s == SetToSeq(S)
             e == [i \in 1..n |-> [folder |-> s[i].folder, name |-> s[i].name, age |-> i]]
  <2>3. s \in [1..n -> S] /\ n \in Nat /\ \A i, j \in 1..n : s[i] = s[j] => i = j
    BY <2>2, ListedOnce
  <2>4. disk = {e[i] : i \in 1..n}
    BY <2>1, <2>3
  <2>5. IsFiniteSet(1..n)
    BY <2>3, FS_Interval
  <2> HIDE DEF n, s
  <2>6. IsFiniteSet(disk)
    <3>1. e \in Surjection(1..n, disk)
      BY <2>4 DEF Surjection
    <3> QED
      BY <2>5, <3>1, FS_Surjection
  <2>7. \A i \in 1..n : s[i] \in Place /\ e[i] \in File /\ e[i].name = s[i].name /\ e[i].age = i
    BY <2>2, <2>3 DEF Place, File
  <2>8. \A p, q \in Place : p.name = q.name => p = q
    BY DEF Place
  <2> HIDE DEF e
  <2>9. \A i, j \in 1..n : e[i].name = e[j].name => i = j
    BY <2>3, <2>7, <2>8
  <2> QED
    BY <2>4, <2>6, <2>7, <2>9 DEF PlainDisk
<1> QED
  BY <1>7, <1>8, <1>9, <1>10, RowsKeptIs

(* In the lists with one folder the files, the rows and the rows on their   *)
(* way have different names, and every dialog asks about a row as it was,   *)
(* whatever is filtered, ordered, renamed or deleted meanwhile.             *)
THEOREM RowsInvariant == FilesSpec => []RowsInv
<1>1. FilesInit => RowsInv
  BY RowsStart
<1>2. RowsInv /\ [FilesNext]_fileVars => RowsInv'
  BY RowsStep
<1> QED
  BY <1>1, <1>2, PTL DEF FilesSpec

LEMMA RowsInvShows == RowsInv => ActsOnRow
BY DEF RowsInv, RowsKept, AsksOfRow, ActsOnRow, Single

(* A dialog of these lists asks about the file of the row the cursor was on *)
(* (crud/update.go getSelected), for any files, orders and filters.         *)
THEOREM FilesActOnRow == FilesSpec => []ActsOnRow
BY RowsInvariant, RowsInvShows, PTL

-----------------------------------------------------------------------------

(***************************************************************************)
(* The lists that refuse names in use: what is written or moved into a     *)
(* place was looked for there in the step before, by the only command at   *)
(* the disk.                                                               *)
(***************************************************************************)

Puts == {"write", "move"}

PutsAt(s) == IF s.do = "move" THEN s.to ELSE s.path

(* A step that puts a file somewhere follows the look at that place, and is  *)
(* not what is left when a look ends otherwise.                             *)
LooksFirst(c) ==
  /\ Stepwise(c)
  /\ \A i \in DOMAIN c : c[i].do \in Puts =>
       \/ i = 1
       \/ i - 1 \in DOMAIN c /\ c[i - 1].do = "free" /\ c[i - 1].path = PutsAt(c[i])
  /\ \A i, j \in DOMAIN c : c[i].do \in Checks /\ j = i + c[i].skip + 1 => c[j].do \notin Puts

TouchesDisk(c) == \E i \in DOMAIN c : c[i].do \in DiskSteps

OneAtDisk(B) ==
  \A c \in DOMAIN B : TouchesDisk(c) => B[c] = 1 /\ \A d \in DOMAIN B : TouchesDisk(d) => d = c

MayStart(c) ==
  /\ LooksFirst(c) /\ c[1].do \notin Puts
  /\ \A i \in DOMAIN c : c[i].do # "open"

MayAsk(b) ==
  /\ \A r \in b.runs : MayStart(r)
  /\ \A r, q \in b.runs : r = q
  /\ b.kind = "name" => b.how \in {"file", "link"}

NamesQueued ==
  /\ Counts(commands) /\ boxes \in Seq(ToSet(boxes))
  /\ \A c \in DOMAIN commands : LooksFirst(c)
  /\ \A b \in Asking : MayAsk(b)
  /\ OneAtDisk(commands)

PlacesFree == \A c \in DOMAIN commands : c[1].do \in Puts => At(PutsAt(c[1])) = {}

WholeFiles(S) == \A f \in S : f \in [folder : {f.folder}, name : {f.name}, age : {f.age}]

NamesOK == NamesQueued /\ PlacesFree /\ WholeFiles(disk)

NamesInv == (list \in Refusing /\ ~excused) => NamesOK

LEMMA RestLooks ==
  ASSUME NEW c, LooksFirst(c), NEW k \in Nat, k + 1 <= Len(c), Rest(c, k) # <<>>
  PROVE  /\ LooksFirst(Rest(c, k)) /\ Rest(c, k) # c
         /\ TouchesDisk(Rest(c, k)) => TouchesDisk(c)
         /\ (k = 0 \/ (c[1].do \in Checks /\ k = c[1].skip)) /\ Rest(c, k)[1].do \in Puts =>
              k = 0 /\ c[1].do = "free" /\ c[1].path = PutsAt(Rest(c, k)[1])
<1> DEFINE l == Rest(c, k)
<1>1. /\ Stepwise(c) /\ l # c /\ Stepwise(l)
      /\ \A i \in DOMAIN l : i + k + 1 \in DOMAIN c /\ l[i] = c[i + k + 1]
  BY RestStepwise DEF LooksFirst
<1>2. Len(l) \in Nat /\ DOMAIN l = 1..Len(l) /\ 1 \in DOMAIN l /\ 1 \in DOMAIN c
  BY <1>1, StepwiseSteps
<1> HIDE DEF l
<1>9. \A i \in DOMAIN l : l[i].do \in Checks => l[i].skip \in Nat
  BY <1>1 DEF Stepwise
<1>3. ASSUME NEW i \in DOMAIN l, l[i].do \in Puts, i # 1
      PROVE  i - 1 \in DOMAIN l /\ l[i - 1].do = "free" /\ l[i - 1].path = PutsAt(l[i])
  <2> DEFINE j == i + k + 1
             h == i - 1
  <2>1. i \in Nat /\ h \in DOMAIN l /\ h + k + 1 = j - 1 /\ j # 1
    BY <1>2, <1>3
  <2>2. j \in DOMAIN c /\ l[i] = c[j] /\ l[h] = c[j - 1]
    BY <1>1, <2>1
  <2>3. c[j - 1].do = "free" /\ c[j - 1].path = PutsAt(c[j])
    <3> HIDE DEF j
    <3> QED
      BY <1>3, <2>1, <2>2 DEF LooksFirst
  <2> QED
    BY <2>1, <2>2, <2>3
<1>4. ASSUME NEW i \in DOMAIN l, NEW j \in DOMAIN l, l[i].do \in Checks, j = i + l[i].skip + 1
      PROVE  l[j].do \notin Puts
  <2> DEFINE a == i + k + 1
             b == j + k + 1
             s == l[i].skip
  <2>1. a \in DOMAIN c /\ l[i] = c[a] /\ b \in DOMAIN c /\ l[j] = c[b]
    BY <1>1
  <2>2. s \in Nat /\ i \in Nat
    BY <1>2, <1>4, <1>9
  <2> HIDE DEF s
  <2>3. b = a + s + 1
    BY <1>4, <2>2 DEF s
  <2> HIDE DEF a, b
  <2>4. s = c[a].skip
    BY <2>1 DEF s
  <2> QED
    BY <1>4, <2>1, <2>3, <2>4 DEF LooksFirst
<1>5. LooksFirst(l)
  BY <1>1, <1>3, <1>4 DEF LooksFirst
<1>6. TouchesDisk(l) => TouchesDisk(c)
  BY <1>1 DEF TouchesDisk
<1>7. ASSUME k = 0 \/ (c[1].do \in Checks /\ k = c[1].skip), l[1].do \in Puts
      PROVE  k = 0 /\ c[1].do = "free" /\ c[1].path = PutsAt(l[1])
  <2> DEFINE j == k + 2
  <2>1. j \in DOMAIN c /\ l[1] = c[j] /\ j # 1 /\ j = 1 + k + 1
    BY <1>1, <1>2
  <2>2. c[j - 1].do = "free" /\ c[j - 1].path = PutsAt(c[j])
    <3> HIDE DEF j
    <3> QED
      BY <1>7, <2>1 DEF LooksFirst
  <2>3. k = 0
    <3>1. ~(c[1].do \in Checks /\ k = c[1].skip)
      <4> HIDE DEF j
      <4> QED
        BY <1>2, <1>7, <2>1 DEF LooksFirst
    <3> QED
      BY <1>7, <3>1
  <2>4. j - 1 = 1
    BY <2>3
  <2> QED
    BY <2>1, <2>2, <2>3, <2>4
<1> QED
  BY <1>1, <1>5, <1>6, <1>7 DEF l

(* A command that goes on leaves at most one at the disk. *)
LEMMA OneStillAtDisk ==
  ASSUME NEW B, NEW C, NEW cmd \in DOMAIN B, NEW rest, NEW S,
         Ran(cmd, rest, S, B, C), OneAtDisk(B), rest # cmd,
         rest # <<>> /\ TouchesDisk(rest) => TouchesDisk(cmd),
         \A s \in S : ~TouchesDisk(s)
  PROVE  /\ OneAtDisk(C)
         /\ TouchesDisk(cmd) => \A c \in DOMAIN C : TouchesDisk(c) => c = rest
<1>1. /\ DOMAIN C \subseteq DOMAIN B \cup S \cup ({rest} \ {<<>>})
      /\ B[cmd] = 1 /\ cmd \notin S \cup {rest} => cmd \notin DOMAIN C
      /\ \A d \in DOMAIN B : d \notin S /\ d # cmd /\ d # rest => C[d] = B[d]
      /\ \A d \in DOMAIN C : d \notin DOMAIN B /\ (d \notin S \/ d # rest) => C[d] = 1
  BY DEF Ran
<1>2. \A a \in DOMAIN B : TouchesDisk(a) =>
        B[a] = 1 /\ \A d \in DOMAIN B : TouchesDisk(d) => d = a
  BY DEF OneAtDisk
<1>3. CASE TouchesDisk(cmd)
  <2>1. cmd \notin DOMAIN C
    BY <1>1, <1>2, <1>3
  <2>2. \A c \in DOMAIN C : TouchesDisk(c) => c = rest
    BY <1>1, <1>2, <1>3, <2>1
  <2>3. rest \in DOMAIN C /\ TouchesDisk(rest) => C[rest] = 1
    BY <1>1, <1>2, <1>3
  <2> QED
    BY <2>2, <2>3 DEF OneAtDisk
<1>4. CASE ~TouchesDisk(cmd)
  <2>1. \A c \in DOMAIN C : TouchesDisk(c) => c \in DOMAIN B /\ c # cmd /\ c \notin S /\ c # rest
    <3>1. \A c \in DOMAIN C : TouchesDisk(c) => c \in DOMAIN B /\ c # cmd /\ c \notin S
      BY <1>1, <1>4
    <3>2. ASSUME NEW c \in DOMAIN C, TouchesDisk(c), c = rest PROVE FALSE
      <4>1. rest = <<>>
        BY <1>4, <3>2
      <4> QED
        BY <3>2, <4>1 DEF TouchesDisk
    <3> QED
      BY <3>1, <3>2
  <2>2. \A c \in DOMAIN C : TouchesDisk(c) => C[c] = B[c]
    BY <1>1, <2>1
  <2> QED
    BY <1>2, <1>4, <2>1, <2>2 DEF OneAtDisk
<1> QED
  BY <1>3, <1>4

(* A command of the lists that refuse names took a step. *)
LEMMA NamesWent ==
  ASSUME NamesQueued, NEW cmd \in DOMAIN commands, NEW k \in Nat, k + 1 <= Len(cmd), NEW S,
         \A s \in S : LooksFirst(s) /\ ~TouchesDisk(s) /\ \A i \in DOMAIN s : s[i].do # "open",
         commands' = Continued(cmd, k) (+) SetToBag(S),
         boxes' \in Seq(ToSet(boxes')), \A b \in ToSet(boxes') : b \in Asking
  PROVE  /\ NamesQueued' /\ Foreseen(cmd, k, S)
         /\ TouchesDisk(cmd) => \A c \in DOMAIN commands' : TouchesDisk(c) => c = Rest(cmd, k) /\ c # <<>>
<1> DEFINE l == Rest(cmd, k)
<1>1. Counts(commands) /\ LooksFirst(cmd) /\ Stepwise(cmd) /\ OneAtDisk(commands)
  BY DEF NamesQueued, LooksFirst
<1>2. Ran(cmd, l, S, commands, commands') /\ Foreseen(cmd, k, S)
  BY <1>1, StepwiseRan
<1>3. l # cmd
  BY <1>1, RestStepwise
<1>4. l # <<>> => LooksFirst(l) /\ (TouchesDisk(l) => TouchesDisk(cmd))
  BY <1>1, RestLooks
<1>5. Asking' \subseteq Asking
  BY <1>1, <1>2, StepwiseAsks
<1> HIDE DEF l
<1>6. /\ OneAtDisk(commands')
      /\ TouchesDisk(cmd) => \A c \in DOMAIN commands' : TouchesDisk(c) => c = l
  BY <1>1, <1>2, <1>3, <1>4, OneStillAtDisk
<1>7. \A c \in DOMAIN commands' : LooksFirst(c)
  BY <1>2, <1>4 DEF Foreseen, NamesQueued, l
<1>8. Counts(commands')
  BY <1>2 DEF Ran
<1>9. NamesQueued'
  BY <1>5, <1>6, <1>7, <1>8 DEF NamesQueued
<1>10. \A c : TouchesDisk(c) => c # <<>>
  BY DEF TouchesDisk
<1> QED
  BY <1>2, <1>6, <1>9, <1>10 DEF l

LEMMA PutsTouch ==
  ASSUME NEW c, LooksFirst(c), c[1].do \in DiskSteps
  PROVE  TouchesDisk(c) /\ 1 \in DOMAIN c
<1>1. 1 \in DOMAIN c
  BY StepwiseSteps DEF LooksFirst
<1> QED
  BY <1>1 DEF TouchesDisk

(* A file that is moved keeps its age, and none is where it goes. *)
LEMMA MovedKeeps ==
  ASSUME WholeFiles(disk), NEW p, NEW q, NEW D, D = Moved(disk, p, q)
  PROVE  WholeFiles(D) /\ (At(q) = {} => Ages(disk) \subseteq Ages(D))
<1> DEFINE e(f) == [f EXCEPT !.folder = q.folder, !.name = q.name]
<1>1. \A f \in disk : /\ e(f) \in [folder : {e(f).folder}, name : {e(f).name}, age : {e(f).age}]
                      /\ e(f).age = f.age
  <2> SUFFICES ASSUME NEW f \in disk
               PROVE  /\ e(f) \in [folder : {e(f).folder}, name : {e(f).name}, age : {e(f).age}]
                      /\ e(f).age = f.age
    OBVIOUS
  <2>1. f \in [folder : {f.folder}, name : {f.name}, age : {f.age}]
    BY DEF WholeFiles
  <2> QED
    BY <2>1
<1>2. D = {f \in disk : Path(f) \notin {p, q}} \cup {e(f) : f \in {g \in disk : Path(g) = p}}
  BY DEF Moved
<1> HIDE DEF e
<1>3. WholeFiles(D)
  <2>1. \A f \in D : f \in disk \/ \E g \in disk : f = e(g)
    BY <1>2
  <2> QED
    BY <1>1, <2>1 DEF WholeFiles
<1>4. ASSUME At(q) = {}, NEW f \in disk
      PROVE  f.age \in Ages(D)
  <2>1. Path(f) # q
    BY <1>4 DEF At
  <2>2. CASE Path(f) # p
    <3>1. f \in D
      BY <1>2, <2>1, <2>2
    <3> QED
      BY <3>1 DEF Ages
  <2>3. CASE Path(f) = p
    <3>1. e(f) \in D
      BY <1>2, <2>3
    <3> QED
      BY <1>1, <3>1 DEF Ages
  <2> QED
    BY <2>2, <2>3
<1> QED
  BY <1>3, <1>4 DEF Ages

LEMMA NamesDisk ==
  ASSUME NamesOK, NEW cmd \in DOMAIN commands, RunDisk(cmd)
  PROVE  /\ NamesOK'
         /\ Ages(disk) \subseteq Ages(disk') \/ cmd[1].do \in {"remove", "edit", "verify"}
<1> DEFINE s == cmd[1]
<1>1. /\ NamesQueued /\ PlacesFree /\ WholeFiles(disk) /\ LooksFirst(cmd) /\ Stepwise(cmd)
      /\ Counts(commands) /\ boxes \in Seq(ToSet(boxes))
  BY DEF NamesOK, NamesQueued, LooksFirst
<1>2. /\ Head(cmd) = s /\ 1 \in DOMAIN cmd /\ Len(cmd) \in Nat /\ Len(cmd) >= 1
  BY <1>1, StepwiseSteps
<1>3. s.do \in Checks => s.skip \in Nat /\ 1 + s.skip <= Len(cmd)
  BY <1>1, <1>2 DEF Stepwise
<1> HIDE DEF s
<1>4. boxes' = boxes
  BY DEF RunDisk
<1>5. s.do \in DiskSteps
  BY <1>2 DEF RunDisk, DiskSteps
<1>6. TouchesDisk(cmd)
  BY <1>1, <1>5, PutsTouch DEF s
<1>7. PICK k \in Nat :
        /\ k + 1 <= Len(cmd) /\ commands' = Continued(cmd, k)
        /\ k = 0 \/ (s.do \in Checks /\ k = s.skip)
        /\ s.do = "free" /\ k = 0 => s.skip = 0 \/ (At(s.path) = {} /\ disk' = disk)
  <2>1. 0 \in Nat /\ 0 + 1 <= Len(cmd)
    BY <1>2
  <2>2. CASE /\ commands' = Continued(cmd, 0)
             /\ s.do = "free" => At(s.path) = {} /\ disk' = disk
    BY <2>1, <2>2
  <2>3. CASE s.do \in Checks /\ commands' = Continued(cmd, s.skip)
    <3>1. s.skip \in Nat /\ s.skip + 1 <= Len(cmd)
      BY <1>2, <1>3, <2>3
    <3> QED
      BY <2>3, <3>1
  <2> QED
    BY <1>2, <2>2, <2>3 DEF RunDisk, Checks
<1>8. commands' = Continued(cmd, k) (+) SetToBag({})
  BY <1>1, <1>7, ContinuedNone
<1>9. \A b \in ToSet(boxes') : b \in Asking
  BY <1>4, AskingIs
<1>10. /\ NamesQueued'
       /\ \A c \in DOMAIN commands' : TouchesDisk(c) => c = Rest(cmd, k) /\ c # <<>>
  BY <1>1, <1>4, <1>6, <1>7, <1>8, <1>9, NamesWent
<1>11. PlacesFree'
  <2>1. SUFFICES ASSUME NEW c \in DOMAIN commands', c[1].do \in Puts
                 PROVE  At(PutsAt(c[1]))' = {}
    BY DEF PlacesFree
  <2>2. LooksFirst(c)
    BY <1>10 DEF NamesQueued
  <2>3. TouchesDisk(c)
    BY <2>1, <2>2, PutsTouch DEF Puts, DiskSteps
  <2>4. c = Rest(cmd, k) /\ c # <<>>
    BY <1>10, <2>3
  <2>5. k = 0 /\ s.do = "free" /\ s.path = PutsAt(c[1])
    BY <1>1, <1>7, <2>1, <2>4, RestLooks DEF s
  <2>6. s.skip # 0
    <3>1. \A j \in DOMAIN cmd : j = 1 + s.skip + 1 => cmd[j].do \notin Puts
      BY <1>1, <1>2, <2>5 DEF LooksFirst, Checks, s
    <3>2. 2 \in DOMAIN cmd /\ cmd[2] = c[1]
      <4>1. 1 \in DOMAIN c
        BY <2>2, <2>1, PutsTouch DEF Puts, DiskSteps
      <4>2. 1 + k + 1 \in DOMAIN cmd /\ c[1] = cmd[1 + k + 1]
        BY <1>1, <1>7, <2>4, <4>1, RestStepwise
      <4> QED
        BY <2>5, <4>2
    <3> QED
      BY <2>1, <3>1, <3>2
  <2>7. At(s.path) = {} /\ disk' = disk
    BY <1>7, <2>5, <2>6
  <2> QED
    BY <2>5, <2>7 DEF At
<1>12. WholeFiles(disk')
  <2>1. CASE disk' \subseteq disk
    BY <1>1, <2>1 DEF WholeFiles
  <2>2. CASE s.do = "move" /\ disk' = Moved(disk, s.path, s.to)
    BY <1>1, <2>2, MovedKeeps
  <2>3. CASE disk' = (disk \ At(s.path)) \cup {Written(s.path)}
    BY <1>1, <2>3 DEF WholeFiles, Written
  <2> QED
    BY <1>2, <2>1, <2>2, <2>3 DEF RunDisk, Removals
<1>13. Ages(disk) \subseteq Ages(disk') \/ s.do \in {"remove", "edit", "verify"}
  <2>1. CASE disk' = disk
    BY <2>1
  <2>2. CASE s.do = "move" /\ disk' = Moved(disk, s.path, s.to)
    <3>1. At(s.to) = {}
      BY <1>1, <2>2 DEF PlacesFree, PutsAt, Puts, s
    <3> QED
      BY <1>1, <2>2, <3>1, MovedKeeps
  <2>3. CASE s.do = "write" /\ disk' = (disk \ At(s.path)) \cup {Written(s.path)}
    <3>1. At(s.path) = {}
      BY <1>1, <2>3 DEF PlacesFree, PutsAt, Puts, s
    <3>2. disk \subseteq disk'
      BY <2>3, <3>1
    <3> QED
      BY <3>2 DEF Ages
  <2> QED
    BY <1>2, <2>1, <2>2, <2>3 DEF RunDisk
<1> QED
  BY <1>10, <1>11, <1>12, <1>13 DEF NamesOK, s

-----------------------------------------------------------------------------
(* Listings and dialogs leave the disk alone. *)

LEMMA LooksSingle ==
  ASSUME NEW s, s.do \notin Checks, s.do \notin DiskSteps, s.do # "open"
  PROVE  LooksFirst(<<s>>) /\ ~TouchesDisk(<<s>>) /\ MayStart(<<s>>)
<1> DEFINE c == <<s>>
<1>1. DOMAIN c = {1} /\ c[1] = s /\ Len(c) = 1 /\ c # <<>>
  OBVIOUS
<1>2. c \in Seq({c[i] : i \in DOMAIN c})
  OBVIOUS
<1> HIDE DEF c
<1>3. Stepwise(c)
  BY <1>1, <1>2 DEF Stepwise
<1>4. LooksFirst(c) /\ ~TouchesDisk(c)
  BY <1>1, <1>3 DEF LooksFirst, TouchesDisk
<1>5. MayStart(c)
  BY <1>1, <1>4 DEF MayStart, Puts, DiskSteps
<1> QED
  BY <1>4, <1>5 DEF c

(* What may follow a step of the list or of a dialog. *)
LEMMA NamesFollow ==
  ASSUME NamesOK, disk' = disk, NEW cmd \in DOMAIN commands, cmd[1].do \notin DiskSteps,
         NEW S \in {{}, {<<Refresh>>}, {<<Load>>}}, commands' = Continued(cmd, 0) (+) SetToBag(S),
         boxes' \in Seq(ToSet(boxes')), \A b \in ToSet(boxes') : b \in Asking
  PROVE  NamesOK'
<1>1. NamesQueued /\ PlacesFree /\ WholeFiles(disk) /\ LooksFirst(cmd) /\ Stepwise(cmd)
  BY DEF NamesOK, NamesQueued, LooksFirst
<1>2. 0 \in Nat /\ 0 + 1 <= Len(cmd)
  BY <1>1, StepwiseSteps
<1>3. Refresh.do = "refresh" /\ Load.do = "load"
  BY DEF Refresh, Load
<1>4. \A s \in S : LooksFirst(s) /\ ~TouchesDisk(s) /\ MayStart(s)
  BY <1>3, LooksSingle DEF Checks, DiskSteps
<1>5. \A s \in S : (\A i \in DOMAIN s : s[i].do # "open") /\ s[1].do \notin Puts
  BY <1>4 DEF MayStart
<1>6. NamesQueued' /\ Foreseen(cmd, 0, S)
  BY <1>1, <1>2, <1>4, <1>5, NamesWent
<1>7. PlacesFree'
  <2>1. SUFFICES ASSUME NEW c \in DOMAIN commands', c[1].do \in Puts
                 PROVE  c \in DOMAIN commands
    BY <1>1 DEF PlacesFree, At
  <2>2. c \notin S
    BY <1>5, <2>1
  <2>3. ~(c = Rest(cmd, 0) /\ c # <<>>)
    <3>1. SUFFICES ASSUME c = Rest(cmd, 0), c # <<>> PROVE cmd[1].do = "free"
      BY DEF DiskSteps
    <3> QED
      BY <1>1, <1>2, <2>1, <3>1, RestLooks
  <2> QED
    BY <1>6, <2>2, <2>3 DEF Foreseen
<1> QED
  BY <1>1, <1>6, <1>7 DEF NamesOK

LEMMA NamesLoad ==
  ASSUME NamesOK, disk' = disk, NEW cmd \in DOMAIN commands, boxes' = boxes, cmd[1].do = "load",
         commands' = (commands (-) SetToBag({cmd})) (+) SetToBag({<<Loaded(Listing)>>})
  PROVE  NamesOK'
<1> DEFINE r == <<Loaded(Listing)>>
           M == commands (-) SetToBag({cmd})
<1>1. Loaded(Listing).do = "loaded"
  BY DEF Loaded
<1>2. LooksFirst(r) /\ ~TouchesDisk(r) /\ MayStart(r)
  BY <1>1, LooksSingle DEF Checks, DiskSteps
<1>3. r[1].do = "loaded" /\ DOMAIN r = {1}
  BY <1>1
<1>4. Counts(commands) /\ NamesQueued /\ PlacesFree /\ WholeFiles(disk) /\ OneAtDisk(commands)
  BY DEF NamesOK, NamesQueued
<1>5. /\ Counts(M) /\ \A d \in DOMAIN M : d \in DOMAIN commands
      /\ \A d \in DOMAIN M : d # cmd => M[d] = commands[d]
      /\ commands[cmd] = 1 => cmd \notin DOMAIN M
  BY <1>4, BagMinus
<1>6. commands' = M (+) SetToBag({r})
  OBVIOUS
<1> HIDE DEF r, M
<1>7. /\ Counts(commands')
      /\ \A d : d \in DOMAIN commands' <=> d \in DOMAIN M \/ d \in {r}
      /\ \A d \in DOMAIN M : d \notin {r} => commands'[d] = M[d]
  BY <1>5, <1>6, BagPlusCounts, BagPlusCopies
<1>8. \A b : ~AsksBy(r, b)
  BY <1>3 DEF AsksBy
<1>9. \A b \in Asking' : b \in Asking
  BY <1>5, <1>7, <1>8, AskingIs, AskingIsNext
<1>10. OneAtDisk(commands')
  <2>1. \A d \in DOMAIN commands' : TouchesDisk(d) => d \in DOMAIN M /\ d # r
    BY <1>2, <1>7
  <2>2. \A d \in DOMAIN commands' : TouchesDisk(d) => commands'[d] = commands[d]
    <3>1. ASSUME NEW d \in DOMAIN commands', TouchesDisk(d) PROVE commands'[d] = commands[d]
      <4>1. d \in DOMAIN M /\ d \in DOMAIN commands /\ commands'[d] = M[d]
        BY <1>5, <1>7, <2>1, <3>1
      <4>2. commands[d] = 1
        BY <1>4, <3>1, <4>1 DEF OneAtDisk
      <4>3. d # cmd
        BY <1>5, <4>1, <4>2
      <4> QED
        BY <1>5, <4>1, <4>3
    <3> QED
      BY <3>1
  <2> QED
    BY <1>4, <1>5, <2>1, <2>2 DEF OneAtDisk
<1>11. NamesQueued'
  BY <1>2, <1>4, <1>5, <1>7, <1>9, <1>10 DEF NamesQueued
<1>12. PlacesFree'
  BY <1>3, <1>4, <1>5, <1>7 DEF PlacesFree, Puts, At
<1> QED
  BY <1>4, <1>11, <1>12 DEF NamesOK

LEMMA NamesList ==
  ASSUME NamesOK, NEW cmd \in DOMAIN commands, RunList(cmd), boxes' = boxes
  PROVE  NamesOK' /\ disk' = disk
<1> DEFINE s == cmd[1]
<1>1. Stepwise(cmd) /\ Counts(commands) /\ boxes \in Seq(ToSet(boxes))
  BY DEF NamesOK, NamesQueued, LooksFirst
<1>2. Head(cmd) = s
  BY <1>1, StepwiseSteps
<1> HIDE DEF s
<1>3. disk' = disk
  BY DEF RunList
<1>4. s.do \notin DiskSteps
  BY <1>2 DEF RunList, DiskSteps
<1>5. boxes' \in Seq(ToSet(boxes')) /\ \A b \in ToSet(boxes') : b \in Asking
  BY <1>1, AskingIs
<1>6. \/ commands' = Continued(cmd, 0) (+) SetToBag({<<Load>>})
      \/ commands' = Continued(cmd, 0)
      \/ /\ s.do = "load"
         /\ commands' = (commands (-) SetToBag({cmd})) (+) SetToBag({<<Loaded(Listing)>>})
  BY <1>2 DEF RunList
<1>7. CASE commands' = Continued(cmd, 0) (+) SetToBag({<<Load>>})
  BY <1>3, <1>4, <1>5, <1>7, NamesFollow DEF s
<1>8. CASE commands' = Continued(cmd, 0)
  <2>1. commands' = Continued(cmd, 0) (+) SetToBag({})
    BY <1>1, <1>8, ContinuedNone
  <2> QED
    BY <1>3, <1>4, <1>5, <2>1, NamesFollow DEF s
<1>9. CASE /\ s.do = "load"
           /\ commands' = (commands (-) SetToBag({cmd})) (+) SetToBag({<<Loaded(Listing)>>})
  BY <1>3, <1>9, NamesLoad DEF s
<1> QED
  BY <1>3, <1>6, <1>7, <1>8, <1>9

LEMMA NamesBox ==
  ASSUME NamesOK, NEW cmd \in DOMAIN commands, RunBox(cmd)
  PROVE  NamesOK' /\ disk' = disk
<1> DEFINE s == cmd[1]
<1>1. Stepwise(cmd) /\ Counts(commands) /\ boxes \in Seq(ToSet(boxes))
  BY DEF NamesOK, NamesQueued, LooksFirst
<1>2. Head(cmd) = s /\ 1 \in DOMAIN cmd
  BY <1>1, StepwiseSteps
<1> HIDE DEF s
<1>3. disk' = disk
  BY DEF RunBox
<1>4. s.do \notin DiskSteps
  BY <1>2 DEF RunBox, DiskSteps
<1>5. ASSUME s.do = "open", boxes' = Append(boxes, s.box), commands' = Continued(cmd, 0)
      PROVE  NamesOK'
  <2>1. AsksBy(cmd, s.box)
    BY <1>2, <1>5 DEF AsksBy, s
  <2>2. boxes' \in Seq(ToSet(boxes')) /\ \A b : b \in ToSet(boxes') <=> b \in ToSet(boxes) \/ b = s.box
    BY <1>1, <1>5, AppendedBoxes
  <2>3. \A b \in ToSet(boxes') : b \in Asking
    BY <2>1, <2>2, AskingIs
  <2>4. commands' = Continued(cmd, 0) (+) SetToBag({})
    BY <1>1, <1>5, ContinuedNone
  <2> QED
    BY <1>3, <1>4, <2>2, <2>3, <2>4, NamesFollow DEF s
<1>6. ASSUME NEW S \in {{}, {<<Refresh>>}}, commands' = Continued(cmd, 0) (+) SetToBag(S),
             boxes' = Retain(boxes, DOMAIN boxes \ {i \in DOMAIN boxes : boxes[i].id = s.id})
      PROVE  NamesOK'
  <2> DEFINE I == DOMAIN boxes \ {i \in DOMAIN boxes : boxes[i].id = s.id}
  <2>1. I \in SUBSET DOMAIN boxes
    OBVIOUS
  <2>2. boxes' = Retain(boxes, I)
    BY <1>6
  <2> HIDE DEF I
  <2>3. boxes' \in Seq(ToSet(boxes')) /\ \A b : b \in ToSet(boxes') <=> \E i \in I : b = boxes[i]
    BY <1>1, <2>1, <2>2, RetainedBoxes
  <2>4. \A b \in ToSet(boxes') : b \in Asking
    BY <2>1, <2>3, AskingIs DEF ToSet
  <2> QED
    BY <1>3, <1>4, <1>6, <2>3, <2>4, NamesFollow DEF s
<1>7. NamesOK'
  <2>1. CASE s.do = "open" /\ boxes' = Append(boxes, s.box) /\ commands' = Continued(cmd, 0)
    BY <1>5, <2>1
  <2>2. CASE /\ boxes' = Retain(boxes, DOMAIN boxes \ {i \in DOMAIN boxes : boxes[i].id = s.id})
             /\ \/ commands' = Continued(cmd, 0) (+) SetToBag({<<Refresh>>})
                \/ commands' = Continued(cmd, 0) (+) SetToBag({})
    BY <1>6, <2>2
  <2> QED
    BY <1>2, <2>1, <2>2 DEF RunBox, EmptyBag
<1> QED
  BY <1>3, <1>7

-----------------------------------------------------------------------------
(* The user's keys. *)

LEMMA NamesSame ==
  ASSUME NamesOK, UNCHANGED <<disk, commands>>, boxes' \in Seq(ToSet(boxes')),
         \A b \in ToSet(boxes') : b \in ToSet(boxes)
  PROVE  NamesOK'
<1>1. \A b \in Asking' : b \in Asking
  BY DEF Asking
<1>2. NamesQueued'
  BY <1>1 DEF NamesOK, NamesQueued
<1>3. PlacesFree' /\ WholeFiles(disk')
  BY DEF NamesOK, PlacesFree, At
<1> QED
  BY <1>2, <1>3 DEF NamesOK

LEMMA NamesAsk ==
  ASSUME NamesOK, NEW box, AskFor(box), MayAsk(box), disk' = disk, boxes' = boxes
  PROVE  NamesOK'
<1> DEFINE c0 == <<OpenBox(box)>>
<1>1. NamesQueued /\ PlacesFree /\ WholeFiles(disk) /\ Counts(commands) /\ OneAtDisk(commands)
  BY DEF NamesOK, NamesQueued
<1>2. commands' = Started({<<OpenBox(box)>>})
  BY DEF AskFor
<1>3. /\ Counts(commands') /\ Stepwise(c0)
      /\ DOMAIN c0 = {1} /\ c0[1].do = "open"
      /\ \A c : c \in DOMAIN commands' <=> c \in DOMAIN commands \/ c = c0
      /\ \A d \in DOMAIN commands : d # c0 => commands'[d] = commands[d]
      /\ \A b \in Asking' : b \in Asking \/ b = box
  BY <1>1, <1>2, AskedNext
<1> HIDE DEF c0
<1>4. LooksFirst(c0) /\ ~TouchesDisk(c0) /\ c0[1].do \notin Puts
  BY <1>3 DEF LooksFirst, TouchesDisk, Puts, Checks, DiskSteps
<1>5. OneAtDisk(commands')
  BY <1>1, <1>3, <1>4 DEF OneAtDisk
<1>6. NamesQueued'
  BY <1>1, <1>3, <1>4, <1>5 DEF NamesQueued
<1>7. PlacesFree'
  BY <1>1, <1>3, <1>4 DEF PlacesFree, At
<1> QED
  BY <1>1, <1>6, <1>7 DEF NamesOK

(* Two are never at the disk, or the run is excused. *)
LEMMA NamesStarted ==
  ASSUME NamesQueued, NEW S, NEW atOnce, Run(S, atOnce), ~excused', boxes' = boxes,
         \A s \in S : MayStart(s),
         \A s, t \in S : TouchesDisk(s) /\ TouchesDisk(t) => s = t
  PROVE  /\ NamesQueued'
         /\ \A c \in DOMAIN commands' : c[1].do \in Puts => c \in DOMAIN commands
         /\ atOnce => \A c \in DOMAIN commands : ~TouchesDisk(c)
<1>1. Counts(commands) /\ OneAtDisk(commands) /\ commands' = Started(S)
  BY DEF NamesQueued, Run
<1>2. /\ Counts(commands')
      /\ \A c : c \in DOMAIN commands' <=> c \in DOMAIN commands \/ c \in S
      /\ \A d \in DOMAIN commands : d \notin S => commands'[d] = commands[d]
      /\ \A d \in S : d \notin DOMAIN commands => commands'[d] = 1
  BY <1>1, StartedNext
<1>3. /\ \A c : c \in OnDisk(S) <=> c \in S /\ TouchesDisk(c)
      /\ \A c : c \in OnDisk(BagToSet(commands)) <=> c \in DOMAIN commands /\ TouchesDisk(c)
  BY DEF OnDisk, TouchesDisk, BagToSet
<1>4. ~((atOnce \/ OnDisk(S) # {}) /\ OnDisk(BagToSet(commands)) # {})
  BY DEF Run
<1>5. (atOnce \/ \E s \in S : TouchesDisk(s)) => \A c \in DOMAIN commands : ~TouchesDisk(c)
  BY <1>3, <1>4
<1>6. OneAtDisk(commands')
  <2>1. CASE \E s \in S : TouchesDisk(s)
    BY <1>2, <1>5, <2>1 DEF OneAtDisk
  <2>2. CASE \A s \in S : ~TouchesDisk(s)
    BY <1>1, <1>2, <2>2 DEF OneAtDisk
  <2> QED
    BY <2>1, <2>2
<1>7. \A b \in Asking' : b \in Asking
  <2>1. \A s \in S : \A b : ~AsksBy(s, b)
    BY DEF MayStart, AsksBy
  <2> QED
    BY <1>2, <2>1, AskingIs, AskingIsNext
<1>8. NamesQueued'
  BY <1>2, <1>6, <1>7 DEF NamesQueued, MayStart
<1> QED
  BY <1>2, <1>5, <1>8 DEF MayStart

LEMMA NamesRun ==
  ASSUME NamesOK, NEW S, NEW atOnce, Run(S, atOnce), ~excused', boxes' = boxes, disk' = disk,
         \A s \in S : MayStart(s),
         \A s, t \in S : TouchesDisk(s) /\ TouchesDisk(t) => s = t
  PROVE  NamesOK'
<1>1. NamesQueued /\ PlacesFree /\ WholeFiles(disk)
  BY DEF NamesOK
<1>2. /\ NamesQueued'
      /\ \A c \in DOMAIN commands' : c[1].do \in Puts => c \in DOMAIN commands
  BY <1>1, NamesStarted
<1>3. PlacesFree'
  BY <1>1, <1>2 DEF PlacesFree, At
<1> QED
  BY <1>1, <1>2, <1>3 DEF NamesOK

LEMMA TopBoxMayAsk ==
  ASSUME NamesOK, boxes # <<>>
  PROVE  MayAsk(TopBox)
<1>1. boxes \in Seq(ToSet(boxes))
  BY DEF NamesOK, NamesQueued
<1>2. TopBox \in ToSet(boxes)
  BY <1>1 DEF TopBox, Last, ToSet
<1> QED
  BY <1>2 DEF Asking, NamesOK, NamesQueued

LEMMA NamesAnswer ==
  ASSUME NamesOK, NEW yes, Answer(yes), ~excused'
  PROVE  NamesOK'
<1> DEFINE c0 == <<CloseBox(TopBox.id)>>
           S == {c0} \cup (IF yes THEN TopBox.runs ELSE {})
<1>1. Run(S, FALSE) /\ disk' = disk /\ boxes' = boxes
  BY DEF Answer
<1>2. MayAsk(TopBox)
  BY TopBoxMayAsk DEF Answer
<1>3. CloseBox(TopBox.id).do = "close"
  BY DEF CloseBox
<1>4. MayStart(c0) /\ ~TouchesDisk(c0)
  BY <1>3, LooksSingle DEF Checks, DiskSteps
<1>5. \A s \in S : s = c0 \/ s \in TopBox.runs
  OBVIOUS
<1> HIDE DEF c0, S
<1>6. \A s \in S : MayStart(s)
  BY <1>2, <1>4, <1>5 DEF MayAsk
<1>7. \A s, t \in S : TouchesDisk(s) /\ TouchesDisk(t) => s = t
  BY <1>2, <1>4, <1>5 DEF MayAsk
<1> QED
  BY <1>1, <1>6, <1>7, NamesRun

-----------------------------------------------------------------------------
(* The commands the dialogs start. *)

LEMMA DeletingLooks ==
  ASSUME NEW p
  PROVE  MayStart(<<Delete(p), Refresh>>)
<1> DEFINE c == <<Delete(p), Refresh>>
<1>1. DOMAIN c = {1, 2} /\ Len(c) = 2 /\ c # <<>>
  OBVIOUS
<1>2. c \in Seq({c[i] : i \in DOMAIN c})
  OBVIOUS
<1>3. c[1].do = "remove" /\ c[2].do = "refresh"
  BY DEF Delete, Refresh
<1> HIDE DEF c
<1>4. Stepwise(c)
  BY <1>1, <1>2, <1>3 DEF Stepwise, Checks
<1>5. LooksFirst(c)
  BY <1>1, <1>3, <1>4 DEF LooksFirst, Checks, Puts
<1> QED
  BY <1>1, <1>3, <1>5 DEF MayStart, Puts, c

LEMMA RefreshingLooks ==
  ASSUME NEW id
  PROVE  MayStart(<<Refresh, CloseBox(id)>>) /\ ~TouchesDisk(<<Refresh, CloseBox(id)>>)
<1> DEFINE c == <<Refresh, CloseBox(id)>>
<1>1. DOMAIN c = {1, 2} /\ Len(c) = 2 /\ c # <<>>
  OBVIOUS
<1>2. c \in Seq({c[i] : i \in DOMAIN c})
  OBVIOUS
<1>3. c[1].do = "refresh" /\ c[2].do = "close"
  BY DEF CloseBox, Refresh
<1> HIDE DEF c
<1>4. Stepwise(c)
  BY <1>1, <1>2, <1>3 DEF Stepwise, Checks
<1>5. LooksFirst(c)
  BY <1>1, <1>3, <1>4 DEF LooksFirst, Checks, Puts
<1> QED
  BY <1>1, <1>3, <1>5 DEF MayStart, Puts, TouchesDisk, DiskSteps, c

LEMMA ThreeLooks ==
  ASSUME NEW s, NEW t, NEW u, s.do \in Checks, s.skip = 2, u.do = "close",
         t.do = "edit" \/ (t.do = "write" /\ s.do = "free" /\ s.path = t.path)
  PROVE  MayStart(<<s, t, u>>)
<1> DEFINE c == <<s, t, u>>
<1>1. DOMAIN c = {1, 2, 3} /\ Len(c) = 3 /\ c # <<>> /\ c[1] = s /\ c[2] = t /\ c[3] = u
  OBVIOUS
<1>2. c \in Seq({c[i] : i \in DOMAIN c})
  OBVIOUS
<1> HIDE DEF c
<1>3. Stepwise(c)
  BY <1>1, <1>2 DEF Stepwise, Checks
<1>4. LooksFirst(c)
  BY <1>1, <1>3 DEF LooksFirst, Checks, Puts, PutsAt
<1> QED
  BY <1>1, <1>4 DEF MayStart, Puts, Checks, c

LEMMA FourLooks ==
  ASSUME NEW p, NEW id
  PROVE  MayStart(<<NeedFree(p, 2), Write(p), Verify(p, 0), CloseBox(id)>>)
<1> DEFINE c == <<NeedFree(p, 2), Write(p), Verify(p, 0), CloseBox(id)>>
<1>1. DOMAIN c = {1, 2, 3, 4} /\ Len(c) = 4 /\ c # <<>>
  OBVIOUS
<1>2. c \in Seq({c[i] : i \in DOMAIN c})
  OBVIOUS
<1>3. /\ c[1].do = "free" /\ c[1].skip = 2 /\ c[1].path = p
      /\ c[2].do = "write" /\ c[2].path = p
      /\ c[3].do = "verify" /\ c[3].skip = 0 /\ c[4].do = "close"
  BY DEF NeedFree, Write, Verify, CloseBox
<1> HIDE DEF c
<1>4. Stepwise(c)
  BY <1>1, <1>2, <1>3 DEF Stepwise, Checks
<1>5. LooksFirst(c)
  BY <1>1, <1>3, <1>4 DEF LooksFirst, Checks, Puts, PutsAt
<1> QED
  BY <1>1, <1>3, <1>5 DEF MayStart, Puts, c

LEMMA FiveLooks ==
  ASSUME NEW p, NEW id
  PROVE  MayStart(<<NeedFree(p, 3), Write(p), Verify(p, 1), Refresh, CloseBox(id)>>)
<1> DEFINE c == <<NeedFree(p, 3), Write(p), Verify(p, 1), Refresh, CloseBox(id)>>
<1>1. DOMAIN c = {1, 2, 3, 4, 5} /\ Len(c) = 5 /\ c # <<>>
  OBVIOUS
<1>2. c \in Seq({c[i] : i \in DOMAIN c})
  OBVIOUS
<1>3. /\ c[1].do = "free" /\ c[1].skip = 3 /\ c[1].path = p
      /\ c[2].do = "write" /\ c[2].path = p
      /\ c[3].do = "verify" /\ c[3].skip = 1 /\ c[4].do = "refresh" /\ c[5].do = "close"
  BY DEF NeedFree, Write, Verify, Refresh, CloseBox
<1> HIDE DEF c
<1>4. Stepwise(c)
  BY <1>1, <1>2, <1>3 DEF Stepwise, Checks
<1>5. LooksFirst(c)
  BY <1>1, <1>3, <1>4 DEF LooksFirst, Checks, Puts, PutsAt
<1> QED
  BY <1>1, <1>3, <1>5 DEF MayStart, Puts, c

LEMMA RenamingLooks ==
  ASSUME NEW p, NEW q, NEW id
  PROVE  MayStart(<<NeedFile(p, 2), NeedFree(q, 1), Move(p, q), Refresh, CloseBox(id)>>)
<1> DEFINE c == <<NeedFile(p, 2), NeedFree(q, 1), Move(p, q), Refresh, CloseBox(id)>>
<1>1. DOMAIN c = {1, 2, 3, 4, 5} /\ Len(c) = 5 /\ c # <<>>
  OBVIOUS
<1>2. c \in Seq({c[i] : i \in DOMAIN c})
  OBVIOUS
<1>3. /\ c[1].do = "file" /\ c[1].skip = 2
      /\ c[2].do = "free" /\ c[2].skip = 1 /\ c[2].path = q
      /\ c[3].do = "move" /\ c[3].to = q /\ c[4].do = "refresh" /\ c[5].do = "close"
  BY DEF NeedFile, NeedFree, Move, Refresh, CloseBox
<1> HIDE DEF c
<1>4. Stepwise(c)
  BY <1>1, <1>2, <1>3 DEF Stepwise, Checks
<1>5. LooksFirst(c)
  BY <1>1, <1>3, <1>4 DEF LooksFirst, Checks, Puts, PutsAt
<1> QED
  BY <1>1, <1>3, <1>5 DEF MayStart, Puts, c

LEMMA EditingLooks ==
  ASSUME NEW old, NEW p, NEW id
  PROVE  MayStart(<<NeedFile(old, 5), Edit(old), NeedFile(old, 3), NeedFree(p, 2), Move(old, p),
                    CloseBox(id)>>)
<1> DEFINE c == <<NeedFile(old, 5), Edit(old), NeedFile(old, 3), NeedFree(p, 2), Move(old, p),
                  CloseBox(id)>>
<1>1. DOMAIN c = {1, 2, 3, 4, 5, 6} /\ Len(c) = 6 /\ c # <<>>
  OBVIOUS
<1>2. c \in Seq({c[i] : i \in DOMAIN c})
  OBVIOUS
<1>3. /\ c[1].do = "file" /\ c[1].skip = 5 /\ c[2].do = "edit" /\ c[3].do = "file" /\ c[3].skip = 3
      /\ c[4].do = "free" /\ c[4].skip = 2 /\ c[4].path = p
      /\ c[5].do = "move" /\ c[5].to = p /\ c[6].do = "close"
  BY DEF NeedFree, NeedFile, Edit, Move, CloseBox
<1> HIDE DEF c
<1>4. Stepwise(c)
  BY <1>1, <1>2, <1>3 DEF Stepwise, Checks
<1>5. LooksFirst(c)
  BY <1>1, <1>3, <1>4 DEF LooksFirst, Checks, Puts, PutsAt
<1> QED
  BY <1>1, <1>3, <1>5 DEF MayStart, Puts, c

LEMMA FormLooks ==
  ASSUME NEW form, NEW name
  PROVE  MayStart(FormSteps(form, name))
<1> DEFINE p == [folder |-> form.folder, name |-> name]
           old == [folder |-> form.folder, name |-> form.original]
           u == CloseBox(form.id)
<1>1. /\ NeedFree(p, 2).do = "free" /\ NeedFree(p, 2).skip = 2 /\ NeedFree(p, 2).path = p
      /\ Write(p).do = "write" /\ Write(p).path = p /\ u.do = "close"
      /\ NeedFile(old, 2).do = "file" /\ NeedFile(old, 2).skip = 2 /\ Edit(old).do = "edit"
  BY DEF NeedFree, NeedFile, Write, Edit, CloseBox
<1>2. MayStart(<<NeedFree(p, 2), Write(p), u>>)
  BY <1>1, ThreeLooks DEF Checks
<1>3. MayStart(<<NeedFile(old, 2), Edit(old), u>>)
  BY <1>1, ThreeLooks DEF Checks
<1>4. MayStart(<<NeedFile(old, 5), Edit(old), NeedFile(old, 3), NeedFree(p, 2), Move(old, p),
                 CloseBox(form.id)>>)
  BY EditingLooks
<1> QED
  BY <1>2, <1>3, <1>4 DEF FormSteps

LEMMA NamesRename ==
  ASSUME NamesOK, list \in Refusing, NEW name, SubmitRename(name), ~excused'
  PROVE  NamesOK' /\ Ages(disk) \subseteq Ages(disk')
<1> DEFINE id == TopBox.id
           f == TopBox.file
           q == [folder |-> f.folder, name |-> name]
<1>1. boxes' = boxes /\ NamesQueued /\ PlacesFree /\ WholeFiles(disk)
  BY DEF SubmitRename, NamesOK
<1>2. CASE list \in Eager
  <2> DEFINE S == {<<Refresh, CloseBox(id)>>}
  <2>1. disk' = RenamedAtOnce(f, name) /\ Run(S, TRUE)
    BY <1>2 DEF SubmitRename
  <2>2. \A s \in S : MayStart(s)
    BY RefreshingLooks
  <2>3. \A s, t \in S : s = t
    OBVIOUS
  <2> HIDE DEF S, id
  <2>4. /\ NamesQueued'
        /\ \A c \in DOMAIN commands' : c[1].do \in Puts => c \in DOMAIN commands
        /\ \A c \in DOMAIN commands : ~TouchesDisk(c)
    BY <1>1, <2>1, <2>2, <2>3, NamesStarted
  <2>5. PlacesFree'
    <3>1. \A c \in DOMAIN commands : c[1].do \in Puts => TouchesDisk(c)
      BY <1>1, PutsTouch DEF NamesQueued, Puts, DiskSteps
    <3> QED
      BY <2>4, <3>1 DEF PlacesFree
  <2>6. disk' = disk \/ (At(q) = {} /\ disk' = Moved(disk, Path(f), q))
    BY <2>1 DEF RenamedAtOnce, Paths, At
  <2>7. WholeFiles(disk') /\ Ages(disk) \subseteq Ages(disk')
    <3> HIDE DEF q, f
    <3>1. CASE disk' = disk
      BY <1>1, <3>1
    <3>2. CASE At(q) = {} /\ disk' = Moved(disk, Path(f), q)
      BY <1>1, <3>2, MovedKeeps
    <3> QED
      BY <2>6, <3>1, <3>2
  <2> QED
    BY <2>4, <2>5, <2>7 DEF NamesOK
<1>3. CASE list \notin Eager
  <2> DEFINE c == RenameSteps(f, name) \o <<Refresh, CloseBox(id)>>
             S == {c}
  <2>1. Run(S, FALSE) /\ disk' = disk
    BY <1>3 DEF SubmitRename
  <2>2. list = "outbounds"
    BY <1>3 DEF Refusing, Eager
  <2>3. c = <<NeedFile(Path(f), 2), NeedFree(q, 1), Move(Path(f), q)>> \o <<Refresh, CloseBox(id)>>
    BY <2>2 DEF RenameSteps
  <2> HIDE DEF c, q, f, id
  <2>4. c = <<NeedFile(Path(f), 2), NeedFree(q, 1), Move(Path(f), q), Refresh, CloseBox(id)>>
    BY <2>3, JoinedFive
  <2>5. MayStart(c)
    BY <2>4, RenamingLooks
  <2>6. (\A s \in S : MayStart(s)) /\ \A s, t \in S : s = t
    BY <2>5
  <2> HIDE DEF S
  <2>7. NamesOK'
    BY <1>1, <2>1, <2>6, NamesRun
  <2> QED
    BY <2>1, <2>7
<1> QED
  BY <1>2, <1>3

LEMMA NamesName ==
  ASSUME NamesOK, NEW name, SubmitName(name), ~excused'
  PROVE  NamesOK' /\ disk' = disk
<1> DEFINE p == [folder |-> 1, name |-> name]
           id == TopBox.id
           two == <<NeedFree(p, 2), Write(p), Verify(p, 0), CloseBox(id)>>
           three == <<NeedFree(p, 3), Write(p), Verify(p, 1), Refresh, CloseBox(id)>>
           r == <<Refresh>>
           S == SaveCommands(TopBox.how, name, id)
<1>1. Run(S, FALSE) /\ disk' = disk /\ boxes' = boxes
  BY DEF SubmitName
<1>2. TopBox.how \in {"file", "link"}
  BY TopBoxMayAsk DEF SubmitName, MayAsk
<1>3. S = {two, r} \/ S = {three, r}
  BY <1>2 DEF SaveCommands
<1>4. MayStart(two) /\ MayStart(three)
  BY FourLooks, FiveLooks
<1>5. MayStart(r) /\ ~TouchesDisk(r)
  <2>1. Refresh.do = "refresh"
    BY DEF Refresh
  <2> QED
    BY <2>1, LooksSingle DEF Checks, DiskSteps
<1> HIDE DEF two, three, r, S, id, p
<1>6. \A s \in S : MayStart(s)
  BY <1>3, <1>4, <1>5
<1>7. \A s, t \in S : TouchesDisk(s) /\ TouchesDisk(t) => s = t
  BY <1>3, <1>5
<1> QED
  BY <1>1, <1>6, <1>7, NamesRun

(* The keys that ask a question. *)
LEMMA AskNoneOf ==
  ASSUME NamesOK, NEW box, AskFor(box), box.runs = {}, box.kind = "name" => box.how \in {"file", "link"},
         disk' = disk, boxes' = boxes
  PROVE  NamesOK'
<1>1. MayAsk(box)
  BY DEF MayAsk
<1> QED
  BY <1>1, NamesAsk

LEMMA AskOneOf ==
  ASSUME NamesOK, NEW box, AskFor(box), NEW r, box.runs = {r}, box.kind = "confirm", MayStart(r),
         disk' = disk, boxes' = boxes
  PROVE  NamesOK'
<1>1. MayAsk(box)
  BY DEF MayAsk
<1> QED
  BY <1>1, NamesAsk

LEMMA NamesForm ==
  ASSUME NamesOK, DiscardForm \/ \E n \in FileNames : SaveForm(n)
  PROVE  NamesOK' /\ disk' = disk
<1>1. disk' = disk /\ boxes' = boxes
  BY DEF DiscardForm, SaveForm
<1>2. PICK r : AskFor(Box("confirm", TopBox.row, TopBox.file, {r})) /\ MayStart(r)
  <2>1. CASE DiscardForm
    <3>1. CloseBox(TopBox.id).do = "close"
      BY DEF CloseBox
    <3>2. MayStart(<<CloseBox(TopBox.id)>>)
      BY <3>1, LooksSingle DEF Checks, DiskSteps
    <3> QED
      BY <2>1, <3>2 DEF DiscardForm
  <2>2. CASE \E n \in FileNames : SaveForm(n)
    BY <2>2, FormLooks DEF SaveForm
  <2> QED
    BY <2>1, <2>2
<1>3. PICK box : box = Box("confirm", TopBox.row, TopBox.file, {r}) /\ AskFor(box)
  BY <1>2
<1>4. box.kind = "confirm" /\ box.runs = {r}
  BY <1>3, NewBox
<1> QED
  BY <1>1, <1>2, <1>3, <1>4, AskOneOf

LEMMA NamesDelete ==
  ASSUME NamesOK, AskDelete, ~excused'
  PROVE  NamesOK' /\ disk' = disk
<1>1. PICK row \in ToSet(SelectedRow) :
        LET f == Selected(row)
        IN  IF list \in Eager
            THEN /\ AskFor(Box("confirm", row, f, {<<Refresh>>}))
                 /\ disk' \in Removals(Path(f))
                 /\ excused' = TRUE
            ELSE /\ AskFor(Box("confirm", row, f, {<<Delete(Path(f)), Refresh>>}))
                 /\ UNCHANGED <<disk, excused>>
  BY DEF AskDelete
<1> DEFINE f == Selected(row)
           r == <<Delete(Path(f)), Refresh>>
<1>2. disk' = disk /\ boxes' = boxes /\ AskFor(Box("confirm", row, f, {r}))
  BY <1>1 DEF AskDelete
<1>3. PICK box : box = Box("confirm", row, f, {r}) /\ AskFor(box)
  BY <1>2
<1>4. box.kind = "confirm" /\ box.runs = {r}
  BY <1>3, NewBox
<1>5. MayStart(r)
  BY DeletingLooks
<1> HIDE DEF r
<1> QED
  BY <1>2, <1>3, <1>4, <1>5, AskOneOf

LEMMA NamesQuestion ==
  ASSUME NamesOK, list \in Refusing, AskRename \/ SelectTunnel \/ AskAdd
  PROVE  NamesOK' /\ disk' = disk
<1>1. disk' = disk /\ boxes' = boxes
  BY DEF AskRename, SelectTunnel, AskAdd
<1>2. CASE AskRename
  <2>1. PICK row \in ToSet(SelectedRow) : AskFor(Box("rename", row, Selected(row), {}))
    BY <1>2 DEF AskRename
  <2>2. PICK box : box = Box("rename", row, Selected(row), {}) /\ AskFor(box)
    BY <2>1
  <2>3. box.kind = "rename" /\ box.runs = {}
    BY <2>2, NewBox
  <2> QED
    BY <1>1, <2>2, <2>3, AskNoneOf
<1>3. CASE SelectTunnel
  <2>1. PICK row \in ToSet(SelectedRow) :
          AskFor([Box("form", row, Selected(row), {})
                    EXCEPT !.folder = Selected(row).folder, !.original = Selected(row).name])
    BY <1>3 DEF SelectTunnel
  <2>2. PICK box :
          /\ box = [Box("form", row, Selected(row), {})
                      EXCEPT !.folder = Selected(row).folder, !.original = Selected(row).name]
          /\ AskFor(box)
    BY <2>1
  <2>3. box.kind = "form" /\ box.runs = {}
    BY <2>2 DEF Box
  <2> QED
    BY <1>1, <2>2, <2>3, AskNoneOf
<1>4. CASE AskAdd
  <2>1. PICK box :
          /\ AskFor(box)
          /\ \/ \E how \in {"file", "link"} :
                  box = [Box("name", NoFile, NoFile, {}) EXCEPT !.how = how]
             \/ \E d \in Folders : box = [Box("form", NoFile, NoFile, {}) EXCEPT !.folder = d]
    BY <1>4 DEF AskAdd, Refusing
  <2>2. box.runs = {} /\ (box.kind = "name" => box.how \in {"file", "link"})
    BY <2>1 DEF Box
  <2> QED
    BY <1>1, <2>1, <2>2, AskNoneOf
<1> QED
  BY <1>2, <1>3, <1>4

LEMMA NamesLeave ==
  ASSUME NamesOK, LeaveBox
  PROVE  NamesOK' /\ disk' = disk
<1> DEFINE n == Len(boxes)
<1>1. /\ boxes \in Seq(ToSet(boxes)) /\ boxes # <<>> /\ boxes' = Front(boxes)
      /\ UNCHANGED <<disk, commands>>
  BY DEF NamesOK, NamesQueued, LeaveBox
<1>2. n \in Nat /\ n >= 1 /\ DOMAIN boxes = 1..n
  BY <1>1
<1>3. DOMAIN boxes' = 1..n - 1 /\ \A i \in 1..n - 1 : boxes'[i] = boxes[i]
  BY <1>1, <1>2 DEF Front
<1> HIDE DEF n
<1>4. \A b \in ToSet(boxes') : b \in ToSet(boxes)
  BY <1>2, <1>3 DEF ToSet
<1>5. boxes' \in Seq(ToSet(boxes'))
  <2>1. boxes' \in Seq(ToSet(boxes))
    BY <1>1 DEF Front
  <2>2. boxes' \in [1..Len(boxes') -> ToSet(boxes')] /\ Len(boxes') \in Nat
    BY <2>1 DEF ToSet
  <2> QED
    BY <2>2
<1> QED
  BY <1>1, <1>4, <1>5, NamesSame

(* A step of a list that refuses names, if it is not excused. *)
LEMMA NamesStep ==
  ASSUME NamesOK, list \in Refusing, ~excused', [FilesNext]_fileVars
  PROVE  /\ NamesOK'
         /\ Ages(disk) \subseteq Ages(disk') \/ Heads \cap {"remove", "edit", "verify"} # {}
<1>1. disk' = disk => Ages(disk) \subseteq Ages(disk')
  OBVIOUS
<1>2. boxes \in Seq(ToSet(boxes))
  BY DEF NamesOK, NamesQueued
<1>3. CASE Browse \/ UNCHANGED fileVars
  <2>1. UNCHANGED <<disk, commands, boxes>>
    BY <1>3 DEF Browse, fileVars
  <2> QED
    BY <1>1, <1>2, <2>1, NamesSame
<1>4. CASE AskDelete \/ AskRename \/ SelectTunnel \/ AskAdd \/ DiscardForm \/ LeaveBox
  BY <1>1, <1>4, NamesDelete, NamesQuestion, NamesForm, NamesLeave
<1>5. CASE \E yes \in BOOLEAN : Answer(yes)
  BY <1>1, <1>5, NamesAnswer DEF Answer
<1>6. CASE \E n \in FileNames : SubmitRename(n) \/ SubmitName(n) \/ SaveForm(n)
  BY <1>1, <1>6, NamesRename, NamesName, NamesForm
<1>7. CASE RunCommand
  <2>1. PICK cmd \in BagToSet(commands) :
          \/ RunDisk(cmd)
          \/ RunList(cmd) /\ UNCHANGED <<list, boxes, opened>>
          \/ RunBox(cmd) /\ UNCHANGED list
    BY <1>7 DEF RunCommand
  <2>2. cmd \in DOMAIN commands
    BY DEF BagToSet
  <2>3. Head(cmd) = cmd[1]
    BY <2>2, StepwiseSteps DEF NamesOK, NamesQueued, LooksFirst
  <2>4. cmd[1].do \in Heads
    BY <2>1, <2>3 DEF Heads
  <2> QED
    BY <1>1, <2>1, <2>2, <2>4, NamesDisk, NamesList, NamesBox
<1> QED
  BY <1>3, <1>4, <1>5, <1>6, <1>7 DEF FilesNext

LEMMA NamesStart ==
  ASSUME FilesInit
  PROVE  NamesInv
<1>1. SUFFICES NamesOK
  BY DEF NamesInv
<1> DEFINE c0 == <<Load>>
<1>2. commands = SetToBag({c0}) /\ boxes = <<>>
  BY DEF FilesInit
<1>3. LooksFirst(c0) /\ ~TouchesDisk(c0) /\ MayStart(c0)
  <2>1. Load.do = "load"
    BY DEF Load
  <2> QED
    BY <2>1, LooksSingle DEF Checks, DiskSteps
<1> HIDE DEF c0
<1>4. commands = [e \in {c0} |-> 1]
  BY <1>2 DEF SetToBag
<1>5. Counts(commands) /\ DOMAIN commands = {c0}
  BY <1>4 DEF Counts
<1>6. Asking = {}
  BY <1>2, <1>3, <1>5 DEF Asking, BagToSet, ToSet, MayStart
<1>7. boxes \in Seq(ToSet(boxes))
  BY <1>2
<1>8. NamesQueued
  BY <1>3, <1>5, <1>6, <1>7 DEF NamesQueued, OneAtDisk
<1>9. PlacesFree
  BY <1>3, <1>5 DEF PlacesFree, MayStart
<1>10. WholeFiles(disk)
  <2>1. PICK S : disk = {[folder |-> SetToSeq(S)[i].folder, name |-> SetToSeq(S)[i].name, age |-> i] :
                           i \in DOMAIN SetToSeq(S)}
    BY DEF FilesInit
  <2> QED
    BY <2>1 DEF WholeFiles
<1> QED
  BY <1>8, <1>9, <1>10 DEF NamesOK

LEMMA NamesInvStep ==
  ASSUME NamesInv, [FilesNext]_fileVars
  PROVE  /\ NamesInv'
         /\ \/ list \notin Refusing \/ excused'
            \/ Ages(disk) \subseteq Ages(disk')
            \/ Heads \cap {"remove", "edit", "verify"} # {}
<1>1. list' = list
  BY DEF FilesNext, Browse, AskDelete, AskRename, SelectTunnel, AskAdd, Answer, SubmitRename,
         SubmitName, SaveForm, DiscardForm, LeaveBox, RunCommand, RunDisk, RunBox, fileVars
<1>2. ~excused' => ~excused
  BY DEF FilesNext, Browse, AskDelete, AskRename, SelectTunnel, AskAdd, Answer, SubmitRename,
         SubmitName, SaveForm, DiscardForm, LeaveBox, RunCommand, RunDisk, RunList, RunBox, Run,
         fileVars
<1> QED
  BY <1>1, <1>2, NamesStep DEF NamesInv

(* In the lists that refuse names in use, while no run is excused, one      *)
(* command at most is at the disk, and where it is about to put a file it   *)
(* has just found none (dns/store.go, xray/outbound.go).                    *)
THEOREM NamesInvariant == FilesSpec => []NamesInv
<1>1. FilesInit => NamesInv
  BY NamesStart
<1>2. NamesInv /\ [FilesNext]_fileVars => NamesInv'
  BY NamesInvStep
<1> QED
  BY <1>1, <1>2, PTL DEF FilesSpec

(* Such a list loses what a file holds only to a deletion, to the form that *)
(* edits it and to a save that does not validate, never to another file's   *)
(* saving or renaming (dns/store.go, xray/outbound.go: already exists).     *)
THEOREM FilesKeepNames == FilesSpec => NamesKept
<1>1. NamesInv /\ [FilesNext]_fileVars =>
        [\/ list \notin Refusing \/ excused'
         \/ Ages(disk) \subseteq Ages(disk')
         \/ Heads \cap {"remove", "edit", "verify"} # {}]_fileVars
  BY NamesInvStep
<1> QED
  BY <1>1, NamesInvariant, PTL DEF FilesSpec, NamesKept
=============================================================================
