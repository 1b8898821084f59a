------------------------------ MODULE DialRace ------------------------------
(* One target tested through a tunnel of the program's own (DNSTT, VayDNS):  *)
(* the tries of the probe, the start of the tunnel, the SSH or SOCKS         *)
(* handshake and the test connection.  Each of the three waits runs in a     *)
(* goroutine of its own that delivers into a channel of one place, and is    *)
(* left behind when the context ends first.                                  *)
(* The sources are core/scanner/probe/dnsttprobe/dnstt.go (vaydnsprobe is the *)
(* same), core/dns/vaydns.go and core/ssh/client.go.                          *)
EXTENDS Naturals

CONSTANT Tries          \* attempts at one target, at least one

ASSUME TriesAssumption == Tries \in Nat \ {0}

Attempts == 1..Tries
StartSteps == 5         \* the steps of establishTunnelStream
\* dial: dialSSH's or dialSOCKS's goroutine; shake: Connect's own;
\* conn: the dial of the test connection through the SSH client.
Tasks == {"dial", "shake", "conn"}

VARIABLES
  kind,       \* the proxy behind the tunnel: "ssh" or "socks"
  probe,      \* where Run is
  attempt,    \* the attempt it is at
  step,       \* how many steps of the tunnel's start are done
  ended,      \* whether the scan's context, and the request's, have ended
  tunnel,     \* per attempt: "none", "open" or "closed"
  task,       \* per attempt and task: "none", "running", "sending" or "gone"
  found,      \* what the task will deliver: TRUE for a connection
  chan,       \* what its channel holds: "empty", "ok" or "err"
  reaper      \* per attempt, who closes a late connection: "none", "waiting", "gone"

dialVars == <<kind, probe, attempt, step, ended, tunnel, task, found, chan, reaper>>

DialInit ==
  /\ kind \in {"ssh", "socks"}
  /\ probe = "start" /\ attempt = 1 /\ step = 0
  /\ ended = [scan |-> FALSE, request |-> FALSE]
  /\ tunnel = [a \in Attempts |-> "none"]
  /\ task = [a \in Attempts |-> [t \in Tasks |-> "none"]]
  /\ found = [a \in Attempts |-> [t \in Tasks |-> FALSE]]
  /\ chan = [a \in Attempts |-> [t \in Tasks |-> "empty"]]
  /\ reaper = [a \in Attempts |-> "none"]

tasksSame == UNCHANGED <<task, found, chan, reaper>>

Close(a) == tunnel' = [tunnel EXCEPT ![a] = "closed"]
Launch(t) == task' = [task EXCEPT ![attempt][t] = "running"]
\* A task has its answer and delivers it next.
Answer(a, t, ok) ==
  /\ task' = [task EXCEPT ![a][t] = "sending"]
  /\ found' = [found EXCEPT ![a][t] = ok]

-----------------------------------------------------------------------------
(* The probe: Run and runOnce.                                               *)

Run ==
  /\ probe = "start"
  /\ probe' = IF ended.scan THEN "done" ELSE "create"
  /\ UNCHANGED <<kind, attempt, step, ended, tunnel>> /\ tasksSame

\* NewTunnel: a configuration it refuses leaves nothing to close.
CreateTunnel ==
  /\ probe = "create"
  /\ \/ probe' = "failed" /\ UNCHANGED tunnel
     \/ ~ended.scan /\ probe' = "establish" /\ tunnel' = [tunnel EXCEPT ![attempt] = "open"]
  /\ step' = 0
  /\ UNCHANGED <<kind, attempt, ended>> /\ tasksSame

\* establishTunnelStream: every failing path closes the tunnel itself.
EstablishTunnel ==
  /\ probe = "establish"
  /\ \/ step < StartSteps /\ ~ended.scan /\ step' = step + 1
        /\ UNCHANGED <<probe, tunnel>>
     \/ step = StartSteps /\ ~ended.scan /\ probe' = "dial" /\ UNCHANGED <<step, tunnel>>
     \/ probe' = "failed" /\ Close(attempt) /\ UNCHANGED step
  /\ UNCHANGED <<kind, attempt, ended>> /\ tasksSame

\* dialSSH starts its goroutine; dialSOCKS only builds the dial function.
StartDial ==
  /\ probe = "dial"
  /\ \/ probe' = "close" /\ UNCHANGED task          \* a method that is not supported
     \/ /\ kind = "ssh" /\ ~ended.scan
        /\ probe' = "dialSSH" /\ Launch("dial")
     \/ kind = "socks" /\ probe' = "measure" /\ UNCHANGED task
  /\ UNCHANGED <<kind, attempt, step, ended, tunnel, found, chan, reaper>>

\* The select of dialSSH: the scan's context against the goroutine's result.
SelectSSH ==
  /\ probe = "dialSSH"
  /\ \/ ended.scan /\ Close(attempt) /\ probe' = "close" /\ UNCHANGED chan
     \/ /\ chan[attempt]["dial"] # "empty"
        /\ chan' = [chan EXCEPT ![attempt]["dial"] = "empty"]
        /\ probe' = IF chan[attempt]["dial"] = "ok" THEN "measure" ELSE "close"
        /\ UNCHANGED tunnel
  /\ UNCHANGED <<kind, attempt, step, ended, task, found, reaper>>

\* MeasureLatency asks for a connection: through the SSH client, or by the
\* SOCKS handshake over the tunnel.
Measure ==
  /\ probe = "measure"
  /\ IF ended.scan \/ ended.request
     THEN probe' = "close" /\ UNCHANGED task
     ELSE probe' = "request" /\ Launch(IF kind = "ssh" THEN "conn" ELSE "dial")
  /\ UNCHANGED <<kind, attempt, step, ended, tunnel, found, chan, reaper>>

(* Mutant: nobody waits for a connection whose context has ended. *)
SelectConnNoReaper ==
  LET t == IF kind = "ssh" THEN "conn" ELSE "dial"
  IN  /\ probe = "request"
      /\ \/ /\ ended.scan \/ ended.request
            /\ probe' = "close" /\ UNCHANGED <<chan, reaper>>
            /\ IF kind = "ssh" THEN UNCHANGED tunnel ELSE Close(attempt)
         \/ /\ chan[attempt][t] # "empty"
            /\ chan' = [chan EXCEPT ![attempt][t] = "empty"]
            /\ probe' = IF chan[attempt][t] = "ok" THEN "answered" ELSE "close"
            /\ UNCHANGED <<tunnel, reaper>>
      /\ UNCHANGED <<kind, attempt, step, ended, task, found>>

\* The select of the dial function: SSHDialContext leaves a goroutine that
\* closes a late connection, dialSOCKS closes the tunnel.
SelectConn ==
  LET t == IF kind = "ssh" THEN "conn" ELSE "dial"
  IN  /\ probe = "request"
      /\ \/ /\ ended.scan \/ ended.request
            /\ probe' = "close" /\ UNCHANGED chan
            /\ IF kind = "ssh"
               THEN reaper' = [reaper EXCEPT ![attempt] = "waiting"] /\ UNCHANGED tunnel
               ELSE Close(attempt) /\ UNCHANGED reaper
         \/ /\ chan[attempt][t] # "empty"
            /\ chan' = [chan EXCEPT ![attempt][t] = "empty"]
            /\ probe' = IF chan[attempt][t] = "ok" THEN "answered" ELSE "close"
            /\ UNCHANGED <<tunnel, reaper>>
      /\ UNCHANGED <<kind, attempt, step, ended, task, found>>

\* The request itself succeeds or fails; then runOnce's deferred close.
FinishRequest ==
  /\ probe = "answered"
  /\ probe' \in {"closeOK", "close"}
  /\ UNCHANGED <<kind, attempt, step, ended, tunnel>> /\ tasksSame

DeferredClose ==
  /\ probe \in {"close", "closeOK"}
  /\ Close(attempt)
  /\ probe' = IF probe = "closeOK" THEN "done" ELSE "failed"
  /\ UNCHANGED <<kind, attempt, step, ended>> /\ tasksSame

\* Run goes on to the next attempt, unless the scan has ended.
Retry ==
  /\ probe = "failed"
  /\ IF ended.scan \/ attempt = Tries
     THEN probe' = "done" /\ UNCHANGED <<attempt, ended>>
     ELSE /\ probe' = "create" /\ attempt' = attempt + 1
          /\ ended' = [ended EXCEPT !.request = FALSE]
  /\ UNCHANGED <<kind, step, tunnel>> /\ tasksSame

-----------------------------------------------------------------------------
(* The goroutines.                                                           *)

\* Connect of the SSH service: closed context, bad configuration, or a
\* handshake in a goroutine of its own.
ConnectSSH(a) ==
  /\ kind = "ssh" /\ task[a]["dial"] = "running" /\ task[a]["shake"] = "none"
  /\ \/ Answer(a, "dial", FALSE) /\ Close(a)
     \/ /\ ~ended.scan
        /\ task' = [task EXCEPT ![a]["shake"] = "running"] /\ UNCHANGED <<found, tunnel>>
  /\ UNCHANGED <<kind, probe, attempt, step, ended, chan, reaper>>

\* Its select: the scan's context against the handshake.
SelectShake(a) ==
  /\ kind = "ssh" /\ task[a]["dial"] = "running" /\ task[a]["shake"] # "none"
  /\ \/ ended.scan /\ Answer(a, "dial", FALSE) /\ Close(a) /\ UNCHANGED chan
     \/ /\ chan[a]["shake"] # "empty"
        /\ chan' = [chan EXCEPT ![a]["shake"] = "empty"]
        /\ Answer(a, "dial", chan[a]["shake"] = "ok")
        /\ IF chan[a]["shake"] = "ok" THEN UNCHANGED tunnel ELSE Close(a)
  /\ UNCHANGED <<kind, probe, attempt, step, ended, reaper>>

\* What waits for the peer: the SSH handshake, the SOCKS handshake and the
\* channel opened through the SSH client.
WaitsForPeer(a, t) ==
  task[a][t] = "running" /\ (t \in {"shake", "conn"} \/ kind = "socks")

PeerAnswers(a, t) ==
  /\ WaitsForPeer(a, t) /\ tunnel[a] = "open"
  /\ \E ok \in BOOLEAN : Answer(a, t, ok)
  /\ UNCHANGED <<kind, probe, attempt, step, ended, tunnel, chan, reaper>>

\* A closed tunnel, or the deadline Connect of the SOCKS service sets, ends
\* the wait.
WaitFails(a, t) ==
  /\ WaitsForPeer(a, t)
  /\ \/ tunnel[a] = "closed"
     \/ t = "dial" /\ ended.request
  /\ Answer(a, t, FALSE)
  /\ UNCHANGED <<kind, probe, attempt, step, ended, tunnel, chan, reaper>>

\* The channel has one place: a task delivers whether or not anyone listens.
HasRoom(a, t) == chan[a][t] = "empty"
Deliver(a, t) ==
  /\ task[a][t] = "sending" /\ HasRoom(a, t)
  /\ chan' = [chan EXCEPT ![a][t] = IF found[a][t] THEN "ok" ELSE "err"]
  /\ task' = [task EXCEPT ![a][t] = "gone"]
  /\ UNCHANGED <<kind, probe, attempt, step, ended, tunnel, found, reaper>>

\* SSHDialContext's second goroutine takes the late result and closes it.
Reap(a) ==
  /\ reaper[a] = "waiting" /\ chan[a]["conn"] # "empty"
  /\ chan' = [chan EXCEPT ![a]["conn"] = "empty"]
  /\ reaper' = [reaper EXCEPT ![a] = "gone"]
  /\ UNCHANGED <<kind, probe, attempt, step, ended, tunnel, task, found>>

ContextEnds ==
  /\ \E c \in {"scan", "request"} :
        /\ ~ended[c]
        /\ c = "request" => probe \in {"measure", "request"}
        /\ ended' = [ended EXCEPT ![c] = TRUE]
  /\ UNCHANGED <<kind, probe, attempt, step, tunnel>> /\ tasksSame

-----------------------------------------------------------------------------
\* What the program does by itself; the peer and the user may stay silent.
DialProgress ==
  \/ Run \/ CreateTunnel \/ EstablishTunnel \/ StartDial \/ SelectSSH
  \/ Measure \/ SelectConn \/ FinishRequest \/ DeferredClose \/ Retry
  \/ \E a \in Attempts :
        \/ ConnectSSH(a) \/ SelectShake(a) \/ Reap(a)
        \/ \E t \in Tasks : WaitFails(a, t) \/ Deliver(a, t)

DialNext ==
  \/ DialProgress
  \/ ContextEnds
  \/ \E a \in Attempts, t \in Tasks : PeerAnswers(a, t)

DialFairness == WF_dialVars(DialProgress)
DialSpec == DialInit /\ [][DialNext]_dialVars /\ DialFairness

(* A probe that is over leaves nothing behind: its tunnels end up closed,    *)
(* none of their goroutines stays blocked on a channel or on the peer, and a   *)
(* test connection that arrived too late is taken and closed.  And whatever  *)
(* the peer does, the end of the scan ends the probe.                        *)
LeavesNothing(a) ==
  /\ tunnel[a] \in {"none", "closed"}
  /\ \A t \in Tasks : task[a][t] \in {"none", "gone"}
  /\ reaper[a] # "waiting" /\ chan[a]["conn"] = "empty"
TunnelReleased ==
  /\ probe = "done" ~> \A a \in Attempts : LeavesNothing(a)
  /\ ended.scan ~> probe = "done"
=============================================================================
