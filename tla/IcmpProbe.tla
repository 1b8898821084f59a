------------------------------ MODULE IcmpProbe ------------------------------
(* The ICMP probe: every worker's pings share one socket, one counter of      *)
(* sequence numbers that wraps around (16 bits), and one table from sequence  *)
(* number to the ping that waits for it.  A reader goroutine looks a reply up *)
(* and signals the ping it finds.                                             *)
(* The source is core/scanner/probe/icmpprobe/icmp.go.  IPv4 only: the IPv6   *)
(* socket is a second copy with keys of its own.                              *)
EXTENDS Naturals

CONSTANTS
  Pingers,      \* the workers of the stage
  Targets,      \* the addresses they test
  Answering,    \* the targets that answer echo requests
  SeqSpace,       \* the number of sequence numbers, 65536 in the code
  PingTries,    \* attempts at one target
  MaxRuns,      \* bound of the model: targets a worker tests
  NoWaiter

ASSUME IcmpAssumption ==
  /\ Targets # {} /\ Answering \subseteq Targets
  /\ SeqSpace \in Nat \ {0} /\ PingTries \in Nat /\ MaxRuns \in Nat
  /\ NoWaiter \notin [who : Pingers, ip : Targets, run : Nat, try : Nat]

VARIABLES
  seq,        \* the last sequence number handed out
  waiters,    \* the table: sequence number -> the waiter stored last, or NoWaiter
  ping,       \* per worker: [at, ip, try, seq, runs, age, signal]
  asked,      \* the echo requests sent, as <<sequence number, target>>
  reader,     \* the reader goroutine: what it found in the table for a reply
  stopped     \* the reader has returned

icmpVars == <<seq, waiters, ping, asked, reader, stopped>>

Seqs == 0..(SeqSpace - 1)
\* A waiter belongs to one ping of one worker.
Waiter(w) == [who |-> w, ip |-> ping[w].ip, run |-> ping[w].runs, try |-> ping[w].try]
Idle == [at |-> "idle", ip |-> CHOOSE t \in Targets : TRUE, try |-> 0, seq |-> 0,
         runs |-> 0, age |-> 0, signal |-> FALSE]
Live(w) == ping[w].at \in {"send", "wait", "leave", "leaveOK"}

IcmpInit ==
  /\ seq = 0 /\ waiters = [s \in Seqs |-> NoWaiter]
  /\ ping = [w \in Pingers |-> Idle]
  /\ asked = {} /\ reader = [waiter |-> NoWaiter, from |-> NoWaiter] /\ stopped = FALSE

\* Run: the next target of a worker.
StartRun(w) ==
  /\ ping[w].at \in {"idle", "ok", "failed"} /\ ping[w].runs < MaxRuns
  /\ \E t \in Targets :
        ping' = [ping EXCEPT ![w] = [Idle EXCEPT !.at = "try", !.ip = t, !.runs = ping[w].runs + 1]]
  /\ UNCHANGED <<seq, waiters, asked, reader, stopped>>

\* The head of Run's loop: the tries are used up, or the context has ended.
GiveUp(w) ==
  /\ ping[w].at = "try"
  /\ ping' = [ping EXCEPT ![w].at = "failed"]
  /\ UNCHANGED <<seq, waiters, asked, reader, stopped>>

\* Ping takes a number and stores its waiter over whatever has that number.
\* "age" counts the numbers handed out since, for the properties.
Register(w) ==
  LET s == (seq + 1) % SeqSpace
  IN  /\ ping[w].at = "try" /\ ping[w].try < PingTries
      /\ seq' = s
      /\ ping' = [v \in Pingers |->
                    IF v = w THEN [ping[w] EXCEPT !.at = "send", !.try = @ + 1, !.seq = s,
                                                  !.age = 0, !.signal = FALSE]
                    ELSE [ping[v] EXCEPT !.age = IF @ < SeqSpace THEN @ + 1 ELSE @]]
      /\ waiters' = [waiters EXCEPT ![s] = [Waiter(w) EXCEPT !.try = @ + 1]]
      /\ UNCHANGED <<asked, reader, stopped>>

\* The request is written, or cannot be.
Send(w) ==
  /\ ping[w].at = "send"
  /\ \/ /\ ping' = [ping EXCEPT ![w].at = "wait"]
        /\ asked' = asked \cup {<<ping[w].seq, ping[w].ip>>}
     \/ ping' = [ping EXCEPT ![w].at = "leave"] /\ UNCHANGED asked
  /\ UNCHANGED <<seq, waiters, reader, stopped>>

\* The select of Ping: the signal, or one of timeout, closed probe and ended
\* context, each of which can come while the signal is there.
Wake(w) ==
  /\ ping[w].at = "wait"
  /\ \/ ping[w].signal /\ ping' = [ping EXCEPT ![w].at = "leaveOK"]
     \/ ping' = [ping EXCEPT ![w].at = "leave"]
  /\ UNCHANGED <<seq, waiters, asked, reader, stopped>>

\* The deferred delete removes whichever waiter has the number now.
Leave(w) ==
  /\ ping[w].at \in {"leave", "leaveOK"}
  /\ waiters' = [waiters EXCEPT ![ping[w].seq] = NoWaiter]
  /\ ping' = [ping EXCEPT ![w].at = IF @ = "leaveOK" THEN "ok" ELSE "try"]
  /\ UNCHANGED <<seq, asked, reader, stopped>>

\* handlePacket looks a reply up.  Replies may be lost, late, repeated and out
\* of order: any answer to any request sent so far may be the next to arrive.
LookUp ==
  /\ reader.waiter = NoWaiter /\ ~stopped
  /\ \E r \in asked : 
        /\ r[2] \in Answering /\ waiters[r[1]] # NoWaiter
        /\ reader' = [waiter |-> waiters[r[1]], from |-> r[2]]
  /\ UNCHANGED <<seq, waiters, ping, asked, stopped>>

(* Mutant: any reply with the number of a ping is taken for its own. *)
AddrMatchesAny(waiter, from) == TRUE

\* It compares the sender and signals; the channel has one place, and nobody
\* listens on the channel of a ping that is over.
AddrMatches(waiter, from) == waiter.ip = from
Signal ==
  LET w == reader.waiter
  IN  /\ w # NoWaiter
      /\ ping' = IF AddrMatches(w, reader.from) /\ Live(w.who) /\ Waiter(w.who) = w
                 THEN [ping EXCEPT ![w.who].signal = TRUE] ELSE ping
      /\ reader' = [waiter |-> NoWaiter, from |-> NoWaiter]
      /\ UNCHANGED <<seq, waiters, asked, stopped>>

\* Close, or any error of the socket that is not a timeout: no reply is read
\* any more, and every ping under way or to come runs into its timeout.
ReaderStops ==
  /\ ~stopped /\ stopped' = TRUE
  /\ UNCHANGED <<seq, waiters, ping, asked, reader>>

IcmpNext ==
  \/ \E w \in Pingers : StartRun(w) \/ GiveUp(w) \/ Register(w) \/ Send(w) \/ Wake(w) \/ Leave(w)
  \/ LookUp \/ Signal \/ ReaderStops

IcmpSpec == IcmpInit /\ [][IcmpNext]_icmpVars

(* A reply never counts for another target, whatever the sequence numbers do: *)
(* only a target that answers is reported reachable.  And no ping takes the   *)
(* waiter of another one out of the table, by storing its own or by its       *)
(* deferred delete, while the numbers have not come round since the oldest    *)
(* ping still under way.                                                      *)
InOneRound == \A w \in Pingers : Live(w) => ping[w].age < SeqSpace
Stored(w) == Live(w) /\ waiters[ping[w].seq] = Waiter(w)
PingsMatched ==
  /\ [](\A w \in Pingers : ping[w].at = "ok" => ping[w].ip \in Answering)
  /\ [][\A w \in Pingers :
          Stored(w) /\ InOneRound /\ InOneRound' => Stored(w)' \/ ~Live(w)']_icmpVars
=============================================================================
