------------------------------- MODULE MCParts -------------------------------
(* The parts of the core that share no state, checked in one run: each        *)
(* behaviour is one of the pause controller, the result writer, the merges of *)
(* a result file, the import and the stream of an address list, the probe of  *)
(* a target through a tunnel, the ICMP probe or one setting ("part").         *)
EXTENDS PauseController, ResultWriter, ResultMerge, IPStream, IPImport, DialRace,
        IcmpProbe, Settings

VARIABLE part

Kept == {4, 20}
R(s, h, on) == [start |-> s, hostBits |-> h, on |-> on]
Line(t, r) == [text |-> t, row |-> r]
MCLines == {Line(1, R(4, 2, TRUE)), Line(2, R(5, 0, TRUE)), Line(3, R(4, 2, TRUE)),
            Line(4, R(21, 0, FALSE)), Line(5, R(8, 3, TRUE)), Line(0, NoRow)}
MCFiles == UNION {[1..n -> MCLines] : n \in 0..2} \cup
             [1..3 -> {l \in MCLines : l.text \in {1, 3, 5}}]

\* A file is imported and the list that results is streamed; once the list is
\* open nothing depends any more on how it was imported.
OpenList ==
    /\ ipc = "imported"
    /\ \E lim \in StreamLimits : OpenSequential(dst, lim) \/ OpenShuffled(dst, lim)
    /\ ipc' = "gone" /\ src' = <<>> /\ size' = "small" /\ dst' = <<>>
    /\ next' = 1 /\ chunks' = <<>> /\ sorted' = <<>> /\ last' = {}
ListProgress ==
    \/ ImportStep /\ UNCHANGED streamVars
    \/ OpenList
    \/ StreamStep /\ UNCHANGED importVars
ListNext ==
    \/ ListProgress
    \/ ImportFails /\ UNCHANGED streamVars
    \/ Cancelled /\ UNCHANGED importVars
listVars == <<streamVars, importVars>>

\* The workers of the ICMP probe are alike, so one of them may be the first to
\* test a target.
FirstPinger == CHOOSE w \in Pingers : TRUE
InTurn == \A w \in Pingers : ping'[w].runs <= ping'[FirstPinger].runs

all == <<part, vars, writerVars, mergeVars, listVars, dialVars, icmpVars, settingVars>>

\* The parts that are not looked at stay in one of their initial states.
PartsInit ==
    /\ part \in {"pause", "writer", "merge", "list", "dial", "icmp", "settings"}
    /\ Init /\ WriterInit /\ MergeInit /\ ImportInit /\ StreamInit /\ DialInit
    /\ IcmpInit /\ SettingsInit
    /\ part # "writer" => onFile = {}
    /\ part # "list" => src = <<>> /\ size = "small"
    /\ part # "dial" => kind = "ssh"
    /\ part # "settings" => field = <<"tcp", "Port">> /\ disk.is = "absent"

PartsNext ==
    /\ UNCHANGED part
    /\ \/ /\ part = "pause" /\ Next
          /\ UNCHANGED <<writerVars, mergeVars, listVars, dialVars, icmpVars, settingVars>>
       \/ /\ part = "writer" /\ WriterNext
          /\ UNCHANGED <<vars, mergeVars, listVars, dialVars, icmpVars, settingVars>>
       \/ /\ part = "merge" /\ MergeNext
          /\ UNCHANGED <<vars, writerVars, listVars, dialVars, icmpVars, settingVars>>
       \/ /\ part = "list" /\ ListNext
          /\ UNCHANGED <<vars, writerVars, mergeVars, dialVars, icmpVars, settingVars>>
       \/ /\ part = "dial" /\ DialNext
          /\ UNCHANGED <<vars, writerVars, mergeVars, listVars, icmpVars, settingVars>>
       \/ /\ part = "icmp" /\ IcmpNext /\ InTurn
          /\ UNCHANGED <<vars, writerVars, mergeVars, listVars, dialVars, settingVars>>
       \/ /\ part = "settings" /\ SettingsNext
          /\ UNCHANGED <<vars, writerVars, mergeVars, listVars, dialVars, icmpVars>>

\* The fairness each part has in its module, for the behaviours of that part.
PartsFairness ==
    /\ \A w \in Workers : WF_vars(part = "pause" /\ Wait(w))
    /\ WF_vars(part = "pause" /\ PauseInstall)
    /\ \A c \in Callers : WF_vars(part = "pause" /\ ResumeClose(c))
    /\ \A c \in Stoppers :
         WF_vars(part = "pause" /\ cpc[c] # "idle" /\ (Stop(c) \/ ResumeSwap(c)))
    /\ WF_writerVars(part = "writer" /\ StoreStarted)
    /\ WF_writerVars(part = "writer" /\ Loop)
    /\ SF_writerVars(part = "writer" /\ LoopReceive)
    /\ SF_writerVars(part = "writer" /\ LoopInputClosed)
    /\ SF_writerVars(part = "writer" /\ LoopCtxDone)
    /\ \A r \in Results : WF_writerVars(part = "writer" /\ Write(r))
    /\ \A c \in Closers :
         WF_writerVars(part = "writer" /\ (CloseInput(c) \/ CloseNotStarted(c)
                                           \/ CloseStarted(c) \/ CloseWait(c)))
    /\ WF_listVars(part = "list" /\ ListProgress)
    /\ WF_dialVars(part = "dial" /\ DialProgress)

Parts == PartsInit /\ [][PartsNext]_all /\ PartsFairness
=============================================================================
