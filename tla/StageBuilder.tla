---------------------------- MODULE StageBuilder ----------------------------
(***************************************************************************)
(* A scan is put together: NewScanner, the Build methods of stagebuilder.go *)
(* and the engine's chain in scanner.go.  What the user chose becomes one  *)
(* stage, or two: an Xray scan may be preceded by a TCP, ICMP or HTTP      *)
(* stage, that of a DNS tunnel by one that asks every address as a         *)
(* resolver.  Each stage gets a probe first and a result file then, and    *)
(* anything may fail on the way.                                           *)
(*                                                                         *)
(* The settings are any that validation accepts (module Settings).  A word *)
(* of the settings is its meaning and how it is spelled: "member" as in    *)
(* the list of allowed words, "MEMBER" in another case, accepted as well.  *)
(***************************************************************************)
EXTENDS Naturals, Sequences

LOCAL Rules == INSTANCE Settings
    WITH MaxStarts <- 0, NoValue <- "none", field <- <<"http", "TLS">>, disk <- 0,
         memory <- 0, run <- "off", saving <- FALSE, kept <- 0, starts <- 0

PlainScans == {"icmp", "tcp", "http", "resolve"}
Tunnels == {"dnstt", "vaydns", "slipstream", "masterdns", "stormdns", "thefeed"}
ScanTypes == PlainScans \cup Tunnels \cup {"xray"}

Accepted(section, field) ==
    LET rule == Rules!Checks[section][field]
    IN  {v \in Rules!Samples(rule) : Rules!Passes(rule, v)}

PreScans == {"none", "tcp", "icmp", "http"}
Modes == {"sequential", "streaming", "batch"}
Transports == {"udp", "tcp", "dot"}
Spelled(words, how) == [word : words, how : how]

AllSettings ==
    [preScan : Spelled(PreScans, Accepted("xray", "PreScanType")),
     mode : Spelled(Modes, Accepted("general", "PipelineMode")),
     tls : Accepted("http", "TLS"),
     check : BOOLEAN,      \* check_dns_resolver
     adaptive : BOOLEAN]   \* adaptive_resolver

(* How somebody is asked over DNS.  The resolver's own settings are one     *)
(* path, a saved tunnel is another; only three protocols have a transport   *)
(* in their configuration, and its case is free.                            *)
Path(port, transport, domain) == [port |-> port, transport |-> transport, domain |-> domain]
OwnPath == Path(53, [word |-> "udp", how |-> "member"], "settings")
SavedTunnels ==
    {Path(port, transport, "tunnel") : port \in {53, 853},
                                       transport \in Spelled(Transports, {"member", "MEMBER"})}

VARIABLES
    wanted,    \* what the user chose to scan with
    conf,      \* the settings
    tun,       \* the saved tunnel
    bpc,       \* "new", "ports", "services", "plan", "probe", "writer", "add",
               \* "ready", "running" or "failed"
    todo,      \* the stages still to be built
    built,     \* the stages built
    added,     \* the stages the scanner has
    chainMode, \* the mode the engine is called with
    refused,   \* why the building failed: the "settings", the "system" (a file,
               \* a socket, a library, a saved tunnel), or "none"
    fate       \* the scanner whose building failed: "none", "closed", "dropped"

buildVars == <<wanted, conf, tun, bpc, todo, built, added, chainMode, refused, fate>>

(* Settings that make no difference to what is wanted have one value.       *)
Matters(w, c, t) ==
    /\ w # "xray" => c.preScan = [word |-> "none", how |-> "member"]
    /\ w # "http" /\ ~(w = "xray" /\ c.preScan.word = "http") => c.tls = <<"tls1.2", "tls1.3">>
    /\ w \notin Tunnels => ~c.check /\ ~c.adaptive
    /\ w \in PlainScans => c.mode.how = "member"
    /\ w \notin {"dnstt", "vaydns", "thefeed"} => t.transport = OwnPath.transport
    /\ w \notin Tunnels => t.port = 53

BuildInit ==
    /\ wanted \in ScanTypes
    /\ tun \in SavedTunnels
    /\ conf \in {c \in AllSettings : Matters(wanted, c, tun)}
    /\ bpc = "new" /\ todo = <<>> /\ built = <<>> /\ added = <<>>
    /\ chainMode = "none" /\ refused = "none" /\ fate = "none"

-----------------------------------------------------------------------------
(* Stages: the probe, and for a resolver how it asks.                        *)
NewStage(probe) == [probe |-> probe, asks |-> OwnPath]

ParseResolverType(t) == [word |-> t.word, how |-> "member"]
ResolverStage(path) ==
    [NewStage("resolve") EXCEPT
        !.asks = Path(path.port, ParseResolverType(path.transport), path.domain)]

(* The stages of a tunnel: the resolvers are checked with their own settings *)
(* or, if that is to adapt, on the path given for the tunnel.               *)
TunnelStages(w, path) ==
    (IF conf.check THEN <<ResolverStage(IF conf.adaptive THEN path ELSE OwnPath)>> ELSE <<>>)
        \o <<NewStage(w)>>
OverUDP == Path(tun.port, [word |-> "udp", how |-> "member"], tun.domain)

BuildDNSTTStage == TunnelStages("dnstt", tun)

(* Mutant: the stages are built as those of a tunnel that has no transport. *)
BuildVayDNSStageOverUDP == TunnelStages("vaydns", OverUDP)

BuildVayDNSStage == TunnelStages("vaydns", tun)
BuildTheFeedStage == TunnelStages("thefeed", tun)
BuildSlipStreamStage == TunnelStages("slipstream", OverUDP)
BuildMasterDNSStage == TunnelStages("masterdns", OverUDP)
BuildStormDNSStage == TunnelStages("stormdns", OverUDP)

BuildICMPStage == <<NewStage("icmp")>>
BuildTCPStage == <<NewStage("tcp")>>
BuildHTTPStage == <<NewStage("http")>>
BuildResolveStage == <<ResolverStage(OwnPath)>>

(* The switch over the type of the pre-scan compares it as it is spelled.    *)
PreScanKnown == conf.preScan.how = "member"
PreScanStage ==
    CASE conf.preScan.word = "none" -> <<>>
      [] conf.preScan.word = "tcp" -> BuildTCPStage
      [] conf.preScan.word = "icmp" -> BuildICMPStage
      [] conf.preScan.word = "http" -> BuildHTTPStage
BuildXrayStage == PreScanStage \o <<NewStage("xray")>>

(* The menu calls the method of what was chosen.                            *)
BuildStages ==
    [icmp |-> BuildICMPStage, tcp |-> BuildTCPStage, http |-> BuildHTTPStage,
     resolve |-> BuildResolveStage, xray |-> BuildXrayStage, dnstt |-> BuildDNSTTStage,
     vaydns |-> BuildVayDNSStage, slipstream |-> BuildSlipStreamStage,
     thefeed |-> BuildTheFeedStage, masterdns |-> BuildMasterDNSStage,
     stormdns |-> BuildStormDNSStage][wanted]

(* resolveTLSVersions: both are read in any case, and compared.             *)
Versions == <<"tls1.0", "tls1.1", "tls1.2", "tls1.3">>
Version(v) == IF v = "TLS1.2" THEN 3 ELSE CHOOSE i \in DOMAIN Versions : v = Versions[i]
TLSInOrder == Version(conf.tls[1]) <= Version(conf.tls[2])

(* Where a schema's results are stored; a tunnel's by its protocol.         *)
Directory(probe) == IF probe = "resolve" THEN "dns_resolver" ELSE probe

(* How the tunnel itself will ask: the transport of the VayDNS library is     *)
(* chosen by the text as it is spelled; TheFeed's query and the embedded    *)
(* clients always use UDP.                                                  *)
toVayDNSResolverType(t) ==
    IF t.how = "member" THEN t ELSE [word |-> "udp", how |-> "member"]
TunnelPath ==
    IF wanted \in {"dnstt", "vaydns"}
    THEN Path(tun.port, toVayDNSResolverType(tun.transport), tun.domain)
    ELSE OverUDP

-----------------------------------------------------------------------------
(* What createScanner of the menu does about an error: the plain, resolver  *)
(* and Xray scans close the scanner, those of a tunnel drop it.             *)
Fail(why) ==
    /\ bpc' = "failed"
    /\ refused' = why
    /\ fate' = CASE bpc = "services" -> "none"
                 [] bpc \in {"plan", "probe", "writer"} ->
                      IF wanted \in Tunnels THEN "dropped" ELSE "closed"

(* NewScanner: the settings are normalized; then come the port manager,      *)
(* which is never refused 3000 ports, and the tunnel services, of which     *)
(* Slipstream loads a library.                                              *)
NewScanner ==
    /\ bpc = "new"
    /\ bpc' = "ports"
    /\ UNCHANGED <<wanted, conf, tun, todo, built, added, chainMode, refused, fate>>

InitPortManager ==
    /\ bpc = "ports"
    /\ bpc' = "services"
    /\ UNCHANGED <<wanted, conf, tun, todo, built, added, chainMode, refused, fate>>

InitDNSServices ==
    /\ bpc = "services"
    /\ \/ bpc' = "plan" /\ UNCHANGED <<refused, fate>>
       \/ Fail("system")
    /\ UNCHANGED <<wanted, conf, tun, todo, built, added, chainMode>>

(* A Build method decides on its stages.  The saved tunnel may be gone.     *)
Plan ==
    /\ bpc = "plan"
    /\ IF wanted = "xray" /\ ~PreScanKnown THEN Fail("settings") /\ UNCHANGED todo
       ELSE \/ bpc' = "probe" /\ todo' = BuildStages /\ UNCHANGED <<refused, fate>>
            \/ wanted \in Tunnels /\ Fail("system") /\ UNCHANGED todo
    /\ UNCHANGED <<wanted, conf, tun, built, added, chainMode>>

(* The probe: an ICMP one needs a socket, an HTTP one a request, a tunnel    *)
(* validates its configuration again; the others are made in any case.      *)
NewProbe ==
    /\ bpc = "probe"
    /\ LET probe == Head(todo).probe
       IN  IF probe = "http" /\ ~TLSInOrder THEN Fail("settings")
           ELSE \/ bpc' = "writer" /\ UNCHANGED <<refused, fate>>
                \/ probe \in Tunnels \cup {"icmp"} /\ Fail("system")
    /\ UNCHANGED <<wanted, conf, tun, todo, built, added, chainMode>>

(* The writer: its directory is created, nothing is opened yet.  The stage  *)
(* is complete, the next one follows.                                       *)
NewWriter ==
    /\ bpc = "writer"
    /\ \/ /\ built' = Append(built, Head(todo))
          /\ todo' = Tail(todo)
          /\ bpc' = IF Len(todo) = 1 THEN "add" ELSE "probe"
          /\ UNCHANGED <<refused, fate>>
       \/ Fail("system") /\ UNCHANGED <<built, todo>>
    /\ UNCHANGED <<wanted, conf, tun, added, chainMode>>

(* One AddStage per stage; nobody else has the scanner yet, so it is neither *)
(* started nor closed and none is refused.                                  *)
AddStage ==
    /\ bpc = "add"
    /\ added' = Append(added, built[Len(added) + 1])
    /\ bpc' = IF Len(added) + 1 = Len(built) THEN "ready" ELSE "add"
    /\ UNCHANGED <<wanted, conf, tun, todo, built, chainMode, refused, fate>>

(* The screen of the scan calls Run, which takes the pipeline mode only for  *)
(* more than one stage.                                                     *)
ParsePipelineMode(m) == m.word
RunPipeline ==
    /\ bpc = "ready"
    /\ chainMode' = IF Len(added) > 1 THEN ParsePipelineMode(conf.mode) ELSE "sequential"
    /\ bpc' = "running"
    /\ UNCHANGED <<wanted, conf, tun, todo, built, added, refused, fate>>

BuildNext ==
    \/ NewScanner \/ InitPortManager \/ InitDNSServices
    \/ Plan \/ NewProbe \/ NewWriter \/ AddStage \/ RunPipeline

-----------------------------------------------------------------------------
(* Part of ChainAsSet: what the engine is called with.                      *)
RunsWhatIsSet ==
    bpc = "running" =>
        /\ added[Len(added)].probe = wanted
        /\ \A i, j \in DOMAIN added :
             Directory(added[i].probe) = Directory(added[j].probe) => i = j
        /\ Len(added) > 1 => chainMode = conf.mode.word

(* The check of the resolvers takes the way the tunnel will take: "the       *)
(* resolver pre-scan settings are adjusted automatically to match the       *)
(* transport, port, and domain of the tunnel config.  This way the pre-scan *)
(* checks the same path the tunnel is going to use" (dns-tunneling/_index). *)
ChecksThePath ==
    (bpc = "running" /\ conf.adaptive /\ conf.check) => added[1].asks = TunnelPath

Excepted == wanted = "thefeed" \/ tun.transport.how # "member"

(* The chain that runs is the one the settings describe: the chosen probe is *)
(* last and decides what is reported, no two stages write to one result     *)
(* file, whatever prefixes they have, and the mode of the settings holds in *)
(* any case (engine/type.go: ParsePipelineMode; registry.go:                *)
(* prepareResultFilePath).  The resolvers are checked on the path of the    *)
(* tunnel, but for TheFeed and for a transport in another case.  Settings   *)
(* that validation accepts never fail to build, except two words in another *)
(* case: the type of the pre-scan, and a TLS version, whose order validation *)
(* then does not check (validate.go: checkEnum, checkEnumOrder).            *)
ChainAsSet ==
    /\ RunsWhatIsSet
    /\ Excepted \/ ChecksThePath
    /\ refused = "settings" =>
         \/ wanted = "xray" /\ conf.preScan.how # "member"
         \/ "TLS1.2" \in {conf.tls[1], conf.tls[2]}
=============================================================================
