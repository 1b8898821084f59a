------------------------------ MODULE Settings ------------------------------
(* The scanner's settings: what is accepted (Validate), what is replaced when *)
(* a file is loaded (Normalize), the defaults, what the settings screens let  *)
(* the user enter, and the life of one setting between the file, the memory   *)
(* shared with the scans, and the next start of the program.                  *)
(* The sources are core/config, core/config/validate and the inspectors under *)
(* ui/components/inspector.  Every operation treats the fields of a section   *)
(* one by one, so one field, chosen at the start, is followed; the other      *)
(* fields appear as saves of the same section.  A duration is a number of     *)
(* milliseconds; a text is one of the classes the checks tell apart.          *)
EXTENDS Integers, Sequences

CONSTANTS MaxStarts,    \* bound of the model: starts of the program
          NoValue

(* Rules: how a field is checked.                                            *)
Between(lo, hi) == [rule |-> "int", lo |-> lo, hi |-> hi]
Duration(lo, hi) == [rule |-> "duration", lo |-> lo, hi |-> hi]
AtLeast(lo) == [rule |-> "at least", lo |-> lo, hi |-> 0]
Rule(name) == [rule |-> name, lo |-> 0, hi |-> 0]

checkInt(v, lo, hi) == lo <= v /\ v <= hi
checkDuration(v, lo, hi) == v + 1 >= lo /\ v - 1 <= hi      \* epsilon
checkString(v) == v # "blank"
checkEnum(v) == v \in {"member", "MEMBER"}                  \* in any case
checkPrefix(v) == v \in {"plain", "a..b"}
checkDirectoryName(v) == v = "plain"
checkHost(v) == v \in {"domain", "domain:port", "domain/path"}
checkSNI(v) == v \in {"blank", "domain"}
checkDomain(v) == checkString(v) /\ checkSNI(v)
checkStringSlice(v) == v = "some"
checkStatusCodes(v) == v # "bad"
ValidFingerprint(v) == v \in {"blank", "known"}

allowedTLSVersions == <<"tls1.0", "tls1.1", "tls1.2", "tls1.3">>
AnyCase == {"tls1.0", "tls1.1", "tls1.2", "tls1.3", "TLS1.2"}
\* Both versions known, and in order; a version in another case has no place
\* in the list and is not compared.
checkEnumOrder(min, max) ==
  \A i, j \in DOMAIN allowedTLSVersions :
     min = allowedTLSVersions[i] /\ max = allowedTLSVersions[j] => i <= j
checkTLS(v) == v[1] \in AnyCase /\ v[2] \in AnyCase /\ checkEnumOrder(v[1], v[2])

Passes(r, v) ==
  CASE r.rule = "int" -> checkInt(v, r.lo, r.hi)
    [] r.rule = "duration" -> checkDuration(v, r.lo, r.hi)
    [] r.rule = "at least" -> v >= r.lo
    [] r.rule = "enum" -> checkEnum(v)
    [] r.rule = "not blank" -> checkString(v)
    [] r.rule = "prefix" -> checkPrefix(v)
    [] r.rule = "directory" -> checkDirectoryName(v)
    [] r.rule = "host" -> checkHost(v)
    [] r.rule = "sni" -> checkSNI(v)
    [] r.rule = "domain" -> checkDomain(v)
    [] r.rule = "slice" -> checkStringSlice(v)
    [] r.rule = "codes" -> checkStatusCodes(v)
    [] r.rule = "fingerprint" -> ValidFingerprint(v)
    [] r.rule = "tls" -> checkTLS(v)

\* The values of the model: both sides of every boundary.
FileNames == {"blank", "plain", "a..b", "a/b", ".a"}
Names == {"blank", "domain", "domain:port", "domain/path", "scheme", "malformed"}
Samples(r) ==
  CASE r.rule = "int" -> {0, r.lo - 1, r.lo, r.hi, r.hi + 1}
    [] r.rule = "duration" -> {0, r.lo - 2, r.lo - 1, r.lo, r.hi, r.hi + 1, r.hi + 2}
    [] r.rule = "at least" -> {r.lo - 1, r.lo, r.lo + 1}
    [] r.rule = "enum" -> {"member", "MEMBER", "other"}
    [] r.rule \in {"prefix", "directory", "not blank"} -> FileNames
    [] r.rule \in {"host", "sni", "domain"} -> Names
    [] r.rule = "slice" -> {"some", "none"}
    [] r.rule = "codes" -> {"some", "none", "bad"}
    [] r.rule = "fingerprint" -> {"blank", "known", "unknown"}
    [] r.rule = "tls" -> {"tls1.0", "tls1.2", "tls1.3", "TLS1.2", "ssl3"} \X
                         {"tls1.0", "tls1.2", "tls1.3", "TLS1.2", "ssl3"}
\* What a key that the file does not have is read as.
Zero(r) ==
  CASE r.rule \in {"int", "duration", "at least"} -> 0
    [] r.rule = "enum" -> "other"
    [] r.rule \in {"slice", "codes"} -> "none"
    [] r.rule = "tls" -> <<"ssl3", "ssl3">>
    [] OTHER -> "blank"

-----------------------------------------------------------------------------
(* What Validate checks, per section.  MinTLSVersion and MaxTLSVersion, which *)
(* are checked together, are one field, TLS.                                  *)
Enum == Rule("enum")
FilePrefix == Rule("prefix")

GeneralChecks ==
  [StatusInterval |-> Duration(100, 60000), MaxSuccessfulIPs |-> AtLeast(0),
   MaxIPsToTest |-> AtLeast(0), MaxIPsPerStage |-> Between(1, 10000000),
   BatchSize |-> Between(1, 10000000), PipelineMode |-> Enum,
   MinProbeDuration |-> Duration(10, 5000), ProbePerSec |-> Between(1, 1000000),
   ProbeBurst |-> Between(1, 10000)]
WriterChecks ==
  [MergeFlushInterval |-> Duration(100, 300000), ChanSize |-> Between(1, 1000000),
   BatchSize |-> Between(1, 102400), ResultBaseDir |-> Rule("directory")]
ICMPChecks ==
  [Workers |-> Between(1, 5000), Timeout |-> Duration(100, 30000), Tries |-> Between(1, 10),
   OutputPrefix |-> FilePrefix]
TCPChecks ==
  [Workers |-> Between(1, 5000), Port |-> Between(1, 65535), Timeout |-> Duration(100, 30000),
   Tries |-> Between(1, 10), OutputPrefix |-> FilePrefix]
HTTPChecks ==
  [Workers |-> Between(1, 1000), Host |-> Rule("host"), ServerName |-> Rule("sni"),
   Port |-> Between(1, 65535), Protocol |-> Enum, Timeout |-> Duration(100, 60000),
   Version |-> Enum, Fingerprint |-> Rule("fingerprint"), TLS |-> Rule("tls"),
   OutputPrefix |-> FilePrefix, AcceptedStatusCodes |-> Rule("codes")]
XrayChecks ==
  [Workers |-> Between(1, 500), ConnectivityTestType |-> Between(0, 3),
   DownloadSpeed |-> Between(0, 100000), UploadSpeed |-> Between(0, 100000),
   Timeout |-> Duration(100, 60000), SpeedTestTimeout |-> Duration(100, 60000),
   PreScanType |-> Enum, OutputPrefix |-> FilePrefix, MaxConcurrentDials |-> Between(0, 10000),
   DialMaxAttempts |-> Between(1, 10)]
ResolverChecks ==
  [Workers |-> Between(1, 2500), Transport |-> Enum, Domain |-> Rule("domain"),
   Port |-> Between(1, 65535), CheckTypes |-> Rule("slice"), Timeout |-> Duration(100, 30000),
   Tries |-> Between(1, 10), DPITries |-> Between(1, 10), DPITimeout |-> Duration(100, 10000),
   OutputPrefix |-> FilePrefix]
TunnelingChecks ==
  [Workers |-> Between(1, 500), Timeout |-> Duration(100, 60000), Tries |-> Between(1, 10),
   OutputPrefix |-> FilePrefix]

(* What Normalize replaces: in three sections a prefix only when it is blank. *)
NotBlank == Rule("not blank")
GeneralFixes == GeneralChecks
WriterFixes == WriterChecks
ICMPFixes == [ICMPChecks EXCEPT !.OutputPrefix = NotBlank]
TCPFixes == TCPChecks
HTTPFixes == [HTTPChecks EXCEPT !.OutputPrefix = NotBlank]
XrayFixes == [XrayChecks EXCEPT !.OutputPrefix = NotBlank]
ResolverFixes == ResolverChecks
TunnelingFixes == TunnelingChecks

(* The defaults: one value for every platform and tier, or the values the     *)
(* platforms and tiers have.                                                  *)
GeneralDefaults ==
  [StatusInterval |-> {1000}, MaxSuccessfulIPs |-> {0}, MaxIPsToTest |-> {0},
   MaxIPsPerStage |-> {10000, 20000, 50000, 100000, 200000, 500000},
   BatchSize |-> {500, 1000, 2000, 5000, 10000, 20000}, PipelineMode |-> {"member"},
   MinProbeDuration |-> {5, 10, 20, 50, 80, 100},
   ProbePerSec |-> {120, 160, 200, 220, 400, 500, 800, 2000},
   ProbeBurst |-> {30, 50, 100, 200, 300}]
WriterDefaults ==
  [MergeFlushInterval |-> {2000}, ChanSize |-> {128, 256, 512, 1024, 2048, 4096, 16384},
   BatchSize |-> {512, 1024, 2048, 4096, 8192, 16384, 65536}, ResultBaseDir |-> {"plain"}]
ICMPDefaults ==
  [Workers |-> {15, 30, 60, 100, 150, 300, 400, 1000}, Timeout |-> {1500, 2000, 2500, 3000},
   Tries |-> {1}, OutputPrefix |-> {"plain"}]
TCPDefaults ==
  [Workers |-> {20, 30, 100, 150, 200, 400, 1000}, Port |-> {443},
   Timeout |-> {1500, 2000, 2500, 3000}, Tries |-> {1}, OutputPrefix |-> {"plain"}]
HTTPDefaults ==
  [Workers |-> {5, 15, 20, 30, 50, 100, 200, 500}, Host |-> {"domain"},
   ServerName |-> {"blank"}, Port |-> {443}, Protocol |-> {"member"},
   Timeout |-> {2000, 3000, 4000, 5000}, Version |-> {"member"}, Fingerprint |-> {"blank"},
   TLS |-> {<<"tls1.1", "tls1.3">>}, OutputPrefix |-> {"plain"},
   AcceptedStatusCodes |-> {"none"}]
XrayDefaults ==
  [Workers |-> {4, 8, 16, 32, 64}, ConnectivityTestType |-> {3},
   DownloadSpeed |-> {20, 50, 80, 100, 150, 200}, UploadSpeed |-> {10, 25, 40, 50, 75, 100},
   Timeout |-> {2000, 3000}, SpeedTestTimeout |-> {5000, 6000}, PreScanType |-> {"member"},
   OutputPrefix |-> {"plain"}, MaxConcurrentDials |-> {32, 64, 128, 256, 512},
   DialMaxAttempts |-> {2, 3}]
ResolverDefaults ==
  [Workers |-> {15, 30, 40, 80, 100, 200}, Transport |-> {"member"}, Domain |-> {"domain"},
   Port |-> {53}, CheckTypes |-> {"some"}, Timeout |-> {1500, 2000, 2500, 3000},
   Tries |-> {1}, DPITries |-> {1}, DPITimeout |-> {2000}, OutputPrefix |-> {"plain"}]
TunnelingDefaults ==
  [Workers |-> {3, 6, 8, 12, 16, 24, 32, 64}, Timeout |-> {8000, 10000}, Tries |-> {1},
   OutputPrefix |-> {"plain"}]

(* How the settings screens let every field be entered: typed and checked by *)
(* Validate, or picked among the values they offer.                           *)
Typed == {}
TypedAll(checks) == [f \in DOMAIN checks |-> Typed]
GeneralInputs == [TypedAll(GeneralChecks) EXCEPT !.PipelineMode = {"member"}]
WriterInputs == TypedAll(WriterChecks)
ICMPInputs == TypedAll(ICMPChecks)
TCPInputs == TypedAll(TCPChecks)
HTTPInputs ==
  [TypedAll(HTTPChecks) EXCEPT !.Protocol = {"member"}, !.Version = {"member"},
     !.Fingerprint = {"blank", "known"}, !.AcceptedStatusCodes = {"some"}]
XrayInputs ==
  [TypedAll(XrayChecks) EXCEPT !.ConnectivityTestType = 0..3, !.PreScanType = {"member"}]
ResolverInputs ==
  [TypedAll(ResolverChecks) EXCEPT !.Transport = {"member"}, !.CheckTypes = {"some"}]
TunnelingInputs == TypedAll(TunnelingChecks)

Checks == [general |-> GeneralChecks, writer |-> WriterChecks, icmp |-> ICMPChecks,
           tcp |-> TCPChecks, http |-> HTTPChecks, xray |-> XrayChecks,
           resolver |-> ResolverChecks, tunneling |-> TunnelingChecks]
\* NormalizeAll
Fixes == [general |-> GeneralFixes, writer |-> WriterFixes, icmp |-> ICMPFixes,
          tcp |-> TCPFixes, http |-> HTTPFixes, xray |-> XrayFixes,
          resolver |-> ResolverFixes, tunneling |-> TunnelingFixes]
Defaults == [general |-> GeneralDefaults, writer |-> WriterDefaults, icmp |-> ICMPDefaults,
             tcp |-> TCPDefaults, http |-> HTTPDefaults, xray |-> XrayDefaults,
             resolver |-> ResolverDefaults, tunneling |-> TunnelingDefaults]
Inputs == [general |-> GeneralInputs, writer |-> WriterInputs, icmp |-> ICMPInputs,
           tcp |-> TCPInputs, http |-> HTTPInputs, xray |-> XrayInputs,
           resolver |-> ResolverInputs, tunneling |-> TunnelingInputs]
Fields == UNION {{<<s, f>> : f \in DOMAIN Checks[s]} : s \in DOMAIN Checks}

-----------------------------------------------------------------------------
VARIABLES
  field,      \* the field followed
  disk,       \* its section's file: [is, value]
  memory,     \* the field in the configuration in memory
  run,        \* the program: "off", "on" or "halted" at a load that failed
  saving,     \* a save of the section is under way
  kept,       \* the value the user entered and the program has saved, or NoValue
  starts      \* starts so far

settingVars == <<field, disk, memory, run, saving, kept, starts>>

Check == Checks[field[1]][field[2]]
Fix == Fixes[field[1]][field[2]]
DefaultsOf == Defaults[field[1]][field[2]]
Whole(v) == [is |-> "whole", value |-> v]
Broken(what) == [is |-> what, value |-> NoValue]

(* Mutant: the order of two known versions is not repaired. *)
fixTLSUnordered(v, def) ==
  LET min == IF v[1] \in AnyCase THEN v[1] ELSE def[1]
      max == IF v[2] \in AnyCase THEN v[2] ELSE def[2]
  IN  <<min, max>>

\* The two TLS versions are repaired one by one, and then both for their order.
fixTLS(v, def) ==
  LET min == IF v[1] \in AnyCase THEN v[1] ELSE def[1]
      max == IF v[2] \in AnyCase THEN v[2] ELSE def[2]
  IN  IF checkEnumOrder(min, max) THEN <<min, max>> ELSE def
Normalize(v, def) ==
  IF Fix.rule = "tls" THEN fixTLS(v, def)
  ELSE IF Passes(Fix, v) THEN v ELSE def

SettingsInit ==
  /\ field \in Fields
  /\ disk \in {Whole(v) : v \in Samples(Check) \cup {Zero(Check)}} \cup
              {Broken("absent"), Broken("malformed")}
  /\ memory = NoValue /\ run = "off" /\ saving = FALSE /\ kept = NoValue /\ starts = 0

\* The user edits or deletes the file while the program is off.
EditFile ==
  /\ run = "off"
  /\ disk' \in {Whole(v) : v \in Samples(Check) \cup {Zero(Check)}} \cup
               {Broken("absent"), Broken("malformed")}
  /\ kept' = NoValue
  /\ UNCHANGED <<field, memory, run, saving, starts>>

\* checkConfigHealth: Load, then NormalizeAll in memory.  A file that is missing is
\* created with the defaults, one that cannot be read or created is critical.
\* A file emptied by a save that was cut short is read as zero values.
StartProgram ==
  /\ run = "off" /\ starts < MaxStarts
  /\ starts' = starts + 1
  /\ \/ disk.is = "malformed" /\ run' = "halted" /\ UNCHANGED <<disk, memory>>
     \/ disk.is = "absent" /\ run' = "halted" /\ UNCHANGED <<disk, memory>>
     \/ \E def \in DefaultsOf :
           /\ disk.is # "malformed" /\ run' = "on"
           /\ memory' = Normalize(CASE disk.is = "whole" -> disk.value
                                    [] disk.is = "absent" -> def
                                    [] disk.is = "empty" -> Zero(Check), def)
           /\ disk' = IF disk.is = "absent" THEN Whole(def) ELSE disk
  /\ UNCHANGED <<field, saving, kept>>

\* A scan normalizes the configuration it is given, which is the one in memory.
StartScan ==
  /\ run = "on"
  /\ \E def \in DefaultsOf : memory' = Normalize(memory, def)
  /\ UNCHANGED <<field, disk, run, saving, kept, starts>>

\* What the field's input can submit: a choice, one of two TLS versions picked
\* and checked, or a typed text that passes Validate.
MaySubmit(v) ==
  LET offered == Inputs[field[1]][field[2]]
  IN  IF offered # Typed THEN v \in offered
      ELSE /\ v \in Samples(Check) /\ Passes(Check, v)
           /\ Check.rule = "tls" => \E i \in {1, 2} : v[3 - i] = memory[3 - i] /\ v[i] # "TLS1.2"

\* The submitted value goes to memory; the save starts by truncating the file,
\* unless the file cannot be opened.
Submit ==
  /\ run = "on" /\ ~saving
  /\ \E v \in Samples(Check) : MaySubmit(v) /\ memory' = v
  /\ kept' = NoValue
  /\ \/ saving' = TRUE /\ disk' = Broken("empty")
     \/ UNCHANGED <<saving, disk>>
  /\ UNCHANGED <<field, run, starts>>

\* Another field of the section is submitted: the whole section is saved.  A
\* new transport of the resolver sets the port that belongs to it.
SubmitOther ==
  /\ run = "on" /\ ~saving
  /\ saving' = TRUE /\ disk' = Broken("empty")
  /\ \/ UNCHANGED <<memory, kept>>
     \/ field = <<"resolver", "Port">> /\ memory' \in {53, 853} /\ kept' = NoValue
  /\ UNCHANGED <<field, run, starts>>

\* The save ends: written, or cut off with an error.
EndSave ==
  /\ saving /\ saving' = FALSE
  /\ \/ disk' = Whole(memory) /\ kept' = memory
     \/ disk' \in {Broken("empty"), Broken("malformed")} /\ kept' = NoValue
  /\ UNCHANGED <<field, memory, run, starts>>

\* The program ends; killed during a save it leaves what is written so far.
StopProgram ==
  /\ run # "off" /\ run' = "off" /\ memory' = NoValue /\ saving' = FALSE
  /\ IF saving THEN disk' \in {disk, Broken("malformed")} /\ kept' = NoValue
     ELSE UNCHANGED <<disk, kept>>
  /\ UNCHANGED <<field, starts>>

SettingsNext ==
  \/ EditFile \/ StartProgram \/ StartScan \/ Submit \/ SubmitOther \/ EndSave \/ StopProgram
SettingsSpec == SettingsInit /\ [][SettingsNext]_settingVars

-----------------------------------------------------------------------------
(* Values that Validate refuses and Normalize ("replaces invalid values with   *)
(* defaults") leaves or sets: a file prefix of three sections, which is only   *)
(* required not to be blank, and the shortest probe duration of fast servers, *)
(* whose default is below the limit.                                          *)
Lenient(v) ==
  \/ field \in {<<"icmp", "OutputPrefix">>, <<"http", "OutputPrefix">>, <<"xray", "OutputPrefix">>}
     /\ checkString(v)
  \/ field = <<"general", "MinProbeDuration">> /\ v = 5

(* Whatever stands in the files, and however saves were cut short, the        *)
(* settings in use pass Validate or are one of the lenient ones.  And what    *)
(* was in use when its save was completed is in use again after the next      *)
(* start and when a scan starts, on every machine, unless it is lenient.      *)
SettingsHold ==
  /\ [](run = "on" => Passes(Check, memory) \/ Lenient(memory))
  /\ [][(run' = "on" /\ kept # NoValue /\ kept' = kept /\ ~Lenient(kept))
          => memory' = kept]_settingVars
=============================================================================
