----------------------------- MODULE TunnelForm -----------------------------
(***************************************************************************)
(* The forms of the six DNS tunnel protocols (ui/components/form, over the *)
(* inspector and the inputs of ui/components/basic), with the rules of     *)
(* core/dns by which a configuration is valid.                             *)
(*                                                                         *)
(* A form keeps three things of a field: the value in the configuration,   *)
(* the text in its input, which the user edits in a dialog and may leave   *)
(* with escape, and the snapshot that the list shows.  The dialog is modal *)
(* and the update loop is one thread, so one visit of a field is one step. *)
(* The name of the configuration, and what saving does with it, is in      *)
(* FileTables.  A text is "" or "good", or "bad" if no check takes it.     *)
(***************************************************************************)
EXTENDS Integers, TLC

CONSTANTS
  Protocols,  \* the protocols tried
  Stored,     \* configurations that are opened to be edited: the fields of a
              \* form they set, the rest being as in a new one
  Tried,      \* the fields the user visits, with what he enters there
  MaxVisits   \* bound: fields visited

ASSUME ProtocolsAssumption ==
  Protocols \subseteq {"vaydns", "dnstt", "slipstream", "masterdns", "stormdns", "thefeed"}

VARIABLES
  protocol,   \* of the form
  cfg,        \* the configuration that is saved
  input,      \* the values in the inputs
  snapshot,   \* the snapshots the list shows
  group,      \* the tab that is open
  left,       \* fields left with escape since they were submitted last
  state,      \* "open", "saved" or "discarded"
  visits

formVars == <<protocol, cfg, input, snapshot, group, left, state, visits>>

-----------------------------------------------------------------------------
(* core/dns: what each kind of configuration has, and what it allows.        *)

Text == {"good"}
Port == 1..65535
ResolverTypes == {"udp", "tcp", "dot"}
RecordTypes == {"A", "AAAA", "CNAME", "NS", "MX", "TXT", "SRV", "NULL", "CAA"}
EncMethods == 0..5

ProxyDefault == [proxy_type |-> "socks", proxy_port |-> 1080, auth_method |-> "none",
                 username |-> "", password |-> "", private_key |-> ""]

VayDNSDefault ==
  [domain |-> "", pub_key |-> "", client_id_size |-> 2, max_qname_len |-> 101,
   max_num_labels |-> 0, mtu |-> 0, rps |-> 0, record_type |-> "TXT", resolver_type |-> "udp",
   resolver_port |-> 53, fingerprint |-> "good"] @@ ProxyDefault

DNSTTDefault ==
  [domain |-> "", pub_key |-> "", resolver_type |-> "udp", resolver_port |-> 53,
   fingerprint |-> "good", rps |-> 0] @@ ProxyDefault

SlipstreamDefault ==
  [domain |-> "", resolver_port |-> 53, cert_path |-> "", dns_resolution |-> "recursive",
   gso |-> FALSE, congestion_control |-> "cubic"] @@ ProxyDefault

MasterDNSDefault ==
  [domain |-> "", encryption_key |-> "", enc_method |-> 1, resolver_port |-> 53,
   mtu_test_timeout_sec |-> 3, mtu_test_retries |-> 2, session_init_retry_max_sec |-> 2,
   session_init_racing_count |-> 1, min_upload_mtu |-> 38, max_upload_mtu |-> 150,
   min_download_mtu |-> 100, max_download_mtu |-> 500, mtu_parallelism |-> 1,
   rx_tx_workers |-> 4]

StormDNSDefault ==
  [domain |-> "", encryption_key |-> "", enc_method |-> 1, resolver_port |-> 53,
   dns_query_type |-> "TXT", mtu_test_timeout_sec |-> 2, mtu_test_retries |-> 2,
   session_init_retry_max_sec |-> 2, min_upload_mtu |-> 38, max_upload_mtu |-> 150,
   min_download_mtu |-> 100, max_download_mtu |-> 500, mtu_parallelism |-> 1,
   rx_tx_workers |-> 4]

TheFeedDefault ==
  [domain |-> "", passphrase |-> "", resolver_port |-> 53, resolver_type |-> "udp",
   query_mode |-> "single"]

(* The fields whose value is outside its set.                                *)
Outside(c, allowed) == {f \in DOMAIN allowed : c[f] \notin allowed[f]}

(* validateProxyAuth: the proxy and how it authenticates.                    *)
ProxyErrors(c) ==
  {f \in DOMAIN ProxyDefault :
     \/ f = "proxy_type" /\ c.proxy_type \notin {"", "socks", "ssh"}
     \/ f = "proxy_port" /\ c.proxy_type # "" /\ c.proxy_port = 0
     \/ f = "auth_method"
          /\ <<c.proxy_type, c.auth_method>> \in {<<"ssh", "none">>, <<"socks", "key">>}
     \/ f = "username" /\ c.auth_method \in {"password", "key"} /\ c.username = ""
     \/ f = "password" /\ c.auth_method = "password" /\ c.password = ""
     \/ f = "private_key" /\ c.auth_method = "key" /\ c.private_key # "good"}

(* validateEncryptionKey, which is asked for unless nothing is encrypted.    *)
KeyErrors(c) == {f \in {"encryption_key"} : c.enc_method # 0 /\ c.encryption_key # "good"}

VayDNSErrors(c) ==
  ProxyErrors(c) \cup
  Outside(c, [domain |-> Text, pub_key |-> Text, client_id_size |-> 1..8,
              max_qname_len |-> 0..253, max_num_labels |-> 0..4, mtu |-> 0..1452,
              rps |-> 0..500, record_type |-> RecordTypes, resolver_type |-> ResolverTypes,
              resolver_port |-> Port, fingerprint |-> Text])

DNSTTErrors(c) ==
  ProxyErrors(c) \cup
  Outside(c, [domain |-> Text, pub_key |-> Text, resolver_type |-> ResolverTypes,
              resolver_port |-> Port, rps |-> 0..500, fingerprint |-> Text])

\* A port of 0 is an error of "dns_port", which is no field of the form.
SlipstreamErrors(c) ==
  ProxyErrors(c) \cup
  {f \in {"dns_port"} : c.resolver_port = 0} \cup
  Outside(c, [domain |-> Text, dns_resolution |-> {"", "recursive", "authoritative"},
              congestion_control |-> {"", "bbr", "cubic"}])

MasterDNSErrors(c) ==
  KeyErrors(c) \cup
  Outside(c, [domain |-> Text, enc_method |-> EncMethods, resolver_port |-> Port,
              mtu_test_timeout_sec |-> 0..60, mtu_test_retries |-> 0..50,
              session_init_retry_max_sec |-> 0..3600, session_init_racing_count |-> 1..5,
              min_upload_mtu |-> 10..c.max_upload_mtu, max_upload_mtu |-> 1..255,
              min_download_mtu |-> 1..c.max_download_mtu, max_download_mtu |-> 1..65535,
              mtu_parallelism |-> 1..100, rx_tx_workers |-> 1..64])

StormDNSErrors(c) ==
  KeyErrors(c) \cup
  Outside(c, [domain |-> Text, enc_method |-> EncMethods, resolver_port |-> Port,
              dns_query_type |-> {"", "TXT", "NS", "CNAME", "ROTATE"},
              mtu_test_timeout_sec |-> 0..60, mtu_test_retries |-> 0..50,
              session_init_retry_max_sec |-> 0..3600,
              min_upload_mtu |-> 10..c.max_upload_mtu, max_upload_mtu |-> 1..255,
              min_download_mtu |-> 1..c.max_download_mtu, max_download_mtu |-> 1..65535,
              mtu_parallelism |-> 1..100, rx_tx_workers |-> 1..64])

TheFeedErrors(c) ==
  Outside(c, [domain |-> Text, passphrase |-> Text, resolver_port |-> Port,
              query_mode |-> {"single", "double"}, resolver_type |-> ResolverTypes])

Default(p) ==
  CASE p = "vaydns" -> VayDNSDefault
    [] p = "dnstt" -> DNSTTDefault
    [] p = "slipstream" -> SlipstreamDefault
    [] p = "masterdns" -> MasterDNSDefault
    [] p = "stormdns" -> StormDNSDefault
    [] p = "thefeed" -> TheFeedDefault

Errors(c) ==
  CASE protocol = "vaydns" -> VayDNSErrors(c)
    [] protocol = "dnstt" -> DNSTTErrors(c)
    [] protocol = "slipstream" -> SlipstreamErrors(c)
    [] protocol = "masterdns" -> MasterDNSErrors(c)
    [] protocol = "stormdns" -> StormDNSErrors(c)
    [] protocol = "thefeed" -> TheFeedErrors(c)

-----------------------------------------------------------------------------
(* ui/components/form: the groups of fields, and which of them are listed.   *)

Proxy == DOMAIN ProxyDefault

VayDNSGroups ==
  <<{"domain", "pub_key", "resolver_type", "resolver_port", "fingerprint", "record_type"},
    {"client_id_size", "max_qname_len", "max_num_labels", "mtu", "rps"}, Proxy>>

DNSTTGroups ==
  <<{"domain", "pub_key", "resolver_type", "resolver_port", "fingerprint", "rps"}, Proxy>>

SlipstreamGroups ==
  <<{"domain", "resolver_port", "congestion_control", "gso", "dns_resolution", "cert_path"}, Proxy>>

MasterDNSGroups ==
  <<{"domain", "encryption_key", "enc_method", "resolver_port"},
    DOMAIN MasterDNSDefault \ {"domain", "encryption_key", "enc_method", "resolver_port"}>>

StormDNSGroups ==
  LET connection == {"domain", "encryption_key", "enc_method", "dns_query_type", "resolver_port"}
  IN  <<connection, DOMAIN StormDNSDefault \ connection>>

TheFeedGroups == <<DOMAIN TheFeedDefault>>

Groups ==
  CASE protocol = "vaydns" -> VayDNSGroups
    [] protocol = "dnstt" -> DNSTTGroups
    [] protocol = "slipstream" -> SlipstreamGroups
    [] protocol = "masterdns" -> MasterDNSGroups
    [] protocol = "stormdns" -> StormDNSGroups
    [] protocol = "thefeed" -> TheFeedGroups

\* Mutant: the user name is listed for passwords only.
ListedForPassword(f) ==
  CASE f = "proxy_port" -> cfg.proxy_type # ""
    [] f = "username" -> cfg.auth_method = "password"
    [] f = "password" -> cfg.auth_method = "password"
    [] f = "private_key" -> cfg.auth_method = "key"
    [] OTHER -> TRUE

Listed(f) ==
  CASE f = "proxy_port" -> cfg.proxy_type # ""
    [] f = "username" -> cfg.auth_method # "none"
    [] f = "password" -> cfg.auth_method = "password"
    [] f = "private_key" -> cfg.auth_method = "key"
    [] OTHER -> TRUE

-----------------------------------------------------------------------------
(* Submitting a field.                                                       *)

(* The check of an input: the value in a copy of the configuration, and the  *)
(* error of this field alone.                                               *)
Accepted(f, v) == f \notin Errors([cfg EXCEPT ![f] = v])

(* The port that a new choice of the transport, or of the proxy, sets.       *)
ResolverPort(f, v) ==
  [g \in {"resolver_port"} \cap {h \in DOMAIN cfg : f = "resolver_type" /\ v # cfg[f]} |->
     IF v = "dot" THEN 853 ELSE 53]

ProxyPort(f, v) ==
  [g \in {"proxy_port"} \cap {h \in DOMAIN cfg : f = "proxy_type" /\ v # cfg[f]} |->
     IF v = "socks" THEN 1080 ELSE 22]

Ports(f, v) == IF f = "proxy_type" THEN ProxyPort(f, v) ELSE ResolverPort(f, v)

Put(values, f, v) ==
  [g \in DOMAIN values |-> IF g \in DOMAIN Ports(f, v) THEN Ports(f, v)[g]
                           ELSE [values EXCEPT ![f] = v][g]]

Changed(f, v) == Put(cfg, f, v)

\* Mutant: a new port is not put in its input.
InputsWithoutPort(f, v) == [input EXCEPT ![f] = v]

Inputs(f, v) == Put(input, f, v)

(* inspector.Refresh: the snapshots of the open tab are taken again.         *)
Snapshots(inputs) ==
  [f \in DOMAIN snapshot |-> IF f \in Groups[group] THEN inputs[f] ELSE snapshot[f]]

-----------------------------------------------------------------------------
FormInit ==
  /\ protocol \in Protocols
  /\ \E s \in Stored : /\ DOMAIN s \subseteq DOMAIN Default(protocol)
                       /\ cfg = s @@ Default(protocol)
  /\ input = cfg
  /\ snapshot = cfg
  /\ group = 1
  /\ left = {}
  /\ state = "open"
  /\ visits = 0

(* A field of the list is opened: its input starts from what is shown.       *)
Opens(f) ==
  /\ state = "open"
  /\ visits < MaxVisits
  /\ visits' = visits + 1
  /\ f \in Groups[group] \cap DOMAIN Tried
  /\ Listed(f)

(* The user enters a value that the check takes, and submits it.             *)
Submit(f, v) ==
  /\ Opens(f)
  /\ Accepted(f, v)
  /\ cfg' = Changed(f, v)
  /\ input' = Inputs(f, v)
  /\ snapshot' = Snapshots(Inputs(f, v))
  /\ left' = left \ ({f} \cup DOMAIN Ports(f, v))
  /\ UNCHANGED <<protocol, group, state>>

(* The user leaves a field with escape; the text stays in the input.         *)
Leave(f, v) ==
  /\ Opens(f)
  /\ input' = [input EXCEPT ![f] = v]
  /\ left' = IF v = snapshot[f] THEN left ELSE left \cup {f}
  /\ UNCHANGED <<protocol, cfg, snapshot, group, state>>

OpenTab ==
  /\ state = "open"
  /\ group' \in DOMAIN Groups \ {group}
  /\ UNCHANGED <<protocol, cfg, input, snapshot, left, state, visits>>

(* Saving is refused while the configuration has errors.                     *)
Save ==
  /\ state = "open"
  /\ Errors(cfg) = {}
  /\ state' = "saved"
  /\ UNCHANGED <<protocol, cfg, input, snapshot, group, left, visits>>

Discard ==
  /\ state = "open"
  /\ state' = "discarded"
  /\ UNCHANGED <<protocol, cfg, input, snapshot, group, left, visits>>

FormNext ==
  \/ \E f \in DOMAIN Tried \cap DOMAIN cfg : \E v \in Tried[f] : Submit(f, v) \/ Leave(f, v)
  \/ OpenTab
  \/ Save
  \/ Discard

FormSpec == FormInit /\ [][FormNext]_formVars

-----------------------------------------------------------------------------
(* A refused form can be mended: for every error of a configuration some     *)
(* listed field takes a value that removes it and adds none, so no choice of *)
(* the proxy, the authentication or the encryption leaves the user with an   *)
(* error he cannot reach (proxy.go: BuildProxy; validate.go:                 *)
(* validateProxyAuth).                                                       *)
WayOut ==
  \A e \in Errors(cfg) :
    \E f \in DOMAIN Tried \cap DOMAIN cfg : \E v \in Tried[f] :
      /\ Listed(f)
      /\ Accepted(f, v)
      /\ Errors(Changed(f, v)) \subseteq Errors(cfg) \ {e}

(* What the list shows is what is saved, except for fields that were left    *)
(* with escape: those are shown with the text that was left once another     *)
(* field of the tab is submitted (inspector/model.go: Refresh, value).       *)
ShownIsSaved == \A f \in DOMAIN cfg : snapshot[f] # cfg[f] => f \in left
=============================================================================
