---------------------------- MODULE MCInterface ----------------------------
(* The parts of the user interface that share no state, checked in one run:  *)
(* each behaviour is one of the application's stacks, of the table of a      *)
(* stage, of the log viewers, of the start of the program, of a list of files, *)
(* of a form or of the keys ("part").                                        *)
EXTENDS Application, ScanView, LogStream, StartupChecks, FileTables, TunnelForm, KeyRouting

VARIABLE part

MCRaw == {[key |-> 1, score |-> 5], [key |-> 2, score |-> 4], [key |-> 3, score |-> 2],
          [key |-> 4, score |-> 5]}
MCUnreadable == {[key |-> 1, score |-> 5]}
MCCategories == <<"system", "config", "xray">>

MCColumns == <<"name">>
MCNeedles == {{1}}
At1(n) == [folder |-> 1, name |-> n]
At2(n) == [folder |-> 2, name |-> n]
MCDisks == {{At1(1)}, {At1(1), At1(2)}, {At1(1), At2(1)}}
MCCommands == [ips |-> 1, outbounds |-> 1, tunnels |-> 2, results |-> 2]

MCStored ==
  {<<>>,
   [proxy_type |-> ""],
   [proxy_type |-> "ssh", proxy_port |-> 22, auth_method |-> "key", username |-> "good",
    private_key |-> "good"],
   [min_upload_mtu |-> 200, max_upload_mtu |-> 0],
   [resolver_port |-> 0]}
MCTried ==
  [proxy_type |-> {"socks", "ssh"}, proxy_port |-> {8080},
   auth_method |-> {"none", "password", "key"}, username |-> {"good"}, password |-> {"good"},
   private_key |-> {"good"}, domain |-> {"good"}, pub_key |-> {"good"},
   passphrase |-> {"good"}, encryption_key |-> {"good"}, resolver_type |-> {"udp", "dot"},
   resolver_port |-> {0, 8080}, enc_method |-> {0, 2}, min_upload_mtu |-> {5, 200},
   max_upload_mtu |-> {5, 255}]

MCTyped ==
  {"up", "down", "left", "right", "enter", "esc", "tab", "pgup", "space", "home", "b", "q", "?",
   "/", "a", "c", "d", "f", "g", "G", "h", "i", "j", "l", "m", "n", "o", "p", "r", "s", "t",
   "u", "v", "x", "y", "ctrl+c", "ctrl+m", "ctrl+d", "zhe"}
MCNonLatin == <<"zhe">>

all == <<part, vars, viewVars, logVars, startVars, fileVars, formVars, keyVars>>

InterfaceInit ==
  /\ part \in {"app", "view", "log", "start", "files", "form", "keys"}
  /\ Init /\ ViewInit /\ LogInit /\ StartupInit /\ FilesInit /\ FormInit
  /\ IF part = "keys" THEN KeyInit ELSE pile = <<>> /\ overlays = <<>>
  /\ part # "app" => ~animated
  /\ part # "files" => list = "ips" /\ disk = {[folder |-> 1, name |-> 1, age |-> 1]}
  /\ part # "form" => protocol = "thefeed" /\ cfg = TheFeedDefault

InterfaceNext ==
  /\ UNCHANGED part
  /\ \/ part = "app" /\ Next
        /\ UNCHANGED <<viewVars, logVars, startVars, fileVars, formVars, keyVars>>
     \/ part = "view" /\ ViewNext
        /\ UNCHANGED <<vars, logVars, startVars, fileVars, formVars, keyVars>>
     \/ part = "log" /\ LogNext
        /\ UNCHANGED <<vars, viewVars, startVars, fileVars, formVars, keyVars>>
     \/ part = "start" /\ StartupNext
        /\ UNCHANGED <<vars, viewVars, logVars, fileVars, formVars, keyVars>>
     \/ part = "files" /\ FilesNext
        /\ UNCHANGED <<vars, viewVars, logVars, startVars, formVars, keyVars>>
     \/ part = "form" /\ FormNext
        /\ UNCHANGED <<vars, viewVars, logVars, startVars, fileVars, keyVars>>
     \/ part = "keys" /\ KeyNext
        /\ UNCHANGED <<vars, viewVars, logVars, startVars, fileVars, formVars>>

Interface == InterfaceInit /\ [][InterfaceNext]_all /\ (part = "app" => Fairness)
=============================================================================
