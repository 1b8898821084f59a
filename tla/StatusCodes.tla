---------------------------- MODULE StatusCodes ----------------------------
(* The accepted status codes of the HTTP settings screen: one input for the   *)
(* groups of codes, and one per group that fine-tunes it.                     *)
(* The source is ui/components/inspector/http/model.go.  A list of codes is   *)
(* the set of its members; no code at all means that every code is accepted.  *)

CONSTANT statusGroups     \* per group, its codes

groupOrder == DOMAIN statusGroups
codesFromGroups(groups) == UNION {statusGroups[g] : g \in groups}
AllCodes == codesFromGroups(groupOrder)

VARIABLES
  AcceptedStatusCodes,      \* the setting
  activeGroups,             \* the value of the input for the groups
  specific                  \* per group, the value of its fine-tuning input

codeVars == <<AcceptedStatusCodes, activeGroups, specific>>

filterCodesByGroup(codes, group) == codes \cap statusGroups[group]
filterCodesByActiveGroups(codes, groups) == codes \cap codesFromGroups(groups)
\* The codes of each group, all of them when nothing is set.
groupStatusCodes(codes) ==
  [g \in groupOrder |-> IF codes = {} THEN statusGroups[g] ELSE filterCodesByGroup(codes, g)]

\* The screen is opened on the setting.
CodesInit ==
  /\ AcceptedStatusCodes \in SUBSET AllCodes
  /\ specific = groupStatusCodes(AcceptedStatusCodes)
  /\ activeGroups = {g \in groupOrder : specific[g] # {}}

\* Groups are submitted; one that is required.  Every fine-tuning input is
\* then set to the codes of its group.
SubmitGroups ==
  /\ \E selected \in SUBSET groupOrder \ {{}} :
        IF selected = activeGroups
        THEN UNCHANGED <<AcceptedStatusCodes, activeGroups>>
        ELSE AcceptedStatusCodes' = codesFromGroups(selected) /\ activeGroups' = selected
  /\ specific' = [g \in groupOrder |-> filterCodesByGroup(AcceptedStatusCodes', g)]

\* The codes of one active group are submitted: they are appended to the codes
\* of the active groups.
SubmitSpecific ==
  \E group \in activeGroups, selected \in SUBSET AllCodes :
    /\ selected # {} /\ selected \subseteq statusGroups[group]
    /\ AcceptedStatusCodes' =
         filterCodesByActiveGroups(AcceptedStatusCodes, activeGroups) \cup selected
    /\ specific' = [specific EXCEPT ![group] = selected]
    /\ UNCHANGED activeGroups

CodesNext == SubmitGroups \/ SubmitSpecific
CodesSpec == CodesInit /\ [][CodesNext]_codeVars

(* What a fine-tuning input is set to is what is accepted of its group        *)
(* ("Select which ... codes count as successful").                            *)
FineTuneApplies ==
  [][\A g \in groupOrder : specific'[g] # specific[g] =>
        specific'[g] = filterCodesByGroup(AcceptedStatusCodes', g)]_codeVars
=============================================================================
