--------------------------- MODULE MCStatusCodes ---------------------------
(* Two groups of two status codes for the run of StatusCodes. *)
EXTENDS StatusCodes, TLC

MCGroups == ("2xx" :> {200, 204}) @@ ("3xx" :> {301, 302})
=============================================================================
