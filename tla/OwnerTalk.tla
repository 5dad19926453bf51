----------------------------- MODULE OwnerTalk -----------------------------
(***************************************************************************)
(* An owner's session from both sides: OwnerChat, the turns that overlap   *)
(* on its row, and OwnerRoutes, the handlers that answer one message after *)
(* the other.  The two share no variable.                                  *)
(***************************************************************************)
EXTENDS OwnerChat

CONSTANT Talk  \* of OwnerRoutes

VARIABLES row, result, turn, reply

routeVars == <<row, result, turn, reply>>

R == INSTANCE OwnerRoutes

(* Whichever handler answers, what the owner told stays known, only the    *)
(* evaluation moves the evaluation, and an engine is given what the        *)
(* session remembers (see OwnerRoutes).                                    *)
NothingLostByAnswering == R!NothingLostByAnswering
=============================================================================
