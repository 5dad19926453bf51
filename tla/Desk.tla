-------------------------------- MODULE Desk --------------------------------
(***************************************************************************)
(* What users do beside the chats: the listings, appointments, tickets and *)
(* notifications of Office, and the searches, watches and words of Keeping,*)
(* which the same users keep in tables of their own.  The requests of each *)
(* are its own.                                                            *)
(***************************************************************************)
EXTENDS Office

CONSTANTS Filters, Areas, Windows  \* of Keeping

VARIABLES searches, watches, word, learningLog, removed, keepingRequest

keepingVars == <<searches, watches, word, learningLog, removed, keepingRequest>>

K == INSTANCE Keeping WITH request <- keepingRequest

(* What is told to be kept is kept (see Keeping).                          *)
KeptAsTold == K!KeptAsTold
=============================================================================
