-------------------------------- MODULE Auth --------------------------------
(***************************************************************************)
(* What AuthService keeps of a user beside the codes of EmailOtp: the      *)
(* refresh tokens (Sessions), and the account they are of (Accounts), of   *)
(* whose tokens Accounts knows only that there are some.  The two share no *)
(* variable.                                                               *)
(***************************************************************************)
EXTENDS Sessions

CONSTANTS Requests, Settings, Old, Passwords, Nobodys  \* of Accounts

VARIABLES env, account, proved, tokens, request, seen

accountVars == <<env, account, proved, tokens, request, seen>>

A == INSTANCE Accounts

(* A sign-in answers as of a moment at which it was served (see Accounts). *)
AnswersOfItsTime == A!AnswersOfItsTime

(* A registration leaves a verified account alone (see Accounts).          *)
VerifiedIsSettled == A!VerifiedIsSettled
=============================================================================
