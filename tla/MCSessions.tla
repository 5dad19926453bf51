----------------------------- MODULE MCSessions -----------------------------
(* Four token requests of one user, over three seconds.  And three requests *)
(* on an account, whose tokens are only counted there: in a behavior one of *)
(* the two moves.                                                           *)
EXTENDS Auth, TLC

CONSTANTS r1, r2, r3, r4

MCSettings ==
    {[otpRequired |-> FALSE, emailVerificationRequired |-> FALSE, pepper |-> TRUE,
      allowed |-> {"CLIENT", "OWNER"}],
     [otpRequired |-> TRUE, emailVerificationRequired |-> TRUE, pepper |-> FALSE,
      allowed |-> {"OWNER"}]}

VARIABLE part

MCInit ==
    /\ part \in {"sessions", "accounts"}
    /\ Init /\ A!Init
    /\ part = "sessions" => account = None /\ env.pepper
MCNext ==
    /\ UNCHANGED part
    /\ \/ part = "sessions" /\ Next /\ UNCHANGED accountVars
       \/ part = "accounts" /\ A!Next /\ UNCHANGED vars
MCSpec == MCInit /\ [][MCNext]_<<part, vars, accountVars>>

Symmetry == Permutations(Requests) \cup Permutations(Passwords)
=============================================================================
