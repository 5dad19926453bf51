------------------------------ MODULE Accounts ------------------------------
(***************************************************************************)
(* The account of one email address: AuthService.signUp, signIn, login,    *)
(* register, authenticateOAuthLogin and the tail of verifyOtp, and         *)
(* UsersService.create, update and remove.  The statements of a request    *)
(* interleave with those of the others, and it may end after any of them.  *)
(* The codes themselves are module EmailOtp, the refresh tokens Sessions.  *)
(*                                                                         *)
(* A password is a model value, its hash the value and the way it was      *)
(* hashed.  Left out: names, telephones, cookies; an administrator who     *)
(* changes the address or the date of its verification.                    *)
(***************************************************************************)
CONSTANTS
    None,
    Old,          \* an account that was there before
    Requests,
    Passwords, Nobodys,  \* what one may give; what only the program knew
    Settings      \* [otpRequired, emailVerificationRequired, pepper, allowed]

VARIABLES
    env,      \* the environment the process was started with
    account,  \* the User row: [id, password, hashed, verified, role, by]; by set the password
    proved,   \* a code of the address was verified: there is an otpToken
    tokens,   \* refresh_tokens: [by, user]
    request,
    seen      \* history: what the account was while a request was served

vars == <<env, account, proved, tokens, request, seen>>

Kinds == {"signUp", "signIn", "login", "register", "oauth", "code", "verifyOtp",
          "create", "update", "remove"}
Ended(r) == request[r].pc \in {"idle", "done", "code sent", "wrong", "refused", "failed"}

(* Every step that changes the row is seen by those being served.          *)
Becomes(row) ==
    /\ account' = row
    /\ seen' = [r \in Requests |-> IF Ended(r) THEN seen[r] ELSE seen[r] \cup {row}]
Goes(r, pc) == request' = [request EXCEPT ![r].pc = pc]
Turns(r, pc) == Goes(r, pc) /\ UNCHANGED <<env, account, proved, tokens, seen>>
Fails(r) == Turns(r, "failed")

(* Mutant: the pepper is forgotten.                                        *)
BadHashPassword == "plain"
HashPassword == "peppered"
(* A hash made without the pepper, or a password stored as it is, is no    *)
(* match, unless there is no pepper.                                       *)
VerifyPassword(password, row) ==
    /\ row.password = password
    /\ row.hashed = "peppered" \/ (row.hashed = "plain" /\ ~env.pepper)

Row(r, password, hashed, verified, role) ==
    [id |-> r, password |-> password, hashed |-> hashed, verified |-> verified, role |-> role, by |-> r]

Init ==
    /\ env \in Settings
    /\ account \in {None} \cup {Row(Old, p, "peppered", v, "CLIENT") : p \in Passwords, v \in BOOLEAN}
    /\ proved = FALSE
    /\ tokens = {}
    /\ request = [r \in Requests |-> [pc |-> "idle", kind |-> None, password |-> None, held |-> None]]
    /\ seen = [r \in Requests |-> {}]

Ask(r) ==
    /\ request[r].pc = "idle"
    /\ \E kind \in Kinds, password \in Passwords :
        request' = [request EXCEPT ![r].kind = kind, ![r].password = password,
            ![r].pc = CASE kind = "register" -> "token"
                        [] kind \in {"create", "update", "remove", "code"} -> "write"
                        [] OTHER -> "read"]
    /\ seen' = [seen EXCEPT ![r] = {account}]
    /\ UNCHANGED <<env, account, proved, tokens>>

(* verifyEmailOtpCode gives a token that register asks for.                *)
VerifyCode(r) ==
    /\ request[r].kind = "code" /\ request[r].pc = "write"
    /\ proved' = TRUE
    /\ Goes(r, "done")
    /\ UNCHANGED <<env, account, tokens, seen>>
AssertToken(r) == request[r].pc = "token" /\ Turns(r, IF proved THEN "read" ELSE "refused")

Read(r) ==
    /\ request[r].pc = "read"
    /\ request' = [request EXCEPT ![r].held = account, ![r].pc = "decide"]
    /\ UNCHANGED <<env, account, proved, tokens, seen>>

-----------------------------------------------------------------------------
(* What each does with what it read, after hashing or comparing.           *)
Deciding(r, kind) == request[r].kind = kind /\ request[r].pc = "decide"
Known(r) == request[r].held # None
Answer == IF env.otpRequired THEN "code sent" ELSE "done"

(* Who has an account is sent a code, or let in, as if just signed up.     *)
SignUp(r) == Deciding(r, "signUp") /\ Turns(r, IF Known(r) THEN Answer ELSE "create")

SignIn(r) ==
    /\ Deciding(r, "signIn")
    /\ Turns(r, IF Known(r) /\ VerifyPassword(request[r].password, request[r].held)
                THEN Answer ELSE "wrong")

Login(r) ==
    LET held == request[r].held
    IN /\ Deciding(r, "login")
       /\ \/ /\ Known(r) => ~VerifyPassword(request[r].password, held)
             /\ Turns(r, "wrong")
          \/ /\ Known(r) /\ VerifyPassword(request[r].password, held)
             /\ Turns(r, IF (env.emailVerificationRequired => held.verified) /\ held.role \in env.allowed
                         THEN "save" ELSE "refused")

(* Mutant: only whether there is an account is looked at.                  *)
BadMayRegister(held) == TRUE
MayRegister(held) == held # None => ~held.verified
Register(r) ==
    /\ Deciding(r, "register")
    /\ Turns(r, IF ~MayRegister(request[r].held) THEN "refused"
                ELSE IF Known(r) THEN "overwrite" ELSE "create")

OAuth(r) ==
    /\ Deciding(r, "oauth")
    /\ Turns(r, IF ~Known(r) THEN "create"
                ELSE IF request[r].held.verified THEN "save" ELSE "confirm")

VerifyOtp(r) == Deciding(r, "verifyOtp") /\ Turns(r, IF Known(r) THEN "confirm" ELSE "refused")

-----------------------------------------------------------------------------
(* Statements.  The address is unique; an update is by identifier.         *)
Holds(r) == account # None /\ request[r].held # None /\ account.id = request[r].held.id

Created(r) ==
    LET q == request[r]
    IN CASE q.kind = "signUp" -> {Row(r, q.password, HashPassword, FALSE, "CLIENT")}
         [] q.kind = "register" ->
                {Row(r, q.password, HashPassword, TRUE, role) : role \in {"CLIENT", "OWNER"}}
         [] q.kind = "oauth" -> {Row(r, Nobodys, HashPassword, TRUE, "CLIENT")}
         [] q.kind = "create" ->
                {Row(r, q.password, "plain", FALSE, role) : role \in {"CLIENT", "OWNER"}}
Create(r) ==
    /\ request[r].pc = "create" \/ (request[r].kind = "create" /\ request[r].pc = "write")
    /\ IF account # None THEN Fails(r)
       ELSE /\ \E row \in Created(r) :
                  /\ Becomes(row)
                  /\ request' = [request EXCEPT ![r].held = row,
                        ![r].pc = CASE request[r].kind = "signUp" -> Answer
                                    [] request[r].kind = "create" -> "done"
                                    [] OTHER -> "save"]
            /\ UNCHANGED <<env, proved, tokens>>

Overwrite(r) ==
    /\ request[r].pc = "overwrite"
    /\ IF ~Holds(r) THEN Fails(r)
       ELSE /\ Becomes([account EXCEPT !.password = request[r].password, !.hashed = HashPassword,
                                       !.verified = TRUE, !.by = r])
            /\ Goes(r, "save")
            /\ UNCHANGED <<env, proved, tokens>>

Confirm(r) ==
    /\ request[r].pc = "confirm"
    /\ IF ~Holds(r) THEN Fails(r)
       ELSE /\ Becomes([account EXCEPT !.verified = TRUE])
            /\ Goes(r, "save")
            /\ UNCHANGED <<env, proved, tokens>>

(* A token of an account that is gone breaks the foreign key.              *)
SaveToken(r) ==
    /\ request[r].pc = "save"
    /\ IF ~Holds(r) THEN Fails(r)
       ELSE /\ tokens' = tokens \cup {[by |-> r, user |-> account.id]}
            /\ Goes(r, "done")
            /\ UNCHANGED <<env, account, proved, seen>>

(* The administration of users.  A password given to update is stored as   *)
(* it is; an account with tokens is not removed.                           *)
UpdateUser(r) ==
    /\ request[r].kind = "update" /\ request[r].pc = "write"
    /\ IF account = None THEN Fails(r)
       ELSE /\ \/ Becomes([account EXCEPT !.password = request[r].password, !.hashed = "raw", !.by = r])
               \/ \E role \in {"CLIENT", "OWNER"} : Becomes([account EXCEPT !.role = role])
            /\ Goes(r, "done")
            /\ UNCHANGED <<env, proved, tokens>>
RemoveUser(r) ==
    /\ request[r].kind = "remove" /\ request[r].pc = "write"
    /\ IF account = None \/ (\E t \in tokens : t.user = account.id) THEN Fails(r)
       ELSE /\ Becomes(None)
            /\ Goes(r, "done")
            /\ UNCHANGED <<env, proved, tokens>>

Stop(r) == ~Ended(r) /\ Fails(r)

Next == \E r \in Requests :
    \/ Ask(r) \/ VerifyCode(r) \/ AssertToken(r) \/ Read(r)
    \/ SignUp(r) \/ SignIn(r) \/ Login(r) \/ Register(r) \/ OAuth(r) \/ VerifyOtp(r)
    \/ Create(r) \/ Overwrite(r) \/ Confirm(r) \/ SaveToken(r)
    \/ UpdateUser(r) \/ RemoveUser(r) \/ Stop(r)

Spec == Init /\ [][Next]_vars

-----------------------------------------------------------------------------
(* A sign-in or login answers as of some moment at which it was served,    *)
(* whatever registrations, sign-ups and administrators did meanwhile: whom *)
(* it let in gave the password the account then had, and whom it refused   *)
(* had not the password that a sign-up or a registration had set.          *)
(* (verifyPassword against the row read before; hashPassword.)             *)
SetByOwner(row) == row.by = Old \/ request[row.by].kind \in {"signUp", "register"}
AnswersOfItsTime ==
    \A r \in Requests : request[r].kind \in {"signIn", "login"} =>
        /\ request[r].pc \in {"code sent", "save", "done"} =>
              \E row \in seen[r] : row # None /\ row.password = request[r].password
        /\ request[r].pc = "wrong" =>
              \E row \in seen[r] :
                  row = None \/ row.password # request[r].password \/ ~SetByOwner(row)

(* A registration leaves an account alone that was verified before it      *)
(* began, by a code, a provider or another registration: if the account is *)
(* of its making, it was not there, or not verified, when it began.        *)
(* (register looks at emailVerifiedAt, hashes, and writes by id.)          *)
VerifiedIsSettled ==
    account # None /\ account.by # Old /\ account.by # account.id
        /\ request[account.by].kind = "register"
    => \E row \in seen[account.by] : row # None /\ row.id = account.id /\ ~row.verified
=============================================================================
