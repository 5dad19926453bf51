------------------------------ MODULE Sessions ------------------------------
(***************************************************************************)
(* The refresh tokens of one user: AuthService.refresh and signOut, and    *)
(* the handlers that end by issuing a token (login, verifyOtp, register,   *)
(* authenticateOAuthLogin).                                                *)
(*                                                                         *)
(* A refresh token is a JWT of the user and of the second it was signed    *)
(* in, nothing else: its value is that second, and two tokens signed in    *)
(* one second are one string.  A row of refresh_tokens holds the hash of   *)
(* the value and is identified by the request that inserted it.  A request *)
(* may stop between any two of its steps, as when the process dies.        *)
(***************************************************************************)
EXTENDS Integers

CONSTANTS
    Reqs,     \* requests that mint a token: logins and refreshes
    Ttl,      \* REFRESH_TOKEN_TTL
    MaxTime,  \* bound: the clock stops there
    None      \* no row

ASSUME SessionsAssumption ==
    /\ Ttl \in Nat
    /\ MaxTime \in Nat
    /\ None \notin Reqs

VARIABLES
    now,        \* the clock, in seconds
    req,        \* the requests, with their local variables
    rows,       \* the rows of refresh_tokens
    value,      \* the token whose hash a row holds
    expires,    \* expiresAt column
    revoked,    \* the rows whose revokedAt is set
    root,       \* history: the login from which a row descends
    contested,  \* history: the logins with two requests once holding a row of theirs
    ended       \* history: the logins signed out of while no request held the row

vars == <<now, req, rows, value, expires, revoked, root, contested, ended>>

PC == {"idle", "sign", "save", "done", "refused"}

ReqLocals == [pc : PC, held : Reqs \cup {None}, at : Nat, token : Nat]

TypeOK ==
    /\ now \in Nat
    /\ req \in [Reqs -> ReqLocals]
    /\ rows \subseteq Reqs
    /\ value \in [Reqs -> Nat]
    /\ expires \in [Reqs -> Nat]
    /\ revoked \subseteq rows
    /\ root \in [Reqs -> Reqs]
    /\ contested \subseteq Reqs
    /\ ended \subseteq Reqs

Init ==
    /\ now = 0
    /\ req = [r \in Reqs |-> [pc |-> "idle", held |-> None, at |-> 0, token |-> 0]]
    /\ rows = {}
    /\ value = [r \in Reqs |-> 0]
    /\ expires = [r \in Reqs |-> 0]
    /\ revoked = {}
    /\ root = [r \in Reqs |-> r]
    /\ contested = {}
    /\ ended = {}

Live == rows \ revoked

\* A refresh has read row o and not yet replaced it.
Holds(r, o) == req[r].held = o /\ req[r].pc \in {"sign", "save"}

-----------------------------------------------------------------------------
\* Definitions named Bad... are faulty variants that no specification uses: each
\* replaces its original in turn to see that a property notices.

\* The credentials, code or provider profile were accepted.
LoginStart(r) ==
    /\ req[r].pc = "idle"
    /\ req' = [req EXCEPT ![r] = [pc |-> "sign", held |-> None, at |-> now, token |-> 0]]
    /\ UNCHANGED <<now, rows, value, expires, revoked, root, contested, ended>>

BadMatching(t) == {o \in rows : value[o] = t /\ expires[o] > now}

\* The rows refresh may find for a token.
Matching(t) == {o \in Live : value[o] = t /\ expires[o] > now}

\* The token is one that was issued; verifyAsync refuses it Ttl after its signing.
RefreshStart(r, t) ==
    /\ req[r].pc = "idle"
    /\ t \in {value[o] : o \in rows}
    /\ \/ /\ t + Ttl <= now \/ Matching(t) = {}
          /\ req' = [req EXCEPT ![r].pc = "refused"]
          /\ UNCHANGED contested
       \/ /\ t + Ttl > now
          /\ \E o \in Matching(t) :
                /\ req' = [req EXCEPT ![r] =
                              [pc |-> "sign", held |-> o, at |-> now, token |-> 0]]
                /\ contested' = contested \cup
                      {l \in {root[o]} : \E q \in Reqs : Holds(q, o)}
    /\ UNCHANGED <<now, rows, value, expires, revoked, root, ended>>

\* The JWT's iat is the second of the signing.
IssueRefreshToken(r) ==
    /\ req[r].pc = "sign"
    /\ req' = [req EXCEPT ![r].pc = "save", ![r].token = now]
    /\ UNCHANGED <<now, rows, value, expires, revoked, root, contested, ended>>

\* verifyOtp counts the row's life from its own start, the other logins and
\* refresh from the insertion.
Insert(r, from) ==
    /\ rows' = rows \cup {r}
    /\ value' = [value EXCEPT ![r] = req[r].token]
    /\ expires' = [expires EXCEPT ![r] = from + Ttl]
    /\ req' = [req EXCEPT ![r].pc = "done"]

LoginSave(r) ==
    /\ req[r].pc = "save"
    /\ req[r].held = None
    /\ \E from \in {req[r].at, now} : Insert(r, from)
    /\ UNCHANGED <<now, revoked, root, contested, ended>>

BadRefreshSave(r) ==
    /\ req[r].pc = "save"
    /\ req[r].held # None
    /\ Insert(r, now)
    /\ root' = [root EXCEPT ![r] = root[req[r].held]]
    /\ UNCHANGED <<now, revoked, contested, ended>>

\* One transaction; the row is revoked by id, whether or not it still is live.
RefreshSave(r) ==
    /\ req[r].pc = "save"
    /\ req[r].held # None
    /\ Insert(r, now)
    /\ revoked' = revoked \cup {req[r].held}
    /\ root' = [root EXCEPT ![r] = root[req[r].held]]
    /\ UNCHANGED <<now, contested, ended>>

\* All live rows of the value, expired ones too.
SignOut(t) ==
    /\ t \in {value[o] : o \in rows}
    /\ LET out == {o \in Live : value[o] = t} IN
       /\ revoked' = revoked \cup out
       /\ ended' = ended \cup
             {root[o] : o \in {x \in out : \A q \in Reqs : ~Holds(q, x)}}
    /\ UNCHANGED <<now, req, rows, value, expires, root, contested>>

Tick ==
    /\ now < MaxTime
    /\ now' = now + 1
    /\ UNCHANGED <<req, rows, value, expires, revoked, root, contested, ended>>

Next ==
    \/ \E r \in Reqs :
          \/ LoginStart(r)
          \/ \E t \in 0 .. now : RefreshStart(r, t)
          \/ IssueRefreshToken(r)
          \/ LoginSave(r)
          \/ RefreshSave(r)
    \/ \E t \in 0 .. now : SignOut(t)
    \/ Tick

Spec == Init /\ [][Next]_vars

-----------------------------------------------------------------------------
\* As long as no two refreshes held one row of a login together, that login has
\* at most one row that is not revoked, however tokens of one second are mixed up.
OneLiveRowPerLogin ==
    \A a, b \in Live : root[a] = root[b] /\ a # b => root[a] \in contested

\* A login signed out of while no refresh was under way has no usable row ever
\* after, although refresh neither rechecks nor locks the row it replaces.
SignedOutStaysOut ==
    \A o \in Live : root[o] \in ended => root[o] \in contested
=============================================================================
