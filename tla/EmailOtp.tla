------------------------------ MODULE EmailOtp ------------------------------
(***************************************************************************)
(* One-time codes sent to one email address: AuthService.createAndSendOtp  *)
(* behind requestEmailOtp, signUp, signIn and resendOtp, and its two       *)
(* readers verifyEmailOtpCode and verifyOtp.                               *)
(*                                                                         *)
(* All rows of email_otp here are of one address; addresses share nothing. *)
(* A row is identified by the request that inserted it and so is its code  *)
(* (two codes of one address are taken to differ).  Time passes in         *)
(* seconds, in steps of its own; a handler keeps the `now` it took at its  *)
(* start.  The process may restart, which loses the in-memory rate bucket  *)
(* and every request being served, but no row.                             *)
(***************************************************************************)
EXTENDS Integers, FiniteSets, Sequences, SequencesExt

CONSTANTS
    SendReqs,     \* requests that end in createAndSendOtp
    VerifyReqs,   \* requests to verifyEmailOtpCode and verifyOtp
    Ips,          \* the requestIp of a send ("unknown" is one of them)
    MaxSends,     \* OTP_MAX_SENDS_PER_WINDOW
    MaxAttempts,  \* OTP_MAX_ATTEMPTS
    Window,       \* OTP_RATE_LIMIT_WINDOW_MIN
    Cooldown,     \* OTP_COOLDOWN_SECONDS
    Ttl,          \* OTP_TTL_SECONDS
    MaxTime,      \* bound: the clock stops there
    MaxRestarts,  \* bound: restarts of the process
    None          \* no row; also a code that is nobody's

ASSUME OtpAssumption ==
    /\ {MaxSends, MaxAttempts, Window, Cooldown, Ttl, MaxTime, MaxRestarts} \subseteq Nat
    /\ None \notin SendReqs \cup Ips
    /\ MaxAttempts > 0

VARIABLES
    now,       \* the clock
    restarts,  \* how often the process restarted
    bucket,    \* otpIpRateBucket: the sends remembered for each address
    send,      \* the send requests, with their local variables
    rows,      \* ids of the rows of email_otp, oldest first
    created,   \* their createdAt column
    attempts,  \* their attempts column
    consumed,  \* the rows whose consumedAt is set
    verify,    \* the verification requests, with their local variables
    overlap,   \* history: the requests holding the row a verification read
    crowded    \* history: two sends were once being served together

vars == <<now, restarts, bucket, send, rows, created, attempts, consumed, verify, overlap, crowded>>

SendPC == {"idle", "count", "latest", "create", "mail", "done", "limited",
           "unsent", "lost"}
VerifyPC == {"idle", "user", "consume", "miss", "redeemed", "refused", "lost"}

TypeOK ==
    /\ now \in Nat
    /\ restarts \in 0 .. MaxRestarts
    /\ bucket \in [Ips -> SUBSET SendReqs]
    /\ send \in [SendReqs -> [pc : SendPC, ip : Ips \cup {None}, at : Nat]]
    /\ rows \in Seq(SendReqs)
    /\ created \in [SendReqs -> Nat]
    /\ attempts \in [SendReqs -> Nat]
    /\ consumed \subseteq SendReqs
    /\ verify \in [VerifyReqs -> [pc : VerifyPC, kind : {"email", "login"},
                                  otp : SendReqs \cup {None}]]
    /\ overlap \in [VerifyReqs -> SUBSET VerifyReqs]
    /\ crowded \in BOOLEAN

Init ==
    /\ now = 0
    /\ restarts = 0
    /\ bucket = [ip \in Ips |-> {}]
    /\ send = [r \in SendReqs |-> [pc |-> "idle", ip |-> None, at |-> 0]]
    /\ rows = <<>>
    /\ created = [r \in SendReqs |-> 0]
    /\ attempts = [r \in SendReqs |-> 0]
    /\ consumed = {}
    /\ verify = [v \in VerifyReqs |-> [pc |-> "idle", kind |-> "email", otp |-> None]]
    /\ overlap = [v \in VerifyReqs |-> {}]
    /\ crowded = FALSE

ExpiresAt(r) == send[r].at + Ttl

-----------------------------------------------------------------------------
\* createAndSendOtp

SendTo(r, pc) == send' = [send EXCEPT ![r].pc = pc]

InService(r) == send[r].pc \in {"count", "latest", "create", "mail"}

\* Definitions named Bad... are faulty variants that no specification uses: each
\* replaces its original in turn to see that a property notices.
BadRecent(ip) == {q \in bucket[ip] : send[q].at > now - Window}

\* enforceOtpIpRateLimit runs before the first await: filter, check and push are
\* one step.
Recent(ip) == {q \in bucket[ip] : send[q].at >= now - Window}

SendStart(r, ip) ==
    /\ send[r].pc = "idle"
    /\ \/ /\ Cardinality(Recent(ip)) >= MaxSends
          /\ bucket' = [bucket EXCEPT ![ip] = Recent(ip)]
          /\ SendTo(r, "limited")
       \/ /\ Cardinality(Recent(ip)) < MaxSends
          /\ bucket' = [bucket EXCEPT ![ip] = Recent(ip) \cup {r}]
          /\ send' = [send EXCEPT ![r] = [pc |-> "count", ip |-> ip, at |-> now]]
    /\ crowded' = (crowded \/ \E q \in SendReqs : InService(q))
    /\ UNCHANGED <<now, restarts, rows, created, attempts, consumed, verify,
                   overlap>>

\* The rows of the window before the request started.
SendCount(r) ==
    /\ send[r].pc = "count"
    /\ LET sent == {q \in ToSet(rows) : created[q] >= send[r].at - Window} IN
       SendTo(r, IF Cardinality(sent) >= MaxSends THEN "limited" ELSE "latest")
    /\ UNCHANGED <<now, restarts, bucket, rows, created, attempts, consumed,
                   verify, overlap, crowded>>

BadUnused == ToSet(rows)

Unused == ToSet(rows) \ consumed

Usable(t) == {q \in Unused : ExpiresAt(q) > t}

\* o is what findFirst returns for the rows of S, newest first.
Newest(S, o) ==
    IF S = {} THEN o = None
    ELSE \E i \in DOMAIN rows :
            /\ o = rows[i] /\ o \in S
            /\ \A j \in DOMAIN rows : j > i => rows[j] \notin S

BadSendLatest(r) ==
    /\ send[r].pc = "latest"
    /\ SendTo(r, "create")
    /\ UNCHANGED <<now, restarts, bucket, rows, created, attempts, consumed,
                   verify, overlap, crowded>>

SendLatest(r) ==
    /\ send[r].pc = "latest"
    /\ \E latest \in SendReqs \cup {None} :
          /\ Newest(Usable(send[r].at), latest)
          /\ SendTo(r, IF latest # None /\ send[r].at - send[latest].at < Cooldown
                       THEN "limited" ELSE "create")
    /\ UNCHANGED <<now, restarts, bucket, rows, created, attempts, consumed,
                   verify, overlap, crowded>>

SendCreate(r) ==
    /\ send[r].pc = "create"
    /\ rows' = Append(rows, r)
    /\ created' = [created EXCEPT ![r] = now]
    /\ SendTo(r, "mail")
    /\ UNCHANGED <<now, restarts, bucket, attempts, consumed, verify,
                   overlap, crowded>>

\* A mail that cannot be sent fails the request; its row stays.
SendMail(r) ==
    /\ send[r].pc = "mail"
    /\ \E outcome \in {"done", "unsent"} : SendTo(r, outcome)
    /\ UNCHANGED <<now, restarts, bucket, rows, created, attempts, consumed,
                   verify, overlap, crowded>>

-----------------------------------------------------------------------------
\* verifyEmailOtpCode (kind "email") and verifyOtp (kind "login")

VerifyTo(v, pc) == verify' = [verify EXCEPT ![v].pc = pc]

Holds(v, o) == verify[v].otp = o /\ verify[v].pc \in {"user", "consume", "miss"}

\* verifyEmailOtpCode takes the newest row that is neither consumed nor expired,
\* verifyOtp the newest that is not consumed and refuses it when expired.
Candidate(kind, o) ==
    \/ kind = "email" /\ Newest(Usable(now), o)
    \/ kind = "login" /\ \E last \in SendReqs \cup {None} :
          /\ Newest(Unused, last)
          /\ o = IF last \in Usable(now) THEN last ELSE None

BadGuessable(o) == IF o = None THEN FALSE ELSE attempts[o] <= MaxAttempts

Guessable(o) == IF o = None THEN FALSE ELSE attempts[o] < MaxAttempts

\* The row is read and its attempts checked; the code is compared without
\* another await.
VerifyStart(v, kind, code) ==
    /\ verify[v].pc = "idle"
    /\ \E o \in SendReqs \cup {None} :
          /\ Candidate(kind, o)
          /\ \/ /\ ~Guessable(o)
                /\ VerifyTo(v, "refused")
                /\ UNCHANGED overlap
             \/ /\ Guessable(o)
                /\ verify' = [verify EXCEPT ![v] =
                      [pc |-> IF code # o THEN "miss"
                              ELSE IF kind = "email" THEN "consume" ELSE "user",
                       kind |-> kind, otp |-> o]]
                /\ overlap' = [overlap EXCEPT ![v] = {w \in VerifyReqs : Holds(w, o)}]
    /\ UNCHANGED <<now, restarts, bucket, send, rows, created, attempts, consumed,
                   crowded>>

VerifyMiss(v) ==
    /\ verify[v].pc = "miss"
    /\ attempts' = [attempts EXCEPT ![verify[v].otp] = @ + 1]
    /\ VerifyTo(v, "refused")
    /\ UNCHANGED <<now, restarts, bucket, send, rows, created, consumed,
                   overlap, crowded>>

\* verifyOtp looks the user up; a code can be requested for an email without one.
VerifyUser(v) ==
    /\ verify[v].pc = "user"
    /\ \E pc \in {"refused", "consume"} : VerifyTo(v, pc)
    /\ UNCHANGED <<now, restarts, bucket, send, rows, created, attempts, consumed,
                   overlap, crowded>>

\* The row is marked by id, whether or not it was consumed meanwhile.  What
\* verifyOtp writes in the same transaction and after it is in module Sessions.
VerifyConsume(v) ==
    /\ verify[v].pc = "consume"
    /\ consumed' = consumed \cup {verify[v].otp}
    /\ VerifyTo(v, "redeemed")
    /\ UNCHANGED <<now, restarts, bucket, send, rows, created, attempts, overlap,
                   crowded>>

-----------------------------------------------------------------------------
\* The clock and the process

Tick ==
    /\ now < MaxTime
    /\ now' = now + 1
    /\ UNCHANGED <<restarts, bucket, send, rows, created, attempts, consumed,
                   verify, overlap, crowded>>

Restart ==
    /\ restarts < MaxRestarts
    /\ restarts' = restarts + 1
    /\ bucket' = [ip \in Ips |-> {}]
    /\ send' = [r \in SendReqs |->
                  IF InService(r) THEN [send[r] EXCEPT !.pc = "lost"] ELSE send[r]]
    /\ verify' = [v \in VerifyReqs |->
                  IF verify[v].pc \in {"user", "consume", "miss"}
                  THEN [verify[v] EXCEPT !.pc = "lost"] ELSE verify[v]]
    /\ UNCHANGED <<now, rows, created, attempts, consumed, overlap, crowded>>

Next ==
    \/ \E r \in SendReqs :
          \/ \E ip \in Ips : SendStart(r, ip)
          \/ SendCount(r)
          \/ SendLatest(r)
          \/ SendCreate(r)
          \/ SendMail(r)
    \/ \E v \in VerifyReqs :
          \/ \E kind \in {"email", "login"}, code \in SendReqs \cup {None} :
                VerifyStart(v, kind, code)
          \/ VerifyMiss(v)
          \/ VerifyUser(v)
          \/ VerifyConsume(v)
    \/ Tick
    \/ Restart

Spec == Init /\ [][Next]_vars

-----------------------------------------------------------------------------
\* Whatever the interleaving of sends, one address gets at most MaxSends codes
\* into rows within a window, each restart of the process (which empties the
\* bucket) granting at most as many again.
SendsPerWindow ==
    \A r \in ToSet(rows) :
        Cardinality({q \in ToSet(rows) : /\ send[q].ip = send[r].ip
                                         /\ send[q].at \in send[r].at - Window .. send[r].at})
            <= MaxSends * (1 + restarts)

\* A code is redeemed twice only by two requests of which one had read the row
\* and not yet marked it when the other read it.
DoubleUseNeedsOverlap ==
    \A v, w \in VerifyReqs :
        /\ v # w
        /\ verify[v].pc = "redeemed" /\ verify[w].pc = "redeemed"
        /\ verify[v].otp = verify[w].otp
        => v \in overlap[w] \/ w \in overlap[v]

\* More than MaxAttempts wrong guesses are counted on a row only when guesses
\* overlapped.
AttemptsBounded ==
    \A o \in ToSet(rows) :
        attempts[o] > MaxAttempts =>
            \E v \in VerifyReqs : verify[v].otp = o /\ overlap[v] # {}

\* As long as sends of one email are served one after the other, a new code is
\* not sent within the cooldown of an earlier one that can still be used.
CooldownKept ==
    ~crowded =>
        \A a, b \in ToSet(rows) :
            (/\ a # b
             /\ send[a].at <= send[b].at /\ send[b].at - send[a].at < Cooldown)
            => a \in consumed \/ b \in consumed \/ ExpiresAt(a) <= send[b].at
=============================================================================
