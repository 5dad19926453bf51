--------------------------- MODULE EmailOtpProofs ---------------------------
(***************************************************************************)
(* Proofs about EmailOtp for every number of requests and addresses, every *)
(* limit and every clock: types, that a code is redeemed twice only by     *)
(* overlapping requests, that only overlapping guesses exceed the limit on *)
(* wrong ones, how many codes a window may see, and the cooldown.          *)
(***************************************************************************)
EXTENDS EmailOtp, FiniteSetTheorems, TLAPS

SendLocals == [pc : SendPC, ip : Ips \cup {None}, at : Nat]
VerifyLocals == [pc : VerifyPC, kind : {"email", "login"}, otp : SendReqs \cup {None}]

\* v has read row o as usable; it may be done with it.
Took(v, o) == verify[v].pc # "idle" /\ verify[v].otp = o /\ o # None

\* v read o and has marked it or will.
Redeems(v, o) == Took(v, o) /\ verify[v].pc \in {"user", "consume", "redeemed"}

HolderInv ==
    \A v \in VerifyReqs :
        /\ verify[v].pc = "idle" => verify[v].otp = None
        /\ verify[v].pc \in {"user", "consume", "miss", "redeemed"}
              => verify[v].otp \in SendReqs
        /\ verify[v].pc = "redeemed" => verify[v].otp \in consumed

\* Two requests that can both redeem a row overlapped.
DoubleInv ==
    \A v, w \in VerifyReqs : \A o \in SendReqs :
        v # w /\ Redeems(v, o) /\ Redeems(w, o) => v \in overlap[w] \/ w \in overlap[v]

Crowd(o) == \E v \in VerifyReqs : verify[v].otp = o /\ overlap[v] # {}

\* Unless guesses of o overlapped, one request at a time holds o, and it counts
\* its miss below the limit.
AttemptsInv ==
    \A o \in SendReqs :
        \/ Crowd(o)
        \/ /\ attempts[o] <= MaxAttempts
           /\ \A v \in VerifyReqs : Holds(v, o) => attempts[o] < MaxAttempts
           /\ \A v, w \in VerifyReqs : Holds(v, o) /\ Holds(w, o) => v = w

\* The inductive invariant.
IInv == TypeOK /\ HolderInv /\ DoubleInv /\ AttemptsInv

-----------------------------------------------------------------------------
LEMMA TypeInit == Init => TypeOK
<1> SUFFICES ASSUME Init PROVE TypeOK
  OBVIOUS
<1>1. [pc |-> "idle", ip |-> None, at |-> 0] \in SendLocals
  BY DEF SendLocals, SendPC
<1>2. [pc |-> "idle", kind |-> "email", otp |-> None] \in VerifyLocals
  BY DEF VerifyLocals, VerifyPC
<1>3. rows \in Seq(SendReqs)
  BY DEF Init
<1>4. restarts \in 0 .. MaxRestarts
  BY OtpAssumption DEF Init
<1> QED
  BY <1>1, <1>2, <1>3, <1>4 DEF Init, TypeOK, SendLocals, VerifyLocals

LEMMA SendToType ==
    ASSUME TypeOK, NEW r \in SendReqs, NEW pc \in SendPC, SendTo(r, pc)
    PROVE  send' \in [SendReqs -> SendLocals]
<1>1. [send[r] EXCEPT !.pc = pc] \in SendLocals
  BY DEF TypeOK, SendLocals
<1>2. send' = [send EXCEPT ![r] = [send[r] EXCEPT !.pc = pc]]
  BY DEF SendTo
<1> QED
  BY <1>1, <1>2 DEF TypeOK, SendLocals

LEMMA VerifyToType ==
    ASSUME TypeOK, NEW v \in VerifyReqs, NEW pc \in VerifyPC, VerifyTo(v, pc)
    PROVE  verify' \in [VerifyReqs -> VerifyLocals]
<1>1. [verify[v] EXCEPT !.pc = pc] \in VerifyLocals
  BY DEF TypeOK, VerifyLocals
<1>2. verify' = [verify EXCEPT ![v] = [verify[v] EXCEPT !.pc = pc]]
  BY DEF VerifyTo
<1> QED
  BY <1>1, <1>2 DEF TypeOK, VerifyLocals

\* The requests still being served are lost, everything else of them is kept.
LEMMA RestartType ==
    ASSUME TypeOK, Restart
    PROVE  /\ send' \in [SendReqs -> SendLocals]
           /\ verify' \in [VerifyReqs -> VerifyLocals]
<1>1. \A r \in SendReqs : [send[r] EXCEPT !.pc = "lost"] \in SendLocals
  BY DEF TypeOK, SendLocals, SendPC
<1>2. \A r \in SendReqs : send[r] \in SendLocals
  BY DEF TypeOK, SendLocals
<1>3. \A v \in VerifyReqs : [verify[v] EXCEPT !.pc = "lost"] \in VerifyLocals
  BY DEF TypeOK, VerifyLocals, VerifyPC
<1>4. \A v \in VerifyReqs : verify[v] \in VerifyLocals
  BY DEF TypeOK, VerifyLocals
<1>5. send' \in [SendReqs -> SendLocals]
  BY <1>1, <1>2 DEF Restart
<1>6. verify' \in [VerifyReqs -> VerifyLocals]
  BY <1>3, <1>4 DEF Restart
<1> QED
  BY <1>5, <1>6

LEMMA TypeStep == TypeOK /\ HolderInv /\ [Next]_vars => TypeOK'
<1> SUFFICES ASSUME TypeOK, HolderInv, [Next]_vars PROVE TypeOK'
  OBVIOUS
<1> USE DEF SendLocals, VerifyLocals
<1>1. ASSUME NEW r \in SendReqs, NEW ip \in Ips, SendStart(r, ip) PROVE TypeOK'
  <2>1. [pc |-> "count", ip |-> ip, at |-> now] \in SendLocals
    BY DEF TypeOK, SendPC
  <2>2. "limited" \in SendPC
    BY DEF SendPC
  <2>3. send' \in [SendReqs -> SendLocals]
    <3>1. CASE SendTo(r, "limited")
      BY <3>1, <2>2, SendToType
    <3>2. CASE send' = [send EXCEPT ![r] = [pc |-> "count", ip |-> ip, at |-> now]]
      BY <3>2, <2>1 DEF TypeOK
    <3> QED
      BY <1>1, <3>1, <3>2 DEF SendStart
  <2>4. bucket' \in [Ips -> SUBSET SendReqs]
    <3>1. Recent(ip) \in SUBSET SendReqs /\ Recent(ip) \cup {r} \in SUBSET SendReqs
      BY DEF Recent, TypeOK
    <3> QED
      BY <1>1, <3>1 DEF SendStart, TypeOK
  <2>5. crowded' \in BOOLEAN
    BY <1>1 DEF SendStart, TypeOK
  <2> QED
    BY <1>1, <2>3, <2>4, <2>5 DEF SendStart, TypeOK
<1>2. ASSUME NEW r \in SendReqs, SendCount(r) PROVE TypeOK'
  <2>1. PICK pc \in {"limited", "latest"} : SendTo(r, pc)
    BY <1>2 DEF SendCount
  <2>2. send' \in [SendReqs -> SendLocals]
    BY <2>1, SendToType DEF SendPC
  <2> QED
    BY <1>2, <2>2 DEF SendCount, TypeOK
<1>3. ASSUME NEW r \in SendReqs, SendLatest(r) PROVE TypeOK'
  <2>1. PICK pc \in {"limited", "create"} : SendTo(r, pc)
    BY <1>3 DEF SendLatest
  <2>2. send' \in [SendReqs -> SendLocals]
    BY <2>1, SendToType DEF SendPC
  <2> QED
    BY <1>3, <2>2 DEF SendLatest, TypeOK
<1>4. ASSUME NEW r \in SendReqs, SendCreate(r) PROVE TypeOK'
  <2>1. send' \in [SendReqs -> SendLocals]
    BY <1>4, SendToType DEF SendCreate, SendPC
  <2>2. rows' \in Seq(SendReqs)
    BY <1>4 DEF SendCreate, TypeOK
  <2> QED
    BY <1>4, <2>1, <2>2 DEF SendCreate, TypeOK
<1>5. ASSUME NEW r \in SendReqs, SendMail(r) PROVE TypeOK'
  <2>1. PICK pc \in {"done", "unsent"} : SendTo(r, pc)
    BY <1>5 DEF SendMail
  <2>2. send' \in [SendReqs -> SendLocals]
    BY <2>1, SendToType DEF SendPC
  <2> QED
    BY <1>5, <2>2 DEF SendMail, TypeOK
<1>6. ASSUME NEW v \in VerifyReqs, NEW kind \in {"email", "login"},
             NEW code \in SendReqs \cup {None}, VerifyStart(v, kind, code)
      PROVE  TypeOK'
  <2>1. PICK o \in SendReqs \cup {None} :
           \/ VerifyTo(v, "refused") /\ UNCHANGED overlap
           \/ /\ verify' = [verify EXCEPT ![v] =
                    [pc |-> IF code # o THEN "miss"
                            ELSE IF kind = "email" THEN "consume" ELSE "user",
                     kind |-> kind, otp |-> o]]
              /\ overlap' = [overlap EXCEPT ![v] = {w \in VerifyReqs : Holds(w, o)}]
    BY <1>6 DEF VerifyStart
  <2>2. "refused" \in VerifyPC
    BY DEF VerifyPC
  <2>3. [pc |-> IF code # o THEN "miss" ELSE IF kind = "email" THEN "consume" ELSE "user",
         kind |-> kind, otp |-> o] \in VerifyLocals
    BY DEF VerifyPC
  <2>4. verify' \in [VerifyReqs -> VerifyLocals]
    <3>1. CASE VerifyTo(v, "refused")
      BY <3>1, <2>2, VerifyToType
    <3>2. CASE ~VerifyTo(v, "refused")
      BY <3>2, <2>1, <2>3 DEF TypeOK
    <3> QED
      BY <3>1, <3>2
  <2>5. overlap' \in [VerifyReqs -> SUBSET VerifyReqs]
    <3>1. {w \in VerifyReqs : Holds(w, o)} \in SUBSET VerifyReqs
      OBVIOUS
    <3> QED
      BY <2>1, <3>1 DEF TypeOK
  <2> QED
    BY <1>6, <2>4, <2>5 DEF VerifyStart, TypeOK
<1>7. ASSUME NEW v \in VerifyReqs, VerifyMiss(v) PROVE TypeOK'
  <2>1. verify' \in [VerifyReqs -> VerifyLocals]
    BY <1>7, VerifyToType DEF VerifyMiss, VerifyPC
  <2>2. attempts' \in [SendReqs -> Nat]
    <3>1. verify[v].otp \in SendReqs
      BY <1>7 DEF VerifyMiss, HolderInv
    <3>2. attempts[verify[v].otp] + 1 \in Nat
      BY <3>1 DEF TypeOK
    <3> QED
      BY <1>7, <3>2 DEF VerifyMiss, TypeOK
  <2> QED
    BY <1>7, <2>1, <2>2 DEF VerifyMiss, TypeOK
<1>8. ASSUME NEW v \in VerifyReqs, VerifyUser(v) PROVE TypeOK'
  <2>1. PICK pc \in {"refused", "consume"} : VerifyTo(v, pc)
    BY <1>8 DEF VerifyUser
  <2>2. verify' \in [VerifyReqs -> VerifyLocals]
    BY <2>1, VerifyToType DEF VerifyPC
  <2> QED
    BY <1>8, <2>2 DEF VerifyUser, TypeOK
<1>9. ASSUME NEW v \in VerifyReqs, VerifyConsume(v) PROVE TypeOK'
  <2>1. verify' \in [VerifyReqs -> VerifyLocals]
    BY <1>9, VerifyToType DEF VerifyConsume, VerifyPC
  <2>2. consumed' \subseteq SendReqs
    BY <1>9 DEF VerifyConsume, TypeOK, HolderInv
  <2> QED
    BY <1>9, <2>1, <2>2 DEF VerifyConsume, TypeOK
<1>10. ASSUME Tick PROVE TypeOK'
  BY <1>10 DEF Tick, TypeOK
<1>11. ASSUME Restart PROVE TypeOK'
  <2>1. restarts' \in 0 .. MaxRestarts
    BY <1>11, OtpAssumption DEF Restart, TypeOK
  <2> QED
    BY <1>11, <2>1, RestartType DEF Restart, TypeOK
<1>12. ASSUME UNCHANGED vars PROVE TypeOK'
  BY <1>12 DEF vars, TypeOK
<1> QED
  BY <1>1, <1>2, <1>3, <1>4, <1>5, <1>6, <1>7, <1>8, <1>9, <1>10, <1>11, <1>12 DEF Next

-----------------------------------------------------------------------------
\* What the rest of the invariant speaks of is left alone by sends and the clock.
Outside == UNCHANGED <<verify, overlap, attempts, consumed>>

LEMMA SafetyInit == Init => HolderInv /\ DoubleInv /\ AttemptsInv
<1> SUFFICES ASSUME Init PROVE HolderInv /\ DoubleInv /\ AttemptsInv
  OBVIOUS
<1>1. HolderInv
  BY DEF Init, HolderInv
<1>2. DoubleInv
  BY DEF Init, DoubleInv, Redeems, Took
<1>3. AttemptsInv
  BY OtpAssumption DEF Init, AttemptsInv, Holds
<1> QED
  BY <1>1, <1>2, <1>3

\* The four steps of a verification and a restart change verify in this way: v
\* moves on with the row it holds.
LEMMA Moved ==
    ASSUME TypeOK, NEW v \in VerifyReqs, NEW pc \in VerifyPC, VerifyTo(v, pc)
    PROVE  /\ verify'[v].pc = pc
           /\ \A w \in VerifyReqs : /\ verify'[w].otp = verify[w].otp
                                    /\ w # v => verify'[w] = verify[w]
BY DEF VerifyTo, TypeOK

LEMMA HolderStep == TypeOK /\ HolderInv /\ [Next]_vars => HolderInv'
<1> SUFFICES ASSUME TypeOK, HolderInv, [Next]_vars PROVE HolderInv'
  OBVIOUS
<1>1. ASSUME NEW v \in VerifyReqs, NEW kind \in {"email", "login"},
             NEW code \in SendReqs \cup {None}, VerifyStart(v, kind, code)
      PROVE  HolderInv'
  <2>1. PICK o \in SendReqs \cup {None} :
           \/ VerifyTo(v, "refused")
           \/ /\ o # None
              /\ verify' = [verify EXCEPT ![v] =
                    [pc |-> IF code # o THEN "miss"
                            ELSE IF kind = "email" THEN "consume" ELSE "user",
                     kind |-> kind, otp |-> o]]
    BY <1>1 DEF VerifyStart, Guessable
  <2>2. consumed' = consumed
    BY <1>1 DEF VerifyStart
  <2>3. CASE VerifyTo(v, "refused")
    BY <2>2, <2>3, Moved DEF HolderInv, VerifyPC
  <2>4. CASE ~VerifyTo(v, "refused")
    <3>1. /\ o \in SendReqs
          /\ verify'[v].otp = o
          /\ verify'[v].pc \in {"miss", "consume", "user"}
          /\ \A w \in VerifyReqs \ {v} : verify'[w] = verify[w]
      BY <2>1, <2>4 DEF TypeOK
    <3> QED
      BY <2>2, <3>1 DEF HolderInv
  <2> QED
    BY <2>3, <2>4
<1>2. ASSUME NEW v \in VerifyReqs, VerifyMiss(v) PROVE HolderInv'
  BY <1>2, Moved DEF VerifyMiss, HolderInv, VerifyPC
<1>3. ASSUME NEW v \in VerifyReqs, VerifyUser(v) PROVE HolderInv'
  <2>1. PICK pc \in {"refused", "consume"} : VerifyTo(v, pc)
    BY <1>3 DEF VerifyUser
  <2> QED
    BY <1>3, <2>1, Moved DEF VerifyUser, HolderInv, VerifyPC
<1>4. ASSUME NEW v \in VerifyReqs, VerifyConsume(v) PROVE HolderInv'
  BY <1>4, Moved DEF VerifyConsume, HolderInv, VerifyPC
<1>5. ASSUME Restart PROVE HolderInv'
  BY <1>5 DEF Restart, HolderInv, TypeOK
<1>6. ASSUME Outside PROVE HolderInv'
  BY <1>6 DEF Outside, HolderInv
<1> QED
  BY <1>1, <1>2, <1>3, <1>4, <1>5, <1>6
     DEF Next, vars, Outside, SendStart, SendCount, SendLatest, SendCreate, SendMail, Tick

LEMMA DoubleStep == IInv /\ [Next]_vars => DoubleInv'
<1> SUFFICES ASSUME IInv, [Next]_vars PROVE DoubleInv'
  OBVIOUS
<1> USE DEF IInv
<1>1. ASSUME NEW v \in VerifyReqs, NEW kind \in {"email", "login"},
             NEW code \in SendReqs \cup {None}, VerifyStart(v, kind, code)
      PROVE  DoubleInv'
  <2>1. CASE VerifyTo(v, "refused") /\ UNCHANGED overlap
    BY <2>1, Moved DEF DoubleInv, Redeems, Took, VerifyPC
  <2>2. CASE ~(VerifyTo(v, "refused") /\ UNCHANGED overlap)
    <3>1. PICK o \in SendReqs :
             /\ o \notin consumed
             /\ verify' = [verify EXCEPT ![v] =
                   [pc |-> IF code # o THEN "miss"
                           ELSE IF kind = "email" THEN "consume" ELSE "user",
                    kind |-> kind, otp |-> o]]
             /\ overlap' = [overlap EXCEPT ![v] = {w \in VerifyReqs : Holds(w, o)}]
      BY <1>1, <2>2 DEF VerifyStart, Guessable, Candidate, Newest, Usable, Unused
    <3>2. verify'[v].otp = o /\ \A w \in VerifyReqs \ {v} : verify'[w] = verify[w]
      BY <3>1 DEF TypeOK
    <3>3. /\ overlap'[v] = {w \in VerifyReqs : Holds(w, o)}
          /\ \A w \in VerifyReqs \ {v} : overlap'[w] = overlap[w]
      BY <3>1 DEF TypeOK
    <3>4. \A w \in VerifyReqs : Redeems(w, o) => w \in overlap'[v]
      BY <3>1, <3>3 DEF Redeems, Took, Holds, HolderInv
    <3> QED
      BY <3>2, <3>3, <3>4 DEF DoubleInv, Redeems, Took
  <2> QED
    BY <2>1, <2>2
<1>2. ASSUME NEW v \in VerifyReqs, VerifyMiss(v) PROVE DoubleInv'
  BY <1>2, Moved DEF VerifyMiss, DoubleInv, Redeems, Took, VerifyPC
<1>3. ASSUME NEW v \in VerifyReqs, VerifyUser(v) PROVE DoubleInv'
  <2>1. PICK pc \in {"refused", "consume"} : VerifyTo(v, pc)
    BY <1>3 DEF VerifyUser
  <2> QED
    BY <1>3, <2>1, Moved DEF VerifyUser, DoubleInv, Redeems, Took, VerifyPC
<1>4. ASSUME NEW v \in VerifyReqs, VerifyConsume(v) PROVE DoubleInv'
  BY <1>4, Moved DEF VerifyConsume, DoubleInv, Redeems, Took, VerifyPC
<1>5. ASSUME Restart PROVE DoubleInv'
  <2>1. \A v \in VerifyReqs : \A o \in SendReqs : Redeems(v, o)' => Redeems(v, o)
    BY <1>5 DEF Restart, Redeems, Took, TypeOK
  <2>2. UNCHANGED overlap
    BY <1>5 DEF Restart
  <2> QED
    BY <2>1, <2>2 DEF DoubleInv
<1>6. ASSUME Outside PROVE DoubleInv'
  BY <1>6 DEF Outside, DoubleInv, Redeems, Took
<1> QED
  BY <1>1, <1>2, <1>3, <1>4, <1>5, <1>6
     DEF Next, vars, Outside, SendStart, SendCount, SendLatest, SendCreate, SendMail, Tick

\* A row with overlapping guesses keeps them on record.
LEMMA CrowdKept ==
    ASSUME TypeOK, HolderInv, [Next]_vars, NEW o \in SendReqs, Crowd(o)
    PROVE  Crowd(o)'
<1>1. PICK v \in VerifyReqs : verify[v].otp = o /\ overlap[v] # {}
  BY DEF Crowd
<1>2. verify[v].pc # "idle"
  BY <1>1, OtpAssumption DEF HolderInv
<1>3. verify'[v].otp = o /\ overlap'[v] = overlap[v]
  <2>1. ASSUME NEW w \in VerifyReqs, NEW kind \in {"email", "login"},
               NEW code \in SendReqs \cup {None}, VerifyStart(w, kind, code)
        PROVE  verify'[v].otp = o /\ overlap'[v] = overlap[v]
    BY <1>1, <1>2, <2>1 DEF VerifyStart, VerifyTo, TypeOK
  <2>2. ASSUME NEW w \in VerifyReqs, NEW pc \in VerifyPC, VerifyTo(w, pc), UNCHANGED overlap
        PROVE  verify'[v].otp = o /\ overlap'[v] = overlap[v]
    BY <1>1, <2>2, Moved
  <2>3. ASSUME Restart PROVE verify'[v].otp = o /\ overlap'[v] = overlap[v]
    BY <1>1, <2>3 DEF Restart, TypeOK
  <2>4. ASSUME Outside PROVE verify'[v].otp = o /\ overlap'[v] = overlap[v]
    BY <1>1, <2>4 DEF Outside
  <2>5. ASSUME NEW w \in VerifyReqs, VerifyMiss(w) \/ VerifyUser(w) \/ VerifyConsume(w)
        PROVE  verify'[v].otp = o /\ overlap'[v] = overlap[v]
    <3>1. PICK pc \in VerifyPC : VerifyTo(w, pc)
      BY <2>5 DEF VerifyMiss, VerifyUser, VerifyConsume, VerifyPC
    <3>2. UNCHANGED overlap
      BY <2>5 DEF VerifyMiss, VerifyUser, VerifyConsume
    <3> QED
      BY <2>2, <3>1, <3>2
  <2> QED
    BY <2>1, <2>3, <2>4, <2>5
       DEF Next, vars, Outside, SendStart, SendCount, SendLatest, SendCreate, SendMail, Tick
<1> QED
  BY <1>1, <1>3 DEF Crowd

\* Nobody takes up a row and no miss is counted: the bound stays.
Calm(o) == /\ attempts'[o] = attempts[o]
           /\ \A v \in VerifyReqs : Holds(v, o)' => Holds(v, o)

LEMMA AttemptsStep == IInv /\ [Next]_vars => AttemptsInv'
<1> SUFFICES ASSUME IInv, [Next]_vars, NEW o \in SendReqs, ~Crowd(o), ~Crowd(o)'
             PROVE  (/\ attempts[o] <= MaxAttempts
                     /\ \A v \in VerifyReqs : Holds(v, o) => attempts[o] < MaxAttempts
                     /\ \A v, w \in VerifyReqs : Holds(v, o) /\ Holds(w, o) => v = w)'
  BY CrowdKept DEF AttemptsInv, IInv
<1> USE DEF IInv
<1>0. /\ attempts[o] <= MaxAttempts
      /\ \A v \in VerifyReqs : Holds(v, o) => attempts[o] < MaxAttempts
      /\ \A v, w \in VerifyReqs : Holds(v, o) /\ Holds(w, o) => v = w
  BY DEF AttemptsInv
<1>a. ASSUME Calm(o)
      PROVE  (/\ attempts[o] <= MaxAttempts
              /\ \A v \in VerifyReqs : Holds(v, o) => attempts[o] < MaxAttempts
              /\ \A v, w \in VerifyReqs : Holds(v, o) /\ Holds(w, o) => v = w)'
  BY <1>0, <1>a DEF Calm
<1>1. ASSUME NEW v \in VerifyReqs, NEW kind \in {"email", "login"},
             NEW code \in SendReqs \cup {None}, VerifyStart(v, kind, code)
      PROVE  (/\ attempts[o] <= MaxAttempts
              /\ \A w \in VerifyReqs : Holds(w, o) => attempts[o] < MaxAttempts
              /\ \A w, u \in VerifyReqs : Holds(w, o) /\ Holds(u, o) => w = u)'
  <2>1. UNCHANGED attempts
    BY <1>1 DEF VerifyStart
  <2>2. CASE VerifyTo(v, "refused")
    <3>1. Calm(o)
      BY <2>1, <2>2, Moved DEF Calm, Holds, VerifyPC
    <3> QED
      BY <3>1, <1>a
  <2>3. CASE ~VerifyTo(v, "refused")
    <3>1. PICK r \in SendReqs :
             /\ attempts[r] < MaxAttempts
             /\ verify' = [verify EXCEPT ![v] =
                   [pc |-> IF code # r THEN "miss"
                           ELSE IF kind = "email" THEN "consume" ELSE "user",
                    kind |-> kind, otp |-> r]]
             /\ overlap' = [overlap EXCEPT ![v] = {w \in VerifyReqs : Holds(w, r)}]
      BY <1>1, <2>3 DEF VerifyStart, Guessable
    <3>2. verify'[v].otp = r /\ \A w \in VerifyReqs \ {v} : verify'[w] = verify[w]
      BY <3>1 DEF TypeOK
    <3>3. CASE r # o
      <4>1. Calm(o)
        BY <2>1, <3>2, <3>3 DEF Calm, Holds
      <4> QED
        BY <4>1, <1>a
    <3>4. CASE r = o
      <4>1. overlap'[v] = {}
        BY <3>2, <3>4 DEF Crowd
      <4>2. \A w \in VerifyReqs : ~Holds(w, o)
        BY <3>1, <3>4, <4>1 DEF TypeOK
      <4>3. \A w \in VerifyReqs : Holds(w, o)' => w = v
        BY <3>2, <4>2 DEF Holds
      <4> QED
        BY <1>0, <2>1, <3>1, <3>4, <4>3
    <3> QED
      BY <3>3, <3>4
  <2> QED
    BY <2>2, <2>3
<1>2. ASSUME NEW v \in VerifyReqs, VerifyMiss(v)
      PROVE  (/\ attempts[o] <= MaxAttempts
              /\ \A w \in VerifyReqs : Holds(w, o) => attempts[o] < MaxAttempts
              /\ \A w, u \in VerifyReqs : Holds(w, o) /\ Holds(u, o) => w = u)'
  <2>1. /\ \A w \in VerifyReqs : Holds(w, o)' => Holds(w, o)
        /\ ~Holds(v, o)'
    BY <1>2, Moved DEF VerifyMiss, Holds, VerifyPC
  <2>2. CASE verify[v].otp # o
    <3>1. Calm(o)
      BY <1>2, <2>1, <2>2 DEF Calm, VerifyMiss, TypeOK
    <3> QED
      BY <3>1, <1>a
  <2>3. CASE verify[v].otp = o
    <3>1. Holds(v, o)
      BY <1>2, <2>3 DEF VerifyMiss, Holds
    <3>2. attempts'[o] = attempts[o] + 1
      BY <1>2, <2>3 DEF VerifyMiss, TypeOK
    <3>3. \A w \in VerifyReqs : ~Holds(w, o)'
      BY <1>0, <2>1, <3>1
    <3>4. attempts[o] \in Nat /\ MaxAttempts \in Nat
      BY OtpAssumption DEF TypeOK
    <3>5. attempts'[o] <= MaxAttempts
      BY <1>0, <3>1, <3>2, <3>4
    <3> QED
      BY <3>3, <3>5
  <2> QED
    BY <2>2, <2>3
<1>3. ASSUME NEW v \in VerifyReqs, VerifyUser(v) PROVE Calm(o)
  <2>1. PICK pc \in {"refused", "consume"} : VerifyTo(v, pc)
    BY <1>3 DEF VerifyUser
  <2> QED
    BY <1>3, <2>1, Moved DEF VerifyUser, Calm, Holds, VerifyPC
<1>4. ASSUME NEW v \in VerifyReqs, VerifyConsume(v) PROVE Calm(o)
  BY <1>4, Moved DEF VerifyConsume, Calm, Holds, VerifyPC
<1>5. ASSUME Restart PROVE Calm(o)
  BY <1>5 DEF Restart, Calm, Holds, TypeOK
<1>6. ASSUME Outside PROVE Calm(o)
  BY <1>6 DEF Outside, Calm, Holds
<1> QED
  BY <1>a, <1>1, <1>2, <1>3, <1>4, <1>5, <1>6
     DEF Next, vars, Outside, SendStart, SendCount, SendLatest, SendCreate, SendMail, Tick

-----------------------------------------------------------------------------
LEMMA Invariance == Spec => []IInv
<1>1. Init => IInv
  BY TypeInit, SafetyInit DEF IInv
<1>2. IInv /\ [Next]_vars => IInv'
  <2> SUFFICES ASSUME IInv, [Next]_vars PROVE IInv'
    OBVIOUS
  <2>1. TypeOK'
    BY TypeStep DEF IInv
  <2>2. HolderInv'
    BY HolderStep DEF IInv
  <2>3. DoubleInv'
    BY DoubleStep
  <2>4. AttemptsInv'
    BY AttemptsStep
  <2> QED
    BY <2>1, <2>2, <2>3, <2>4 DEF IInv
<1> QED
  BY <1>1, <1>2, PTL DEF Spec

\* Every reachable state of the codes of one address is well typed.
THEOREM TypeCorrect == Spec => []TypeOK
<1>1. IInv => TypeOK
  BY DEF IInv
<1> QED
  BY <1>1, Invariance, PTL

\* However sends, verifications, the clock and restarts interleave, a code is
\* redeemed twice only by requests that held its row at the same time.
THEOREM OneUseUnlessOverlapping == Spec => []DoubleUseNeedsOverlap
<1>1. IInv => DoubleUseNeedsOverlap
  <2> SUFFICES ASSUME IInv, NEW v \in VerifyReqs, NEW w \in VerifyReqs, v # w,
                      verify[v].pc = "redeemed", verify[w].pc = "redeemed",
                      verify[v].otp = verify[w].otp
               PROVE  v \in overlap[w] \/ w \in overlap[v]
    BY DEF DoubleUseNeedsOverlap
  <2>1. verify[v].otp \in SendReqs
    BY DEF IInv, HolderInv
  <2>2. Redeems(v, verify[v].otp) /\ Redeems(w, verify[v].otp)
    BY <2>1, OtpAssumption DEF Redeems, Took
  <2> QED
    BY <2>1, <2>2 DEF IInv, DoubleInv
<1> QED
  BY <1>1, Invariance, PTL

\* The limit on wrong guesses of a code is exceeded only by overlapping guesses.
THEOREM GuessesLimited == Spec => []AttemptsBounded
<1>1. IInv => AttemptsBounded
  <2> SUFFICES ASSUME IInv, NEW o \in ToSet(rows), attempts[o] > MaxAttempts
               PROVE  Crowd(o)
    BY DEF AttemptsBounded, Crowd
  <2>1. o \in SendReqs
    BY DEF IInv, TypeOK, ToSet
  <2>2. attempts[o] \in Nat /\ MaxAttempts \in Nat
    BY <2>1, OtpAssumption DEF IInv, TypeOK
  <2> QED
    BY <2>1, <2>2 DEF IInv, AttemptsInv
<1> QED
  BY <1>1, Invariance, PTL

-----------------------------------------------------------------------------
(* Sends: how many a window may see, and how far apart they are.           *)

\* A request keeps its address and its time from the moment it is let in, and has
\* no row before it inserts one.
SentInv ==
    /\ \A r \in SendReqs :
          /\ send[r].at <= now
          /\ send[r].pc = "idle" => send[r].ip = None
          /\ InService(r) => send[r].ip \in Ips
          /\ r \in ToSet(rows) => /\ send[r].pc \notin {"idle", "count", "latest", "create"}
                                  /\ send[r].ip \in Ips
    /\ \A i, j \in DOMAIN rows : rows[i] = rows[j] => i = j

Accepted(ip) == {q \in SendReqs : send[q].ip = ip}
Within(ip, t) == {q \in Accepted(ip) : send[q].at \in t - Window .. t}

\* The sends of a window up to some moment number at most MaxSends for each life
\* of the process; those of the current window that the bucket does not remember
\* were let in by earlier lives.
RateInv ==
    \A ip \in Ips :
        /\ IsFiniteSet(Accepted(ip)) /\ bucket[ip] \subseteq Accepted(ip)
        /\ \A t \in 0 .. now : Cardinality(Within(ip, t)) <= MaxSends * (1 + restarts)
        /\ Cardinality(Within(ip, now) \ bucket[ip]) <= MaxSends * restarts

\* b may be sent after a.
Free(a, b) ==
    a \in consumed \/ ExpiresAt(a) <= send[b].at \/ send[b].at - send[a].at >= Cooldown

\* Served one after the other, the sends insert their rows in the order they
\* came, each having seen that it may.
CoolInv ==
    ~crowded =>
        /\ \A a, b \in SendReqs : InService(a) /\ InService(b) => a = b
        /\ \A i, j \in DOMAIN rows : i < j => send[rows[i]].at <= send[rows[j]].at
        /\ \A i \in DOMAIN rows, b \in SendReqs : InService(b) => send[rows[i]].at <= send[b].at
        /\ \A i \in DOMAIN rows, b \in SendReqs : send[b].pc = "create" => Free(rows[i], b)
        /\ \A i, j \in DOMAIN rows : i < j => Free(rows[i], rows[j])

Typed == TypeOK /\ HolderInv /\ TypeOK'

LEMMA TypedSends ==
    ASSUME TypeOK
    PROVE  /\ \A r \in SendReqs : send[r].at \in Nat /\ send[r].ip \in Ips \cup {None}
           /\ \A i \in DOMAIN rows : rows[i] \in SendReqs /\ i \in Nat
           /\ ToSet(rows) \subseteq SendReqs
           /\ \A i \in DOMAIN rows : rows[i] \in ToSet(rows)
           /\ \A r \in ToSet(rows) : \E i \in DOMAIN rows : r = rows[i]
           /\ now \in Nat /\ restarts \in Nat
BY OtpAssumption, SMTT(30) DEF TypeOK, ToSet

\* A step of a request that is served already: it and the others keep address
\* and time.
Steady == \A q \in SendReqs : send'[q].ip = send[q].ip /\ send'[q].at = send[q].at

LEMMA MovesOn ==
    ASSUME TypeOK, NEW r \in SendReqs, NEW pc, SendTo(r, pc)
    PROVE  /\ Steady /\ send'[r].pc = pc
           /\ \A q \in SendReqs \ {r} : send'[q] = send[q]
BY DEF SendTo, TypeOK, Steady

-----------------------------------------------------------------------------
LEMMA SentFrame ==
    ASSUME Typed, SentInv, Steady, now' >= now, UNCHANGED rows,
           \A q \in SendReqs :
               \/ send'[q].pc = send[q].pc
               \/ InService(q) /\ (InService(q)' \/ send'[q].pc \in {"limited", "done", "unsent", "lost"})
                  /\ (q \in ToSet(rows) => send'[q].pc \notin {"idle", "count", "latest", "create"})
    PROVE  SentInv'
<1>1. ASSUME NEW q \in SendReqs
      PROVE  /\ send'[q].at <= now'
             /\ send'[q].pc = "idle" => send'[q].ip = None
             /\ InService(q)' => send'[q].ip \in Ips
             /\ q \in ToSet(rows') => /\ send'[q].pc \notin {"idle", "count", "latest", "create"}
                                      /\ send'[q].ip \in Ips
  <2>1. /\ send'[q].at = send[q].at /\ send'[q].ip = send[q].ip /\ send[q].at \in Nat
        /\ now \in Nat /\ now' \in Nat
    BY TypedSends DEF Steady, Typed, TypeOK
  <2> QED
    BY <2>1 DEF SentInv, InService
<1> QED
  BY <1>1 DEF SentInv

LEMMA SendStartSteps ==
    ASSUME TypeOK, NEW r \in SendReqs, NEW ip \in Ips, SendStart(r, ip)
    PROVE  /\ send[r].pc = "idle"
           /\ UNCHANGED <<now, restarts, rows, consumed>>
           /\ crowded' = (crowded \/ \E q \in SendReqs : InService(q))
           /\ \/ /\ bucket' = [bucket EXCEPT ![ip] = Recent(ip)]
                 /\ Steady /\ send'[r].pc = "limited"
                 /\ \A q \in SendReqs \ {r} : send'[q] = send[q]
              \/ /\ Cardinality(Recent(ip)) < MaxSends
                 /\ bucket' = [bucket EXCEPT ![ip] = Recent(ip) \cup {r}]
                 /\ send'[r] = [pc |-> "count", ip |-> ip, at |-> now]
                 /\ \A q \in SendReqs \ {r} : send'[q] = send[q]
<1>1. CASE SendTo(r, "limited")
  BY <1>1, MovesOn DEF SendStart, TypeOK
<1>2. CASE send' = [send EXCEPT ![r] = [pc |-> "count", ip |-> ip, at |-> now]]
  BY <1>2 DEF SendStart, TypeOK, SendTo
<1> QED
  BY <1>1, <1>2 DEF SendStart

\* What the other steps do to the sends and the rows.
LEMMA ServedSteps ==
    ASSUME TypeOK, NEW r \in SendReqs,
           SendCount(r) \/ SendLatest(r) \/ SendMail(r)
    PROVE  /\ UNCHANGED <<now, restarts, bucket, rows, consumed, crowded>>
           /\ Steady /\ \A q \in SendReqs \ {r} : send'[q] = send[q]
           /\ \/ send[r].pc = "count" /\ send'[r].pc \in {"limited", "latest"}
              \/ send[r].pc = "latest" /\ send'[r].pc \in {"limited", "create"}
              \/ send[r].pc = "mail" /\ send'[r].pc \in {"done", "unsent"}
<1>1. CASE SendCount(r)
  <2>1. PICK pc \in {"limited", "latest"} : SendTo(r, pc)
    BY <1>1 DEF SendCount
  <2> QED
    BY <1>1, <2>1, MovesOn DEF SendCount
<1>2. CASE SendLatest(r)
  <2>1. PICK pc \in {"limited", "create"} : SendTo(r, pc)
    BY <1>2 DEF SendLatest
  <2> QED
    BY <1>2, <2>1, MovesOn DEF SendLatest
<1>3. CASE SendMail(r)
  <2>1. PICK pc \in {"done", "unsent"} : SendTo(r, pc)
    BY <1>3 DEF SendMail
  <2> QED
    BY <1>3, <2>1, MovesOn DEF SendMail
<1> QED
  BY <1>1, <1>2, <1>3

LEMMA CreateSteps ==
    ASSUME TypeOK, NEW r \in SendReqs, SendCreate(r)
    PROVE  /\ UNCHANGED <<now, restarts, bucket, consumed, crowded>>
           /\ Steady /\ \A q \in SendReqs \ {r} : send'[q] = send[q]
           /\ send[r].pc = "create" /\ send'[r].pc = "mail"
           /\ DOMAIN rows' = 1 .. Len(rows) + 1 /\ DOMAIN rows = 1 .. Len(rows)
           /\ Len(rows) \in Nat
           /\ rows'[Len(rows) + 1] = r /\ \A i \in DOMAIN rows : rows'[i] = rows[i]
           /\ ToSet(rows') = ToSet(rows) \cup {r}
<1>1. rows \in Seq(SendReqs) /\ rows' = Append(rows, r)
  BY DEF TypeOK, SendCreate
<1>2. /\ DOMAIN rows' = 1 .. Len(rows) + 1 /\ DOMAIN rows = 1 .. Len(rows)
      /\ Len(rows) \in Nat
      /\ rows'[Len(rows) + 1] = r /\ \A i \in DOMAIN rows : rows'[i] = rows[i]
  BY <1>1
<1>3. ToSet(rows') = ToSet(rows) \cup {r}
  BY <1>2 DEF ToSet
<1> QED
  BY <1>2, <1>3, MovesOn DEF SendCreate

LEMMA RestartSteps ==
    ASSUME TypeOK, Restart
    PROVE  /\ UNCHANGED <<now, rows, consumed, crowded>> /\ restarts' = restarts + 1
           /\ bucket' = [ip \in Ips |-> {}]
           /\ Steady
           /\ \A q \in SendReqs : send'[q].pc = IF InService(q) THEN "lost" ELSE send[q].pc
BY DEF Restart, TypeOK, Steady

\* Verifications and the clock leave the sends alone.
Elsewhere ==
    /\ UNCHANGED <<restarts, bucket, send, rows, crowded>> /\ now' \in {now, now + 1}
    /\ consumed \subseteq consumed'

LEMMA ElsewhereSteps ==
    ASSUME TypeOK,
           \/ Tick \/ UNCHANGED vars
           \/ \E v \in VerifyReqs :
                 \/ \E kind \in {"email", "login"}, code \in SendReqs \cup {None} :
                       VerifyStart(v, kind, code)
                 \/ VerifyMiss(v) \/ VerifyUser(v) \/ VerifyConsume(v)
    PROVE  Elsewhere /\ Steady
BY DEF Elsewhere, Steady, Tick, vars, VerifyStart, VerifyMiss, VerifyUser, VerifyConsume

LEMMA SentStep ==
    ASSUME Typed, SentInv, [Next]_vars
    PROVE  SentInv'
<1> USE DEF Typed
<1>a. now \in Nat
  BY TypedSends
<1>1. ASSUME NEW r \in SendReqs, NEW ip \in Ips, SendStart(r, ip) PROVE SentInv'
  <2>1. /\ send[r].pc = "idle" /\ UNCHANGED <<now, rows>>
        /\ \A q \in SendReqs \ {r} : send'[q] = send[q]
        /\ \/ send'[r].at = send[r].at /\ send'[r].pc = "limited"
           \/ send'[r] = [pc |-> "count", ip |-> ip, at |-> now]
    BY <1>1, SendStartSteps DEF Steady
  <2>2. r \notin ToSet(rows)
    BY <2>1 DEF SentInv
  <2>3. ASSUME NEW q \in SendReqs
        PROVE  /\ send'[q].at <= now'
               /\ send'[q].pc = "idle" => send'[q].ip = None
               /\ InService(q)' => send'[q].ip \in Ips
               /\ q \in ToSet(rows') => /\ send'[q].pc \notin {"idle", "count", "latest", "create"}
                                        /\ send'[q].ip \in Ips
    <3>1. CASE q = r
      BY <1>a, <2>1, <2>2, <3>1 DEF SentInv, InService
    <3>2. CASE q # r
      BY <2>1, <3>2 DEF SentInv, InService
    <3> QED
      BY <3>1, <3>2
  <2> QED
    BY <2>1, <2>3 DEF SentInv
<1>2. ASSUME NEW r \in SendReqs, SendCount(r) \/ SendLatest(r) \/ SendMail(r) PROVE SentInv'
  <2>1. /\ UNCHANGED <<now, rows>> /\ Steady
        /\ \A q \in SendReqs \ {r} : send'[q] = send[q]
        /\ \/ send[r].pc = "count" /\ send'[r].pc \in {"limited", "latest"}
           \/ send[r].pc = "latest" /\ send'[r].pc \in {"limited", "create"}
           \/ send[r].pc = "mail" /\ send'[r].pc \in {"done", "unsent"}
    BY <1>2, ServedSteps
  <2>2. /\ InService(r) /\ (InService(r)' \/ send'[r].pc \in {"limited", "done", "unsent", "lost"})
        /\ r \in ToSet(rows) => send'[r].pc \notin {"idle", "count", "latest", "create"}
    BY <2>1 DEF InService, SentInv
  <2> QED
    BY <1>a, <2>1, <2>2, SentFrame
<1>3. ASSUME NEW r \in SendReqs, SendCreate(r) PROVE SentInv'
  <2>1. r \notin ToSet(rows) /\ send[r].ip \in Ips
    BY <1>3 DEF SendCreate, SentInv, InService
  <2>2. ASSUME NEW q \in SendReqs
        PROVE  /\ send'[q].at <= now'
               /\ send'[q].pc = "idle" => send'[q].ip = None
               /\ InService(q)' => send'[q].ip \in Ips
               /\ q \in ToSet(rows') => /\ send'[q].pc \notin {"idle", "count", "latest", "create"}
                                        /\ send'[q].ip \in Ips
    BY <1>3, <2>1, CreateSteps DEF SentInv, InService, Steady
  <2>3. \A i \in DOMAIN rows : rows[i] # r
    BY <2>1, TypedSends
  <2>4. \A i, j \in DOMAIN rows' : rows'[i] = rows'[j] => i = j
    BY <1>3, <2>3, CreateSteps DEF SentInv
  <2> QED
    BY <2>2, <2>4 DEF SentInv
<1>4. ASSUME Elsewhere, Steady PROVE SentInv'
  BY <1>a, <1>4, SentFrame DEF Elsewhere
<1>5. ASSUME Restart PROVE SentInv'
  BY <1>a, <1>5, RestartSteps, SentFrame DEF InService
<1> QED
  BY <1>1, <1>2, <1>3, <1>4, <1>5, ElsewhereSteps DEF Next

-----------------------------------------------------------------------------
LEMMA RateFrame ==
    ASSUME Typed, SentInv, RateInv, Steady, UNCHANGED <<restarts, bucket>>, now' \in {now, now + 1}
    PROVE  RateInv'
<1> SUFFICES ASSUME NEW ip \in Ips
             PROVE  /\ IsFiniteSet(Accepted(ip)') /\ bucket[ip] \subseteq Accepted(ip)'
                    /\ \A t \in 0 .. now' : Cardinality(Within(ip, t)') <= MaxSends * (1 + restarts)
                    /\ Cardinality(Within(ip, now)' \ bucket[ip]) <= MaxSends * restarts
  BY DEF RateInv
<1>1. Accepted(ip)' = Accepted(ip) /\ \A t : Within(ip, t)' = Within(ip, t)
  BY DEF Steady, Accepted, Within
<1>2. IsFiniteSet(Accepted(ip)) /\ bucket[ip] \subseteq Accepted(ip) /\ now \in Nat
  BY TypedSends DEF RateInv, Typed
<1>3. now' = now + 1 => Within(ip, now + 1) \subseteq Within(ip, now)
  BY <1>2, TypedSends, OtpAssumption DEF Within, Accepted, SentInv, Typed
<1>4. IsFiniteSet(Within(ip, now))
  BY <1>2, FS_Subset DEF Within
<1>5. now' = now + 1 =>
        /\ Cardinality(Within(ip, now + 1)) <= Cardinality(Within(ip, now))
        /\ Cardinality(Within(ip, now + 1) \ bucket[ip]) <= Cardinality(Within(ip, now) \ bucket[ip])
  <2>1. IsFiniteSet(Within(ip, now) \ bucket[ip])
    BY <1>4, FS_Difference
  <2> QED
    BY <1>3, <1>4, <2>1, FS_Subset
<1>6. Within(ip, now)' = Within(ip, now')
  BY <1>1 DEF Steady, Accepted, Within
<1>7. /\ \A t \in 0 .. now : Cardinality(Within(ip, t)) <= MaxSends * (1 + restarts)
      /\ Cardinality(Within(ip, now)) <= MaxSends * (1 + restarts)
      /\ Cardinality(Within(ip, now) \ bucket[ip]) <= MaxSends * restarts
  BY <1>2 DEF RateInv
<1>8. \A t \in 0 .. now' : Cardinality(Within(ip, t)) <= MaxSends * (1 + restarts)
  <2>1. PICK k \in Int : k = MaxSends * (1 + restarts)
    BY TypedSends, OtpAssumption DEF Typed
  <2>2. CASE now' = now
    BY <1>7, <2>2
  <2>3. CASE now' = now + 1
    <3>1. IsFiniteSet(Within(ip, now + 1))
      BY <1>3, <1>4, <2>3, FS_Subset
    <3>2. Cardinality(Within(ip, now)) \in Nat /\ Cardinality(Within(ip, now + 1)) \in Nat
      BY <1>4, <3>1, FS_CardinalityType
    <3>3. Cardinality(Within(ip, now + 1)) <= k
      BY <1>5, <1>7, <2>1, <2>3, <3>2
    <3>4. \A t \in 0 .. now + 1 : t \in 0 .. now \/ t = now + 1
      BY <1>2
    <3> QED
      BY <1>7, <2>1, <2>3, <3>3, <3>4
  <2> QED
    BY <2>2, <2>3
<1>9. Cardinality(Within(ip, now') \ bucket[ip]) <= MaxSends * restarts
  <2>1. PICK k \in Int : k = MaxSends * restarts
    BY TypedSends, OtpAssumption DEF Typed
  <2>2. CASE now' = now
    BY <1>7, <2>2
  <2>3. CASE now' = now + 1
    <3>1. IsFiniteSet(Within(ip, now) \ bucket[ip]) /\ IsFiniteSet(Within(ip, now + 1) \ bucket[ip])
      BY <1>3, <1>4, <2>3, FS_Subset, FS_Difference
    <3>2. /\ Cardinality(Within(ip, now) \ bucket[ip]) \in Nat
          /\ Cardinality(Within(ip, now + 1) \ bucket[ip]) \in Nat
      BY <3>1, FS_CardinalityType
    <3> QED
      BY <1>5, <1>7, <2>1, <2>3, <3>2
  <2> QED
    BY <2>2, <2>3
<1> QED
  BY <1>1, <1>2, <1>6, <1>8, <1>9

\* One life of the process lets in MaxSends of a window at most.
LEMMA LetInStep ==
    ASSUME Typed, SentInv, RateInv, NEW r \in SendReqs, NEW ip \in Ips, SendStart(r, ip)
    PROVE  RateInv'
<1> USE DEF Typed
<1> DEFINE old == bucket[ip]
<1>1. /\ now \in Nat /\ restarts \in Nat /\ Window \in Nat /\ MaxSends \in Nat
      /\ \A q \in SendReqs : send[q].at \in Nat /\ send[q].at <= now
      /\ old \subseteq SendReqs
  BY TypedSends, OtpAssumption DEF SentInv, TypeOK
<1>2. /\ UNCHANGED <<now, restarts>> /\ send[r].pc = "idle" /\ send[r].ip = None
      /\ \A q \in SendReqs \ {r} : send'[q] = send[q]
  BY SendStartSteps DEF SentInv
<1>3. /\ IsFiniteSet(Accepted(ip)) /\ IsFiniteSet(Within(ip, now)) /\ IsFiniteSet(Within(ip, now) \ old)
      /\ old \subseteq Accepted(ip)
  BY FS_Subset, FS_Difference DEF RateInv, Within
<1>4. \A other \in Ips \ {ip} : bucket'[other] = bucket[other]
  <2>1. PICK b : bucket' = [bucket EXCEPT ![ip] = b]
    BY SendStartSteps
  <2> QED
    BY <2>1 DEF TypeOK
<1>5. CASE Steady /\ bucket' = [bucket EXCEPT ![ip] = Recent(ip)]
  <2>1. \A other \in Ips : /\ Accepted(other)' = Accepted(other)
                           /\ \A t : Within(other, t)' = Within(other, t)
    BY <1>5 DEF Steady, Accepted, Within
  <2>2. \A other \in Ips : Within(other, now)' = Within(other, now)
    BY <1>2, <1>5 DEF Steady, Accepted, Within
  <2>3. bucket'[ip] = Recent(ip)
    BY <1>5 DEF TypeOK
  <2>4. Within(ip, now) \ Recent(ip) \subseteq Within(ip, now) \ old
    BY <1>1 DEF Within, Accepted, Recent
  <2>5. \A other \in Ips : Within(other, now) \ bucket'[other] = Within(other, now) \ bucket[other]
    BY <1>4, <2>3, <2>4 DEF Recent
  <2>6. \A other \in Ips : bucket'[other] \subseteq Accepted(other)
    BY <1>4, <2>3 DEF RateInv, Recent
  <2> QED
    BY <1>2, <2>1, <2>2, <2>5, <2>6 DEF RateInv
<1>6. CASE /\ Cardinality(Recent(ip)) < MaxSends
           /\ bucket' = [bucket EXCEPT ![ip] = Recent(ip) \cup {r}]
           /\ send'[r] = [pc |-> "count", ip |-> ip, at |-> now]
  <2>1. /\ Accepted(ip)' = Accepted(ip) \cup {r}
        /\ \A t \in 0 .. now : t # now => Within(ip, t)' = Within(ip, t)
        /\ Within(ip, now)' = Within(ip, now) \cup {r}
        /\ r \notin Accepted(ip)
    BY <1>1, <1>2, <1>6, OtpAssumption DEF Accepted, Within
  <2>2. ASSUME NEW other \in Ips \ {ip}
        PROVE  /\ Accepted(other)' = Accepted(other) /\ \A t : Within(other, t)' = Within(other, t)
               /\ Within(other, now)' = Within(other, now)
    BY <1>2, <1>6, OtpAssumption DEF Accepted, Within
  <2>3. bucket'[ip] = Recent(ip) \cup {r}
    BY <1>6 DEF TypeOK
  <2>4. /\ (Within(ip, now) \cup {r}) \ (Recent(ip) \cup {r}) = Within(ip, now) \ old
        /\ Within(ip, now) \cap old \subseteq Recent(ip)
    BY <1>1, <2>1 DEF Within, Accepted, Recent
  <2>5. Cardinality(Within(ip, now) \cup {r}) <= MaxSends * (1 + restarts)
    <3>1. /\ Within(ip, now) = (Within(ip, now) \ old) \cup (Within(ip, now) \cap old)
          /\ (Within(ip, now) \ old) \cap (Within(ip, now) \cap old) = {}
          /\ Recent(ip) \cap Within(ip, now) = Within(ip, now) \cap old
      BY <2>4 DEF Recent
    <3>2. /\ IsFiniteSet(Within(ip, now) \cap old)
          /\ Cardinality(Within(ip, now) \ old) =
                Cardinality(Within(ip, now)) - Cardinality(Within(ip, now) \cap old)
      BY <1>3, FS_Intersection, FS_Difference
    <3>3. /\ IsFiniteSet(Recent(ip))
          /\ Cardinality(Within(ip, now) \cap old) <= Cardinality(Recent(ip))
      <4>1. Recent(ip) \subseteq Accepted(ip)
        BY <1>3 DEF Recent
      <4>2. IsFiniteSet(Recent(ip))
        BY <1>3, <4>1, FS_Subset
      <4> QED
        BY <2>4, <4>2, FS_Subset
    <3>4. /\ Cardinality(Within(ip, now)) \in Nat /\ Cardinality(Within(ip, now) \ old) \in Nat
          /\ Cardinality(Within(ip, now) \cap old) \in Nat /\ Cardinality(Recent(ip)) \in Nat
      BY <1>3, <3>2, <3>3, FS_CardinalityType
    <3>5. Cardinality(Within(ip, now) \cup {r}) = Cardinality(Within(ip, now)) + 1
      <4>1. r \notin Within(ip, now)
        BY <2>1 DEF Within
      <4> HIDE DEF Within
      <4> QED
        BY <1>3, <4>1, FS_AddElement
    <3>6. /\ Cardinality(Within(ip, now) \cup {r}) \in Nat
      BY <1>3, FS_AddElement, FS_CardinalityType
    <3>7. PICK k \in Int, l \in Int : /\ k = MaxSends * restarts /\ l = MaxSends * (1 + restarts)
                                     /\ l = k + MaxSends
      BY <1>1
    <3>8. Cardinality(Within(ip, now) \ old) <= k
      BY <3>7 DEF RateInv
    <3>9. Cardinality(Within(ip, now) \cup {r}) <= l
      BY <1>1, <1>6, <3>2, <3>3, <3>4, <3>5, <3>6, <3>7, <3>8
    <3> QED
      BY <3>7, <3>9
  <2>6. \A other \in Ips : bucket'[other] \subseteq Accepted(other)'
    <3>1. bucket'[ip] \subseteq Accepted(ip)'
      BY <1>3, <2>1, <2>3 DEF Recent
    <3>2. \A other \in Ips \ {ip} : bucket'[other] \subseteq Accepted(other)'
      BY <1>4, <2>2 DEF RateInv
    <3> QED
      BY <3>1, <3>2
  <2>7. IsFiniteSet(Accepted(ip)')
    BY <1>3, <2>1, FS_AddElement
  <2>8. \A t \in 0 .. now : Cardinality(Within(ip, t)') <= MaxSends * (1 + restarts)
    <3>1. SUFFICES ASSUME NEW t \in 0 .. now
                   PROVE  Cardinality(Within(ip, t)') <= MaxSends * (1 + restarts)
      OBVIOUS
    <3>2. CASE t = now
      <4>1. Within(ip, t)' = Within(ip, now) \cup {r}
        BY <1>1, <1>2, <1>6, <3>2, OtpAssumption DEF Accepted, Within
      <4> QED
        BY <2>5, <4>1
    <3>3. CASE t # now
      BY <2>1, <3>3 DEF RateInv
    <3> QED
      BY <3>2, <3>3
  <2>9. /\ IsFiniteSet(Accepted(ip)') /\ bucket'[ip] \subseteq Accepted(ip)'
        /\ \A t \in 0 .. now' : Cardinality(Within(ip, t)') <= MaxSends * (1 + restarts')
        /\ Cardinality(Within(ip, now)' \ bucket'[ip]) <= MaxSends * restarts'
    BY <1>2, <2>1, <2>3, <2>4, <2>6, <2>7, <2>8 DEF RateInv
  <2>10. ASSUME NEW other \in Ips \ {ip}
         PROVE  /\ IsFiniteSet(Accepted(other)') /\ bucket'[other] \subseteq Accepted(other)'
                /\ \A t \in 0 .. now' : Cardinality(Within(other, t)') <= MaxSends * (1 + restarts')
                /\ Cardinality(Within(other, now)' \ bucket'[other]) <= MaxSends * restarts'
    BY <1>2, <1>4, <2>2, <2>6 DEF RateInv
  <2>11. ASSUME NEW other \in Ips
         PROVE  /\ IsFiniteSet(Accepted(other)') /\ bucket'[other] \subseteq Accepted(other)'
                /\ \A t \in 0 .. now' : Cardinality(Within(other, t)') <= MaxSends * (1 + restarts')
                /\ Cardinality(Within(other, now)' \ bucket'[other]) <= MaxSends * restarts'
    BY <2>9, <2>10
  <2> QED
    BY <2>11 DEF RateInv
<1> QED
  BY <1>5, <1>6, SendStartSteps

LEMMA RateStep ==
    ASSUME Typed, SentInv, RateInv, [Next]_vars
    PROVE  RateInv'
<1> USE DEF Typed
<1>1. ASSUME NEW r \in SendReqs, NEW ip \in Ips, SendStart(r, ip) PROVE RateInv'
  BY <1>1, LetInStep
<1>2. ASSUME NEW r \in SendReqs, SendCount(r) \/ SendLatest(r) \/ SendMail(r) PROVE RateInv'
  BY <1>2, ServedSteps, RateFrame
<1>3. ASSUME NEW r \in SendReqs, SendCreate(r) PROVE RateInv'
  BY <1>3, CreateSteps, RateFrame
<1>4. ASSUME Elsewhere, Steady PROVE RateInv'
  BY <1>4, RateFrame DEF Elsewhere
<1>5. ASSUME Restart PROVE RateInv'
  <2>1. /\ now' = now /\ restarts' = restarts + 1 /\ bucket' = [ip \in Ips |-> {}] /\ Steady
    BY <1>5, RestartSteps
  <2> SUFFICES ASSUME NEW ip \in Ips
               PROVE  /\ IsFiniteSet(Accepted(ip)') /\ bucket'[ip] \subseteq Accepted(ip)'
                      /\ \A t \in 0 .. now' : Cardinality(Within(ip, t)') <= MaxSends * (1 + restarts')
                      /\ Cardinality(Within(ip, now)' \ bucket'[ip]) <= MaxSends * restarts'
    BY DEF RateInv
  <2>2. /\ Accepted(ip)' = Accepted(ip) /\ \A t : Within(ip, t)' = Within(ip, t)
        /\ Within(ip, now)' = Within(ip, now)
    BY <2>1 DEF Steady, Accepted, Within
  <2>3. now \in Nat /\ restarts \in Nat /\ MaxSends \in Nat
    BY TypedSends, OtpAssumption
  <2>4. Within(ip, now) \ bucket'[ip] = Within(ip, now)
    BY <2>1
  <2>5. \A t \in 0 .. now : Cardinality(Within(ip, t)) <= MaxSends * (1 + restarts)
    BY DEF RateInv
  <2>6. /\ MaxSends * (1 + restarts) <= MaxSends * (1 + restarts') /\ restarts' = 1 + restarts
        /\ MaxSends * (1 + restarts) \in Int /\ MaxSends * (1 + restarts') \in Int
    BY <2>1, <2>3
  <2>7. ASSUME NEW t \in 0 .. now PROVE Cardinality(Within(ip, t)) <= MaxSends * (1 + restarts')
    <3>1. Cardinality(Within(ip, t)) \in Nat
      BY FS_Subset, FS_CardinalityType DEF RateInv, Within
    <3> QED
      BY <2>5, <2>6, <3>1
  <2>8. Cardinality(Within(ip, now)' \ bucket'[ip]) <= MaxSends * restarts'
    <3>1. Within(ip, now)' \ bucket'[ip] = Within(ip, now)
      BY <2>2, <2>4
    <3>2. now \in 0 .. now
      BY <2>3
    <3> QED
      BY <2>5, <2>6, <3>1, <3>2
  <2>9. IsFiniteSet(Accepted(ip)') /\ bucket'[ip] \subseteq Accepted(ip)'
    BY <2>1, <2>2 DEF RateInv
  <2>10. \A t \in 0 .. now' : Cardinality(Within(ip, t)') <= MaxSends * (1 + restarts')
    BY <2>1, <2>2, <2>7
  <2> QED
    BY <2>8, <2>9, <2>10
<1> QED
  BY <1>1, <1>2, <1>3, <1>4, <1>5, ElsewhereSteps DEF Next

-----------------------------------------------------------------------------
\* What was free to be sent stays so.
LEMMA FreeStays ==
    ASSUME Steady, consumed \subseteq consumed', NEW a \in SendReqs, NEW b \in SendReqs, Free(a, b)
    PROVE  Free(a, b)'
BY DEF Steady, Free, ExpiresAt

\* Nobody new is served, no row is inserted, and who comes to the insertion saw
\* that it may.
LEMMA CoolFrame ==
    ASSUME Typed, CoolInv, Steady, UNCHANGED <<rows, crowded>>, consumed \subseteq consumed',
           \A q \in SendReqs : InService(q)' => InService(q),
           \A q \in SendReqs : send'[q].pc = "create" /\ send[q].pc # "create" /\ ~crowded =>
               \A i \in DOMAIN rows : Free(rows[i], q)
    PROVE  CoolInv'
<1> USE DEF Typed
<1> SUFFICES ASSUME ~crowded PROVE CoolInv'
  BY DEF CoolInv
<1>1. /\ \A a, b \in SendReqs : InService(a) /\ InService(b) => a = b
      /\ \A i, j \in DOMAIN rows : i < j => send[rows[i]].at <= send[rows[j]].at
      /\ \A i \in DOMAIN rows, b \in SendReqs : InService(b) => send[rows[i]].at <= send[b].at
      /\ \A i \in DOMAIN rows, b \in SendReqs : send[b].pc = "create" => Free(rows[i], b)
      /\ \A i, j \in DOMAIN rows : i < j => Free(rows[i], rows[j])
  BY DEF CoolInv
<1>2. \A i \in DOMAIN rows : rows[i] \in SendReqs
  BY TypedSends
<1>3. \A a, b \in SendReqs : InService(a)' /\ InService(b)' => a = b
  BY <1>1
<1>4. \A i, j \in DOMAIN rows : i < j => send'[rows[i]].at <= send'[rows[j]].at
  BY <1>1, <1>2 DEF Steady
<1>5. \A i \in DOMAIN rows, b \in SendReqs : InService(b)' => send'[rows[i]].at <= send'[b].at
  BY <1>1, <1>2 DEF Steady
<1>6. \A i \in DOMAIN rows, b \in SendReqs : send'[b].pc = "create" => Free(rows[i], b)
  BY <1>1
<1>7. ASSUME NEW i \in DOMAIN rows, NEW b \in SendReqs, Free(rows[i], b)
      PROVE  b \in SendReqs /\ (rows[i] \in consumed' \/ send'[rows[i]].at + Ttl <= send'[b].at
                                 \/ send'[b].at - send'[rows[i]].at >= Cooldown)
  BY <1>2, <1>7 DEF Steady, Free, ExpiresAt
<1> QED
  BY <1>1, <1>2, <1>3, <1>4, <1>5, <1>6, <1>7 DEF CoolInv, Free, ExpiresAt

\* What findFirst returns for the newest of a set of rows was inserted last of them.
LEMMA NewestIsLast ==
    ASSUME TypeOK, NEW S, NEW o, Newest(S, o), S \subseteq ToSet(rows), NEW i \in DOMAIN rows, rows[i] \in S
    PROVE  \E j \in DOMAIN rows : o = rows[j] /\ o \in S /\ i <= j
<1>1. S # {}
  OBVIOUS
<1>2. PICK j \in DOMAIN rows : o = rows[j] /\ o \in S /\ \A k \in DOMAIN rows : k > j => rows[k] \notin S
  BY <1>1 DEF Newest
<1>3. i \in Nat /\ j \in Nat
  BY TypedSends
<1>4. i <= j
  BY <1>2, <1>3
<1> QED
  BY <1>2, <1>4

LEMMA LatestStep ==
    ASSUME Typed, SentInv, CoolInv, NEW r \in SendReqs, SendLatest(r)
    PROVE  CoolInv'
<1> USE DEF Typed
<1>1. /\ UNCHANGED <<rows, consumed, crowded>> /\ send[r].pc = "latest"
      /\ Steady /\ \A q \in SendReqs \ {r} : send'[q] = send[q]
  BY ServedSteps DEF SendLatest
<1>2. ASSUME ~crowded, send'[r].pc = "create", NEW i \in DOMAIN rows
      PROVE  Free(rows[i], r)
  <2>1. PICK latest \in SendReqs \cup {None} :
          /\ Newest(Usable(send[r].at), latest)
          /\ ~(latest # None /\ send[r].at - send[latest].at < Cooldown)
    <3>1. PICK latest \in SendReqs \cup {None} :
            /\ Newest(Usable(send[r].at), latest)
            /\ SendTo(r, IF latest # None /\ send[r].at - send[latest].at < Cooldown
                         THEN "limited" ELSE "create")
      BY DEF SendLatest
    <3>2. CASE latest # None /\ send[r].at - send[latest].at < Cooldown
      <4>1. send'[r].pc = "limited"
        BY <3>1, <3>2, MovesOn
      <4> QED
        BY <1>2, <4>1
    <3> QED
      BY <3>1, <3>2
  <2>2. rows[i] \in SendReqs /\ rows[i] \in ToSet(rows) /\ r # None
    BY TypedSends, OtpAssumption
  <2>3. CASE rows[i] \notin Usable(send[r].at)
    BY <2>2, <2>3, TypedSends, OtpAssumption DEF Usable, Unused, Free, ExpiresAt
  <2>4. CASE rows[i] \in Usable(send[r].at)
    <3>1. Usable(send[r].at) \subseteq ToSet(rows)
      BY DEF Usable, Unused
    <3>2. PICK j \in DOMAIN rows : latest = rows[j] /\ i <= j
      BY <2>1, <2>4, <3>1, NewestIsLast
    <3>3. /\ latest \in SendReqs /\ latest # None /\ i \in Nat /\ j \in Nat
          /\ send[latest].at \in Nat /\ send[rows[i]].at \in Nat /\ send[r].at \in Nat
          /\ Cooldown \in Nat
      BY <2>2, <3>2, TypedSends, OtpAssumption
    <3>4. send[rows[i]].at <= send[latest].at
      BY <1>2, <3>2, <3>3 DEF CoolInv
    <3>5. send[r].at - send[rows[i]].at >= Cooldown
      BY <2>1, <3>3, <3>4
    <3> QED
      BY <3>5 DEF Free
  <2> QED
    BY <2>3, <2>4
<1>3. \A q \in SendReqs : InService(q)' => InService(q)
  BY <1>1 DEF InService
<1>4. \A q \in SendReqs : send'[q].pc = "create" /\ send[q].pc # "create" /\ ~crowded =>
          \A i \in DOMAIN rows : Free(rows[i], q)
  BY <1>1, <1>2
<1> QED
  BY <1>1, <1>3, <1>4, CoolFrame

LEMMA InsertStep ==
    ASSUME Typed, SentInv, CoolInv, NEW r \in SendReqs, SendCreate(r)
    PROVE  CoolInv'
<1> USE DEF Typed
<1> DEFINE n == Len(rows) + 1
<1>1. /\ UNCHANGED <<consumed, crowded>> /\ Steady
      /\ \A q \in SendReqs \ {r} : send'[q] = send[q]
      /\ send[r].pc = "create" /\ send'[r].pc = "mail"
      /\ rows'[n] = r /\ \A i \in DOMAIN rows : rows'[i] = rows[i]
  BY CreateSteps
<1>0. /\ DOMAIN rows' = DOMAIN rows \cup {n} /\ DOMAIN rows \subseteq 1 .. n - 1 /\ n \in Nat
  <2>1. DOMAIN rows' = 1 .. Len(rows) + 1 /\ DOMAIN rows = 1 .. Len(rows) /\ Len(rows) \in Nat
    BY CreateSteps
  <2> QED
    BY <2>1
<1> HIDE DEF n
<1> SUFFICES ASSUME ~crowded PROVE CoolInv'
  BY <1>1 DEF CoolInv
<1>2. /\ \A a, b \in SendReqs : InService(a) /\ InService(b) => a = b
      /\ \A i, j \in DOMAIN rows : i < j => send[rows[i]].at <= send[rows[j]].at
      /\ \A i \in DOMAIN rows, b \in SendReqs : InService(b) => send[rows[i]].at <= send[b].at
      /\ \A i \in DOMAIN rows, b \in SendReqs : send[b].pc = "create" => Free(rows[i], b)
      /\ \A i, j \in DOMAIN rows : i < j => Free(rows[i], rows[j])
  BY DEF CoolInv
<1>3. InService(r) /\ \A q \in SendReqs : InService(q)' => InService(q)
  BY <1>1 DEF InService
<1>4. \A q \in SendReqs : InService(q) => q = r
  BY <1>2, <1>3
<1>5. /\ \A i \in DOMAIN rows : rows[i] \in SendReqs /\ i \in Nat /\ i < n
      /\ \A q \in SendReqs : send[q].at \in Nat
  BY <1>0, <1>1, TypedSends
<1>6. \A a, b \in SendReqs : InService(a)' /\ InService(b)' => a = b
  BY <1>3, <1>4
<1>7. \A i, j \in DOMAIN rows' : i < j => i \in DOMAIN rows /\ (j \in DOMAIN rows \/ j = n)
  BY <1>0, <1>5
<1>8. \A i, j \in DOMAIN rows' : i < j => send'[rows'[i]].at <= send'[rows'[j]].at
  BY <1>1, <1>2, <1>3, <1>5, <1>7 DEF Steady
<1>9. \A i \in DOMAIN rows', b \in SendReqs : InService(b)' => send'[rows'[i]].at <= send'[b].at
  BY <1>0, <1>1, <1>2, <1>3, <1>4, <1>5 DEF Steady
<1>10. \A b \in SendReqs : send'[b].pc # "create"
  BY <1>1, <1>4 DEF InService
<1>11. ASSUME NEW i \in DOMAIN rows, NEW b \in SendReqs, Free(rows[i], b)
       PROVE  \/ rows[i] \in consumed' \/ send'[rows[i]].at + Ttl <= send'[b].at
              \/ send'[b].at - send'[rows[i]].at >= Cooldown
  BY <1>1, <1>5, <1>11 DEF Steady, Free, ExpiresAt
<1>12. ASSUME NEW i \in DOMAIN rows', NEW j \in DOMAIN rows', i < j
       PROVE  \/ rows'[i] \in consumed' \/ send'[rows'[i]].at + Ttl <= send'[rows'[j]].at
              \/ send'[rows'[j]].at - send'[rows'[i]].at >= Cooldown
  <2>1. i \in DOMAIN rows /\ rows'[i] = rows[i] /\ rows'[j] \in SendReqs
    BY <1>1, <1>5, <1>7, <1>12
  <2>2. Free(rows[i], rows'[j])
    BY <1>1, <1>2, <1>7, <1>12
  <2> QED
    BY <2>1, <2>2, <1>11
<1> QED
  BY <1>6, <1>8, <1>9, <1>10, <1>12 DEF CoolInv, Free, ExpiresAt

LEMMA CoolStep ==
    ASSUME Typed, SentInv, CoolInv, [Next]_vars
    PROVE  CoolInv'
<1> USE DEF Typed
<1>1. ASSUME NEW r \in SendReqs, NEW ip \in Ips, SendStart(r, ip) PROVE CoolInv'
  <2>1. /\ send[r].pc = "idle" /\ UNCHANGED <<now, rows, consumed>>
        /\ crowded' = (crowded \/ \E q \in SendReqs : InService(q))
        /\ \A q \in SendReqs \ {r} : send'[q] = send[q]
        /\ send'[r].pc = "limited" \/ (send'[r].pc = "count" /\ send'[r].at = now)
    <3>1. PICK b : send'[r].pc = "limited" \/ (send'[r] = b /\ b = [pc |-> "count", ip |-> ip, at |-> now])
      BY <1>1, SendStartSteps
    <3>2. send'[r].pc = "limited" \/ (send'[r].pc = "count" /\ send'[r].at = now)
      BY <3>1
    <3>3. \A q \in SendReqs \ {r} : send'[q] = send[q]
      BY <1>1, SendStartSteps
    <3>4. send[r].pc = "idle" /\ UNCHANGED <<now, rows, consumed>>
      BY <1>1 DEF SendStart
    <3>5. crowded' = (crowded \/ \E q \in SendReqs : InService(q))
      BY <1>1 DEF SendStart
    <3> QED
      BY <3>2, <3>3, <3>4, <3>5
  <2> SUFFICES ASSUME ~crowded, \A q \in SendReqs : ~InService(q) PROVE CoolInv'
    BY <2>1 DEF CoolInv
  <2>2. /\ \A i \in DOMAIN rows : rows[i] \in SendReqs \ {r} /\ send[rows[i]].at <= now
    BY <2>1, TypedSends DEF SentInv
  <2>3. \A q \in SendReqs : InService(q)' => q = r /\ send'[q].at = now
    BY <2>1 DEF InService
  <2>4. \A q \in SendReqs : send'[q].pc # "create"
    BY <2>1 DEF InService
  <2>5. /\ \A i, j \in DOMAIN rows : i < j => send'[rows[i]].at <= send'[rows[j]].at
        /\ \A i \in DOMAIN rows, b \in SendReqs : InService(b)' => send'[rows[i]].at <= send'[b].at
    BY <2>1, <2>2, <2>3 DEF CoolInv
  <2>6. ASSUME NEW i \in DOMAIN rows, NEW j \in DOMAIN rows, i < j
        PROVE  \/ rows[i] \in consumed \/ send'[rows[i]].at + Ttl <= send'[rows[j]].at
               \/ send'[rows[j]].at - send'[rows[i]].at >= Cooldown
    BY <2>1, <2>2, <2>6 DEF CoolInv, Free, ExpiresAt
  <2> QED
    BY <2>1, <2>3, <2>4, <2>5, <2>6 DEF CoolInv, Free, ExpiresAt
<1>2. ASSUME NEW r \in SendReqs, SendCount(r) \/ SendMail(r) PROVE CoolInv'
  <2>1. /\ UNCHANGED <<rows, consumed, crowded>> /\ Steady
        /\ \A q \in SendReqs \ {r} : send'[q] = send[q]
        /\ send[r].pc \in {"count", "mail"} /\ send'[r].pc # "create"
    BY <1>2, ServedSteps DEF SendCount, SendMail
  <2>2. \A q \in SendReqs : InService(q)' => InService(q)
    BY <2>1 DEF InService
  <2> QED
    BY <2>1, <2>2, CoolFrame
<1>3. ASSUME NEW r \in SendReqs, SendLatest(r) PROVE CoolInv'
  BY <1>3, LatestStep
<1>4. ASSUME NEW r \in SendReqs, SendCreate(r) PROVE CoolInv'
  BY <1>4, InsertStep
<1>5. ASSUME Elsewhere, Steady PROVE CoolInv'
  BY <1>5, CoolFrame DEF Elsewhere, InService
<1>6. ASSUME Restart PROVE CoolInv'
  <2>1. /\ UNCHANGED <<rows, consumed, crowded>> /\ Steady
        /\ \A q \in SendReqs : send'[q].pc = IF InService(q) THEN "lost" ELSE send[q].pc
    BY <1>6, RestartSteps
  <2>2. /\ \A q \in SendReqs : InService(q)' => InService(q)
        /\ \A q \in SendReqs : send'[q].pc # "create"
    BY <2>1 DEF InService
  <2> QED
    BY <2>1, <2>2, CoolFrame
<1> QED
  BY <1>1, <1>2, <1>3, <1>4, <1>5, <1>6, ElsewhereSteps DEF Next

-----------------------------------------------------------------------------
LEMMA SendInvariance == Spec => [](IInv /\ SentInv /\ RateInv /\ CoolInv)
<1>1. Init => SentInv /\ CoolInv
  BY OtpAssumption DEF Init, SentInv, CoolInv, InService, ToSet
<1>2. Init => RateInv
  <2> SUFFICES ASSUME Init, NEW ip \in Ips
               PROVE  /\ IsFiniteSet(Accepted(ip)) /\ bucket[ip] \subseteq Accepted(ip)
                      /\ \A t \in 0 .. now : Cardinality(Within(ip, t)) <= MaxSends * (1 + restarts)
                      /\ Cardinality(Within(ip, now) \ bucket[ip]) <= MaxSends * restarts
    BY DEF RateInv
  <2>1. Accepted(ip) = {} /\ \A t : Within(ip, t) = {}
    BY OtpAssumption DEF Init, Accepted, Within
  <2>2. bucket[ip] = {} /\ restarts = 0 /\ MaxSends \in Nat /\ now = 0
    BY OtpAssumption DEF Init
  <2>3. MaxSends * (1 + restarts) = MaxSends /\ MaxSends * restarts = 0
    BY <2>2
  <2>4. Within(ip, now) \ bucket[ip] = {}
    BY <2>1
  <2>5. IsFiniteSet({}) /\ Cardinality({}) = 0 /\ 0 <= MaxSends
    BY <2>2, FS_EmptySet
  <2>6. \A t \in 0 .. now : Cardinality(Within(ip, t)) <= MaxSends * (1 + restarts)
    BY <2>1, <2>3, <2>5
  <2>7. Cardinality(Within(ip, now) \ bucket[ip]) <= MaxSends * restarts
    BY <2>3, <2>4, <2>5
  <2> QED
    BY <2>1, <2>2, <2>5, <2>6, <2>7
<1>3. IInv /\ IInv' /\ SentInv /\ RateInv /\ CoolInv /\ [Next]_vars => SentInv' /\ RateInv' /\ CoolInv'
  BY SentStep, RateStep, CoolStep DEF IInv, Typed
<1> QED
  BY <1>1, <1>2, <1>3, Invariance, PTL DEF Spec

\* Whatever overlaps, one address gets MaxSends codes into rows within a window,
\* and as many again for each restart (enforceOtpIpRateLimit).
THEOREM WindowLimited == Spec => []SendsPerWindow
<1>1. ASSUME IInv, SentInv, RateInv PROVE SendsPerWindow
  <2> SUFFICES ASSUME NEW r \in ToSet(rows)
               PROVE  Cardinality({q \in ToSet(rows) :
                                      /\ send[q].ip = send[r].ip
                                      /\ send[q].at \in send[r].at - Window .. send[r].at})
                          <= MaxSends * (1 + restarts)
    BY DEF SendsPerWindow
  <2>1. PICK ip, t, S : /\ ip = send[r].ip /\ t = send[r].at
                        /\ S = {q \in ToSet(rows) : send[q].ip = ip /\ send[q].at \in t - Window .. t}
    OBVIOUS
  <2>2. TypeOK /\ r \in SendReqs
    BY <1>1, TypedSends DEF IInv
  <2>3. ip \in Ips /\ t \in 0 .. now
    BY <1>1, <2>1, <2>2, TypedSends DEF SentInv
  <2>4. S \subseteq Within(ip, t)
    BY <2>1, <2>2, TypedSends DEF Within, Accepted
  <2>5. IsFiniteSet(Within(ip, t)) /\ Cardinality(Within(ip, t)) <= MaxSends * (1 + restarts)
    BY <1>1, <2>3, FS_Subset DEF RateInv, Within
  <2>6. /\ Cardinality(S) <= Cardinality(Within(ip, t))
        /\ Cardinality(S) \in Nat /\ Cardinality(Within(ip, t)) \in Nat
    BY <2>4, <2>5, FS_Subset, FS_CardinalityType
  <2>7. MaxSends * (1 + restarts) \in Int
    BY <2>2, TypedSends, OtpAssumption
  <2>8. Cardinality(S) <= MaxSends * (1 + restarts)
    BY <2>5, <2>6, <2>7
  <2> QED
    BY <2>1, <2>8
<1> QED
  BY <1>1, SendInvariance, PTL

\* Served one after the other, a code is not sent within the cooldown of an
\* earlier one that could still be used (createAndSendOtp).
THEOREM CooldownWaits == Spec => []CooldownKept
<1>1. ASSUME IInv, CoolInv PROVE CooldownKept
  <2> SUFFICES ASSUME ~crowded, NEW a \in ToSet(rows), NEW b \in ToSet(rows), a # b,
                      send[a].at <= send[b].at, send[b].at - send[a].at < Cooldown
               PROVE  a \in consumed \/ b \in consumed \/ ExpiresAt(a) <= send[b].at
    BY DEF CooldownKept
  <2>1. PICK i \in DOMAIN rows, j \in DOMAIN rows : a = rows[i] /\ b = rows[j]
    BY <1>1, TypedSends DEF IInv
  <2>2. /\ a \in SendReqs /\ b \in SendReqs /\ send[a].at \in Nat /\ send[b].at \in Nat
        /\ i \in Nat /\ j \in Nat /\ Cooldown \in Nat /\ Ttl \in Nat
    BY <1>1, <2>1, TypedSends, OtpAssumption DEF IInv
  <2>3. CASE i < j
    BY <1>1, <2>1, <2>2, <2>3 DEF CoolInv, Free
  <2>4. CASE j < i
    <3>1. Free(b, a) /\ send[b].at <= send[a].at
      BY <1>1, <2>1, <2>4 DEF CoolInv
    <3> QED
      BY <2>2, <3>1 DEF Free, ExpiresAt
  <2> QED
    BY <2>1, <2>2, <2>3, <2>4
<1> QED
  BY <1>1, SendInvariance, PTL
=============================================================================
