----------------------------- MODULE AuthProofs -----------------------------
(***************************************************************************)
(* Proofs about Sessions, for every number of requests and every lifetime: *)
(* types, one live row for each login whose refreshes do not overlap, and  *)
(* that signing out between refreshes ends a login.  And about Accounts,   *)
(* in the second half, for every password and every setting: types, that a *)
(* sign-in answers as of a moment at which it was served, and that a       *)
(* registration leaves a verified account alone.                           *)
(***************************************************************************)
EXTENDS Auth, TLAPS

\* Who holds a row or has inserted one.
RowInv ==
    /\ \A r \in Reqs :
          /\ r \in rows => req[r].pc = "done" /\ root[r] \in rows
          /\ r \notin rows => root[r] = r
          /\ req[r].held # None => req[r].held \in rows
    /\ contested \subseteq rows
    /\ ended \subseteq rows

\* The lineage of login l: one live row, which is the row a refresh holds if there
\* is one, and neither after the login was signed out.
Single(l) ==
    /\ \A x, y \in Live : root[x] = l /\ root[y] = l => x = y
    /\ \A x \in Live : \A r, o \in Reqs :
          root[x] = l /\ Holds(r, o) /\ root[o] = l => o = x
    /\ \A r, o, s, p \in Reqs :
          Holds(r, o) /\ root[o] = l /\ Holds(s, p) /\ root[p] = l => r = s
    /\ l \in ended => /\ \A x \in Live : root[x] # l
                     /\ \A r, o \in Reqs : Holds(r, o) => root[o] # l

LineInv == \A l \in Reqs : l \notin contested => Single(l)

\* The inductive invariant.
IInv == TypeOK /\ RowInv /\ LineInv

-----------------------------------------------------------------------------
LEMMA InitIInv == Init => IInv
<1> SUFFICES ASSUME Init PROVE IInv
  OBVIOUS
<1>1. [pc |-> "idle", held |-> None, at |-> 0, token |-> 0] \in ReqLocals
  BY DEF ReqLocals, PC
<1>2. TypeOK
  BY <1>1 DEF Init, TypeOK
<1>3. RowInv
  BY DEF Init, RowInv
<1>4. LineInv
  BY DEF Init, LineInv, Single, Live, Holds
<1> QED
  BY <1>2, <1>3, <1>4 DEF IInv

LEMMA InsertType ==
    ASSUME TypeOK, NEW r \in Reqs, NEW from \in Nat, Insert(r, from)
    PROVE  /\ rows' \subseteq Reqs
           /\ value' \in [Reqs -> Nat]
           /\ expires' \in [Reqs -> Nat]
           /\ req' \in [Reqs -> ReqLocals]
<1>1. [req[r] EXCEPT !.pc = "done"] \in ReqLocals
  BY DEF TypeOK, ReqLocals, PC
<1>2. req' = [req EXCEPT ![r] = [req[r] EXCEPT !.pc = "done"]]
  BY DEF Insert
<1>3. req' \in [Reqs -> ReqLocals]
  BY <1>1, <1>2 DEF TypeOK
<1>4. req[r].token \in Nat /\ from + Ttl \in Nat
  BY SessionsAssumption DEF TypeOK, ReqLocals
<1> QED
  BY <1>3, <1>4 DEF Insert, TypeOK

LEMMA TypeStep == TypeOK /\ RowInv /\ [Next]_vars => TypeOK'
<1> SUFFICES ASSUME TypeOK, RowInv, [Next]_vars PROVE TypeOK'
  OBVIOUS
<1>1. ASSUME NEW r \in Reqs, LoginStart(r) PROVE TypeOK'
  <2>1. [pc |-> "sign", held |-> None, at |-> now, token |-> 0] \in ReqLocals
    BY DEF TypeOK, ReqLocals, PC
  <2> QED
    BY <1>1, <2>1 DEF LoginStart, TypeOK
<1>2. ASSUME NEW r \in Reqs, NEW t \in 0 .. now, RefreshStart(r, t) PROVE TypeOK'
  <2>1. [req[r] EXCEPT !.pc = "refused"] \in ReqLocals
    BY DEF TypeOK, ReqLocals, PC
  <2>2. \A o \in Reqs : [pc |-> "sign", held |-> o, at |-> now, token |-> 0] \in ReqLocals
    BY DEF TypeOK, ReqLocals, PC
  <2>3. CASE req' = [req EXCEPT ![r].pc = "refused"] /\ UNCHANGED contested
    <3>1. req' = [req EXCEPT ![r] = [req[r] EXCEPT !.pc = "refused"]]
      BY <2>3
    <3> QED
      BY <1>2, <2>1, <2>3, <3>1 DEF RefreshStart, TypeOK
  <2>4. CASE ~(req' = [req EXCEPT ![r].pc = "refused"] /\ UNCHANGED contested)
    <3>1. PICK o \in Matching(t) :
             /\ req' = [req EXCEPT ![r] =
                          [pc |-> "sign", held |-> o, at |-> now, token |-> 0]]
             /\ contested' = contested \cup
                   {l \in {root[o]} : \E q \in Reqs : Holds(q, o)}
      BY <1>2, <2>4 DEF RefreshStart
    <3>2. o \in Reqs
      BY DEF Matching, Live, TypeOK
    <3>3. req' \in [Reqs -> ReqLocals]
      BY <2>2, <3>1, <3>2 DEF TypeOK
    <3>4. contested' \subseteq Reqs
      BY <3>1, <3>2 DEF TypeOK
    <3> QED
      BY <1>2, <3>3, <3>4 DEF RefreshStart, TypeOK
  <2> QED
    BY <2>3, <2>4
<1>3. ASSUME NEW r \in Reqs, IssueRefreshToken(r) PROVE TypeOK'
  <2>1. [req[r] EXCEPT !.pc = "save", !.token = now] \in ReqLocals
    BY ZenonT(40) DEF TypeOK, ReqLocals, PC
  <2>2. req' = [req EXCEPT ![r] = [req[r] EXCEPT !.pc = "save", !.token = now]]
    BY <1>3 DEF IssueRefreshToken
  <2> QED
    BY <1>3, <2>1, <2>2 DEF IssueRefreshToken, TypeOK
<1>4. ASSUME NEW r \in Reqs, LoginSave(r) PROVE TypeOK'
  <2>1. PICK from \in {req[r].at, now} : Insert(r, from)
    BY <1>4 DEF LoginSave
  <2>2. from \in Nat
    BY DEF TypeOK, ReqLocals
  <2>3. rows \subseteq rows'
    BY <2>1 DEF Insert
  <2> QED
    BY <1>4, <2>1, <2>2, <2>3, InsertType DEF LoginSave, TypeOK
<1>5. ASSUME NEW r \in Reqs, RefreshSave(r) PROVE TypeOK'
  <2>1. now \in Nat /\ Insert(r, now)
    BY <1>5 DEF RefreshSave, TypeOK
  <2>2. req[r].held \in rows
    BY <1>5 DEF RefreshSave, RowInv
  <2>3. revoked' \subseteq rows'
    BY <1>5, <2>1, <2>2 DEF RefreshSave, Insert, TypeOK
  <2>4. root' \in [Reqs -> Reqs]
    BY <1>5, <2>2 DEF RefreshSave, TypeOK
  <2> QED
    BY <1>5, <2>1, <2>3, <2>4, InsertType DEF RefreshSave, TypeOK
<1>6. ASSUME NEW t \in 0 .. now, SignOut(t) PROVE TypeOK'
  <2>1. revoked' \subseteq rows /\ ended' \subseteq Reqs
    BY <1>6 DEF SignOut, Live, TypeOK
  <2> QED
    BY <1>6, <2>1 DEF SignOut, TypeOK
<1>7. ASSUME Tick PROVE TypeOK'
  BY <1>7 DEF Tick, TypeOK
<1>8. ASSUME UNCHANGED vars PROVE TypeOK'
  BY <1>8 DEF vars, TypeOK
<1> QED
  BY <1>1, <1>2, <1>3, <1>4, <1>5, <1>6, <1>7, <1>8 DEF Next

LEMMA RowStep == TypeOK /\ RowInv /\ [Next]_vars => RowInv'
<1> SUFFICES ASSUME TypeOK, RowInv, [Next]_vars PROVE RowInv'
  OBVIOUS
<1>1. ASSUME NEW r \in Reqs, LoginStart(r) PROVE RowInv'
  BY <1>1 DEF LoginStart, RowInv, TypeOK
<1>2. ASSUME NEW r \in Reqs, NEW t \in 0 .. now, RefreshStart(r, t) PROVE RowInv'
  <2>1. r \notin rows
    BY <1>2 DEF RefreshStart, RowInv
  <2>2. CASE req' = [req EXCEPT ![r].pc = "refused"] /\ UNCHANGED contested
    <3>1. /\ req'[r].held = req[r].held
          /\ \A q \in Reqs \ {r} : req'[q] = req[q]
      BY <2>2 DEF TypeOK, ReqLocals
    <3> QED
      BY <1>2, <2>1, <2>2, <3>1 DEF RefreshStart, RowInv, TypeOK
  <2>3. CASE ~(req' = [req EXCEPT ![r].pc = "refused"] /\ UNCHANGED contested)
    <3>1. PICK o \in Matching(t) :
             /\ req' = [req EXCEPT ![r] =
                          [pc |-> "sign", held |-> o, at |-> now, token |-> 0]]
             /\ contested' = contested \cup
                   {l \in {root[o]} : \E q \in Reqs : Holds(q, o)}
      BY <1>2, <2>3 DEF RefreshStart
    <3>2. o \in rows
      BY DEF Matching, Live
    <3>3. /\ req'[r].held = o
          /\ \A q \in Reqs \ {r} : req'[q] = req[q]
      BY <3>1 DEF TypeOK
    <3>4. root[o] \in rows
      BY <3>2 DEF RowInv, TypeOK
    <3>5. contested' \subseteq rows
      BY <3>1, <3>4 DEF RowInv
    <3> QED
      BY <1>2, <2>1, <3>2, <3>3, <3>5 DEF RefreshStart, RowInv, TypeOK
  <2> QED
    BY <2>2, <2>3
<1>3. ASSUME NEW r \in Reqs, IssueRefreshToken(r) PROVE RowInv'
  <2>1. /\ req'[r].held = req[r].held
        /\ \A q \in Reqs \ {r} : req'[q] = req[q]
    BY <1>3 DEF IssueRefreshToken, TypeOK, ReqLocals
  <2> QED
    BY <1>3, <2>1 DEF IssueRefreshToken, RowInv, TypeOK
<1>4. ASSUME NEW r \in Reqs, LoginSave(r) PROVE RowInv'
  <2>1. /\ req'[r].held = req[r].held /\ req'[r].pc = "done"
        /\ \A q \in Reqs \ {r} : req'[q] = req[q]
        /\ rows' = rows \cup {r}
    BY <1>4 DEF LoginSave, Insert, TypeOK, ReqLocals
  <2> QED
    BY <1>4, <2>1 DEF LoginSave, RowInv, TypeOK
<1>5. ASSUME NEW r \in Reqs, RefreshSave(r) PROVE RowInv'
  <2>1. /\ req'[r].held = req[r].held /\ req'[r].pc = "done"
        /\ \A q \in Reqs \ {r} : req'[q] = req[q]
        /\ rows' = rows \cup {r}
    BY <1>5 DEF RefreshSave, Insert, TypeOK, ReqLocals
  <2>2. /\ root'[r] = root[req[r].held]
        /\ \A q \in Reqs \ {r} : root'[q] = root[q]
    BY <1>5 DEF RefreshSave, TypeOK
  <2>3. root[req[r].held] \in rows
    BY <1>5 DEF RefreshSave, RowInv, TypeOK
  <2> QED
    BY <1>5, <2>1, <2>2, <2>3 DEF RefreshSave, RowInv, TypeOK
<1>6. ASSUME NEW t \in 0 .. now, SignOut(t) PROVE RowInv'
  <2>1. ended' \subseteq rows
    BY <1>6 DEF SignOut, Live, RowInv, TypeOK
  <2> QED
    BY <1>6, <2>1 DEF SignOut, RowInv
<1>7. ASSUME Tick PROVE RowInv'
  BY <1>7 DEF Tick, RowInv
<1>8. ASSUME UNCHANGED vars PROVE RowInv'
  BY <1>8 DEF vars, RowInv
<1> QED
  BY <1>1, <1>2, <1>3, <1>4, <1>5, <1>6, <1>7, <1>8 DEF Next

\* A step that adds nothing to the lineage of l keeps it single.
LEMMA SingleKept ==
    ASSUME NEW l \in Reqs, Single(l),
           \A x \in Live' : root'[x] = l => x \in Live /\ root[x] = l,
           \A r, o \in Reqs : Holds(r, o)' /\ root'[o] = l => Holds(r, o) /\ root[o] = l,
           l \in ended' => l \in ended
    PROVE  Single(l)'
BY DEF Single

LEMMA LineStep == IInv /\ [Next]_vars => LineInv'
<1> SUFFICES ASSUME IInv, [Next]_vars, NEW l \in Reqs, l \notin contested'
             PROVE  Single(l)'
  BY DEF LineInv
<1>0. l \notin contested /\ Single(l)
  <2>1. contested \subseteq contested'
    BY DEF Next, vars, LoginStart, RefreshStart, IssueRefreshToken, LoginSave,
           RefreshSave, SignOut, Tick
  <2> QED
    BY <2>1 DEF IInv, LineInv
<1> USE DEF IInv
<1>1. ASSUME NEW r \in Reqs, LoginStart(r) PROVE Single(l)'
  <2>1. \A q, o \in Reqs : Holds(q, o)' => Holds(q, o)
    BY <1>1, SessionsAssumption DEF LoginStart, Holds, TypeOK
  <2> QED
    BY <1>0, <1>1, <2>1, SingleKept DEF LoginStart, Live
<1>2. ASSUME NEW r \in Reqs, NEW t \in 0 .. now, RefreshStart(r, t) PROVE Single(l)'
  <2>1. UNCHANGED <<rows, revoked, root, ended>>
    BY <1>2 DEF RefreshStart
  <2>2. CASE req' = [req EXCEPT ![r].pc = "refused"]
    <3>1. \A q, o \in Reqs : Holds(q, o)' => Holds(q, o)
      BY <2>2 DEF Holds, TypeOK, ReqLocals
    <3> QED
      BY <1>0, <2>1, <3>1, SingleKept DEF Live
  <2>3. CASE req' # [req EXCEPT ![r].pc = "refused"]
    <3>1. PICK o \in Matching(t) :
             /\ req' = [req EXCEPT ![r] =
                          [pc |-> "sign", held |-> o, at |-> now, token |-> 0]]
             /\ contested' = contested \cup
                   {k \in {root[o]} : \E q \in Reqs : Holds(q, o)}
      BY <1>2, <2>3 DEF RefreshStart
    <3>2. o \in Live /\ o \in Reqs
      BY DEF Matching, Live, TypeOK
    <3>3. /\ req'[r].held = o
          /\ \A q \in Reqs \ {r} : req'[q] = req[q]
      BY <3>1 DEF TypeOK
    <3>4. CASE root[o] # l
      <4>1. \A q, p \in Reqs : Holds(q, p)' /\ root'[p] = l => Holds(q, p) /\ root[p] = l
        BY <2>1, <3>3, <3>4 DEF Holds
      <4> QED
        BY <1>0, <2>1, <4>1, SingleKept DEF Live
    <3>5. CASE root[o] = l
      <4>1. \A q \in Reqs : ~Holds(q, o)
        BY <3>1, <3>5
      <4>2. \A q, p \in Reqs : Holds(q, p) => root[p] # l
        BY <1>0, <3>2, <3>5, <4>1 DEF Single
      <4>3. \A q, p \in Reqs : Holds(q, p)' /\ root'[p] = l => q = r /\ p = o
        BY <2>1, <3>3, <4>2 DEF Holds
      <4>4. l \notin ended
        BY <1>0, <3>2, <3>5 DEF Single
      <4> QED
        BY <1>0, <2>1, <3>2, <3>5, <4>3, <4>4 DEF Single, Live
    <3> QED
      BY <3>4, <3>5
  <2> QED
    BY <2>2, <2>3
<1>3. ASSUME NEW r \in Reqs, IssueRefreshToken(r) PROVE Single(l)'
  <2>1. \A q, o \in Reqs : Holds(q, o)' => Holds(q, o)
    BY <1>3 DEF IssueRefreshToken, Holds, TypeOK, ReqLocals
  <2> QED
    BY <1>0, <1>3, <2>1, SingleKept DEF IssueRefreshToken, Live
<1>4. ASSUME NEW r \in Reqs, LoginSave(r) PROVE Single(l)'
  <2>1. /\ req[r].pc # "done"
        /\ rows' = rows \cup {r}
        /\ UNCHANGED <<revoked, root, ended>>
    BY <1>4 DEF LoginSave, Insert
  <2>2. r \notin rows /\ root[r] = r
    BY <2>1 DEF RowInv
  <2>3. \A q, o \in Reqs : Holds(q, o)' => Holds(q, o)
    BY <1>4 DEF LoginSave, Insert, Holds, TypeOK, ReqLocals
  <2>4. CASE l # r
    BY <1>0, <2>1, <2>2, <2>3, <2>4, SingleKept DEF Live
  <2>5. CASE l = r
    <3>1. \A x \in Live' : root'[x] = l => x = r
      BY <2>1, <2>2, <2>5 DEF Live, RowInv, TypeOK
    <3>2. \A q, o \in Reqs : Holds(q, o) => o \in rows
      BY SessionsAssumption DEF Holds, RowInv
    <3>3. \A q, o \in Reqs : Holds(q, o)' => root'[o] # l
      BY <2>1, <2>2, <2>3, <2>5, <3>2 DEF RowInv
    <3>4. l \notin ended
      BY <2>2, <2>5 DEF RowInv
    <3> QED
      BY <2>1, <3>1, <3>3, <3>4 DEF Single
  <2> QED
    BY <2>4, <2>5
<1>5. ASSUME NEW r \in Reqs, RefreshSave(r) PROVE Single(l)'
  <2> DEFINE o == req[r].held
  <2>1. /\ req[r].pc = "save"
        /\ o # None
        /\ rows' = rows \cup {r}
        /\ revoked' = revoked \cup {o}
        /\ UNCHANGED ended
    BY <1>5 DEF RefreshSave, Insert
  <2>2. o \in rows /\ o \in Reqs /\ r \notin rows
    BY <2>1 DEF RowInv, TypeOK
  <2>3. /\ root'[r] = root[o]
        /\ \A q \in Reqs \ {r} : root'[q] = root[q]
    BY <1>5 DEF RefreshSave, TypeOK
  <2>4. Holds(r, o)
    BY <2>1 DEF Holds
  <2>5. \A q, p \in Reqs : Holds(q, p)' => q # r /\ p # r /\ Holds(q, p)
    <3>1. \A q, p \in Reqs : Holds(q, p)' => q # r /\ Holds(q, p)
      BY <1>5 DEF RefreshSave, Insert, Holds, TypeOK, ReqLocals
    <3>2. \A q, p \in Reqs : Holds(q, p) => p \in rows
      BY SessionsAssumption DEF Holds, RowInv
    <3> QED
      BY <2>2, <3>1, <3>2
  <2> HIDE DEF o
  <2>6. CASE root[o] # l
    <3>1. \A x \in Live' : root'[x] = l => x \in Live /\ root[x] = l
      BY <2>1, <2>2, <2>3, <2>6 DEF Live, TypeOK
    <3>2. \A q, p \in Reqs : Holds(q, p)' /\ root'[p] = l => Holds(q, p) /\ root[p] = l
      BY <2>3, <2>5
    <3> QED
      BY <1>0, <2>1, <3>1, <3>2, SingleKept
  <2>7. CASE root[o] = l
    <3>1. \A x \in Live : root[x] = l => x = o
      BY <1>0, <2>2, <2>4, <2>7 DEF Single
    <3>2. \A x \in Live' : root'[x] = l => x = r
      BY <2>1, <2>2, <2>3, <3>1 DEF Live, TypeOK
    <3>3. \A q, p \in Reqs : Holds(q, p)' => root'[p] # l
      BY <1>0, <2>2, <2>3, <2>4, <2>5, <2>7 DEF Single
    <3>4. l \notin ended'
      BY <1>0, <2>1, <2>2, <2>4, <2>7 DEF Single
    <3> QED
      BY <3>2, <3>3, <3>4 DEF Single
  <2> QED
    BY <2>6, <2>7
<1>6. ASSUME NEW t \in 0 .. now, SignOut(t) PROVE Single(l)'
  <2> DEFINE out == {o \in Live : value[o] = t}
  <2>1. /\ UNCHANGED <<req, rows, root>>
        /\ revoked' = revoked \cup out
        /\ ended' = ended \cup {root[o] : o \in {x \in out : \A q \in Reqs : ~Holds(q, x)}}
    BY <1>6 DEF SignOut
  <2>2. \A q, o \in Reqs : Holds(q, o)' => Holds(q, o)
    BY <2>1 DEF Holds
  <2>3. CASE l \in ended' /\ l \notin ended
    <3>1. PICK o \in out : root[o] = l /\ \A q \in Reqs : ~Holds(q, o)
      BY <2>1, <2>3
    <3>2. o \in Live /\ o \in Reqs
      BY DEF Live, TypeOK
    <3>3. \A x \in Live' : root'[x] # l
      BY <1>0, <2>1, <3>1, <3>2 DEF Single, Live
    <3>4. \A q, p \in Reqs : Holds(q, p)' => root'[p] # l
      BY <1>0, <2>1, <2>2, <3>1, <3>2 DEF Single
    <3> QED
      BY <3>3, <3>4 DEF Single
  <2>4. CASE ~(l \in ended' /\ l \notin ended)
    BY <1>0, <2>1, <2>2, <2>4, SingleKept DEF Live
  <2> QED
    BY <2>3, <2>4
<1>7. ASSUME UNCHANGED <<req, rows, revoked, root, ended>> PROVE Single(l)'
  BY <1>0, <1>7, SingleKept DEF Live, Holds
<1> QED
  BY <1>1, <1>2, <1>3, <1>4, <1>5, <1>6, <1>7 DEF Next, Tick, vars

-----------------------------------------------------------------------------
LEMMA Invariance == Spec => []IInv
<1>1. IInv /\ [Next]_vars => IInv'
  <2> SUFFICES ASSUME IInv, [Next]_vars PROVE IInv'
    OBVIOUS
  <2>1. TypeOK' /\ RowInv'
    BY TypeStep, RowStep DEF IInv
  <2>2. LineInv'
    BY LineStep
  <2> QED
    BY <2>1, <2>2 DEF IInv
<1> QED
  BY InitIInv, <1>1, PTL DEF Spec

\* Every reachable state of a user's refresh tokens is well typed.
THEOREM TypeCorrect == Spec => []TypeOK
<1>1. IInv => TypeOK
  BY DEF IInv
<1> QED
  BY <1>1, Invariance, PTL

\* However logins, refreshes and sign-outs interleave, and although tokens signed
\* in one second are the same string, a login whose refreshes never held one row
\* together has at most one row that is not revoked.
THEOREM OneLiveRow == Spec => []OneLiveRowPerLogin
<1>1. IInv => OneLiveRowPerLogin
  BY DEF IInv, LineInv, Single, OneLiveRowPerLogin, Live, TypeOK
<1> QED
  BY <1>1, Invariance, PTL

\* A login signed out of between its refreshes stays signed out.
THEOREM SignOutIsFinal == Spec => []SignedOutStaysOut
<1>1. IInv => SignedOutStaysOut
  BY DEF IInv, LineInv, Single, SignedOutStaysOut, Live, TypeOK
<1> QED
  BY <1>1, Invariance, PTL

-----------------------------------------------------------------------------
(* Accounts.                                                                *)

Roles == {"CLIENT", "OWNER"}
Rows == [id : Requests \cup {Old}, password : Passwords \cup {Nobodys},
         hashed : {"peppered", "plain", "raw"}, verified : BOOLEAN, role : Roles,
         by : Requests \cup {Old}]
RequestPC == {"idle", "token", "read", "decide", "write", "create", "overwrite", "confirm",
              "save", "done", "code sent", "wrong", "refused", "failed"}
RequestLocals == [pc : RequestPC, kind : A!Kinds \cup {None}, password : Passwords \cup {None},
                  held : Rows \cup {None}]

\* The account that was there before is of no request, and no row is none.
Distinct == Old \notin Requests /\ None \notin Rows

AccountTypeOK ==
    /\ env \in Settings
    /\ account \in Rows \cup {None}
    /\ proved \in BOOLEAN
    /\ tokens \subseteq [by : Requests, user : Requests \cup {Old}]
    /\ request \in [Requests -> RequestLocals]
    /\ seen \in [Requests -> SUBSET (Rows \cup {None})]

\* Where a request can be, by its kind.
Path(q) ==
    /\ q.pc = "create" => q.kind \in {"signUp", "register", "oauth"}
    /\ q.pc = "overwrite" => q.kind = "register" /\ q.held # None /\ ~q.held.verified
    /\ q.pc = "write" => q.kind \in {"create", "update", "remove", "code"}
    /\ q.pc \in {"token", "read", "decide"} => q.kind \notin {"create", "update", "remove", "code"}
    /\ q.pc = "confirm" => q.kind \in {"oauth", "verifyOtp"}
    /\ q.pc # "idle" => q.kind \in A!Kinds /\ q.password \in Passwords

PathInv == \A r \in Requests : Path(request[r])

\* A request has seen every state of the account while it was served, and so
\* what it read.
SeenInv ==
    \A r \in Requests :
        /\ ~A!Ended(r) => account \in seen[r]
        /\ request[r].pc \in {"decide", "overwrite"} => request[r].held \in seen[r]

\* Whose password it is, and how it was hashed.
AccountRowInv(row) ==
    row # None =>
        /\ row.by \in Requests => request[row.by].pc # "idle"
        /\ A!SetByOwner(row) => row.hashed = "peppered"

RowsInv == AccountRowInv(account) /\ \A r \in Requests : \A row \in seen[r] : AccountRowInv(row)

\* The two properties, of one request and of one row.
Answers(r) ==
    request[r].kind \in {"signIn", "login"} =>
        /\ request[r].pc \in {"code sent", "save", "done"} =>
              \E row \in seen[r] : row # None /\ row.password = request[r].password
        /\ request[r].pc = "wrong" =>
              \E row \in seen[r] :
                  row = None \/ row.password # request[r].password \/ ~A!SetByOwner(row)

Settled(row) ==
    row # None /\ row.by # Old /\ row.by # row.id /\ request[row.by].kind = "register"
        => \E old \in seen[row.by] : old # None /\ old.id = row.id /\ ~old.verified

\* The inductive invariant.
AccountInv ==
    /\ AccountTypeOK /\ PathInv /\ SeenInv /\ RowsInv
    /\ \A r \in Requests : Answers(r)
    /\ Settled(account)

-----------------------------------------------------------------------------
(* What a step does.                                                        *)

\* A request that is being served moves on.
Moves(r, pc, held) ==
    /\ request' \in [Requests -> RequestLocals]
    /\ \A x \in Requests \ {r} : request'[x] = request[x]
    /\ request'[r].pc = pc /\ request'[r].held = held
    /\ request'[r].kind = request[r].kind /\ request'[r].password = request[r].password

\* The rest of the state: nothing, or another row that those served see.
Shows == account' = account /\ seen' = seen
Sees == \E row \in Rows \cup {None} : A!Becomes(row)

LEMMA GoesMoves ==
    ASSUME AccountTypeOK, NEW r \in Requests, NEW pc \in RequestPC, A!Goes(r, pc)
    PROVE  Moves(r, pc, request[r].held)
<1> DEFINE new == [request[r] EXCEPT !.pc = pc]
<1>1. request[r] \in RequestLocals
  BY DEF AccountTypeOK
<1>2. /\ new \in RequestLocals /\ new.pc = pc /\ new.held = request[r].held
      /\ new.kind = request[r].kind /\ new.password = request[r].password
  BY <1>1 DEF RequestLocals
<1>3. request' = [request EXCEPT ![r] = new]
  BY DEF A!Goes
<1> HIDE DEF new
<1> QED
  BY <1>2, <1>3 DEF AccountTypeOK, Moves

\* Setting what was read, or created.
LEMMA HeldMoves ==
    ASSUME AccountTypeOK, NEW r \in Requests, NEW pc \in RequestPC, NEW held \in Rows \cup {None},
           request' = [request EXCEPT ![r].held = held, ![r].pc = pc]
    PROVE  Moves(r, pc, held)
<1> DEFINE new == [request[r] EXCEPT !.held = held, !.pc = pc]
<1>1. request[r] \in RequestLocals
  BY DEF AccountTypeOK
<1>2. /\ new \in RequestLocals /\ new.pc = pc /\ new.held = held
      /\ new.kind = request[r].kind /\ new.password = request[r].password
  BY <1>1 DEF RequestLocals
<1>3. request' = [request EXCEPT ![r] = new]
  OBVIOUS
<1> HIDE DEF new
<1> QED
  BY <1>2, <1>3 DEF AccountTypeOK, Moves

LEMMA RequestTypes ==
    ASSUME AccountTypeOK, NEW r \in Requests
    PROVE  /\ request[r] \in RequestLocals /\ request[r].pc \in RequestPC
           /\ request[r].kind \in A!Kinds \cup {None} /\ request[r].held \in Rows \cup {None}
           /\ request[r].password \in Passwords \cup {None} /\ seen[r] \subseteq Rows \cup {None}
BY DEF AccountTypeOK, RequestLocals

\* Histories only grow while a request is served.
LEMMA SeenGrows ==
    ASSUME AccountTypeOK, Shows \/ Sees
    PROVE  /\ seen' \in [Requests -> SUBSET (Rows \cup {None})]
           /\ \A x \in Requests : seen[x] \subseteq seen'[x]
           /\ account' \in Rows \cup {None}
           /\ \A x \in Requests : seen'[x] \subseteq seen[x] \cup {account'}
           /\ \A x \in Requests : ~A!Ended(x) /\ account \in seen[x] => account' \in seen'[x]
<1>1. CASE Shows
  BY <1>1 DEF Shows, AccountTypeOK
<1>2. CASE Sees
  <2>1. PICK row \in Rows \cup {None} : A!Becomes(row)
    BY <1>2 DEF Sees
  <2>2. \A x \in Requests : seen'[x] = IF A!Ended(x) THEN seen[x] ELSE seen[x] \cup {row}
    BY <2>1 DEF A!Becomes
  <2>3. \A x \in Requests : seen[x] \in SUBSET (Rows \cup {None})
    BY DEF AccountTypeOK
  <2>4. seen' \in [Requests -> SUBSET (Rows \cup {None})]
    <3> DEFINE s(x) == IF A!Ended(x) THEN seen[x] ELSE seen[x] \cup {row}
    <3>1. \A x \in Requests : s(x) \in SUBSET (Rows \cup {None})
      BY <2>3
    <3>2. seen' = [x \in Requests |-> s(x)]
      BY <2>1 DEF A!Becomes
    <3> HIDE DEF s
    <3> QED
      BY <3>1, <3>2
  <2> QED
    BY <2>1, <2>2, <2>3, <2>4 DEF A!Becomes
<1> QED
  BY <1>1, <1>2

\* The step of a request that is being served, from what is special to it.
LEMMA ServedStep ==
    ASSUME Distinct, AccountInv, NEW r \in Requests, ~A!Ended(r), NEW pc \in RequestPC \ {"idle"}, NEW held,
           Moves(r, pc, held), Shows \/ Sees, env' = env, proved' \in BOOLEAN,
           tokens' \subseteq [by : Requests, user : Requests \cup {Old}],
           Path(request'[r]),
           pc \in {"decide", "overwrite"} => held \in seen'[r],
           AccountRowInv(account)', Answers(r)', Settled(account)'
    PROVE  AccountInv'
<1> USE DEF AccountInv
<1>1. /\ seen' \in [Requests -> SUBSET (Rows \cup {None})]
      /\ \A x \in Requests : seen[x] \subseteq seen'[x]
      /\ account' \in Rows \cup {None}
      /\ \A x \in Requests : seen'[x] \subseteq seen[x] \cup {account'}
      /\ \A x \in Requests : ~A!Ended(x) /\ account \in seen[x] => account' \in seen'[x]
  BY SeenGrows
<1>2. AccountTypeOK'
  BY <1>1 DEF AccountTypeOK, Moves
<1>3. PathInv'
  BY DEF PathInv, Moves
<1>4. SeenInv'
  BY <1>1 DEF SeenInv, Moves, A!Ended
<1>5. \A x \in Requests : request'[x].kind = request[x].kind
                          /\ (request[x].pc # "idle" => request'[x].pc # "idle")
  BY DEF Moves
<1>6. RowsInv'
  <2>1. ASSUME NEW x \in Requests, NEW row \in seen[x]
        PROVE  row # None => /\ row.by \in Requests => request'[row.by].pc # "idle"
                             /\ A!SetByOwner(row)' => row.hashed = "peppered"
    <3> SUFFICES ASSUME row # None
                 PROVE  /\ row.by \in Requests => request'[row.by].pc # "idle"
                        /\ A!SetByOwner(row)' => row.hashed = "peppered"
      OBVIOUS
    <3>1. row \in Rows /\ row.by \in Requests \cup {Old}
      BY RequestTypes DEF Rows
    <3> QED
      BY <1>5, <3>1 DEF RowsInv, AccountRowInv, A!SetByOwner
  <2>2. \A x \in Requests : \A row \in seen'[x] : row \in seen[x] \/ row = account'
    BY <1>1
  <2> QED
    BY <2>1, <2>2 DEF RowsInv, AccountRowInv, A!SetByOwner
<1>7. ASSUME NEW x \in Requests PROVE Answers(x)'
  <2>1. CASE x = r
    BY <2>1
  <2>2. CASE x # r
    <3>1. request'[x] = request[x] /\ Answers(x)
      BY <2>2 DEF Moves
    <3>2. ASSUME NEW row \in seen[x], row # None, ~A!SetByOwner(row) PROVE ~A!SetByOwner(row)'
      <4>1. row.by \in Requests \cup {Old}
        BY <3>2, RequestTypes DEF Rows
      <4> QED
        BY <1>5, <3>2, <4>1 DEF A!SetByOwner
    <3> QED
      BY <1>1, <3>1, <3>2 DEF Answers
  <2> QED
    BY <2>1, <2>2
<1> QED
  BY <1>2, <1>3, <1>4, <1>6, <1>7

\* A step that leaves the account alone.
LEMMA QuietStep ==
    ASSUME Distinct, AccountInv, NEW r \in Requests, ~A!Ended(r), NEW pc \in RequestPC \ {"idle"}, NEW held,
           Moves(r, pc, held), Shows, env' = env, proved' \in BOOLEAN,
           tokens' \subseteq [by : Requests, user : Requests \cup {Old}],
           Path(request'[r]), pc \in {"decide", "overwrite"} => held \in seen[r],
           Answers(r)'
    PROVE  AccountInv'
<1> USE DEF AccountInv
<1>1. \A x \in Requests : request'[x].kind = request[x].kind
                          /\ (request[x].pc # "idle" => request'[x].pc # "idle")
  BY DEF Moves
<1>2. account # None => account \in Rows /\ account.by \in Requests \cup {Old}
  BY DEF AccountTypeOK, Rows
<1>3. AccountRowInv(account)'
  BY <1>1, <1>2 DEF RowsInv, AccountRowInv, A!SetByOwner, Shows
<1>4. Settled(account)'
  BY <1>1, <1>2 DEF Settled, Shows
<1> QED
  BY <1>3, <1>4, ServedStep DEF Shows

\* A step that only decides where the request goes.
LEMMA TurnStep ==
    ASSUME Distinct, AccountInv, NEW r \in Requests, ~A!Ended(r), NEW pc \in RequestPC \ {"idle"},
           A!Turns(r, pc),
           pc \in {"create", "overwrite", "write", "token", "read", "decide", "confirm"} =>
              Path([request[r] EXCEPT !.pc = pc]) /\ pc # "decide",
           pc = "overwrite" => request[r].held \in seen[r],
           Answers(r)'
    PROVE  AccountInv'
<1> USE DEF AccountInv
<1>1. Moves(r, pc, request[r].held)
  BY GoesMoves DEF A!Turns
<1>2. Path(request'[r])
  <2> DEFINE new == [request[r] EXCEPT !.pc = pc]
  <2>1. /\ new.pc = pc /\ new.kind = request[r].kind /\ new.held = request[r].held
        /\ new.password = request[r].password
    BY RequestTypes DEF RequestLocals
  <2>2. request[r].kind \in A!Kinds /\ request[r].password \in Passwords
    BY DEF PathInv, Path, A!Ended
  <2> HIDE DEF new
  <2>3. CASE pc \in {"create", "overwrite", "write", "token", "read", "decide", "confirm"}
    <3>1. Path(new)
      BY <2>3 DEF new
    <3> QED
      BY <1>1, <2>1, <3>1 DEF Path, Moves
  <2>4. CASE pc \notin {"create", "overwrite", "write", "token", "read", "decide", "confirm"}
    BY <1>1, <2>2, <2>4 DEF Path, Moves
  <2> QED
    BY <2>3, <2>4
<1> QED
  BY <1>1, <1>2, QuietStep DEF A!Turns, Shows, AccountTypeOK

\* A step that does not answer a sign-in keeps what was answered.
LEMMA NoAnswer ==
    ASSUME NEW r \in Requests, NEW pc, NEW held, Moves(r, pc, held),
           pc \notin {"code sent", "save", "done", "wrong"} \/ request[r].kind \notin {"signIn", "login"}
    PROVE  Answers(r)'
BY DEF Moves, Answers

LEMMA FailStep ==
    ASSUME Distinct, AccountInv, NEW r \in Requests, ~A!Ended(r), A!Fails(r)
    PROVE  AccountInv'
<1>1. A!Turns(r, "failed") /\ "failed" \in RequestPC \ {"idle"}
  BY DEF A!Fails, RequestPC
<1>2. Answers(r)'
  BY <1>1, GoesMoves, NoAnswer DEF A!Turns, AccountInv
<1> QED
  BY <1>1, <1>2, TurnStep

-----------------------------------------------------------------------------
(* The operations.                                                          *)

LEMMA AskStep ==
    ASSUME Distinct, AccountInv, NEW r \in Requests, A!Ask(r)
    PROVE  AccountInv'
<1> USE DEF AccountInv
<1>1. PICK kind \in A!Kinds, password \in Passwords :
        request' = [request EXCEPT ![r].kind = kind, ![r].password = password,
            ![r].pc = CASE kind = "register" -> "token"
                        [] kind \in {"create", "update", "remove", "code"} -> "write"
                        [] OTHER -> "read"]
  BY DEF A!Ask
<1> DEFINE pc == CASE kind = "register" -> "token"
                   [] kind \in {"create", "update", "remove", "code"} -> "write"
                   [] OTHER -> "read"
<1>2. pc \in {"token", "write", "read"} /\ (pc = "write" <=> kind \in {"create", "update", "remove", "code"})
  OBVIOUS
<1> HIDE DEF pc
<1> DEFINE new == [request[r] EXCEPT !.kind = kind, !.password = password, !.pc = pc]
<1>3. /\ new \in RequestLocals /\ new.pc = pc /\ new.kind = kind /\ new.password = password
  BY <1>2, RequestTypes DEF RequestLocals, RequestPC
<1>4. request' = [request EXCEPT ![r] = new]
  BY <1>1 DEF pc
<1> HIDE DEF new
<1>5. /\ request' \in [Requests -> RequestLocals]
      /\ \A x \in Requests \ {r} : request'[x] = request[x]
      /\ request'[r].pc = pc /\ request'[r].kind = kind /\ request'[r].password = password
  BY <1>3, <1>4 DEF AccountTypeOK
<1>6. /\ request[r].pc = "idle" /\ seen' = [seen EXCEPT ![r] = {account}]
      /\ UNCHANGED <<env, account, proved, tokens>>
  BY DEF A!Ask
<1>7. /\ seen' \in [Requests -> SUBSET (Rows \cup {None})] /\ seen'[r] = {account}
      /\ \A x \in Requests \ {r} : seen'[x] = seen[x]
  BY <1>6 DEF AccountTypeOK
<1>8. AccountTypeOK'
  BY <1>5, <1>6, <1>7 DEF AccountTypeOK
<1>9. PathInv'
  BY <1>2, <1>5 DEF PathInv, Path
<1>10. SeenInv'
  BY <1>2, <1>5, <1>6, <1>7 DEF SeenInv, A!Ended
<1>11. \A row \in Rows : AccountRowInv(row) => row.by # r /\ (A!SetByOwner(row)' <=> A!SetByOwner(row))
  BY <1>5, <1>6 DEF AccountRowInv, A!SetByOwner, Distinct, Rows
<1>12. \A row \in Rows \cup {None} : AccountRowInv(row) => row = None \/ (row.by # r /\ AccountRowInv(row)')
  BY <1>5, <1>11 DEF AccountRowInv
<1>13. \A x \in Requests : \A row \in seen[x] \cup {account} : row \in Rows \cup {None} /\ AccountRowInv(row)
  BY DEF RowsInv, AccountTypeOK
<1>14. RowsInv'
  BY <1>5, <1>6, <1>7, <1>12, <1>13 DEF RowsInv, AccountRowInv, A!SetByOwner
<1>15. ASSUME NEW x \in Requests PROVE Answers(x)'
  BY <1>2, <1>5, <1>7, <1>11, <1>13 DEF Answers
<1>16. Settled(account)'
  <2>1. account # None => account \in Rows /\ account.by # r
    BY <1>12, <1>13
  <2> QED
    BY <1>5, <1>6, <1>7, <2>1 DEF Settled, Rows
<1> QED
  BY <1>8, <1>9, <1>10, <1>14, <1>15, <1>16

LEMMA ReadStep ==
    ASSUME Distinct, AccountInv, NEW r \in Requests, A!Read(r)
    PROVE  AccountInv'
<1> USE DEF AccountInv
<1>1. /\ request[r].pc = "read" /\ ~A!Ended(r) /\ Shows
      /\ UNCHANGED <<env, account, proved, tokens, seen>>
  BY DEF A!Read, A!Ended, Shows
<1>2. account \in Rows \cup {None} /\ account \in seen[r]
  BY <1>1 DEF AccountTypeOK, SeenInv
<1>3. Moves(r, "decide", account)
  BY <1>2, HeldMoves DEF A!Read, RequestPC
<1>4. Path(request'[r])
  BY <1>1, <1>3 DEF PathInv, Path, Moves
<1>5. Answers(r)'
  BY <1>3, NoAnswer
<1> QED
  BY <1>1, <1>2, <1>3, <1>4, <1>5, QuietStep DEF AccountTypeOK, RequestPC

LEMMA CodeSteps ==
    ASSUME Distinct, AccountInv, NEW r \in Requests, A!VerifyCode(r) \/ A!AssertToken(r)
    PROVE  AccountInv'
<1> USE DEF AccountInv
<1>1. CASE A!VerifyCode(r)
  <2>1. ~A!Ended(r) /\ Moves(r, "done", request[r].held)
    BY <1>1, GoesMoves DEF A!VerifyCode, A!Ended, RequestPC
  <2>2. Path(request'[r]) /\ Answers(r)'
    BY <1>1, <2>1, NoAnswer DEF A!VerifyCode, PathInv, Path, Moves
  <2> QED
    BY <1>1, <2>1, <2>2, QuietStep DEF A!VerifyCode, Shows, AccountTypeOK, RequestPC
<1>2. CASE A!AssertToken(r)
  <2>1. PICK pc \in {"read", "refused"} : A!Turns(r, pc)
    BY <1>2 DEF A!AssertToken
  <2>2. ~A!Ended(r) /\ request[r].pc = "token" /\ Moves(r, pc, request[r].held)
    BY <1>2, <2>1, GoesMoves DEF A!AssertToken, A!Ended, RequestPC, A!Turns
  <2>3. Path(request'[r]) /\ Answers(r)'
    BY <2>2, NoAnswer DEF PathInv, Path, Moves
  <2> QED
    BY <2>1, <2>2, <2>3, QuietStep DEF A!Turns, Shows, AccountTypeOK, RequestPC
<1> QED
  BY <1>1, <1>2

\* What a request decides from the row it read.
LEMMA DecideStep ==
    ASSUME Distinct, AccountInv, NEW r \in Requests, request[r].pc = "decide",
           NEW pc \in {"create", "overwrite", "confirm", "save", "done", "code sent", "wrong",
                       "refused"},
           A!Turns(r, pc), Path(request'[r]), Answers(r)'
    PROVE  AccountInv'
<1>1. Moves(r, pc, request[r].held) /\ ~A!Ended(r)
  BY GoesMoves DEF AccountInv, A!Turns, A!Ended, RequestPC
<1>2. request[r].held \in seen[r]
  BY DEF AccountInv, SeenInv
<1> QED
  BY <1>1, <1>2, QuietStep DEF AccountInv, A!Turns, Shows, AccountTypeOK, RequestPC

LEMMA DecideSteps ==
    ASSUME Distinct, AccountInv, NEW r \in Requests,
           A!SignUp(r) \/ A!Register(r) \/ A!OAuth(r) \/ A!VerifyOtp(r)
    PROVE  AccountInv'
<1> USE DEF AccountInv
<1>1. PICK pc \in {"create", "overwrite", "confirm", "save", "done", "code sent", "refused"} :
        /\ A!Turns(r, pc) /\ request[r].pc = "decide"
        /\ request[r].kind \in {"signUp", "register", "oauth", "verifyOtp"}
        /\ pc = "create" => request[r].kind # "verifyOtp"
        /\ pc = "overwrite" => /\ request[r].kind = "register"
                               /\ request[r].held # None /\ ~request[r].held.verified
        /\ pc = "confirm" => request[r].kind \in {"oauth", "verifyOtp"}
  BY DEF A!SignUp, A!Register, A!OAuth, A!VerifyOtp, A!Deciding, A!Known, A!Answer, A!MayRegister
<1>2. Moves(r, pc, request[r].held)
  BY <1>1, GoesMoves DEF A!Turns, RequestPC
<1>3. Path(request'[r])
  BY <1>1, <1>2 DEF PathInv, Path, Moves
<1>4. Answers(r)'
  BY <1>1, <1>2, NoAnswer
<1> QED
  BY <1>1, <1>3, <1>4, DecideStep

\* A sign-in decides by the row it read, which the account was meanwhile.
LEMMA SignSteps ==
    ASSUME Distinct, AccountInv, NEW r \in Requests, A!SignIn(r) \/ A!Login(r)
    PROVE  AccountInv'
<1> USE DEF AccountInv
<1>0. PICK held \in Rows \cup {None} : held = request[r].held
  BY RequestTypes
<1>1. PICK pc \in {"save", "done", "code sent", "wrong", "refused"} :
        /\ A!Turns(r, pc) /\ request[r].pc = "decide" /\ request[r].kind \in {"signIn", "login"}
        /\ pc \in {"save", "done", "code sent"} =>
              held # None /\ A!VerifyPassword(request[r].password, held)
        /\ pc = "wrong" => held = None \/ ~A!VerifyPassword(request[r].password, held)
  BY <1>0 DEF A!SignIn, A!Login, A!Deciding, A!Known, A!Answer
<1>2. Moves(r, pc, held) /\ seen' = seen
  BY <1>0, <1>1, GoesMoves DEF A!Turns, RequestPC
<1>3. held \in seen[r] /\ held \in Rows \cup {None} /\ AccountRowInv(held)
  BY <1>0, <1>1 DEF SeenInv, RowsInv
<1>4. held # None => (A!SetByOwner(held)' <=> A!SetByOwner(held))
  BY <1>2 DEF A!SetByOwner, Moves, Rows
<1>5. Path(request'[r])
  BY <1>1, <1>2 DEF PathInv, Path, Moves
<1>6. Answers(r)'
  <2>1. /\ request'[r].pc = pc /\ request'[r].password = request[r].password
        /\ seen'[r] = seen[r]
    BY <1>2 DEF Moves
  <2>2. pc \in {"save", "done", "code sent"} => held # None /\ held.password = request[r].password
    BY <1>1 DEF A!VerifyPassword
  <2>3. pc = "wrong" => held = None \/ held.password # request[r].password \/ ~A!SetByOwner(held)
    BY <1>1, <1>3 DEF A!VerifyPassword, AccountRowInv
  <2> QED
    BY <1>3, <1>4, <2>1, <2>2, <2>3 DEF Answers
<1> QED
  BY <1>1, <1>5, <1>6, DecideStep

-----------------------------------------------------------------------------
(* The statements.                                                          *)

\* A statement that changes the row, from what it makes of it.
LEMMA StatementStep ==
    ASSUME Distinct, AccountInv, NEW r \in Requests, ~A!Ended(r), NEW row \in Rows \cup {None}, A!Becomes(row),
           NEW pc \in {"save", "done", "code sent"}, NEW held, Moves(r, pc, held),
           UNCHANGED <<env, proved, tokens>>,
           request[r].kind \notin {"signIn", "login"},
           AccountRowInv(row)', Settled(row)'
    PROVE  AccountInv'
<1> USE DEF AccountInv
<1>1. Sees /\ account' = row
  BY DEF Sees, A!Becomes
<1>2. Path(request'[r])
  BY DEF PathInv, Path, Moves, A!Ended
<1>3. Answers(r)'
  BY NoAnswer
<1>4. AccountRowInv(account)' /\ Settled(account)'
  BY <1>1 DEF AccountRowInv, A!SetByOwner, Settled
<1> QED
  BY <1>1, <1>2, <1>3, <1>4, ServedStep DEF RequestPC, AccountTypeOK

\* A row that changes neither hands nor password.
LEMMA SameHands ==
    ASSUME AccountTypeOK, NEW r \in Requests, NEW row \in Rows, account \in Rows,
           account # None, AccountRowInv(account), Settled(account), row.id = account.id, row.by = account.by,
           row.hashed = account.hashed, A!Becomes(row), NEW pc, pc # "idle", NEW held, Moves(r, pc, held)
    PROVE  AccountRowInv(row)' /\ Settled(row)'
<1>1. row.by \in Requests \cup {Old}
  BY DEF Rows
<1>2. \A x \in Requests : request'[x].kind = request[x].kind
                          /\ (request[x].pc # "idle" => request'[x].pc # "idle")
  BY DEF Moves
<1>3. AccountRowInv(row)'
  BY <1>1, <1>2 DEF AccountRowInv, A!SetByOwner
<1>4. \A x \in Requests : seen[x] \subseteq seen'[x]
  BY SeenGrows DEF Sees
<1> QED
  BY <1>1, <1>2, <1>3, <1>4 DEF Settled

LEMMA RowFields ==
    ASSUME NEW id \in Requests \cup {Old}, NEW password \in Passwords \cup {Nobodys},
           NEW hashed \in {"peppered", "plain"}, NEW verified \in BOOLEAN, NEW role \in Roles
    PROVE  /\ A!Row(id, password, hashed, verified, role) \in Rows
           /\ A!Row(id, password, hashed, verified, role).id = id
           /\ A!Row(id, password, hashed, verified, role).by = id
           /\ A!Row(id, password, hashed, verified, role).hashed = hashed
BY DEF A!Row, Rows

LEMMA CreateStep ==
    ASSUME Distinct, AccountInv, NEW r \in Requests, A!Create(r)
    PROVE  AccountInv'
<1> USE DEF AccountInv
<1>1. /\ ~A!Ended(r) /\ request[r].pc \in {"create", "write"}
      /\ request[r].kind \in {"signUp", "register", "oauth", "create"}
      /\ request[r].password \in Passwords
  BY DEF A!Create, PathInv, Path, A!Ended
<1>2. CASE account # None
  <2>1. A!Fails(r)
    BY <1>2 DEF A!Create
  <2> QED
    BY <1>1, <2>1, FailStep
<1>3. CASE account = None
  <2>1. PICK row \in A!Created(r) :
          /\ A!Becomes(row)
          /\ request' = [request EXCEPT ![r].held = row,
                ![r].pc = CASE request[r].kind = "signUp" -> A!Answer
                            [] request[r].kind = "create" -> "done"
                            [] OTHER -> "save"]
          /\ UNCHANGED <<env, proved, tokens>>
    BY <1>3 DEF A!Create
  <2>2. /\ row \in Rows /\ row.id = r /\ row.by = r
        /\ request[r].kind \in {"signUp", "register", "oauth"} => row.hashed = "peppered"
    <3>1. PICK password \in Passwords \cup {Nobodys}, hashed \in {"peppered", "plain"},
               verified \in BOOLEAN, role \in Roles :
            /\ row = A!Row(r, password, hashed, verified, role)
            /\ request[r].kind # "create" => hashed = "peppered"
      <4>1. CASE request[r].kind = "signUp"
        BY <1>1, <2>1, <4>1 DEF A!Created, A!HashPassword, Roles
      <4>2. CASE request[r].kind = "register"
        BY <1>1, <2>1, <4>2 DEF A!Created, A!HashPassword, Roles
      <4>3. CASE request[r].kind = "oauth"
        BY <1>1, <2>1, <4>3 DEF A!Created, A!HashPassword, Roles
      <4>4. CASE request[r].kind = "create"
        BY <1>1, <2>1, <4>4 DEF A!Created, A!HashPassword, Roles
      <4> QED
        BY <1>1, <4>1, <4>2, <4>3, <4>4
    <3>2. row \in Rows /\ row.id = r /\ row.by = r /\ row.hashed = hashed
      BY <3>1, RowFields
    <3> QED
      BY <3>1, <3>2
  <2>3. PICK pc \in {"save", "done", "code sent"} :
          request' = [request EXCEPT ![r].held = row, ![r].pc = pc]
    BY <2>1 DEF A!Answer
  <2>4. Moves(r, pc, row)
    BY <2>2, <2>3, HeldMoves DEF RequestPC
  <2>5. row # None /\ r # Old
    BY <2>2 DEF Distinct
  <2>6. AccountRowInv(row)' /\ Settled(row)'
    BY <1>1, <2>2, <2>4, <2>5 DEF AccountRowInv, A!SetByOwner, Settled, Moves
  <2> QED
    BY <1>1, <2>1, <2>2, <2>4, <2>6, StatementStep
<1> QED
  BY <1>2, <1>3

\* The account a request holds by its identifier.
LEMMA HeldAccount ==
    ASSUME Distinct, AccountInv, NEW r \in Requests, A!Holds(r)
    PROVE  /\ account \in Rows /\ account # None
           /\ request[r].held \in Rows /\ account.id = request[r].held.id
BY RequestTypes DEF A!Holds, AccountInv, AccountTypeOK

\* A registration takes an account over only if it read it unverified.
LEMMA OverwriteStep ==
    ASSUME Distinct, AccountInv, NEW r \in Requests, A!Overwrite(r)
    PROVE  AccountInv'
<1> USE DEF AccountInv
<1>1. /\ ~A!Ended(r) /\ request[r].kind = "register" /\ request[r].password \in Passwords
      /\ request[r].held # None /\ ~request[r].held.verified /\ request[r].held \in seen[r]
  BY DEF A!Overwrite, PathInv, Path, SeenInv, A!Ended
<1>2. CASE ~A!Holds(r)
  BY <1>1, <1>2, FailStep DEF A!Overwrite
<1>3. CASE A!Holds(r)
  <2> DEFINE new == [account EXCEPT !.password = request[r].password, !.hashed = A!HashPassword,
                                    !.verified = TRUE, !.by = r]
  <2>1. account \in Rows /\ account.id = request[r].held.id
    BY <1>3, HeldAccount
  <2>fields. /\ new \in Rows /\ new.id = account.id /\ new.by = r /\ new.hashed = "peppered"
    BY <1>1, <2>1 DEF Rows, A!HashPassword
  <2>2. PICK row \in Rows : /\ row = new /\ row.id = account.id /\ row.by = r
                            /\ row.hashed = "peppered"
    BY <2>fields
  <2>3. A!Becomes(row) /\ A!Goes(r, "save") /\ UNCHANGED <<env, proved, tokens>>
    BY <1>3, <2>2 DEF A!Overwrite
  <2> HIDE DEF new
  <2>4. Moves(r, "save", request[r].held)
    BY <2>3, GoesMoves DEF RequestPC
  <2>5. request[r].held \in seen'[r]
    BY <1>1, <2>2, <2>3, SeenGrows DEF Sees
  <2>6. AccountRowInv(row)'
    BY <2>2, <2>4 DEF AccountRowInv, A!SetByOwner, Moves
  <2>7. Settled(row)'
    BY <1>1, <2>1, <2>2, <2>5 DEF Settled
  <2> QED
    BY <1>1, <2>2, <2>3, <2>4, <2>6, <2>7, StatementStep
<1> QED
  BY <1>2, <1>3

LEMMA ConfirmStep ==
    ASSUME Distinct, AccountInv, NEW r \in Requests, A!Confirm(r)
    PROVE  AccountInv'
<1> USE DEF AccountInv
<1>1. ~A!Ended(r) /\ request[r].kind \notin {"signIn", "login"}
  BY DEF A!Confirm, PathInv, Path, A!Ended
<1>2. CASE ~A!Holds(r)
  BY <1>1, <1>2, FailStep DEF A!Confirm
<1>3. CASE A!Holds(r)
  <2> DEFINE new == [account EXCEPT !.verified = TRUE]
  <2>1. account \in Rows /\ account # None
    BY <1>3, HeldAccount
  <2>fields. /\ new \in Rows /\ new.id = account.id /\ new.by = account.by
        /\ new.hashed = account.hashed
    BY <2>1 DEF Rows
  <2>2. PICK row \in Rows : /\ row = new /\ row.id = account.id /\ row.by = account.by
                            /\ row.hashed = account.hashed
    BY <2>fields
  <2>3. A!Becomes(row) /\ A!Goes(r, "save") /\ UNCHANGED <<env, proved, tokens>>
    BY <1>3, <2>2 DEF A!Confirm
  <2> HIDE DEF new
  <2>4. Moves(r, "save", request[r].held)
    BY <2>3, GoesMoves DEF RequestPC
  <2>5. AccountRowInv(row)' /\ Settled(row)'
    BY <2>1, <2>2, <2>3, <2>4, SameHands DEF RowsInv
  <2> QED
    BY <1>1, <2>2, <2>3, <2>4, <2>5, StatementStep
<1> QED
  BY <1>2, <1>3

LEMMA SaveStep ==
    ASSUME Distinct, AccountInv, NEW r \in Requests, A!SaveToken(r)
    PROVE  AccountInv'
<1> USE DEF AccountInv
<1>1. ~A!Ended(r) /\ request[r].pc = "save"
  BY DEF A!SaveToken, A!Ended
<1>2. CASE ~A!Holds(r)
  BY <1>1, <1>2, FailStep DEF A!SaveToken
<1>3. CASE A!Holds(r)
  <2>1. /\ tokens' = tokens \cup {[by |-> r, user |-> account.id]} /\ A!Goes(r, "done")
        /\ UNCHANGED <<env, account, proved, seen>>
    BY <1>3 DEF A!SaveToken
  <2>2. account \in Rows
    BY <1>3, HeldAccount
  <2>3. tokens' \subseteq [by : Requests, user : Requests \cup {Old}]
    BY <2>1, <2>2 DEF AccountTypeOK, Rows
  <2>4. Moves(r, "done", request[r].held)
    BY <2>1, GoesMoves DEF RequestPC
  <2>5. Path(request'[r])
    BY <1>1, <2>4 DEF PathInv, Path, Moves
  <2>6. Answers(r)'
    BY <1>1, <2>1, <2>4 DEF Answers, Moves
  <2> QED
    BY <1>1, <2>1, <2>3, <2>4, <2>5, <2>6, QuietStep DEF Shows, AccountTypeOK, RequestPC
<1> QED
  BY <1>2, <1>3

LEMMA UpdateStep ==
    ASSUME Distinct, AccountInv, NEW r \in Requests, A!UpdateUser(r)
    PROVE  AccountInv'
<1> USE DEF AccountInv
<1>1. ~A!Ended(r) /\ request[r].kind = "update" /\ request[r].password \in Passwords
  BY DEF A!UpdateUser, PathInv, Path, A!Ended
<1>2. CASE account = None
  BY <1>1, <1>2, FailStep DEF A!UpdateUser
<1>3. CASE account # None
  <2>1. account \in Rows /\ account # None
    BY <1>3 DEF AccountTypeOK
  <2>2. A!Goes(r, "done") /\ UNCHANGED <<env, proved, tokens>>
    BY <1>3 DEF A!UpdateUser
  <2>3. Moves(r, "done", request[r].held)
    BY <2>2, GoesMoves DEF RequestPC
  <2>4. CASE A!Becomes([account EXCEPT !.password = request[r].password, !.hashed = "raw", !.by = r])
    <3> DEFINE new == [account EXCEPT !.password = request[r].password, !.hashed = "raw", !.by = r]
    <3>fields. new \in Rows /\ new.by = r
      BY <1>1, <2>1 DEF Rows
    <3>becomes. A!Becomes(new)
      BY <2>4
    <3> HIDE DEF new
    <3>1. PICK raw \in Rows : raw = new /\ raw.by = r
      BY <3>fields
    <3>2. A!Becomes(raw)
      BY <3>becomes, <3>1
    <3>3. request'[r].kind = "update" /\ request'[r].pc = "done" /\ r # Old
      BY <1>1, <2>3 DEF Moves, Distinct
    <3>4. AccountRowInv(raw)' /\ Settled(raw)'
      BY <3>1, <3>3 DEF AccountRowInv, A!SetByOwner, Settled
    <3> QED
      BY <1>1, <2>2, <2>3, <3>2, <3>4, StatementStep
  <2>5. ASSUME NEW role \in Roles, A!Becomes([account EXCEPT !.role = role])
        PROVE  AccountInv'
    <3> DEFINE new == [account EXCEPT !.role = role]
    <3>fields. /\ new \in Rows /\ new.id = account.id /\ new.by = account.by
          /\ new.hashed = account.hashed
      BY <2>1 DEF Rows
    <3>becomes. A!Becomes(new)
      BY <2>5
    <3> HIDE DEF new
    <3>1. PICK row \in Rows : /\ row = new /\ row.id = account.id /\ row.by = account.by
                              /\ row.hashed = account.hashed
      BY <3>fields
    <3>2. A!Becomes(row)
      BY <3>becomes, <3>1
    <3>3. AccountRowInv(row)' /\ Settled(row)'
      BY <2>1, <2>3, <3>1, <3>2, SameHands DEF RowsInv
    <3> QED
      BY <1>1, <2>2, <2>3, <3>1, <3>2, <3>3, StatementStep
  <2> QED
    BY <1>3, <2>4, <2>5 DEF A!UpdateUser, Roles
<1> QED
  BY <1>2, <1>3

LEMMA RemoveStep ==
    ASSUME Distinct, AccountInv, NEW r \in Requests, A!RemoveUser(r)
    PROVE  AccountInv'
<1> USE DEF AccountInv
<1>1. ~A!Ended(r) /\ request[r].kind = "remove"
  BY DEF A!RemoveUser, A!Ended
<1>2. CASE A!Fails(r)
  BY <1>1, <1>2, FailStep
<1>3. CASE A!Becomes(None) /\ A!Goes(r, "done") /\ UNCHANGED <<env, proved, tokens>>
  <2>1. Moves(r, "done", request[r].held)
    BY <1>3, GoesMoves DEF RequestPC
  <2>2. AccountRowInv(None)' /\ Settled(None)'
    BY DEF AccountRowInv, Settled
  <2> QED
    BY <1>1, <1>3, <2>1, <2>2, StatementStep
<1> QED
  BY <1>2, <1>3 DEF A!RemoveUser

-----------------------------------------------------------------------------
LEMMA InitInv == Distinct /\ A!Init => AccountInv
<1> SUFFICES ASSUME Distinct, A!Init PROVE AccountInv
  OBVIOUS
<1> DEFINE idle == [pc |-> "idle", kind |-> None, password |-> None, held |-> None]
<1>1. idle \in RequestLocals
  BY DEF RequestLocals, RequestPC
<1>2. /\ env \in Settings /\ proved = FALSE /\ tokens = {}
      /\ request = [r \in Requests |-> idle] /\ seen = [r \in Requests |-> {}]
  BY DEF A!Init
<1>3. account # None => account \in Rows /\ account.by = Old /\ account.hashed = "peppered"
  <2> SUFFICES ASSUME account # None
               PROVE  account \in Rows /\ account.by = Old /\ account.hashed = "peppered"
    OBVIOUS
  <2>1. PICK p \in Passwords, v \in BOOLEAN : account = A!Row(Old, p, "peppered", v, "CLIENT")
    BY DEF A!Init
  <2> QED
    BY <2>1, RowFields DEF Roles
<1>4. AccountTypeOK
  BY <1>1, <1>2, <1>3 DEF AccountTypeOK
<1>5. PathInv /\ SeenInv
  BY <1>2 DEF PathInv, Path, SeenInv, A!Ended
<1>6. RowsInv /\ Settled(account)
  BY <1>2, <1>3 DEF RowsInv, AccountRowInv, Settled, Distinct
<1>7. \A r \in Requests : Answers(r)
  BY <1>2 DEF Answers
<1> QED
  BY <1>4, <1>5, <1>6, <1>7 DEF AccountInv

LEMMA NextInv == Distinct /\ AccountInv /\ [A!Next]_A!vars => AccountInv'
<1> SUFFICES ASSUME Distinct, AccountInv, [A!Next]_A!vars PROVE AccountInv'
  OBVIOUS
<1>1. ASSUME NEW r \in Requests,
             \/ A!Ask(r) \/ A!VerifyCode(r) \/ A!AssertToken(r) \/ A!Read(r)
             \/ A!SignUp(r) \/ A!SignIn(r) \/ A!Login(r) \/ A!Register(r) \/ A!OAuth(r) \/ A!VerifyOtp(r)
             \/ A!Create(r) \/ A!Overwrite(r) \/ A!Confirm(r) \/ A!SaveToken(r)
             \/ A!UpdateUser(r) \/ A!RemoveUser(r) \/ A!Stop(r)
      PROVE  AccountInv'
  BY <1>1, AskStep, CodeSteps, ReadStep, DecideSteps, SignSteps, CreateStep, OverwriteStep,
     ConfirmStep, SaveStep, UpdateStep, RemoveStep, FailStep DEF A!Stop
<1>2. CASE UNCHANGED A!vars
  BY <1>2 DEF A!vars, AccountInv, AccountTypeOK, PathInv, SeenInv, RowsInv, AccountRowInv, A!SetByOwner, Answers, Settled,
              A!Ended
<1> QED
  BY <1>1, <1>2 DEF A!Next

LEMMA AccountInvariance == Distinct => (A!Spec => []AccountInv)
<1> SUFFICES ASSUME Distinct PROVE A!Spec => []AccountInv
  OBVIOUS
<1>1. A!Init => AccountInv
  BY InitInv
<1>2. AccountInv /\ [A!Next]_A!vars => AccountInv'
  BY NextInv
<1> QED
  BY <1>1, <1>2, PTL DEF A!Spec

\* Types, for every number of requests, every password and every setting.
THEOREM AccountTypeCorrect == Distinct => (A!Spec => []AccountTypeOK)
<1> SUFFICES ASSUME Distinct PROVE A!Spec => []AccountTypeOK
  OBVIOUS
<1>1. AccountInv => AccountTypeOK
  BY DEF AccountInv
<1> QED
  BY <1>1, AccountInvariance, PTL

\* Whom a sign-in or login let in gave the password the account had at a moment
\* at which the request was served, and whom it refused had not one that a
\* sign-up or a registration set: what is compared is a row read meanwhile, and
\* those two store what verifyPassword accepts.
THEOREM AnswersInTime == Distinct => (A!Spec => []AnswersOfItsTime)
<1> SUFFICES ASSUME Distinct PROVE A!Spec => []AnswersOfItsTime
  OBVIOUS
<1>1. AccountInv => AnswersOfItsTime
  BY DEF AccountInv, Answers, AnswersOfItsTime, A!AnswersOfItsTime
<1> QED
  BY <1>1, AccountInvariance, PTL

\* A registration took an account over only if that account was there while it
\* was served and not verified: it writes by the identifier of a row that it
\* read unverified.
THEOREM VerifiedStays == Distinct => (A!Spec => []VerifiedIsSettled)
<1> SUFFICES ASSUME Distinct PROVE A!Spec => []VerifiedIsSettled
  OBVIOUS
<1>1. AccountInv => VerifiedIsSettled
  BY DEF AccountInv, Settled, VerifiedIsSettled, A!VerifiedIsSettled
<1> QED
  BY <1>1, AccountInvariance, PTL
=============================================================================
