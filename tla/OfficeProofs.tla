---------------------------- MODULE OfficeProofs ----------------------------
(***************************************************************************)
(* Proofs about Office for any number of requests, users, streams and      *)
(* rows: type correctness, that pictures and cover are of one plan, that   *)
(* the logs and what happened agree, that an owner's route touches only    *)
(* her own listing as long as it does not change hands, and that streams   *)
(* hear what was stored for them.  And about Keeping, in the second half:  *)
(* what is told to be kept is kept.                                        *)
(***************************************************************************)
EXTENDS Desk, FiniteSetTheorems, TLAPS

Owns == {"updateOwned", "removeOwned"}
Removes == {"remove", "removeOwned"}
Rooms == {"LIVING", "KITCHEN", "BATHROOM", "BEDROOM", "EXTERIOR", "BALCONY", "DINING"}
Stages == {"idle", "own", "find", "write", "record", "owner", "store", "push",
           "trace", "line", "done", "untraced", "failed"}
Logged == {"list", "update", "updateOwned", "remove", "removeOwned", "regenerate"}

\* What a request carries depends on its statement: StageOK.
RequestOK(q) ==
    /\ q = [pc |-> q.pc, does |-> q.does, by |-> q.by, on |-> q.on, with |-> q.with,
            hands |-> q.hands]
    /\ q.pc \in Stages /\ q.on \in Ids /\ q.hands \in Nat
    /\ q.pc # "idle" => q.does \in Kinds /\ q.by \in Users

RequestsOK ==
    /\ request = [r \in Requests |-> request[r]]
    /\ \A r \in Requests : RequestOK(request[r])

TablesOK ==
    /\ property \in [Ids -> Listing \cup {None, Gone}]
    /\ images \in [Ids -> SUBSET [by : Requests, order : Nat, room : Rooms]]
    /\ opsLog \subseteq [by : Requests, does : Kinds, on : Ids]
    /\ appointment \in [Ids -> Appointed \cup {None, Gone}]
    /\ ticket \in [Ids -> Ticketed \cup {None, Gone}]
    /\ ticketLog \subseteq [by : Requests, ticket : Ids]
    /\ notification \subseteq
          [by : Requests, user : Users, read : BOOLEAN, due : SUBSET Streams]
    /\ stream \in [Streams -> Connected \cup {None}]

TypeOK == TablesOK /\ RequestsOK

\* Which statements a kind of request has, and what it carries there.
StageOK(q) ==
    /\ q.pc = "own" => q.does \in Owns
    /\ q.pc = "find" => q.does = "regenerate"
    /\ q.pc \in {"own", "write"} /\ q.does \in {"list", "update", "updateOwned"} => q.with \in Form
    /\ q.pc = "write" /\ q.does = "list" => q.with.type \in Types
    /\ q.pc = "write" /\ q.does = "update" => q.with.connect = None
    /\ q.pc = "write" /\ q.does = "status" => q.with \in TicketForm
    /\ q.pc = "record" => q.does \in {"list", "update"} \cup Owns \cup Removes
    /\ q.pc = "owner" => q.does = "book"
    /\ q.pc \in {"store", "push"} => q.does \in {"list", "book", "decide"} /\ q.with \in Users
    /\ q.pc \in {"trace", "line"} => q.does \in {"ticket", "status"}
StageInv == \A r \in Requests : StageOK(request[r])

\* A listing whose owner was looked up has that owner for as long as it is
\* there and did not change hands; one that was written to was there, and a
\* removed one is gone.
ListingOK(q) ==
    /\ q.does \in Owns /\ q.pc = "write" =>
          /\ property[q.on] # None
          /\ property[q.on] # Gone =>
                /\ q.hands <= property[q.on].hands
                /\ property[q.on].hands = q.hands => property[q.on].owner = q.by
    /\ q.pc = "record" => property[q.on] # None /\ (q.does \in Removes => property[q.on] = Gone)
ListingInv == \A r \in Requests : ListingOK(request[r])

\* Request r is one of these kinds, and its statement about listing i was made.
Came(r, kinds, i) ==
    /\ request[r].does \in kinds /\ request[r].on = i
    /\ request[r].pc \in {"record", "store", "push", "done", "failed"}
\* Request r is past the statement that logs it.
PastLog(r) == request[r].does \in Logged /\ request[r].pc \in {"store", "push", "done"}
LogInv ==
    /\ \A l \in opsLog : property[l.on] # None /\ (l.does \in Removes => property[l.on] = Gone)
    /\ \A i \in Ids : property[i] = Gone => \E r \in Requests : Came(r, Removes, i)
    /\ \A i \in Ids : property[i] # None => i = 1 \/ \E r \in Requests : Came(r, {"list"}, i)
    /\ \A r \in Requests : PastLog(r) => Line(r) \in opsLog

TicketOK(r, q) ==
    q.does \in {"ticket", "status"} /\ q.pc \in {"trace", "line", "done"} =>
        /\ ticket[q.on] # None
        /\ q.pc = "done" /\ ticket[q.on] # Gone => [by |-> r, ticket |-> q.on] \in ticketLog
\* A line is of a ticket that is there and of a request that has changed it.
LineInv ==
    \A l \in ticketLog :
        /\ ticket[l.ticket] # None /\ ticket[l.ticket] # Gone
        /\ request[l.by].does \in {"ticket", "status"}
        /\ request[l.by].pc = "done" /\ request[l.by].on = l.ticket
TicketInv == LineInv /\ \A r \in Requests : TicketOK(r, request[r])

PictureInv ==
    /\ Pictured
    /\ \A i \in Ids : \A x \in images[i] : request[x.by].pc = "done"

\* The streams that are open are the listed ones; a notification is due to
\* streams of its user, and who pushes has stored it.
StreamInv ==
    /\ \A s \in Streams : stream[s] # None => stream[s].open = stream[s].listed
    /\ \A n \in notification :
          /\ request[n.by].pc \in {"push", "done", "failed"}
          /\ request[n.by].pc = "push" => n.user = request[n.by].with
          /\ \A s \in n.due : stream[s] # None /\ stream[s].user = n.user
    /\ \A r \in Requests : request[r].pc = "push" =>
          \E n \in notification : n.by = r /\ n.user = request[r].with

\* The inductive invariant.
IInv ==
    /\ TypeOK /\ StageInv /\ ListingInv /\ LogInv /\ TicketInv
    /\ PictureInv /\ StreamInv /\ StreamsHear

-----------------------------------------------------------------------------
(* What a statement does to the request that makes it.                     *)
Acts(r) ==
    /\ request[r].pc \notin {"done", "failed"}
    /\ \A s \in Requests \ {r} : request'[s] = request[s]

Moved(r, pc, on, with) ==
    request'[r] = [pc |-> pc, does |-> request[r].does, by |-> request[r].by,
                   on |-> on, with |-> with, hands |-> request[r].hands]

LEMMA Moving ==
    ASSUME RequestsOK, NEW r \in Requests, NEW pc \in Stages \ {"idle"}, NEW on \in Ids, NEW with,
           request[r].pc \notin {"idle", "done", "failed"},
           request' = [request EXCEPT ![r] =
               [pc |-> pc, does |-> request[r].does, by |-> request[r].by, on |-> on,
                with |-> with, hands |-> request[r].hands]]
    PROVE  Acts(r) /\ Moved(r, pc, on, with) /\ RequestsOK'
<1> DEFINE q == [pc |-> pc, does |-> request[r].does, by |-> request[r].by, on |-> on,
                 with |-> with, hands |-> request[r].hands]
<1>1. RequestOK(q)
  BY DEF RequestsOK, RequestOK
<1>2. request'[r] = q /\ \A s \in Requests \ {r} : request'[s] = request[s]
  BY DEF RequestsOK
<1>3. request' = [s \in Requests |-> request'[s]]
  BY DEF RequestsOK
<1>4. \A s \in Requests : RequestOK(request'[s])
  BY <1>1, <1>2 DEF RequestsOK
<1> QED
  BY <1>2, <1>3, <1>4 DEF Acts, Moved, RequestsOK, RequestOK

LEMMA GoesMoves ==
    ASSUME RequestsOK, NEW r \in Requests, NEW pc \in Stages \ {"idle"},
           request[r].pc \notin {"idle", "done", "failed"}, Goes(r, pc)
    PROVE  Acts(r) /\ Moved(r, pc, request[r].on, request[r].with) /\ RequestsOK'
<1>1. RequestOK(request[r]) /\ request = [s \in Requests |-> request[s]]
  BY DEF RequestsOK
<1>2. [request[r] EXCEPT !.pc = pc] =
          [pc |-> pc, does |-> request[r].does, by |-> request[r].by,
           on |-> request[r].on, with |-> request[r].with, hands |-> request[r].hands]
  BY <1>1 DEF RequestOK
<1>3. request[r].on \in Ids
  BY <1>1 DEF RequestOK
<1> QED
  BY <1>1, <1>2, <1>3, Moving DEF Goes

LEMMA GivesMoves ==
    ASSUME RequestsOK, NEW r \in Requests, NEW pc \in Stages \ {"idle"}, NEW with,
           request[r].pc \notin {"idle", "done", "failed"},
           request' = [request EXCEPT ![r].pc = pc, ![r].with = with]
    PROVE  Acts(r) /\ Moved(r, pc, request[r].on, with) /\ RequestsOK'
<1>1. RequestOK(request[r]) /\ request = [s \in Requests |-> request[s]]
  BY DEF RequestsOK
<1> DEFINE q == [request[r] EXCEPT !.pc = pc]
<1>0. q =
          [pc |-> pc, does |-> request[r].does, by |-> request[r].by,
           on |-> request[r].on, with |-> request[r].with, hands |-> request[r].hands]
  BY <1>1 DEF RequestOK
<1> HIDE DEF q
<1>2. [q EXCEPT !.with = with] =
          [pc |-> pc, does |-> request[r].does, by |-> request[r].by,
           on |-> request[r].on, with |-> with, hands |-> request[r].hands]
  BY <1>0
<1>3. request[r].on \in Ids
  BY <1>1 DEF RequestOK
<1>4. request' = [request EXCEPT ![r] = [q EXCEPT !.with = with]]
  BY <1>1 DEF q
<1>5. request' = [request EXCEPT ![r] =
          [pc |-> pc, does |-> request[r].does, by |-> request[r].by,
           on |-> request[r].on, with |-> with, hands |-> request[r].hands]]
  BY <1>2, <1>4
<1> QED
  BY <1>3, <1>5, Moving

LEMMA FindsMoves ==
    ASSUME RequestsOK, NEW r \in Requests, NEW pc \in Stages \ {"idle"}, NEW on \in Ids,
           request[r].pc \notin {"idle", "done", "failed"},
           request' = [request EXCEPT ![r].pc = pc, ![r].on = on]
    PROVE  Acts(r) /\ Moved(r, pc, on, request[r].with) /\ RequestsOK'
<1>1. RequestOK(request[r]) /\ request = [s \in Requests |-> request[s]]
  BY DEF RequestsOK
<1> DEFINE q == [request[r] EXCEPT !.pc = pc]
<1>0. q =
          [pc |-> pc, does |-> request[r].does, by |-> request[r].by,
           on |-> request[r].on, with |-> request[r].with, hands |-> request[r].hands]
  BY <1>1 DEF RequestOK
<1> HIDE DEF q
<1>2. [q EXCEPT !.on = on] =
          [pc |-> pc, does |-> request[r].does, by |-> request[r].by,
           on |-> on, with |-> request[r].with, hands |-> request[r].hands]
  BY <1>0
<1>3. request' = [request EXCEPT ![r] = [q EXCEPT !.on = on]]
  BY <1>1 DEF q
<1>4. request' = [request EXCEPT ![r] =
          [pc |-> pc, does |-> request[r].does, by |-> request[r].by,
           on |-> on, with |-> request[r].with, hands |-> request[r].hands]]
  BY <1>2, <1>3
<1> QED
  BY <1>4, Moving

-----------------------------------------------------------------------------
(* What leaves an invariant alone.                                         *)
LEMMA StageFrame ==
    ASSUME StageInv, NEW r \in Requests, Acts(r), StageOK(request[r])'
    PROVE  StageInv'
BY DEF StageInv, Acts

\* No listing comes back, and one that is there has the same owner unless it
\* changed hands once more.
PropertyKept ==
    \A i \in Ids : property[i] # None =>
        /\ property'[i] # None
        /\ property[i] = Gone => property'[i] = Gone
        /\ property'[i] # Gone =>
              /\ property[i].hands \in Nat /\ property'[i].hands \in Nat
              /\ property[i].hands <= property'[i].hands
              /\ property'[i].hands = property[i].hands => property'[i].owner = property[i].owner

LEMMA ListingRows ==
    ASSUME TypeOK, NEW i \in Ids
    PROVE  /\ DOMAIN property = Ids
           /\ There(property, i) <=> property[i] \in Listing
           /\ property[i] \in Listing \/ property[i] = None \/ property[i] = Gone
BY OfficeAssumption DEF TypeOK, TablesOK, There

LEMMA SameListings == ASSUME TypeOK, property' = property PROVE PropertyKept
<1> SUFFICES ASSUME NEW i \in Ids, property[i] # None, property[i] # Gone
             PROVE  property[i].hands \in Nat
  BY DEF PropertyKept
<1> QED
  BY ListingRows DEF Listing

LEMMA ListingFrame ==
    ASSUME RequestsOK, ListingInv, PropertyKept, NEW r \in Requests, Acts(r), ListingOK(request[r])'
    PROVE  ListingInv'
BY DEF RequestsOK, RequestOK, ListingInv, ListingOK, PropertyKept, Acts

\* From its log on a request stays with its listing to the end.
Advances(r) ==
    request[r].pc \in {"record", "store", "push"} =>
        /\ request'[r].does = request[r].does /\ request'[r].on = request[r].on
        /\ request'[r].pc \in {"store", "push", "done", "failed"}

LEMMA CameKept ==
    ASSUME NEW r \in Requests, Acts(r), Advances(r),
           NEW s \in Requests, NEW kinds, NEW i, Came(s, kinds, i)
    PROVE  Came(s, kinds, i)'
BY DEF Came, Acts, Advances

LEMMA LogFrame ==
    ASSUME TypeOK, LogInv, PropertyKept, NEW r \in Requests, Acts(r), Advances(r),
           opsLog \subseteq opsLog',
           \A l \in opsLog' \ opsLog :
               property'[l.on] # None /\ (l.does \in Removes => property'[l.on] = Gone),
           \A i \in Ids : property'[i] = Gone => property[i] = Gone \/ Came(r, Removes, i)',
           \A i \in Ids : property'[i] # None => property[i] # None \/ Came(r, {"list"}, i)',
           PastLog(r)' => Line(r)' \in opsLog'
    PROVE  LogInv'
<1>1. \A l \in opsLog : l.on \in Ids
  BY DEF TypeOK, TablesOK
<1>2. \A l \in opsLog' : property'[l.on] # None /\ (l.does \in Removes => property'[l.on] = Gone)
  BY <1>1 DEF LogInv, PropertyKept
<1>3. \A i \in Ids : property'[i] = Gone => \E s \in Requests : Came(s, Removes, i)'
  BY CameKept DEF LogInv
<1>4. \A i \in Ids : property'[i] # None => i = 1 \/ \E s \in Requests : Came(s, {"list"}, i)'
  BY CameKept DEF LogInv
<1>5. ASSUME NEW s \in Requests, PastLog(s)' PROVE Line(s)' \in opsLog'
  <2>1. CASE s = r
    BY <1>5, <2>1
  <2>2. CASE s # r
    BY <1>5, <2>2 DEF LogInv, PastLog, Line, Acts
  <2> QED
    BY <2>1, <2>2
<1> QED
  BY <1>2, <1>3, <1>4, <1>5 DEF LogInv

\* A request that neither writes to a listing nor logs.
LEMMA LogQuiet ==
    ASSUME TypeOK, LogInv, UNCHANGED <<property, opsLog>>, NEW r \in Requests, Acts(r),
           Advances(r), PastLog(r)' => request[r].pc \in {"store", "push"}
    PROVE  LogInv'
<1>1. PropertyKept
  BY SameListings
<1>2. PastLog(r)' => Line(r)' \in opsLog'
  BY DEF LogInv, PastLog, Line, Advances
<1> QED
  BY <1>1, <1>2, LogFrame

LEMMA TicketFrame ==
    ASSUME TypeOK, TicketInv, UNCHANGED <<ticket, ticketLog>>,
           NEW r \in Requests, Acts(r), TicketOK(r, request[r])'
    PROVE  TicketInv'
<1>1. \A l \in ticketLog : request'[l.by] = request[l.by]
  BY DEF TypeOK, TablesOK, TicketInv, LineInv, Acts
<1>2. LineInv'
  BY <1>1 DEF TicketInv, LineInv
<1>3. \A s \in Requests : TicketOK(s, request[s])'
  BY DEF TicketInv, TicketOK, Acts
<1> QED
  BY <1>2, <1>3 DEF TicketInv

LEMMA PictureFrame ==
    ASSUME TypeOK, PictureInv, images' = images, opsLog \subseteq opsLog',
           \A i \in Ids : There(property, i) => There(property, i)',
           \A i \in Ids : There(property, i)' /\ property'[i].image \in Requests =>
               There(property, i) /\ property[i].image = property'[i].image,
           NEW r \in Requests, Acts(r)
    PROVE  PictureInv'
<1>1. ASSUME NEW i \in Ids, NEW x \in images[i]
      PROVE  x.by \in Requests \ {r} /\ request'[x.by] = request[x.by]
  BY <1>1 DEF TypeOK, TablesOK, PictureInv, Acts
<1>2. \A i \in Ids : \A x \in images'[i] : request'[x.by].pc = "done"
  BY <1>1 DEF PictureInv
<1>3. \A i \in Ids : Drawn(i)' = Drawn(i)
  BY DEF Drawn
<1>4. \A i \in Ids : \A s \in Drawn(i) : Line(s)' = Line(s) /\ request'[s].on = request[s].on
  BY <1>1 DEF Drawn, Line
<1>5. Pictured'
  BY <1>3, <1>4 DEF PictureInv, Pictured, OnePlan
<1> QED
  BY <1>2, <1>5 DEF PictureInv

LEMMA StreamFrame ==
    ASSUME TypeOK, StreamInv, StreamsHear, UNCHANGED <<notification, stream>>,
           NEW r \in Requests, Acts(r), request'[r].pc # "push",
           request[r].pc = "push" => request'[r].pc = "failed"
    PROVE  StreamInv' /\ StreamsHear'
<1>1. ASSUME NEW n \in notification
      PROVE  /\ n.by \in Requests
             /\ n.by = r => request[r].pc = "push" /\ request'[r].pc = "failed"
             /\ n.by # r => request'[n.by] = request[n.by]
  BY <1>1 DEF TypeOK, TablesOK, StreamInv, Acts
<1>2. StreamInv'
  BY <1>1 DEF StreamInv, Acts
<1>3. StreamsHear'
  BY <1>1 DEF StreamsHear
<1> QED
  BY <1>2, <1>3

\* A request that only moves on keeps the invariant if it may be where it goes.
LEMMA QuietStep ==
    ASSUME IInv, NEW r \in Requests, Acts(r), UNCHANGED <<tables, stream>>, RequestsOK',
           StageOK(request[r])', ListingOK(request[r])', TicketOK(r, request[r])',
           Advances(r), PastLog(r)' => request[r].pc \in {"store", "push"},
           request'[r].pc # "push", request[r].pc = "push" => request'[r].pc = "failed"
    PROVE  IInv'
<1> USE DEF IInv
<1>1. TypeOK'
  BY DEF TypeOK, TablesOK, tables
<1>2. PropertyKept
  BY SameListings DEF tables
<1>3. StageInv'
  BY StageFrame
<1>4. ListingInv'
  BY <1>2, ListingFrame DEF TypeOK
<1>5. LogInv'
  BY LogQuiet DEF tables
<1>6. TicketInv'
  BY TicketFrame DEF tables
<1>7. PictureInv'
  BY PictureFrame DEF tables, There
<1>8. StreamInv' /\ StreamsHear'
  BY StreamFrame DEF tables
<1> QED
  BY <1>1, <1>3, <1>4, <1>5, <1>6, <1>7, <1>8

LEMMA FailStep ==
    ASSUME IInv, NEW r \in Requests, request[r].pc \notin {"idle", "done", "failed"}, Fails(r)
    PROVE  IInv'
<1>1. Acts(r) /\ Moved(r, "failed", request[r].on, request[r].with) /\ RequestsOK'
  BY GoesMoves DEF IInv, TypeOK, Fails, Stages
<1>2. StageOK(request[r])' /\ ListingOK(request[r])' /\ TicketOK(r, request[r])'
  BY <1>1 DEF Moved, StageOK, ListingOK, TicketOK
<1> QED
  BY <1>1, <1>2, QuietStep DEF Moved, Fails, Advances, PastLog

-----------------------------------------------------------------------------
(* The statements that only read, or fail.                                 *)
LEMMA AskStep == ASSUME IInv, NEW r \in Requests, Ask(r) PROVE IInv'
<1> USE DEF IInv, TypeOK
<1>1. PICK op \in Operations :
        request' = [request EXCEPT ![r] =
            [pc |-> CASE op.does \in {"updateOwned", "removeOwned"} -> "own"
                      [] op.does = "regenerate" -> "find"
                      [] OTHER -> "write",
             does |-> op.does, by |-> op.by, on |-> op.on, with |-> MapType(op), hands |-> 0]]
  BY DEF Ask
<1> DEFINE pc == CASE op.does \in {"updateOwned", "removeOwned"} -> "own"
                   [] op.does = "regenerate" -> "find"
                   [] OTHER -> "write"
           q == [pc |-> pc, does |-> op.does, by |-> op.by, on |-> op.on, with |-> MapType(op),
                 hands |-> 0]
<1>2. /\ op.does \in Kinds /\ op.by \in Users /\ op.on \in Ids
      /\ op.does \in {"list", "update", "updateOwned"} => op.with \in Form
      /\ op.does = "status" => op.with \in TicketForm
  BY OfficeAssumption
<1>3. /\ pc \in {"own", "find", "write"}
      /\ pc = "own" <=> op.does \in Owns
      /\ pc = "find" <=> op.does = "regenerate"
  BY DEF Owns
<1>4. /\ op.does \in {"list", "update", "updateOwned"} => MapType(op) \in Form
      /\ op.does = "list" => MapType(op).type \in Types
      /\ op.does = "update" => MapType(op).connect = None
      /\ op.does = "status" => MapType(op) = op.with
  BY <1>2 DEF MapType, Form, Types
<1>5. request' = [request EXCEPT ![r] = q]
  BY <1>1
<1> HIDE DEF pc
<1>6. RequestOK(q)
  BY <1>2, <1>3 DEF RequestOK, Stages
<1>7. request[r].pc = "idle" /\ UNCHANGED <<tables, stream>>
  BY DEF Ask
<1>8. request'[r] = q /\ \A s \in Requests \ {r} : request'[s] = request[s]
  BY <1>5 DEF RequestsOK
<1>9. request' = [s \in Requests |-> request'[s]]
  BY <1>5 DEF RequestsOK
<1>10. RequestsOK'
  BY <1>6, <1>8, <1>9 DEF RequestsOK, RequestOK
<1>11. Acts(r)
  BY <1>7, <1>8 DEF Acts
<1>12. StageOK(q)
  BY <1>2, <1>3, <1>4 DEF StageOK
<1>13. StageOK(request[r])'
  BY <1>8, <1>12 DEF StageOK
<1>14. ListingOK(request[r])' /\ TicketOK(r, request[r])'
  BY <1>3, <1>8 DEF ListingOK, TicketOK
<1> QED
  BY <1>3, <1>7, <1>8, <1>10, <1>11, <1>13, <1>14, QuietStep DEF Advances, PastLog

OwnMoved(r, hands) ==
    request'[r] = [pc |-> "write", does |-> request[r].does, by |-> request[r].by,
                   on |-> request[r].on, with |-> request[r].with, hands |-> hands]
LEMMA OwnMoves ==
    ASSUME RequestsOK, NEW r \in Requests, request[r].pc = "own", NEW hands \in Nat,
           request' = [request EXCEPT ![r].pc = "write", ![r].hands = hands]
    PROVE  Acts(r) /\ OwnMoved(r, hands) /\ RequestsOK'
<1> DEFINE q == [request[r] EXCEPT !.pc = "write"]
           p == [pc |-> "write", does |-> request[r].does, by |-> request[r].by,
                 on |-> request[r].on, with |-> request[r].with, hands |-> hands]
<1>1. RequestOK(request[r]) /\ request = [s \in Requests |-> request[s]]
  BY DEF RequestsOK
<1>2. q = [pc |-> "write", does |-> request[r].does, by |-> request[r].by,
           on |-> request[r].on, with |-> request[r].with, hands |-> request[r].hands]
  BY <1>1 DEF RequestOK
<1>3. request' = [request EXCEPT ![r] = [q EXCEPT !.hands = hands]]
  BY <1>1
<1> HIDE DEF q
<1>4. [q EXCEPT !.hands = hands] = p
  BY <1>2
<1>5. RequestOK(p)
  BY <1>1 DEF RequestOK, Stages
<1>6. request'[r] = p /\ \A s \in Requests \ {r} : request'[s] = request[s]
  BY <1>1, <1>3, <1>4
<1>7. request' = [s \in Requests |-> request'[s]]
  BY <1>1, <1>3
<1>8. \A s \in Requests : RequestOK(request'[s])
  BY <1>5, <1>6 DEF RequestsOK
<1> QED
  BY <1>6, <1>7, <1>8 DEF Acts, OwnMoved, RequestsOK, RequestOK

LEMMA OwnStep == ASSUME IInv, NEW r \in Requests, Own(r) PROVE IInv'
<1> USE DEF IInv, TypeOK
<1> DEFINE on == request[r].on
           may == There(property, on) /\ property[on].owner = request[r].by
<1>1. request[r].pc = "own" /\ UNCHANGED <<tables, stream>>
  BY DEF Own
<1>2. CASE ~may
  BY <1>1, <1>2, FailStep DEF Own, Fails
<1>3. CASE may
  <2>0. PICK hands : hands = property[on].hands
    OBVIOUS
  <2>1. request' = [request EXCEPT ![r].pc = "write", ![r].hands = hands] /\ hands \in Nat
    BY <1>3, <2>0, ListingRows DEF Own, RequestsOK, RequestOK, Listing
  <2>2. Acts(r) /\ OwnMoved(r, hands) /\ RequestsOK'
    BY <1>1, <2>1, OwnMoves
  <2>3. StageOK(request[r])
    BY DEF StageInv
  <2>4. StageOK(request[r])'
    BY <1>1, <2>2, <2>3 DEF OwnMoved, StageOK, Owns
  <2>5. ListingOK(request[r])' /\ TicketOK(r, request[r])'
    BY <1>1, <1>3, <2>0, <2>1, <2>2 DEF OwnMoved, ListingOK, TicketOK, There, tables
  <2> QED
    BY <1>1, <2>2, <2>4, <2>5, QuietStep DEF OwnMoved, Advances, PastLog
<1> QED
  BY <1>2, <1>3

LEMMA FindTypeStep == ASSUME IInv, NEW r \in Requests, FindType(r) PROVE IInv'
<1> USE DEF IInv, TypeOK
<1> DEFINE type == property[request[r].on].type
<1>1. request[r].does = "regenerate" /\ request[r].pc = "find" /\ UNCHANGED <<tables, stream>>
  BY DEF FindType, Asking
<1>2. CASE ~There(property, request[r].on)
  BY <1>1, <1>2, FailStep DEF FindType, Fails
<1>3. CASE There(property, request[r].on)
  <2>1. Acts(r) /\ Moved(r, "write", request[r].on, type) /\ RequestsOK'
    BY <1>1, <1>3, GivesMoves DEF FindType, Stages
  <2>2. StageOK(request[r])' /\ ListingOK(request[r])' /\ TicketOK(r, request[r])'
    BY <1>1, <2>1 DEF Moved, StageOK, ListingOK, TicketOK, Owns
  <2> QED
    BY <1>1, <2>1, <2>2, QuietStep DEF Moved, Advances, PastLog, Logged
<1> QED
  BY <1>2, <1>3

LEMMA FindOwnerStep == ASSUME IInv, NEW r \in Requests, FindOwner(r) PROVE IInv'
<1> USE DEF IInv, TypeOK
<1> DEFINE owner == property[request[r].on].owner
<1>1. request[r].pc = "owner" /\ request[r].does = "book" /\ UNCHANGED <<tables, stream>>
  BY DEF FindOwner, StageInv, StageOK
<1>2. CASE ~There(property, request[r].on)
  <2>1. Acts(r) /\ Moved(r, "done", request[r].on, request[r].with) /\ RequestsOK'
    BY <1>1, <1>2, GoesMoves DEF FindOwner, Stages
  <2>2. StageOK(request[r])' /\ ListingOK(request[r])' /\ TicketOK(r, request[r])'
    BY <1>1, <2>1 DEF Moved, StageOK, ListingOK, TicketOK
  <2> QED
    BY <1>1, <2>1, <2>2, QuietStep DEF Moved, Advances, PastLog, Logged
<1>3. CASE There(property, request[r].on)
  <2>1. owner \in Users
    BY <1>3 DEF TablesOK, There, Listing
  <2>2. Acts(r) /\ Moved(r, "store", request[r].on, owner) /\ RequestsOK'
    BY <1>1, <1>3, GivesMoves DEF FindOwner, Stages
  <2>3. StageOK(request[r])' /\ ListingOK(request[r])' /\ TicketOK(r, request[r])'
    BY <1>1, <2>1, <2>2 DEF Moved, StageOK, ListingOK, TicketOK
  <2> QED
    BY <1>1, <2>2, <2>3, QuietStep DEF Moved, Advances, PastLog, Logged
<1> QED
  BY <1>2, <1>3

LEMMA UnstoredStep == ASSUME IInv, NEW r \in Requests, Unstored(r) PROVE IInv'
<1>1. /\ request[r].pc = "store" /\ request[r].does \in {"list", "book", "decide"}
      /\ UNCHANGED <<tables, stream>>
  BY DEF Unstored, IInv, StageInv, StageOK
<1>2. Acts(r) /\ Moved(r, "done", request[r].on, request[r].with) /\ RequestsOK'
  BY <1>1, GoesMoves DEF IInv, TypeOK, Unstored, Stages
<1>3. StageOK(request[r])' /\ ListingOK(request[r])' /\ TicketOK(r, request[r])'
  BY <1>1, <1>2 DEF Moved, StageOK, ListingOK, TicketOK
<1> QED
  BY <1>1, <1>2, <1>3, QuietStep DEF Moved, Advances, PastLog, Logged

LEMMA TraceStep == ASSUME IInv, NEW r \in Requests, Trace(r) PROVE IInv'
<1> USE DEF IInv, TypeOK
<1> DEFINE on == request[r].on
<1>1. /\ request[r].pc = "trace" /\ request[r].does \in {"ticket", "status"}
      /\ UNCHANGED <<tables, stream>>
  BY DEF Trace, StageInv, StageOK
<1>2. ticket[on] # None
  BY <1>1 DEF TicketInv, TicketOK
<1>3. Acts(r) /\ Moved(r, "line", on, request[r].with) /\ RequestsOK'
  BY <1>1, GoesMoves DEF Trace, Stages
<1>4. StageOK(request[r])' /\ ListingOK(request[r])'
  BY <1>1, <1>3 DEF Moved, StageOK, ListingOK
<1>5. TicketOK(r, request[r])'
  BY <1>1, <1>2, <1>3 DEF Moved, TicketOK, tables
<1> QED
  BY <1>1, <1>3, <1>4, <1>5, QuietStep DEF Moved, Advances, PastLog

\* A request whose line is lost ends, and claims no line.
LEMMA UntracedStep == ASSUME IInv, NEW r \in Requests, Untraced(r) PROVE IInv'
<1>1. /\ request[r].pc \in {"trace", "line"} /\ UNCHANGED <<tables, stream>>
  BY DEF Untraced
<1>2. Acts(r) /\ Moved(r, "untraced", request[r].on, request[r].with) /\ RequestsOK'
  BY <1>1, GoesMoves DEF IInv, TypeOK, Untraced, Stages
<1>3. StageOK(request[r])' /\ ListingOK(request[r])' /\ TicketOK(r, request[r])'
  BY <1>1, <1>2 DEF Moved, StageOK, ListingOK, TicketOK
<1> QED
  BY <1>1, <1>2, <1>3, QuietStep DEF Moved, Advances, PastLog

LEMMA StopStep == ASSUME IInv, NEW r \in Requests, Stop(r) PROVE IInv'
BY FailStep DEF Stop, Ended

-----------------------------------------------------------------------------
(* The listings.                                                           *)
LEMMA ListedStep ==
    ASSUME IInv, NEW r \in Requests, List(r), request[r].with.connect = None
    PROVE  IInv'
<1> USE DEF IInv, TypeOK
<1> DEFINE row == [owner |-> request[r].by, hands |-> 0, type |-> request[r].with.type,
                   image |-> request[r].with.image]
<1>1. /\ request[r].does = "list" /\ request[r].pc = "write"
      /\ UNCHANGED <<images, opsLog, appointment, ticket, ticketLog, notification, stream>>
  BY DEF List, Asking
<1>2. PICK i \in Ids :
        /\ property[i] = None
        /\ property' = [property EXCEPT ![i] = row]
        /\ request' = [request EXCEPT ![r].pc = "record", ![r].on = i]
  BY DEF List, NextId
<1>3. Acts(r) /\ Moved(r, "record", i, request[r].with) /\ RequestsOK'
  BY <1>1, <1>2, FindsMoves DEF Stages
<1>4. row \in Listing /\ row.image \notin Requests
  BY <1>1, OfficeAssumption DEF StageInv, StageOK, RequestsOK, RequestOK, Listing, Form
<1> HIDE DEF row
<1>5. property' \in [Ids -> Listing \cup {None, Gone}]
  BY <1>2, <1>4 DEF TablesOK
<1>6. property'[i] = row /\ \A j \in Ids \ {i} : property'[j] = property[j]
  BY <1>2 DEF TablesOK
<1>7. TypeOK'
  BY <1>1, <1>3, <1>5 DEF TablesOK
<1>8. row # None /\ row # Gone /\ row.image \notin Requests
  BY <1>4, OfficeAssumption
<1>9. PropertyKept /\ \A j \in Ids : property'[j] = Gone => property[j] = Gone
  <2>1. \A j \in Ids \ {i} : property'[j] = property[j] /\
            (property[j] # None /\ property[j] # Gone => property[j].hands \in Nat)
    BY <1>6, ListingRows DEF Listing
  <2> QED
    BY <1>2, <1>6, <1>8, <2>1 DEF PropertyKept
<1>10. StageOK(request[r])' /\ ListingOK(request[r])' /\ TicketOK(r, request[r])'
  BY <1>1, <1>3, <1>6, <1>8 DEF Moved, StageOK, ListingOK, TicketOK, Removes
<1>11. StageInv' /\ ListingInv'
  BY <1>3, <1>9, <1>10, StageFrame, ListingFrame
<1>12. LogInv' /\ TicketInv'
  <2>1. Advances(r) /\ ~PastLog(r)' /\ Came(r, {"list"}, i)'
    BY <1>1, <1>3 DEF Moved, Advances, PastLog, Came
  <2>2. \A j \in Ids : property'[j] # None => property[j] # None \/ Came(r, {"list"}, j)'
    BY <1>6, <2>1
  <2> QED
    BY <1>1, <1>3, <1>9, <1>10, <2>1, <2>2, LogFrame, TicketFrame
<1>13. /\ \A j \in Ids : There(property, j) => There(property, j)'
       /\ \A j \in Ids : There(property, j)' /\ property'[j].image \in Requests =>
             There(property, j) /\ property[j].image = property'[j].image
  BY <1>2, <1>5, <1>6, <1>8 DEF There, TablesOK
<1>14. PictureInv' /\ StreamInv' /\ StreamsHear'
  BY <1>1, <1>3, <1>13, PictureFrame, StreamFrame DEF Moved
<1> QED
  BY <1>7, <1>11, <1>12, <1>14

LEMMA ListStep == ASSUME IInv, NEW r \in Requests, List(r) PROVE IInv'
<1> USE DEF IInv, TypeOK
<1>1. CASE request[r].with.connect # None
  BY <1>1, FailStep DEF List, Asking
<1>2. CASE request[r].with.connect = None
  BY <1>2, ListedStep
<1> QED
  BY <1>1, <1>2

LEMMA UpdateStep == ASSUME IInv, NEW r \in Requests, Update(r) PROVE IInv'
<1> USE DEF IInv, TypeOK
<1> DEFINE i == request[r].on
           row == Payload(property[i], request[r].with)
<1>1. request[r].does \in {"update", "updateOwned"} /\ request[r].pc = "write" /\ i \in Ids
  BY DEF Update, RequestsOK, RequestOK
<1>2. CASE ~There(property, i)
  BY <1>1, <1>2, FailStep DEF Update
<1>3. CASE There(property, i)
  <2>1. /\ property' = [property EXCEPT ![i] = row]
        /\ UNCHANGED <<images, opsLog, appointment, ticket, ticketLog, notification, stream>>
    BY <1>3 DEF Update
  <2>2. Acts(r) /\ Moved(r, "record", i, request[r].with) /\ RequestsOK'
    BY <1>1, <1>3, GoesMoves DEF Update, Stages
  <2>3. property[i] \in Listing /\ request[r].with \in Form
    BY <1>1, <1>3, ListingRows DEF StageInv, StageOK
  <2>4. /\ row \in Listing /\ property[i].hands \in Nat /\ row.hands \in Nat
        /\ property[i].hands <= row.hands
        /\ row.hands = property[i].hands => row.owner = property[i].owner
        /\ row.image = property[i].image \/ row.image \in Uploads
    BY <2>3 DEF Payload, Listing, Form
  <2> HIDE DEF row
  <2>5. property' \in [Ids -> Listing \cup {None, Gone}]
    BY <2>1, <2>4 DEF TablesOK
  <2>6. property'[i] = row /\ \A j \in Ids \ {i} : property'[j] = property[j]
    BY <1>1, <2>1 DEF TablesOK
  <2>7. TypeOK'
    BY <2>1, <2>2, <2>5 DEF TablesOK
  <2>8. /\ row # None /\ row # Gone /\ property[i] # None /\ property[i] # Gone
        /\ row.image \in Requests => row.image = property[i].image
    BY <2>3, <2>4, OfficeAssumption
  <2>9. PropertyKept /\ \A j \in Ids : property'[j] = Gone => property[j] = Gone
    <3>1. \A j \in Ids \ {i} :
            property[j] # None /\ property[j] # Gone => property[j].hands \in Nat
      BY ListingRows DEF Listing
    <3> QED
      BY <2>4, <2>6, <2>8, <3>1 DEF PropertyKept
  <2>10. StageOK(request[r])' /\ ListingOK(request[r])' /\ TicketOK(r, request[r])'
    BY <1>1, <2>2, <2>6, <2>8 DEF Moved, StageOK, ListingOK, TicketOK, Removes, Owns
  <2>11. StageInv' /\ ListingInv'
    BY <2>2, <2>9, <2>10, StageFrame, ListingFrame
  <2>12. LogInv' /\ TicketInv'
    <3>1. Advances(r) /\ ~PastLog(r)'
      BY <1>1, <2>2 DEF Moved, Advances, PastLog
    <3>2. \A j \in Ids : property'[j] # None => property[j] # None
      BY <2>6, <2>8
    <3> QED
      BY <2>1, <2>2, <2>9, <2>10, <3>1, <3>2, LogFrame, TicketFrame
  <2>13. /\ \A j \in Ids : There(property, j) => There(property, j)'
         /\ \A j \in Ids : There(property, j)' /\ property'[j].image \in Requests =>
               There(property, j) /\ property[j].image = property'[j].image
    BY <2>5, <2>6, <2>8 DEF There, TablesOK
  <2>14. PictureInv'
    BY <2>1, <2>2, <2>13, PictureFrame
  <2>15. StreamInv' /\ StreamsHear'
    BY <1>1, <2>1, <2>2, StreamFrame DEF Moved
  <2> QED
    BY <2>7, <2>11, <2>12, <2>14, <2>15
<1> QED
  BY <1>2, <1>3

\* The one who removes a listing is the one who has yet to log it.
LEMMA RemoveStep == ASSUME IInv, NEW r \in Requests, Remove(r) PROVE IInv'
<1> USE DEF IInv, TypeOK
<1>0. PICK i \in Ids : i = request[r].on
  BY DEF RequestsOK, RequestOK
<1>1. request[r].does \in Removes /\ request[r].pc = "write" /\ request[r].on = i
  BY <1>0 DEF Remove, Removes
<1>2. CASE ~(There(property, i) /\ ~Held(i))
  BY <1>0, <1>1, <1>2, FailStep DEF Remove
<1>3. CASE There(property, i) /\ ~Held(i)
  <2>1. /\ property' = [property EXCEPT ![i] = Gone] /\ images' = [images EXCEPT ![i] = {}]
        /\ UNCHANGED <<opsLog, appointment, ticket, ticketLog, notification, stream>>
    BY <1>0, <1>3 DEF Remove
  <2>2. Acts(r) /\ Moved(r, "record", i, request[r].with) /\ RequestsOK'
    BY <1>0, <1>1, <1>3, GoesMoves DEF Remove, Stages
  <2>3. /\ property'[i] = Gone /\ images'[i] = {}
        /\ \A j \in Ids \ {i} : property'[j] = property[j] /\ images'[j] = images[j]
    BY <1>1, <2>1 DEF TablesOK
  <2>4. TypeOK'
    BY <1>1, <2>1, <2>2 DEF TablesOK
  <2>5. Gone # None
    BY OfficeAssumption
  <2>6. PropertyKept
    <3>1. \A j \in Ids \ {i} :
            property[j] # None /\ property[j] # Gone => property[j].hands \in Nat
      BY ListingRows DEF Listing
    <3> QED
      BY <2>3, <2>5, <3>1 DEF PropertyKept
  <2>7. StageOK(request[r])' /\ ListingOK(request[r])' /\ TicketOK(r, request[r])'
    BY <1>1, <2>2, <2>3, <2>5 DEF Moved, StageOK, ListingOK, TicketOK, Removes, Owns
  <2>8. StageInv' /\ ListingInv' /\ TicketInv'
    BY <2>1, <2>2, <2>6, <2>7, StageFrame, ListingFrame, TicketFrame
  <2>9. StreamInv' /\ StreamsHear'
    BY <1>1, <2>1, <2>2, StreamFrame DEF Moved
  <2>10. LogInv'
    <3>1. Advances(r) /\ ~PastLog(r)' /\ Came(r, Removes, i)'
      BY <1>1, <2>2 DEF Moved, Advances, PastLog, Came
    <3>2. property[i] # None
      BY <1>3 DEF There
    <3>3. /\ \A j \in Ids : property'[j] = Gone => property[j] = Gone \/ Came(r, Removes, j)'
          /\ \A j \in Ids : property'[j] # None => property[j] # None
      BY <2>3, <3>1, <3>2
    <3> QED
      BY <2>1, <2>2, <2>6, <3>1, <3>3, LogFrame
  <2>11. PictureInv'
    <3>1. ASSUME NEW j \in Ids, NEW x \in images[j]
          PROVE  x.by \in Requests \ {r} /\ request'[x.by] = request[x.by]
      BY <1>1, <2>2, <3>1 DEF TablesOK, PictureInv, Acts
    <3>2. \A j \in Ids : \A x \in images'[j] : request'[x.by].pc = "done"
      BY <2>3, <3>1 DEF PictureInv
    <3>3. \A j \in Ids \ {i} : Drawn(j)' = Drawn(j) /\ There(property, j)' = There(property, j)
      BY <2>1, <2>3 DEF Drawn, There, TablesOK
    <3>4. \A j \in Ids : \A s \in Drawn(j) : Line(s)' = Line(s) /\ request'[s].on = request[s].on
      BY <3>1 DEF Drawn, Line
    <3>5. Drawn(i)' = {} /\ ~There(property, i)' /\ {x.order : x \in images'[i]} = {}
      BY <2>3 DEF Drawn, There
    <3>6. Cardinality({}) = 0 /\ 1 .. 0 = {}
      BY FS_EmptySet
    <3>7. OnePlan(i)'
      BY <2>3, <3>5, <3>6 DEF OnePlan
    <3>8. ASSUME NEW j \in Ids \ {i} PROVE OnePlan(j)'
      <4>1. OnePlan(j)
        BY DEF PictureInv, Pictured
      <4>2. images'[j] = images[j] /\ property'[j] = property[j] /\ opsLog' = opsLog
        BY <2>1, <2>3
      <4>3. Drawn(j)' = Drawn(j) /\ There(property, j)' = There(property, j)
        BY <3>3
      <4>4. \A s \in Drawn(j) : Line(s)' = Line(s) /\ request'[s].on = request[s].on
        BY <3>4
      <4> QED
        BY <4>1, <4>2, <4>3, <4>4 DEF OnePlan
    <3>9. \A j \in Ids : OnePlan(j)'
      BY <3>7, <3>8
    <3> QED
      BY <3>2, <3>9 DEF PictureInv, Pictured
  <2> QED
    BY <2>4, <2>8, <2>9, <2>10, <2>11
<1> QED
  BY <1>2, <1>3

LEMMA RecordStep == ASSUME IInv, NEW r \in Requests, Record(r) PROVE IInv'
<1> USE DEF IInv, TypeOK
<1> DEFINE q == request[r]
           pc == IF q.does = "list" THEN "store" ELSE "done"
<1>1. /\ q.pc = "record" /\ q.does \in {"list", "update"} \cup Owns \cup Removes
      /\ q.on \in Ids /\ q.by \in Users /\ q.does \in Kinds
      /\ UNCHANGED <<property, images, appointment, ticket, ticketLog, notification, stream>>
  BY DEF Record, StageInv, StageOK, RequestsOK, RequestOK
<1>2. Acts(r) /\ Moved(r, pc, q.on, q.by) /\ RequestsOK'
  BY <1>1, GivesMoves DEF Record, Stages
<1>3. opsLog' = opsLog \cup {Line(r)} /\ Line(r) = [by |-> r, does |-> q.does, on |-> q.on]
  BY DEF Record, Line
<1>4. TypeOK'
  BY <1>1, <1>2, <1>3 DEF TablesOK
<1>5. PropertyKept
  BY <1>1, SameListings
<1>6. StageOK(request[r])' /\ ListingOK(request[r])' /\ TicketOK(r, request[r])'
  BY <1>1, <1>2 DEF Moved, StageOK, ListingOK, TicketOK, Removes, Owns
<1>7. StageInv' /\ ListingInv' /\ TicketInv'
  BY <1>1, <1>2, <1>5, <1>6, StageFrame, ListingFrame, TicketFrame
<1>8. PictureInv' /\ StreamInv' /\ StreamsHear'
  BY <1>1, <1>2, <1>3, PictureFrame, StreamFrame DEF Moved, There
<1>9. LogInv'
  <2>1. property[q.on] # None /\ (q.does \in Removes => property[q.on] = Gone)
    BY <1>1 DEF ListingInv, ListingOK
  <2>2. \A l \in opsLog' \ opsLog :
          property'[l.on] # None /\ (l.does \in Removes => property'[l.on] = Gone)
    BY <1>1, <1>3, <2>1
  <2>3. Advances(r) /\ Line(r)' \in opsLog'
    BY <1>1, <1>2, <1>3 DEF Moved, Advances, Line
  <2> QED
    BY <1>1, <1>2, <1>3, <1>5, <2>2, <2>3, LogFrame
<1> QED
  BY <1>4, <1>7, <1>8, <1>9

LEMMA PlanRooms ==
    ASSUME NEW draw, draw.bedrooms \in Nat, draw.bathrooms \in Nat
    PROVE  Plan(draw) \in Seq(Rooms) /\ Len(Plan(draw)) > 0
<1> DEFINE baths == [i \in 1 .. draw.bathrooms |-> "BATHROOM"]
           n == IF draw.bedrooms < 4 THEN draw.bedrooms ELSE 4
           beds == [i \in 1 .. n |-> "BEDROOM"]
           first == <<"LIVING", "LIVING", "KITCHEN">>
<1>1. first \in Seq(Rooms) /\ Len(first) = 3
  BY DEF Rooms
<1>2. "BATHROOM" \in Rooms /\ "BEDROOM" \in Rooms
  BY DEF Rooms
<1>3. baths \in Seq(Rooms)
  BY <1>2
<1>4. n \in Nat
  OBVIOUS
<1> HIDE DEF n
<1>5. beds \in Seq(Rooms)
  BY <1>2, <1>4
<1>6. \A room \in Rooms : Extra(room, draw) \in Seq(Rooms)
  BY DEF Extra
<1>7. {"EXTERIOR", "BALCONY", "DINING"} \subseteq Rooms
  BY DEF Rooms
<1>8. Plan(draw) = first \o baths \o beds
          \o Extra("EXTERIOR", draw) \o Extra("BALCONY", draw) \o Extra("DINING", draw)
  BY DEF Plan, n
<1> HIDE DEF first, baths, beds
<1>9. \A s, t \in Seq(Rooms) : s \o t \in Seq(Rooms) /\ Len(s \o t) = Len(s) + Len(t) /\ Len(t) \in Nat
  OBVIOUS
<1>10. /\ Extra("EXTERIOR", draw) \in Seq(Rooms)
       /\ Extra("BALCONY", draw) \in Seq(Rooms)
       /\ Extra("DINING", draw) \in Seq(Rooms)
  BY <1>6, <1>7
<1>11. first \o baths \in Seq(Rooms) /\ Len(first \o baths) >= 3
  <2>1. Len(baths) \in Nat
    BY <1>3
  <2>2. first \o baths \in Seq(Rooms)
    BY <1>1, <1>3
  <2>3. Len(first \o baths) = Len(first) + Len(baths)
    BY <1>1, <1>3, <1>9
  <2> QED
    BY <1>1, <2>1, <2>2, <2>3
<1>12. first \o baths \o beds \in Seq(Rooms) /\ Len(first \o baths \o beds) >= 3
  BY <1>5, <1>9, <1>11
<1> DEFINE whole == first \o baths \o beds
<1> HIDE DEF whole
<1>13. whole \in Seq(Rooms) /\ Len(whole) >= 3
  BY <1>12 DEF whole
<1>14. /\ whole \o Extra("EXTERIOR", draw) \in Seq(Rooms)
       /\ Len(whole \o Extra("EXTERIOR", draw)) >= 3
  BY <1>9, <1>10, <1>13
<1>15. /\ whole \o Extra("EXTERIOR", draw) \o Extra("BALCONY", draw) \in Seq(Rooms)
       /\ Len(whole \o Extra("EXTERIOR", draw) \o Extra("BALCONY", draw)) >= 3
  BY <1>9, <1>10, <1>14
<1> QED
  BY <1>8, <1>9, <1>10, <1>15 DEF whole

LEMMA PicturesOrdered ==
    ASSUME NEW r, NEW plan \in Seq(Rooms)
    PROVE  /\ Pictures(r, plan) \subseteq {[by |-> r, order |-> i, room |-> room] : i \in Nat, room \in Rooms}
           /\ {x.order : x \in Pictures(r, plan)} = 1 .. Len(plan)
           /\ Cardinality(Pictures(r, plan)) = Len(plan)
           /\ \A x \in Pictures(r, plan) : x.by = r
<1> DEFINE n == Len(plan)
           P == Pictures(r, plan)
           f == [i \in 1 .. n |-> [by |-> r, order |-> i, room |-> plan[i]]]
<1>1. n \in Nat /\ DOMAIN plan = 1 .. n /\ \A i \in 1 .. n : plan[i] \in Rooms
  OBVIOUS
<1>2. P = {[by |-> r, order |-> i, room |-> plan[i]] : i \in 1 .. n}
  BY <1>1 DEF Pictures
<1>3. f \in [1 .. n -> P] /\ \A x \in P : \E i \in 1 .. n : f[i] = x
  BY <1>2
<1>4. \A i, j \in 1 .. n : f[i] = f[j] => i = j
  <2> SUFFICES ASSUME NEW i \in 1 .. n, NEW j \in 1 .. n, f[i] = f[j] PROVE i = j
    OBVIOUS
  <2>1. f[i].order = i /\ f[j].order = j
    OBVIOUS
  <2> QED
    BY <2>1
<1> HIDE DEF f, P, n
<1>5. f \in Bijection(1 .. n, P)
  BY <1>3, <1>4 DEF Bijection, Injection, IsInjective, Surjection
<1>6. ExistsBijection(1 .. n, P)
  BY <1>5 DEF ExistsBijection
<1>7. IsFiniteSet(1 .. n) /\ Cardinality(1 .. n) = n
  BY <1>1, FS_Interval
<1>8. Cardinality(P) = n
  BY <1>6, <1>7, FS_Bijection
<1>9. {x.order : x \in P} = 1 .. n
  <2>1. \A x \in P : x.order \in 1 .. n
    BY <1>2
  <2>2. ASSUME NEW i \in 1 .. n PROVE \E x \in P : x.order = i
    <3>1. [by |-> r, order |-> i, room |-> plan[i]] \in P
      BY <1>2
    <3> QED
      BY <3>1
  <2> QED
    BY <2>1, <2>2
<1>10. \A x \in P : x.by = r
  BY <1>2
<1>11. P \subseteq {[by |-> r, order |-> i, room |-> room] : i \in Nat, room \in Rooms}
  <2> SUFFICES ASSUME NEW x \in P
               PROVE  x \in {[by |-> r, order |-> j, room |-> room] : j \in Nat, room \in Rooms}
    OBVIOUS
  <2>1. PICK i \in 1 .. n : x = [by |-> r, order |-> i, room |-> plan[i]]
    BY <1>2
  <2>2. i \in Nat /\ plan[i] \in Rooms
    BY <1>1
  <2> QED
    BY <2>1, <2>2
<1> QED
  BY <1>8, <1>9, <1>10, <1>11 DEF P, n

\* The pictures that were there go with the request that drew them: one plan
\* takes the place of another.
LEMMA RegenerateStep == ASSUME IInv, NEW r \in Requests, Regenerate(r) PROVE IInv'
<1> USE DEF IInv, TypeOK
<1>0. PICK i \in Ids : i = request[r].on
  BY DEF RequestsOK, RequestOK
<1>1. request[r].does = "regenerate" /\ request[r].pc = "write" /\ request[r].on = i
  BY <1>0 DEF Regenerate, Asking
<1>2. CASE ~There(property, i)
  BY <1>0, <1>1, <1>2, FailStep DEF Regenerate
<1>3. CASE There(property, i)
  <2>1. PICK draw \in Draws :
          /\ draw.bedrooms \in Bedrooms(request[r].with)
          /\ draw.bathrooms \in Bathrooms(request[r].with)
          /\ images' = [images EXCEPT ![i] = Replaced(@, Pictures(r, Plan(draw)))]
    BY <1>0, <1>3 DEF Regenerate
  <2>2. PICK P : P = Pictures(r, Plan(draw))
    OBVIOUS
  <2>3. /\ property' = [property EXCEPT ![i].image = r]
        /\ opsLog' = opsLog \cup {Line(r)}
        /\ UNCHANGED <<appointment, ticket, ticketLog, notification, stream>>
    BY <1>0, <1>3 DEF Regenerate
  <2>4. Acts(r) /\ Moved(r, "done", i, request[r].with) /\ RequestsOK'
    BY <1>0, <1>1, <1>3, GoesMoves DEF Regenerate, Stages
  <2>5. draw.bedrooms \in Nat /\ draw.bathrooms \in Nat
    BY <2>1 DEF Bedrooms, Bathrooms
  <2>6. Plan(draw) \in Seq(Rooms) /\ Len(Plan(draw)) > 0 /\ Len(Plan(draw)) \in Nat
    BY <2>5, PlanRooms
  <2>7. /\ P \subseteq {[by |-> r, order |-> k, room |-> room] : k \in Nat, room \in Rooms}
        /\ {x.order : x \in P} = 1 .. Cardinality(P)
        /\ Cardinality(P) > 0
        /\ \A x \in P : x.by = r
    BY <2>2, <2>6, PicturesOrdered
  <2>8. P \subseteq [by : Requests, order : Nat, room : Rooms]
    BY <2>7
  <2>9. /\ images'[i] = P
        /\ \A j \in Ids \ {i} : images'[j] = images[j]
        /\ images' \in [Ids -> SUBSET [by : Requests, order : Nat, room : Rooms]]
    BY <2>1, <2>2, <2>8 DEF TablesOK, Replaced
  <2>10. PICK row : row = [property[i] EXCEPT !.image = r]
    OBVIOUS
  <2>11. property[i] \in Listing
    BY <1>3, ListingRows
  <2>12. /\ row \in Listing /\ row.owner = property[i].owner /\ row.image = r
         /\ row.hands = property[i].hands /\ row.hands \in Nat
    BY <2>10, <2>11 DEF Listing
  <2>13. /\ property'[i] = row
         /\ \A j \in Ids \ {i} : property'[j] = property[j]
         /\ property' \in [Ids -> Listing \cup {None, Gone}]
    BY <2>3, <2>10, <2>12 DEF TablesOK
  <2>14. Line(r) = [by |-> r, does |-> "regenerate", on |-> i]
    BY <1>1 DEF Line
  <2>15. TypeOK'
    BY <2>3, <2>4, <2>9, <2>13, <2>14 DEF TablesOK, Kinds
  <2>16. row # None /\ row # Gone /\ property[i] # None /\ property[i] # Gone
    BY <2>11, <2>12, OfficeAssumption
  <2>17. PropertyKept /\ \A j \in Ids : property'[j] = Gone => property[j] = Gone
    <3>1. \A j \in Ids \ {i} :
            property[j] # None /\ property[j] # Gone => property[j].hands \in Nat
      BY ListingRows DEF Listing
    <3> QED
      BY <2>12, <2>13, <2>16, <3>1 DEF PropertyKept
  <2>18. StageOK(request[r])' /\ ListingOK(request[r])' /\ TicketOK(r, request[r])'
    BY <1>1, <2>4 DEF Moved, StageOK, ListingOK, TicketOK
  <2>19. StageInv' /\ ListingInv' /\ TicketInv'
    BY <2>3, <2>4, <2>17, <2>18, StageFrame, ListingFrame, TicketFrame
  <2>20. StreamInv' /\ StreamsHear'
    BY <1>1, <2>3, <2>4, StreamFrame DEF Moved
  <2>21. LogInv'
    <3>1. \A l \in opsLog' \ opsLog :
            property'[l.on] # None /\ (l.does \in Removes => property'[l.on] = Gone)
      BY <2>3, <2>13, <2>14, <2>16 DEF Removes
    <3>2. Advances(r) /\ Line(r)' \in opsLog'
      BY <1>1, <2>3, <2>4, <2>14 DEF Moved, Advances, Line
    <3>3. \A j \in Ids : property'[j] # None => property[j] # None
      BY <2>13, <2>16
    <3> QED
      BY <2>3, <2>4, <2>17, <3>1, <3>2, <3>3, LogFrame
  <2>22. PictureInv'
    <3>1. ASSUME NEW j \in Ids, NEW x \in images[j]
          PROVE  x.by \in Requests \ {r} /\ request'[x.by] = request[x.by]
      BY <1>1, <2>4, <3>1 DEF TablesOK, PictureInv, Acts
    <3>2. \A j \in Ids : \A x \in images'[j] : request'[x.by].pc = "done"
      BY <2>4, <2>7, <2>9, <3>1 DEF PictureInv, Moved
    <3>3. There(property, i)' /\ \A j \in Ids \ {i} : There(property, j)' = There(property, j)
      BY <2>13, <2>16 DEF There, TablesOK
    <3>4. P # {}
      BY <2>7, FS_EmptySet
    <3>5. Drawn(i)' = {r}
      BY <2>7, <2>9, <3>4 DEF Drawn
    <3>6. Cardinality({r}) = 1
      BY FS_Singleton
    <3>7. Line(r)' = Line(r) /\ request'[r].on = i
      BY <1>1, <2>4 DEF Line, Moved
    <3>8. OnePlan(i)'
      BY <2>3, <2>7, <2>9, <2>12, <2>13, <3>3, <3>5, <3>6, <3>7 DEF OnePlan
    <3>9. ASSUME NEW j \in Ids \ {i} PROVE OnePlan(j)'
      <4>1. OnePlan(j)
        BY DEF PictureInv, Pictured
      <4>2. images'[j] = images[j] /\ property'[j] = property[j] /\ opsLog \subseteq opsLog'
        BY <2>3, <2>9, <2>13
      <4>3. Drawn(j)' = Drawn(j) /\ There(property, j)' = There(property, j)
        BY <3>3, <4>2 DEF Drawn
      <4>4. \A s \in Drawn(j) : Line(s)' = Line(s) /\ request'[s].on = request[s].on
        BY <3>1 DEF Drawn, Line
      <4> QED
        BY <4>1, <4>2, <4>3, <4>4 DEF OnePlan
    <3>10. \A j \in Ids : OnePlan(j)'
      BY <3>8, <3>9
    <3> QED
      BY <3>2, <3>10 DEF PictureInv, Pictured
  <2> QED
    BY <2>15, <2>19, <2>20, <2>21, <2>22
<1> QED
  BY <1>2, <1>3

-----------------------------------------------------------------------------
(* The appointments.                                                       *)
LEMMA AppointedFrame ==
    ASSUME IInv, NEW r \in Requests, Acts(r), RequestsOK',
           UNCHANGED <<property, images, opsLog, ticket, ticketLog, notification, stream>>,
           appointment' \in [Ids -> Appointed \cup {None, Gone}],
           StageOK(request[r])', ListingOK(request[r])', TicketOK(r, request[r])',
           request'[r].pc # "push", request[r].pc \notin {"record", "store", "push"}, ~PastLog(r)'
    PROVE  IInv'
<1> USE DEF IInv
<1>1. TypeOK'
  BY DEF TypeOK, TablesOK
<1>2. PropertyKept /\ Advances(r)
  BY SameListings DEF Advances
<1>3. StageInv' /\ ListingInv' /\ LogInv' /\ TicketInv'
  BY <1>2, StageFrame, ListingFrame, LogQuiet, TicketFrame DEF TypeOK
<1>4. PictureInv'
  BY PictureFrame DEF There
<1>5. StreamInv' /\ StreamsHear'
  BY StreamFrame
<1> QED
  BY <1>1, <1>3, <1>4, <1>5

LEMMA BookStep == ASSUME IInv, NEW r \in Requests, Book(r) PROVE IInv'
<1> USE DEF IInv, TypeOK
<1>1. request[r].does = "book" /\ request[r].pc = "write"
  BY DEF Book, Asking
<1>2. CASE ~There(property, request[r].on)
  BY <1>1, <1>2, FailStep DEF Book
<1>3. CASE There(property, request[r].on)
  <2> DEFINE row == [client |-> request[r].by, property |-> request[r].on, status |-> "PENDING"]
  <2>1. PICK i \in Ids : appointment' = [appointment EXCEPT ![i] = row]
    BY <1>3 DEF Book
  <2>2. UNCHANGED <<property, images, opsLog, ticket, ticketLog, notification, stream>>
    BY <1>3 DEF Book
  <2>3. row \in Appointed
    BY <1>1 DEF RequestsOK, RequestOK, Appointed, Statuses
  <2> HIDE DEF row
  <2>4. appointment' \in [Ids -> Appointed \cup {None, Gone}]
    BY <2>1, <2>3 DEF TablesOK
  <2>5. Acts(r) /\ Moved(r, "owner", request[r].on, request[r].with) /\ RequestsOK'
    BY <1>1, <1>3, GoesMoves DEF Book, Stages
  <2>6. StageOK(request[r])' /\ ListingOK(request[r])' /\ TicketOK(r, request[r])'
    BY <1>1, <2>5 DEF Moved, StageOK, ListingOK, TicketOK
  <2> QED
    BY <1>1, <2>2, <2>4, <2>5, <2>6, AppointedFrame DEF Moved, PastLog, Logged
<1> QED
  BY <1>2, <1>3

LEMMA AppointedRows ==
    ASSUME TypeOK, NEW i \in Ids, There(appointment, i)
    PROVE  appointment[i] \in Appointed
BY DEF TypeOK, TablesOK, There

LEMMA DecideStep == ASSUME IInv, NEW r \in Requests, Decide(r) PROVE IInv'
<1> USE DEF IInv, TypeOK
<1> DEFINE q == request[r]
           pc == IF q.with = "CANCELLED" THEN "store" ELSE "done"
           row == [appointment[q.on] EXCEPT !.status = q.with]
<1>1. q.does = "decide" /\ q.pc = "write" /\ q.on \in Ids
  BY DEF Decide, Asking, RequestsOK, RequestOK
<1>2. CASE ~(There(appointment, q.on) /\ q.with \in Statuses)
  BY <1>1, <1>2, FailStep DEF Decide
<1>3. CASE There(appointment, q.on) /\ q.with \in Statuses
  <2>1. /\ appointment' = [appointment EXCEPT ![q.on] = row]
        /\ UNCHANGED <<property, images, opsLog, ticket, ticketLog, notification, stream>>
    BY <1>3 DEF Decide
  <2>2. appointment[q.on] \in Appointed
    BY <1>1, <1>3, AppointedRows
  <2>3. row \in Appointed /\ appointment[q.on].client \in Users
    BY <1>3, <2>2 DEF Appointed
  <2> HIDE DEF row
  <2>4. appointment' \in [Ids -> Appointed \cup {None, Gone}]
    BY <2>1, <2>3 DEF TablesOK
  <2> DEFINE client == appointment[q.on].client
  <2>5. Acts(r) /\ Moved(r, pc, q.on, client) /\ RequestsOK'
    <3>1. request' = [request EXCEPT ![r].pc = pc, ![r].with = client]
      BY <1>3 DEF Decide
    <3>2. pc \in Stages \ {"idle"}
      BY DEF Stages
    <3> HIDE DEF pc, client
    <3> QED
      BY <1>1, <3>1, <3>2, GivesMoves
  <2>6. StageOK(request[r])' /\ ListingOK(request[r])' /\ TicketOK(r, request[r])'
    BY <1>1, <2>3, <2>5 DEF Moved, StageOK, ListingOK, TicketOK
  <2> QED
    BY <1>1, <2>1, <2>4, <2>5, <2>6, AppointedFrame DEF Moved, PastLog, Logged
<1> QED
  BY <1>2, <1>3

LEMMA UnbookStep == ASSUME IInv, NEW r \in Requests, Unbook(r) PROVE IInv'
<1> USE DEF IInv, TypeOK
<1>1. request[r].does = "unbook" /\ request[r].pc = "write"
  BY DEF Unbook, Asking
<1>2. CASE ~There(appointment, request[r].on)
  BY <1>1, <1>2, FailStep DEF Unbook
<1>3. CASE There(appointment, request[r].on)
  <2>1. /\ appointment' = [appointment EXCEPT ![request[r].on] = Gone]
        /\ UNCHANGED <<property, images, opsLog, ticket, ticketLog, notification, stream>>
    BY <1>3 DEF Unbook
  <2>2. appointment' \in [Ids -> Appointed \cup {None, Gone}]
    BY <2>1 DEF TablesOK
  <2>3. Acts(r) /\ Moved(r, "done", request[r].on, request[r].with) /\ RequestsOK'
    BY <1>1, <1>3, GoesMoves DEF Unbook, Stages
  <2>4. StageOK(request[r])' /\ ListingOK(request[r])' /\ TicketOK(r, request[r])'
    BY <1>1, <2>3 DEF Moved, StageOK, ListingOK, TicketOK
  <2> QED
    BY <1>1, <2>1, <2>2, <2>3, <2>4, AppointedFrame DEF Moved, PastLog, Logged
<1> QED
  BY <1>2, <1>3

-----------------------------------------------------------------------------
(* The tickets.                                                            *)
TicketKept ==
    \A i \in Ids : ticket[i] # None =>
        /\ ticket'[i] # None
        /\ ticket[i] = Gone => ticket'[i] = Gone
        /\ ticket'[i] # Gone => \A l \in ticketLog : l.ticket = i => l \in ticketLog'

\* What a statement on a ticket has to keep: no ticket comes back, and one that
\* is there keeps its lines.
LEMMA TicketedFrame ==
    ASSUME IInv, NEW r \in Requests, Acts(r), RequestsOK', TicketKept,
           UNCHANGED <<property, images, opsLog, appointment, notification, stream>>,
           ticket' \in [Ids -> Ticketed \cup {None, Gone}],
           ticketLog' \subseteq [by : Requests, ticket : Ids],
           StageOK(request[r])', ListingOK(request[r])', TicketOK(r, request[r])', LineInv',
           request'[r].pc # "push", request[r].pc \notin {"record", "store", "push"}, ~PastLog(r)'
    PROVE  IInv'
<1> USE DEF IInv
<1>1. TypeOK'
  BY DEF TypeOK, TablesOK
<1>2. PropertyKept /\ Advances(r)
  BY SameListings DEF Advances
<1>3. StageInv' /\ ListingInv' /\ LogInv'
  BY <1>2, StageFrame, ListingFrame, LogQuiet DEF TypeOK
<1>4. PictureInv'
  BY PictureFrame DEF There
<1>5. StreamInv' /\ StreamsHear'
  BY StreamFrame
<1>6. TicketInv'
  <2> SUFFICES ASSUME NEW s \in Requests \ {r} PROVE TicketOK(s, request[s])'
    BY DEF TicketInv
  <2>1. TicketOK(s, request[s]) /\ request'[s] = request[s] /\ request[s].on \in Ids
    BY DEF TicketInv, Acts, TypeOK, RequestsOK, RequestOK
  <2> QED
    BY <2>1 DEF TicketOK, TicketKept
<1> QED
  BY <1>1, <1>3, <1>4, <1>5, <1>6

LEMMA TicketRows ==
    ASSUME TypeOK, NEW i \in Ids
    PROVE  /\ DOMAIN ticket = Ids
           /\ There(ticket, i) <=> ticket[i] \in Ticketed
           /\ ticket[i] \in Ticketed \/ ticket[i] = None \/ ticket[i] = Gone
BY OfficeAssumption DEF TypeOK, TablesOK, There

LEMMA OpenTicketStep == ASSUME IInv, NEW r \in Requests, OpenTicket(r) PROVE IInv'
<1> USE DEF IInv, TypeOK
<1>1. request[r].does = "ticket" /\ request[r].pc = "write"
  BY DEF OpenTicket, Asking
<1>2. CASE ~There(property, request[r].on)
  BY <1>1, <1>2, FailStep DEF OpenTicket
<1>3. CASE There(property, request[r].on)
  <2> DEFINE row == [client |-> request[r].by, property |-> request[r].on, status |-> "OPEN"]
  <2>1. PICK i \in Ids :
          /\ ticket[i] = None
          /\ ticket' = [ticket EXCEPT ![i] = row]
          /\ request' = [request EXCEPT ![r].pc = "trace", ![r].on = i]
    BY <1>3 DEF OpenTicket, NextId
  <2>2. UNCHANGED <<property, images, opsLog, appointment, ticketLog, notification, stream>>
    BY <1>3 DEF OpenTicket
  <2>3. row \in Ticketed
    BY <1>1 DEF RequestsOK, RequestOK, Ticketed, TicketStatuses
  <2>4. row # None /\ row # Gone
    BY <2>3, OfficeAssumption
  <2> HIDE DEF row
  <2>5. /\ ticket' \in [Ids -> Ticketed \cup {None, Gone}]
        /\ ticket'[i] = row /\ \A j \in Ids \ {i} : ticket'[j] = ticket[j]
    BY <2>1, <2>3 DEF TablesOK
  <2>6. TicketKept
    BY <2>1, <2>2, <2>5 DEF TicketKept
  <2>7. Acts(r) /\ Moved(r, "trace", i, request[r].with) /\ RequestsOK'
    BY <1>1, <2>1, FindsMoves DEF Stages
  <2>8. StageOK(request[r])' /\ ListingOK(request[r])'
    BY <1>1, <2>7 DEF Moved, StageOK, ListingOK
  <2>9. TicketOK(r, request[r])'
    BY <2>4, <2>5, <2>7 DEF Moved, TicketOK
  <2>10. ticketLog' \subseteq [by : Requests, ticket : Ids]
    BY <2>2 DEF TablesOK
  <2>11. LineInv'
    BY <1>1, <2>1, <2>2, <2>5, <2>7 DEF TicketInv, LineInv, TablesOK, Acts
  <2> QED
    BY <1>1, <2>2, <2>5, <2>6, <2>7, <2>8, <2>9, <2>10, <2>11, TicketedFrame DEF Moved, PastLog, Logged
<1> QED
  BY <1>2, <1>3

LEMMA ChangeTicketStep == ASSUME IInv, NEW r \in Requests, ChangeTicket(r) PROVE IInv'
<1> USE DEF IInv, TypeOK
<1>0. PICK i \in Ids : i = request[r].on
  BY DEF RequestsOK, RequestOK
<1> DEFINE form == request[r].with
           row == Changed(ticket[i], form)
           may == There(ticket, i) /\ (form.property = None \/ There(property, form.property))
<1>1. request[r].does = "status" /\ request[r].pc = "write" /\ request[r].on = i
  BY <1>0 DEF ChangeTicket, Asking
<1>2. CASE ~may
  BY <1>0, <1>1, <1>2, FailStep DEF ChangeTicket
<1>3. CASE may
  <2>1. /\ ticket' = [ticket EXCEPT ![i] = row]
        /\ UNCHANGED <<property, images, opsLog, appointment, ticketLog, notification, stream>>
    BY <1>0, <1>3 DEF ChangeTicket
  <2>2. form \in TicketForm
    BY <1>1 DEF StageInv, StageOK
  <2>3. ticket[i] \in Ticketed
    BY <1>3, TicketRows
  <2>4. row \in Ticketed
    BY <2>2, <2>3 DEF Changed, Ticketed, TicketForm
  <2>5. row # None /\ row # Gone /\ ticket[i] # None /\ ticket[i] # Gone
    BY <2>3, <2>4, OfficeAssumption
  <2> HIDE DEF row
  <2>6. /\ ticket' \in [Ids -> Ticketed \cup {None, Gone}]
        /\ ticket'[i] = row /\ \A j \in Ids \ {i} : ticket'[j] = ticket[j]
    BY <2>1, <2>4 DEF TablesOK
  <2>7. TicketKept
    BY <2>1, <2>5, <2>6 DEF TicketKept
  <2>8. Acts(r) /\ Moved(r, "trace", i, request[r].with) /\ RequestsOK'
    BY <1>0, <1>1, <1>3, GoesMoves DEF ChangeTicket, Stages
  <2>9. StageOK(request[r])' /\ ListingOK(request[r])'
    BY <1>1, <2>8 DEF Moved, StageOK, ListingOK
  <2>10. TicketOK(r, request[r])'
    BY <2>5, <2>6, <2>8 DEF Moved, TicketOK
  <2>11. ticketLog' \subseteq [by : Requests, ticket : Ids]
    BY <2>1 DEF TablesOK
  <2>12. LineInv'
    BY <1>1, <2>1, <2>5, <2>6, <2>8 DEF TicketInv, LineInv, TablesOK, Acts
  <2> QED
    BY <1>1, <2>1, <2>6, <2>7, <2>8, <2>9, <2>10, <2>11, <2>12, TicketedFrame DEF Moved, PastLog, Logged
<1> QED
  BY <1>2, <1>3

\* Only the lines of the ticket that goes are removed with it.
LEMMA RemoveTicketStep == ASSUME IInv, NEW r \in Requests, RemoveTicket(r) PROVE IInv'
<1> USE DEF IInv, TypeOK
<1>0. PICK i \in Ids : i = request[r].on
  BY DEF RequestsOK, RequestOK
<1>1. request[r].does = "unticket" /\ request[r].pc = "write" /\ request[r].on = i
  BY <1>0 DEF RemoveTicket, Asking
<1>2. CASE ~There(ticket, i)
  BY <1>0, <1>1, <1>2, FailStep DEF RemoveTicket
<1>3. CASE There(ticket, i)
  <2>1. /\ ticket' = [ticket EXCEPT ![i] = Gone]
        /\ ticketLog' = ticketLog \ LinesOf(i)
        /\ UNCHANGED <<property, images, opsLog, appointment, notification, stream>>
    BY <1>0, <1>3 DEF RemoveTicket
  <2>2. /\ ticket' \in [Ids -> Ticketed \cup {None, Gone}]
        /\ ticket'[i] = Gone /\ \A j \in Ids \ {i} : ticket'[j] = ticket[j]
    BY <2>1 DEF TablesOK
  <2>3. Gone # None
    BY OfficeAssumption
  <2>4. \A j \in Ids \ {i} : \A l \in ticketLog : l.ticket = j => l \in ticketLog'
    BY <2>1 DEF LinesOf
  <2>5. TicketKept
    BY <2>2, <2>3, <2>4 DEF TicketKept
  <2>6. Acts(r) /\ Moved(r, "done", i, request[r].with) /\ RequestsOK'
    BY <1>0, <1>1, <1>3, GoesMoves DEF RemoveTicket, Stages
  <2>7. StageOK(request[r])' /\ ListingOK(request[r])' /\ TicketOK(r, request[r])'
    BY <1>1, <2>6 DEF Moved, StageOK, ListingOK, TicketOK
  <2>8. ticketLog' \subseteq [by : Requests, ticket : Ids]
    BY <2>1 DEF TablesOK
  <2>9. LineInv'
    <3>1. \A l \in ticketLog' : l \in ticketLog /\ l.ticket \in Ids \ {i}
      BY <2>1 DEF LinesOf, TablesOK
    <3> QED
      BY <1>1, <2>2, <2>6, <3>1 DEF TicketInv, LineInv, TablesOK, Acts
  <2> QED
    BY <1>1, <2>1, <2>2, <2>5, <2>6, <2>7, <2>8, <2>9, TicketedFrame DEF Moved, PastLog, Logged
<1> QED
  BY <1>2, <1>3

LEMMA AddLineStep == ASSUME IInv, NEW r \in Requests, AddLine(r) PROVE IInv'
<1> USE DEF IInv, TypeOK
<1>0. PICK i \in Ids : i = request[r].on
  BY DEF RequestsOK, RequestOK
<1>1. /\ request[r].pc = "line" /\ request[r].does \in {"ticket", "status"}
      /\ request[r].on = i /\ There(ticket, i)
  BY <1>0 DEF AddLine, StageInv, StageOK
<1>2. /\ ticketLog' = ticketLog \cup {[by |-> r, ticket |-> i]}
      /\ UNCHANGED <<property, images, opsLog, appointment, ticket, notification, stream>>
  BY <1>0 DEF AddLine
<1>3. ticketLog' \subseteq [by : Requests, ticket : Ids]
  BY <1>2 DEF TablesOK
<1>4. TicketKept
  BY <1>2 DEF TicketKept
<1>5. Acts(r) /\ Moved(r, "done", i, request[r].with) /\ RequestsOK'
  BY <1>0, <1>1, GoesMoves DEF AddLine, Stages
<1>6. StageOK(request[r])' /\ ListingOK(request[r])'
  BY <1>1, <1>5 DEF Moved, StageOK, ListingOK
<1>7. TicketOK(r, request[r])'
  BY <1>1, <1>2, <1>5 DEF Moved, TicketOK, There
<1>8. ticket' \in [Ids -> Ticketed \cup {None, Gone}]
  BY <1>2 DEF TablesOK
<1>9. LineInv'
  <2>1. \A l \in ticketLog : request'[l.by] = request[l.by]
    BY <1>5 DEF TablesOK, TicketInv, LineInv, Acts
  <2> QED
    BY <1>1, <1>2, <1>5, <2>1 DEF TicketInv, LineInv, There, Moved
<1> QED
  BY <1>1, <1>2, <1>3, <1>4, <1>5, <1>6, <1>7, <1>8, <1>9, TicketedFrame DEF Moved, PastLog, Logged

-----------------------------------------------------------------------------
(* The notifications.                                                      *)
LEMMA NotifyingFrame ==
    ASSUME IInv, NEW r \in Requests, Acts(r), RequestsOK',
           UNCHANGED <<property, images, opsLog, appointment, ticket, ticketLog>>,
           notification' \subseteq
               [by : Requests, user : Users, read : BOOLEAN, due : SUBSET Streams],
           stream' \in [Streams -> Connected \cup {None}],
           StageOK(request[r])', ListingOK(request[r])', TicketOK(r, request[r])',
           request[r].pc # "record", Advances(r),
           PastLog(r)' => request[r].pc \in {"store", "push"}, StreamInv', StreamsHear'
    PROVE  IInv'
<1> USE DEF IInv
<1>1. TypeOK'
  BY DEF TypeOK, TablesOK
<1>2. PropertyKept
  BY SameListings
<1>3. StageInv' /\ ListingInv' /\ LogInv' /\ TicketInv'
  BY <1>2, StageFrame, ListingFrame, LogQuiet, TicketFrame DEF TypeOK
<1>4. PictureInv'
  BY PictureFrame DEF There
<1> QED
  BY <1>1, <1>3, <1>4

LEMMA StoreStep == ASSUME IInv, NEW r \in Requests, Store(r) PROVE IInv'
<1> USE DEF IInv, TypeOK
<1>0. PICK u : u = request[r].with
  OBVIOUS
<1>1. /\ request[r].pc = "store" /\ request[r].does \in {"list", "book", "decide"}
      /\ request[r].with = u /\ u \in Users
  BY <1>0 DEF Store, StageInv, StageOK
<1>2. PICK new : new = [by |-> r, user |-> u, read |-> FALSE, due |-> Listening(u)]
  OBVIOUS
<1>3. /\ notification' = notification \cup {new}
      /\ UNCHANGED <<property, images, opsLog, appointment, ticket, ticketLog, stream>>
  BY <1>0, <1>2 DEF Store
<1>4. Acts(r) /\ Moved(r, "push", request[r].on, u) /\ RequestsOK'
  BY <1>0, <1>1, GoesMoves DEF Store, Stages
<1>5. /\ new.by = r /\ new.user = u
      /\ \A s \in new.due : s \in Streams /\ stream[s] # None /\ stream[s].user = u
  BY <1>2 DEF Listening
<1>6. new \in [by : Requests, user : Users, read : BOOLEAN, due : SUBSET Streams]
  BY <1>1, <1>2 DEF Listening
<1>7. StageOK(request[r])' /\ ListingOK(request[r])' /\ TicketOK(r, request[r])'
  BY <1>1, <1>4 DEF Moved, StageOK, ListingOK, TicketOK
<1>8. ASSUME NEW n \in notification
      PROVE  n.by \in Requests \ {r} /\ request'[n.by] = request[n.by]
  BY <1>1, <1>4, <1>8 DEF TablesOK, StreamInv, Acts
<1>9. StreamInv'
  <2>1. \A s \in Streams : stream'[s] # None => stream'[s].open = stream'[s].listed
    BY <1>3 DEF StreamInv
  <2>2. ASSUME NEW n \in notification'
        PROVE  /\ request'[n.by].pc \in {"push", "done", "failed"}
               /\ request'[n.by].pc = "push" => n.user = request'[n.by].with
               /\ \A s \in n.due : stream'[s] # None /\ stream'[s].user = n.user
    <3>1. CASE n = new
      BY <1>3, <1>4, <1>5, <3>1 DEF Moved
    <3>2. CASE n \in notification
      BY <1>3, <1>8, <3>2 DEF StreamInv
    <3> QED
      BY <1>3, <3>1, <3>2
  <2>3. ASSUME NEW s \in Requests, request'[s].pc = "push"
        PROVE  \E n \in notification' : n.by = s /\ n.user = request'[s].with
    <3>1. CASE s = r
      BY <1>3, <1>4, <1>5, <3>1 DEF Moved
    <3>2. CASE s # r
      BY <1>3, <1>4, <2>3, <3>2 DEF StreamInv, Acts
    <3> QED
      BY <3>1, <3>2
  <2> QED
    BY <2>1, <2>2, <2>3 DEF StreamInv
<1>10. StreamsHear'
  <2>1. ASSUME NEW n \in notification', request'[n.by].pc = "done", NEW s \in n.due, stream'[s].open
        PROVE  n.by \in stream'[s].heard
    <3>1. n # new
      BY <1>4, <1>5, <2>1 DEF Moved
    <3> QED
      BY <1>3, <1>8, <2>1, <3>1 DEF StreamsHear
  <2>2. ASSUME NEW s \in Streams, stream'[s] # None, NEW t \in stream'[s].heard
        PROVE  \E n \in notification' : n.by = t /\ n.user = stream'[s].user
    BY <1>3, <2>2 DEF StreamsHear
  <2> QED
    BY <2>1, <2>2 DEF StreamsHear
<1> QED
  BY <1>1, <1>3, <1>4, <1>6, <1>7, <1>9, <1>10, NotifyingFrame DEF TablesOK, Advances, Moved

\* Every due stream that is still open is listed, so the push reaches it.
LEMMA PushStep == ASSUME IInv, NEW r \in Requests, Push(r) PROVE IInv'
<1> USE DEF IInv, TypeOK
<1>0. PICK u : u = request[r].with
  OBVIOUS
<1>1. /\ request[r].pc = "push" /\ request[r].does \in {"list", "book", "decide"}
      /\ request[r].with = u /\ u \in Users /\ UNCHANGED tables
  BY <1>0 DEF Push, StageInv, StageOK
<1>2. PICK broken \in SUBSET Listening(u) :
        stream' = [s \in Streams |->
            IF s \in broken THEN [stream[s] EXCEPT !.open = FALSE, !.listed = FALSE]
            ELSE IF s \in Listening(u) THEN [stream[s] EXCEPT !.heard = @ \cup {r}]
            ELSE stream[s]]
  BY <1>0 DEF Push
<1>3. Acts(r) /\ Moved(r, "done", request[r].on, u) /\ RequestsOK'
  BY <1>0, <1>1, GoesMoves DEF Push, Stages
<1>4. StageOK(request[r])' /\ ListingOK(request[r])' /\ TicketOK(r, request[r])'
  BY <1>1, <1>3 DEF Moved, StageOK, ListingOK, TicketOK
<1>5. \A s \in Streams : s \in Listening(u) <=>
          stream[s] # None /\ stream[s].listed /\ stream[s].user = u
  BY DEF Listening
<1>6. ASSUME NEW s \in Streams, stream[s] # None
      PROVE  /\ stream'[s] \in Connected
             /\ stream'[s].user = stream[s].user
             /\ stream'[s].open = (stream[s].open /\ s \notin broken)
             /\ stream'[s].listed = (stream[s].listed /\ s \notin broken)
             /\ stream[s].heard \subseteq stream'[s].heard
             /\ s \in Listening(u) \ broken => r \in stream'[s].heard
             /\ \A t \in stream'[s].heard : t \in stream[s].heard \/ (t = r /\ s \in Listening(u))
  <2>1. stream[s] \in Connected
    BY <1>6 DEF TablesOK
  <2>2. CASE s \in broken
    <3>1. stream'[s] = [stream[s] EXCEPT !.open = FALSE, !.listed = FALSE]
      BY <1>2, <2>2
    <3> QED
      BY <2>1, <2>2, <3>1 DEF Connected
  <2>3. CASE s \in Listening(u) \ broken
    <3>1. stream'[s] = [stream[s] EXCEPT !.heard = @ \cup {r}]
      BY <1>2, <2>3
    <3> QED
      BY <2>1, <2>3, <3>1 DEF Connected
  <2>4. CASE s \notin broken /\ s \notin Listening(u)
    <3>1. stream'[s] = stream[s]
      BY <1>2, <2>4
    <3> QED
      BY <2>1, <2>4, <3>1 DEF Connected
  <2> QED
    BY <2>2, <2>3, <2>4
<1>7. \A s \in Streams : stream'[s] = None <=> stream[s] = None
  <2>1. ASSUME NEW s \in Streams, stream[s] # None PROVE stream'[s] # None
    BY <1>6, <2>1, OfficeAssumption
  <2>2. ASSUME NEW s \in Streams, stream[s] = None PROVE stream'[s] = None
    BY <1>2, <1>5, <2>2
  <2> QED
    BY <2>1, <2>2
<1>8. stream' \in [Streams -> Connected \cup {None}]
  <2>1. \A s \in Streams : stream'[s] \in Connected \cup {None}
    BY <1>6, <1>7
  <2> QED
    BY <1>2, <2>1
<1>9. ASSUME NEW n \in notification
      PROVE  /\ n.by \in Requests
             /\ n.due \subseteq Streams
             /\ n.by = r => n.user = u /\ request'[n.by].pc = "done"
             /\ n.by # r => request'[n.by] = request[n.by]
             /\ \A s \in n.due : stream[s] # None /\ stream[s].user = n.user
  BY <1>1, <1>3, <1>9 DEF TablesOK, StreamInv, Acts, Moved
<1>10. StreamInv'
  <2>1. ASSUME NEW s \in Streams, stream'[s] # None PROVE stream'[s].open = stream'[s].listed
    BY <1>6, <1>7, <2>1 DEF StreamInv
  <2>2. ASSUME NEW n \in notification
        PROVE  /\ request'[n.by].pc \in {"push", "done", "failed"}
               /\ request'[n.by].pc = "push" => n.user = request'[n.by].with
               /\ \A s \in n.due : stream'[s] # None /\ stream'[s].user = n.user
    BY <1>6, <1>7, <1>9, <2>2 DEF StreamInv
  <2>3. ASSUME NEW s \in Requests, request'[s].pc = "push"
        PROVE  \E n \in notification : n.by = s /\ n.user = request'[s].with
    BY <1>3, <2>3 DEF StreamInv, Acts, Moved
  <2> QED
    BY <1>1, <2>1, <2>2, <2>3 DEF StreamInv, tables
<1>11. StreamsHear'
  <2>1. ASSUME NEW n \in notification, request'[n.by].pc = "done", NEW s \in n.due, stream'[s].open
        PROVE  n.by \in stream'[s].heard
    <3>1. /\ s \in Streams /\ stream[s] # None /\ stream[s].user = n.user
          /\ stream[s].open /\ s \notin broken
      BY <1>6, <1>9, <2>1
    <3>2. CASE n.by = r
      BY <1>5, <1>6, <1>9, <3>1, <3>2 DEF StreamInv
    <3>3. CASE n.by # r
      BY <1>6, <1>9, <2>1, <3>1, <3>3 DEF StreamsHear
    <3> QED
      BY <3>2, <3>3
  <2>2. ASSUME NEW s \in Streams, stream'[s] # None, NEW t \in stream'[s].heard
        PROVE  \E n \in notification : n.by = t /\ n.user = stream'[s].user
    <3>1. stream[s] # None /\ stream'[s].user = stream[s].user
      BY <1>6, <1>7, <2>2
    <3>2. CASE t \in stream[s].heard
      BY <3>1, <3>2 DEF StreamsHear
    <3>3. CASE t = r /\ s \in Listening(u)
      BY <1>1, <1>5, <3>1, <3>3 DEF StreamInv
    <3> QED
      BY <1>6, <2>2, <3>1, <3>2, <3>3
  <2> QED
    BY <1>1, <2>1, <2>2 DEF StreamsHear, tables
<1> QED
  BY <1>1, <1>3, <1>4, <1>8, <1>10, <1>11, NotifyingFrame DEF tables, TablesOK, Advances, Moved

LEMMA ReadAllStep == ASSUME IInv, NEW r \in Requests, ReadAll(r) PROVE IInv'
<1> USE DEF IInv, TypeOK
<1>0. PICK u : u = request[r].by
  OBVIOUS
<1>1. /\ request[r].does = "read" /\ request[r].pc = "write"
      /\ UNCHANGED <<property, images, opsLog, appointment, ticket, ticketLog, stream>>
  BY DEF ReadAll, Asking
<1> DEFINE Read(n) == IF n.user = u THEN [n EXCEPT !.read = TRUE] ELSE n
<1>2. notification' = {Read(n) : n \in notification}
  BY <1>0 DEF ReadAll
<1>3. ASSUME NEW n \in notification
      PROVE  /\ Read(n) \in [by : Requests, user : Users, read : BOOLEAN, due : SUBSET Streams]
             /\ Read(n).by = n.by /\ Read(n).user = n.user /\ Read(n).due = n.due
  BY <1>3 DEF TablesOK
<1> HIDE DEF Read
<1>4. Acts(r) /\ Moved(r, "done", request[r].on, request[r].with) /\ RequestsOK'
  BY <1>1, GoesMoves DEF ReadAll, Stages
<1>5. StageOK(request[r])' /\ ListingOK(request[r])' /\ TicketOK(r, request[r])'
  BY <1>1, <1>4 DEF Moved, StageOK, ListingOK, TicketOK
<1>6. ASSUME NEW n \in notification
      PROVE  n.by \in Requests \ {r} /\ request'[n.by] = request[n.by]
  BY <1>1, <1>4, <1>6 DEF TablesOK, StreamInv, Acts
<1>7. ASSUME NEW m \in notification'
      PROVE  \E n \in notification : m.by = n.by /\ m.user = n.user /\ m.due = n.due
  BY <1>2, <1>3, <1>7
<1>8. ASSUME NEW n \in notification
      PROVE  \E m \in notification' : m.by = n.by /\ m.user = n.user
  BY <1>2, <1>3, <1>8
<1>9. StreamInv'
  <2>1. \A s \in Streams : stream'[s] # None => stream'[s].open = stream'[s].listed
    BY <1>1 DEF StreamInv
  <2>2. ASSUME NEW m \in notification'
        PROVE  /\ request'[m.by].pc \in {"push", "done", "failed"}
               /\ request'[m.by].pc = "push" => m.user = request'[m.by].with
               /\ \A s \in m.due : stream'[s] # None /\ stream'[s].user = m.user
    <3>1. PICK n \in notification : m.by = n.by /\ m.user = n.user /\ m.due = n.due
      BY <1>7
    <3> QED
      BY <1>1, <1>6, <3>1 DEF StreamInv
  <2>3. ASSUME NEW s \in Requests, request'[s].pc = "push"
        PROVE  \E m \in notification' : m.by = s /\ m.user = request'[s].with
    <3>1. s # r /\ request'[s] = request[s]
      BY <1>4, <2>3 DEF Acts, Moved
    <3> QED
      BY <1>8, <2>3, <3>1 DEF StreamInv
  <2> QED
    BY <2>1, <2>2, <2>3 DEF StreamInv
<1>10. StreamsHear'
  <2>1. ASSUME NEW m \in notification', request'[m.by].pc = "done", NEW s \in m.due, stream'[s].open
        PROVE  m.by \in stream'[s].heard
    <3>1. PICK n \in notification : m.by = n.by /\ m.user = n.user /\ m.due = n.due
      BY <1>7
    <3> QED
      BY <1>1, <1>6, <2>1, <3>1 DEF StreamsHear
  <2>2. ASSUME NEW s \in Streams, stream'[s] # None, NEW t \in stream'[s].heard
        PROVE  \E m \in notification' : m.by = t /\ m.user = stream'[s].user
    <3>1. PICK n \in notification : n.by = t /\ n.user = stream[s].user
      BY <1>1, <2>2 DEF StreamsHear
    <3> QED
      BY <1>1, <1>8, <3>1
  <2> QED
    BY <2>1, <2>2 DEF StreamsHear
<1>11. notification' \subseteq [by : Requests, user : Users, read : BOOLEAN, due : SUBSET Streams]
  BY <1>2, <1>3
<1> QED
  BY <1>1, <1>4, <1>5, <1>9, <1>10, <1>11, NotifyingFrame
     DEF TablesOK, Advances, PastLog, Logged, Moved

\* Opening or closing a stream.
LEMMA StreamsOnly ==
    ASSUME IInv, UNCHANGED <<tables, request>>, stream' \in [Streams -> Connected \cup {None}],
           StreamInv', StreamsHear'
    PROVE  IInv'
<1> USE DEF IInv, tables
<1>1. TypeOK'
  BY DEF TypeOK, TablesOK, RequestsOK
<1>2. StageInv' /\ ListingInv' /\ TicketInv'
  BY DEF StageInv, ListingInv, ListingOK, TicketInv, TicketOK, LineInv
<1>3. LogInv'
  BY DEF LogInv, Came, PastLog, Line
<1>4. PictureInv'
  BY DEF PictureInv, Pictured, OnePlan, Drawn, Line, There
<1> QED
  BY <1>1, <1>2, <1>3, <1>4

LEMMA OpenStep == ASSUME IInv, NEW s \in Streams, Open(s) PROVE IInv'
<1> USE DEF IInv, TypeOK
<1>1. stream[s] = None /\ UNCHANGED <<tables, request>>
  BY DEF Open
<1>2. PICK u \in Users :
        stream' = [stream EXCEPT ![s] = [user |-> u, open |-> TRUE, listed |-> TRUE, heard |-> {}]]
  BY DEF Open
<1>3. /\ stream' \in [Streams -> Connected \cup {None}]
      /\ stream'[s].open /\ stream'[s].listed /\ stream'[s].heard = {}
      /\ \A t \in Streams \ {s} : stream'[t] = stream[t]
  BY <1>2 DEF TablesOK, Connected
<1>4. \A n \in notification : n.due \subseteq Streams \ {s}
  BY <1>1 DEF TablesOK, StreamInv
<1>5. StreamInv'
  <2>1. \A t \in Streams : stream'[t] # None => stream'[t].open = stream'[t].listed
    BY <1>2, <1>3 DEF StreamInv, TablesOK
  <2>2. ASSUME NEW n \in notification
        PROVE  \A t \in n.due : stream'[t] # None /\ stream'[t].user = n.user
    BY <1>3, <1>4 DEF StreamInv
  <2> QED
    BY <1>1, <2>1, <2>2 DEF StreamInv, tables
<1>6. StreamsHear'
  BY <1>1, <1>3, <1>4 DEF StreamsHear, tables
<1> QED
  BY <1>1, <1>3, <1>5, <1>6, StreamsOnly

LEMMA CloseStep == ASSUME IInv, NEW s \in Streams, Close(s) PROVE IInv'
<1> USE DEF IInv, TypeOK
<1>1. stream[s] # None /\ stream[s].open /\ UNCHANGED <<tables, request>>
  BY DEF Close
<1>2. stream' = [stream EXCEPT ![s] = [[stream[s] EXCEPT !.open = FALSE] EXCEPT !.listed = FALSE]]
  BY DEF Close, Forgotten, TablesOK
<1>3. stream[s] \in Connected
  BY <1>1 DEF TablesOK
<1>4. PICK row : row = [[stream[s] EXCEPT !.open = FALSE] EXCEPT !.listed = FALSE]
  OBVIOUS
<1>5. /\ row \in Connected /\ row.user = stream[s].user /\ row.heard = stream[s].heard
      /\ row.open = FALSE /\ row.listed = FALSE
  BY <1>3, <1>4 DEF Connected
<1>6. row # None
  BY <1>5, OfficeAssumption
<1>7. /\ stream' \in [Streams -> Connected \cup {None}]
      /\ stream'[s] = row /\ \A t \in Streams \ {s} : stream'[t] = stream[t]
  BY <1>2, <1>4, <1>5 DEF TablesOK
<1>8. \A n \in notification : n.due \subseteq Streams
  BY DEF TablesOK
<1>9. StreamInv'
  <2>1. \A t \in Streams : stream'[t] # None => stream'[t].open = stream'[t].listed
    BY <1>5, <1>7 DEF StreamInv
  <2>2. ASSUME NEW n \in notification
        PROVE  \A t \in n.due : stream'[t] # None /\ stream'[t].user = n.user
    BY <1>5, <1>6, <1>7, <1>8 DEF StreamInv
  <2> QED
    BY <1>1, <2>1, <2>2 DEF StreamInv, tables
<1>10. StreamsHear'
  BY <1>1, <1>5, <1>6, <1>7, <1>8 DEF StreamsHear, tables
<1> QED
  BY <1>1, <1>7, <1>9, <1>10, StreamsOnly

-----------------------------------------------------------------------------
LEMMA InitIInv == Init => IInv
<1> SUFFICES ASSUME Init PROVE IInv
  OBVIOUS
<1>1. PICK u \in Users :
        property = [i \in Ids |-> IF i = 1
            THEN [owner |-> u, hands |-> 0, type |-> "VILLA", image |-> None] ELSE None]
  BY DEF Init
<1>2. [owner |-> u, hands |-> 0, type |-> "VILLA", image |-> None] \in Listing
  BY DEF Listing, Types
<1>3. \A i \in Ids : property[i] \in Listing \cup {None}
  BY <1>1, <1>2
<1>4. \A i \in Ids : property[i] # Gone /\ (property[i] # None => property[i].image = None)
  BY <1>1, <1>2, OfficeAssumption
<1>5. TypeOK
  BY <1>1, <1>3, OfficeAssumption DEF Init, TypeOK, TablesOK, RequestsOK, RequestOK, Stages
<1>6. StageInv /\ ListingInv /\ TicketInv
  BY DEF Init, StageInv, StageOK, ListingInv, ListingOK, TicketInv, TicketOK, LineInv
<1>7. LogInv
  <2>1. \A r \in Requests : ~PastLog(r)
    BY DEF Init, PastLog
  <2> QED
    BY <1>1, <1>4, <2>1 DEF Init, LogInv
<1>8. PictureInv
  <2>1. \A i \in Ids : images[i] = {} /\ Drawn(i) = {} /\ {x.order : x \in images[i]} = {}
    BY DEF Init, Drawn
  <2>2. Cardinality({}) = 0 /\ 1 .. 0 = {}
    BY FS_EmptySet
  <2>3. \A i \in Ids : ~(There(property, i) /\ property[i].image \in Requests)
    BY <1>4, OfficeAssumption DEF There
  <2> QED
    BY <2>1, <2>2, <2>3 DEF PictureInv, Pictured, OnePlan
<1>9. StreamInv /\ StreamsHear
  BY DEF Init, StreamInv, StreamsHear
<1> QED
  BY <1>5, <1>6, <1>7, <1>8, <1>9 DEF IInv

LEMMA NextIInv == IInv /\ [Next]_vars => IInv'
<1> SUFFICES ASSUME IInv, [Next]_vars PROVE IInv'
  OBVIOUS
<1>1. ASSUME NEW r \in Requests,
             Ask(r) \/ Own(r) \/ List(r) \/ Update(r) \/ Remove(r) \/ Record(r)
                \/ FindType(r) \/ Regenerate(r)
      PROVE  IInv'
  BY <1>1, AskStep, OwnStep, ListStep, UpdateStep, RemoveStep, RecordStep, FindTypeStep,
     RegenerateStep
<1>2. ASSUME NEW r \in Requests,
             Book(r) \/ FindOwner(r) \/ Decide(r) \/ Unbook(r)
                \/ Store(r) \/ Unstored(r) \/ Push(r) \/ ReadAll(r)
      PROVE  IInv'
  BY <1>2, BookStep, FindOwnerStep, DecideStep, UnbookStep, StoreStep, UnstoredStep, PushStep,
     ReadAllStep
<1>3. ASSUME NEW r \in Requests,
             OpenTicket(r) \/ ChangeTicket(r) \/ RemoveTicket(r) \/ Trace(r) \/ AddLine(r)
                \/ Untraced(r) \/ Stop(r)
      PROVE  IInv'
  BY <1>3, OpenTicketStep, ChangeTicketStep, RemoveTicketStep, TraceStep, AddLineStep,
     UntracedStep, StopStep
<1>4. ASSUME NEW s \in Streams, Open(s) \/ Close(s) PROVE IInv'
  BY <1>4, OpenStep, CloseStep
<1>5. CASE UNCHANGED vars
  <2>1. UNCHANGED <<tables, request>> /\ stream' = stream
    BY <1>5 DEF vars, tables
  <2>2. StreamInv' /\ StreamsHear'
    BY <2>1 DEF IInv, StreamInv, StreamsHear, tables
  <2> QED
    BY <2>1, <2>2, StreamsOnly DEF IInv, TypeOK, TablesOK
<1> QED
  BY <1>1, <1>2, <1>3, <1>4, <1>5 DEF Next

LEMMA Invariance == Spec => []IInv
BY InitIInv, NextIInv, PTL DEF Spec

-----------------------------------------------------------------------------
\* Every variable keeps its type: no row of a listing, an appointment, a ticket
\* or a stream takes a shape its table does not have.
THEOREM TypeCorrect == Spec => []TypeOK
<1>1. IInv => TypeOK
  BY DEF IInv
<1> QED
  BY <1>1, Invariance, PTL

\* However many requests draw pictures of a listing at once, and whoever removes
\* or changes it meanwhile, its pictures are one plan, numbered without a gap,
\* of one logged request whose picture is the cover unless an upload is.
\* (OpsService.regenImagesForProperty.)
THEOREM PicturesOfOnePlan == Spec => []Pictured
<1>1. IInv => Pictured
  BY DEF IInv, PictureInv
<1> QED
  BY <1>1, Invariance, PTL

\* Every line of the logs is of what was done, every listing that was made or
\* removed is some request's doing, and who is missing in a log was cut short or
\* lost its line: a request that came past its log has its line there, for a
\* ticket as long as that is there; no line outlives its ticket.
\* (PropertyService.logPropertyOperation, TicketsService.addLog.)
THEOREM LogsAccount == Spec => []Accounted
<1>1. IInv => Accounted
  <2> SUFFICES ASSUME IInv PROVE Accounted
    OBVIOUS
  <2>1. \A l \in opsLog :
          property[l.on] # None /\ (l.does \in {"remove", "removeOwned"} => property[l.on] = Gone)
    BY DEF IInv, LogInv, Removes
  <2>2. \A l \in ticketLog : /\ There(ticket, l.ticket)
                            /\ request[l.by].does \in {"ticket", "status"}
                            /\ request[l.by].on = l.ticket
    BY DEF IInv, TypeOK, TablesOK, TicketInv, LineInv, There
  <2>3. \A i \in Ids : property[i] # None =>
          i = 1 \/ \E r \in Requests : request[r].does = "list" /\ request[r].on = i
    BY DEF IInv, LogInv, Came
  <2>4. \A i \in Ids : property[i] = Gone =>
          \E r \in Requests : request[r].does \in {"remove", "removeOwned"} /\ request[r].on = i
    BY DEF IInv, LogInv, Came, Removes
  <2>5. \A r \in Requests :
          /\ request[r].does \in {"list", "update", "updateOwned", "remove", "removeOwned",
                                 "regenerate"}
          /\ request[r].pc \in {"store", "push", "done"}
          => Line(r) \in opsLog
    BY DEF IInv, LogInv, PastLog, Logged
  <2>6. \A r \in Requests :
          /\ request[r].does \in {"ticket", "status"} /\ request[r].pc = "done"
          /\ There(ticket, request[r].on)
          => [by |-> r, ticket |-> request[r].on] \in ticketLog
    BY DEF IInv, TicketInv, TicketOK, There
  <2> QED
    BY <2>1, <2>2, <2>3, <2>4, <2>5, <2>6 DEF Accounted
<1> QED
  BY <1>1, Invariance, PTL

\* A stream that stays open hears every notification that was stored for its
\* user while it was open, and no other.  (NotificationsService.pushSse.)
THEOREM DueStreamsHear == Spec => []StreamsHear
<1>1. IInv => StreamsHear
  BY DEF IInv
<1> QED
  BY <1>1, Invariance, PTL

\* From its statement an owner's request goes on to the log only if the listing
\* was there.
LEMMA OwnerWrites ==
    ASSUME IInv, Next, NEW r \in Requests, request[r].does \in Owns,
           request[r].pc = "write", request'[r].pc = "record"
    PROVE  There(property, request[r].on)
<1>0. r \in DOMAIN request /\ request[r] = [request[r] EXCEPT !.pc = "write"]
  BY DEF IInv, TypeOK, RequestsOK, RequestOK
<1> USE DEF Owns, Asking, Goes, Fails
<1>1. ASSUME NEW s \in Requests, Update(s) \/ Remove(s) PROVE There(property, request[r].on)
  <2>1. CASE s = r
    BY <1>0, <1>1, <2>1 DEF Update, Remove
  <2>2. CASE s # r
    BY <1>0, <1>1, <2>2 DEF Update, Remove
  <2> QED
    BY <2>1, <2>2
<1>2. ASSUME NEW s \in Requests, Ask(s) \/ Own(s) \/ List(s) \/ Record(s) \/ FindType(s) PROVE FALSE
  BY <1>0, <1>2 DEF Ask, Own, List, Record, FindType
<1>3. ASSUME NEW s \in Requests, Regenerate(s) \/ Book(s) \/ FindOwner(s) \/ Decide(s) PROVE FALSE
  BY <1>0, <1>3 DEF Regenerate, Book, FindOwner, Decide
<1>4. ASSUME NEW s \in Requests,
             Unbook(s) \/ Store(s) \/ Unstored(s) \/ Push(s) \/ ReadAll(s) \/ OpenTicket(s)
      PROVE  FALSE
  BY <1>0, <1>4 DEF Unbook, Store, Unstored, Push, ReadAll, OpenTicket
<1>5. ASSUME NEW s \in Requests,
             ChangeTicket(s) \/ RemoveTicket(s) \/ Trace(s) \/ AddLine(s) \/ Untraced(s) \/ Stop(s)
      PROVE  FALSE
  BY <1>0, <1>5 DEF ChangeTicket, RemoveTicket, Trace, AddLine, Untraced, Stop
<1>6. ASSUME NEW s \in Streams, Open(s) \/ Close(s) PROVE FALSE
  BY <1>6 DEF Open, Close
<1> QED
  BY <1>1, <1>2, <1>3, <1>4, <1>5, <1>6 DEF Next

\* A listing that is there has another owner only after an owner's update whose
\* form connected it.
LEMMA OwnerChanges ==
    ASSUME IInv, Next, NEW i \in Ids, There(property, i), There(property, i)',
           property'[i].owner # property[i].owner
    PROVE  \E r \in Requests :
               /\ request[r].does = "updateOwned" /\ request[r].pc = "write"
               /\ request'[r].pc = "record" /\ request[r].on = i
               /\ request[r].with.connect = property'[i].owner
<1>0. property \in [Ids -> Listing \cup {None, Gone}] /\ property[i] # None /\ property'[i] # Gone
  BY DEF IInv, TypeOK, TablesOK, There
<1>1. ASSUME NEW s \in Requests, Update(s)
      PROVE  /\ request[s].does = "updateOwned" /\ request[s].pc = "write"
             /\ request'[s].pc = "record" /\ request[s].on = i
             /\ request[s].with.connect = property'[i].owner
  <2>1. /\ request[s].does \in {"update", "updateOwned"} /\ request[s].pc = "write"
        /\ request[s].does = "update" => request[s].with.connect = None
    BY <1>1 DEF Update, IInv, StageInv, StageOK
  <2>2. There(property, request[s].on)
    BY <1>1 DEF Update, Fails, tables
  <2>3. /\ property' = [property EXCEPT ![request[s].on] =
                            Payload(property[request[s].on], request[s].with)]
        /\ Goes(s, "record")
    BY <1>1, <2>2 DEF Update
  <2>4. request[s].on = i /\ property'[i] = Payload(property[i], request[s].with)
    BY <1>0, <2>3
  <2>5. request[s].with.connect # None /\ property'[i].owner = request[s].with.connect
    BY <2>4 DEF Payload
  <2>6. request'[s].pc = "record"
    BY <2>3 DEF Goes, IInv, TypeOK, RequestsOK, RequestOK
  <2> QED
    BY <2>1, <2>4, <2>5, <2>6
<1>2. ASSUME NEW s \in Requests, List(s) PROVE FALSE
  <2>1. \/ property' = property
        \/ \E j \in Ids : property[j] = None /\ \E row : property' = [property EXCEPT ![j] = row]
    BY <1>2 DEF List, NextId, Fails, tables
  <2> QED
    BY <1>0, <2>1
<1>3. ASSUME NEW s \in Requests, Remove(s) PROVE FALSE
  BY <1>0, <1>3 DEF Remove, Fails, tables
<1>4. ASSUME NEW s \in Requests, Regenerate(s) PROVE FALSE
  <2>1. property' = [property EXCEPT ![request[s].on].image = s]
    BY <1>4 DEF Regenerate, Fails, tables
  <2>2. property[i] \in Listing
    BY <1>0, ListingRows DEF IInv
  <2> QED
    BY <1>0, <2>1, <2>2 DEF Listing
<1> USE DEF Fails, tables
<1>5. ASSUME NEW s \in Requests,
             Ask(s) \/ Own(s) \/ Record(s) \/ FindType(s) \/ Book(s) \/ FindOwner(s) \/ Decide(s)
      PROVE  FALSE
  BY <1>5 DEF Ask, Own, Record, FindType, Book, FindOwner, Decide
<1>6. ASSUME NEW s \in Requests,
             Unbook(s) \/ Store(s) \/ Unstored(s) \/ Push(s) \/ ReadAll(s) \/ OpenTicket(s)
      PROVE  FALSE
  BY <1>6 DEF Unbook, Store, Unstored, Push, ReadAll, OpenTicket
<1>7. ASSUME NEW s \in Requests,
             ChangeTicket(s) \/ RemoveTicket(s) \/ Trace(s) \/ AddLine(s) \/ Untraced(s) \/ Stop(s)
      PROVE  FALSE
  BY <1>7 DEF ChangeTicket, RemoveTicket, Trace, AddLine, Untraced, Stop
<1>8. ASSUME NEW s \in Streams, Open(s) \/ Close(s) PROVE FALSE
  BY <1>8 DEF Open, Close
<1> QED
  BY <1>1, <1>2, <1>3, <1>4, <1>5, <1>6, <1>7, <1>8 DEF Next

\* An owner's route writes to or removes only a listing that is hers, unless it
\* changed hands between her look at the owner and the statement; and listings
\* change hands only by the form of an owner's update, to whom it connects.
\* (PropertyService.getOwnedPropertyOrThrow.)
THEOREM OwnersOnly == Spec => OnlyOwnersTouch
<1> DEFINE Touch ==
        /\ \A r \in Requests, i \in Ids :
               /\ request[r].does \in {"updateOwned", "removeOwned"} /\ request[r].pc = "write"
               /\ request'[r].pc = "record" /\ request[r].on = i
               => property[i].owner = request[r].by \/ property[i].hands # request[r].hands
        /\ \A i \in Ids :
               /\ There(property, i) /\ There(property, i)'
               /\ property'[i].owner # property[i].owner
               => \E r \in Requests :
                      /\ request[r].does = "updateOwned" /\ request[r].pc = "write"
                      /\ request'[r].pc = "record" /\ request[r].on = i
                      /\ request[r].with.connect = property'[i].owner
<1>1. IInv /\ [Next]_vars => [Touch]_vars
  <2> SUFFICES ASSUME IInv, Next PROVE Touch
    OBVIOUS
  <2>1. ASSUME NEW r \in Requests, NEW i \in Ids,
               request[r].does \in {"updateOwned", "removeOwned"},
               request[r].pc = "write", request'[r].pc = "record", request[r].on = i
        PROVE  property[i].owner = request[r].by \/ property[i].hands # request[r].hands
    <3>1. There(property, i)
      BY <2>1, OwnerWrites DEF Owns
    <3>2. ListingOK(request[r])
      BY DEF IInv, ListingInv
    <3> QED
      BY <2>1, <3>1, <3>2 DEF ListingOK, Owns, There
  <2> QED
    BY <2>1, OwnerChanges
<1> QED
  BY <1>1, Invariance, PTL DEF Spec, OnlyOwnersTouch

-----------------------------------------------------------------------------
(* What users keep: module Keeping, of the same requests.                  *)
Word == [confidence : Int, usage : Nat, confirmed : Nat, rejected : Nat]

KeepingOK(q) ==
    /\ q = [pc |-> q.pc, kind |-> q.kind, by |-> q.by, what |-> q.what, days |-> q.days,
            held |-> q.held]
    /\ q.pc # "idle" => q.by \in Users
    /\ q.pc # "idle" /\ q.kind = "save" => q.what \in Filters
    /\ q.pc # "idle" /\ q.kind = "watch" => q.what \in Areas /\ q.days \in Windows
    /\ q.kind = "watch" => q.held \in Requests \cup {None}
    /\ q.pc = "log" => q.kind \in {"learn", "reject"}

KeepingTypeOK ==
    /\ searches \subseteq [id : Requests, buyer : Users, hash : Filters]
    /\ watches \subseteq [id : Requests, owner : Users, area : Areas, days : Windows]
    /\ word \in Word \cup {None}
    /\ removed \subseteq [id : Requests, by : Users]
    /\ keepingRequest = [r \in Requests |-> keepingRequest[r]]
    /\ \A r \in Requests : KeepingOK(keepingRequest[r])

Within(c) == c \in K!High(0, 6 - 2 * word.rejected) .. K!Low(10, 6 + word.confirmed)

\* Who has found a term finds it for good, and what it read of the confidence is
\* within what the rejections and confirmations counted since allow.
HeldInv ==
    \A r \in Requests :
        LET q == keepingRequest[r]
        IN q.kind \in {"learn", "reject", "lookup"} /\ q.pc \in {"write", "log"} =>
             /\ q.kind # "learn" \/ q.held # None => word \in Word /\ Within(q.held.confidence)
             /\ q.pc = "log" => q.kind # "lookup"
             /\ q.pc = "log" /\ q.kind = "learn" /\ q.held # None => word.confirmed > 0

WordInv ==
    /\ word # None => Within(word.confidence)
    /\ \A l \in learningLog : l.action = "confirmed" => word \in Word /\ word.confirmed > 0

\* None is no row of the vocabulary.
Apart == None \notin Word

KInv == Apart /\ KeepingTypeOK /\ HeldInv /\ WordInv /\ K!KeptIsHers

-----------------------------------------------------------------------------
KMoved(r, pc, held) ==
    /\ keepingRequest'[r] = [pc |-> pc, kind |-> keepingRequest[r].kind, by |-> keepingRequest[r].by,
                             what |-> keepingRequest[r].what, days |-> keepingRequest[r].days,
                             held |-> held]
    /\ \A s \in Requests \ {r} : keepingRequest'[s] = keepingRequest[s]

KRequestsOK ==
    /\ keepingRequest = [r \in Requests |-> keepingRequest[r]]
    /\ \A r \in Requests : KeepingOK(keepingRequest[r])

LEMMA KMoving ==
    ASSUME KRequestsOK, NEW r \in Requests, NEW pc, NEW held, keepingRequest[r].pc # "idle",
           pc # "idle", keepingRequest[r].kind = "watch" => held \in Requests \cup {None},
           pc = "log" => keepingRequest[r].kind \in {"learn", "reject"},
           keepingRequest' = [keepingRequest EXCEPT ![r] =
               [pc |-> pc, kind |-> keepingRequest[r].kind, by |-> keepingRequest[r].by,
                what |-> keepingRequest[r].what, days |-> keepingRequest[r].days, held |-> held]]
    PROVE  KMoved(r, pc, held) /\ KRequestsOK'
<1> DEFINE q == [pc |-> pc, kind |-> keepingRequest[r].kind, by |-> keepingRequest[r].by,
                 what |-> keepingRequest[r].what, days |-> keepingRequest[r].days, held |-> held]
<1>1. KeepingOK(q)
  BY DEF KRequestsOK, KeepingOK
<1>2. keepingRequest'[r] = q /\ \A s \in Requests \ {r} : keepingRequest'[s] = keepingRequest[s]
  BY DEF KRequestsOK
<1>3. keepingRequest' = [s \in Requests |-> keepingRequest'[s]]
  BY DEF KRequestsOK
<1>4. \A s \in Requests : KeepingOK(keepingRequest'[s])
  BY <1>1, <1>2 DEF KRequestsOK
<1> QED
  BY <1>2, <1>3, <1>4 DEF KMoved, KRequestsOK, KeepingOK

LEMMA KGoes ==
    ASSUME KRequestsOK, NEW r \in Requests, NEW pc, pc # "idle", keepingRequest[r].pc # "idle",
           pc = "log" => keepingRequest[r].kind \in {"learn", "reject"},
           K!Goes(r, pc)
    PROVE  KMoved(r, pc, keepingRequest[r].held) /\ KRequestsOK'
<1>1. KeepingOK(keepingRequest[r]) /\ keepingRequest = [s \in Requests |-> keepingRequest[s]]
  BY DEF KRequestsOK
<1>2. [keepingRequest[r] EXCEPT !.pc = pc] =
          [pc |-> pc, kind |-> keepingRequest[r].kind, by |-> keepingRequest[r].by,
           what |-> keepingRequest[r].what, days |-> keepingRequest[r].days,
           held |-> keepingRequest[r].held]
  BY <1>1 DEF KeepingOK
<1>3. keepingRequest[r].kind = "watch" => keepingRequest[r].held \in Requests \cup {None}
  BY <1>1 DEF KeepingOK
<1> QED
  BY <1>1, <1>2, <1>3, KMoving DEF K!Goes

LEMMA Pcs == "write" # "log" /\ "done" # "log" /\ "write" # "idle" /\ "done" # "idle"
OBVIOUS

LEMMA KHolds ==
    ASSUME KRequestsOK, NEW r \in Requests, NEW pc, NEW held, pc # "idle",
           keepingRequest[r].pc # "idle",
           keepingRequest[r].kind = "watch" => held \in Requests \cup {None},
           pc = "log" => keepingRequest[r].kind \in {"learn", "reject"},
           keepingRequest' = [keepingRequest EXCEPT ![r].pc = pc, ![r].held = held]
    PROVE  KMoved(r, pc, held) /\ KRequestsOK'
<1>1. KeepingOK(keepingRequest[r]) /\ keepingRequest = [s \in Requests |-> keepingRequest[s]]
  BY DEF KRequestsOK
<1> DEFINE q == [keepingRequest[r] EXCEPT !.pc = pc]
<1>2. q = [pc |-> pc, kind |-> keepingRequest[r].kind, by |-> keepingRequest[r].by,
           what |-> keepingRequest[r].what, days |-> keepingRequest[r].days,
           held |-> keepingRequest[r].held]
  BY <1>1 DEF KeepingOK
<1> HIDE DEF q
<1>3. [q EXCEPT !.held = held] =
          [pc |-> pc, kind |-> keepingRequest[r].kind, by |-> keepingRequest[r].by,
           what |-> keepingRequest[r].what, days |-> keepingRequest[r].days, held |-> held]
  BY <1>2
<1>4. keepingRequest' = [keepingRequest EXCEPT ![r] = [q EXCEPT !.held = held]]
  BY <1>1 DEF q
<1>5. keepingRequest' = [keepingRequest EXCEPT ![r] =
          [pc |-> pc, kind |-> keepingRequest[r].kind, by |-> keepingRequest[r].by,
           what |-> keepingRequest[r].what, days |-> keepingRequest[r].days, held |-> held]]
  BY <1>3, <1>4
<1> QED
  BY <1>5, KMoving

-----------------------------------------------------------------------------
(* What a statement of one kind leaves alone of the others.                *)
KeptOne(r) ==
    LET q == keepingRequest[r]
    IN q.kind \in {"save", "watch"} /\ q.pc = "done" =>
          \/ [id |-> q.held, by |-> q.by] \in removed
          \/ \E s \in searches : s = [id |-> q.held, buyer |-> q.by, hash |-> q.what]
          \/ \E w \in watches : w.id = q.held /\ w.owner = q.by /\ w.area = q.what

LEMMA KeptAll == K!KeptIsHers <=> \A r \in Requests : KeptOne(r)
BY DEF K!KeptIsHers, KeptOne

\* No row is lost that somebody has not removed, and a watch keeps its identifier.
RowsKept ==
    /\ removed \subseteq removed'
    /\ \A s \in searches : s \in searches' \/ [id |-> s.id, by |-> s.buyer] \in removed'
    /\ \A w \in watches :
          \/ [id |-> w.id, by |-> w.owner] \in removed'
          \/ \E x \in watches' : x.id = w.id /\ x.owner = w.owner /\ x.area = w.area

LEMMA KeptFrame ==
    ASSUME K!KeptIsHers, RowsKept, NEW r \in Requests, NEW pc, NEW held, KMoved(r, pc, held),
           KeptOne(r)'
    PROVE  K!KeptIsHers'
<1> SUFFICES ASSUME NEW s \in Requests \ {r} PROVE KeptOne(s)'
  BY DEF K!KeptIsHers, KeptOne
<1>1. KeptOne(s) /\ keepingRequest'[s] = keepingRequest[s]
  BY KeptAll DEF KMoved
<1> QED
  BY <1>1 DEF KeptOne, RowsKept

HeldOK(q) ==
    q.kind \in {"learn", "reject", "lookup"} /\ q.pc \in {"write", "log"} =>
        /\ q.kind # "learn" \/ q.held # None => word \in Word /\ Within(q.held.confidence)
        /\ q.pc = "log" => q.kind # "lookup"
        /\ q.pc = "log" /\ q.kind = "learn" /\ q.held # None => word.confirmed > 0

LEMMA WordFrame ==
    ASSUME HeldInv, WordInv, UNCHANGED <<word, learningLog>>,
           NEW r \in Requests, NEW pc, NEW held, KMoved(r, pc, held), HeldOK(keepingRequest[r])'
    PROVE  HeldInv' /\ WordInv'
BY DEF HeldInv, HeldOK, WordInv, Within, KMoved

LEMMA KAskStep == ASSUME KInv, NEW r \in Requests, K!Ask(r) PROVE KInv'
<1> USE DEF KInv, KeepingTypeOK
<1>1. /\ keepingRequest[r].pc = "idle"
      /\ UNCHANGED <<searches, watches, word, learningLog, removed>>
  BY DEF K!Ask, K!tables
<1>2. PICK kind \in K!Kinds, u \in Users :
        \E what \in CASE kind = "save" -> Filters
                      [] kind = "watch" -> Areas
                      [] kind \in {"unsave", "unwatch"} -> Requests
                      [] OTHER -> {None},
           days \in IF kind = "watch" THEN Windows ELSE {None} :
           keepingRequest' = [keepingRequest EXCEPT ![r] =
               [pc |-> IF kind \in {"unsave", "unwatch"} THEN "write" ELSE "look",
                kind |-> kind, by |-> u, what |-> what, days |-> days, held |-> None]]
  BY DEF K!Ask
<1>3. PICK what, days, pc :
        /\ kind = "save" => what \in Filters
        /\ kind = "watch" => what \in Areas /\ days \in Windows
        /\ pc = (IF kind \in {"unsave", "unwatch"} THEN "write" ELSE "look")
        /\ keepingRequest' = [keepingRequest EXCEPT ![r] =
               [pc |-> pc, kind |-> kind, by |-> u, what |-> what, days |-> days, held |-> None]]
  BY <1>2
<1>4. PICK q : q = [pc |-> pc, kind |-> kind, by |-> u, what |-> what, days |-> days, held |-> None]
  OBVIOUS
<1>5. KeepingOK(q)
  BY <1>3, <1>4 DEF KeepingOK
<1>6. keepingRequest'[r] = q /\ \A s \in Requests \ {r} : keepingRequest'[s] = keepingRequest[s]
  BY <1>3, <1>4
<1>7. keepingRequest' = [s \in Requests |-> keepingRequest'[s]]
  BY <1>3
<1>8. KeepingTypeOK'
  BY <1>1, <1>5, <1>6, <1>7 DEF KeepingOK
<1>9. HeldInv' /\ WordInv'
  BY <1>1, <1>3, <1>4, <1>6 DEF HeldInv, WordInv, Within
<1>10. K!KeptIsHers'
  BY <1>1, <1>3, <1>4, <1>6 DEF K!KeptIsHers
<1> QED
  BY <1>8, <1>9, <1>10

\* A request that only moves on.
LEMMA KQuietStep ==
    ASSUME KInv, NEW r \in Requests, NEW pc, NEW held, KMoved(r, pc, held), KRequestsOK',
           UNCHANGED <<searches, watches, word, learningLog, removed>>,
           HeldOK(keepingRequest[r])', KeptOne(r)'
    PROVE  KInv'
<1> USE DEF KInv
<1>1. KeepingTypeOK'
  BY DEF KeepingTypeOK, KRequestsOK
<1>2. RowsKept
  BY DEF RowsKept
<1> QED
  BY <1>1, <1>2, WordFrame, KeptFrame

LEMMA KFailStep ==
    ASSUME KInv, NEW r \in Requests, keepingRequest[r].pc # "idle", K!Fails(r)
    PROVE  KInv'
<1>1. KMoved(r, "failed", keepingRequest[r].held) /\ KRequestsOK'
  BY KGoes DEF KInv, KeepingTypeOK, KRequestsOK, K!Fails
<1>2. HeldOK(keepingRequest[r])' /\ KeptOne(r)'
  BY <1>1 DEF KMoved, HeldOK, KeptOne
<1> QED
  BY <1>1, <1>2, KQuietStep DEF K!Fails, K!tables

-----------------------------------------------------------------------------
(* The saved searches.                                                     *)
LEMMA RowsStep ==
    ASSUME KInv, NEW r \in Requests, NEW pc, NEW held, KMoved(r, pc, held), KRequestsOK', RowsKept,
           UNCHANGED <<word, learningLog>>,
           searches' \subseteq [id : Requests, buyer : Users, hash : Filters],
           watches' \subseteq [id : Requests, owner : Users, area : Areas, days : Windows],
           removed' \subseteq [id : Requests, by : Users],
           HeldOK(keepingRequest[r])', KeptOne(r)'
    PROVE  KInv'
<1> USE DEF KInv
<1>1. KeepingTypeOK'
  BY DEF KeepingTypeOK, KRequestsOK
<1> QED
  BY <1>1, WordFrame, KeptFrame

LEMMA LookSearchStep == ASSUME KInv, NEW r \in Requests, K!LookSearch(r) PROVE KInv'
<1> USE DEF KInv, KeepingTypeOK
<1>1. /\ keepingRequest[r].kind = "save" /\ keepingRequest[r].pc = "look"
      /\ UNCHANGED <<searches, watches, word, learningLog, removed>>
  BY DEF K!LookSearch, K!At, K!tables
<1>2. KRequestsOK
  BY DEF KRequestsOK
<1>3. CASE K!Goes(r, "write")
  <2>1. KMoved(r, "write", keepingRequest[r].held) /\ KRequestsOK'
    BY <1>1, <1>2, <1>3, KGoes
  <2>2. HeldOK(keepingRequest[r])' /\ KeptOne(r)'
    BY <1>1, <2>1 DEF KMoved, HeldOK, KeptOne
  <2> QED
    BY <1>1, <2>1, <2>2, KQuietStep
<1>4. CASE K!Goes(r, "failed")
  BY <1>1, <1>4, KFailStep DEF K!Fails, K!tables
<1>5. ASSUME NEW s \in searches, s.hash = keepingRequest[r].what, s.buyer = keepingRequest[r].by,
             keepingRequest' = [keepingRequest EXCEPT ![r].pc = "done", ![r].held = s.id]
      PROVE  KInv'
  <2>1. KMoved(r, "done", s.id) /\ KRequestsOK'
    BY <1>1, <1>2, <1>5, Pcs, KHolds
  <2>2. s = [id |-> s.id, buyer |-> s.buyer, hash |-> s.hash]
    OBVIOUS
  <2>3. HeldOK(keepingRequest[r])'
    BY <1>1, <2>1 DEF KMoved, HeldOK
  <2>4. KeptOne(r)'
    <3>1. s = [id |-> s.id, buyer |-> keepingRequest[r].by, hash |-> keepingRequest[r].what]
      BY <1>5, <2>2
    <3>2. /\ keepingRequest'[r].held = s.id
          /\ keepingRequest'[r].by = keepingRequest[r].by
          /\ keepingRequest'[r].what = keepingRequest[r].what
      BY <2>1 DEF KMoved
    <3> QED
      BY <1>1, <3>1, <3>2 DEF KeptOne
  <2> QED
    BY <1>1, <2>1, <2>3, <2>4, KQuietStep
<1> QED
  BY <1>3, <1>4, <1>5 DEF K!LookSearch, K!Saved, K!Own

LEMMA SaveStep == ASSUME KInv, NEW r \in Requests, K!Save(r) PROVE KInv'
<1> USE DEF KInv, KeepingTypeOK
<1>1. keepingRequest[r].kind = "save" /\ keepingRequest[r].pc = "write"
  BY DEF K!Save, K!At
<1>2. CASE K!Fails(r)
  BY <1>1, <1>2, KFailStep
<1>3. CASE ~K!Fails(r)
  <2>1. PICK row :
          row = [id |-> r, buyer |-> keepingRequest[r].by, hash |-> keepingRequest[r].what]
    OBVIOUS
  <2>2. /\ searches' = searches \cup {row}
        /\ keepingRequest' = [keepingRequest EXCEPT ![r].pc = "done", ![r].held = r]
        /\ UNCHANGED <<watches, word, learningLog, removed>>
    BY <1>3, <2>1 DEF K!Save
  <2>3. KMoved(r, "done", r) /\ KRequestsOK'
    BY <1>1, <2>2, Pcs, KHolds DEF KRequestsOK
  <2>4. row \in [id : Requests, buyer : Users, hash : Filters]
    BY <1>1, <2>1 DEF KeepingOK
  <2>5. RowsKept
    BY <2>2 DEF RowsKept
  <2>6. HeldOK(keepingRequest[r])'
    BY <1>1, <2>3 DEF KMoved, HeldOK
  <2>7. KeptOne(r)'
    <3>1. row \in searches'
      BY <2>2
    <3>2. /\ keepingRequest'[r].held = r
          /\ keepingRequest'[r].by = keepingRequest[r].by
          /\ keepingRequest'[r].what = keepingRequest[r].what
      BY <2>3 DEF KMoved
    <3> QED
      BY <2>1, <3>1, <3>2 DEF KeptOne
  <2> QED
    BY <2>2, <2>3, <2>4, <2>5, <2>6, <2>7, RowsStep
<1> QED
  BY <1>2, <1>3

LEMMA UnsaveStep == ASSUME KInv, NEW r \in Requests, K!Unsave(r) PROVE KInv'
<1> USE DEF KInv, KeepingTypeOK
<1>1. keepingRequest[r].kind = "unsave" /\ keepingRequest[r].pc = "write"
  BY DEF K!Unsave, K!At
<1>2. PICK gone, by :
        /\ by = keepingRequest[r].by
        /\ gone = {s \in searches : s.id = keepingRequest[r].what /\ s.buyer = by}
  OBVIOUS
<1>3. /\ searches' = searches \ gone
      /\ removed' = removed \cup {[id |-> s.id, by |-> by] : s \in gone}
      /\ UNCHANGED <<watches, word, learningLog>>
  BY <1>2 DEF K!Unsave
<1>4. PICK pc : pc \in {"failed", "done"} /\ K!Goes(r, pc)
  BY DEF K!Unsave
<1>5. KMoved(r, pc, keepingRequest[r].held) /\ KRequestsOK'
  BY <1>1, <1>4, KGoes DEF KRequestsOK
<1>6. by \in Users
  BY <1>1, <1>2 DEF KeepingOK
<1>7. removed' \subseteq [id : Requests, by : Users]
  BY <1>2, <1>3, <1>6
<1>8. RowsKept
  BY <1>2, <1>3 DEF RowsKept
<1>9. HeldOK(keepingRequest[r])' /\ KeptOne(r)'
  BY <1>1, <1>5 DEF KMoved, HeldOK, KeptOne
<1> QED
  BY <1>3, <1>5, <1>7, <1>8, <1>9, RowsStep

-----------------------------------------------------------------------------
(* The watches.                                                            *)
LEMMA LookWatchStep == ASSUME KInv, NEW r \in Requests, K!LookWatch(r) PROVE KInv'
<1> USE DEF KInv, KeepingTypeOK
<1>1. /\ keepingRequest[r].kind = "watch" /\ keepingRequest[r].pc = "look"
      /\ UNCHANGED <<searches, watches, word, learningLog, removed>>
  BY DEF K!LookWatch, K!At, K!tables
<1>2. KRequestsOK
  BY DEF KRequestsOK
<1>3. \E held : KMoved(r, "write", held) /\ KRequestsOK'
  <2>1. CASE K!Goes(r, "write")
    BY <1>1, <1>2, <2>1, KGoes
  <2>2. ASSUME NEW w \in watches,
               keepingRequest' = [keepingRequest EXCEPT ![r].pc = "write", ![r].held = w.id]
        PROVE  KMoved(r, "write", w.id) /\ KRequestsOK'
    BY <1>1, <1>2, <2>2, Pcs, KHolds
  <2> QED
    BY <2>1, <2>2 DEF K!LookWatch, K!Watched
<1>4. PICK held : KMoved(r, "write", held) /\ KRequestsOK'
  BY <1>3
<1>5. HeldOK(keepingRequest[r])' /\ KeptOne(r)'
  BY <1>1, <1>4 DEF KMoved, HeldOK, KeptOne
<1> QED
  BY <1>1, <1>4, <1>5, KQuietStep

\* What the upsert found is what it overwrites, and the row keeps its identifier.
LEMMA WatchStep == ASSUME KInv, NEW r \in Requests, K!Watch(r) PROVE KInv'
<1> USE DEF KInv, KeepingTypeOK
<1>1. keepingRequest[r].kind = "watch" /\ keepingRequest[r].pc = "write"
  BY DEF K!Watch, K!At
<1>2. CASE K!Fails(r)
  BY <1>1, <1>2, KFailStep
<1>3. CASE ~K!Fails(r)
  <2>1. PICK q, row, old :
          /\ q = keepingRequest[r]
          /\ row = [id |-> IF q.held = None THEN r ELSE q.held,
                    owner |-> q.by, area |-> q.what, days |-> q.days]
          /\ old = {w \in watches : w.owner = q.by /\ w.area = q.what}
    OBVIOUS
  <2>2. /\ {w.id : w \in old} = {q.held} \ {None}
        /\ watches' = (watches \ old) \cup {row}
        /\ keepingRequest' = [keepingRequest EXCEPT ![r].pc = "done", ![r].held = row.id]
        /\ UNCHANGED <<searches, word, learningLog, removed>>
    BY <1>3, <2>1 DEF K!Watch, K!Watched
  <2>3. KeepingOK(q)
    BY <2>1
  <2>4. row \in [id : Requests, owner : Users, area : Areas, days : Windows]
    BY <1>1, <2>1, <2>3 DEF KeepingOK
  <2>5. KMoved(r, "done", row.id) /\ KRequestsOK'
    BY <1>1, <2>2, <2>4, Pcs, KHolds DEF KRequestsOK
  <2>6. \A w \in old : w.id = row.id /\ w.owner = row.owner /\ w.area = row.area
    BY <2>1, <2>2
  <2>7. RowsKept
    BY <2>2, <2>6 DEF RowsKept
  <2>8. HeldOK(keepingRequest[r])'
    BY <1>1, <2>5 DEF KMoved, HeldOK
  <2>9. KeptOne(r)'
    <3>1. row \in watches' /\ row.owner = q.by /\ row.area = q.what
      BY <2>1, <2>2
    <3> QED
      BY <2>1, <2>5, <3>1 DEF KMoved, KeptOne
  <2> QED
    BY <2>2, <2>4, <2>5, <2>7, <2>8, <2>9, RowsStep
<1> QED
  BY <1>2, <1>3

LEMMA UnwatchStep == ASSUME KInv, NEW r \in Requests, K!Unwatch(r) PROVE KInv'
<1> USE DEF KInv, KeepingTypeOK
<1>1. keepingRequest[r].kind = "unwatch" /\ keepingRequest[r].pc = "write"
  BY DEF K!Unwatch, K!At
<1>2. PICK gone, by :
        /\ by = keepingRequest[r].by
        /\ gone = {w \in watches : w.id = keepingRequest[r].what /\ w.owner = by}
  OBVIOUS
<1>3. /\ watches' = watches \ gone
      /\ removed' = removed \cup {[id |-> w.id, by |-> by] : w \in gone}
      /\ UNCHANGED <<searches, word, learningLog>>
  BY <1>2 DEF K!Unwatch
<1>4. PICK pc : pc \in {"failed", "done"} /\ K!Goes(r, pc)
  BY DEF K!Unwatch
<1>5. KMoved(r, pc, keepingRequest[r].held) /\ KRequestsOK'
  BY <1>1, <1>4, KGoes DEF KRequestsOK
<1>6. by \in Users
  BY <1>1, <1>2 DEF KeepingOK
<1>7. removed' \subseteq [id : Requests, by : Users]
  BY <1>2, <1>3, <1>6
<1>8. RowsKept
  BY <1>2, <1>3 DEF RowsKept
<1>9. HeldOK(keepingRequest[r])' /\ KeptOne(r)'
  BY <1>1, <1>5 DEF KMoved, HeldOK, KeptOne
<1> QED
  BY <1>3, <1>5, <1>7, <1>8, <1>9, RowsStep

-----------------------------------------------------------------------------
(* The learned word.                                                       *)
LEMMA WordStep ==
    ASSUME KInv, NEW r \in Requests, NEW pc, NEW held, KMoved(r, pc, held), KRequestsOK',
           UNCHANGED <<searches, watches, removed>>,
           keepingRequest[r].kind \in {"learn", "reject", "lookup"},
           word' \in Word, HeldInv', WordInv'
    PROVE  KInv'
<1> USE DEF KInv
<1>1. KeepingTypeOK'
  BY DEF KeepingTypeOK, KRequestsOK
<1>2. RowsKept
  BY DEF RowsKept
<1>3. KeptOne(r)'
  BY DEF KMoved, KeptOne
<1> QED
  BY <1>1, <1>2, <1>3, KeptFrame

LEMMA LookWordStep == ASSUME KInv, NEW r \in Requests, K!LookWord(r) PROVE KInv'
<1> USE DEF KInv, KeepingTypeOK
<1> DEFINE q == keepingRequest[r]
           pc == IF /\ q.kind # "learn"
                    /\ word = None \/ (q.kind = "lookup" /\ word.confidence < 5)
                 THEN "done" ELSE "write"
<1>1. /\ q.kind \in {"learn", "reject", "lookup"} /\ q.pc = "look"
      /\ UNCHANGED <<searches, watches, word, learningLog, removed>>
  BY DEF K!LookWord, K!tables
<1>2. KMoved(r, pc, word) /\ KRequestsOK'
  <2>1. keepingRequest' = [keepingRequest EXCEPT ![r].pc = pc, ![r].held = word]
    BY DEF K!LookWord, KRequestsOK
  <2>2. pc # "idle" /\ pc # "log"
    OBVIOUS
  <2> HIDE DEF pc
  <2> QED
    BY <1>1, <2>1, <2>2, KHolds DEF KRequestsOK
<1>3. KeptOne(r)'
  BY <1>1, <1>2 DEF KMoved, KeptOne
<1>4. pc = "write" /\ (q.kind # "learn" \/ word # None) =>
          word \in Word /\ Within(word.confidence)
  BY DEF WordInv
<1>5. HeldOK(keepingRequest[r])'
  BY <1>1, <1>2, <1>4 DEF KMoved, HeldOK, Within
<1> HIDE DEF pc
<1> QED
  BY <1>1, <1>2, <1>3, <1>5, KQuietStep

LEMMA LearnNewStep == ASSUME KInv, NEW r \in Requests, K!LearnNew(r) PROVE KInv'
<1> USE DEF KInv, KeepingTypeOK
<1>1. /\ keepingRequest[r].kind = "learn" /\ keepingRequest[r].pc = "write"
      /\ keepingRequest[r].held = None
  BY DEF K!LearnNew, K!At
<1>2. CASE word # None
  BY <1>1, <1>2, KFailStep DEF K!LearnNew
<1>3. CASE word = None
  <2>1. /\ word' = [confidence |-> 6, usage |-> 1, confirmed |-> 0, rejected |-> 0]
        /\ UNCHANGED <<searches, watches, learningLog, removed>> /\ K!Goes(r, "log")
    BY <1>3 DEF K!LearnNew
  <2>2. KMoved(r, "log", None) /\ KRequestsOK'
    BY <1>1, <2>1, KGoes DEF KRequestsOK
  <2>3. word' \in Word /\ Within(6)'
    BY <2>1 DEF Word, Within, K!High, K!Low
  <2>4. word \notin Word
    BY <1>3 DEF Apart
  <2>5. HeldInv' /\ WordInv'
    BY <1>1, <2>1, <2>2, <2>3, <2>4 DEF HeldInv, HeldOK, WordInv, KMoved
  <2> QED
    BY <1>1, <2>1, <2>2, <2>3, <2>5, WordStep
<1> QED
  BY <1>2, <1>3

\* Counting one confirmation or rejection more leaves what was within within.
LEMMA WithinGrows ==
    ASSUME word \in Word, word' \in Word,
           word'.confirmed >= word.confirmed, word'.rejected >= word.rejected
    PROVE  \A c : Within(c) => Within(c)'
<1>1. /\ word.confirmed \in Nat /\ word.rejected \in Nat
      /\ word'.confirmed \in Nat /\ word'.rejected \in Nat
  BY DEF Word
<1>2. /\ K!High(0, 6 - 2 * word'.rejected) <= K!High(0, 6 - 2 * word.rejected)
      /\ K!Low(10, 6 + word.confirmed) <= K!Low(10, 6 + word'.confirmed)
      /\ K!High(0, 6 - 2 * word'.rejected) \in Int /\ K!High(0, 6 - 2 * word.rejected) \in Int
      /\ K!Low(10, 6 + word.confirmed) \in Int /\ K!Low(10, 6 + word'.confirmed) \in Int
  BY <1>1 DEF K!High, K!Low
<1>3. ASSUME NEW c, Within(c) PROVE Within(c)'
  <2>1. c \in K!High(0, 6 - 2 * word.rejected) .. K!Low(10, 6 + word.confirmed)
    BY <1>3 DEF Within
  <2>2. c \in K!High(0, 6 - 2 * word'.rejected) .. K!Low(10, 6 + word'.confirmed)
    BY <1>2, <2>1
  <2> QED
    BY <2>2 DEF Within
<1> QED
  BY <1>3

\* A statement on the word by one that has found it.
LEMMA FoundStep ==
    ASSUME KInv, NEW r \in Requests, NEW pc, KMoved(r, pc, keepingRequest[r].held), KRequestsOK',
           UNCHANGED <<searches, watches, learningLog, removed>>,
           keepingRequest[r].kind \in {"learn", "reject", "lookup"}, keepingRequest[r].pc = "write",
           keepingRequest[r].kind # "learn" \/ keepingRequest[r].held # None,
           word' \in Word, word'.confirmed >= word.confirmed, word'.rejected >= word.rejected,
           Within(word.confidence) => Within(word.confidence)',
           pc = IF keepingRequest[r].kind = "lookup" THEN "done" ELSE "log",
           keepingRequest[r].kind = "learn" => word'.confirmed > 0
    PROVE  KInv'
<1> USE DEF KInv, KeepingTypeOK
<1>1. word \in Word /\ word # None
  BY DEF HeldInv, Apart
<1>2. \A c : Within(c) => Within(c)'
  BY <1>1, WithinGrows
<1>3. word.confirmed \in Nat /\ word'.confirmed \in Nat
  BY <1>1 DEF Word
<1>4. ASSUME NEW s \in Requests PROVE HeldOK(keepingRequest[s])'
  <2>1. HeldOK(keepingRequest[s])
    BY DEF HeldInv, HeldOK
  <2>2. CASE s = r
    BY <1>2, <2>1, <2>2 DEF HeldOK, KMoved
  <2>3. CASE s # r
    BY <1>2, <1>3, <2>1, <2>3 DEF HeldOK, KMoved
  <2> QED
    BY <2>2, <2>3
<1>5. HeldInv'
  BY <1>4 DEF HeldInv, HeldOK
<1>6. WordInv'
  <2>1. Within(word.confidence)'
    BY <1>1 DEF WordInv
  <2>2. \A l \in learningLog' : l.action = "confirmed" => word' \in Word /\ word'.confirmed > 0
    BY <1>1, <1>3 DEF WordInv
  <2> QED
    BY <2>1, <2>2 DEF WordInv
<1> QED
  BY <1>5, <1>6, WordStep

LEMMA ConfirmStep == ASSUME KInv, NEW r \in Requests, K!Confirm(r) PROVE KInv'
<1> USE DEF KInv, KeepingTypeOK
<1> DEFINE c == keepingRequest[r].held.confidence
<1>1. /\ keepingRequest[r].kind = "learn" /\ keepingRequest[r].pc = "write"
      /\ keepingRequest[r].held # None
  BY DEF K!Confirm, K!At
<1>2. word \in Word /\ Within(c)
  BY <1>1 DEF HeldInv
<1>3. /\ word' = [word EXCEPT !.confidence = K!Surer(c), !.confirmed = @ + 1, !.usage = @ + 1]
      /\ UNCHANGED <<searches, watches, learningLog, removed>> /\ K!Goes(r, "log")
  BY DEF K!Confirm
<1>4. KMoved(r, "log", keepingRequest[r].held) /\ KRequestsOK'
  BY <1>1, <1>3, KGoes DEF KRequestsOK
<1>5. /\ word.confirmed \in Nat /\ word.rejected \in Nat /\ word.usage \in Nat
      /\ c \in Int
  BY <1>2 DEF Word, Within, K!High, K!Low
<1>6. K!Surer(c) \in K!High(0, 6 - 2 * word.rejected) .. K!Low(10, 6 + (word.confirmed + 1))
  BY <1>2, <1>5 DEF Within, K!Surer, K!High, K!Low
<1>7. K!Surer(c) \in Int
  BY <1>5 DEF K!Surer, K!Low
<1>8. word' \in Word
  <2>1. PICK d : d = K!Surer(c)
    OBVIOUS
  <2>2. word' = [confidence |-> d, usage |-> word.usage + 1, confirmed |-> word.confirmed + 1,
                 rejected |-> word.rejected]
    BY <1>2, <1>3, <2>1 DEF Word
  <2> QED
    BY <1>5, <1>7, <2>1, <2>2 DEF Word
<1>9. /\ word'.confidence = K!Surer(c) /\ word'.confirmed = word.confirmed + 1
      /\ word'.rejected = word.rejected
  BY <1>2, <1>3 DEF Word
<1>10. Within(word.confidence)'
  BY <1>6, <1>9 DEF Within
<1> QED
  BY <1>1, <1>3, <1>4, <1>5, <1>8, <1>9, <1>10, FoundStep

LEMMA RejectStep == ASSUME KInv, NEW r \in Requests, K!Reject(r) PROVE KInv'
<1> USE DEF KInv, KeepingTypeOK
<1> DEFINE c == keepingRequest[r].held.confidence
<1>1. keepingRequest[r].kind = "reject" /\ keepingRequest[r].pc = "write"
  BY DEF K!Reject, K!At
<1>2. word \in Word /\ Within(c)
  BY <1>1 DEF HeldInv
<1>3. /\ word' = [word EXCEPT !.confidence = K!LessSure(c), !.rejected = @ + 1]
      /\ UNCHANGED <<searches, watches, learningLog, removed>> /\ K!Goes(r, "log")
  BY DEF K!Reject
<1>4. KMoved(r, "log", keepingRequest[r].held) /\ KRequestsOK'
  BY <1>1, <1>3, KGoes DEF KRequestsOK
<1>5. word.confirmed \in Nat /\ word.rejected \in Nat /\ c \in Int
  BY <1>2 DEF Word, Within, K!High, K!Low
<1>6. K!LessSure(c) \in K!High(0, 6 - 2 * (word.rejected + 1)) .. K!Low(10, 6 + word.confirmed)
  BY <1>2, <1>5 DEF Within, K!LessSure, K!High, K!Low
<1>7. K!LessSure(c) \in Int
  BY <1>5 DEF K!LessSure, K!High
<1>8. word' \in Word
  <2>1. PICK d : d = K!LessSure(c)
    OBVIOUS
  <2>2. word' = [confidence |-> d, usage |-> word.usage, confirmed |-> word.confirmed,
                 rejected |-> word.rejected + 1]
    BY <1>2, <1>3, <2>1 DEF Word
  <2> QED
    BY <1>2, <1>5, <1>7, <2>1, <2>2 DEF Word
<1>9. /\ word'.confidence = K!LessSure(c) /\ word'.confirmed = word.confirmed
      /\ word'.rejected = word.rejected + 1
  BY <1>2, <1>3 DEF Word
<1>10. Within(word.confidence)'
  BY <1>6, <1>9 DEF Within
<1> QED
  BY <1>1, <1>3, <1>4, <1>5, <1>8, <1>9, <1>10, FoundStep

LEMMA LookupStep == ASSUME KInv, NEW r \in Requests, K!Lookup(r) PROVE KInv'
<1> USE DEF KInv, KeepingTypeOK
<1>1. keepingRequest[r].kind = "lookup" /\ keepingRequest[r].pc = "write"
  BY DEF K!Lookup, K!At
<1>2. word \in Word
  BY <1>1 DEF HeldInv
<1>3. /\ word' = [word EXCEPT !.usage = @ + 1]
      /\ UNCHANGED <<searches, watches, learningLog, removed>> /\ K!Goes(r, "done")
  BY DEF K!Lookup
<1>4. KMoved(r, "done", keepingRequest[r].held) /\ KRequestsOK'
  BY <1>1, <1>3, KGoes DEF KRequestsOK
<1>5. /\ word' \in Word /\ word'.confidence = word.confidence
      /\ word'.confirmed = word.confirmed /\ word'.rejected = word.rejected
      /\ word.confirmed \in Nat /\ word.rejected \in Nat
  BY <1>2, <1>3 DEF Word
<1>6. Within(word.confidence) => Within(word.confidence)'
  BY <1>5 DEF Within
<1> QED
  BY <1>1, <1>3, <1>4, <1>5, <1>6, FoundStep

LEMMA LogStep == ASSUME KInv, NEW r \in Requests, K!Log(r) PROVE KInv'
<1> USE DEF KInv, KeepingTypeOK
<1> DEFINE q == keepingRequest[r]
           line == [by |-> r, action |-> IF q.kind = "reject" THEN "rejected"
                                         ELSE IF q.held = None THEN "auto_learned" ELSE "confirmed"]
<1>1. /\ q.pc = "log" /\ learningLog' = learningLog \cup {line} /\ K!Goes(r, "done")
      /\ UNCHANGED <<searches, watches, word, removed>>
  BY DEF K!Log
<1>2. KMoved(r, "done", q.held) /\ KRequestsOK'
  BY <1>1, KGoes DEF KRequestsOK
<1>3. HeldInv'
  BY <1>1, <1>2 DEF HeldInv, Within, KMoved
<1>4. line.action = "confirmed" => q.kind # "reject" /\ q.held # None
  OBVIOUS
<1>5. q.kind \in {"learn", "reject"}
  BY <1>1 DEF KeepingOK
<1>6. line.action = "confirmed" => word \in Word /\ word.confirmed > 0
  BY <1>1, <1>4, <1>5 DEF HeldInv
<1> HIDE DEF line
<1>7. WordInv'
  BY <1>1, <1>6 DEF WordInv, Within
<1>8. KeepingTypeOK'
  BY <1>1, <1>2 DEF KRequestsOK
<1>9. RowsKept
  BY <1>1 DEF RowsKept
<1>10. KeptOne(r)'
  BY <1>2, <1>5 DEF KMoved, KeptOne
<1> QED
  BY <1>2, <1>3, <1>7, <1>8, <1>9, <1>10, KeptFrame

LEMMA KStopStep == ASSUME KInv, NEW r \in Requests, K!Stop(r) PROVE KInv'
BY KFailStep DEF K!Stop, K!Ended

-----------------------------------------------------------------------------
(* The theorem.                                                            *)
LEMMA KInitial == ASSUME Apart, K!Init PROVE KInv
BY DEF K!Init, KInv, KeepingTypeOK, KeepingOK, HeldInv, WordInv, K!KeptIsHers

LEMMA KInductive == ASSUME KInv, [K!Next]_K!vars PROVE KInv'
<1>1. CASE UNCHANGED K!vars
  BY <1>1 DEF K!vars, K!tables, KInv, KeepingTypeOK, KeepingOK, HeldInv, WordInv, Within,
              K!KeptIsHers
<1>2. ASSUME NEW r \in Requests,
             \/ K!Ask(r) \/ K!LookSearch(r) \/ K!Save(r) \/ K!Unsave(r)
             \/ K!LookWatch(r) \/ K!Watch(r) \/ K!Unwatch(r)
             \/ K!LookWord(r) \/ K!LearnNew(r) \/ K!Confirm(r) \/ K!Reject(r)
             \/ K!Lookup(r) \/ K!Log(r) \/ K!Stop(r)
      PROVE  KInv'
  BY <1>2, KAskStep, LookSearchStep, SaveStep, UnsaveStep, LookWatchStep, WatchStep, UnwatchStep,
     LookWordStep, LearnNewStep, ConfirmStep, RejectStep, LookupStep, LogStep, KStopStep
<1> QED
  BY <1>1, <1>2 DEF K!Next

LEMMA KImplies == ASSUME KInv PROVE K!KeptAsTold
<1>1. ASSUME word # None PROVE word \in Word /\ Within(word.confidence)
  BY <1>1 DEF KInv, KeepingTypeOK, WordInv
<1>2. ASSUME word # None, NEW r \in Requests,
             [by |-> r, action |-> "confirmed"] \in learningLog
      PROVE  word.confirmed > 0
  BY <1>2 DEF KInv, WordInv
<1> QED
  BY <1>1, <1>2 DEF KInv, K!KeptAsTold, K!ConfidenceWithin, Within

\* What is told to be kept is kept until she removes it, and the confidence of a
\* term stays between what its rejections and its confirmations make of it,
\* for any users, searches, areas and number of requests at once
\* (BuyerSavedSearchService.create, OwnerMarketWatchService.create,
\* VocabularyService.learn and reject).  None must be no row of the vocabulary.
THEOREM KeptForHer == None \notin Word => (K!Spec => []KeptAsTold)
<1>1. Apart /\ K!Init => KInv
  BY KInitial
<1>2. KInv /\ [K!Next]_K!vars => KInv'
  BY KInductive
<1>3. KInv => KeptAsTold
  BY KImplies DEF KeptAsTold
<1>4. (None \notin Word) <=> Apart
  BY DEF Apart
<1> QED
  BY <1>1, <1>2, <1>3, <1>4, PTL DEF K!Spec
=============================================================================
