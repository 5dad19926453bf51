------------------------------- MODULE Office -------------------------------
(***************************************************************************)
(* The listings and the desk: PropertyService, OpsService,                 *)
(* AppointmentsService, TicketsService and NotificationsService over the   *)
(* tables they share.  A request is one call of a controller; its          *)
(* statements interleave with those of the others, and it may end after    *)
(* any of them.  An identifier is never given twice.                       *)
(*                                                                         *)
(* The body of an owner's form is not typed and goes to the database as it *)
(* came, but for ownerId: it may connect the listing to another owner.     *)
(* What else such a body could connect or write is left out.               *)
(*                                                                         *)
(* Left out: texts, prices, dates and the lists, which only read; mails,   *)
(* whose errors are swallowed; the users, who stay.                        *)
(***************************************************************************)
EXTENDS Naturals, FiniteSets, Sequences

CONSTANTS
    None, Gone,      \* a row that is not there yet, or no more
    Requests, Users, Streams,
    Uploads,         \* images of the owners' own
    Ids,             \* identifiers of a table
    Operations,      \* what may be asked: [does, by, on, with]
    Draws            \* what randInt and chance give buildPlan

Types == {"APARTMENT", "HOUSE", "VILLA", "STUDIO", "LAND"}
Statuses == {"PENDING", "APPROVED", "COMPLETED", "CANCELLED"}
TicketStatuses == {"OPEN", "IN_PROGRESS", "COMPLETED", "CANCELLED"}
Kinds == {"list", "updateOwned", "update", "removeOwned", "remove", "regenerate",
          "book", "decide", "unbook", "read", "ticket", "status", "unticket"}

(* The forms of a listing and of a ticket, and the rows; what a form does  *)
(* not say is None.  A form names an owner by id or by a connection.  That *)
(* a listing changed hands is history: how often, in its row, and in a     *)
(* request of its owner how often it had when she was looked up.           *)
Form == [owner : Users, connect : Users \cup {None}, type : Types \cup {None},
         image : Uploads \cup {None}]
TicketForm == [property : Ids \cup {None}, status : TicketStatuses \cup {None}]
Listing == [owner : Users, hands : Nat, type : Types,
            image : Requests \cup Uploads \cup {None}]
Appointed == [client : Users, property : Ids, status : Statuses]
Ticketed == [client : Users, property : Ids, status : TicketStatuses]
Connected == [user : Users, open : BOOLEAN, listed : BOOLEAN, heard : SUBSET Requests]

ASSUME OfficeAssumption ==
    /\ IsFiniteSet(Ids) /\ Ids = 1 .. Cardinality(Ids) /\ 1 \in Ids
    /\ None # Gone
    /\ None \notin Requests /\ None \notin Types /\ None \notin TicketStatuses /\ None \notin Ids
    /\ Uploads \cap Requests = {} /\ None \notin Connected
    /\ \A row \in {None, Gone} : row \notin Listing /\ row \notin Appointed /\ row \notin Ticketed
    /\ \A op \in Operations :
          /\ op = [does |-> op.does, by |-> op.by, on |-> op.on, with |-> op.with]
          /\ op.does \in Kinds /\ op.by \in Users /\ op.on \in Ids
          /\ op.does \in {"list", "update", "updateOwned"} => op.with \in Form
          /\ op.does = "status" => op.with \in TicketForm

VARIABLES
    property,      \* Property: [owner, type, image]
    images,        \* PropertyImage: [by, order, room] of each property
    opsLog,        \* PropertyOpsLog: [by, does, on]
    appointment,   \* Appointment: [client, property, status]
    ticket,        \* MaintenanceTicket: [client, property, status]
    ticketLog,     \* Ticketlog: [by, ticket]
    notification,  \* Notification: [by, user, read, due]; due are the streams open then
    stream,        \* the event streams: None, or [user, open, listed, heard]; sseClients lists some
    request

tables == <<property, images, opsLog, appointment, ticket, ticketLog, notification>>
vars == <<property, images, opsLog, appointment, ticket, ticketLog, notification, stream, request>>

There(table, i) == i \in DOMAIN table /\ table[i] \notin {None, Gone}
NextId(table, i) == table[i] = None /\ \A j \in 1 .. i - 1 : table[j] # None
Asking(r, does, pc) == request[r].does = does /\ request[r].pc = pc
Goes(r, pc) == request' = [request EXCEPT ![r].pc = pc]
Fails(r) == Goes(r, "failed") /\ UNCHANGED <<tables, stream>>

Init ==
    /\ \E u \in Users :
        property = [i \in Ids |-> IF i = 1
            THEN [owner |-> u, hands |-> 0, type |-> "VILLA", image |-> None] ELSE None]
    /\ images = [i \in Ids |-> {}]
    /\ opsLog = {}
    /\ appointment = [i \in Ids |-> None]
    /\ ticket = [i \in Ids |-> None]
    /\ ticketLog = {}
    /\ notification = {}
    /\ stream = [s \in Streams |-> None]
    /\ request = [r \in Requests |-> [pc |-> "idle", does |-> None, by |-> None, on |-> 1,
                                       with |-> None, hands |-> 0]]

(* An owner's form without a type makes the listing a HOUSE; the form of   *)
(* an administrator is typed, and has no connection.                       *)
MapType(op) ==
    CASE op.does \in {"list", "updateOwned"} /\ op.with.type = None ->
             [op.with EXCEPT !.type = "HOUSE"]
      [] op.does = "update" -> [op.with EXCEPT !.connect = None]
      [] OTHER -> op.with

(* The owner's routes look first whether the listing is hers.              *)
Ask(r) ==
    /\ request[r].pc = "idle"
    /\ \E op \in Operations :
        request' = [request EXCEPT ![r] =
            [pc |-> CASE op.does \in {"updateOwned", "removeOwned"} -> "own"
                      [] op.does = "regenerate" -> "find"
                      [] OTHER -> "write",
             does |-> op.does, by |-> op.by, on |-> op.on, with |-> MapType(op),
             hands |-> 0]]
    /\ UNCHANGED <<tables, stream>>

-----------------------------------------------------------------------------
(* Listings.                                                               *)
Own(r) ==
    LET q == request[r]
    IN /\ q.pc = "own"
       /\ IF There(property, q.on) /\ property[q.on].owner = q.by
          THEN request' = [request EXCEPT ![r].pc = "write", ![r].hands = property[q.on].hands]
          ELSE Goes(r, "failed")
       /\ UNCHANGED <<tables, stream>>

(* With the owner's id set, a connection to an owner is refused.           *)
List(r) ==
    /\ Asking(r, "list", "write")
    /\ IF request[r].with.connect = None
       THEN /\ \E i \in Ids :
                 /\ NextId(property, i)
                 /\ property' = [property EXCEPT ![i] =
                                   [owner |-> request[r].by, hands |-> 0,
                                    type |-> request[r].with.type,
                                    image |-> request[r].with.image]]
                 /\ request' = [request EXCEPT ![r].pc = "record", ![r].on = i]
            /\ UNCHANGED <<images, opsLog, appointment, ticket, ticketLog, notification, stream>>
       ELSE Fails(r)

(* The id of the owner in a form is dropped, a connection is not.          *)
(* Mutant: the fields of the form are written as they come.                *)
BadPayload(row, form) == [row EXCEPT !.owner = form.owner]
Payload(row, form) ==
    LET owner == IF form.connect = None THEN row.owner ELSE form.connect
    IN [owner |-> owner, hands |-> IF owner = row.owner THEN row.hands ELSE row.hands + 1,
        type |-> IF form.type = None THEN row.type ELSE form.type,
        image |-> IF form.image = None THEN row.image ELSE form.image]

Update(r) ==
    LET q == request[r]
    IN /\ q.does \in {"update", "updateOwned"} /\ q.pc = "write"
       /\ IF There(property, q.on)
          THEN /\ property' = [property EXCEPT ![q.on] = Payload(@, q.with)]
               /\ Goes(r, "record")
               /\ UNCHANGED <<images, opsLog, appointment, ticket, ticketLog, notification, stream>>
          ELSE Fails(r)

(* Appointments and tickets keep their listing; its images go with it.     *)
Held(i) ==
    \/ \E a \in Ids : There(appointment, a) /\ appointment[a].property = i
    \/ \E t \in Ids : There(ticket, t) /\ ticket[t].property = i
Remove(r) ==
    LET q == request[r]
    IN /\ q.does \in {"remove", "removeOwned"} /\ q.pc = "write"
       /\ IF There(property, q.on) /\ ~Held(q.on)
          THEN /\ property' = [property EXCEPT ![q.on] = Gone]
               /\ images' = [images EXCEPT ![q.on] = {}]
               /\ Goes(r, "record")
               /\ UNCHANGED <<opsLog, appointment, ticket, ticketLog, notification, stream>>
          ELSE Fails(r)

Line(r) == [by |-> r, does |-> request[r].does, on |-> request[r].on]
Record(r) ==
    /\ request[r].pc = "record"
    /\ opsLog' = opsLog \cup {Line(r)}
    /\ request' = [request EXCEPT ![r].pc = IF request[r].does = "list" THEN "store" ELSE "done",
                                  ![r].with = request[r].by]
    /\ UNCHANGED <<property, images, appointment, ticket, ticketLog, notification, stream>>

-----------------------------------------------------------------------------
(* Pictures.  Rooms by type: a plot of land has them too.                  *)
Bedrooms(type) == CASE type = "VILLA" -> 3 .. 6 [] type = "HOUSE" -> 2 .. 5 [] OTHER -> 1 .. 4
Bathrooms(type) == CASE type = "VILLA" -> 2 .. 4 [] type = "HOUSE" -> 1 .. 3 [] OTHER -> 1 .. 2
Extra(room, draw) == IF room \in draw.extras THEN <<room>> ELSE <<>>
Plan(draw) ==
    <<"LIVING", "LIVING", "KITCHEN">>
    \o [i \in 1 .. draw.bathrooms |-> "BATHROOM"]
    \o [i \in 1 .. (IF draw.bedrooms < 4 THEN draw.bedrooms ELSE 4) |-> "BEDROOM"]
    \o Extra("EXTERIOR", draw) \o Extra("BALCONY", draw) \o Extra("DINING", draw)
Pictures(r, plan) == {[by |-> r, order |-> i, room |-> plan[i]] : i \in DOMAIN plan}

FindType(r) ==
    LET q == request[r]
    IN /\ Asking(r, "regenerate", "find")
       /\ IF There(property, q.on)
          THEN request' = [request EXCEPT ![r].pc = "write", ![r].with = property[q.on].type]
          ELSE Goes(r, "failed")
       /\ UNCHANGED <<tables, stream>>

(* Mutant: the pictures of before are left where they are.                 *)
BadReplaced(old, new) == old \cup new
Replaced(old, new) == new

(* One transaction; without the listing it is undone.                      *)
Regenerate(r) ==
    LET q == request[r]
    IN /\ Asking(r, "regenerate", "write")
       /\ IF There(property, q.on)
          THEN /\ \E draw \in Draws :
                    /\ draw.bedrooms \in Bedrooms(q.with) /\ draw.bathrooms \in Bathrooms(q.with)
                    /\ images' = [images EXCEPT ![q.on] = Replaced(@, Pictures(r, Plan(draw)))]
               /\ property' = [property EXCEPT ![q.on].image = r]
               /\ opsLog' = opsLog \cup {Line(r)}
               /\ Goes(r, "done")
               /\ UNCHANGED <<appointment, ticket, ticketLog, notification, stream>>
          ELSE Fails(r)

-----------------------------------------------------------------------------
(* Appointments.  The client is told of a cancellation; CONFIRMED, which   *)
(* she would be told of as well, is no status the table has.               *)
Book(r) ==
    LET q == request[r]
    IN /\ Asking(r, "book", "write")
       /\ IF There(property, q.on)
          THEN /\ \E i \in Ids :
                    /\ NextId(appointment, i)
                    /\ appointment' = [appointment EXCEPT ![i] =
                                         [client |-> q.by, property |-> q.on, status |-> "PENDING"]]
               /\ Goes(r, "owner")
               /\ UNCHANGED <<property, images, opsLog, ticket, ticketLog, notification, stream>>
          ELSE Fails(r)

FindOwner(r) ==
    LET q == request[r]
    IN /\ q.pc = "owner"
       /\ IF There(property, q.on)
          THEN request' = [request EXCEPT ![r].pc = "store", ![r].with = property[q.on].owner]
          ELSE Goes(r, "done")
       /\ UNCHANGED <<tables, stream>>

Decide(r) ==
    LET q == request[r]
    IN /\ Asking(r, "decide", "write")
       /\ IF There(appointment, q.on) /\ q.with \in Statuses
          THEN /\ appointment' = [appointment EXCEPT ![q.on].status = q.with]
               /\ request' = [request EXCEPT
                    ![r].pc = IF q.with = "CANCELLED" THEN "store" ELSE "done",
                    ![r].with = appointment[q.on].client]
               /\ UNCHANGED <<property, images, opsLog, ticket, ticketLog, notification, stream>>
          ELSE Fails(r)

Unbook(r) ==
    LET q == request[r]
    IN /\ Asking(r, "unbook", "write")
       /\ IF There(appointment, q.on)
          THEN /\ appointment' = [appointment EXCEPT ![q.on] = Gone]
               /\ Goes(r, "done")
               /\ UNCHANGED <<property, images, opsLog, ticket, ticketLog, notification, stream>>
          ELSE Fails(r)

-----------------------------------------------------------------------------
(* Notifications: stored, then pushed to the streams of the user.  What    *)
(* fails here is swallowed by the caller.                                  *)
Listening(u) == {s \in Streams : stream[s] # None /\ stream[s].listed /\ stream[s].user = u}

Store(r) ==
    LET q == request[r]
    IN /\ q.pc = "store"
       /\ notification' = notification \cup
            {[by |-> r, user |-> q.with, read |-> FALSE, due |-> Listening(q.with)]}
       /\ Goes(r, "push")
       /\ UNCHANGED <<property, images, opsLog, appointment, ticket, ticketLog, stream>>
Unstored(r) == request[r].pc = "store" /\ Goes(r, "done") /\ UNCHANGED <<tables, stream>>

(* A stream that cannot be written to is forgotten.                        *)
Push(r) ==
    LET q == request[r]
    IN /\ q.pc = "push"
       /\ \E broken \in SUBSET Listening(q.with) :
            stream' = [s \in Streams |->
                IF s \in broken THEN [stream[s] EXCEPT !.open = FALSE, !.listed = FALSE]
                ELSE IF s \in Listening(q.with) THEN [stream[s] EXCEPT !.heard = @ \cup {r}]
                ELSE stream[s]]
       /\ Goes(r, "done")
       /\ UNCHANGED tables

ReadAll(r) ==
    /\ Asking(r, "read", "write")
    /\ notification' = {IF n.user = request[r].by THEN [n EXCEPT !.read = TRUE] ELSE n :
                            n \in notification}
    /\ Goes(r, "done")
    /\ UNCHANGED <<property, images, opsLog, appointment, ticket, ticketLog, stream>>

Open(s) ==
    /\ stream[s] = None
    /\ \E u \in Users :
            stream' = [stream EXCEPT ![s] =
                          [user |-> u, open |-> TRUE, listed |-> TRUE, heard |-> {}]]
    /\ UNCHANGED <<tables, request>>

(* Mutant: with one stream, all streams of the user are forgotten.         *)
BadForgotten(s) == Listening(stream[s].user)
Forgotten(s) == {s}
Close(s) ==
    /\ stream[s] # None /\ stream[s].open
    /\ stream' = [t \in Streams |->
          IF t \in Forgotten(s) THEN [stream[t] EXCEPT !.open = (t # s), !.listed = FALSE]
          ELSE stream[t]]
    /\ UNCHANGED <<tables, request>>

-----------------------------------------------------------------------------
(* Tickets.                                                                *)
OpenTicket(r) ==
    LET q == request[r]
    IN /\ Asking(r, "ticket", "write")
       /\ IF There(property, q.on)
          THEN /\ \E i \in Ids :
                    /\ NextId(ticket, i)
                    /\ ticket' = [ticket EXCEPT ![i] =
                                    [client |-> q.by, property |-> q.on, status |-> "OPEN"]]
                    /\ request' = [request EXCEPT ![r].pc = "trace", ![r].on = i]
               /\ UNCHANGED <<property, images, opsLog, appointment, ticketLog, notification,
                              stream>>
          ELSE Fails(r)

(* Any status may follow any other, and the listing may change.            *)
Changed(row, form) ==
    [row EXCEPT !.property = IF form.property = None THEN @ ELSE form.property,
                !.status = IF form.status = None THEN @ ELSE form.status]
ChangeTicket(r) ==
    LET q == request[r]
    IN /\ Asking(r, "status", "write")
       /\ IF There(ticket, q.on) /\ (q.with.property = None \/ There(property, q.with.property))
          THEN /\ ticket' = [ticket EXCEPT ![q.on] = Changed(@, q.with)]
               /\ Goes(r, "trace")
               /\ UNCHANGED <<property, images, opsLog, appointment, ticketLog, notification,
                              stream>>
          ELSE Fails(r)

(* Mutant: every line of the table goes.                                   *)
BadLinesOf(t) == ticketLog
LinesOf(t) == {l \in ticketLog : l.ticket = t}
RemoveTicket(r) ==
    LET q == request[r]
    IN /\ Asking(r, "unticket", "write")
       /\ IF There(ticket, q.on)
          THEN /\ ticketLog' = ticketLog \ LinesOf(q.on)
               /\ ticket' = [ticket EXCEPT ![q.on] = Gone]
               /\ Goes(r, "done")
               /\ UNCHANGED <<property, images, opsLog, appointment, notification, stream>>
          ELSE Fails(r)

(* addLog looks for the ticket first.  Whatever goes wrong there, a ticket *)
(* that is gone or a statement that fails, is swallowed: the request is    *)
(* answered as if the line had been added.                                 *)
Trace(r) ==
    /\ request[r].pc = "trace" /\ There(ticket, request[r].on)
    /\ Goes(r, "line")
    /\ UNCHANGED <<tables, stream>>
AddLine(r) ==
    LET q == request[r]
    IN /\ q.pc = "line" /\ There(ticket, q.on)
       /\ ticketLog' = ticketLog \cup {[by |-> r, ticket |-> q.on]}
       /\ Goes(r, "done")
       /\ UNCHANGED <<property, images, opsLog, appointment, ticket, notification, stream>>
Untraced(r) ==
    /\ request[r].pc \in {"trace", "line"}
    /\ Goes(r, "untraced")
    /\ UNCHANGED <<tables, stream>>

-----------------------------------------------------------------------------
Ended(r) == request[r].pc \in {"idle", "done", "untraced", "failed"}
Stop(r) == ~Ended(r) /\ Fails(r)

Next ==
    \/ \E r \in Requests :
        \/ Ask(r) \/ Own(r) \/ List(r) \/ Update(r) \/ Remove(r) \/ Record(r)
        \/ FindType(r) \/ Regenerate(r)
        \/ Book(r) \/ FindOwner(r) \/ Decide(r) \/ Unbook(r)
        \/ Store(r) \/ Unstored(r) \/ Push(r) \/ ReadAll(r)
        \/ OpenTicket(r) \/ ChangeTicket(r) \/ RemoveTicket(r) \/ Trace(r) \/ AddLine(r)
        \/ Untraced(r) \/ Stop(r)
    \/ \E s \in Streams : Open(s) \/ Close(s)

Spec == Init /\ [][Next]_vars

-----------------------------------------------------------------------------
Drawn(i) == {x.by : x \in images[i]}
OnePlan(i) ==
    /\ {x.order : x \in images[i]} = 1 .. Cardinality(images[i])
    /\ Cardinality(Drawn(i)) < 2
    /\ Drawn(i) # {} => There(property, i)
    /\ \A r \in Drawn(i) : Line(r) \in opsLog /\ request[r].on = i
    /\ There(property, i) /\ property[i].image \in Requests => Drawn(i) = {property[i].image}

(* The pictures of a listing are one plan, drawn by one request that the   *)
(* log names, however many are drawn at once; the cover is one of them, or *)
(* an upload; a listing that is gone leaves none.  (OpsService, one        *)
(* transaction for pictures, cover and log; PropertyImage cascades.)       *)
Pictured == \A i \in Ids : OnePlan(i)

(* The logs and the tables agree on what happened.  A line of either log   *)
(* is of what was done: a removal's of a listing that is gone, a ticket's  *)
(* of a ticket that is still there (none outlives it) and of a request     *)
(* that opened or changed it.  Every listing was made by a request, and    *)
(* one that is gone was removed by one.  And only a request that was cut   *)
(* short on a listing, or whose addLog failed, is missing: one on a        *)
(* listing that came past its log has its line there, one on a ticket      *)
(* keeps its line until the ticket goes, whoever removes other tickets.    *)
(* (logPropertyOperation comes after its statement, addLog as well.)       *)
Accounted ==
    /\ \A l \in opsLog : property[l.on] # None
                       /\ (l.does \in {"remove", "removeOwned"} => property[l.on] = Gone)
    /\ \A l \in ticketLog : /\ There(ticket, l.ticket)
                          /\ request[l.by].does \in {"ticket", "status"}
                          /\ request[l.by].on = l.ticket
    /\ \A i \in Ids : property[i] # None =>
          i = 1 \/ \E r \in Requests : request[r].does = "list" /\ request[r].on = i
    /\ \A i \in Ids : property[i] = Gone =>
          \E r \in Requests : request[r].does \in {"remove", "removeOwned"} /\ request[r].on = i
    /\ \A r \in Requests :
          /\ request[r].does \in {"list", "update", "updateOwned", "remove", "removeOwned",
                                 "regenerate"}
          /\ request[r].pc \in {"store", "push", "done"}
          => Line(r) \in opsLog
    /\ \A r \in Requests :
          /\ request[r].does \in {"ticket", "status"} /\ request[r].pc = "done"
          /\ There(ticket, request[r].on)
          => [by |-> r, ticket |-> request[r].on] \in ticketLog

(* Whoever comes by an owner's route changes or removes only a listing     *)
(* that is hers, or that changed hands after she was looked up, by an      *)
(* earlier statement.  And a listing changes hands only by the route of an *)
(* owner, to whom its form connects: the id of an owner in a form, hers or *)
(* an administrator's, changes nothing.                                    *)
(* (getOwnedPropertyOrThrow; update drops ownerId.)                        *)
OnlyOwnersTouch ==
    [][/\ \A r \in Requests, i \in Ids :
             /\ request[r].does \in {"updateOwned", "removeOwned"} /\ request[r].pc = "write"
             /\ request'[r].pc = "record" /\ request[r].on = i
             => property[i].owner = request[r].by \/ property[i].hands # request[r].hands
       /\ \A i \in Ids :
             /\ There(property, i) /\ There(property, i)'
             /\ property'[i].owner # property[i].owner
             => \E r \in Requests :
                    /\ request[r].does = "updateOwned" /\ request[r].pc = "write"
                    /\ request'[r].pc = "record" /\ request[r].on = i
                    /\ request[r].with.connect = property'[i].owner]_vars

(* A stream that was open when a notification of its user was stored, and  *)
(* still is, has heard it once the request went on, whichever other        *)
(* streams broke or closed meanwhile; and none hears of another user.      *)
StreamsHear ==
    /\ \A n \in notification : request[n.by].pc = "done" =>
          \A s \in n.due : stream[s].open => n.by \in stream[s].heard
    /\ \A s \in Streams : stream[s] # None => \A r \in stream[s].heard :
          \E n \in notification : n.by = r /\ n.user = stream[s].user
=============================================================================
