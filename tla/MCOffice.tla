------------------------------ MODULE MCOffice ------------------------------
(* Three requests of two users over two listings, appointments and tickets; *)
(* the first listing has an owner.  And three requests on what users keep,  *)
(* which shares no table with these: in a behavior one of the two moves.    *)
EXTENDS Desk, TLC

CONSTANTS r1, r2, r3, s1, s2, o1, o2, upload

Asked(does, by, on, with) == [does |-> does, by |-> by, on |-> on, with |-> with]
Filled(owner, connect, type, image) ==
    [owner |-> owner, connect |-> connect, type |-> type, image |-> image]
MCOperations ==
    {Asked("list", o1, 1, Filled(o1, None, "APARTMENT", upload)),
     Asked("list", o1, 1, Filled(o1, o2, None, None)),
     Asked("updateOwned", o1, 1, Filled(o2, None, None, upload)),
     Asked("updateOwned", o1, 1, Filled(o1, o2, None, None)),
     Asked("update", o2, 1, Filled(o2, o2, None, None)),
     Asked("removeOwned", o1, 1, None),
     Asked("remove", o2, 1, None),
     Asked("regenerate", o2, 1, None),
     Asked("book", o2, 1, None),
     Asked("decide", o1, 1, "CANCELLED"),
     Asked("decide", o1, 1, "CONFIRMED"),
     Asked("unbook", o2, 1, None),
     Asked("read", o1, 1, None),
     Asked("ticket", o2, 1, None),
     Asked("status", o1, 1, [property |-> 2, status |-> None]),
     Asked("status", o1, 1, [property |-> None, status |-> "COMPLETED"]),
     Asked("unticket", o1, 2, None)}
MCDraws == {[bedrooms |-> 3, bathrooms |-> 2, extras |-> {"EXTERIOR"}],
            [bedrooms |-> 1, bathrooms |-> 1, extras |-> {}]}

VARIABLE part

MCInit ==
    /\ part \in {"office", "keeping"}
    /\ Init /\ K!Init
    /\ part = "keeping" => property[1].owner = o1
MCNext ==
    /\ UNCHANGED part
    /\ \/ part = "office" /\ Next /\ UNCHANGED keepingVars
       \/ part = "keeping" /\ K!Next /\ UNCHANGED vars
MCSpec == MCInit /\ [][MCNext]_<<part, vars, keepingVars>>

MCSymmetry == Permutations(Requests) \cup Permutations(Streams)
=============================================================================
