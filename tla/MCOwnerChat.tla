---------------------------- MODULE MCOwnerChat ----------------------------
(* Two properties, and what an owner says of each.                          *)
EXTENDS OwnerChat, TLC

CONSTANTS p1, p2

Say(p, what, fresh) == [about |-> p, tells |-> what, fresh |-> fresh, short |-> FALSE, pid |-> None]

(* A first property offered without its building details, and the reply of  *)
(* an owner who has none to give; a second one offered in one message, its  *)
(* district known from its row only, whenever the owner likes: when the     *)
(* first is priced, before, or with its answer still to come.               *)
ChatMessages ==
    {Say(p1, {"district", "area", "ownership", "legal"}, TRUE),
     [Say(p1, {}, FALSE) EXCEPT !.short = TRUE],
     [Say(p2, {"area", "ownership", "legal", "building"}, TRUE) EXCEPT !.pid = p2]}

(* Each property offered in one message, the second without its district.   *)
SerialMessages ==
    {Say(p1, {"district", "area", "ownership", "legal", "building"}, TRUE),
     Say(p2, {"area", "ownership", "legal", "building"}, TRUE)}

(* The requests differ in nothing but their names.                             *)
Interchangeable == Permutations(Reqs)
=============================================================================
