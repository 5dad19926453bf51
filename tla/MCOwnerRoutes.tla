--------------------------- MODULE MCOwnerRoutes ---------------------------
(* The turns of MCOwnerChat, and the routing of the messages of one owner:  *)
(* in a behavior one of the two moves.                                      *)
EXTENDS MCOwnerChat, OwnerTalk

VARIABLE part

(* A message in which only what is given stands out.                        *)
Wording(kind, tells, traits) ==
    [kind |-> kind, tells |-> tells,
     listing |-> IF "sell" \in traits THEN "sell" ELSE IF "buy" \in traits THEN "buy" ELSE "none",
     offers |-> "offers" \in traits, hunts |-> "hunts" \in traits,
     short |-> "short" \in traits, named |-> "named" \in traits,
     fresh |-> "fresh" \in traits]

(* Every kind of message once, and the facts of a property together or      *)
(* piece by piece, with and without a word of real estate.                  *)
RouteTalk ==
    {Wording(k, {}, {}) : k \in {"hello", "thanks", "offtopic", "yesno"}}
        \cup {Wording(k, {}, {"named"}) :
                 k \in {"desk", "chat", "compare", "news", "areas", "search", "summary",
                        "vague", "faq", "deal", "better", "plain"}}
        \cup {Wording("closure", {}, {"short"}),
              Wording("heatmap", {"city"}, {"named"}),
              Wording("evaluate", {}, {"named", "offers", "short"}),
              Wording("evaluate", {"type", "price"}, {"named", "offers"}),
              Wording("deal", {"district", "area", "price"}, {"named"}),
              Wording("pin", {"city", "district"}, {"named"}),
              Wording("plain", {"city"}, {"named", "short"}),
              Wording("plain", {"district"}, {"named", "short"}),
              Wording("plain", {"type"}, {"named", "hunts", "buy"}),
              Wording("plain", {"area"}, {}),
              Wording("plain", {"price"}, {}),
              Wording("plain", {"type", "area"}, {"named", "sell", "fresh"})}

(* Two requests at a time hold what they read of the row.                   *)
InFlight == Cardinality(Holders) <= 2

MCInit == part \in {"turns", "routes"} /\ Init /\ R!Init
MCNext ==
    /\ UNCHANGED part
    /\ \/ part = "turns" /\ Next /\ InFlight' /\ UNCHANGED routeVars
       \/ part = "routes" /\ R!Next /\ UNCHANGED vars
MCSpec == MCInit /\ [][MCNext]_<<part, vars, routeVars>>
=============================================================================
