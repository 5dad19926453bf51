----------------------------- MODULE MCBuyerChat -----------------------------
(* One conversation of three messages; four flats and a house, three of the *)
(* flats candidates at a time, two of them shown.                           *)
EXTENDS BuyerChat, TLC

CONSTANTS t1, t2, t3, s1

Listing(district, type, area, price, updated, age) ==
    [city |-> "damascus", district |-> district, type |-> type, area |-> area,
     price |-> price, updated |-> updated, age |-> age]
MCListings == << Listing("mazzeh", "APARTMENT", 120, 280, 1, 170),
                 Listing("mazzeh", "APARTMENT", 110, 330, 2, 90),
                 Listing("mazzeh", "APARTMENT", 125, 262, 3, 10),
                 Listing("mazzeh", "APARTMENT", 130, 305, 4, 0),
                 Listing("kafr_souseh", "HOUSE", 100, 310, 5, 30) >>
MCTrends == {[d \in {"mazzeh", "kafr_souseh"} |-> "UP"],
             [d \in {"mazzeh", "kafr_souseh"} |-> IF d = "mazzeh" THEN "error" ELSE "DOWN"]}

Text(signals, words) ==
    [signals |-> signals, topic |-> None, advisor |-> "GENERAL",
     refines |-> words # {}, finds |-> FALSE, recommends |-> FALSE, reuses |-> FALSE, areas |-> 0,
     words |-> words, says |-> Query, extract |-> Property]
Seek(district, type, area, budget) ==
    [Text({"estate", "search", "place"}, {}) EXCEPT
        !.topic = "PROPERTY_SEARCH", !.finds = TRUE,
        !.says = [city |-> "damascus", district |-> district, type |-> type,
                  area |-> area, budget |-> budget],
        !.extract = [city |-> "damascus", district |-> district, type |-> type,
                     area |-> area, ask |-> 0]]

(* A search with everything, one with a place and a type; "this, cheaper", *)
(* "these, by the lowest price", "prices in Kafr Souseh", "a cheaper       *)
(* villa" (which has the letters of a no), "is 290 a good price for it".   *)
MCMessages ==
    {Seek("mazzeh", "APARTMENT", 120, 300),
     Seek("kafr_souseh", "HOUSE", 0, 0),
     Text({"followUp"}, {"cheaper"}),
     Text({"followUp"}, {"cheaper", "byPrice"}),
     [Text({"estate", "price"}, {}) EXCEPT !.topic = "PRICE_ESTIMATION", !.says.district = "kafr_souseh",
        !.extract.district = "kafr_souseh"],
     [Text({"estate", "search", "no"}, {"cheaper"}) EXCEPT
        !.topic = "PROPERTY_SEARCH", !.finds = TRUE, !.says.type = "VILLA", !.extract.type = "VILLA"],
     [Text({"followUp", "price"}, {}) EXCEPT !.advisor = "PROPERTY_EVALUATION", !.reuses = TRUE,
        !.extract.ask = 290]}

MCSymmetry == Permutations(Turns)
=============================================================================
