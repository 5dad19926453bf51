------------------------------ MODULE MCMarket ------------------------------
(* Market with a bulk line and a dated admin line in one area, and one more *)
(* of each in another.  And three requests on the external market data,     *)
(* which have tables of their own: in a behavior one of the two moves.      *)
(* The requests on the market data begin once the first half day is over,   *)
(* the one the dated line is of: a window of a day can then leave it out.   *)
EXTENDS MarketData, TLC

CONSTANTS r1, r2, r3, bulk1, bulk2, dated, undated, north, south

MCDated == (dated :> 0) @@ (undated :> None)
MCAreaOf == [l \in Lines |-> IF l \in {bulk1, dated} THEN north ELSE south]

Observed(source, place, value, published) ==
    [source |-> source, place |-> place, value |-> value, published |-> published]
Ordered(does, lines, months, reliability) ==
    [does |-> does, lines |-> lines, months |-> months, reliability |-> reliability]
MCOrders ==
    {Ordered("source", <<>>, None, 2),
     Ordered("observe", <<Observed(1, north, 10, None)>>, None, None),
     Ordered("import", <<Observed(1, north, 20, 6), Observed(1, north, 30, 12)>>, 6, None),
     Ordered("import", <<Observed(2, north, 90, 12), Observed(1, None, 20, 3),
                         Observed(1, south, 40, 12), Observed(1, south, 40, 12)>>, 3, None),
     Ordered("rebuild", <<>>, 12, None)}

VARIABLE part

MCInit ==
    /\ part \in {"market", "external"}
    /\ Init /\ X!Init
    /\ part = "market" => sources = <<>>
MCNext ==
    /\ UNCHANGED part
    /\ \/ part = "market" /\ Next /\ (now > 0 \/ Tick) /\ UNCHANGED externalVars
       \/ part = "external" /\ X!Next /\ UNCHANGED vars
MCSpec == MCInit /\ [][MCNext]_<<part, vars, externalVars>>

Symmetry == Permutations(Reqs)
=============================================================================
