----------------------------- MODULE BuyerIntent -----------------------------
(***************************************************************************)
(* What the buyer chat makes of a message before it touches a table:       *)
(* classifyRealEstateRequest, the routes of dispatchBuyerIntent, and the   *)
(* query that a message and the last one give.  No state.                  *)
(*                                                                         *)
(* A message is a record: `signals`, the groups of patterns it matches;    *)
(* `topic`, the first line of detectRealEstateIntent it matches; `advisor`,*)
(* the intent ChatIntentService finds; `refines`, `finds`, `recommends`,   *)
(* `reuses`, whether it has the words of a refinement, of a search, of a   *)
(* recommendation, of the property talked about before; `areas`, how many  *)
(* it compares; `words`, what a refinement asks for; `says`, the fields parseBuyerSearch extracts;      *)
(* `extract`, those of extractPropertyData.  0 and None are nothing said.  *)
(***************************************************************************)
EXTENDS Valuation

CONSTANTS None

Query == [city |-> None, district |-> None, type |-> None, area |-> 0, budget |-> 0]
Property == [city |-> None, district |-> None, type |-> None, area |-> 0, ask |-> 0]

Given(name, default) == IF name = None THEN default ELSE name

(* The first row whose condition holds decides.                            *)
Decide(rows) ==
    rows[CHOOSE i \in DOMAIN rows : rows[i][1] /\ \A j \in 1 .. i - 1 : ~rows[j][1]][2]

-----------------------------------------------------------------------------
(* The last pattern group, a follow-up, counts in a conversation only.     *)
Intent(m, context) ==
    Decide(<< <<"greeting" \in m.signals, "GREETING">>,
              <<m.topic # None, m.topic>>,
              <<context /\ "followUp" \in m.signals, "FOLLOW_UP_CONTEXTUAL">>,
              <<TRUE, "UNKNOWN">> >>)

(* recoverRealEstateIntent: fragments are taken for a follow-up in a       *)
(* conversation, and asked about otherwise.                                *)
Recovered(m, context) ==
    LET has(S) == S \cap m.signals # {}
        continues == context /\ has({"followUp", "listing", "room", "budget"})
    IN Decide(<< <<has({"offTopic"}) /\ ~has({"estate"}), "OUT_OF_SCOPE">>,
                 <<continues /\ has({"price"}), "PRICE_ESTIMATION">>,
                 <<continues /\ has({"compare"}), "AREA_COMPARISON">>,
                 <<continues, "FOLLOW_UP_CONTEXTUAL">>,
                 <<has({"partial", "search", "place", "invest", "budget", "room"}), "CLARIFY">>,
                 <<TRUE, "OUT_OF_SCOPE">> >>)

Classified(m, context) ==
    LET has(s) == s \in m.signals
        onTopic == ~has("offTopic")
    IN Decide(<< <<has("ack") /\ onTopic, "ACKNOWLEDGEMENT">>,
                 <<context /\ (has("yes") \/ has("no")) /\ onTopic, "CONFIRMATION">>,
                 <<has("greeting") /\ onTopic, "GREETING">>,
                 <<has("estate") /\ onTopic, Intent(m, context)>>,
                 <<context /\ has("followUp") /\ onTopic, Intent(m, context)>>,
                 <<has("greeting") /\ context, Intent(m, context)>>,
                 <<TRUE, Recovered(m, context)>> >>)

-----------------------------------------------------------------------------
(* buildStableQuery: never without a city and a type.                      *)
Stable(q) == [q EXCEPT !.city = Given(@, "damascus"), !.type = Given(@, "APARTMENT")]

(* The fields a message does not give are those of the last query.         *)
Over(says, last) == [f \in DOMAIN says |-> IF says[f] = Query[f] THEN last[f] ELSE says[f]]
ContextQuery(m, last) == Stable(Over(m.says, last))
FreshQuery(m) == Stable(m.says)

(* Mutant: "cheaper" takes less off than the ceiling of the search adds.   *)
BadCheaper(budget) == Max({1, Round(budget * 95, 100)})
Cheaper(budget) == Max({1, Round(budget * 88, 100)})
Dearer(budget) == Round(budget * 110, 100)

(* applyRefinement: first the words, then the fields that are named.       *)
Reworded(m, last) ==
    LET lower == IF "cheaper" \in m.words /\ last.budget > 0 THEN Cheaper(last.budget) ELSE last.budget
        budget == IF "dearer" \in m.words /\ lower > 0 THEN Dearer(lower) ELSE lower
        wider == IF "larger" \in m.words /\ last.area > 0 THEN last.area + 20 ELSE last.area
        area == IF "smaller" \in m.words /\ wider > 0 THEN Max({1, wider - 20}) ELSE wider
    IN [last EXCEPT !.budget = budget, !.area = area,
                    !.type = IF "noVilla" \in m.words THEN "APARTMENT" ELSE @]
Refined(m, last) == Stable(Over(m.says, Reworded(m, Stable(last))))
SortOf(m, lastSort) ==
    IF "byScore" \in m.words THEN "SCORE" ELSE IF "byPrice" \in m.words THEN "PRICE" ELSE lastSort

-----------------------------------------------------------------------------
(* The property of a message, over the one talked about before when the    *)
(* message refers to it and the assistant has said something.              *)
Merged(last, extract) ==
    [f \in DOMAIN extract |-> IF extract[f] = Property[f] THEN last[f] ELSE extract[f]]
Substantive(extract) == extract # Property
Subject(m, last, spoken) ==
    Merged(IF m.reuses /\ spoken THEN last ELSE Property, m.extract)
Missing(p) ==
    \/ p.city = None /\ p.district = None
    \/ p.type = None \/ p.area = 0 \/ p.ask = 0

-----------------------------------------------------------------------------
(* A route: what is done, the query and the sort it is about, which a      *)
(* search remembers, and the property that is remembered.                  *)
Nothing == [does |-> "say", query |-> Query, sort |-> "SCORE", refine |-> FALSE, property |-> Property]
Searching(query, sort, refine) ==
    [Nothing EXCEPT !.does = "search", !.query = query, !.sort = sort, !.refine = refine]

AdvisorRoute(m, last, spoken) ==
    LET p == Subject(m, last, spoken)
    IN IF m.advisor = "MARKET_HEATMAP"
       THEN [Nothing EXCEPT !.does = "advise",
                            !.property = [Property EXCEPT !.city = Given(p.city, "damascus")]]
       ELSE IF Missing(p) THEN [Nothing EXCEPT !.property = p]
       ELSE [Nothing EXCEPT !.does = "advise", !.property = p]

(* Talk about areas, the market, prices and guidance searches nothing; it  *)
(* is about the last query, where the message does not say otherwise.      *)
About(does, query) == [Nothing EXCEPT !.does = does, !.query = query]
PriceRoute(q) ==
    Decide(<< <<q.district = None \/ q.area = 0, About("ask", q)>>,
              <<q.budget = 0, About("estimate", q)>>,
              <<TRUE, About("judge", q)>> >>)
GeneralRoute(m, intent, last) ==
    LET q == ContextQuery(m, last)
    IN Decide(<< <<intent = "AREA_COMPARISON", About(IF m.areas > 1 THEN "compare" ELSE "ask", Query)>>,
                 <<intent = "MARKET_ANALYSIS", About(IF q.district = None THEN "ask" ELSE "analyze", q)>>,
                 <<intent = "PRICE_ESTIMATION", PriceRoute(q)>>,
                 <<intent = "FOLLOW_UP_CONTEXTUAL" /\ last # Query,
                   Searching(Refined(m, last), SortOf(m, "SCORE"), TRUE)>>,
                 <<intent \in {"INVESTMENT_ADVICE", "RENTAL_GUIDANCE", "BUYER_GUIDANCE",
                               "FOLLOW_UP_CONTEXTUAL", "PROPERTY_DETAILS"}, About("guide", q)>>,
                 <<TRUE, Nothing>> >>)

Dispatched(m, memory, spoken) ==
    LET last == memory.query
        intent == Classified(m, last # Query \/ spoken)
        talks == intent \in {"OUT_OF_SCOPE", "GREETING", "ACKNOWLEDGEMENT", "CONFIRMATION", "CLARIFY"}
        advises == m.advisor \in {"PROPERTY_EVALUATION", "INVESTMENT_ANALYSIS", "MARKET_HEATMAP"}
        searches == \/ intent \in {"PROPERTY_SEARCH", "PROPERTY_RECOMMENDATION"}
                    \/ intent = "INVESTMENT_ADVICE" /\ m.recommends
    IN Decide(<< <<talks, Nothing>>,
                 <<advises, AdvisorRoute(m, memory.property, spoken)>>,
                 <<m.refines /\ last # Query, Searching(Refined(m, last), SortOf(m, memory.sort), TRUE)>>,
                 <<searches, Searching(ContextQuery(m, last), "SCORE", FALSE)>>,
                 <<~m.finds, GeneralRoute(m, intent, last)>>,
                 <<TRUE, Searching(FreshQuery(m), "SCORE", FALSE)>> >>)
=============================================================================
