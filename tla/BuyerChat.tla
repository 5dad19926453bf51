------------------------------ MODULE BuyerChat ------------------------------
(***************************************************************************)
(* A buyer's conversations: BuyerChatService.sendMessage from the read of  *)
(* the session to the write of what is remembered, the search and ranking  *)
(* of listings, the language models that reword an answer, and the log of  *)
(* recommendations.  A turn reads the session's metaJson once, at its      *)
(* start, and writes the whole of it back at its end; the turns of one     *)
(* session may overlap, owners change their prices meanwhile, and the      *)
(* process may stop anywhere.                                              *)
(*                                                                         *)
(* Left out: titles, texts, explanations, the lists of sessions and        *)
(* messages (reads).  Matches are in hundredths and scores in whole        *)
(* points, where the code has six decimals.                                *)
(***************************************************************************)
EXTENDS BuyerIntent

CONSTANTS
    Turns, Sessions,
    Messages,     \* what a buyer may write
    Listings,     \* the rows of Property when the conversations begin
    Prices,       \* what owners change a price to; 0 is none
    Trends,       \* what the market may say of each district
    SearchLimit, ShowLimit, \* 15 and 5
    MaxChanges    \* bound on the changes of prices

ASSUME BuyerAssumption ==
    /\ Prices \subseteq Nat /\ {SearchLimit, ShowLimit, MaxChanges} \subseteq Nat \ {0}
    /\ ShowLimit <= SearchLimit
    /\ None \notin Sessions
    /\ Listings \in Seq({Listings[i] : i \in DOMAIN Listings})
    /\ \A i \in DOMAIN Listings :
          LET l == Listings[i]
          IN /\ DOMAIN l = {"city", "district", "type", "area", "price", "updated", "age"}
             /\ {l.area, l.price, l.updated, l.age} \subseteq Nat
             /\ \A trend \in Trends : trend[l.district] \in {"UP", "DOWN", "STABLE", "error"}
    /\ \A m \in Messages :
          DOMAIN m.says = DOMAIN Query /\ {m.says.area, m.says.budget} \subseteq Nat

VARIABLES
    listing,  \* Property
    memory,   \* metaJson of a session: last_query, last_sort, last_property
    chat,     \* BuyerChatMessage: the answers of a session, in order
    logged,   \* BuyerRecommendationLog: [turn, query, shown]
    turn,     \* the turns, with their local variables
    calm,     \* the sessions whose turns never overlapped nor stopped after an answer
    changes   \* bound

vars == <<listing, memory, chat, logged, turn, calm, changes>>

Blank == [query |-> Query, sort |-> "SCORE", property |-> Property]

Local(pc) == [pc |-> pc, session |-> None, message |-> None, read |-> Blank,
              route |-> Nothing, table |-> <<>>, shown |-> <<>>]

Init ==
    /\ listing = Listings
    /\ memory = [s \in Sessions |-> Blank]
    /\ chat = [s \in Sessions |-> <<>>]
    /\ logged = {}
    /\ turn = [t \in Turns |-> Local("idle")]
    /\ calm = Sessions
    /\ changes = 0

Talking(s) == {t \in Turns : turn[t].session = s}
Step(t, value) ==
    /\ turn' = [turn EXCEPT ![t] = value]
    /\ UNCHANGED <<listing, memory, chat, logged, calm, changes>>

(* What a turn does with its answer; no local variable outlives it.  A     *)
(* mutant remembers and logs the search before it has been answered.       *)
BadStages == <<"log", "remember", "answer">>
Stages == <<"answer", "log", "remember">>
Onward(q) ==
    LET i == CHOOSE n \in 1 .. 3 : Stages[n] = q.pc
    IN IF i = 3 THEN Local("done")
       ELSE [q EXCEPT !.pc = Stages[i + 1], !.table = <<>>]

-----------------------------------------------------------------------------
(* The session is read, with what it remembers, and the message inserted.  *)
Send(t) ==
    /\ turn[t].pc = "idle"
    /\ \E s \in Sessions, m \in Messages :
        /\ turn' = [turn EXCEPT ![t] = [Local("sent") EXCEPT !.session = s, !.message = m,
                                                            !.read = memory[s]]]
        /\ calm' = IF Talking(s) = {} THEN calm ELSE calm \ {s}
    /\ UNCHANGED <<listing, memory, chat, logged, changes>>

(* The latest answer of the session is read, be it of a later turn.  What  *)
(* evaluateMarketPrice, investmentAnalysis and getHeatmap say is an answer *)
(* like another; an error of theirs is not caught, and stops the turn.     *)
Dispatch(t) ==
    LET q == turn[t]
        route == Dispatched(q.message, q.read, chat[q.session] # <<>>)
    IN /\ q.pc = "sent"
       /\ Step(t, [q EXCEPT !.route = route,
                            !.pc = IF route.does = "search" THEN "search" ELSE Stages[1]])

-----------------------------------------------------------------------------
(* findProperties: the filters of a query, and the candidates nearest to   *)
(* the budget, newest first otherwise.                                     *)
Ceiling(budget) == Round(budget * 110, 100)
Matches(l, q) ==
    /\ l.city = q.city /\ l.type = q.type
    /\ q.district # None => l.district = q.district
    /\ q.area > 0 => l.area > 0 /\ l.area \in q.area - 20 .. q.area + 20
    /\ q.budget > 0 => l.price > 0 /\ l.price <= Ceiling(q.budget)

Apart(a, b) == IF a > b THEN a - b ELSE b - a
(* Listings of the same moment are numbered in the order the table has     *)
(* them, which the sorts that follow keep.                                 *)
Nearer(table, i, j, q) ==
    LET di == Apart(table[i].price, q.budget)
        dj == Apart(table[j].price, q.budget)
    IN \/ q.budget > 0 /\ di < dj
       \/ /\ q.budget > 0 => di = dj
          /\ \/ table[i].updated > table[j].updated
             \/ table[i].updated = table[j].updated /\ i < j

(* A set in the order of a relation, the first of them up to a limit.      *)
Arranged(S, before) ==
    [k \in 1 .. Cardinality(S) |->
        CHOOSE i \in S : Cardinality({j \in S : <<j, i>> \in before}) = k - 1]
Cut(list, limit) == [k \in 1 .. Min({limit, Len(list)}) |-> list[k]]

Fitting(table, q) == {i \in DOMAIN table : Matches(table[i], q)}
Candidates(table, q) ==
    LET S == Fitting(table, q)
    IN Cut(Arranged(S, {p \in S \X S : Nearer(table, p[1], p[2], q)}), SearchLimit)

(* rankProperties.  What the search has filtered by matches in full.       *)
Percent(x) == Max({0, Min({100, x})})
PriceMatch(l, q) ==
    IF q.budget > 0 /\ l.price > 0
    THEN Percent(100 - (10000 * Apart(l.price, q.budget)) \div (35 * q.budget)) ELSE 80
AreaMatch(l, q) ==
    IF q.area > 0 /\ l.area > 0 THEN Percent(100 - (100 * Apart(l.area, q.area)) \div 40) ELSE 80
DistrictMatch(q) == IF q.district # None THEN 100 ELSE 75
TrendMatch(direction) ==
    CASE direction = "UP" -> [trend |-> 60, fit |-> 72]
      [] direction = "DOWN" -> [trend |-> 90, fit |-> 85]
      [] direction = "STABLE" -> [trend |-> 80, fit |-> 78]
      [] direction = "error" -> [trend |-> 80, fit |-> 75]
Score(l, q, trend) ==
    LET market == TrendMatch(trend[IF q.district # None THEN q.district ELSE l.district])
    IN 30 * PriceMatch(l, q) + 20 * AreaMatch(l, q) + 15 * 100 + 15 * 100
       + 10 * DistrictMatch(q) + 5 * Percent(100 - (100 * l.age) \div 180)
       + 3 * market.trend + 2 * market.fit

Better(table, i, j, q, trend) ==
    LET si == Score(table[i], q, trend)
        sj == Score(table[j], q, trend)
    IN \/ si > sj
       \/ si = sj /\ Nearer(table, i, j, q)

(* The lowest price first keeps the ranking among equals; a listing        *)
(* without a price is last.                                                *)
CheapFirst(a, b) == a.price > 0 /\ (b.price = 0 \/ a.price < b.price)
Preferred(table, i, j, q, sort, trend) ==
    \/ sort = "PRICE" /\ CheapFirst(table[i], table[j])
    \/ /\ sort = "PRICE" => ~CheapFirst(table[j], table[i])
       /\ Better(table, i, j, q, trend)

Shown(table, q, sort, trend) ==
    LET found == Candidates(table, q)
        S == {found[k] : k \in DOMAIN found}
    IN Cut(Arranged(S, {p \in S \X S : Preferred(table, p[1], p[2], q, sort, trend)}), ShowLimit)

(* One statement reads the table; the trends are read after it, and an     *)
(* error of theirs stands for a stable market.                             *)
Search(t) ==
    LET q == turn[t]
    IN /\ q.pc = "search"
       /\ \E trend \in Trends :
             Step(t, [q EXCEPT !.pc = Stages[1], !.table = listing,
                               !.shown = Shown(listing, q.route.query, q.route.sort, trend)])

-----------------------------------------------------------------------------
(* chatWithFallback: the configured providers are asked one after the      *)
(* other, each with a time limit of its own, until one does not fail; an   *)
(* answer that is empty or lacks a value of the listings gives way to the  *)
(* draft, as does the failure of them all.                                 *)
Providers == {"fails", "empty", "faithful", "altered"}
FirstReply(replies) ==
    LET answered == {i \in DOMAIN replies : replies[i] # "fails"}
    IN IF answered = {} THEN "fails" ELSE replies[Min(answered)]

(* Mutant: whatever a model says is the answer.                            *)
BadSafe(reply) == reply \notin {"fails", "empty"}
Safe(reply) == reply = "faithful"
Composed(replies) ==
    LET reply == FirstReply(replies) IN IF Safe(reply) THEN reply ELSE "draft"

(* Without the data of the market, more is asked of the buyer.             *)
Advice == {"estimate", "judge", "analyze"}
Answer(t) ==
    LET q == turn[t]
    IN /\ q.pc = "answer"
       /\ \E first, last \in Providers :
          \E does \in IF q.route.does \in Advice THEN {q.route.does, "ask"} ELSE {q.route.does} :
             chat' = [chat EXCEPT ![q.session] = Append(@,
                        [turn |-> t, does |-> does, query |-> q.route.query, says |-> q.message.says,
                         sort |-> q.route.sort, shown |-> q.shown,
                         true |-> Composed(<<first, last>>) # "altered"])]
       /\ turn' = [turn EXCEPT ![t] = Onward(q)]
       /\ UNCHANGED <<listing, memory, logged, calm, changes>>

(* A log that cannot be written is no error.                               *)
Log(t) ==
    LET q == turn[t]
    IN /\ q.pc = "log"
       /\ turn' = [turn EXCEPT ![t] = Onward(q)]
       /\ logged' \in IF q.route.does = "search"
                      THEN {logged, logged \cup {[turn |-> t, query |-> q.route.query, shown |-> q.shown]}}
                      ELSE {logged}
       /\ UNCHANGED <<listing, memory, chat, calm, changes>>

(* metaJson as it was read, with the query and the property of this turn.  *)
(* A route without a property leaves the one that the message is about.    *)
(* A mutant remembers the query of a fresh search only.                    *)
BadRemembered(q) ==
    [q.read EXCEPT !.query = IF q.route.does = "search" /\ ~q.route.refine THEN q.route.query ELSE @,
                   !.sort = IF q.route.does = "search" THEN q.route.sort ELSE @]
Remembered(q) ==
    LET said == IF q.route.property # Property THEN q.route.property
                ELSE IF Substantive(q.message.extract)
                     THEN Merged(q.read.property, q.message.extract) ELSE q.read.property
    IN IF q.route.does = "search"
       THEN [query |-> q.route.query, sort |-> q.route.sort, property |-> said]
       ELSE [q.read EXCEPT !.property = said]

Remember(t) ==
    LET q == turn[t]
    IN /\ q.pc = "remember"
       /\ memory' = [memory EXCEPT ![q.session] = Remembered(q)]
       /\ turn' = [turn EXCEPT ![t] = Onward(q)]
       /\ UNCHANGED <<listing, chat, logged, calm, changes>>

-----------------------------------------------------------------------------
Reprice(i) ==
    /\ changes < MaxChanges /\ changes' = changes + 1
    /\ \E p \in Prices :
          listing' = [listing EXCEPT ![i] = [@ EXCEPT !.price = p,
                        !.updated = 1 + Max({listing[j].updated : j \in DOMAIN listing})]]
    /\ UNCHANGED <<memory, chat, logged, turn, calm>>

(* The process stops, or a statement or the advisor fails: the turn ends   *)
(* where it is.                                                            *)
Told(t) == \E s \in Sessions : \E i \in DOMAIN chat[s] : chat[s][i].turn = t
Stop(t) ==
    /\ turn[t].session # None
    /\ turn' = [turn EXCEPT ![t] = Local("failed")]
    /\ calm' = IF Told(t) THEN calm \ {turn[t].session} ELSE calm
    /\ UNCHANGED <<listing, memory, chat, logged, changes>>

Next ==
    \/ \E t \in Turns :
        \/ Send(t) \/ Dispatch(t) \/ Search(t) \/ Answer(t) \/ Log(t) \/ Remember(t) \/ Stop(t)
    \/ \E i \in DOMAIN listing : Reprice(i)

Spec == Init /\ [][Next]_vars

-----------------------------------------------------------------------------
(* In a session whose turns never overlapped nor stopped after an answer,  *)
(* what is remembered, and therefore refined next, is the query and the    *)
(* order of the last search that the buyer sees in the conversation: no    *)
(* small talk, advice or failed turn in between forgets or replaces it;    *)
(* and an estimate, a judgement or an analysis is of that search, but for  *)
(* what its message says.  (persistLastQueryState, resolveContextQuery;    *)
(* docs/DEMO_SCRIPT.md: "Refinement reuses last query".)                   *)
Searched(s, n) == {i \in 1 .. n : chat[s][i].does = "search"}
SearchBefore(s, n) ==
    IF Searched(s, n) = {} THEN <<Query, "SCORE">>
    ELSE LET last == chat[s][Max(Searched(s, n))] IN <<last.query, last.sort>>
FollowsTheTalk ==
    \A s \in calm :
        /\ Talking(s) = {} => <<memory[s].query, memory[s].sort>> = SearchBefore(s, Len(chat[s]))
        /\ \A n \in DOMAIN chat[s] : chat[s][n].does \in Advice =>
              chat[s][n].query = Stable(Over(chat[s][n].says, SearchBefore(s, n - 1)[1]))

(* Whatever overlaps or stops, nothing is remembered or logged that the    *)
(* session was not told: the remembered query is the one of an answer in   *)
(* it, a line of the log has the listings of the answer it belongs to, and *)
(* an answer has the values of its listings, whichever model worded it.    *)
Answers(s) == {chat[s][i] : i \in DOMAIN chat[s]}
RememberedWasTold ==
    /\ \A s \in Sessions : memory[s].query # Query =>
          \E a \in Answers(s) :
             a.does = "search" /\ a.query = memory[s].query /\ a.sort = memory[s].sort
    /\ \A r \in logged : \E s \in Sessions : \E a \in Answers(s) :
          a.turn = r.turn /\ a.shown = r.shown /\ a.query = r.query
    /\ \A s \in Sessions : \A a \in Answers(s) : a.true

(* Listings fit what the buyer asked for over the whole conversation: each *)
(* one matches the query and is shown once; none that was left out is      *)
(* cheaper, when the cheapest are asked for and the candidates were not    *)
(* cut, nor at once nearer in price and size and newer than one shown; and *)
(* "cheaper", refining a budget and neither naming another nor asking for  *)
(* dearer, shows nothing above that budget, although a search goes a tenth *)
(* over the budget it has.                                                 *)
Dominates(a, b, q) ==
    /\ a.district = b.district /\ a.price > 0 /\ b.price > 0
    /\ q.budget > 0 /\ Apart(a.price, q.budget) < Apart(b.price, q.budget)
    /\ q.area > 0 => Apart(a.area, q.area) <= Apart(b.area, q.area)
    /\ a.age <= b.age /\ a.updated > b.updated
CheaperThan(a, b) == a.price > 0 /\ (b.price = 0 \/ a.price < b.price)
FitsTheAsk ==
    \A t \in Turns : turn[t].table # <<>> =>
        LET q == turn[t]
            ask == q.route.query
            fits == Fitting(q.table, ask)
            shown == {q.shown[k] : k \in DOMAIN q.shown}
        IN /\ shown \subseteq fits /\ Cardinality(shown) = Len(q.shown)
           /\ Len(q.shown) = Min({ShowLimit, Cardinality(fits)})
           /\ q.route.sort = "PRICE" /\ Cardinality(fits) <= SearchLimit =>
                \A i \in fits \ shown, j \in shown : ~CheaperThan(q.table[i], q.table[j])
           /\ q.route.sort = "SCORE" =>
                \A i \in fits \ shown, j \in shown : ~Dominates(q.table[i], q.table[j], ask)
           /\ "cheaper" \in q.message.words /\ "dearer" \notin q.message.words
              /\ q.message.says.budget = 0 /\ q.route.refine /\ q.read.query.budget > 0 =>
                \A i \in shown : q.table[i].price <= q.read.query.budget
=============================================================================
