-------------------------- MODULE BuyerChatProofs --------------------------
(***************************************************************************)
(* Proofs about BuyerChat for every number of turns and sessions, every    *)
(* message, listing and price: nothing is remembered or logged that the    *)
(* session was not told, a conversation whose turns do not overlap is      *)
(* followed, and the listings shown fit what was asked for.                *)
(*                                                                         *)
(* The first two take a turn's table and its shown listings for whatever   *)
(* they are; the last is about them, and rests on the order of a sort      *)
(* (InOrder, TopOf) and on the arithmetic of a score.                      *)
(***************************************************************************)
EXTENDS BuyerChat, FiniteSetTheorems, WellFoundedInduction, TLAPS

Ends == {"idle", "done", "failed"}
Pcs == Ends \cup {"sent", "search", "answer", "log", "remember"}

\* Records of these fields, whatever the fields hold.
Fields == {"pc", "session", "message", "read", "route", "table", "shown"}
IsTurn(q) == q = [f \in Fields |-> q[f]]
IsMemory(m) == m = [f \in {"query", "sort", "property"} |-> m[f]]

Fit(q) ==
    /\ IsTurn(q) /\ IsMemory(q.read)
    /\ q.pc \in Pcs /\ q.session \in Sessions \cup {None}
    /\ q.session = None <=> q.pc \in Ends

TurnShape == turn = [t \in Turns |-> turn[t]] /\ \A t \in Turns : Fit(turn[t])
RowShape ==
    /\ memory = [s \in Sessions |-> memory[s]] /\ \A s \in Sessions : IsMemory(memory[s])
    /\ chat = [s \in Sessions |-> chat[s]] /\ \A s \in Sessions : chat[s] \in Seq(Answers(s))
    /\ calm \subseteq Sessions

\* The session was told of the search that m remembers.
KnownTo(s, m) ==
    m.query # Query =>
        \E a \in Answers(s) : a.does = "search" /\ a.query = m.query /\ a.sort = m.sort

\* What a turn has read, has decided, and has answered.
ReadInv == \A t \in Turns : turn[t].session # None => KnownTo(turn[t].session, turn[t].read)

Routed(q) ==
    q.route.does \in Advice => q.route.query = Stable(Over(q.message.says, q.read.query))
RouteInv == \A t \in Turns : turn[t].pc \in {"search", "answer"} => Routed(turn[t])

Spoken(t, q) ==
    \E a \in Answers(q.session) :
        /\ a.turn = t /\ a.query = q.route.query /\ a.sort = q.route.sort /\ a.shown = q.shown
        /\ q.route.does = "search" => a.does = "search"
SpokenInv == \A t \in Turns : turn[t].pc \in {"log", "remember"} => Spoken(t, turn[t])

\* A calm session has one turn at a time, which read what is remembered; before
\* it answers that is the last search told, afterwards what it will remember is.
Agrees(m, s) == <<m.query, m.sort>> = SearchBefore(s, Len(chat[s]))
Conducts(q, s) ==
    /\ q.read = memory[s]
    /\ q.pc \in {"sent", "search", "answer"} => Agrees(q.read, s)
    /\ q.pc \in {"log", "remember"} =>
          Agrees(IF q.route.does = "search" THEN q.route ELSE q.read, s)
Quoted(s) ==
    \A n \in DOMAIN chat[s] : chat[s][n].does \in Advice =>
        chat[s][n].query = Stable(Over(chat[s][n].says, SearchBefore(s, n - 1)[1]))
Calm(s) ==
    /\ \A t, u \in Talking(s) : t = u
    /\ \A t \in Talking(s) : Conducts(turn[t], s)
    /\ Talking(s) = {} => Agrees(memory[s], s)
    /\ Quoted(s)
CalmInv == \A s \in calm : Calm(s)

ToldInv == TurnShape /\ RowShape /\ ReadInv /\ SpokenInv /\ RememberedWasTold
IInv == ToldInv /\ RouteInv /\ CalmInv

-----------------------------------------------------------------------------
(* The operators.                                                           *)
\* A finite set of naturals that has an element has a greatest one: of the
\* finite parts without one, a smallest cannot be.
LEMMA Greatest ==
    ASSUME NEW S \in SUBSET Nat, IsFiniteSet(S), S # {}
    PROVE  Max(S) \in S /\ \A y \in S : Max(S) >= y
<1> DEFINE HasMax(t) == \E x \in t : \A y \in t : x >= y
           Without == {t \in SUBSET S : t # {} /\ ~HasMax(t)}
<1>1. Without = {}
  <2>1. SUFFICES ASSUME Without # {} PROVE FALSE
    OBVIOUS
  <2>2. IsWellFoundedOn(StrictSubsetOrdering(S), FiniteSubsetsOf(S))
    BY FS_StrictSubsetOrderingWellFounded
  <2>3. Without \subseteq FiniteSubsetsOf(S)
    BY FS_Subset DEF FiniteSubsetsOf
  <2> HIDE DEF Without
  <2>4. PICK t \in Without : \A u \in Without : ~ (<<u, t>> \in StrictSubsetOrdering(S))
    BY <2>1, <2>2, <2>3, WFMin
  <2>5. t \in SUBSET S /\ t # {} /\ ~HasMax(t)
    BY DEF Without
  <2>6. PICK x : x \in t
    BY <2>5
  <2> DEFINE u == t \ {x}
  <2>7. u \in SUBSET S /\ u # t
    BY <2>5, <2>6
  <2>8. <<u, t>> \in StrictSubsetOrdering(S)
    BY <2>5, <2>7 DEF StrictSubsetOrdering
  <2>9. u = {} \/ HasMax(u)
    BY <2>4, <2>7, <2>8 DEF Without
  <2>10. \A y \in t : y = x \/ y \in u
    OBVIOUS
  <2>11. CASE u = {}
    BY <2>5, <2>6, <2>10, <2>11
  <2>12. CASE HasMax(u)
    <3>1. PICK z \in u : \A y \in u : z >= y
      BY <2>12
    <3>2. z \in Nat /\ x \in Nat /\ z \in t
      BY <2>5, <2>6, <2>7, <3>1
    <3>3. CASE x >= z
      <4>1. \A y \in t : x >= y
        BY <2>5, <2>10, <3>1, <3>2, <3>3
      <4> QED
        BY <2>5, <2>6, <4>1
    <3>4. CASE ~(x >= z)
      <4>1. \A y \in t : z >= y
        BY <2>5, <2>10, <3>1, <3>2, <3>4
      <4> QED
        BY <2>5, <3>2, <4>1
    <3> QED
      BY <3>3, <3>4
  <2> QED
    BY <2>9, <2>11, <2>12
<1>2. HasMax(S)
  BY <1>1
<1> QED
  BY <1>2 DEF Max

\* The first row whose condition holds decides, of at most seven.
LEMMA Decides ==
    ASSUME NEW n \in 1 .. 7, NEW rows, DOMAIN rows = 1 .. n, rows[n][1]
    PROVE  \E i \in 1 .. n : /\ rows[i][1] /\ \A j \in 1 .. i - 1 : ~rows[j][1]
                             /\ Decide(rows) = rows[i][2]
<1> DEFINE First(i) == rows[i][1] /\ \A j \in 1 .. i - 1 : ~rows[j][1]
<1>1. \E i \in 1 .. n : First(i)
  <2>1. CASE \E i \in 1 .. 3 : i <= n /\ rows[i][1]
    BY <2>1
  <2>2. CASE ~\E i \in 1 .. 3 : i <= n /\ rows[i][1]
    BY <2>2
  <2> QED
    BY <2>1, <2>2
<1>2. \E i \in DOMAIN rows : First(i)
  BY <1>1
<1> QED
  BY <1>2 DEF Decide

\* What a route to advice is about: the last query, where the message does not
\* say otherwise.
LEMMA AdviceIsAboutTheLast ==
    ASSUME NEW m, NEW memo, NEW spoken,
           Dispatched(m, memo, spoken).does \in Advice
    PROVE  Dispatched(m, memo, spoken).query = Stable(Over(m.says, memo.query))
<1> DEFINE last == memo.query
           q == ContextQuery(m, last)
           About2(route) == route.does \in Advice => route.query = q
<1>1. About2(PriceRoute(q))
  <2> DEFINE rows == << <<q.district = None \/ q.area = 0, About("ask", q)>>,
                        <<q.budget = 0, About("estimate", q)>>,
                        <<TRUE, About("judge", q)>> >>
  <2>1. DOMAIN rows = 1 .. 3 /\ rows[3][1]
    OBVIOUS
  <2>2. rows[1][2].query = q /\ rows[2][2].query = q /\ rows[3][2].query = q
    BY DEF About, Nothing
  <2>3. PriceRoute(q) = Decide(rows)
    BY DEF PriceRoute
  <2> HIDE DEF rows
  <2>4. PICK i \in 1 .. 3 : Decide(rows) = rows[i][2]
    BY <2>1, Decides
  <2> QED
    BY <2>2, <2>3, <2>4
<1>2. ASSUME NEW intent PROVE About2(GeneralRoute(m, intent, last))
  <2> DEFINE rows ==
        << <<intent = "AREA_COMPARISON", About(IF m.areas > 1 THEN "compare" ELSE "ask", Query)>>,
           <<intent = "MARKET_ANALYSIS", About(IF q.district = None THEN "ask" ELSE "analyze", q)>>,
           <<intent = "PRICE_ESTIMATION", PriceRoute(q)>>,
           <<intent = "FOLLOW_UP_CONTEXTUAL" /\ last # Query,
             Searching(Refined(m, last), SortOf(m, "SCORE"), TRUE)>>,
           <<intent \in {"INVESTMENT_ADVICE", "RENTAL_GUIDANCE", "BUYER_GUIDANCE",
                         "FOLLOW_UP_CONTEXTUAL", "PROPERTY_DETAILS"}, About("guide", q)>>,
           <<TRUE, Nothing>> >>
  <2>1. DOMAIN rows = 1 .. 6 /\ rows[6][1] /\ rows[3][2] = PriceRoute(q)
    OBVIOUS
  <2>2. About2(rows[1][2])
    BY DEF About, Nothing, Advice
  <2>3. About2(rows[2][2]) /\ About2(rows[5][2])
    BY DEF About, Nothing
  <2>4. About2(rows[4][2]) /\ About2(rows[6][2])
    BY DEF Searching, Nothing, Advice
  <2>5. GeneralRoute(m, intent, last) = Decide(rows)
    BY DEF GeneralRoute
  <2> HIDE DEF rows, q
  <2>6. PICK i \in 1 .. 6 : Decide(rows) = rows[i][2]
    BY <2>1, Decides
  <2> QED
    BY <1>1, <2>1, <2>2, <2>3, <2>4, <2>5, <2>6
<1>3. About2(AdvisorRoute(m, memo.property, spoken))
  BY DEF AdvisorRoute, Nothing, Advice
<1>4. \A query, sort, refine : About2(Searching(query, sort, refine))
  BY DEF Searching, Nothing, Advice
<1>5. About2(Nothing)
  BY DEF Nothing, Advice
<1> DEFINE intent == Classified(m, last # Query \/ spoken)
           talks == intent \in {"OUT_OF_SCOPE", "GREETING", "ACKNOWLEDGEMENT", "CONFIRMATION", "CLARIFY"}
           advises == m.advisor \in {"PROPERTY_EVALUATION", "INVESTMENT_ANALYSIS", "MARKET_HEATMAP"}
           searches == \/ intent \in {"PROPERTY_SEARCH", "PROPERTY_RECOMMENDATION"}
                       \/ intent = "INVESTMENT_ADVICE" /\ m.recommends
           routes == << <<talks, Nothing>>,
                 <<advises, AdvisorRoute(m, memo.property, spoken)>>,
                 <<m.refines /\ last # Query, Searching(Refined(m, last), SortOf(m, memo.sort), TRUE)>>,
                 <<searches, Searching(ContextQuery(m, last), "SCORE", FALSE)>>,
                 <<~m.finds, GeneralRoute(m, intent, last)>>,
                 <<TRUE, Searching(FreshQuery(m), "SCORE", FALSE)>> >>
<1>6. Decide(routes) = Dispatched(m, memo, spoken)
  BY DEF Dispatched
<1> HIDE DEF intent, talks, advises, searches, q
<1>7. /\ DOMAIN routes = 1 .. 6 /\ routes[6][1]
      /\ routes[1][2] = Nothing /\ routes[2][2] = AdvisorRoute(m, memo.property, spoken)
      /\ routes[5][2] = GeneralRoute(m, intent, last)
      /\ routes[3][2] = Searching(Refined(m, last), SortOf(m, memo.sort), TRUE)
      /\ routes[4][2] = Searching(ContextQuery(m, last), "SCORE", FALSE)
      /\ routes[6][2] = Searching(FreshQuery(m), "SCORE", FALSE)
  OBVIOUS
<1> HIDE DEF routes
<1>8. PICK i \in 1 .. 6 : Decide(routes) = routes[i][2]
  BY <1>7, Decides
<1>9. About2(routes[3][2]) /\ About2(routes[4][2]) /\ About2(routes[6][2])
  BY <1>4, <1>7
<1>10. About2(routes[1][2]) /\ About2(routes[2][2])
  BY <1>3, <1>5, <1>7
<1>11. About2(routes[5][2])
  BY <1>2, <1>7
<1> QED
  BY <1>6, <1>8, <1>9, <1>10, <1>11 DEF ContextQuery, q

-----------------------------------------------------------------------------
(* The history of a session.                                                *)

\* The last search before a moment is of what was said until then.
LEMMA SameSearches ==
    ASSUME NEW s \in Sessions, NEW n \in Nat,
           \A i \in 1 .. n : chat'[s][i] = chat[s][i]
    PROVE  SearchBefore(s, n)' = SearchBefore(s, n)
<1>1. Searched(s, n)' = Searched(s, n)
  BY DEF Searched
<1>2. CASE Searched(s, n) # {}
  <2>1. Searched(s, n) \in SUBSET Nat /\ IsFiniteSet(Searched(s, n))
    BY FS_Interval, FS_Subset DEF Searched
  <2>2. Max(Searched(s, n)) \in 1 .. n
    BY <1>2, <2>1, Greatest DEF Searched
  <2> QED
    BY <1>1, <2>2 DEF SearchBefore
<1> QED
  BY <1>1, <1>2 DEF SearchBefore

\* An answer comes after what was said; if it is a search it is the last one.
LEMMA Appended ==
    ASSUME RowShape, NEW s \in Sessions, NEW e, chat' = [chat EXCEPT ![s] = Append(@, e)]
    PROVE  /\ chat' = [x \in Sessions |-> chat'[x]]
           /\ chat'[s] \in Seq(Answers(s)') /\ Answers(s)' = Answers(s) \cup {e}
           /\ Len(chat[s]) \in Nat /\ Len(chat'[s]) = Len(chat[s]) + 1
           /\ DOMAIN chat[s] = 1 .. Len(chat[s]) /\ DOMAIN chat'[s] = 1 .. Len(chat[s]) + 1
           /\ chat'[s][Len(chat[s]) + 1] = e
           /\ \A i \in 1 .. Len(chat[s]) : chat'[s][i] = chat[s][i]
           /\ \A x \in Sessions \ {s} : chat'[x] = chat[x] /\ Answers(x)' = Answers(x)
<1>1. /\ chat' = [x \in Sessions |-> chat'[x]]
      /\ chat'[s] = Append(chat[s], e) /\ \A x \in Sessions \ {s} : chat'[x] = chat[x]
  BY DEF RowShape
<1>2. chat[s] \in Seq(Answers(s) \cup {e}) /\ chat'[s] \in Seq(Answers(s) \cup {e})
  BY <1>1 DEF RowShape
<1>3. /\ Len(chat[s]) \in Nat /\ Len(chat'[s]) = Len(chat[s]) + 1
      /\ DOMAIN chat[s] = 1 .. Len(chat[s]) /\ DOMAIN chat'[s] = 1 .. Len(chat[s]) + 1
      /\ chat'[s][Len(chat[s]) + 1] = e
      /\ \A i \in 1 .. Len(chat[s]) : chat'[s][i] = chat[s][i]
  BY <1>1, <1>2
<1>4. Answers(s)' = Answers(s) \cup {e}
  BY <1>3 DEF Answers
<1> QED
  BY <1>1, <1>2, <1>3, <1>4 DEF Answers

\* What was last searched, among the answers S of a list.
LastOf(list, S) == IF S = {} THEN <<Query, "SCORE">> ELSE <<list[Max(S)].query, list[Max(S)].sort>>

LEMMA SearchAfter ==
    ASSUME RowShape, NEW s \in Sessions, NEW e, chat' = [chat EXCEPT ![s] = Append(@, e)]
    PROVE  SearchBefore(s, Len(chat[s]))' =
              IF e.does = "search" THEN <<e.query, e.sort>> ELSE SearchBefore(s, Len(chat[s]))
<1>1. PICK n \in Nat : n = Len(chat[s])
  BY Appended
<1>2. /\ Len(chat'[s]) = n + 1 /\ chat'[s][n + 1] = e
      /\ \A i \in 1 .. n : chat'[s][i] = chat[s][i]
  BY <1>1, Appended
<1>3. SearchBefore(s, Len(chat[s]))' = SearchBefore(s, n + 1)'
  <2>1. Searched(s, Len(chat[s]))' = Searched(s, n + 1)'
    BY <1>2 DEF Searched
  <2>2. /\ SearchBefore(s, Len(chat[s]))' = LastOf(chat'[s], Searched(s, Len(chat[s]))')
        /\ SearchBefore(s, n + 1)' = LastOf(chat'[s], Searched(s, n + 1)')
    BY DEF SearchBefore, LastOf
  <2> QED
    BY <2>1, <2>2
<1>4. Searched(s, n + 1)' = Searched(s, n) \cup IF e.does = "search" THEN {n + 1} ELSE {}
  BY <1>2 DEF Searched
<1>5. CASE e.does = "search"
  <2>1. Max(Searched(s, n + 1)') = n + 1
    <3>1. n + 1 \in Searched(s, n + 1)' /\ \A y \in Searched(s, n + 1)' : y \in 1 .. n + 1
      BY <1>4, <1>5 DEF Searched
    <3>2. \A x \in Searched(s, n + 1)' : (\A y \in Searched(s, n + 1)' : x >= y) => x = n + 1
      BY <3>1
    <3>3. \A y \in Searched(s, n + 1)' : n + 1 >= y
      BY <3>1
    <3> QED
      BY <3>1, <3>2, <3>3 DEF Max
  <2> QED
    BY <1>2, <1>3, <1>4, <1>5, <2>1, SMTT(30) DEF SearchBefore
<1>6. CASE e.does # "search"
  <2>1. Searched(s, n + 1)' = Searched(s, n)'
    BY <1>2, <1>4, <1>6 DEF Searched
  <2>2. SearchBefore(s, n + 1)' = SearchBefore(s, n)'
    <3>1. /\ SearchBefore(s, n)' = LastOf(chat'[s], Searched(s, n)')
          /\ SearchBefore(s, n + 1)' = LastOf(chat'[s], Searched(s, n + 1)')
      BY DEF SearchBefore, LastOf
    <3>2. Searched(s, n)' = Searched(s, n)
      BY <1>2 DEF Searched
    <3> QED
      BY <2>1, <3>1, <3>2
  <2> QED
    BY <1>1, <1>2, <1>3, <1>6, <2>2, SameSearches
<1> QED
  BY <1>5, <1>6

\* What a session is told does not depend on the others.
LEMMA Unheard ==
    ASSUME NEW s, chat'[s] = chat[s]
    PROVE  /\ Answers(s)' = Answers(s)
           /\ \A n : SearchBefore(s, n)' = SearchBefore(s, n)
<1>1. \A n : Searched(s, n)' = Searched(s, n)
  BY DEF Searched
<1>2. \A n : /\ SearchBefore(s, n) = LastOf(chat[s], Searched(s, n))
             /\ SearchBefore(s, n)' = LastOf(chat'[s], Searched(s, n)')
  BY DEF SearchBefore, LastOf
<1> QED
  BY <1>1, <1>2 DEF Answers

-----------------------------------------------------------------------------
(* The turns.                                                               *)
LEMMA Going ==
    ASSUME NEW q
    PROVE  /\ q.pc = "answer" => Onward(q) = [q EXCEPT !.pc = "log", !.table = <<>>]
           /\ q.pc = "log" => Onward(q) = [q EXCEPT !.pc = "remember", !.table = <<>>]
           /\ q.pc = "remember" => Onward(q) = Local("done")
<1> DEFINE i == CHOOSE n \in 1 .. 3 : Stages[n] = q.pc
<1>1. q.pc = "answer" => i # 3 /\ Stages[i + 1] = "log"
  BY DEF Stages
<1>2. q.pc = "log" => i # 3 /\ Stages[i + 1] = "remember"
  BY DEF Stages
<1>3. q.pc = "remember" => i = 3
  BY DEF Stages
<1>4. Onward(q) = IF i = 3 THEN Local("done") ELSE [q EXCEPT !.pc = Stages[i + 1], !.table = <<>>]
  BY DEF Onward
<1> HIDE DEF i
<1> QED
  BY <1>1, <1>2, <1>3, <1>4, Zenon

LEMMA Locals ==
    ASSUME NEW pc \in Ends
    PROVE  Fit(Local(pc)) /\ Local(pc).pc = pc /\ Local(pc).session = None
BY DEF Fit, IsTurn, Fields, IsMemory, Local, Blank, Ends, Pcs

LEMMA Moved ==
    ASSUME TurnShape, NEW t \in Turns, NEW v, Fit(v), turn' = [turn EXCEPT ![t] = v]
    PROVE  TurnShape' /\ turn'[t] = v /\ \A u \in Turns \ {t} : turn'[u] = turn[u]
<1>1. turn'[t] = v /\ \A u \in Turns \ {t} : turn'[u] = turn[u]
  BY DEF TurnShape
<1>2. turn' = [u \in Turns |-> turn'[u]]
  BY DEF TurnShape
<1>3. \A u \in Turns : Fit(turn'[u])
  BY <1>1 DEF TurnShape
<1>4. \A u \in Turns : Fit(turn[u])'
  BY <1>3 DEF Fit, IsTurn, IsMemory
<1> QED
  BY <1>1, <1>2, <1>4 DEF TurnShape

\* A calm session stays so while nothing of it changes.
LEMMA CalmStays ==
    ASSUME NEW s, Calm(s), chat'[s] = chat[s], memory'[s] = memory[s],
           Talking(s)' = Talking(s), \A t \in Talking(s) : turn'[t] = turn[t]
    PROVE  Calm(s)'
<1>1. \A n : SearchBefore(s, n)' = SearchBefore(s, n)
  BY Unheard
<1>2. SearchBefore(s, Len(chat[s]))' = SearchBefore(s, Len(chat[s]))
  <2>1. PICK n : n = Len(chat[s])
    OBVIOUS
  <2>2. SearchBefore(s, Len(chat[s]))' = SearchBefore(s, n)'
    BY <2>1 DEF SearchBefore, Searched
  <2> QED
    BY <1>1, <2>1, <2>2
<1>3. Quoted(s)'
  BY <1>1 DEF Calm, Quoted
<1>4. Talking(s)' = {} => Agrees(memory[s], s)'
  BY <1>2 DEF Calm, Agrees
<1>5. ASSUME NEW t \in Talking(s) PROVE Conducts(turn[t], s)'
  BY <1>2, <1>5 DEF Calm, Conducts, Agrees
<1> QED
  BY <1>3, <1>4, <1>5 DEF Calm

\* What was known to a session and what was spoken stays so, when turn t moves on
\* to v, nothing of the rest being taken back.
LEMMA ToldStays ==
    ASSUME ToldInv, NEW t \in Turns, NEW v, Fit(v), turn' = [turn EXCEPT ![t] = v],
           \A s \in Sessions : Answers(s) \subseteq Answers(s)',
           v.session # None => v.session \in Sessions /\ KnownTo(v.session, v.read)',
           v.pc \in {"log", "remember"} => Spoken(t, v)'
    PROVE  TurnShape' /\ ReadInv' /\ SpokenInv'
<1>1. /\ TurnShape' /\ turn'[t] = v /\ \A u \in Turns \ {t} : turn'[u] = turn[u]
  BY Moved DEF ToldInv
<1>2. ASSUME NEW u \in Turns, turn'[u].session # None
      PROVE  KnownTo(turn[u].session, turn[u].read)'
  <2>1. CASE u = t
    BY <1>1, <1>2, <2>1 DEF KnownTo, Answers
  <2>2. CASE u # t
    <3>1. turn[u].session \in Sessions /\ KnownTo(turn[u].session, turn[u].read)
      BY <1>1, <1>2, <2>2 DEF ToldInv, ReadInv, TurnShape, Fit
    <3>2. PICK s \in Sessions : s = turn[u].session
      BY <3>1
    <3>3. Answers(s) \subseteq Answers(s)'
      OBVIOUS
    <3>4. KnownTo(s, turn[u].read) /\ turn'[u] = turn[u]
      BY <1>1, <2>2, <3>1, <3>2
    <3> QED
      BY <3>2, <3>3, <3>4, Z3 DEF KnownTo, Answers
  <2> QED
    BY <2>1, <2>2
<1>3. ASSUME NEW u \in Turns, turn'[u].pc \in {"log", "remember"} PROVE Spoken(u, turn[u])'
  <2>1. CASE u = t
    BY <1>1, <1>3, <2>1 DEF Spoken, Answers
  <2>2. CASE u # t
    <3>1. turn[u].session \in Sessions /\ Spoken(u, turn[u])
      BY <1>1, <1>3, <2>2 DEF ToldInv, SpokenInv, TurnShape, Fit, Ends
    <3>2. PICK s \in Sessions : s = turn[u].session
      BY <3>1
    <3>3. Answers(s) \subseteq Answers(s)'
      OBVIOUS
    <3>4. Spoken(u, turn[u]) /\ turn'[u] = turn[u]
      BY <1>1, <2>2, <3>1
    <3> QED
      BY <3>2, <3>3, <3>4 DEF Spoken, Answers
  <2> QED
    BY <2>1, <2>2
<1> QED
  BY <1>1, <1>2, <1>3 DEF ReadInv, SpokenInv

\* A step that changes only its turn, before it answers.
LEMMA StepInv ==
    ASSUME IInv, NEW t \in Turns, NEW v, Fit(v), Step(t, v),
           v.session = turn[t].session, v.read = turn[t].read,
           turn[t].pc \in {"sent", "search"}, v.pc \in {"search", "answer"}, Routed(v)
    PROVE  IInv'
<1>1. /\ turn' = [turn EXCEPT ![t] = v]
      /\ memory' = memory /\ chat' = chat /\ logged' = logged /\ calm' = calm
  BY DEF Step
<1>2. /\ turn'[t] = v /\ \A u \in Turns \ {t} : turn'[u] = turn[u]
  BY <1>1, Moved DEF IInv, ToldInv
<1>3. RowShape' /\ \A s : Answers(s)' = Answers(s)
  BY <1>1 DEF IInv, ToldInv, RowShape, IsMemory, Answers
<1>4. turn[t].session # None /\ turn[t].session \in Sessions
  BY DEF IInv, ToldInv, TurnShape, Fit, Ends
<1>5. KnownTo(v.session, v.read)'
  <2>1. KnownTo(turn[t].session, turn[t].read)
    BY <1>4 DEF IInv, ToldInv, ReadInv
  <2> QED
    BY <1>3, <2>1 DEF KnownTo
<1>6. TurnShape' /\ ReadInv' /\ SpokenInv'
  <2>1. v.pc \notin {"log", "remember"}
    OBVIOUS
  <2> QED
    BY <1>1, <1>3, <1>4, <1>5, <2>1, ToldStays DEF IInv
<1>7. RememberedWasTold'
  BY <1>1 DEF IInv, ToldInv, RememberedWasTold, Answers
<1>8. RouteInv'
  BY <1>2 DEF IInv, RouteInv, Routed
<1>9. ASSUME NEW s \in calm PROVE Calm(s)'
  <2>1. Calm(s) /\ Talking(s)' = Talking(s)
    BY <1>2 DEF IInv, CalmInv, Talking
  <2>2. CASE t \notin Talking(s)
    BY <1>1, <1>2, <2>1, <2>2, CalmStays DEF Talking
  <2>3. CASE t \in Talking(s)
    <3>1. Conducts(turn[t], s)
      BY <2>1, <2>3 DEF Calm
    <3>2. Conducts(turn[t], s)' 
      BY <1>1, <1>2, <3>1 DEF Conducts, Agrees, SearchBefore, Searched
    <3>3. \A u \in Talking(s)' : u = t
      BY <2>1, <2>3 DEF Calm
    <3>4. Quoted(s)'
      BY <1>1, <2>1 DEF Calm, Quoted, SearchBefore, Searched
    <3> QED
      BY <2>1, <2>3, <3>2, <3>3, <3>4 DEF Calm
  <2> QED
    BY <2>2, <2>3
<1> QED
  BY <1>1, <1>3, <1>6, <1>7, <1>8, <1>9 DEF IInv, ToldInv, CalmInv

\* What a turn keeps of itself while it moves on.
Keeps(v, q, pc, route) ==
    /\ Fit(v) /\ v.pc = pc /\ v.session = q.session /\ v.read = q.read
    /\ v.message = q.message /\ v.route = route

LEMMA TurnFields ==
    ASSUME NEW q, Fit(q), q.pc \notin Ends, NEW pc \in Pcs \ Ends, NEW route, NEW table, NEW shown
    PROVE  /\ Keeps([q EXCEPT !.route = route, !.pc = pc], q, pc, route)
           /\ Keeps([q EXCEPT !.pc = pc, !.table = table, !.shown = shown], q, pc, q.route)
           /\ Keeps([q EXCEPT !.pc = pc, !.table = table], q, pc, q.route)
           /\ [q EXCEPT !.pc = pc, !.table = table].shown = q.shown
<1>1. /\ IsTurn(q) /\ IsMemory(q.read)
      /\ q.session \in Sessions /\ q.session # None
  BY DEF Fit
<1>2. \A v : /\ IsTurn(v) /\ v.pc = pc /\ v.session = q.session /\ v.read = q.read
            => Fit(v)
  BY <1>1 DEF Fit
<1> QED
  BY <1>1, <1>2 DEF IsTurn, Fields, Keeps

LEMMA DispatchStep == ASSUME IInv, NEW t \in Turns, Dispatch(t) PROVE IInv'
<1> DEFINE q == turn[t]
           route == Dispatched(q.message, q.read, chat[q.session] # <<>>)
           v == [q EXCEPT !.route = route,
                          !.pc = IF route.does = "search" THEN "search" ELSE Stages[1]]
<1>1. q.pc = "sent" /\ Step(t, v)
  BY DEF Dispatch
<1>2. Fit(q)
  BY DEF IInv, ToldInv, TurnShape
<1>3. /\ v.pc \in {"search", "answer"} /\ v.session = q.session /\ v.read = q.read
      /\ v.message = q.message /\ v.route = route /\ Fit(v)
  <2>1. Stages[1] = "answer"
    BY DEF Stages
  <2>2. PICK pc \in {"search", "answer"} : v = [q EXCEPT !.route = route, !.pc = pc]
    BY <2>1
  <2>3. q.pc \notin Ends /\ pc \in Pcs \ Ends
    BY <1>1 DEF Ends, Pcs
  <2> HIDE DEF route, v
  <2>4. Keeps(v, q, pc, route)
    BY <1>2, <2>2, <2>3, TurnFields
  <2> QED
    BY <2>4 DEF Keeps
<1>4. Routed(v)
  BY <1>3, AdviceIsAboutTheLast DEF Routed
<1> HIDE DEF v
<1> QED
  BY <1>1, <1>3, <1>4, StepInv

LEMMA SearchStep == ASSUME IInv, NEW t \in Turns, Search(t) PROVE IInv'
<1> DEFINE q == turn[t]
<1>1. PICK shown : q.pc = "search"
          /\ Step(t, [q EXCEPT !.pc = Stages[1], !.table = listing, !.shown = shown])
  BY DEF Search
<1> DEFINE v == [q EXCEPT !.pc = Stages[1], !.table = listing, !.shown = shown]
<1>2. Fit(q) /\ Routed(q)
  BY <1>1 DEF IInv, ToldInv, TurnShape, RouteInv
<1>3. /\ v.pc = "answer" /\ v.session = q.session /\ v.read = q.read
      /\ v.message = q.message /\ v.route = q.route /\ Fit(v)
  <2>1. Stages[1] = "answer"
    BY DEF Stages
  <2>2. q.pc \notin Ends /\ "answer" \in Pcs \ Ends
    BY <1>1 DEF Ends, Pcs
  <2>3. Keeps(v, q, "answer", q.route)
    BY <1>2, <2>1, <2>2, TurnFields
  <2> QED
    BY <2>3 DEF Keeps
<1>4. Routed(v) /\ Step(t, v)
  BY <1>1, <1>2, <1>3 DEF Routed
<1> HIDE DEF v
<1> QED
  BY <1>1, <1>3, <1>4, StepInv

\* A turn that begins reads what is remembered, which was told.
LEMMA SendStep == ASSUME IInv, NEW t \in Turns, Send(t) PROVE IInv'
<1>1. PICK s \in Sessions, m \in Messages :
          /\ turn[t].pc = "idle"
          /\ turn' = [turn EXCEPT ![t] = [Local("sent") EXCEPT !.session = s, !.message = m,
                                                               !.read = memory[s]]]
          /\ calm' = IF Talking(s) = {} THEN calm ELSE calm \ {s}
          /\ memory' = memory /\ chat' = chat /\ logged' = logged
  BY DEF Send
<1>12. PICK v : v = [Local("sent") EXCEPT !.session = s, !.message = m, !.read = memory[s]]
  OBVIOUS
<1>13. PICK memo : memo = memory[s]
  OBVIOUS
<1>2. /\ Fit(v) /\ v.pc = "sent" /\ v.session = s /\ v.read = memo
  <2>1. IsMemory(memory[s]) /\ s # None
    BY BuyerAssumption DEF IInv, ToldInv, RowShape
  <2>2. IsTurn(v) /\ v.pc = "sent" /\ v.session = s /\ v.read = memory[s]
    BY <1>12 DEF Local, IsTurn, Fields
  <2> QED
    BY <1>13, <2>1, <2>2 DEF Fit, Ends, Pcs
<1>3. turn' = [turn EXCEPT ![t] = v]
  BY <1>1, <1>12
<1>4. turn'[t] = v /\ \A u \in Turns \ {t} : turn'[u] = turn[u]
  BY <1>2, <1>3, Moved DEF IInv, ToldInv
<1>5. RowShape' /\ \A x : Answers(x)' = Answers(x)
  BY <1>1 DEF IInv, ToldInv, RowShape, IsMemory, Answers
<1>6. KnownTo(v.session, v.read)'
  <2>1. KnownTo(s, memo)
    BY <1>13 DEF IInv, ToldInv, RememberedWasTold, KnownTo
  <2> QED
    BY <1>2, <1>5, <2>1 DEF KnownTo
<1>7. TurnShape' /\ ReadInv' /\ SpokenInv'
  <2>1. v.pc \notin {"log", "remember"} /\ v.session \in Sessions
    BY <1>2
  <2> QED
    BY <1>2, <1>3, <1>5, <1>6, <2>1, ToldStays DEF IInv
<1>8. RememberedWasTold'
  BY <1>1 DEF IInv, ToldInv, RememberedWasTold, Answers
<1>9. RouteInv'
  BY <1>2, <1>4 DEF IInv, RouteInv, Routed
<1>10. turn[t].session = None
  BY <1>1 DEF IInv, ToldInv, TurnShape, Fit, Ends
<1>11. ASSUME NEW x \in calm' PROVE Calm(x)'
  <2>1. x \in Sessions /\ x # None /\ Calm(x)
    BY <1>1, <1>11, BuyerAssumption DEF IInv, ToldInv, RowShape, CalmInv
  <2>2. CASE x # s
    <3>1. Talking(x)' = Talking(x) /\ t \notin Talking(x)
      BY <1>2, <1>4, <1>10, <2>1, <2>2 DEF Talking
    <3> QED
      BY <1>1, <1>4, <2>1, <3>1, CalmStays DEF Talking
  <2>3. CASE x = s
    <3>1. Talking(s) = {} /\ Talking(s)' = {t}
      BY <1>1, <1>2, <1>4, <1>11, <2>3 DEF Talking
    <3>2. Agrees(memory[s], s) /\ Quoted(s)
      BY <1>13, <2>1, <2>3, <3>1 DEF Calm
    <3>3. Conducts(turn[t], s)'
      <4>1. SearchBefore(s, Len(chat[s]))' = SearchBefore(s, Len(chat[s]))
        BY <1>1 DEF SearchBefore, Searched
      <4>2. <<memo.query, memo.sort>> = SearchBefore(s, Len(chat[s]))'
        BY <1>13, <3>2, <4>1 DEF Agrees
      <4>3. turn'[t] = v /\ memory'[s] = memo
        BY <1>1, <1>4, <1>13
      <4> QED
        BY <1>2, <4>2, <4>3 DEF Conducts, Agrees
    <3>4. Quoted(s)'
      BY <1>1, <3>2 DEF Quoted, SearchBefore, Searched
    <3> QED
      BY <2>3, <3>1, <3>3, <3>4 DEF Calm
  <2> QED
    BY <2>2, <2>3
<1> QED
  BY <1>5, <1>7, <1>8, <1>9, <1>11 DEF IInv, ToldInv, CalmInv

\* The answer is about what the turn has read, which in a calm session is the
\* last search told; if it is a search, it is now the last one.
LEMMA AnswerStep == ASSUME IInv, NEW t \in Turns, Answer(t) PROVE IInv'
<1> DEFINE Said(first, last, does) ==
             [turn |-> t, does |-> does, query |-> turn[t].route.query, says |-> turn[t].message.says,
              sort |-> turn[t].route.sort, shown |-> turn[t].shown,
              true |-> Composed(<<first, last>>) # "altered"]
           Deeds == IF turn[t].route.does \in Advice THEN {turn[t].route.does, "ask"}
                    ELSE {turn[t].route.does}
<1>1. PICK q : q = turn[t]
  OBVIOUS
<1>2. PICK first \in Providers, last \in Providers, does \in Deeds :
          chat' = [chat EXCEPT ![turn[t].session] = Append(@, Said(first, last, does))]
  <2>1. \E first, last \in Providers : \E does \in Deeds :
           chat' = [chat EXCEPT ![turn[t].session] = Append(@, Said(first, last, does))]
    BY DEF Answer
  <2> HIDE DEF Said, Deeds
  <2> QED
    BY <2>1
<1>3. PICK e : e = Said(first, last, does)
  OBVIOUS
<1>4. PICK s : s = q.session
  OBVIOUS
<1>5. /\ chat' = [chat EXCEPT ![s] = Append(@, e)]
      /\ turn' = [turn EXCEPT ![t] = Onward(q)]
      /\ memory' = memory /\ logged' = logged /\ calm' = calm /\ q.pc = "answer"
  BY <1>1, <1>2, <1>3, <1>4 DEF Answer
<1>6. /\ e.turn = t /\ e.query = q.route.query /\ e.sort = q.route.sort /\ e.shown = q.shown
      /\ e.says = q.message.says /\ e.true
      /\ e.does = "search" <=> q.route.does = "search"
      /\ e.does \in Advice => q.route.does \in Advice
  <2>1. Composed(<<first, last>>) # "altered"
    BY DEF Composed, Safe
  <2>2. does = "search" <=> q.route.does = "search"
    BY <1>1 DEF Advice
  <2>3. does \in Advice => q.route.does \in Advice
    BY <1>1 DEF Advice
  <2> QED
    BY <1>1, <1>3, <2>1, <2>2, <2>3
<1>7. Fit(q) /\ s \in Sessions /\ q.session # None /\ Routed(q)
  BY <1>1, <1>4, <1>5 DEF IInv, ToldInv, TurnShape, RouteInv, Fit, Ends
<1>8. PICK v : v = Onward(q)
  OBVIOUS
<1>9. /\ v.pc = "log" /\ v.session = s /\ v.read = q.read /\ v.route = q.route
      /\ v.shown = q.shown /\ Fit(v)
  <2>1. v = [q EXCEPT !.pc = "log", !.table = <<>>]
    BY <1>5, <1>8, Going
  <2>2. q.pc \notin Ends /\ "log" \in Pcs \ Ends
    BY <1>5 DEF Ends, Pcs
  <2>3. Keeps([q EXCEPT !.pc = "log", !.table = <<>>], q, "log", q.route)
        /\ [q EXCEPT !.pc = "log", !.table = <<>>].shown = q.shown
    BY <1>7, <2>2, TurnFields
  <2> QED
    BY <1>4, <2>1, <2>3 DEF Keeps
<1>10. turn' = [turn EXCEPT ![t] = v]
  BY <1>5, <1>8
<1>11. turn'[t] = v /\ \A u \in Turns \ {t} : turn'[u] = turn[u]
  BY <1>9, <1>10, Moved DEF IInv, ToldInv
<1>12. RowShape
  BY DEF IInv, ToldInv
<1>13. /\ chat'[s] \in Seq(Answers(s)') /\ Answers(s)' = Answers(s) \cup {e}
       /\ \A x \in Sessions \ {s} : chat'[x] = chat[x] /\ Answers(x)' = Answers(x)
       /\ chat' = [x \in Sessions |-> chat'[x]]
  BY <1>5, <1>7, <1>12, Appended
<1>14. \A x \in Sessions : Answers(x) \subseteq Answers(x)'
  BY <1>13
<1>15. RowShape'
  <2>1. \A x \in Sessions : (chat[x] \in Seq(Answers(x)))'
    BY <1>7, <1>12, <1>13 DEF RowShape
  <2>2. memory' = [x \in Sessions |-> memory'[x]] /\ \A x \in Sessions : IsMemory(memory'[x])
    BY <1>5, <1>12 DEF RowShape
  <2>3. \A x \in Sessions : IsMemory(memory[x])'
    BY <2>2 DEF IsMemory
  <2> QED
    BY <1>5, <1>12, <1>13, <2>1, <2>2, <2>3 DEF RowShape
<1>16. KnownTo(v.session, v.read)'
  <2>1. KnownTo(s, q.read)
    BY <1>1, <1>4, <1>7 DEF IInv, ToldInv, ReadInv
  <2> QED
    BY <1>7, <1>9, <1>14, <2>1 DEF KnownTo
<1>17. Spoken(t, v)'
  BY <1>6, <1>9, <1>13 DEF Spoken
<1>18. TurnShape' /\ ReadInv' /\ SpokenInv'
  BY <1>7, <1>9, <1>10, <1>14, <1>16, <1>17, ToldStays DEF IInv
<1>19. RememberedWasTold'
  <2>1. ASSUME NEW x \in Sessions, memory'[x].query # Query
        PROVE  \E a \in Answers(x)' :
                  a.does = "search" /\ a.query = memory'[x].query /\ a.sort = memory'[x].sort
    BY <1>5, <1>14, <2>1 DEF IInv, ToldInv, RememberedWasTold
  <2>2. ASSUME NEW r \in logged'
        PROVE  \E x \in Sessions : \E a \in Answers(x)' :
                  a.turn = r.turn /\ a.shown = r.shown /\ a.query = r.query
    BY <1>5, <1>14 DEF IInv, ToldInv, RememberedWasTold
  <2>3. ASSUME NEW x \in Sessions PROVE \A a \in Answers(x)' : a.true
    BY <1>6, <1>13 DEF IInv, ToldInv, RememberedWasTold
  <2> QED
    BY <2>1, <2>2, <2>3 DEF RememberedWasTold
<1>20. RouteInv'
  BY <1>9, <1>11 DEF IInv, RouteInv, Routed
<1>21. ASSUME NEW x \in calm' PROVE Calm(x)'
  <2>1. Calm(x) /\ Talking(x)' = Talking(x) /\ x \in Sessions
    BY <1>1, <1>4, <1>5, <1>9, <1>11, <1>12 DEF IInv, CalmInv, Talking, RowShape
  <2>2. CASE x # s
    <3>1. t \notin Talking(x)
      BY <1>1, <1>4, <2>2 DEF Talking
    <3> QED
      BY <1>5, <1>11, <1>13, <2>1, <2>2, <3>1, CalmStays DEF Talking
  <2>3. CASE x = s
    <3>1. t \in Talking(s) /\ Conducts(q, s) /\ \A u \in Talking(s) : u = t
      BY <1>1, <1>4, <2>1, <2>3 DEF Calm, Talking
    <3>2. PICK before : before = SearchBefore(s, Len(chat[s]))
      OBVIOUS
    <3>3. q.read = memory[s] /\ <<q.read.query, q.read.sort>> = before
      BY <1>5, <3>1, <3>2 DEF Conducts, Agrees
    <3>4. SearchBefore(s, Len(chat[s]))' =
             IF e.does = "search" THEN <<e.query, e.sort>> ELSE before
      BY <1>5, <1>7, <1>12, <3>2, SearchAfter
    <3>5. Conducts(turn[t], s)'
      <4>1. <<IF q.route.does = "search" THEN q.route.query ELSE q.read.query,
              IF q.route.does = "search" THEN q.route.sort ELSE q.read.sort>>
               = SearchBefore(s, Len(chat[s]))'
        BY <1>6, <3>3, <3>4
      <4>2. Agrees(IF q.route.does = "search" THEN q.route ELSE q.read, s)'
        BY <4>1 DEF Agrees
      <4>3. turn'[t] = v /\ memory'[s] = q.read
        BY <1>5, <1>11, <3>3
      <4> QED
        BY <1>9, <4>2, <4>3 DEF Conducts
    <3>6. Quoted(s)'
      <4>1. PICK n \in Nat : n = Len(chat[s])
        BY <1>5, <1>7, <1>12, Appended
      <4>2. /\ DOMAIN chat[s] = 1 .. n /\ DOMAIN chat'[s] = 1 .. n + 1 /\ chat'[s][n + 1] = e
            /\ \A i \in 1 .. n : chat'[s][i] = chat[s][i]
        BY <1>5, <1>7, <1>12, <4>1, Appended
      <4>3. ASSUME NEW i \in 0 .. n PROVE SearchBefore(s, i)' = SearchBefore(s, i)
        <5>1. i \in Nat /\ \A j \in 1 .. i : chat'[s][j] = chat[s][j]
          BY <4>2
        <5> QED
          BY <1>7, <5>1, SameSearches
      <4>4. ASSUME NEW i \in 1 .. n + 1, chat'[s][i].does \in Advice
            PROVE  chat'[s][i].query = Stable(Over(chat'[s][i].says, SearchBefore(s, i - 1)'[1]))
        <5>1. SearchBefore(s, i - 1)' = SearchBefore(s, i - 1)
          BY <4>3
        <5>2. CASE i = n + 1
          <6>1. e.query = Stable(Over(e.says, q.read.query))
            BY <1>6, <1>7, <4>2, <4>4, <5>2 DEF Routed
          <6>2. SearchBefore(s, n)[1] = q.read.query
            BY <3>2, <3>3, <4>1
          <6>3. i - 1 = n /\ chat'[s][i] = e
            BY <4>2, <5>2
          <6> QED
            BY <5>1, <6>1, <6>2, <6>3
        <5>3. CASE i # n + 1
          <6>1. i \in 1 .. n
            BY <5>3
          <6>2. chat[s][i].query = Stable(Over(chat[s][i].says, SearchBefore(s, i - 1)[1]))
            BY <2>1, <2>3, <4>2, <4>4, <6>1 DEF Calm, Quoted
          <6> QED
            BY <4>2, <5>1, <6>1, <6>2
        <5> QED
          BY <5>2, <5>3
      <4> QED
        BY <4>2, <4>4 DEF Quoted
    <3> QED
      BY <2>1, <2>3, <3>1, <3>5, <3>6 DEF Calm
  <2> QED
    BY <2>2, <2>3
<1> QED
  BY <1>15, <1>18, <1>19, <1>20, <1>21 DEF IInv, ToldInv, CalmInv

\* A session that is calm stays so when the turns and the rows of others move.
LEMMA OthersCalm ==
    ASSUME IInv, NEW t \in Turns, NEW v, Fit(v), turn' = [turn EXCEPT ![t] = v],
           NEW x \in calm, chat' = chat,
           x # turn[t].session, x # v.session, memory'[x] = memory[x]
    PROVE  Calm(x)'
<1>1. turn'[t] = v /\ \A u \in Turns \ {t} : turn'[u] = turn[u]
  BY Moved DEF IInv, ToldInv
<1>2. Calm(x) /\ Talking(x)' = Talking(x) /\ t \notin Talking(x)
  BY <1>1 DEF IInv, CalmInv, Talking
<1> QED
  BY <1>1, <1>2, CalmStays DEF Talking

\* A line of the log is of the answer before it.
LEMMA LogStep == ASSUME IInv, NEW t \in Turns, Log(t) PROVE IInv'
<1>1. PICK q : q = turn[t]
  OBVIOUS
<1>2. PICK s : s = q.session
  OBVIOUS
<1>3. PICK v : v = Onward(q)
  OBVIOUS
<1>4. /\ turn' = [turn EXCEPT ![t] = v] /\ q.pc = "log"
      /\ memory' = memory /\ chat' = chat /\ calm' = calm
      /\ \A r \in logged' : r \in logged \/ r = [turn |-> t, query |-> q.route.query, shown |-> q.shown]
  BY <1>1, <1>3 DEF Log
<1>5. Fit(q) /\ s \in Sessions /\ q.session # None /\ Spoken(t, q)
  BY <1>1, <1>2, <1>4 DEF IInv, ToldInv, TurnShape, SpokenInv, Fit, Ends
<1>6. /\ v.pc = "remember" /\ v.session = s /\ v.read = q.read /\ v.route = q.route
      /\ v.shown = q.shown /\ Fit(v)
  <2>1. v = [q EXCEPT !.pc = "remember", !.table = <<>>]
    BY <1>3, <1>4, Going
  <2>2. q.pc \notin Ends /\ "remember" \in Pcs \ Ends
    BY <1>4 DEF Ends, Pcs
  <2>3. Keeps([q EXCEPT !.pc = "remember", !.table = <<>>], q, "remember", q.route)
        /\ [q EXCEPT !.pc = "remember", !.table = <<>>].shown = q.shown
    BY <1>5, <2>2, TurnFields
  <2> QED
    BY <1>2, <2>1, <2>3 DEF Keeps
<1>7. turn'[t] = v /\ \A u \in Turns \ {t} : turn'[u] = turn[u]
  BY <1>4, <1>6, Moved DEF IInv, ToldInv
<1>8. RowShape' /\ \A x : Answers(x)' = Answers(x)
  BY <1>4 DEF IInv, ToldInv, RowShape, IsMemory, Answers
<1>9. KnownTo(v.session, v.read)'
  <2>1. KnownTo(s, q.read)
    BY <1>1, <1>2, <1>5 DEF IInv, ToldInv, ReadInv
  <2> QED
    BY <1>6, <1>8, <2>1 DEF KnownTo
<1>10. Spoken(t, v)'
  BY <1>2, <1>5, <1>6, <1>8 DEF Spoken
<1>11. TurnShape' /\ ReadInv' /\ SpokenInv'
  BY <1>4, <1>5, <1>6, <1>8, <1>9, <1>10, ToldStays DEF IInv
<1>12. RememberedWasTold'
  <2>1. ASSUME NEW r \in logged'
        PROVE  \E x \in Sessions : \E a \in Answers(x) :
                  a.turn = r.turn /\ a.shown = r.shown /\ a.query = r.query
    <3>1. CASE r \in logged
      BY <3>1 DEF IInv, ToldInv, RememberedWasTold
    <3>2. CASE r = [turn |-> t, query |-> q.route.query, shown |-> q.shown]
      BY <1>2, <1>5, <3>2 DEF Spoken
    <3> QED
      BY <1>4, <3>1, <3>2
  <2> QED
    BY <1>4, <1>8, <2>1 DEF IInv, ToldInv, RememberedWasTold
<1>13. RouteInv'
  BY <1>6, <1>7 DEF IInv, RouteInv, Routed
<1>14. ASSUME NEW x \in calm' PROVE Calm(x)'
  <2>1. CASE x # s
    BY <1>1, <1>2, <1>4, <1>6, <1>14, <2>1, OthersCalm
  <2>2. CASE x = s
    <3>1. Calm(s) /\ t \in Talking(s) /\ Talking(s)' = Talking(s)
      BY <1>1, <1>2, <1>4, <1>6, <1>7, <1>14, <2>2 DEF IInv, CalmInv, Talking
    <3>2. /\ q.read = memory[s] /\ \A u \in Talking(s) : u = t
          /\ Agrees(IF q.route.does = "search" THEN q.route ELSE q.read, s) /\ Quoted(s)
      BY <1>1, <1>4, <3>1 DEF Calm, Conducts
    <3>3. /\ SearchBefore(s, Len(chat[s]))' = SearchBefore(s, Len(chat[s]))
          /\ Quoted(s)'
      BY <1>4, <3>2 DEF SearchBefore, Searched, Quoted
    <3>4. Agrees(IF v.route.does = "search" THEN v.route ELSE v.read, s)'
      BY <1>6, <3>2, <3>3 DEF Agrees
    <3>5. Conducts(turn[t], s)'
      BY <1>4, <1>6, <1>7, <3>2, <3>4 DEF Conducts
    <3> QED
      BY <2>2, <3>1, <3>2, <3>3, <3>5 DEF Calm
  <2> QED
    BY <2>1, <2>2
<1> QED
  BY <1>8, <1>11, <1>12, <1>13, <1>14 DEF IInv, ToldInv, CalmInv

\* What a turn remembers is the search it has told, or what it has read.
LEMMA RememberStep == ASSUME IInv, NEW t \in Turns, Remember(t) PROVE IInv'
<1>1. PICK q : q = turn[t]
  OBVIOUS
<1>2. PICK s : s = q.session
  OBVIOUS
<1>3. PICK memo : memo = Remembered(q)
  OBVIOUS
<1>4. /\ q.pc = "remember" /\ turn' = [turn EXCEPT ![t] = Onward(q)]
      /\ memory' = [memory EXCEPT ![s] = memo]
      /\ chat' = chat /\ logged' = logged /\ calm' = calm
  BY <1>1, <1>2, <1>3 DEF Remember
<1>5. PICK v : v = Local("done")
  OBVIOUS
<1>6. /\ turn' = [turn EXCEPT ![t] = v] /\ Fit(v) /\ v.pc = "done" /\ v.session = None
  BY <1>4, <1>5, Going, Locals DEF Ends
<1>7. Fit(q) /\ IsMemory(q.read) /\ s \in Sessions /\ s # None /\ Spoken(t, q) /\ KnownTo(s, q.read)
  BY <1>1, <1>2, <1>4 DEF IInv, ToldInv, TurnShape, SpokenInv, ReadInv, Fit, Ends
<1>8. turn'[t] = v /\ \A u \in Turns \ {t} : turn'[u] = turn[u]
  BY <1>6, Moved DEF IInv, ToldInv
<1>9. /\ IsMemory(memo)
      /\ memo.query = IF q.route.does = "search" THEN q.route.query ELSE q.read.query
      /\ memo.sort = IF q.route.does = "search" THEN q.route.sort ELSE q.read.sort
  <2> DEFINE said == IF q.route.property # Property THEN q.route.property
                     ELSE IF Substantive(q.message.extract)
                          THEN Merged(q.read.property, q.message.extract) ELSE q.read.property
  <2>1. memo = IF q.route.does = "search"
               THEN [query |-> q.route.query, sort |-> q.route.sort, property |-> said]
               ELSE [q.read EXCEPT !.property = said]
    BY <1>3 DEF Remembered
  <2> HIDE DEF said
  <2> QED
    BY <1>7, <2>1 DEF IsMemory
<1>10. memory'[s] = memo /\ \A x \in Sessions \ {s} : memory'[x] = memory[x]
  BY <1>4, <1>7 DEF IInv, ToldInv, RowShape
<1>11. RowShape' /\ \A x : Answers(x)' = Answers(x)
  <2>1. memory' = [x \in Sessions |-> memory'[x]]
    BY <1>4 DEF IInv, ToldInv, RowShape
  <2>2. \A x \in Sessions : IsMemory(memory'[x])
    BY <1>9, <1>10 DEF IInv, ToldInv, RowShape
  <2>3. \A x \in Sessions : IsMemory(memory[x])'
    BY <2>2 DEF IsMemory
  <2> QED
    BY <1>4, <2>1, <2>3 DEF IInv, ToldInv, RowShape, Answers
<1>12. KnownTo(s, memo)
  <2>1. CASE q.route.does = "search"
    BY <1>2, <1>7, <1>9, <2>1 DEF Spoken, KnownTo
  <2>2. CASE q.route.does # "search"
    BY <1>7, <1>9, <2>2 DEF KnownTo
  <2> QED
    BY <2>1, <2>2
<1>13. TurnShape' /\ ReadInv' /\ SpokenInv'
  BY <1>6, <1>11, ToldStays DEF IInv
<1>14. RememberedWasTold'
  <2>1. ASSUME NEW x \in Sessions, memory'[x].query # Query
        PROVE  \E a \in Answers(x) :
                  a.does = "search" /\ a.query = memory'[x].query /\ a.sort = memory'[x].sort
    <3>1. CASE x = s
      BY <1>10, <1>12, <2>1, <3>1 DEF KnownTo
    <3>2. CASE x # s
      BY <1>10, <2>1, <3>2 DEF IInv, ToldInv, RememberedWasTold
    <3> QED
      BY <3>1, <3>2
  <2> QED
    BY <1>4, <1>11, <2>1 DEF IInv, ToldInv, RememberedWasTold
<1>15. RouteInv'
  BY <1>6, <1>8 DEF IInv, RouteInv, Routed
<1>16. ASSUME NEW x \in calm' PROVE Calm(x)'
  <2>0. x \in Sessions /\ x # None
    BY <1>4, <1>16, BuyerAssumption DEF IInv, ToldInv, RowShape
  <2>1. CASE x # s
    <3>1. /\ x \in calm /\ x # turn[t].session /\ x # v.session
          /\ memory'[x] = memory[x] /\ chat' = chat
      BY <1>1, <1>2, <1>4, <1>6, <1>10, <1>16, <2>0, <2>1
    <3> QED
      BY <1>6, <3>1, OthersCalm
  <2>2. CASE x = s
    <3>1. Calm(s) /\ t \in Talking(s)
      BY <1>1, <1>2, <1>4, <1>16, <2>2 DEF IInv, CalmInv, Talking
    <3>2. /\ \A u \in Talking(s) : u = t
          /\ Agrees(IF q.route.does = "search" THEN q.route ELSE q.read, s) /\ Quoted(s)
      BY <1>1, <1>4, <3>1 DEF Calm, Conducts
    <3>3. Talking(s)' = {}
      BY <1>6, <1>7, <1>8, <3>2 DEF Talking
    <3>4. /\ SearchBefore(s, Len(chat[s]))' = SearchBefore(s, Len(chat[s]))
          /\ Quoted(s)'
      BY <1>4, <3>2 DEF SearchBefore, Searched, Quoted
    <3>5. Agrees(memo, s)
      BY <1>9, <3>2 DEF Agrees
    <3>6. Agrees(memory[s], s)'
      BY <1>10, <3>4, <3>5 DEF Agrees
    <3> QED
      BY <2>2, <3>3, <3>4, <3>6 DEF Calm
  <2> QED
    BY <2>1, <2>2
<1> QED
  BY <1>11, <1>13, <1>14, <1>15, <1>16 DEF IInv, ToldInv, CalmInv

\* A turn that stops before its answer leaves the session as it has read it.
LEMMA StopStep == ASSUME IInv, NEW t \in Turns, Stop(t) PROVE IInv'
<1>1. PICK q : q = turn[t]
  OBVIOUS
<1>2. PICK s : s = q.session
  OBVIOUS
<1>3. PICK v : v = Local("failed")
  OBVIOUS
<1>4. /\ turn' = [turn EXCEPT ![t] = v] /\ s # None
      /\ memory' = memory /\ chat' = chat /\ logged' = logged
      /\ calm' = IF Told(t) THEN calm \ {s} ELSE calm
  BY <1>1, <1>2, <1>3 DEF Stop
<1>5. Fit(v) /\ v.pc = "failed" /\ v.session = None
  BY <1>3, Locals DEF Ends
<1>6. Fit(q) /\ s \in Sessions
  BY <1>1, <1>2, <1>4 DEF IInv, ToldInv, TurnShape, Fit
<1>7. turn'[t] = v /\ \A u \in Turns \ {t} : turn'[u] = turn[u]
  BY <1>4, <1>5, Moved DEF IInv, ToldInv
<1>8. RowShape' /\ \A x : Answers(x)' = Answers(x)
  BY <1>4 DEF IInv, ToldInv, RowShape, IsMemory, Answers
<1>9. TurnShape' /\ ReadInv' /\ SpokenInv'
  BY <1>4, <1>5, <1>8, ToldStays DEF IInv
<1>10. RememberedWasTold'
  BY <1>4 DEF IInv, ToldInv, RememberedWasTold, Answers
<1>11. RouteInv'
  BY <1>5, <1>7 DEF IInv, RouteInv, Routed
<1>12. ASSUME NEW x \in calm' PROVE Calm(x)'
  <2>0. x \in calm /\ x \in Sessions /\ x # None
    BY <1>4, <1>12, BuyerAssumption DEF IInv, ToldInv, RowShape
  <2>1. CASE x # s
    BY <1>1, <1>2, <1>4, <1>5, <2>0, <2>1, OthersCalm
  <2>2. CASE x = s
    <3>1. ~Told(t)
      BY <1>4, <1>12, <2>2
    <3>2. q.pc \in {"sent", "search", "answer"}
      <4>1. ASSUME q.pc \in {"log", "remember"} PROVE FALSE
        <5>1. \E a \in Answers(s) : a.turn = t
          BY <1>1, <1>2, <4>1 DEF IInv, ToldInv, SpokenInv, Spoken
        <5> QED
          BY <1>6, <3>1, <5>1 DEF Told, Answers
      <4> QED
        BY <1>2, <1>4, <1>6, <4>1 DEF Fit, Pcs
    <3>3. Calm(s) /\ t \in Talking(s)
      BY <1>1, <1>2, <2>0, <2>2 DEF IInv, CalmInv, Talking
    <3>4. Agrees(memory[s], s) /\ Quoted(s) /\ \A u \in Talking(s) : u = t
      BY <1>1, <3>2, <3>3 DEF Calm, Conducts
    <3>5. Talking(s)' = {}
      BY <1>4, <1>5, <1>7, <3>4 DEF Talking
    <3>6. Agrees(memory[s], s)' /\ Quoted(s)'
      BY <1>4, <3>4 DEF Agrees, SearchBefore, Searched, Quoted
    <3> QED
      BY <2>2, <3>5, <3>6 DEF Calm
  <2> QED
    BY <2>1, <2>2
<1> QED
  BY <1>8, <1>9, <1>10, <1>11, <1>12 DEF IInv, ToldInv, CalmInv

\* A price that changes is none of what is told, remembered or logged.
LEMMA StillInv == ASSUME IInv, UNCHANGED <<memory, chat, logged, turn, calm>> PROVE IInv'
<1>1. /\ TurnShape' /\ RowShape' /\ ReadInv' /\ SpokenInv' /\ RememberedWasTold' /\ RouteInv'
  <2>1. TurnShape'
    BY DEF IInv, ToldInv, TurnShape, Fit, IsTurn, IsMemory
  <2>2. RowShape' /\ \A x : Answers(x)' = Answers(x)
    BY DEF IInv, ToldInv, RowShape, IsMemory, Answers
  <2>3. ReadInv' /\ SpokenInv'
    BY DEF IInv, ToldInv, ReadInv, SpokenInv, KnownTo, Spoken, Answers
  <2>4. RememberedWasTold'
    BY DEF IInv, ToldInv, RememberedWasTold, Answers
  <2>5. RouteInv'
    BY DEF IInv, RouteInv, Routed
  <2> QED
    BY <2>1, <2>2, <2>3, <2>4, <2>5
<1>2. CalmInv'
  BY CalmStays DEF IInv, CalmInv, Talking
<1> QED
  BY <1>1, <1>2 DEF IInv, ToldInv

-----------------------------------------------------------------------------
(* The theorems.                                                            *)
LEMMA InitInv == ASSUME Init PROVE IInv
<1>1. TurnShape /\ \A t \in Turns : turn[t].pc = "idle" /\ turn[t].session = None
  BY Locals DEF Init, TurnShape, Ends
<1>2. RowShape
  BY DEF Init, RowShape, IsMemory, Blank, Answers
<1>3. ReadInv /\ SpokenInv /\ RouteInv
  BY <1>1 DEF ReadInv, SpokenInv, RouteInv
<1>4. RememberedWasTold
  BY DEF Init, RememberedWasTold, Blank, Answers
<1>5. ASSUME NEW s \in calm PROVE Calm(s)
  <2>1. s \in Sessions /\ s # None /\ chat[s] = <<>> /\ memory[s] = Blank
    BY <1>5, BuyerAssumption DEF Init
  <2>2. Talking(s) = {}
    BY <1>1, <2>1 DEF Talking
  <2>3. Searched(s, Len(chat[s])) = {}
    BY <2>1 DEF Searched
  <2>4. Agrees(memory[s], s)
    BY <2>1, <2>3 DEF Agrees, SearchBefore, Blank
  <2>5. Quoted(s)
    BY <2>1 DEF Quoted
  <2> QED
    BY <2>2, <2>4, <2>5 DEF Calm
<1> QED
  BY <1>1, <1>2, <1>3, <1>4, <1>5 DEF IInv, ToldInv, CalmInv

LEMMA NextInv == ASSUME IInv, [Next]_vars PROVE IInv'
<1>1. CASE UNCHANGED vars
  BY <1>1, StillInv DEF vars
<1>2. ASSUME NEW i \in DOMAIN listing, Reprice(i) PROVE IInv'
  BY <1>2, StillInv DEF Reprice
<1>3. ASSUME NEW t \in Turns,
             Send(t) \/ Dispatch(t) \/ Search(t) \/ Answer(t) \/ Log(t) \/ Remember(t) \/ Stop(t)
      PROVE  IInv'
  BY <1>3, SendStep, DispatchStep, SearchStep, AnswerStep, LogStep, RememberStep, StopStep
<1> QED
  BY <1>1, <1>2, <1>3 DEF Next

LEMMA Invariance == Spec => []IInv
<1>1. Init => IInv
  BY InitInv
<1>2. IInv /\ [Next]_vars => IInv'
  BY NextInv
<1> QED
  BY <1>1, <1>2, PTL DEF Spec

\* Whatever overlaps or stops, a session remembers no search, and the log holds
\* no listings, that the session was not told, and no answer of a model is taken
\* that lacks a value of its listings (persistLastQueryState, logRecommendations,
\* the checks of a model's answer in BuyerChatService).
THEOREM ToldBeforeRemembered == Spec => []RememberedWasTold
<1>1. IInv => RememberedWasTold
  BY DEF IInv, ToldInv
<1> QED
  BY <1>1, Invariance, PTL

\* In a session whose turns never overlapped nor stopped after an answer, what is
\* remembered is the last search told, and advice is about it (sendMessage,
\* resolveContextQuery).
THEOREM TalkIsFollowed == Spec => []FollowsTheTalk
<1>1. IInv => FollowsTheTalk
  BY DEF IInv, CalmInv, Calm, Agrees, Quoted, FollowsTheTalk
<1> QED
  BY <1>1, Invariance, PTL

-----------------------------------------------------------------------------
(* The order of listings.                                                   *)

\* The lesser of two.
LEMMA LeastOf == ASSUME NEW a \in Int, NEW b \in Int PROVE Min({a, b}) = IF a <= b THEN a ELSE b
<1> DEFINE least == IF a <= b THEN a ELSE b
<1>1. least \in {a, b} /\ \A y \in {a, b} : least <= y
  OBVIOUS
<1>2. \A x \in {a, b} : (\A y \in {a, b} : x <= y) => x = least
  OBVIOUS
<1> HIDE DEF least
<1>3. Min({a, b}) = least
  BY <1>1, <1>2 DEF Min
<1> QED
  BY <1>3 DEF least

LEMMA GreaterOf == ASSUME NEW a \in Int, NEW b \in Int PROVE Max({a, b}) = IF a >= b THEN a ELSE b
<1> DEFINE most == IF a >= b THEN a ELSE b
<1>1. most \in {a, b} /\ \A y \in {a, b} : most >= y
  OBVIOUS
<1>2. \A x \in {a, b} : (\A y \in {a, b} : x >= y) => x = most
  OBVIOUS
<1> HIDE DEF most
<1>3. Max({a, b}) = most
  BY <1>1, <1>2 DEF Max
<1> QED
  BY <1>3 DEF most

\* The elements of a finite set S in a strict total order R: one element has each
\* place, and an earlier place is before a later one.
StrictOrder(S, R) ==
    /\ \A i \in S : <<i, i>> \notin R
    /\ \A i, j, k \in S : <<i, j>> \in R /\ <<j, k>> \in R => <<i, k>> \in R
    /\ \A i, j \in S : i = j \/ <<i, j>> \in R \/ <<j, i>> \in R

LEMMA InOrder ==
    ASSUME NEW S, IsFiniteSet(S), NEW R, StrictOrder(S, R), NEW n, n = Cardinality(S)
    PROVE  LET list == Arranged(S, R)
           IN /\ n \in Nat /\ DOMAIN list = 1 .. n /\ Len(list) = n
              /\ \A k \in 1 .. n : list[k] \in S
              /\ \A i \in S : \E k \in 1 .. n : list[k] = i
              /\ \A k, l \in 1 .. n : k < l => <<list[k], list[l]>> \in R
<1> DEFINE before == [i \in S |-> {j \in S : <<j, i>> \in R}]
           place == [i \in S |-> Cardinality(before[i])]
           places == {place[i] : i \in S}
           list == Arranged(S, R)
<1>1. n \in Nat
  BY FS_CardinalityType
<1>2. \A i \in S : /\ before[i] \subseteq S /\ i \notin before[i] /\ IsFiniteSet(before[i])
                   /\ place[i] \in 0 .. n - 1
  <2>1. SUFFICES ASSUME NEW i \in S
                 PROVE  /\ before[i] \subseteq S /\ i \notin before[i] /\ IsFiniteSet(before[i])
                        /\ place[i] \in 0 .. n - 1
    OBVIOUS
  <2> DEFINE u == before[i]
  <2>2. u \subseteq S /\ i \notin u /\ u # S
    BY DEF StrictOrder
  <2>3. place[i] = Cardinality(u)
    OBVIOUS
  <2> HIDE DEF u, place
  <2>4. IsFiniteSet(u) /\ Cardinality(u) \in Nat /\ Cardinality(u) <= n /\ Cardinality(u) # n
    BY <2>2, FS_Subset, FS_CardinalityType
  <2> QED
    BY <1>1, <2>2, <2>3, <2>4 DEF u
<1>3. ASSUME NEW i \in S, NEW j \in S, <<i, j>> \in R PROVE place[i] < place[j]
  <2> DEFINE u == before[i]
             v == before[j]
  <2>1. u \subseteq v /\ i \in v /\ i \notin u
    BY <1>3 DEF StrictOrder
  <2>2. IsFiniteSet(v) /\ place[i] = Cardinality(u) /\ place[j] = Cardinality(v)
    BY <1>2
  <2> HIDE DEF u, v, place
  <2>3. Cardinality(u) <= Cardinality(v) /\ Cardinality(u) # Cardinality(v)
    BY <2>1, <2>2, FS_Subset
  <2>4. place[i] \in 0 .. n - 1 /\ place[j] \in 0 .. n - 1
    BY <1>2 DEF place
  <2>5. place[i] \in Nat /\ place[j] \in Nat
    BY <1>1, <2>4
  <2> QED
    BY <2>2, <2>3, <2>5
<1>30. \A i \in S : place[i] \in Nat
  <2>1. \A i \in S : place[i] \in 0 .. n - 1
    BY <1>2
  <2> HIDE DEF place
  <2> QED
    BY <1>1, <2>1
<1>4. ASSUME NEW i \in S, NEW j \in S PROVE place[i] < place[j] <=> <<i, j>> \in R
  <2>1. place[i] \in Nat /\ place[j] \in Nat
    BY <1>30
  <2>2. i = j \/ <<i, j>> \in R \/ <<j, i>> \in R
    BY DEF StrictOrder
  <2>3. <<i, j>> \in R => place[i] < place[j]
    BY <1>3
  <2>4. <<j, i>> \in R => place[j] < place[i]
    BY <1>3
  <2> HIDE DEF place
  <2> QED
    BY <2>1, <2>2, <2>3, <2>4
<1>5. \A i, j \in S : place[i] = place[j] => i = j
  <2>1. SUFFICES ASSUME NEW i \in S, NEW j \in S, place[i] = place[j] PROVE i = j
    OBVIOUS
  <2>2. ~(place[i] < place[j]) /\ ~(place[j] < place[i])
    <3> HIDE DEF place
    <3> QED
      BY <1>30, <2>1
  <2>3. <<i, j>> \notin R /\ <<j, i>> \notin R
    BY <1>4, <2>2
  <2> QED
    BY <2>3 DEF StrictOrder
<1>6. places = 0 .. n - 1
  <2>1. IsFiniteSet(0 .. n - 1) /\ Cardinality(0 .. n - 1) = n
    <3>1. PICK z \in Int, m \in Int : z = 0 /\ m = n - 1
      BY <1>1
    <3>2. IsFiniteSet(z .. m) /\ Cardinality(z .. m) = IF z > m THEN 0 ELSE m - z + 1
      BY FS_Interval
    <3> QED
      BY <1>1, <3>1, <3>2
  <2>2. places \subseteq 0 .. n - 1
    BY <1>2
  <2>3. Cardinality(places) = n
    <3>1. place \in Bijection(S, places)
      BY <1>5 DEF Bijection, Injection, IsInjective, Surjection
    <3> HIDE DEF place, places
    <3> QED
      BY <3>1, FS_Bijection DEF ExistsBijection
  <2> HIDE DEF places
  <2> QED
    BY <2>1, <2>2, <2>3, FS_Subset
<1>7. list = [k \in 1 .. n |-> CHOOSE i \in S : place[i] = k - 1]
  BY SMTT(30) DEF Arranged
<1>8. ASSUME NEW k \in 1 .. n PROVE list[k] \in S /\ place[list[k]] = k - 1
  <2>1. k - 1 \in places
    <3>1. k - 1 \in 0 .. n - 1
      BY <1>1
    <3> QED
      BY <1>6, <3>1
  <2>2. \E i \in S : place[i] = k - 1
    BY <2>1
  <2>3. list[k] = CHOOSE i \in S : place[i] = k - 1
    BY <1>7
  <2> HIDE DEF place, list
  <2> QED
    BY <2>2, <2>3
<1>9. DOMAIN list = 1 .. n /\ Len(list) = n
  BY <1>1, <1>7
<1> HIDE DEF list, place
<1>10. ASSUME NEW i \in S PROVE \E k \in 1 .. n : list[k] = i
  <2>1. place[i] \in 0 .. n - 1
    BY <1>2
  <2>2. PICK k \in 1 .. n : k - 1 = place[i]
    BY <1>1, <2>1
  <2>3. list[k] \in S /\ place[list[k]] = place[i]
    BY <1>8, <2>2
  <2> QED
    BY <1>5, <2>2, <2>3
<1>11. ASSUME NEW k \in 1 .. n, NEW l \in 1 .. n, k < l PROVE <<list[k], list[l]>> \in R
  <2>1. /\ list[k] \in S /\ list[l] \in S
        /\ place[list[k]] = k - 1 /\ place[list[l]] = l - 1
    BY <1>8
  <2>2. place[list[k]] < place[list[l]]
    BY <1>11, <2>1
  <2> QED
    BY <1>4, <2>1, <2>2
<1> QED
  BY <1>1, <1>8, <1>9, <1>10, <1>11 DEF list

\* What is kept of them, and what is left out.
Listed(list) == {list[k] : k \in DOMAIN list}

LEMMA TopOf ==
    ASSUME NEW S, IsFiniteSet(S), NEW R, StrictOrder(S, R), NEW limit \in Nat, NEW top,
           top = Cut(Arranged(S, R), limit), NEW T, T = Listed(top)
    PROVE  /\ T \subseteq S /\ IsFiniteSet(T)
           /\ Cardinality(T) = Len(top)
           /\ Len(top) = IF limit <= Cardinality(S) THEN limit ELSE Cardinality(S)
           /\ \A i \in S \ T, j \in T : <<j, i>> \in R
<1> DEFINE n == Cardinality(S)
           list == Arranged(S, R)
           len == IF limit <= n THEN limit ELSE n
<1>1. /\ n \in Nat /\ DOMAIN list = 1 .. n /\ Len(list) = n
      /\ \A k \in 1 .. n : list[k] \in S
      /\ \A i \in S : \E k \in 1 .. n : list[k] = i
      /\ \A k, l \in 1 .. n : k < l => <<list[k], list[l]>> \in R
  BY InOrder
<1>2. top = [k \in 1 .. Min({limit, n}) |-> list[k]]
  BY <1>1 DEF Cut
<1> HIDE DEF n, list
<1>3. Min({limit, n}) = len /\ len \in Nat /\ len <= n
  BY <1>1, LeastOf
<1> HIDE DEF len
<1>4. DOMAIN top = 1 .. len /\ Len(top) = len /\ \A k \in 1 .. len : top[k] = list[k] /\ k \in 1 .. n
  <2>1. top = [k \in 1 .. len |-> list[k]]
    BY <1>2, <1>3
  <2>2. len \in Nat /\ n \in Nat /\ len <= n
    BY <1>1, <1>3
  <2>3. DOMAIN top = 1 .. len /\ Len(top) = len
    BY <2>1, <2>2
  <2>4. ASSUME NEW k \in 1 .. len PROVE top[k] = list[k] /\ k \in 1 .. n
    BY <2>1, <2>2
  <2> QED
    BY <2>3, <2>4
<1>5. T \subseteq S
  BY <1>1, <1>4 DEF Listed
<1>6. IsFiniteSet(T)
  BY <1>5, FS_Subset
<1>7. ASSUME NEW k \in 1 .. len, NEW l \in 1 .. len, top[k] = top[l] PROVE k = l
  <2>1. k \in 1 .. n /\ l \in 1 .. n /\ list[k] = list[l] /\ list[k] \in S
    BY <1>1, <1>4, <1>7
  <2>2. <<list[k], list[k]>> \notin R
    BY <2>1 DEF StrictOrder
  <2> QED
    BY <1>1, <2>1, <2>2
<1>8. Cardinality(T) = len
  <2>1. top \in [1 .. len -> T] /\ \A x \in T : \E k \in 1 .. len : top[k] = x
    BY <1>2, <1>3, <1>4 DEF Listed
  <2>2. top \in Bijection(1 .. len, T)
    BY <1>4, <1>7, <2>1 DEF Bijection, Injection, IsInjective, Surjection
  <2>3. IsFiniteSet(1 .. len) /\ Cardinality(1 .. len) = len
    <3>1. IsFiniteSet(1 .. len) /\ Cardinality(1 .. len) = IF 1 > len THEN 0 ELSE len - 1 + 1
      BY <1>3, FS_Interval
    <3> QED
      BY <1>3, <3>1
  <2> QED
    BY <2>2, <2>3, FS_Bijection DEF ExistsBijection
<1>9. ASSUME NEW i \in S \ T, NEW j \in T PROVE <<j, i>> \in R
  <2>1. PICK k \in 1 .. n : list[k] = i
    BY <1>1
  <2>2. PICK l \in 1 .. len : list[l] = j /\ l \in 1 .. n
    BY <1>4 DEF Listed
  <2>3. k \notin 1 .. len
    BY <1>4, <1>9, <2>1 DEF Listed
  <2>4. l < k
    BY <1>1, <1>3, <2>1, <2>2, <2>3
  <2> QED
    BY <1>1, <2>1, <2>2, <2>4
<1> QED
  BY <1>4, <1>5, <1>6, <1>8, <1>9 DEF len, n

LEMMA DivGrows ==
    ASSUME NEW a \in Nat, NEW b \in Nat, a <= b, NEW d \in Nat \ {0}
    PROVE  a \div d \in Int /\ b \div d \in Int /\ a \div d <= b \div d
<1> DEFINE q == a \div d
           r == b \div d
<1>1. q \in Int /\ r \in Int /\ d * q <= a /\ b < d * (r + 1)
  OBVIOUS
<1> HIDE DEF q, r
<1>2. d * q < d * (r + 1)
  BY <1>1
<1>3. \A x, y \in Int : d * x < d * y => x < y
  OBVIOUS
<1> QED
  BY <1>1, <1>2, <1>3 DEF q, r

LEMMA PercentGrows ==
    ASSUME NEW x \in Int, NEW y \in Int, x <= y
    PROVE  Percent(x) \in Int /\ Percent(y) \in Int /\ Percent(x) <= Percent(y)
<1>1. ASSUME NEW z \in Int
      PROVE  Percent(z) = IF z > 100 THEN 100 ELSE IF z < 0 THEN 0 ELSE z
  <2> DEFINE least == IF 100 <= z THEN 100 ELSE z
  <2>1. Min({100, z}) = least
    BY LeastOf
  <2>2. least \in Int
    OBVIOUS
  <2>3. Max({0, least}) = IF 0 >= least THEN 0 ELSE least
    BY <2>2, GreaterOf
  <2> QED
    BY <2>1, <2>3 DEF Percent
<1> QED
  BY <1>1

\* The rows of Property as they were, but for their prices and when they changed.
Wellformed(table) ==
    /\ DOMAIN table = DOMAIN Listings
    /\ \A i \in DOMAIN table :
          /\ DOMAIN table[i] = {"city", "district", "type", "area", "price", "updated", "age"}
          /\ table[i].district = Listings[i].district
          /\ table[i].area \in Nat /\ table[i].price \in Nat
          /\ table[i].updated \in Nat /\ table[i].age \in Nat
QueryOk(q) == DOMAIN q = DOMAIN Query /\ q.area \in Nat /\ q.budget \in Nat

LEMMA RowsNumbered ==
          /\ Len(Listings) \in Nat /\ DOMAIN Listings = 1 .. Len(Listings)
          /\ IsFiniteSet(DOMAIN Listings) /\ DOMAIN Listings \subseteq Nat
<1>1. Len(Listings) \in Nat /\ DOMAIN Listings = 1 .. Len(Listings)
  BY BuyerAssumption
<1>2. PICK n \in Nat : n = Len(Listings)
  BY <1>1
<1>3. IsFiniteSet(1 .. n)
  BY FS_Interval
<1> QED
  BY <1>1, <1>2, <1>3

LEMMA ApartType == ASSUME NEW a \in Nat, NEW b \in Nat PROVE Apart(a, b) \in Nat
  BY DEF Apart

LEMMA NearerOrders ==
    ASSUME NEW table, Wellformed(table), NEW q, QueryOk(q), NEW S \in SUBSET (DOMAIN table),
           NEW R, R = {p \in S \X S : Nearer(table, p[1], p[2], q)}
    PROVE  StrictOrder(S, R)
<1> DEFINE d == [i \in S |-> Apart(table[i].price, q.budget)]
           u == [i \in S |-> table[i].updated]
<1>1. ASSUME NEW i \in S PROVE i \in Nat /\ d[i] \in Nat /\ u[i] \in Nat
  BY RowsNumbered, ApartType DEF Wellformed, QueryOk
<1>2. ASSUME NEW i \in S, NEW j \in S
      PROVE  <<i, j>> \in R <=> \/ q.budget > 0 /\ d[i] < d[j]
                                \/ /\ q.budget > 0 => d[i] = d[j]
                                   /\ u[i] > u[j] \/ (u[i] = u[j] /\ i < j)
  BY DEF Nearer
<1> HIDE DEF d, u
<1>3. q.budget \in Nat
  BY DEF QueryOk
<1>4. \A i \in S : <<i, i>> \notin R
  BY <1>1, <1>2
<1>5. ASSUME NEW i \in S, NEW j \in S, NEW k \in S, <<i, j>> \in R, <<j, k>> \in R
      PROVE  <<i, k>> \in R
  BY <1>1, <1>2, <1>3, <1>5
<1>6. ASSUME NEW i \in S, NEW j \in S PROVE i = j \/ <<i, j>> \in R \/ <<j, i>> \in R
  BY <1>1, <1>2, <1>3
<1> QED
  BY <1>4, <1>5, <1>6 DEF StrictOrder

LEMMA MatchTypes ==
    ASSUME NEW l, NEW q, QueryOk(q), l.area \in Nat, l.price \in Nat, l.age \in Nat
    PROVE  PriceMatch(l, q) \in Int /\ AreaMatch(l, q) \in Int /\ DistrictMatch(q) \in Int
           /\ Percent(100 - (100 * l.age) \div 180) \in Int
<1>1. Apart(l.price, q.budget) \in Nat /\ Apart(l.area, q.area) \in Nat
  BY ApartType DEF QueryOk
<1>2. PriceMatch(l, q) \in Int
  <2>1. CASE q.budget > 0 /\ l.price > 0
    <3>1. 35 * q.budget \in Nat \ {0} /\ 10000 * Apart(l.price, q.budget) \in Nat
      BY <1>1, <2>1 DEF QueryOk
    <3>2. (10000 * Apart(l.price, q.budget)) \div (35 * q.budget) \in Int
      BY <3>1, DivGrows
    <3>3. 100 - (10000 * Apart(l.price, q.budget)) \div (35 * q.budget) \in Int
      BY <3>2
    <3> QED
      BY <2>1, <3>3, PercentGrows DEF PriceMatch
  <2> QED
    BY <2>1 DEF PriceMatch
<1>3. AreaMatch(l, q) \in Int
  <2>1. 100 - (100 * Apart(l.area, q.area)) \div 40 \in Int
    BY <1>1
  <2> QED
    BY <2>1, PercentGrows DEF AreaMatch
<1>4. 100 - (100 * l.age) \div 180 \in Int
  OBVIOUS
<1> QED
  BY <1>2, <1>3, <1>4, PercentGrows DEF DistrictMatch

LEMMA TrendTypes ==
    ASSUME NEW x \in {"UP", "DOWN", "STABLE", "error"}
    PROVE  TrendMatch(x).trend \in Int /\ TrendMatch(x).fit \in Int
<1>1. x = "UP" \/ x = "DOWN" \/ x = "STABLE" \/ x = "error"
  OBVIOUS
<1> QED
  BY <1>1 DEF TrendMatch

LEMMA ScoreType ==
    ASSUME NEW table, Wellformed(table), NEW q, QueryOk(q), NEW trend \in Trends,
           NEW i \in Fitting(table, q)
    PROVE  /\ Score(table[i], q, trend) \in Int
           /\ trend[IF q.district # None THEN q.district ELSE table[i].district]
                = trend[table[i].district]
<1>1. i \in DOMAIN Listings /\ table[i].district = Listings[i].district
  BY DEF Fitting, Wellformed
<1>2. trend[table[i].district] \in {"UP", "DOWN", "STABLE", "error"}
  BY <1>1, BuyerAssumption
<1>3. q.district # None => table[i].district = q.district
  BY DEF Fitting, Matches
<1> DEFINE m == TrendMatch(trend[table[i].district])
<1>4. m.trend \in Int /\ m.fit \in Int
  BY <1>2, TrendTypes
<1>5. /\ PriceMatch(table[i], q) \in Int /\ AreaMatch(table[i], q) \in Int
      /\ DistrictMatch(q) \in Int /\ Percent(100 - (100 * table[i].age) \div 180) \in Int
  BY <1>1, MatchTypes DEF Wellformed
<1> QED
  BY <1>3, <1>4, <1>5 DEF Score

\* The pairs in the order of the ranking, as it is sorted.
Ranks(S, table, q, sort, trend) == {p \in S \X S : Preferred(table, p[1], p[2], q, sort, trend)}

LEMMA PreferredOrders ==
    ASSUME NEW table, Wellformed(table), NEW q, QueryOk(q), NEW trend \in Trends,
           NEW S \in SUBSET Fitting(table, q), NEW sort,
           NEW R, R = Ranks(S, table, q, sort, trend)
    PROVE  StrictOrder(S, R)
<1> DEFINE N == {p \in S \X S : Nearer(table, p[1], p[2], q)}
           s == [i \in S |-> Score(table[i], q, trend)]
           v == [i \in S |-> table[i].price]
           Cheap(i, j) == v[i] > 0 /\ (v[j] = 0 \/ v[i] < v[j])
<1>1. S \in SUBSET (DOMAIN table)
  BY DEF Fitting
<1>2. StrictOrder(S, N)
  BY <1>1, NearerOrders
<1>3. ASSUME NEW i \in S PROVE s[i] \in Int /\ v[i] \in Nat
  BY <1>1, ScoreType DEF Wellformed
<1>4. ASSUME NEW i \in S, NEW j \in S
      PROVE  <<i, j>> \in R <=>
                \/ sort = "PRICE" /\ Cheap(i, j)
                \/ /\ sort = "PRICE" => ~Cheap(j, i)
                   /\ s[i] > s[j] \/ (s[i] = s[j] /\ <<i, j>> \in N)
  BY DEF Ranks, Preferred, Better, CheapFirst
<1> HIDE DEF s, v, N
<1>5. ASSUME NEW i \in S PROVE <<i, i>> \notin R
  <2>1. <<i, i>> \notin N
    BY <1>2 DEF StrictOrder
  <2>2. s[i] \in Int /\ v[i] \in Nat
    BY <1>3
  <2> QED
    BY <1>4, <2>1, <2>2
<1>6. ASSUME NEW i \in S, NEW j \in S, NEW k \in S, <<i, j>> \in R, <<j, k>> \in R
      PROVE  <<i, k>> \in R
  <2>1. <<i, j>> \in N /\ <<j, k>> \in N => <<i, k>> \in N
    BY <1>2 DEF StrictOrder
  <2>2. /\ s[i] \in Int /\ s[j] \in Int /\ s[k] \in Int
        /\ v[i] \in Nat /\ v[j] \in Nat /\ v[k] \in Nat
    BY <1>3
  <2> QED
    BY <1>4, <1>6, <2>1, <2>2
<1>7. ASSUME NEW i \in S, NEW j \in S PROVE i = j \/ <<i, j>> \in R \/ <<j, i>> \in R
  <2>1. i = j \/ <<i, j>> \in N \/ <<j, i>> \in N
    BY <1>2 DEF StrictOrder
  <2>2. s[i] \in Int /\ s[j] \in Int /\ v[i] \in Nat /\ v[j] \in Nat
    BY <1>3
  <2> QED
    BY <1>4, <2>1, <2>2
<1> QED
  BY <1>5, <1>6, <1>7 DEF StrictOrder

\* A listing that is at once nearer in price and size and newer ranks higher.
LEMMA BetterOnAllCounts ==
    ASSUME NEW table, Wellformed(table), NEW q, QueryOk(q), NEW trend \in Trends,
           NEW i \in Fitting(table, q), NEW j \in Fitting(table, q),
           Dominates(table[i], table[j], q)
    PROVE  Score(table[i], q, trend) >= Score(table[j], q, trend)
           /\ ~Nearer(table, j, i, q)
<1> DEFINE a == table[i]
           b == table[j]
<1>1. /\ a.area \in Nat /\ a.price \in Nat /\ a.age \in Nat
      /\ b.area \in Nat /\ b.price \in Nat /\ b.age \in Nat
      /\ q.budget \in Nat /\ q.area \in Nat
  BY DEF Wellformed, Fitting, QueryOk
<1>2. /\ a.district = b.district /\ a.price > 0 /\ b.price > 0
      /\ q.budget > 0 /\ Apart(a.price, q.budget) < Apart(b.price, q.budget)
      /\ q.area > 0 => a.area > 0 /\ b.area > 0 /\ Apart(a.area, q.area) <= Apart(b.area, q.area)
      /\ a.age <= b.age
  BY DEF Dominates, Fitting, Matches
<1>3. ~Nearer(table, j, i, q)
  <2>1. Apart(a.price, q.budget) \in Nat /\ Apart(b.price, q.budget) \in Nat
    BY <1>1, ApartType
  <2> QED
    BY <1>2, <2>1 DEF Nearer
<1> HIDE DEF a, b
<1>4. PriceMatch(b, q) \in Int /\ PriceMatch(a, q) \in Int /\ PriceMatch(b, q) <= PriceMatch(a, q)
  <2> DEFINE d == 35 * q.budget
             x == 10000 * Apart(a.price, q.budget)
             y == 10000 * Apart(b.price, q.budget)
  <2>1. Apart(a.price, q.budget) \in Nat /\ Apart(b.price, q.budget) \in Nat
    BY <1>1, ApartType
  <2>2. d \in Nat \ {0} /\ x \in Nat /\ y \in Nat /\ x <= y
    BY <1>1, <1>2, <2>1
  <2>3. PriceMatch(a, q) = Percent(100 - x \div d) /\ PriceMatch(b, q) = Percent(100 - y \div d)
    BY <1>2 DEF PriceMatch
  <2> HIDE DEF d, x, y
  <2>4. x \div d \in Int /\ y \div d \in Int /\ x \div d <= y \div d
    BY <2>2, DivGrows
  <2>5. 100 - x \div d \in Int /\ 100 - y \div d \in Int /\ 100 - y \div d <= 100 - x \div d
    BY <2>4
  <2> QED
    BY <2>3, <2>5, PercentGrows
<1>5. AreaMatch(b, q) \in Int /\ AreaMatch(a, q) \in Int /\ AreaMatch(b, q) <= AreaMatch(a, q)
  <2>1. CASE q.area > 0
    <3> DEFINE x == 100 * Apart(a.area, q.area)
               y == 100 * Apart(b.area, q.area)
    <3>1. Apart(a.area, q.area) \in Nat /\ Apart(b.area, q.area) \in Nat
      BY <1>1, ApartType
    <3>2. x \in Nat /\ y \in Nat /\ x <= y
      BY <1>2, <2>1, <3>1
    <3>3. AreaMatch(a, q) = Percent(100 - x \div 40) /\ AreaMatch(b, q) = Percent(100 - y \div 40)
      BY <1>2, <2>1 DEF AreaMatch
    <3> HIDE DEF x, y
    <3>4. 100 - x \div 40 \in Int /\ 100 - y \div 40 \in Int /\ 100 - y \div 40 <= 100 - x \div 40
      BY <3>2
    <3> QED
      BY <3>3, <3>4, PercentGrows
  <2>2. CASE ~(q.area > 0)
    BY <2>2 DEF AreaMatch
  <2> QED
    BY <2>1, <2>2
<1> DEFINE f == Percent(100 - (100 * a.age) \div 180)
           g == Percent(100 - (100 * b.age) \div 180)
<1>6. g \in Int /\ f \in Int /\ g <= f
  <2>1. /\ 100 - (100 * a.age) \div 180 \in Int /\ 100 - (100 * b.age) \div 180 \in Int
        /\ 100 - (100 * b.age) \div 180 <= 100 - (100 * a.age) \div 180
    BY <1>1, <1>2
  <2> QED
    BY <2>1, PercentGrows
<1>7. PICK m : m = TrendMatch(trend[IF q.district # None THEN q.district ELSE a.district])
  OBVIOUS
<1>8. /\ Score(a, q, trend) = 30 * PriceMatch(a, q) + 20 * AreaMatch(a, q) + 15 * 100 + 15 * 100
            + 10 * DistrictMatch(q) + 5 * f + 3 * m.trend + 2 * m.fit
      /\ Score(b, q, trend) = 30 * PriceMatch(b, q) + 20 * AreaMatch(b, q) + 15 * 100 + 15 * 100
            + 10 * DistrictMatch(q) + 5 * g + 3 * m.trend + 2 * m.fit
  BY <1>2, <1>7 DEF Score
<1>9. m.trend \in Int /\ m.fit \in Int
  <2>1. PICK x \in {"UP", "DOWN", "STABLE", "error"} :
           x = trend[IF q.district # None THEN q.district ELSE a.district]
    <3>1. i \in DOMAIN Listings /\ a.district = Listings[i].district
      BY DEF Fitting, Wellformed, a
    <3>2. trend[a.district] \in {"UP", "DOWN", "STABLE", "error"}
      BY <3>1, BuyerAssumption
    <3>3. trend[IF q.district # None THEN q.district ELSE a.district] = trend[a.district]
      BY ScoreType DEF a
    <3> QED
      BY <3>2, <3>3
  <2> QED
    BY <1>7, <2>1, TrendTypes
<1>10. DistrictMatch(q) \in Int
  BY DEF DistrictMatch
<1> HIDE DEF f, g
<1>11. Score(a, q, trend) >= Score(b, q, trend)
  BY <1>4, <1>5, <1>6, <1>8, <1>9, <1>10
<1> QED
  BY <1>3, <1>11 DEF a, b

\* What a search shows, of the listings that fit.
ShowsBest(table, q, sort, list) ==
    LET fits == Fitting(table, q)
        shown == {list[k] : k \in DOMAIN list}
    IN /\ shown \subseteq fits /\ Cardinality(shown) = Len(list)
       /\ Len(list) = Min({ShowLimit, Cardinality(fits)})
       /\ sort = "PRICE" /\ Cardinality(fits) <= SearchLimit =>
            \A i \in fits \ shown, j \in shown : ~CheaperThan(table[i], table[j])
       /\ sort = "SCORE" =>
            \A i \in fits \ shown, j \in shown : ~Dominates(table[i], table[j], q)

LEMMA ShownFits ==
    ASSUME NEW table, Wellformed(table), NEW q, QueryOk(q), NEW trend \in Trends, NEW sort
    PROVE  ShowsBest(table, q, sort, Shown(table, q, sort, trend))
<1>0. PICK list, fits, shown : /\ list = Shown(table, q, sort, trend) /\ fits = Fitting(table, q)
                               /\ shown = Listed(list)
  OBVIOUS
<1> DEFINE N == {p \in fits \X fits : Nearer(table, p[1], p[2], q)}
           found == Candidates(table, q)
           S == Listed(found)
           R == Ranks(S, table, q, sort, trend)
<1>1. fits \in SUBSET (DOMAIN table) /\ IsFiniteSet(fits)
  <2>1. fits \in SUBSET (DOMAIN table) /\ DOMAIN table = DOMAIN Listings
    BY <1>0 DEF Fitting, Wellformed
  <2> QED
    BY <2>1, RowsNumbered, FS_Subset
<1>2. StrictOrder(fits, N)
  BY <1>1, NearerOrders
<1>3. SearchLimit \in Nat /\ ShowLimit \in Nat /\ ShowLimit <= SearchLimit
  BY BuyerAssumption
<1>4. found = Cut(Arranged(fits, N), SearchLimit)
  BY <1>0 DEF Candidates
<1>5. list = Cut(Arranged(S, R), ShowLimit)
  BY <1>0 DEF Shown, Listed, Ranks
<1> HIDE DEF N, found
<1>6. /\ S \subseteq fits /\ IsFiniteSet(S)
      /\ Cardinality(S) = IF SearchLimit <= Cardinality(fits) THEN SearchLimit ELSE Cardinality(fits)
      /\ \A i \in fits \ S, j \in S : <<j, i>> \in N
  BY <1>1, <1>2, <1>3, <1>4, TopOf
<1> HIDE DEF S
<1>7. StrictOrder(S, R)
  <2>1. S \in SUBSET Fitting(table, q)
    BY <1>0, <1>6
  <2> QED
    BY <2>1, PreferredOrders
<1> HIDE DEF R
<1>8. /\ shown \subseteq S
      /\ Cardinality(shown) = Len(list)
      /\ Len(list) = IF ShowLimit <= Cardinality(S) THEN ShowLimit ELSE Cardinality(S)
      /\ \A i \in S \ shown, j \in shown : <<j, i>> \in R
  <2>1. IsFiniteSet(S) /\ ShowLimit \in Nat
    BY <1>3, <1>6
  <2> QED
    BY <1>0, <1>5, <1>7, <2>1, TopOf
<1>9. Cardinality(fits) \in Nat
  BY <1>1, FS_CardinalityType
<1>10. Len(list) = Min({ShowLimit, Cardinality(fits)})
  <2>1. Min({ShowLimit, Cardinality(fits)}) =
           IF ShowLimit <= Cardinality(fits) THEN ShowLimit ELSE Cardinality(fits)
    BY <1>3, <1>9, LeastOf
  <2> QED
    BY <1>3, <1>6, <1>8, <1>9, <2>1
<1>11. ASSUME sort = "PRICE", Cardinality(fits) <= SearchLimit,
              NEW i \in fits \ shown, NEW j \in shown
       PROVE  ~CheaperThan(table[i], table[j])
  <2>1. S = fits
    <3>1. Cardinality(S) = Cardinality(fits)
      BY <1>3, <1>6, <1>9, <1>11
    <3> QED
      BY <1>1, <1>6, <3>1, FS_Subset
  <2>2. <<j, i>> \in R
    BY <1>8, <1>11, <2>1
  <2>3. Preferred(table, j, i, q, sort, trend)
    BY <2>2 DEF R, Ranks
  <2>4. table[i].price \in Nat /\ table[j].price \in Nat
    BY <1>1, <1>6, <1>8 DEF Wellformed
  <2> QED
    BY <1>11, <2>3, <2>4 DEF Preferred, CheapFirst, CheaperThan
<1>12. ASSUME sort = "SCORE", NEW i \in fits \ shown, NEW j \in shown
       PROVE  ~Dominates(table[i], table[j], q)
  <2>1. SUFFICES ASSUME Dominates(table[i], table[j], q) PROVE FALSE
    OBVIOUS
  <2>2. i \in fits /\ j \in fits /\ j \in S /\ fits = Fitting(table, q)
    BY <1>0, <1>6, <1>8, <1>12
  <2>3. Score(table[i], q, trend) >= Score(table[j], q, trend) /\ ~Nearer(table, j, i, q)
    BY <2>1, <2>2, BetterOnAllCounts
  <2>4. CASE i \in S
    <3>1. <<j, i>> \in R
      BY <1>8, <1>12, <2>4
    <3>2. Better(table, j, i, q, trend)
      BY <1>12, <3>1 DEF R, Ranks, Preferred
    <3>3. Score(table[i], q, trend) \in Int /\ Score(table[j], q, trend) \in Int
      BY <2>2, ScoreType
    <3> QED
      BY <2>3, <3>2, <3>3 DEF Better
  <2>5. CASE i \notin S
    <3>1. <<j, i>> \in N
      BY <1>6, <2>2, <2>5
    <3> QED
      BY <2>3, <3>1 DEF N
  <2> QED
    BY <2>4, <2>5
<1> QED
  BY <1>0, <1>6, <1>8, <1>10, <1>11, <1>12 DEF ShowsBest, Listed

\* "Cheaper" takes at least as much off a budget as the ceiling of a search adds.
LEMMA CheaperIsUnder ==
    ASSUME NEW b \in Nat, b > 0 PROVE Cheaper(b) \in Nat /\ Cheaper(b) > 0 /\ Ceiling(Cheaper(b)) <= b
<1> DEFINE r == Round(b * 88, 100)
           c == IF 1 >= r THEN 1 ELSE r
<1>1. r \in Int
  BY DEF Round
<1>2. Cheaper(b) = c
  <2> HIDE DEF r
  <2> QED
    BY <1>1, GreaterOf DEF Cheaper, r
<1>3. Round(c * 110, 100) <= b /\ c \in Nat /\ c > 0
  BY DEF Round
<1> QED
  BY <1>2, <1>3 DEF Ceiling

-----------------------------------------------------------------------------
(* The query of a search.                                                   *)
LEMMA QueryFields == DOMAIN Query = {"city", "district", "type", "area", "budget"}
  BY DEF Query

LEMMA StableOk ==
    ASSUME NEW q, QueryOk(q)
    PROVE  QueryOk(Stable(q)) /\ Stable(q).area = q.area /\ Stable(q).budget = q.budget
BY QueryFields DEF QueryOk, Stable

LEMMA OverOk ==
    ASSUME NEW m \in Messages, NEW last, QueryOk(last)
    PROVE  QueryOk(Over(m.says, last)) /\ (m.says.budget = 0 => Over(m.says, last).budget = last.budget)
<1>1. DOMAIN m.says = DOMAIN Query /\ m.says.area \in Nat /\ m.says.budget \in Nat
  BY BuyerAssumption
<1>2. Query.area = 0 /\ Query.budget = 0
  BY DEF Query
<1>3. /\ DOMAIN Over(m.says, last) = DOMAIN Query
      /\ Over(m.says, last).area = IF m.says.area = 0 THEN last.area ELSE m.says.area
      /\ Over(m.says, last).budget = IF m.says.budget = 0 THEN last.budget ELSE m.says.budget
  BY <1>1, <1>2, QueryFields DEF Over
<1> QED
  BY <1>1, <1>3 DEF QueryOk

LEMMA RewordedOk ==
    ASSUME NEW m, NEW last, QueryOk(last)
    PROVE  /\ QueryOk(Reworded(m, last))
           /\ "cheaper" \in m.words /\ "dearer" \notin m.words /\ last.budget > 0 =>
                Reworded(m, last).budget = Cheaper(last.budget)
<1> DEFINE lower == IF "cheaper" \in m.words /\ last.budget > 0 THEN Cheaper(last.budget) ELSE last.budget
           budget == IF "dearer" \in m.words /\ lower > 0 THEN Dearer(lower) ELSE lower
           wider == IF "larger" \in m.words /\ last.area > 0 THEN last.area + 20 ELSE last.area
           area == IF "smaller" \in m.words /\ wider > 0 THEN Max({1, wider - 20}) ELSE wider
<1>1. last.budget \in Nat /\ last.area \in Nat /\ DOMAIN last = DOMAIN Query
  BY DEF QueryOk
<1>2. lower \in Nat
  <2>1. CASE last.budget > 0
    <3>1. Cheaper(last.budget) \in Nat
      BY <1>1, <2>1, CheaperIsUnder
    <3> QED
      BY <1>1, <3>1
  <2> QED
    BY <1>1, <2>1
<1> HIDE DEF lower
<1>3. budget \in Nat
  <2>1. \A x \in Nat : Dearer(x) \in Nat
    BY DEF Dearer, Round
  <2> QED
    BY <1>2, <2>1
<1>4. wider \in Nat
  BY <1>1
<1> HIDE DEF wider
<1>5. area \in Nat
  <2>1. wider - 20 \in Int
    BY <1>4
  <2>2. Max({1, wider - 20}) = IF 1 >= wider - 20 THEN 1 ELSE wider - 20
    BY <2>1, GreaterOf
  <2> QED
    BY <1>4, <2>2
<1>6. /\ DOMAIN Reworded(m, last) = DOMAIN Query
      /\ Reworded(m, last).budget = budget /\ Reworded(m, last).area = area
  <2> HIDE DEF area, budget
  <2> DEFINE w == [last EXCEPT !.budget = budget, !.area = area,
                               !.type = IF "noVilla" \in m.words THEN "APARTMENT" ELSE @]
  <2>1. Reworded(m, last) = w
    BY DEF Reworded, area, wider, budget, lower
  <2>2. DOMAIN w = DOMAIN Query /\ w.budget = budget /\ w.area = area
    BY <1>1, QueryFields
  <2> QED
    BY <2>1, <2>2
<1>7. QueryOk(Reworded(m, last))
  BY <1>3, <1>5, <1>6 DEF QueryOk
<1>8. "cheaper" \in m.words /\ "dearer" \notin m.words /\ last.budget > 0 =>
         Reworded(m, last).budget = Cheaper(last.budget)
  BY <1>6 DEF lower
<1> QED
  BY <1>7, <1>8

LEMMA RefinedOk ==
    ASSUME NEW m \in Messages, NEW last, QueryOk(last)
    PROVE  /\ QueryOk(Refined(m, last))
           /\ "cheaper" \in m.words /\ "dearer" \notin m.words /\ m.says.budget = 0 /\ last.budget > 0 =>
                Refined(m, last).budget = Cheaper(last.budget)
<1>1. QueryOk(Stable(last)) /\ Stable(last).budget = last.budget
  BY StableOk
<1>2. /\ QueryOk(Reworded(m, Stable(last)))
      /\ "cheaper" \in m.words /\ "dearer" \notin m.words /\ last.budget > 0 =>
           Reworded(m, Stable(last)).budget = Cheaper(last.budget)
  BY <1>1, RewordedOk
<1>3. PICK w : w = Reworded(m, Stable(last))
  OBVIOUS
<1>4. QueryOk(Over(m.says, w)) /\ (m.says.budget = 0 => Over(m.says, w).budget = w.budget)
  BY <1>2, <1>3, OverOk
<1>5. QueryOk(Stable(Over(m.says, w))) /\ Stable(Over(m.says, w)).budget = Over(m.says, w).budget
  BY <1>4, StableOk
<1> QED
  BY <1>2, <1>3, <1>4, <1>5 DEF Refined

\* A route to a search has a query; a refinement is of the last one.
Finds(route, m, last) ==
    route.does = "search" =>
        QueryOk(route.query) /\ (route.refine => route.query = Refined(m, last))

LEMMA SearchesHaveQueries ==
    ASSUME NEW m \in Messages, NEW memo, QueryOk(memo.query), NEW spoken
    PROVE  Finds(Dispatched(m, memo, spoken), m, memo.query)
<1> DEFINE last == memo.query
           Good(route) == Finds(route, m, last)
<1>1. QueryOk(ContextQuery(m, last)) /\ QueryOk(FreshQuery(m)) /\ QueryOk(Refined(m, last))
  <2>1. QueryOk(m.says)
    BY BuyerAssumption DEF QueryOk
  <2> QED
    BY <2>1, StableOk, OverOk, RefinedOk DEF ContextQuery, FreshQuery
<1>2. \A does, query : does # "search" => Good(About(does, query))
  BY DEF About, Nothing, Finds
<1>3. \A sort : /\ Good(Searching(Refined(m, last), sort, TRUE))
                /\ Good(Searching(ContextQuery(m, last), sort, FALSE))
                /\ Good(Searching(FreshQuery(m), sort, FALSE))
  BY <1>1 DEF Searching, Nothing, Finds
<1>4. Good(Nothing)
  BY DEF Nothing, Finds
<1>5. Good(AdvisorRoute(m, memo.property, spoken))
  BY DEF AdvisorRoute, Nothing, Finds
<1> HIDE DEF Good
<1> DEFINE q == ContextQuery(m, last)
<1>6. Good(PriceRoute(q))
  <2> DEFINE rows == << <<q.district = None \/ q.area = 0, About("ask", q)>>,
                        <<q.budget = 0, About("estimate", q)>>,
                        <<TRUE, About("judge", q)>> >>
  <2>1. DOMAIN rows = 1 .. 3 /\ rows[3][1]
    OBVIOUS
  <2>2. Good(rows[1][2]) /\ Good(rows[2][2]) /\ Good(rows[3][2])
    BY <1>2
  <2>3. PriceRoute(q) = Decide(rows)
    BY DEF PriceRoute
  <2> HIDE DEF rows
  <2>4. PICK i \in 1 .. 3 : Decide(rows) = rows[i][2]
    BY <2>1, Decides
  <2> QED
    BY <2>2, <2>3, <2>4
<1>7. ASSUME NEW intent PROVE Good(GeneralRoute(m, intent, last))
  <2> DEFINE rows ==
        << <<intent = "AREA_COMPARISON", About(IF m.areas > 1 THEN "compare" ELSE "ask", Query)>>,
           <<intent = "MARKET_ANALYSIS", About(IF q.district = None THEN "ask" ELSE "analyze", q)>>,
           <<intent = "PRICE_ESTIMATION", PriceRoute(q)>>,
           <<intent = "FOLLOW_UP_CONTEXTUAL" /\ last # Query,
             Searching(Refined(m, last), SortOf(m, "SCORE"), TRUE)>>,
           <<intent \in {"INVESTMENT_ADVICE", "RENTAL_GUIDANCE", "BUYER_GUIDANCE",
                         "FOLLOW_UP_CONTEXTUAL", "PROPERTY_DETAILS"}, About("guide", q)>>,
           <<TRUE, Nothing>> >>
  <2>1. DOMAIN rows = 1 .. 6 /\ rows[6][1]
    OBVIOUS
  <2>2. Good(rows[1][2]) /\ Good(rows[2][2])
    BY <1>2
  <2>3. Good(rows[3][2]) /\ Good(rows[5][2])
    BY <1>2, <1>6
  <2>4. Good(rows[4][2]) /\ Good(rows[6][2])
    BY <1>3, <1>4
  <2>5. GeneralRoute(m, intent, last) = Decide(rows)
    BY DEF GeneralRoute
  <2> HIDE DEF rows, q
  <2>6. PICK i \in 1 .. 6 : Decide(rows) = rows[i][2]
    BY <2>1, Decides
  <2> QED
    BY <2>2, <2>3, <2>4, <2>5, <2>6
<1> DEFINE intent == Classified(m, last # Query \/ spoken)
           talks == intent \in {"OUT_OF_SCOPE", "GREETING", "ACKNOWLEDGEMENT", "CONFIRMATION", "CLARIFY"}
           advises == m.advisor \in {"PROPERTY_EVALUATION", "INVESTMENT_ANALYSIS", "MARKET_HEATMAP"}
           searches == \/ intent \in {"PROPERTY_SEARCH", "PROPERTY_RECOMMENDATION"}
                       \/ intent = "INVESTMENT_ADVICE" /\ m.recommends
           routes == << <<talks, Nothing>>,
                 <<advises, AdvisorRoute(m, memo.property, spoken)>>,
                 <<m.refines /\ last # Query, Searching(Refined(m, last), SortOf(m, memo.sort), TRUE)>>,
                 <<searches, Searching(ContextQuery(m, last), "SCORE", FALSE)>>,
                 <<~m.finds, GeneralRoute(m, intent, last)>>,
                 <<TRUE, Searching(FreshQuery(m), "SCORE", FALSE)>> >>
<1>8. Decide(routes) = Dispatched(m, memo, spoken)
  BY DEF Dispatched
<1> HIDE DEF intent, talks, advises, searches
<1>9. DOMAIN routes = 1 .. 6 /\ routes[6][1]
  OBVIOUS
<1>10. Good(routes[1][2]) /\ Good(routes[2][2])
  BY <1>4, <1>5
<1>11. Good(routes[3][2]) /\ Good(routes[4][2])
  BY <1>3
<1>12. Good(routes[5][2]) /\ Good(routes[6][2])
  BY <1>3, <1>7
<1> HIDE DEF routes
<1>13. PICK i \in 1 .. 6 : Decide(routes) = routes[i][2]
  BY <1>9, Decides
<1> QED
  BY <1>8, <1>10, <1>11, <1>12, <1>13 DEF Good

-----------------------------------------------------------------------------
(* What a turn is asked for, and what it finds.                             *)
Suits(q) ==
    /\ ShowsBest(q.table, q.route.query, q.route.sort, q.shown)
    /\ "cheaper" \in q.message.words /\ "dearer" \notin q.message.words
       /\ q.message.says.budget = 0 /\ q.route.refine /\ q.read.query.budget > 0 =>
         \A k \in DOMAIN q.shown : q.table[q.shown[k]].price <= q.read.query.budget

\* A turn reads a query it can refine, searches for one, and shows, while it holds
\* the rows, what suits.
Asks(q) ==
    /\ q.session # None => q.message \in Messages /\ QueryOk(q.read.query)
    /\ q.pc \in {"search", "answer", "log", "remember"} => Finds(q.route, q.message, q.read.query)
    /\ q.pc = "search" => q.route.does = "search"
    /\ q.table # <<>> => q.pc = "answer" /\ Suits(q)

AskInv ==
    /\ Wellformed(listing)
    /\ \A s \in Sessions : QueryOk(memory[s].query)
    /\ \A t \in Turns : Asks(turn[t])

LEMMA AsksOf == ASSUME NEW q, NEW t, turn'[t] = q, Asks(q) PROVE Asks(turn[t])'
  BY DEF Asks, Suits

\* Turn t moves on to v, the rows and the sessions being what they were.
LEMMA AskStep ==
    ASSUME AskInv, TurnShape, NEW t \in Turns, NEW v, turn' = [turn EXCEPT ![t] = v], Asks(v),
           listing' = listing, memory' = memory
    PROVE  AskInv'
<1>1. \A u \in Turns : turn'[u] = IF u = t THEN v ELSE turn[u]
  BY DEF TurnShape
<1>2. ASSUME NEW u \in Turns PROVE Asks(turn[u])'
  <2>1. PICK q : q = turn'[u]
    OBVIOUS
  <2>2. Asks(q)
    BY <1>1, <2>1 DEF AskInv
  <2> QED
    BY <2>1, <2>2, AsksOf
<1>3. Wellformed(listing)' /\ \A s \in Sessions : QueryOk(memory[s].query)'
  BY DEF AskInv, Wellformed, QueryOk
<1> QED
  BY <1>2, <1>3 DEF AskInv

LEMMA LocalAsks == ASSUME NEW pc \in Ends PROVE Asks(Local(pc))
  BY DEF Ends, Asks, Local

LEMMA SendAsks == ASSUME IInv, AskInv, NEW t \in Turns, Send(t) PROVE AskInv'
<1>1. PICK s \in Sessions, m \in Messages :
          turn' = [turn EXCEPT ![t] = [Local("sent") EXCEPT !.session = s, !.message = m,
                                                            !.read = memory[s]]]
  BY DEF Send
<1> DEFINE v == [Local("sent") EXCEPT !.session = s, !.message = m, !.read = memory[s]]
<1>2. v.pc = "sent" /\ v.message = m /\ v.read = memory[s] /\ v.table = <<>>
  BY DEF Local
<1> HIDE DEF v
<1>3. Asks(v)
  BY <1>2 DEF Asks, AskInv
<1> QED
  BY <1>1, <1>3, AskStep DEF v, Send, IInv, ToldInv

LEMMA DispatchAsks == ASSUME IInv, AskInv, NEW t \in Turns, Dispatch(t) PROVE AskInv'
<1> DEFINE q == turn[t]
           route == Dispatched(q.message, q.read, chat[q.session] # <<>>)
           v == [q EXCEPT !.route = route,
                          !.pc = IF route.does = "search" THEN "search" ELSE Stages[1]]
<1>1. q.pc = "sent" /\ Step(t, v)
  BY DEF Dispatch
<1>2. Fit(q) /\ Asks(q)
  BY DEF IInv, ToldInv, TurnShape, AskInv
<1>3. q.session # None /\ q.message \in Messages /\ QueryOk(q.read.query) /\ q.table = <<>>
  BY <1>1, <1>2 DEF Fit, Ends, Asks
<1>4. Finds(route, q.message, q.read.query)
  <2>1. PICK spoken : spoken = (chat[q.session] # <<>>)
    OBVIOUS
  <2>2. Finds(Dispatched(q.message, q.read, spoken), q.message, q.read.query)
    BY <1>3, SearchesHaveQueries
  <2> QED
    BY <2>1, <2>2
<1> HIDE DEF route
<1>5. /\ v.pc = IF route.does = "search" THEN "search" ELSE "answer"
      /\ v.message = q.message /\ v.read = q.read /\ v.route = route /\ v.table = q.table
  BY <1>2 DEF Fit, IsTurn, Fields, Stages
<1> HIDE DEF v, q
<1>6. Asks(v)
  BY <1>3, <1>4, <1>5 DEF Asks
<1> QED
  BY <1>1, <1>6, AskStep DEF Step, IInv, ToldInv

LEMMA SearchAsks == ASSUME IInv, AskInv, NEW t \in Turns, Search(t) PROVE AskInv'
<1>1. PICK q : q = turn[t]
  OBVIOUS
<1>2. PICK trend \in Trends : q.pc = "search"
          /\ Step(t, [q EXCEPT !.pc = Stages[1], !.table = listing,
                               !.shown = Shown(listing, q.route.query, q.route.sort, trend)])
  BY <1>1 DEF Search
<1>3. PICK table, ask, list : /\ table = listing /\ ask = q.route.query
                              /\ list = Shown(table, ask, q.route.sort, trend)
  OBVIOUS
<1> DEFINE v == [q EXCEPT !.pc = Stages[1], !.table = table, !.shown = list]
<1>4. Fit(q) /\ Asks(q)
  BY <1>1 DEF IInv, ToldInv, TurnShape, AskInv
<1>5. /\ q.session # None /\ q.message \in Messages /\ QueryOk(q.read.query)
      /\ Finds(q.route, q.message, q.read.query) /\ q.route.does = "search"
      /\ QueryOk(ask) /\ Wellformed(table)
  BY <1>2, <1>3, <1>4 DEF Fit, Ends, Asks, Finds, AskInv
<1>6. /\ v.pc = "answer" /\ v.table = table /\ v.shown = list
      /\ v.message = q.message /\ v.read = q.read /\ v.route = q.route
  BY <1>4 DEF Fit, IsTurn, Fields, Stages
<1>7. ShowsBest(table, ask, q.route.sort, list)
  BY <1>3, <1>5, ShownFits
<1>8. ASSUME "cheaper" \in q.message.words, "dearer" \notin q.message.words,
             q.message.says.budget = 0, q.route.refine, q.read.query.budget > 0,
             NEW k \in DOMAIN list
      PROVE  table[list[k]].price <= q.read.query.budget
  <2> DEFINE i == list[k]
  <2>1. PICK b \in Nat : b = q.read.query.budget /\ b > 0
    BY <1>5, <1>8 DEF QueryOk
  <2>2. ask = Refined(q.message, q.read.query)
    BY <1>3, <1>5, <1>8 DEF Finds
  <2>3. ask.budget = Cheaper(b)
    BY <1>5, <1>8, <2>1, <2>2, RefinedOk
  <2>4. Cheaper(b) \in Nat /\ Cheaper(b) > 0 /\ Ceiling(Cheaper(b)) <= b
    BY <2>1, CheaperIsUnder
  <2>5. i \in DOMAIN table /\ Matches(table[i], ask)
    BY <1>7, <1>8 DEF ShowsBest, Fitting
  <2> HIDE DEF i
  <2>6. table[i].price <= Ceiling(Cheaper(b)) /\ table[i].price \in Nat
    BY <1>5, <2>3, <2>4, <2>5 DEF Matches, Wellformed
  <2>7. Ceiling(Cheaper(b)) \in Int
    BY <2>4 DEF Ceiling, Round
  <2> QED
    BY <2>1, <2>4, <2>6, <2>7 DEF i
<1> HIDE DEF v
<1>9. Suits(v)
  BY <1>3, <1>6, <1>7, <1>8 DEF Suits
<1>10. Asks(v)
  BY <1>5, <1>6, <1>9 DEF Asks
<1> QED
  BY <1>1, <1>2, <1>3, <1>10, AskStep DEF v, Step, IInv, ToldInv

\* A turn that has answered holds no rows any more.
LEMMA OnwardAsks ==
    ASSUME NEW q, Fit(q), Asks(q), q.pc \in {"answer", "log", "remember"}
    PROVE  Asks(Onward(q))
<1>1. CASE q.pc = "remember"
  BY <1>1, Going, LocalAsks DEF Ends
<1>2. CASE q.pc # "remember"
  <2>1. PICK pc \in {"log", "remember"} : Onward(q) = [q EXCEPT !.pc = pc, !.table = <<>>]
    BY <1>2, Going
  <2> DEFINE v == [q EXCEPT !.pc = pc, !.table = <<>>]
  <2>2. /\ v.pc = pc /\ v.table = <<>> /\ v.session = q.session
        /\ v.message = q.message /\ v.read = q.read /\ v.route = q.route
    BY DEF Fit, IsTurn, Fields
  <2> HIDE DEF v
  <2>3. Asks(v)
    BY <2>2 DEF Asks
  <2> QED
    BY <2>1, <2>3 DEF v
<1> QED
  BY <1>1, <1>2

LEMMA OtherAsks ==
    ASSUME IInv, AskInv, NEW t \in Turns, Answer(t) \/ Log(t) \/ Stop(t)
    PROVE  AskInv'
<1>1. PICK q : q = turn[t]
  OBVIOUS
<1>2. Fit(q) /\ Asks(q)
  BY <1>1 DEF IInv, ToldInv, TurnShape, AskInv
<1>3. CASE Answer(t) \/ Log(t)
  <2>1. q.pc \in {"answer", "log"} /\ turn' = [turn EXCEPT ![t] = Onward(q)]
        /\ listing' = listing /\ memory' = memory
    BY <1>1, <1>3 DEF Answer, Log
  <2>2. Asks(Onward(q))
    BY <1>2, <2>1, OnwardAsks
  <2> QED
    BY <2>1, <2>2, AskStep DEF IInv, ToldInv
<1>4. CASE Stop(t)
  BY <1>4, LocalAsks, AskStep DEF Stop, Ends, IInv, ToldInv
<1> QED
  BY <1>3, <1>4

LEMMA RememberAsks == ASSUME IInv, AskInv, NEW t \in Turns, Remember(t) PROVE AskInv'
<1>1. PICK q : q = turn[t]
  OBVIOUS
<1>2. Fit(q) /\ Asks(q)
  BY <1>1 DEF IInv, ToldInv, TurnShape, AskInv
<1>3. /\ q.pc = "remember" /\ turn' = [turn EXCEPT ![t] = Onward(q)] /\ listing' = listing
      /\ memory' = [memory EXCEPT ![q.session] = Remembered(q)]
  BY <1>1 DEF Remember
<1>4. Asks(Onward(q)) /\ \A u \in Turns : turn'[u] = IF u = t THEN Onward(q) ELSE turn[u]
  BY <1>2, <1>3, OnwardAsks DEF IInv, ToldInv, TurnShape
<1>5. ASSUME NEW u \in Turns PROVE Asks(turn[u])'
  <2>1. PICK w : w = turn'[u]
    OBVIOUS
  <2>2. Asks(w)
    BY <1>4, <2>1 DEF AskInv
  <2> QED
    BY <2>1, <2>2, AsksOf
<1>6. QueryOk(Remembered(q).query)
  <2>1. q.session # None /\ QueryOk(q.read.query) /\ Finds(q.route, q.message, q.read.query)
    BY <1>2, <1>3 DEF Fit, Ends, Asks
  <2>2. CASE q.route.does = "search"
    BY <2>1, <2>2 DEF Remembered, Finds
  <2>3. CASE q.route.does # "search"
    <3>1. Remembered(q).query = q.read.query
      BY <1>2, <2>3 DEF Remembered, Fit, IsMemory
    <3> QED
      BY <2>1, <3>1
  <2> QED
    BY <2>2, <2>3
<1>7. ASSUME NEW s \in Sessions PROVE QueryOk(memory[s].query)'
  <2>1. memory'[s] = IF s = q.session THEN Remembered(q) ELSE memory[s]
    BY <1>3 DEF IInv, ToldInv, RowShape
  <2> QED
    BY <1>6, <2>1 DEF AskInv, QueryOk
<1> QED
  BY <1>3, <1>5, <1>7 DEF AskInv, Wellformed

LEMMA RepriceAsks == ASSUME AskInv, NEW i \in DOMAIN listing, Reprice(i) PROVE AskInv'
<1> DEFINE moments == {listing[j].updated : j \in DOMAIN listing}
           now == 1 + Max(moments)
<1>1. Wellformed(listing) /\ i \in DOMAIN Listings
  BY DEF AskInv, Wellformed
<1>2. PICK p \in Prices : listing' = [listing EXCEPT ![i] = [@ EXCEPT !.price = p, !.updated = now]]
  BY DEF Reprice
<1>3. now \in Nat
  <2>1. moments \in SUBSET Nat /\ moments # {}
    BY <1>1 DEF Wellformed
  <2>2. IsFiniteSet(moments)
    <3> DEFINE f == [j \in DOMAIN listing |-> listing[j].updated]
    <3>1. IsFiniteSet(DOMAIN listing)
      BY <1>1, RowsNumbered DEF Wellformed
    <3>2. f \in Surjection(DOMAIN listing, moments)
      BY DEF Surjection
    <3> HIDE DEF f, moments
    <3> QED
      BY <3>1, <3>2, FS_Surjection
  <2> HIDE DEF moments
  <2>3. Max(moments) \in Nat
    BY <2>1, <2>2, Greatest
  <2> QED
    BY <2>3
<1> HIDE DEF now
<1>4. p \in Nat
  BY BuyerAssumption
<1>5. Wellformed(listing')
  <2>1. DOMAIN listing' = DOMAIN listing
    BY <1>2
  <2>2. ASSUME NEW j \in DOMAIN listing, j # i PROVE listing'[j] = listing[j]
    BY <1>2, <2>2
  <2>3. PICK l : l = listing[i]
    OBVIOUS
  <2>4. listing'[i] = [l EXCEPT !.price = p, !.updated = now]
    BY <1>2, <2>3
  <2>5. /\ DOMAIN l = {"city", "district", "type", "area", "price", "updated", "age"}
        /\ l.district = Listings[i].district /\ l.area \in Nat /\ l.age \in Nat
    BY <1>1, <2>3 DEF Wellformed
  <2>6. /\ DOMAIN listing'[i] = DOMAIN l /\ listing'[i].district = l.district
        /\ listing'[i].area = l.area /\ listing'[i].age = l.age
        /\ listing'[i].price = p /\ listing'[i].updated = now
    BY <2>4, <2>5
  <2> QED
    BY <1>1, <1>3, <1>4, <2>1, <2>2, <2>5, <2>6 DEF Wellformed
<1>6. memory' = memory /\ turn' = turn
  BY DEF Reprice
<1>7. ASSUME NEW u \in Turns PROVE Asks(turn[u])'
  <2>1. PICK q : q = turn[u]
    OBVIOUS
  <2>2. Asks(q) /\ turn'[u] = q
    BY <1>6, <2>1 DEF AskInv
  <2> QED
    BY <2>2, AsksOf
<1> QED
  BY <1>5, <1>6, <1>7 DEF AskInv, QueryOk, Wellformed

LEMMA InitAsks == ASSUME Init PROVE AskInv
<1>1. Wellformed(listing)
  BY BuyerAssumption DEF Init, Wellformed
<1>2. QueryOk(Query)
  BY DEF QueryOk, Query
<1>3. \A s \in Sessions : QueryOk(memory[s].query)
  BY <1>2 DEF Init, Blank
<1>4. \A t \in Turns : Asks(turn[t])
  BY LocalAsks DEF Init, Ends
<1> QED
  BY <1>1, <1>3, <1>4 DEF AskInv

LEMMA NextAsks == ASSUME IInv, AskInv, [Next]_vars PROVE AskInv'
<1>1. CASE UNCHANGED vars
  <2>1. listing' = listing /\ memory' = memory /\ turn' = turn
    BY <1>1 DEF vars
  <2>2. ASSUME NEW u \in Turns PROVE Asks(turn[u])'
    <3>1. PICK q : q = turn[u]
      OBVIOUS
    <3>2. Asks(q) /\ turn'[u] = q
      BY <2>1, <3>1 DEF AskInv
    <3> QED
      BY <3>2, AsksOf
  <2> QED
    BY <2>1, <2>2 DEF AskInv, QueryOk, Wellformed
<1>2. ASSUME NEW i \in DOMAIN listing, Reprice(i) PROVE AskInv'
  BY <1>2, RepriceAsks
<1>3. ASSUME NEW t \in Turns,
             Send(t) \/ Dispatch(t) \/ Search(t) \/ Answer(t) \/ Log(t) \/ Remember(t) \/ Stop(t)
      PROVE  AskInv'
  BY <1>3, SendAsks, DispatchAsks, SearchAsks, OtherAsks, RememberAsks
<1> QED
  BY <1>1, <1>2, <1>3 DEF Next

\* What a turn shows fits what the buyer asked for over the whole conversation, is
\* among the cheapest when the cheapest are asked for, leaves out none that is
\* better on all counts, and is not above the budget that "cheaper" refines
\* (findProperties, rankProperties, applyRankingSort, applyRefinement).
THEOREM ShownIsWhatWasAsked == Spec => []FitsTheAsk
<1>1. Init => IInv /\ AskInv
  BY InitInv, InitAsks
<1>2. IInv /\ AskInv /\ [Next]_vars => (IInv /\ AskInv)'
  BY NextInv, NextAsks
<1>3. IInv /\ AskInv => FitsTheAsk
  BY DEF AskInv, Asks, Suits, ShowsBest, FitsTheAsk
<1> QED
  BY <1>1, <1>2, <1>3, PTL DEF Spec
=============================================================================
