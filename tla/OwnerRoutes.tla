---------------------------- MODULE OwnerRoutes ----------------------------
(***************************************************************************)
(* Which of the many handlers answers an owner's message, and what the     *)
(* session remembers afterwards: OwnerChatService.dispatch and             *)
(* handleAiFallback, its route to the market's figures, and                *)
(* OllamaOrchestratorService.orchestrateOwnerChat.  Overlapping turns, the *)
(* values of the facts and the questions of the evaluation are OwnerChat's;*)
(* here one turn follows the other and a fact is known or not.             *)
(*                                                                         *)
(* A message is what its wording amounts to for the patterns of the code:  *)
(* the one `kind` the handlers look for, the facts it tells, and whether   *)
(* it names a deal, offers a property, hunts for one, sounds like a        *)
(* continuation, or has a word of real estate at all.  What depends on the *)
(* assistant's wording or on the vocabulary of the domain classifier is    *)
(* left open.  A property chosen for the session is left out, and with it  *)
(* the prices the AI may set on it; so are budgets, rooms, the learned     *)
(* vocabulary, and composed texts, which fall back to fixed ones.          *)
(***************************************************************************)
EXTENDS FiniteSets, Naturals

CONSTANTS
    Talk,   \* the messages an owner may send
    None    \* no question pending

Field == {"city", "district", "type", "area", "price"}
Kind == {"plain", "desk", "hello", "chat", "thanks", "closure", "better", "offtopic",
         "compare", "news", "areas", "search", "summary", "heatmap", "evaluate", "deal",
         "pin", "yesno", "vague", "faq"}
Listing == {"none", "sell", "buy"}
MessageType == [kind : Kind, tells : SUBSET Field, listing : Listing, offers : BOOLEAN,
                hunts : BOOLEAN, short : BOOLEAN, named : BOOLEAN, fresh : BOOLEAN]

VARIABLES
    row,     \* what the session's metaJson remembers
    result,  \* the last reply carried figures of the market (lastDeterministicResult)
    turn,    \* the message being answered, with the turn's copy of the state
    reply    \* the route of the last reply and what its engine was given

vars == <<row, result, turn, reply>>

Idle == [busy |-> FALSE]
NoReply == [route |-> "none", given |-> {}]

Init ==
    /\ row = [known |-> {}, listing |-> "none", pending |-> None, stage |-> "none"]
    /\ result = FALSE
    /\ turn = Idle
    /\ reply = NoReply

-----------------------------------------------------------------------------
(* mergeDeterministicState: area and price are not inherited by a message   *)
(* that names a property, unless it continues or the evaluation is going on.*)
Merged(m, continues) ==
    LET anchored == m.tells \cap {"city", "district", "type", "area"} # {}
        keep == continues \/ ~anchored \/ row.stage \in {"initial", "asking"}
    IN [row EXCEPT !.known = m.tells \cup (IF keep THEN @ ELSE @ \ {"area", "price"}),
                   !.listing = IF m.listing # "none" THEN m.listing ELSE @]

(* Mistake: the state a handler returned replaces the row's context.        *)
BadPersisted(st) == [st EXCEPT !.known = row.known \cup @]

(* persistSessionContextState: what is not in the state given stays in the  *)
(* row, but for the pending question.                                       *)
Persisted(st) ==
    [known |-> row.known \cup st.known,
     listing |-> IF st.listing # "none" THEN st.listing ELSE row.listing,
     pending |-> st.pending,
     stage |-> IF st.stage # "none" THEN st.stage ELSE row.stage]

(* sendMessage up to the dispatch.  `scope` is the verdict of the domain    *)
(* classifier; a message `follows` when it tells a place and the last reply *)
(* spoke of the market.                                                     *)
Receive(m, continues, scope, follows) ==
    /\ ~turn.busy
    /\ continues => m.short
    /\ follows => m.tells \cap {"city", "district"} # {}
    /\ LET st == Merged(m, continues) IN
       /\ turn' = [busy |-> TRUE, m |-> m, st |-> st,
                   continues |-> continues, scope |-> scope, follows |-> follows]
       /\ row' = Persisted(st)
    /\ UNCHANGED <<result, reply>>

(* The reply is saved with the state the handler returned.                  *)
Answer(route, given, st, figures) ==
    /\ row' = Persisted(st)
    /\ reply' = [route |-> route, given |-> given]
    /\ result' = figures
    /\ turn' = Idle

-----------------------------------------------------------------------------
(* What handleAiFallback derives from the message and the merged state.     *)
Full(st) == {"district", "area", "price"} \subseteq st.known
Offers(m) == m.offers \/ m.listing = "sell" \/ "price" \in m.tells
SellerFlow(st, m) == st.listing = "sell" \/ m.offers
EvalTrigger(st, m) == (Offers(m) \/ SellerFlow(st, m)) /\ "area" \in st.known
EnoughToStart(st, m) == (Offers(m) \/ m.kind = "pin") /\ "area" \in st.known
Selling(st, m) == SellerFlow(st, m) \/ Full(st) \/ EnoughToStart(st, m)
InScope(t) == t.scope \/ {"district", "area"} \subseteq t.st.known

(* The advisor's intent of a message (ChatIntentService.detectIntent).      *)
Valuation(m) == m.kind \in {"evaluate", "deal", "areas"}
Figures(m) == m.kind \in {"summary", "heatmap"}

(* Nothing but a greeting or the like ("hello"; the thanks and closures of  *)
(* the other kinds are those this list lacks), or a message without a word  *)
(* of real estate in a session that does not know an area and a price.      *)
SmallTalk(t) == \/ t.m.kind = "hello"
                \/ ~t.m.named /\ ~{"area", "price"} \subseteq t.st.known

(* The orchestrator gets a message unless a property is fully described, an *)
(* evaluation is going on, or an offer with an area begins one.             *)
Orchestrated(t) ==
    /\ ~Full(t.st)
    /\ t.m.kind # "pin"
    /\ t.st.stage \in {"none", "complete"}
    /\ ~EvalTrigger(t.st, t.m)

(* A described property is remembered as one to estimate.                   *)
Returned(t) == IF Full(t.st) THEN [t.st EXCEPT !.listing = "sell"] ELSE t.st

OwnRoute(t) ==
    LET st == t.st  m == t.m  knows(f) == f \in st.known IN
    CASE m.kind = "deal" /\ ~Full(st) -> "market"
      [] OTHER ->
         IF ~InScope(t) THEN "out_of_scope"
         ELSE IF Valuation(m) \/ Figures(m) THEN "market"
         ELSE IF /\ ~EnoughToStart(st, m) /\ ~Full(st) /\ m.kind # "search"
                 /\ m.tells # {} /\ "price" \notin m.tells
              THEN "partial"
         ELSE IF m.kind = "chat" /\ ~Selling(st, m) /\ ~knows("price") THEN "greeting"
         ELSE IF m.kind \in {"thanks", "closure", "yesno", "vague", "faq"} THEN "talk"
         ELSE IF /\ Selling(st, m) \/ knows("price")
                 /\ ~knows("district") /\ ~EnoughToStart(st, m)
              THEN "refine_district"
         ELSE IF (Selling(st, m) \/ knows("price")) /\ ~knows("area") THEN "refine_area"
         ELSE IF Selling(st, m) THEN "evaluation"
         ELSE "ai"

(* The order of the guards of handleAiFallback.                             *)
Route(t) ==
    IF t.m.kind = "desk" THEN "desk"
    ELSE IF t.st.stage = "asking" THEN "evaluation"
    ELSE IF SmallTalk(t) THEN "small_talk"
    ELSE IF Orchestrated(t) THEN "orchestrator"
    ELSE OwnRoute(t)

-----------------------------------------------------------------------------
(* The handlers of dispatch (strategy, tasks, portfolio, watches, history)  *)
(* and those of handleAiFallback that only speak: the state stays.          *)
Speak ==
    /\ turn.busy
    /\ LET r == Route(turn) IN
       /\ r \notin {"evaluation", "orchestrator", "market"}
       /\ Answer(r, {}, IF r \in {"desk", "small_talk"} THEN turn.st ELSE Returned(turn), FALSE)

(* handlePropertyEvaluation (see OwnerChat): it asks, prices, finds no data *)
(* and leaves the stage, or says again that it is done.                     *)
EvaluateAsks ==
    /\ turn.busy /\ Route(turn) = "evaluation"
    /\ turn.st.stage = "complete" => turn.m.fresh
    /\ Answer("evaluation", {}, [Returned(turn) EXCEPT !.stage = "asking"], FALSE)

EvaluatePrices ==
    /\ turn.busy /\ Route(turn) = "evaluation"
    /\ turn.st.stage = "complete" => turn.m.fresh
    /\ {"district", "area"} \subseteq turn.st.known
    /\ Answer("evaluation", turn.st.known, [Returned(turn) EXCEPT !.stage = "complete"], FALSE)

EvaluateFails ==
    /\ turn.busy /\ Route(turn) = "evaluation"
    /\ turn.st.stage = "complete" => turn.m.fresh
    /\ {"district", "area"} \subseteq turn.st.known
    /\ \E stage \in IF turn.st.stage = "asking" THEN {"asking", "complete"} ELSE {"initial"} :
           Answer("evaluation", {}, [Returned(turn) EXCEPT !.stage = stage], FALSE)

EvaluateAgain ==
    /\ turn.busy /\ Route(turn) = "evaluation"
    /\ turn.st.stage = "complete" /\ ~turn.m.fresh
    /\ Answer("evaluation", {}, Returned(turn), FALSE)

(* handleMarketIntelligenceRoute: the figures of a city, or of a property   *)
(* some fact of which the message tells, unless it continues a question.    *)
(* City and type have defaults here; the state is returned as it is.        *)
MarketSummary ==
    /\ turn.busy /\ Route(turn) = "market" /\ Figures(turn.m)
    /\ Answer("market", turn.st.known \cap {"city"}, Returned(turn), TRUE)

MarketLacks(t) ==
    \/ t.m.tells = {} /\ ~t.continues
    \/ ~{"area", "price"} \subseteq t.st.known
    \/ t.m.kind # "evaluate" /\ "district" \notin t.st.known

MarketAsks ==
    /\ turn.busy /\ Route(turn) = "market" /\ Valuation(turn.m)
    /\ MarketLacks(turn)
    /\ Answer("market_asks", {}, Returned(turn), FALSE)

MarketFigures ==
    /\ turn.busy /\ Route(turn) = "market" /\ Valuation(turn.m)
    /\ ~MarketLacks(turn)
    /\ Answer("market", turn.st.known, Returned(turn), TRUE)

-----------------------------------------------------------------------------
(* orchestrateOwnerChat rebuilds the state field by field, without the      *)
(* evaluation (cleanState).                                                 *)
Cleaned(t, pending) == [t.st EXCEPT !.stage = "none", !.pending = pending]

Hunts(t) ==
    /\ t.m.kind # "summary"
    /\ ~t.follows
    /\ \/ t.m.kind = "search"
       \/ t.m.hunts /\ (t.st.listing = "buy" \/ t.st.known \cap {"city", "district", "type"} # {})

(* mergeSlots: what was told before counts for a continuation, or while a   *)
(* question is pending.                                                     *)
Slots(t) ==
    IF t.continues \/ t.st.pending # None THEN t.st.known ELSE t.m.tells

MissingOf(slots) ==
    ({"type", "area", "price"} \ slots)
        \cup (IF slots \cap {"city", "district"} = {} THEN {"district"} ELSE {})

(* resolvePendingSlot: of several missing fields one is waited for.         *)
Awaited(missing) ==
    CHOOSE f \in missing :
        \A g \in missing : LET at == [type |-> 1, district |-> 2, area |-> 3, price |-> 4]
                           IN at[f] <= at[g]

(* resolveIntent, and the check that a property is described.               *)
ValuationAsked(t) ==
    \/ Valuation(t.m)
    \/ t.m.tells # {} /\ MissingOf(Slots(t)) = {}

(* The order of the guards of orchestrateOwnerChat.                         *)
OrchestratorRoute(t) ==
    LET m == t.m IN
    IF m.kind = "thanks" THEN "acknowledgement"
    ELSE IF m.kind = "closure" /\ m.tells = {} /\ t.st.pending = None THEN "closure"
    ELSE IF result /\ m.kind \in {"better", "closure"} THEN "follow_up"
    ELSE IF m.kind \in {"chat", "closure"} THEN "general_chat"
    ELSE IF m.kind = "offtopic" THEN "off_topic"
    ELSE IF ~t.scope /\ t.st.pending = None THEN "out_of_scope"
    ELSE IF m.kind = "compare" THEN "comparison"
    ELSE IF m.kind = "news" THEN "market_news"
    ELSE IF m.kind = "areas" /\ m.tells = {} THEN "which_area"
    ELSE IF Hunts(t) THEN "search"
    ELSE IF t.follows \/ Figures(m) THEN "summary"
    ELSE IF ValuationAsked(t) THEN "valuation"
    ELSE "general"

(* Social replies keep the pending question, the others give it up.         *)
KeepsPending == {"acknowledgement", "closure", "general_chat", "out_of_scope"}
GivesUpPending == {"follow_up", "off_topic", "comparison", "market_news", "which_area",
                   "search", "general"}

Orchestrating(route) ==
    /\ turn.busy /\ Route(turn) = "orchestrator"
    /\ OrchestratorRoute(turn) = route

Socialize ==
    \E r \in KeepsPending :
        /\ Orchestrating(r)
        /\ Answer(r, {}, IF r = "out_of_scope" THEN turn.st
                         ELSE Cleaned(turn, turn.st.pending), FALSE)

Converse ==
    \E r \in GivesUpPending :
        Orchestrating(r) /\ Answer(r, {}, Cleaned(turn, None), FALSE)

(* The city is the message's, but for a ranking of areas asked for while a  *)
(* question is pending.                                                     *)
SummaryPlace(t) ==
    IF t.m.kind = "heatmap" /\ ~t.follows THEN Slots(t) ELSE t.m.tells

SummaryAsks ==
    /\ Orchestrating("summary")
    /\ "city" \notin SummaryPlace(turn)
    /\ Answer("asks", {}, Cleaned(turn, "city"), FALSE)

SummaryFigures ==
    /\ Orchestrating("summary")
    /\ "city" \in SummaryPlace(turn)
    /\ Answer("summary", {"city"}, Cleaned(turn, None), TRUE)

(* A request without a fact is asked for everything; the type is awaited.   *)
ValuationAsks ==
    /\ Orchestrating("valuation")
    /\ LET bare == turn.m.tells = {} /\ ~turn.continues
           missing == MissingOf(Slots(turn))
       IN /\ bare \/ missing # {}
          /\ Answer("asks", {}, Cleaned(turn, IF bare THEN "type" ELSE Awaited(missing)), FALSE)

ValuationFigures ==
    /\ Orchestrating("valuation")
    /\ turn.m.tells # {} \/ turn.continues
    /\ MissingOf(Slots(turn)) = {}
    /\ Answer("valuation", Slots(turn), Cleaned(turn, None), TRUE)

(* An exception anywhere is answered with fixed words.                      *)
FailStatically ==
    /\ turn.busy /\ turn.m.kind # "desk"
    /\ \E st \in {turn.st, Returned(turn)} : Answer("failure", {}, st, FALSE)

(* The request dies after its first write.                                  *)
Lost ==
    /\ turn.busy
    /\ turn' = Idle
    /\ UNCHANGED <<row, result, reply>>

Next ==
    \/ \E m \in Talk, c, s, k \in BOOLEAN : Receive(m, c, s, k)
    \/ Speak \/ EvaluateAsks \/ EvaluatePrices \/ EvaluateFails \/ EvaluateAgain
    \/ MarketSummary \/ MarketAsks \/ MarketFigures
    \/ Socialize \/ Converse \/ SummaryAsks \/ SummaryFigures
    \/ ValuationAsks \/ ValuationFigures
    \/ FailStatically \/ Lost

Spec == Init /\ [][Next]_vars

-----------------------------------------------------------------------------
(* NothingLostByAnswering: some handlers return no state, some the turn's   *)
(* copy, and the orchestrator one it rebuilt without the evaluation; yet    *)
(* whichever answers, what the owner told stays known, the evaluation moves *)
(* only when the evaluation answered, and what an engine was given is what  *)
(* the session remembers.                                                   *)
NothingLostByAnswering ==
    [][/\ row.known \subseteq row'.known
       /\ row'.stage # row.stage => reply'.route = "evaluation"
       /\ reply' # reply => reply'.given \subseteq row'.known]_vars
=============================================================================
