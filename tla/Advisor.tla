------------------------------- MODULE Advisor -------------------------------
(***************************************************************************)
(* The advisor as its callers see it: the price it suggests to a seller    *)
(* (cached for the life of the process), its verdict on an asking price,   *)
(* the strategy and the suggestions an owner gets from the same price and  *)
(* from the market's rows, the log of the answers, the outcomes that are   *)
(* tracked against it, and the history that shows both.  Each statement to *)
(* the database is a step; rebuilds of areas_price, new exchange rates and *)
(* restarts of the process come between any two.                           *)
(*                                                                         *)
(* Left out: names and their aliases (an area is a model value), the       *)
(* wording, the trace; the confidence and the label of the priority, which *)
(* are real-valued, are choices.                                           *)
(***************************************************************************)
EXTENDS Valuation

CONSTANTS
    Reqs,         \* requests
    Areas, Sizes, \* a seller's question is about an area and a size
    Owners,
    RowValues,    \* what rebuilds of areas_price write: [syp, usd]
    Rates,        \* exchange rates; 0 is none
    Samples,      \* the prices per square metre that a window of the market may have
    Fewest,       \* samples that insights and simulation need
    MaxLog, MaxOutcomes, MaxChanges, \* bounds
    None

ASSUME AdvisorAssumption ==
    /\ Sizes \subseteq Nat \ {0} /\ Rates \subseteq Nat
    /\ \A w \in RowValues : w.syp \in Nat /\ w.usd \in Nat
    /\ \A S \in Samples : S \in Seq(Nat)
    /\ Fewest \in Nat \ {0} /\ {MaxLog, MaxOutcomes, MaxChanges} \subseteq Nat

VARIABLES
    row,      \* areas_price: the row of an area, None when there is none
    fx,       \* the latest rate
    cache,    \* AdvisorCacheService: the quote of a key, None when not cached
    log,      \* advisor_request_logs
    outcome,  \* advisor_outcomes: the log_id of each
    req,      \* the requests, with their local variables
    ran,      \* history: the rows and rates in force since the process started
    changes   \* bound

vars == <<row, fx, cache, log, outcome, req, ran, changes>>

Keys == Areas \X Sizes
Area(key) == key[1]
Size(key) == key[2]

(* `met` is history: another one was computing the price of the key when    *)
(* this request began to.                                                   *)
Idle == [pc |-> "idle", kind |-> None, owner |-> None, key |-> None, ask |-> 0,
         row |-> None, quote |-> None, market |-> None, answer |-> None,
         logId |-> 0, seen |-> {}, known |-> 0, shown |-> {}, met |-> FALSE]

Init ==
    /\ row \in [Areas -> RowValues \cup {None}]
    /\ fx \in Rates
    /\ cache = [k \in Keys |-> None]
    /\ log = <<>> /\ outcome = <<>>
    /\ req = [r \in Reqs |-> Idle]
    /\ ran = [rows |-> {<<a, row[a]>> : a \in Areas}, rates |-> {fx}]
    /\ changes = 0

Step(r, value) ==
    /\ req' = [req EXCEPT ![r] = value]
    /\ UNCHANGED <<row, fx, cache, log, outcome, ran, changes>>

(* Who waits for the price: of a seller, of a strategy, of suggestions.     *)
Seller == {"seller", "strategy", "suggestion"}
Refused(q) == [q EXCEPT !.pc = "failed"]

-----------------------------------------------------------------------------
(* POST seller-price, and the owner's strategy and suggestions, which ask   *)
(* for a price and for the market's rows at once (Promise.all).             *)
Ask(r) ==
    /\ req[r].pc = "idle"
    /\ \E k \in Keys, o \in Owners, kind \in Seller :
          Step(r, [Idle EXCEPT !.pc = "cache", !.kind = kind, !.owner = o, !.key = k])

(* Mutant: the size is not part of the key.                                 *)
BadKeyOf(key) == <<Area(key), CHOOSE s \in Sizes : TRUE>>
KeyOf(key) == key

(* Mutant: a price of a row that was rebuilt is not used any more.          *)
BadHit(key) ==
    LET hit == cache[KeyOf(key)]
    IN IF hit # None /\ hit.row = row[Area(key)] THEN hit ELSE None
Hit(key) == cache[KeyOf(key)]

Asks(r, key) == req[r].kind \in Seller /\ req[r].key = key
Computing(key) == {r \in Reqs : Asks(r, key) /\ req[r].pc \in {"row", "fx", "set"}}

CacheGet(r) ==
    LET q == req[r]
        hit == Hit(q.key)
    IN /\ q.pc = "cache"
       /\ \/ hit # None /\ Step(r, [q EXCEPT !.pc = "ready", !.quote = hit])
          \/ hit = None /\ Step(r, [q EXCEPT !.pc = "row", !.met = Computing(q.key) # {}])

(* POST buyer-evaluate, of a listing offered at a price that was suggested  *)
(* to a seller of the same area and size.                                   *)
Evaluate(r) ==
    /\ req[r].pc = "idle"
    /\ \E q \in Reqs, o \in Owners :
          /\ req[q].kind = "seller" /\ req[q].quote # None
          /\ \E ask \in {req[q].quote.optimal, req[q].quote.fast} :
                Step(r, [Idle EXCEPT !.pc = "row", !.kind = "buyer", !.owner = o,
                                     !.key = req[q].key, !.ask = ask])

ReadRow(r) ==
    LET q == req[r]
    IN /\ q.pc = "row"
       /\ \/ row[Area(q.key)] = None /\ Step(r, Refused(q))
          \/ /\ row[Area(q.key)] # None
             /\ Step(r, [q EXCEPT !.pc = "fx", !.row = row[Area(q.key)]])

(* The rate is needed even for a row that has a price in Syrian pounds.     *)
Quote(w, rate, size) ==
    LET base == Baseline(w, rate, size)
    IN [optimal |-> Optimal(base), fast |-> FastSale(base),
        optimalRange |-> RangeOf(Optimal(base)), fastRange |-> RangeOf(FastSale(base)),
        row |-> w, fx |-> rate]
Verdict(q) ==
    [verdict |-> BuyerVerdict(q.ask, Baseline(q.row, fx, Size(q.key))),
     ask |-> q.ask, row |-> q.row, fx |-> fx]
ReadFx(r) ==
    LET q == req[r]
    IN /\ q.pc = "fx"
       /\ \/ (fx = 0 \/ ~Quotable(q.row)) /\ Step(r, Refused(q))
          \/ /\ fx > 0 /\ Quotable(q.row) /\ q.kind = "buyer"
             /\ Step(r, [q EXCEPT !.pc = "log", !.answer = Verdict(q)])
          \/ /\ fx > 0 /\ Quotable(q.row) /\ q.kind # "buyer"
             /\ Step(r, [q EXCEPT !.pc = "set", !.quote = Quote(q.row, fx, Size(q.key))])

CacheSet(r) ==
    LET q == req[r]
    IN /\ q.pc = "set"
       /\ cache' = [cache EXCEPT ![KeyOf(q.key)] = q.quote]
       /\ req' = [req EXCEPT ![r].pc = "ready"]
       /\ UNCHANGED <<row, fx, log, outcome, ran, changes>>

(* A seller is answered with the quote.                                     *)
Quoted(r) ==
    /\ req[r].pc = "ready" /\ req[r].kind = "seller"
    /\ Step(r, [req[r] EXCEPT !.pc = "log", !.answer = req[r].quote])

-----------------------------------------------------------------------------
(* The other half of Promise.all: insights and simulation read the window.  *)
(* When it is too short the owner gets an error, but the price goes on      *)
(* being computed and is cached.                                            *)
ReadMarket(r) ==
    /\ req[r].kind \in {"strategy", "suggestion"} /\ req[r].market = None
    /\ req[r].pc \notin {"idle", "failed"}
    /\ \E S \in Samples : Step(r, [req[r] EXCEPT !.market = S])

Plans(q, steady) ==
    LET m2 == Median2(q.market)
        balanced == BalancedPlan(q.quote.optimal, m2, Size(q.key))
        factor == ProfitFactor(Direction(q.market), Spread(q.market, 25), steady)
    IN [fast |-> FastPlan(q.quote.fast, m2, Size(q.key)),
        balanced |-> balanced,
        profit |-> ProfitPlan(balanced, m2, Size(q.key), factor)]

Strategy(r) ==
    LET q == req[r]
    IN /\ q.pc = "ready" /\ q.kind = "strategy" /\ q.market # None
       /\ \/ Len(q.market) < Fewest /\ Step(r, [q EXCEPT !.pc = "refused"])
          \/ /\ Len(q.market) >= Fewest
             /\ \E steady \in BOOLEAN :
                   Step(r, [q EXCEPT !.pc = "log", !.answer = Plans(q, steady)])

(* The label of the priority decides what is recommended: the fast price to *)
(* sell now, the optimal one to watch, otherwise nothing, which is not      *)
(* logged.                                                                  *)
Suggestion(r) ==
    LET q == req[r]
    IN /\ q.pc = "ready" /\ q.kind = "suggestion" /\ q.market # None
       /\ \/ Len(q.market) < Fewest /\ Step(r, [q EXCEPT !.pc = "refused"])
          \/ /\ Len(q.market) >= Fewest
             /\ \E p \in {q.quote.fast, q.quote.optimal} :
                   \/ p > 0 /\ Step(r, [q EXCEPT !.pc = "log", !.answer = [price |-> p]])
                   \/ p = 0 /\ Step(r, [q EXCEPT !.pc = "done", !.answer = [price |-> 0]])
          \/ /\ Len(q.market) >= Fewest
             /\ Step(r, [q EXCEPT !.pc = "done", !.answer = [price |-> 0]])

-----------------------------------------------------------------------------
(* The log is awaited, and its id goes with the answer; a log that cannot   *)
(* be written is no error.                                                  *)
Entry(q) == [kind |-> q.kind, owner |-> q.owner, answer |-> q.answer]
LogAnswer(r) ==
    /\ req[r].pc = "log"
    /\ Len(log) < MaxLog
    /\ log' = Append(log, Entry(req[r]))
    /\ req' = [req EXCEPT ![r].pc = "done", ![r].logId = Len(log) + 1]
    /\ UNCHANGED <<row, fx, cache, outcome, ran, changes>>
LogFails(r) ==
    /\ req[r].pc = "log"
    /\ Step(r, [req[r] EXCEPT !.pc = "done"])

(* An error is answered before its line is written, or without.             *)
LogError(r) ==
    /\ req[r].pc = "failed" /\ req[r].kind \in {"seller", "buyer"}
    /\ Len(log) < MaxLog
    /\ log' = Append(log, Entry(req[r]))
    /\ req' = [req EXCEPT ![r].pc = "refused"]
    /\ UNCHANGED <<row, fx, cache, outcome, ran, changes>>
ErrorUnlogged(r) ==
    /\ req[r].pc = "failed"
    /\ Step(r, [req[r] EXCEPT !.pc = "refused"])

(* trackOutcome: the id of a line is whatever the client says it is; 0      *)
(* stands for one that no line has.                                         *)
Track(id) ==
    /\ Len(outcome) < MaxOutcomes
    /\ outcome' = Append(outcome, id)
    /\ UNCHANGED <<row, fx, cache, log, req, ran, changes>>

-----------------------------------------------------------------------------
(* getHistory: the lines of an owner, then their outcomes, newest first, of *)
(* which the first of a line is shown.  The export of the administrator     *)
(* asks for both at once and shows every outcome of every line.             *)
LinesOf(o) == {i \in DOMAIN log : log[i].owner = o}
History(r) ==
    /\ req[r].pc = "idle"
    /\ \E o \in Owners :
          Step(r, [Idle EXCEPT !.pc = "outcomes", !.kind = "history", !.owner = o,
                               !.seen = LinesOf(o), !.known = Len(outcome)])

OutcomesOf(i) == {j \in DOMAIN outcome : outcome[j] = i}
(* Mutant: the outcomes come oldest first.                                  *)
BadLatest(i) == IF OutcomesOf(i) = {} THEN 0 ELSE Min(OutcomesOf(i))
Latest(i) == IF OutcomesOf(i) = {} THEN 0 ELSE Max(OutcomesOf(i))
HistoryOutcomes(r) ==
    /\ req[r].pc = "outcomes" /\ req[r].kind = "history"
    /\ Step(r, [req[r] EXCEPT !.pc = "done",
                              !.shown = {<<i, Latest(i)>> : i \in req[r].seen}])

Export(r) ==
    /\ req[r].pc = "idle"
    /\ \/ Step(r, [Idle EXCEPT !.pc = "outcomes", !.kind = "exportLines",
                               !.seen = DOMAIN log, !.known = Len(outcome)])
       \/ Step(r, [Idle EXCEPT !.pc = "lines", !.kind = "export", !.known = Len(outcome),
                               !.shown = {<<outcome[j], j>> : j \in DOMAIN outcome}])
ExportJoin(r) ==
    \/ /\ req[r].pc = "outcomes" /\ req[r].kind = "exportLines"
       /\ Step(r, [req[r] EXCEPT !.pc = "done", !.kind = "export",
                     !.shown = {<<outcome[j], j>> : j \in {k \in DOMAIN outcome :
                                                              outcome[k] \in req[r].seen}}])
    \/ /\ req[r].pc = "lines"
       /\ Step(r, [req[r] EXCEPT !.pc = "done", !.seen = DOMAIN log,
                                 !.shown = {x \in @ : x[1] \in DOMAIN log}])

-----------------------------------------------------------------------------
(* What goes on around the advisor.                                         *)
Rebuild ==
    /\ changes < MaxChanges /\ changes' = changes + 1
    /\ \E a \in Areas, w \in RowValues :
          /\ row' = [row EXCEPT ![a] = w]
          /\ ran' = [ran EXCEPT !.rows = @ \cup {<<a, w>>}]
    /\ UNCHANGED <<fx, cache, log, outcome, req>>
NewRate ==
    /\ changes < MaxChanges /\ changes' = changes + 1
    /\ \E rate \in Rates \ {0} : fx' = rate /\ ran' = [ran EXCEPT !.rates = @ \cup {rate}]
    /\ UNCHANGED <<row, cache, log, outcome, req>>
Restart ==
    /\ changes < MaxChanges /\ changes' = changes + 1
    /\ cache' = [k \in Keys |-> None]
    /\ req' = [r \in Reqs |-> Idle]
    /\ ran' = [rows |-> {<<a, row[a]>> : a \in Areas}, rates |-> {fx}]
    /\ UNCHANGED <<row, fx, log, outcome>>

Next ==
    \/ \E r \in Reqs :
        \/ Ask(r) \/ CacheGet(r) \/ Evaluate(r) \/ ReadRow(r) \/ ReadFx(r) \/ CacheSet(r)
        \/ Quoted(r) \/ ReadMarket(r) \/ Strategy(r) \/ Suggestion(r)
        \/ LogAnswer(r) \/ LogFails(r) \/ LogError(r) \/ ErrorUnlogged(r)
        \/ History(r) \/ HistoryOutcomes(r) \/ Export(r) \/ ExportJoin(r)
    \/ \E id \in 0 .. MaxLog : Track(id)
    \/ Rebuild \/ NewRate \/ Restart

Spec == Init /\ [][Next]_vars

-----------------------------------------------------------------------------
(* Every quote that is cached or answered is the one of its own area and    *)
(* size, from a row and a rate that were in force in this life of the       *)
(* process: a stale quote may be old, it is never another property's.       *)
(* (getSellerPriceSuggestion answers from the cache without a look at the   *)
(* tables.)                                                                 *)
Genuine(quote, key) ==
    /\ <<Area(key), quote.row>> \in ran.rows /\ quote.fx \in ran.rates
    /\ quote = Quote(quote.row, quote.fx, Size(key))
QuoteFitsKey ==
    /\ \A k \in Keys : cache[k] # None => Genuine(cache[k], k)
    /\ \A r \in Reqs : req[r].quote # None => Genuine(req[r].quote, req[r].key)

(* One life of the process has one price of a key.  Whatever is rebuilt and *)
(* whatever rate comes, all who ask for the price of an area and a size,    *)
(* sellers, strategies and suggestions, are quoted the same, unless two of  *)
(* them computed it at the same time.  (Each missed the cache before the    *)
(* other wrote it; the later one to write decides what is quoted from then  *)
(* on.)                                                                     *)
Contested(key) == \E r \in Reqs : Asks(r, key) /\ req[r].met
OneQuotePerKey ==
    \A k \in Keys : \A r, s \in Reqs :
        /\ Asks(r, k) /\ req[r].quote # None
        /\ Asks(s, k) /\ req[s].quote # None
        => Contested(k) \/ req[r].quote = req[s].quote

(* The advice agrees with itself.  A buyer who asks about a listing at a    *)
(* price the advisor suggested to its seller is told that it is fair,       *)
(* unless the row or the rate changed between the two (which the cache      *)
(* hides from the seller); and the plans of a strategy are in order,        *)
(* however old the quote and whatever the sample they are made of: fast is  *)
(* not above balanced, nor balanced above profit.                           *)
SuggestionIsFair(buyer, seller) ==
    /\ buyer.answer.row = seller.quote.row /\ buyer.answer.fx = seller.quote.fx
    /\ buyer.ask \in {seller.quote.optimal, seller.quote.fast}
    => buyer.answer.verdict = "fair"
PlansOrdered(plans) == plans.fast <= plans.balanced /\ plans.balanced <= plans.profit

Answered(kind) == {r \in Reqs : req[r].kind = kind /\ req[r].answer # None}
AdviceAgrees ==
    /\ \A r \in Answered("buyer"), s \in Answered("seller") :
          req[r].key = req[s].key => SuggestionIsFair(req[r], req[s])
    /\ \A r \in Answered("strategy") : PlansOrdered(req[r].answer)

(* A history shows no line without the newest of the outcomes tracked       *)
(* before it was asked for, nor an outcome of another line; an export       *)
(* misses none of them, in whatever order its two statements run.  And the  *)
(* id that an answer carries is that of the line which holds this answer.   *)
HistoryIsFresh ==
    /\ \A r \in Reqs : req[r].logId > 0 => log[req[r].logId] = Entry(req[r])
    /\ \A r \in Reqs : req[r].pc = "done" =>
          /\ req[r].kind = "history" =>
               \A x \in req[r].shown :
                   /\ x[2] > 0 => outcome[x[2]] = x[1]
                   /\ \A j \in 1 .. req[r].known : outcome[j] = x[1] => j <= x[2]
          /\ req[r].kind = "export" =>
               \A i \in req[r].seen, j \in 1 .. req[r].known :
                   outcome[j] = i => <<i, j>> \in req[r].shown
=============================================================================
