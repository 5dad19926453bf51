------------------------------ MODULE Appraisal ------------------------------
(***************************************************************************)
(* What the rows of market_data say of a property: the search for          *)
(* comparables, which widens from level to level and asks the database     *)
(* once per level, the evaluation and the investment analysis that rest on *)
(* it, insights and simulation, and the analysis of an owner's listing,    *)
(* whose advice the owner may then follow.  Imports and marks of outliers  *)
(* and the owner's own changes of a price go on between any two reads.     *)
(*                                                                         *)
(* Left out: aliases of names (a district is a model value), the wording,  *)
(* the trace and the similarity of bedrooms in the ranking of equals.      *)
(***************************************************************************)
EXTENDS Valuation

CONSTANTS       \* what is assumed of them: module Advice
    Reqs,       \* requests
    Rows,       \* rows of market_data: their numbers, in the order of created_at
    RowOf,      \* [district, kind, size, beds, usd, syp]: the columns of a row
    Subjects,   \* what is asked about: [district, kind, size, beds, ask]
    Listings,   \* the owner's listings
    ListingOf,  \* [city, district, size] of a listing; None, None, 0 when missing
    Prices,     \* bound: the prices an owner gives a listing; 0 is none
    Needed,     \* minResults of the four levels
    Take,       \* rows a level reads at most
    Shown,      \* comparables an answer has at most
    Fewest,     \* samples that insights and simulation need
    TrendRows,  \* rows of the last 30 days from which on only those count
    Recent,     \* the rows of the last 30 days
    Plausible,  \* dollars per square metre that the statistics of a city count
    Million,
    None

VARIABLES
    table,    \* the rows inserted so far
    outlier,  \* those whose is_outlier is set
    price,    \* price of a listing
    req       \* the requests, with their local variables

vars == <<table, outlier, price, req>>

NoComparables == [rows |-> {}, matched |-> 0, level |-> 0]
(* `since` is history: what was in the table, no outlier, all the time of   *)
(* the search; `moved` that the table changed meanwhile.  `advice` is what  *)
(* an owner was told of a listing: the price and the rows it was judged by; *)
(* `shown` the price of the action that the owner chose to take.            *)
NoAdvice == [label |-> None, asked |-> 0, rows |-> {}]
IdleReq == [pc |-> "idle", kind |-> None, of |-> None, target |-> None, level |-> 0,
            best |-> NoComparables, since |-> {}, moved |-> FALSE, sample |-> {},
            answer |-> None, newPrice |-> 0, advice |-> NoAdvice, shown |-> 0]

Init ==
    /\ table = {} /\ outlier = {}
    /\ price \in [Listings -> Prices]
    /\ req = [r \in Reqs |-> IdleReq]

Usable == table \ outlier
(* The first n rows of a set by the time of their creation, newest first;   *)
(* all of them, oldest first, and a column of theirs in that order.         *)
Newest(S, n) == {i \in S : Cardinality({j \in S : j > i}) < n}
Oldest(S) ==
    [k \in 1 .. Cardinality(S) |-> CHOOSE i \in S : Cardinality({j \in S : j <= i}) = k]
Column(S, of) == [k \in 1 .. Cardinality(S) |-> of[Oldest(S)[k]]]
Usd == [i \in Rows |-> RowOf[i].usd]
Syp == [i \in Rows |-> RowOf[i].syp]

-----------------------------------------------------------------------------
(* The levels of findComparables: each but the first has no district, the   *)
(* last no property type, and the tolerances widen.                         *)
Tolerance == <<25, 35, 50, 60>>
BedTolerance == <<1, 2, None, None>>
(* Mutant: the search stops a level early.                                  *)
BadLastLevel == 3
LastLevel == 4

Matches(i, s, level) ==
    LET row == RowOf[i]
        wide == Tolerance[level]
        beds == BedTolerance[level]
    IN /\ level = 1 /\ s.district # None => row.district = s.district
       /\ level < 4 => row.kind = s.kind
       /\ 100 * row.size >= s.size * (100 - wide) /\ 100 * row.size <= s.size * (100 + wide)
       /\ s.beds # None /\ beds # None =>
            row.beds # None /\ row.beds >= s.beds - beds /\ row.beds <= s.beds + beds

(* The rows a level reads: the newest, of which those without a price are   *)
(* dropped only afterwards.                                                 *)
Read(S, s, level) == Newest({i \in S : Matches(i, s, level)}, Take)
Priced(S) == {i \in S : RowOf[i].usd > 0}

(* computeSimilarityScore, in thousandths.                                  *)
Similarity(i, s) ==
    LET row == RowOf[i]
        apart == IF s.size > row.size THEN s.size - row.size ELSE row.size - s.size
        bigger == Max({s.size, row.size})
        bedsApart == IF s.beds = None \/ row.beds = None THEN 2
                     ELSE IF s.beds > row.beds THEN s.beds - row.beds ELSE row.beds - s.beds
    IN (IF s.district # None /\ row.district = s.district THEN 400 ELSE 0)
       + (300 * (bigger - apart)) \div bigger
       + (IF bedsApart = 0 THEN 200 ELSE IF bedsApart = 1 THEN 100 ELSE 0)
       + (IF row.kind = s.kind THEN 100 ELSE 0)
Before(i, j, s) ==
    \/ Similarity(i, s) > Similarity(j, s)
    \/ Similarity(i, s) = Similarity(j, s) /\ i > j
Ranked(S, s, n) == {i \in S : Cardinality({j \in S : Before(j, i, s)}) < n}

(* What the search returns at a level, and which of two results it keeps.   *)
Found(S, s, level) ==
    LET priced == Priced(Read(S, s, level))
    IN [rows |-> Ranked(priced, s, Shown), matched |-> Cardinality(priced),
        level |-> level]
(* Mutant: the widest level wins, whatever it found.                        *)
BadBetter(best, now) == now
Better(best, now) == IF best.level = 0 \/ now.matched > best.matched THEN now ELSE best

UsdOf(S) == Column(S, Usd)
(* MarketPricingService.evaluate: a price without comparables is fair.      *)
Answer(S, s) ==
    [evaluation |-> IF S = {} THEN "fair_price" ELSE Evaluation(UsdOf(S), s.size, s.ask),
     confidence |-> Confidence(Cardinality(S)), status |-> None]

-----------------------------------------------------------------------------
Local(r, value) ==
    /\ req' = [req EXCEPT ![r] = value]
    /\ UNCHANGED <<table, outlier, price>>

Evaluate(r) ==
    /\ req[r].pc = "idle"
    /\ \E s \in Subjects, kind \in {"evaluate", "investment"} :
       /\ kind = "investment" => s.district # None
       /\ Local(r, [req[r] EXCEPT !.pc = "search", !.kind = kind, !.of = s, !.level = 1,
                                  !.since = Usable])

(* One level of findComparables.  An investment analysis goes on to the     *)
(* statistics of the district.                                              *)
Search(r) ==
    LET q == req[r]
        now == Found(Usable, q.of, q.level)
        best == Better(q.best, now)
        Answered(b) == [q EXCEPT !.pc = IF q.kind = "investment" THEN "stats" ELSE "done",
                                 !.best = b, !.answer = Answer(b.rows, q.of)]
    IN /\ q.pc = "search"
       /\ \/ now.matched >= Needed[q.level] /\ Local(r, Answered(now))
          \/ /\ now.matched < Needed[q.level] /\ q.level < LastLevel
             /\ Local(r, [q EXCEPT !.level = q.level + 1, !.best = best])
          \/ /\ now.matched < Needed[q.level] /\ q.level = LastLevel
             /\ Local(r, Answered(best))

(* getHeatmap reads the rows of the city again, those with a plausible      *)
(* price; a district without any is STABLE.                                 *)
DistrictStats(r) ==
    LET q == req[r]
        city == {i \in Usable : RowOf[i].usd \in Plausible}
        district == {i \in city : RowOf[i].district = q.of.district}
    IN /\ q.pc = "stats"
       /\ Local(r, [q EXCEPT !.pc = "done", !.sample = district,
                       !.answer.status = IF district = {} THEN "STABLE"
                                         ELSE MarketStatus(UsdOf(district), UsdOf(city))])

(* getInsights and simulate read the window once and refuse below three     *)
(* samples; a simulation is of a district.                                  *)
InSyp(S) == {i \in S : RowOf[i].syp > 0}
Sampled(s) == InSyp({i \in Usable : /\ RowOf[i].kind = s.kind
                                    /\ s.district = None \/ RowOf[i].district = s.district})
AnswerFrom(r, kind, s) ==
    Local(r, [req[r] EXCEPT !.kind = kind, !.of = s, !.sample = Sampled(s),
                            !.pc = IF Cardinality(Sampled(s)) < Fewest
                                   THEN "refused" ELSE "done"])
Insights(r) ==
    /\ req[r].pc = "idle"
    /\ \E s \in Subjects : AnswerFrom(r, "insights", s)
Simulate(r) ==
    /\ req[r].pc = "idle"
    /\ \E s \in Subjects : s.district # None /\ AnswerFrom(r, "simulate", s)

-----------------------------------------------------------------------------
(* getMarketAvgPriceM2: the price in Syrian pounds of a row that has one,   *)
(* the one in dollars of a row that has not.                                *)
BrainPrice(i) == IF RowOf[i].syp > 0 THEN RowOf[i].syp ELSE RowOf[i].usd
BrainRows(k) == {i \in Usable : RowOf[i].district = ListingOf[k].district /\ BrainPrice(i) > 0}
Estimate(k, S) ==
    BrainRange(Column(S, [i \in Rows |-> BrainPrice(i)]), ListingOf[k].size, Million)

(* getAnalysis, of one listing: the price is read first, the rows of the    *)
(* district in a read of their own.  A type the code does not know counts   *)
(* as a district that is missing.                                           *)
Incomplete(k) == ListingOf[k].district = None \/ ListingOf[k].size = 0
Missing(k) == Incomplete(k) \/ ListingOf[k].city = None \/ price[k] = 0
Analyze(r) ==
    /\ req[r].pc = "idle"
    /\ \E k \in Listings :
          LET q == [req[r] EXCEPT !.kind = "analysis", !.of = k, !.advice.asked = price[k]]
          IN \/ /\ Missing(k)
                /\ Local(r, [q EXCEPT !.pc = "done", !.advice.label = "MISSING_FIELDS"])
             \/ ~Missing(k) /\ Local(r, [q EXCEPT !.pc = "analyze"])

AnalyzeEstimate(r) ==
    LET q == req[r]
        rows == BrainRows(q.of)
    IN /\ q.pc = "analyze"
       /\ \/ /\ rows = {}
             /\ Local(r, [q EXCEPT !.pc = "done", !.advice.label = "NO_MARKET_DATA"])
          \/ /\ rows # {}
             /\ Local(r, [q EXCEPT !.pc = "advised", !.advice.rows = rows,
                            !.advice.label = Label(q.advice.asked, Estimate(q.of, rows).mid)])

(* The actions an analysis suggests: a target and the price shown with it.  *)
Suggested(label, range) ==
    CASE label = "OVERPRICED" -> {<<"OPTIMAL", range.mid>>, <<"FAST", range.low>>}
      [] label = "UNDERPRICED" -> {<<"RAISE_TO_OPTIMAL", range.mid>>}
      [] OTHER -> {}

(* Mutant: only OPTIMAL applies the optimal price.                          *)
BadTargetPrice(target, range) == IF target = "OPTIMAL" THEN range.mid ELSE range.low
TargetPrice(target, range) == IF target = "FAST" THEN range.low ELSE range.mid

(* The owner names a target of a listing, not a price; a city or a price it *)
(* need not have.                                                           *)
ApplyRecommendation(r) ==
    /\ req[r].pc = "idle"
    /\ \E k \in Listings, target \in {"OPTIMAL", "FAST", "RAISE_TO_OPTIMAL"} :
          Local(r, [req[r] EXCEPT !.pc = IF Incomplete(k) THEN "refused" ELSE "estimate",
                                  !.kind = "apply", !.of = k, !.target = target])
(* The owner takes one of the suggested actions.                            *)
FollowAdvice(r) ==
    LET q == req[r]
    IN /\ q.pc = "advised"
       /\ \E a \in Suggested(q.advice.label, Estimate(q.of, q.advice.rows)) :
             Local(r, [q EXCEPT !.pc = "estimate", !.kind = "apply", !.target = a[1],
                                !.shown = a[2]])

(* The estimate is read, and a price of nothing refused.                    *)
ApplyEstimate(r) ==
    LET q == req[r]
        rows == BrainRows(q.of)
        target == IF rows = {} THEN 0 ELSE TargetPrice(q.target, Estimate(q.of, rows))
    IN /\ q.pc = "estimate"
       /\ \/ /\ target = 0
             /\ Local(r, [q EXCEPT !.pc = "refused"])
          \/ /\ target > 0
             /\ Local(r, [q EXCEPT !.pc = "update", !.sample = rows, !.newPrice = target])

ApplyUpdate(r) ==
    LET q == req[r]
    IN /\ q.pc = "update"
       /\ price' = [price EXCEPT ![q.of] = q.newPrice]
       /\ req' = [req EXCEPT ![r].pc = "done"]
       /\ UNCHANGED <<table, outlier>>

(* The owner gives the listing another price, by an update of its own.      *)
EditPrice(k) ==
    /\ \E p \in Prices : price' = [price EXCEPT ![k] = p]
    /\ UNCHANGED <<table, outlier, req>>

-----------------------------------------------------------------------------
(* An import adds rows, a mark takes one out of every later read.           *)
Moved(gone) ==
    req' = [r \in Reqs |-> [req[r] EXCEPT !.moved = req[r].pc = "search" \/ @,
                                          !.since = IF req[r].pc = "search" THEN @ \ gone
                                                    ELSE @]]
ImportRow(i) ==
    /\ i \notin table
    /\ table' = table \cup {i}
    /\ Moved({})
    /\ UNCHANGED <<outlier, price>>
MarkOutlier(i) ==
    /\ i \in Usable
    /\ outlier' = outlier \cup {i}
    /\ Moved({i})
    /\ UNCHANGED <<table, price>>

Next ==
    \/ \E r \in Reqs :
        \/ Evaluate(r) \/ Search(r) \/ DistrictStats(r) \/ Insights(r) \/ Simulate(r)
        \/ Analyze(r) \/ AnalyzeEstimate(r) \/ FollowAdvice(r)
        \/ ApplyRecommendation(r) \/ ApplyEstimate(r) \/ ApplyUpdate(r)
    \/ \E k \in Listings : EditPrice(k)
    \/ \E i \in Rows : ImportRow(i) \/ MarkOutlier(i)

Spec == Init /\ [][Next]_vars

-----------------------------------------------------------------------------
Searched == {r \in Reqs : req[r].pc \in {"stats", "done"}
                          /\ req[r].kind \in {"evaluate", "investment"}}

(* An evaluation answers from the narrowest level that has enough           *)
(* comparables, and when none has, from the one that has most: while the    *)
(* table stood still, no narrower level was enough and no level of the four *)
(* would have given more.  (findComparables keeps the best result so far    *)
(* over four separate reads.)                                               *)
NarrowestThatSuffices ==
    \A r \in Searched :
        LET s == req[r].of
            b == req[r].best
            Has(level) == Cardinality(Priced(Read(req[r].since, s, level)))
        IN ~req[r].moved =>
             /\ \A level \in 1 .. 4 : level < b.level => Has(level) < Needed[level]
             /\ b.matched < Needed[b.level] =>
                  \A level \in 1 .. 4 : /\ Has(level) <= b.matched
                                        /\ level < b.level => Has(level) < b.matched

(* Widening loses nothing: a priced row like the subject that was there and *)
(* no outlier all the time keeps an evaluation from answering that there is *)
(* nothing to compare with, whatever is imported or marked between the      *)
(* levels (as long as the rows fit into what a level reads).                *)
PresentMeansFound ==
    \A r \in Searched :
        Cardinality(Rows) <= Take =>
        ((\E i \in Priced(req[r].since) : Matches(i, req[r].of, 4)) => req[r].best.matched > 0)

(* One sample tells one story, whatever rows it has: a price not below the  *)
(* median is at or above the 50th percentile; a market whose prices never   *)
(* fell is not going down, one whose prices never rose not up; and of two   *)
(* asking prices the dearer never sells faster.  (getInsights and simulate, *)
(* which owner portfolio, strategy and suggestions put side by side.)       *)
InsightsAgree ==
    \A r \in {q \in Reqs : req[q].kind \in {"insights", "simulate"} /\ req[q].pc = "done"} :
        LET S == req[r].sample
            source == IF Cardinality(S \cap Recent) >= TrendRows THEN S \cap Recent ELSE S
            trend == Column(source, Syp)
            values == Column(S, Syp)
            asks == {values[i] * req[r].of.size : i \in DOMAIN values} \cup {req[r].of.ask}
        IN /\ \A i \in DOMAIN values :
                2 * values[i] >= Median2(values) => 2 * AtMost(values, values[i]) >= Len(values)
           /\ (\A i \in 1 .. Len(trend) - 1 : trend[i] <= trend[i + 1])
                => Direction(trend) # "down"
           /\ (\A i \in 1 .. Len(trend) - 1 : trend[i] >= trend[i + 1])
                => Direction(trend) # "up"
           /\ \A p, q \in asks : p <= q =>
                SaleSpeed(values, p, req[r].of.size) <= SaleSpeed(values, q, req[r].of.size)

(* Advice that is followed does what it says.  While the rows of the        *)
(* district are those the owner was told of, the listing gets the very      *)
(* price that was shown, and if it still had the price that was judged, an  *)
(* overpriced one gets cheaper and an underpriced one dearer, whatever      *)
(* changed elsewhere in the table.  (getAnalysis and applyRecommendation    *)
(* look the listing up and estimate the market apart from each other; what  *)
(* is sent between them is a target and no price.)                          *)
Follows(r) ==
    /\ req[r].pc = "update" /\ req'[r].pc = "done"
    /\ req[r].advice.label # None /\ req[r].sample = req[r].advice.rows
AsAdvised(q) ==
    /\ price'[q.of] = q.shown
    /\ price[q.of] = q.advice.asked =>
         IF q.advice.label = "OVERPRICED" THEN price'[q.of] < price[q.of]
                                         ELSE price'[q.of] > price[q.of]
FollowedAsAdvised == [][\A r \in Reqs : Follows(r) => AsAdvised(req[r])]_vars
=============================================================================
