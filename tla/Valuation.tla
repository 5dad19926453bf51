------------------------------ MODULE Valuation ------------------------------
(***************************************************************************)
(* The arithmetic of a price: what AdvisorService, MarketPricingService,   *)
(* MarketBrainService, OwnerStrategyService and the analyzer of a          *)
(* portfolio compute from the rows they were given.  No state.             *)
(*                                                                         *)
(* Prices are natural numbers and a comparison of quotients is a           *)
(* comparison of products, so that nothing is lost to rounding but where   *)
(* the code rounds.  0 stands for a column that is null or not positive,   *)
(* which the code treats alike.                                            *)
(***************************************************************************)
EXTENDS Naturals, Integers, Sequences, SequencesExt, FiniteSets, FiniteSetsExt

(* Math.round(n / d) for n >= 0.                                            *)
Round(n, d) == (2 * n + d) \div (2 * d)

-----------------------------------------------------------------------------
(* A row of areas_price: [syp, usd, n], the two averages per square metre   *)
(* and the number of samples.  A row without either price is refused.       *)
Quotable(row) == row.syp > 0 \/ row.usd > 0
Baseline(row, fx, size) == IF row.syp > 0 THEN row.syp * size ELSE row.usd * size * fx

(* Mutant: the factors of the two prices are those of the edge of the range.*)
BadOptimal(base) == Round(base * 108, 100)
Optimal(base) == Round(base * 104, 100)
FastSale(base) == Round(base * 96, 100)
RangeOf(price) == [min |-> Round(price * 95, 100), max |-> Round(price * 105, 100)]

FairRange(base) == [min |-> Round(base * 93, 100), max |-> Round(base * 107, 100)]
BuyerVerdict(ask, base) ==
    IF ask < FairRange(base).min THEN "cheap"
    ELSE IF ask > FairRange(base).max THEN "expensive" ELSE "fair"

-----------------------------------------------------------------------------
(* Of a sequence of prices per square metre.                                *)
Total(values) == FoldSeq(LAMBDA x, y : x + y, 0, values)
Squares(values) == FoldSeq(LAMBDA x, y : x * x + y, 0, values)
(* The values in ascending order: the k-th is the one with k values up to   *)
(* it, equal ones counted in the order they came in.                        *)
UpTo(values, i) ==
    {j \in DOMAIN values : values[j] < values[i] \/ (values[j] = values[i] /\ j <= i)}
Ascending(values) ==
    [k \in DOMAIN values |->
        values[CHOOSE i \in DOMAIN values : Cardinality(UpTo(values, i)) = k]]

(* Twice the median; a mutant forgets to sort.                              *)
BadMedian2(values) ==
    LET mid == Len(values) \div 2
    IN IF Len(values) % 2 = 1 THEN 2 * values[mid + 1] ELSE values[mid] + values[mid + 1]
Median2(values) ==
    LET sorted == Ascending(values)
        mid == Len(sorted) \div 2
    IN IF Len(sorted) % 2 = 1 THEN 2 * sorted[mid + 1] ELSE sorted[mid] + sorted[mid + 1]

AtMost(values, target) == Cardinality({i \in DOMAIN values : values[i] <= target})

(* stddev / avg > percent / 100.                                            *)
Spread(values, percent) ==
    LET s == Total(values)
    IN 10000 * (Len(values) * Squares(values) - s * s) > percent * percent * s * s

(* computeTrendLast30Days, of the points in the order of created_at; a      *)
(* mutant takes them newest first.                                          *)
BadDirection(source) ==
    LET first == source[Len(source)]
        last == source[1]
    IN IF 100 * (last - first) > 3 * first THEN "up"
       ELSE IF 100 * (first - last) > 3 * first THEN "down" ELSE "flat"
Direction(source) ==
    LET chunk == IF Len(source) \div 2 > 1 THEN Len(source) \div 2 ELSE 1
        first == Total(SubSeq(source, 1, chunk))
        last == Total(SubSeq(source, Len(source) - chunk + 1, Len(source)))
    IN IF 100 * (last - first) > 3 * first THEN "up"
       ELSE IF 100 * (first - last) > 3 * first THEN "down" ELSE "flat"

(* The classes of sale speed are numbered 1 (fast) to 4 (very_slow).        *)
DowngradeSpeed(speed) == IF speed < 4 THEN speed + 1 ELSE speed
SaleSpeed(values, price, size) ==
    LET median2 == Median2(values) * size    \* twice the median of the total
        over == 100 * (2 * price - median2)
        speed == IF over < -5 * median2 THEN 1
                 ELSE IF over <= 5 * median2 THEN 2
                 ELSE IF over <= 12 * median2 THEN 3 ELSE 4
    IN IF Spread(values, 25) THEN DowngradeSpeed(speed) ELSE speed

-----------------------------------------------------------------------------
(* MarketPricingService.evaluate, of the prices of the chosen comparables.  *)
Evaluation(values, size, ask) ==
    LET estimate2 == Median2(values) * size
    IN IF 20 * ask < 9 * estimate2 THEN "underpriced"
       ELSE IF 20 * ask > 11 * estimate2 THEN "overpriced" ELSE "fair_price"
Confidence(count) ==
    IF count >= 10 THEN "HIGH" ELSE IF count >= 5 THEN "MEDIUM"
    ELSE IF count >= 3 THEN "LOW" ELSE "VERY_LOW"

(* resolveMarketStatus, of the prices of a district and of its city.        *)
MarketStatus(district, city) ==
    LET here == 10 * Total(district) * Len(city)
        all == Total(city) * Len(district)
    IN IF all = 0 THEN "STABLE" ELSE IF here > 12 * all THEN "HOT"
       ELSE IF here < 8 * all THEN "UNDERVALUED" ELSE "STABLE"

-----------------------------------------------------------------------------
(* MarketBrainService: the range in units of `million`, at 6 percent around *)
(* the average, or at 8 for a large property.                               *)
Large == 180
ToMillion(n, d, million) == Round(n, d * million)
BrainRange(values, size, million) ==
    LET n == Total(values) * size
        d == Len(values)
        pct == IF size >= Large THEN 8 ELSE 6
    IN [low |-> ToMillion(n * (100 - pct), 100 * d, million) * million,
        mid |-> ToMillion(n, d, million) * million,
        high |-> ToMillion(n * (100 + pct), 100 * d, million) * million]

(* The label of the portfolio analyzer.                                     *)
Label(price, optimal) ==
    IF optimal = 0 THEN "FAIR"
    ELSE IF 100 * (price - optimal) > 15 * optimal THEN "OVERPRICED"
    ELSE IF 100 * (optimal - price) > 10 * optimal THEN "UNDERPRICED" ELSE "FAIR"

-----------------------------------------------------------------------------
(* OwnerStrategyService.buildRecommendations, from a seller quote (optimal, *)
(* fast) and the market's median; `steady` is a confidence of 0.5 or more.  *)
AtLeastOne(n) == IF n < 1 THEN 1 ELSE n
FastPlan(fast, median2, size) ==
    AtLeastOne(Round(Min({200 * fast, 98 * median2 * size}), 200))
BalancedPlan(optimal, median2, size) == AtLeastOne(Round(2 * optimal + median2 * size, 4))
ProfitFactor(direction, volatile, steady) ==
    (IF direction = "up" THEN 108 ELSE IF direction = "flat" THEN 104 ELSE 101)
    - (IF volatile THEN 2 ELSE 0) - (IF steady THEN 0 ELSE 1)
ProfitPlan(balanced, median2, size, factor) ==
    AtLeastOne(Round(Max({200 * balanced, median2 * size * factor}), 200))
=============================================================================
