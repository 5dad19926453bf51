---------------------------- MODULE AdvisorProofs ----------------------------
(***************************************************************************)
(* What is proved of Advisor, for any number of requests, areas, sizes and *)
(* owners, for any rows, rates and samples of the market: its types, that  *)
(* every quote is its own property's, that a cached price settles, that    *)
(* seller, buyer and owner are advised alike, and that a history is fresh. *)
(* And of Appraisal, for any table of rows, imports and marks: which level *)
(* of comparables answers, that a row that was there is found, that one    *)
(* sample tells one story, and that an applied price is fair.              *)
(*                                                                         *)
(* The first part is about the operators of Valuation and Advisor: minima, *)
(* maxima and medians exist, and rounding keeps the order of prices.       *)
(***************************************************************************)
EXTENDS Advice, FiniteSetTheorems, WellFoundedInduction, TLAPS

-----------------------------------------------------------------------------
(* Of two numbers and of a finite set of numbers.                           *)

\* A finite set of naturals that has an element has a greatest one: of the
\* finite parts without one, a smallest cannot be.
LEMMA Greatest ==
    ASSUME NEW S \in SUBSET Nat, IsFiniteSet(S), S # {}
    PROVE  Max(S) \in S /\ \A y \in S : Max(S) >= y
<1> DEFINE HasMax(t) == \E x \in t : \A y \in t : x >= y
           Without == {t \in SUBSET S : t # {} /\ ~HasMax(t)}
<1>1. Without = {}
  <2>1. SUFFICES ASSUME Without # {} PROVE FALSE
    OBVIOUS
  <2>2. IsWellFoundedOn(StrictSubsetOrdering(S), FiniteSubsetsOf(S))
    BY FS_StrictSubsetOrderingWellFounded
  <2>3. Without \subseteq FiniteSubsetsOf(S)
    BY FS_Subset DEF FiniteSubsetsOf
  <2> HIDE DEF Without
  <2>4. PICK t \in Without : \A u \in Without : ~ (<<u, t>> \in StrictSubsetOrdering(S))
    BY <2>1, <2>2, <2>3, WFMin
  <2>5. t \in SUBSET S /\ t # {} /\ ~HasMax(t)
    BY DEF Without
  <2>6. PICK x : x \in t
    BY <2>5
  <2> DEFINE u == t \ {x}
  <2>7. u \in SUBSET S /\ u # t
    BY <2>5, <2>6
  <2>8. <<u, t>> \in StrictSubsetOrdering(S)
    BY <2>5, <2>7 DEF StrictSubsetOrdering
  <2>9. u = {} \/ HasMax(u)
    BY <2>4, <2>7, <2>8 DEF Without
  <2>10. \A y \in t : y = x \/ y \in u
    OBVIOUS
  <2>11. CASE u = {}
    BY <2>5, <2>6, <2>10, <2>11
  <2>12. CASE HasMax(u)
    <3>1. PICK z \in u : \A y \in u : z >= y
      BY <2>12
    <3>2. z \in Nat /\ x \in Nat /\ z \in t
      BY <2>5, <2>6, <2>7, <3>1
    <3>3. CASE x >= z
      <4>1. \A y \in t : x >= y
        BY <2>5, <2>10, <3>1, <3>2, <3>3
      <4> QED
        BY <2>5, <2>6, <4>1
    <3>4. CASE ~(x >= z)
      <4>1. \A y \in t : z >= y
        BY <2>5, <2>10, <3>1, <3>2, <3>4
      <4> QED
        BY <2>5, <3>2, <4>1
    <3> QED
      BY <3>3, <3>4
  <2> QED
    BY <2>9, <2>11, <2>12
<1>2. HasMax(S)
  BY <1>1
<1> QED
  BY <1>2 DEF Max

LEMMA TwoNumbers ==
    ASSUME NEW m \in Nat, NEW n \in Nat
    PROVE  /\ Min({m, n}) \in Nat /\ Min({m, n}) <= m /\ Min({m, n}) <= n
           /\ Max({m, n}) \in Nat /\ Max({m, n}) >= m /\ Max({m, n}) >= n
<1>1. CASE m <= n
  <2>1. \E x \in {m, n} : \A y \in {m, n} : x =< y
    BY <1>1
  <2>2. \E x \in {m, n} : \A y \in {m, n} : x >= y
    BY <1>1
  <2> QED
    BY <2>1, <2>2 DEF Min, Max
<1>2. CASE ~(m <= n)
  <2>1. \E x \in {m, n} : \A y \in {m, n} : x =< y
    BY <1>2
  <2>2. \E x \in {m, n} : \A y \in {m, n} : x >= y
    BY <1>2
  <2> QED
    BY <2>1, <2>2 DEF Min, Max
<1> QED
  BY <1>1, <1>2

-----------------------------------------------------------------------------
(* The median of a sample is a number: sorting loses no value.              *)

\* Of two places, the values up to one of them are a proper part of those up
\* to the other.
LEMMA PlacesDiffer ==
    ASSUME NEW s \in Seq(Nat), NEW i \in DOMAIN s, NEW j \in DOMAIN s, i # j
    PROVE  Cardinality(UpTo(s, i)) # Cardinality(UpTo(s, j))
<1>1. DOMAIN s = 1 .. Len(s) /\ Len(s) \in Nat /\ \A k \in DOMAIN s : s[k] \in Nat
  OBVIOUS
<1>2. IsFiniteSet(1 .. Len(s))
  BY <1>1, FS_Interval
<1>3. \A k \in DOMAIN s : UpTo(s, k) \subseteq 1 .. Len(s) /\ IsFiniteSet(UpTo(s, k))
                          /\ k \in UpTo(s, k)
  BY <1>1, <1>2, FS_Subset DEF UpTo
<1>4. CASE s[i] < s[j] \/ (s[i] = s[j] /\ i <= j)
  <2>1. UpTo(s, i) \subseteq UpTo(s, j)
    BY <1>1, <1>4 DEF UpTo
  <2>2. j \notin UpTo(s, i)
    BY <1>1, <1>4 DEF UpTo
  <2> QED
    BY <1>3, <2>1, <2>2, FS_Subset
<1>5. CASE ~(s[i] < s[j] \/ (s[i] = s[j] /\ i <= j))
  <2>1. s[j] < s[i] \/ (s[i] = s[j] /\ j <= i)
    BY <1>1, <1>5
  <2>2. UpTo(s, j) \subseteq UpTo(s, i)
    BY <1>1, <2>1 DEF UpTo
  <2>3. i \notin UpTo(s, j)
    BY <1>1, <1>5 DEF UpTo
  <2> QED
    BY <1>3, <2>2, <2>3, FS_Subset
<1> QED
  BY <1>4, <1>5

LEMMA EveryPlaceTaken ==
    ASSUME NEW s \in Seq(Nat), NEW k \in DOMAIN s
    PROVE  \E i \in DOMAIN s : Cardinality(UpTo(s, i)) = k
<1>1. DOMAIN s = 1 .. Len(s) /\ Len(s) \in Nat
  OBVIOUS
<1> DEFINE Place == [i \in DOMAIN s |-> Cardinality(UpTo(s, i))]
           Places == {Place[i] : i \in DOMAIN s}
<1>2. IsFiniteSet(1 .. Len(s)) /\ Cardinality(1 .. Len(s)) = Len(s)
  <2>1. PICK n \in Nat : n = Len(s)
    BY <1>1
  <2>2. IsFiniteSet(1 .. n)
        /\ Cardinality(1 .. n) = IF 1 > n THEN 0 ELSE n - 1 + 1
    BY FS_Interval
  <2>3. Cardinality(1 .. n) = n
    BY <2>2
  <2> QED
    BY <2>1, <2>2, <2>3
<1>3. \A i \in DOMAIN s : Cardinality(UpTo(s, i)) \in 1 .. Len(s)
  <2>1. SUFFICES ASSUME NEW i \in DOMAIN s PROVE Cardinality(UpTo(s, i)) \in 1 .. Len(s)
    OBVIOUS
  <2>2. UpTo(s, i) \subseteq 1 .. Len(s) /\ i \in UpTo(s, i)
    BY <1>1 DEF UpTo
  <2>3. IsFiniteSet(UpTo(s, i)) /\ Cardinality(UpTo(s, i)) <= Len(s)
    BY <1>2, <2>2, FS_Subset
  <2>4. Cardinality(UpTo(s, i)) \in Nat /\ Cardinality(UpTo(s, i)) # 0
    BY <2>2, <2>3, FS_CardinalityType, FS_EmptySet
  <2> QED
    BY <1>1, <2>3, <2>4
<1>4. Place \in Injection(DOMAIN s, Places)
  BY PlacesDiffer DEF Injection, IsInjective
<1>5. Places \subseteq 1 .. Len(s)
  BY <1>3
<1>6. Cardinality(Places) = Len(s)
  <2>1. Place \in Surjection(DOMAIN s, Places)
    BY DEF Surjection
  <2>2. Place \in Bijection(DOMAIN s, Places)
    BY <1>4, <2>1 DEF Bijection
  <2> HIDE DEF Place, Places
  <2> QED
    BY <1>1, <1>2, <2>2, FS_Bijection DEF ExistsBijection
<1>7. Places = 1 .. Len(s)
  <2> HIDE DEF Places
  <2> QED
    BY <1>2, <1>5, <1>6, FS_Subset
<1> QED
  BY <1>1, <1>7

LEMMA MedianType ==
    ASSUME NEW s \in Seq(Nat), Len(s) > 0
    PROVE  Median2(s) \in Nat
<1>1. DOMAIN s = 1 .. Len(s) /\ Len(s) \in Nat /\ \A k \in DOMAIN s : s[k] \in Nat
  OBVIOUS
<1>2. \A k \in DOMAIN s : Ascending(s)[k] \in Nat
  BY <1>1, EveryPlaceTaken DEF Ascending
<1>3. Ascending(s) \in Seq(Nat) /\ Len(Ascending(s)) = Len(s)
  <2>1. Ascending(s) \in [1 .. Len(s) -> Nat]
    BY <1>1, <1>2 DEF Ascending
  <2> QED
    BY <1>1, <2>1
<1> DEFINE n == Len(s)
           mid == n \div 2
<1>4. mid \in Nat /\ (n % 2 = 1 => mid + 1 \in 1 .. n)
      /\ (n % 2 # 1 => mid \in 1 .. n /\ mid + 1 \in 1 .. n)
  BY <1>1
<1>5. Median2(s) = IF n % 2 = 1 THEN 2 * Ascending(s)[mid + 1]
                   ELSE Ascending(s)[mid] + Ascending(s)[mid + 1]
  BY <1>3 DEF Median2
<1> QED
  BY <1>1, <1>2, <1>4, <1>5

-----------------------------------------------------------------------------
(* Rounding and the prices made with it.                                    *)

LEMMA RoundType ==
    ASSUME NEW n \in Nat, NEW d \in Nat \ {0}
    PROVE  Round(n, d) \in Nat
BY DEF Round

LEMMA RoundKeepsOrder ==
    /\ \A m, n \in Nat : m <= n => Round(m, 100) <= Round(n, 100)
    /\ \A m, n \in Nat : m <= 50 * n => Round(m, 200) <= Round(n, 4)
    /\ \A m, n \in Nat : 200 * m <= n => m <= Round(n, 200)
BY DEF Round

\* What a quote and a verdict are made of.
LEMMA BaselineType ==
    ASSUME NEW w \in RowValues, NEW rate \in Rates, NEW size \in Sizes
    PROVE  Baseline(w, rate, size) \in Nat
<1>1. w.syp \in Nat /\ w.usd \in Nat /\ rate \in Nat /\ size \in Nat
  BY AdvisorAssumption
<1>2. \A a, b, c \in Nat : a * b \in Nat /\ a * b * c \in Nat
  OBVIOUS
<1> QED
  BY <1>1, <1>2 DEF Baseline

LEMMA PricesOfBase ==
    ASSUME NEW base \in Nat
    PROVE  /\ Optimal(base) \in Nat /\ FastSale(base) \in Nat
           /\ FairRange(base).min \in Nat /\ FairRange(base).max \in Nat
           /\ FairRange(base).min <= FastSale(base) /\ FastSale(base) <= Optimal(base)
           /\ Optimal(base) <= FairRange(base).max
<1>1. /\ base * 104 \in Nat /\ base * 96 \in Nat /\ base * 93 \in Nat /\ base * 107 \in Nat
      /\ base * 93 <= base * 96 /\ base * 96 <= base * 104 /\ base * 104 <= base * 107
  OBVIOUS
<1> QED
  BY <1>1, RoundType, RoundKeepsOrder DEF Optimal, FastSale, FairRange

\* A listing offered at the optimal or at the fast price is a fair one.
LEMMA FairAtItsPrice ==
    ASSUME NEW base \in Nat, NEW ask \in {Optimal(base), FastSale(base)}
    PROVE  BuyerVerdict(ask, base) = "fair"
<1>1. ask \in Nat /\ FairRange(base).min <= ask /\ ask <= FairRange(base).max
  BY PricesOfBase
<1>2. FairRange(base).min \in Nat /\ FairRange(base).max \in Nat
  BY PricesOfBase
<1> QED
  BY <1>1, <1>2 DEF BuyerVerdict

\* The three plans of a strategy are in order, whatever the median.
LEMMA PlansInOrder ==
    ASSUME NEW optimal \in Nat, NEW fast \in Nat, fast <= optimal,
           NEW m2 \in Nat, NEW size \in Nat, NEW factor \in Nat
    PROVE  LET balanced == BalancedPlan(optimal, m2, size)
               profit == ProfitPlan(balanced, m2, size, factor)
           IN /\ FastPlan(fast, m2, size) \in Nat /\ balanced \in Nat
              /\ FastPlan(fast, m2, size) <= balanced
              /\ profit \in Nat /\ balanced <= profit
<1> DEFINE balanced == BalancedPlan(optimal, m2, size)
           profit == ProfitPlan(balanced, m2, size, factor)
<1>1. PICK total \in Nat : total = m2 * size
  OBVIOUS
<1>2. 98 * m2 * size = 98 * total
  BY <1>1
<1>3. PICK low \in Nat : low = Min({200 * fast, 98 * total})
  BY <1>1, TwoNumbers
<1>4. low <= 200 * fast /\ low <= 98 * total
  BY <1>1, <1>3, TwoNumbers
<1>5. low <= 50 * (2 * optimal + total)
  BY <1>1, <1>3, <1>4
<1>6. Round(low, 200) <= Round(2 * optimal + total, 4)
  BY <1>1, <1>3, <1>5, RoundKeepsOrder
<1>7. Round(low, 200) \in Nat /\ Round(2 * optimal + total, 4) \in Nat
  BY <1>1, <1>3, RoundType
<1>8. FastPlan(fast, m2, size) = AtLeastOne(Round(low, 200))
  BY <1>2, <1>3 DEF FastPlan
<1>9. balanced = AtLeastOne(Round(2 * optimal + total, 4))
  BY <1>1 DEF BalancedPlan
<1>10. FastPlan(fast, m2, size) \in Nat /\ balanced \in Nat
       /\ FastPlan(fast, m2, size) <= balanced
  BY <1>6, <1>7, <1>8, <1>9 DEF AtLeastOne
<1>11. profit \in Nat /\ balanced <= profit
  <2> HIDE DEF balanced
  <2>1. PICK other \in Nat : other = m2 * size * factor
    OBVIOUS
  <2>2. PICK high \in Nat : high = Max({200 * balanced, other})
    BY <1>10, TwoNumbers
  <2>3. 200 * balanced <= high
    BY <1>10, <2>2, TwoNumbers
  <2>4. balanced <= Round(high, 200) /\ Round(high, 200) \in Nat
    BY <1>10, <2>3, RoundKeepsOrder, RoundType
  <2>5. profit = AtLeastOne(Round(high, 200))
    BY <2>1, <2>2 DEF ProfitPlan
  <2> QED
    BY <1>10, <2>4, <2>5 DEF AtLeastOne
<1> QED
  BY <1>10, <1>11

LEMMA FactorType ==
    ASSUME NEW direction, NEW volatile, NEW steady
    PROVE  ProfitFactor(direction, volatile, steady) \in Nat
BY DEF ProfitFactor

-----------------------------------------------------------------------------
(* The types.  A quote or a verdict is one of a row, a rate and a size.     *)
FitsSize(quote, size) ==
    \E w \in RowValues, rate \in Rates : quote = Quote(w, rate, size)
Quotes == UNION {{Quote(w, rate, size) : w \in RowValues, rate \in Rates} : size \in Sizes}
Verdicts == [verdict : {"cheap", "fair", "expensive"}, ask : Nat,
             row : RowValues, fx : Rates]
PlanPrices == [fast : Nat, balanced : Nat, profit : Nat]
Answers == Quotes \cup Verdicts \cup PlanPrices \cup [price : Nat] \cup {None}

Asking == {"seller", "buyer", "strategy", "suggestion"}
Kinds == Asking \cup {"history", "exportLines", "export", None}
Pcs == {"idle", "cache", "row", "fx", "set", "ready", "log", "failed", "refused",
        "outcomes", "lines", "done"}
Request ==
    [pc : Pcs, kind : Kinds, owner : Owners \cup {None}, key : Keys \cup {None}, ask : Nat,
     row : RowValues \cup {None}, quote : Quotes \cup {None}, market : Samples \cup {None},
     answer : Answers, logId : Nat, seen : SUBSET Nat, known : Nat,
     shown : SUBSET (Nat \X Nat), met : BOOLEAN]
Entries == [kind : Kinds, owner : Owners \cup {None}, answer : Answers]

TypeOK ==
    /\ row \in [Areas -> RowValues \cup {None}]
    /\ fx \in Rates
    /\ cache \in [Keys -> Quotes \cup {None}]
    /\ log \in Seq(Entries) /\ outcome \in Seq(Nat)
    /\ req \in [Reqs -> Request]
    /\ ran \in [rows : SUBSET (Areas \X (RowValues \cup {None})), rates : SUBSET Rates]
    /\ changes \in Nat

(* What a request has at hand where it stands, and what it was told: a      *)
(* quote of its own size, a buyer the verdict on his asking price, an owner *)
(* plans in order.                                                          *)
AtHand(q) ==
    /\ q.pc \in {"cache", "row", "fx", "set", "ready", "log", "failed"} => q.kind \in Asking
    /\ q.pc \in {"cache", "set", "ready"} => q.kind \in Seller
    /\ q.pc \in {"cache", "row", "fx", "set", "ready"} => q.key \in Keys /\ q.answer = None
    /\ q.pc = "fx" => q.row \in RowValues
    /\ q.pc \in {"set", "ready"} \/ q.quote # None =>
         q.key \in Keys /\ FitsSize(q.quote, Size(q.key))
Told(q) ==
    /\ q.kind = "seller" /\ q.answer # None => q.quote # None /\ q.answer = q.quote
    /\ q.kind = "buyer" /\ q.answer # None =>
         /\ q.key \in Keys /\ q.answer.row \in RowValues /\ q.answer.fx \in Rates
         /\ q.answer.verdict =
              BuyerVerdict(q.ask, Baseline(q.answer.row, q.answer.fx, Size(q.key)))
    /\ q.kind = "strategy" /\ q.answer # None => PlansOrdered(q.answer)
Fit(q) == q \in Request /\ AtHand(q) /\ Told(q)

CacheFits == \A k \in Keys : cache[k] # None => FitsSize(cache[k], Size(k))
AdviceInv == TypeOK /\ CacheFits /\ \A r \in Reqs : Fit(req[r])

(* Where the quotes come from: the rows and rates of this life of the       *)
(* process.                                                                 *)
Current == (\A a \in Areas : <<a, row[a]>> \in ran.rows) /\ fx \in ran.rates
QuoteInv ==
    /\ Current
    /\ \A k \in Keys : cache[k] # None => Genuine(cache[k], k)
    /\ \A r \in Reqs :
         /\ req[r].pc \in {"set", "ready"} \/ req[r].quote # None =>
              Genuine(req[r].quote, req[r].key)
         /\ req[r].pc = "fx" => <<Area(req[r].key), req[r].row>> \in ran.rows

(* What a request has seen of the two logs, which only grow.                *)
LinkedToLine(q, lines) ==
    /\ q.logId \in 0 .. Len(lines)
    /\ q.logId > 0 => q.pc = "done" /\ lines[q.logId] = Entry(q)
ShowsNewest(q, tracked) ==
    \A x \in q.shown :
        /\ x[2] \in 0 .. Len(tracked)
        /\ x[2] > 0 => tracked[x[2]] = x[1]
        /\ \A j \in 1 .. q.known : tracked[j] = x[1] => j <= x[2]
MissesNone(q, tracked) ==
    \A i \in q.seen, j \in 1 .. q.known : tracked[j] = i => <<i, j>> \in q.shown
ShowsAll(q, tracked) == \A j \in 1 .. q.known : <<tracked[j], j>> \in q.shown
Reads(q, tracked) ==
    /\ q.known \in 0 .. Len(tracked)
    /\ q.pc = "lines" => q.kind = "export" /\ ShowsAll(q, tracked)
    /\ q.pc = "done" /\ q.kind = "history" => ShowsNewest(q, tracked)
    /\ q.pc = "done" /\ q.kind = "export" => MissesNone(q, tracked)
HistoryInv == \A r \in Reqs : LinkedToLine(req[r], log) /\ Reads(req[r], outcome)

-----------------------------------------------------------------------------
LEMMA KeyType == ASSUME NEW k \in Keys PROVE Area(k) \in Areas /\ Size(k) \in Sizes
BY DEF Keys, Area, Size

LEMMA QuoteFields ==
    ASSUME NEW quote, NEW size \in Sizes, FitsSize(quote, size)
    PROVE  /\ quote \in Quotes /\ quote.row \in RowValues /\ quote.fx \in Rates
           /\ quote = Quote(quote.row, quote.fx, size)
           /\ quote.optimal = Optimal(Baseline(quote.row, quote.fx, size))
           /\ quote.fast = FastSale(Baseline(quote.row, quote.fx, size))
           /\ quote.optimal \in Nat /\ quote.fast \in Nat /\ quote.fast <= quote.optimal
<1>1. PICK w \in RowValues, rate \in Rates : quote = Quote(w, rate, size)
  BY DEF FitsSize
<1>2. quote.row = w /\ quote.fx = rate
  BY <1>1 DEF Quote
<1>3. quote.optimal = Optimal(Baseline(w, rate, size))
      /\ quote.fast = FastSale(Baseline(w, rate, size))
  BY <1>1 DEF Quote
<1>4. Baseline(w, rate, size) \in Nat
  BY BaselineType
<1>5. quote \in Quotes
  BY <1>1 DEF Quotes
<1> QED
  BY <1>1, <1>2, <1>3, <1>4, <1>5, PricesOfBase

LEMMA QuoteNat ==
    ASSUME NEW quote \in Quotes PROVE quote.optimal \in Nat /\ quote.fast \in Nat
<1>1. PICK size \in Sizes : FitsSize(quote, size)
  BY DEF Quotes, FitsSize
<1> QED
  BY <1>1, QuoteFields

LEMMA IdleFits == Fit(Idle)
<1>1. Idle \in Request
  BY DEF Idle, Request, Pcs, Kinds, Answers
<1> QED
  BY <1>1 DEF Fit, AtHand, Told, Idle

\* A request that moves to a state that fits leaves the rest as it is.
LEMMA Moves ==
    ASSUME AdviceInv, NEW r \in Reqs, NEW v, Fit(v), Step(r, v)
    PROVE  AdviceInv'
<1>1. req' = [req EXCEPT ![r] = v]
      /\ UNCHANGED <<row, fx, cache, log, outcome, ran, changes>>
  BY DEF Step
<1>2. req \in [Reqs -> Request] /\ v \in Request
  BY DEF AdviceInv, TypeOK, Fit
<1>3. req' \in [Reqs -> Request] /\ \A s \in Reqs : req'[s] = IF s = r THEN v ELSE req[s]
  BY <1>1, <1>2
<1>4. \A s \in Reqs : Fit(req'[s])
  BY <1>3 DEF AdviceInv
<1>5. TypeOK'
  BY <1>1, <1>3 DEF AdviceInv, TypeOK
<1>6. CacheFits'
  BY <1>1 DEF AdviceInv, CacheFits
<1> QED
  BY <1>4, <1>5, <1>6 DEF AdviceInv

\* The words a request is described with differ from each other.
LEMMA Words ==
    /\ Asking = {"seller", "buyer", "strategy", "suggestion"}
    /\ Seller = {"seller", "strategy", "suggestion"}
    /\ Asking \subseteq Kinds /\ Seller \subseteq Asking
BY DEF Asking, Seller, Kinds

\* Every way a request may move leaves it fit.
LEMMA StepFits ==
    ASSUME AdviceInv, NEW r \in Reqs,
           \/ Ask(r) \/ CacheGet(r) \/ Evaluate(r) \/ ReadRow(r) \/ ReadFx(r) \/ Quoted(r)
    PROVE  \E v : Fit(v) /\ Step(r, v)
<1> DEFINE q == req[r]
<1>1. Fit(q) /\ q \in Request /\ AtHand(q) /\ Told(q)
  BY DEF AdviceInv, Fit
<1>2. CASE Ask(r)
  <2>1. PICK k \in Keys, o \in Owners, kind \in Seller :
          Step(r, [Idle EXCEPT !.pc = "cache", !.kind = kind, !.owner = o, !.key = k])
    BY <1>2 DEF Ask
  <2> DEFINE v == [Idle EXCEPT !.pc = "cache", !.kind = kind, !.owner = o, !.key = k]
  <2>2. v \in Request
    BY Words DEF Idle, Request, Pcs, Kinds, Answers
  <2>3. v.pc = "cache" /\ v.kind = kind /\ v.key = k /\ v.answer = None /\ v.quote = None
    BY DEF Idle
  <2> HIDE DEF v
  <2>4. Fit(v)
    BY <2>2, <2>3, Words DEF Fit, AtHand, Told
  <2> QED
    BY <2>1, <2>4 DEF v
<1>3. CASE CacheGet(r)
  <2> DEFINE hit == cache[KeyOf(q.key)]
             met == Computing(q.key) # {}
             v == [q EXCEPT !.pc = "ready", !.quote = hit]
             w == [q EXCEPT !.pc = "row", !.met = met]
  <2>1. q.pc = "cache" /\ ((hit # None /\ Step(r, v)) \/ Step(r, w))
    BY <1>3 DEF CacheGet, Hit
  <2>2. q.key \in Keys /\ q.kind \in Seller /\ q.answer = None
    BY <1>1, <2>1 DEF AtHand
  <2>3. CASE hit # None /\ Step(r, v)
    <3>1. FitsSize(hit, Size(q.key)) /\ hit \in Quotes
      BY <2>2, <2>3, KeyType, QuoteFields DEF AdviceInv, CacheFits, KeyOf
    <3> HIDE DEF hit
    <3>2. v \in Request
      BY <1>1, <3>1 DEF Request, Pcs
    <3>3. v.pc = "ready" /\ v.quote = hit /\ v.key = q.key /\ v.kind = q.kind
          /\ v.answer = None
      BY <1>1, <2>2 DEF Request
    <3> HIDE DEF v
    <3>4. Fit(v)
      BY <2>2, <3>1, <3>2, <3>3, Words DEF Fit, AtHand, Told
    <3> QED
      BY <2>3, <3>4
  <2>4. CASE Step(r, w)
    <3> HIDE DEF met
    <3>1. w \in Request
      <4>1. met \in BOOLEAN
        BY DEF met
      <4> QED
        BY <1>1, <4>1 DEF Request, Pcs
    <3>2. w.pc = "row" /\ w.quote = q.quote /\ w.key = q.key /\ w.kind = q.kind
          /\ w.answer = None
      BY <1>1, <2>2 DEF Request
    <3> HIDE DEF w
    <3>3. Fit(w)
      BY <1>1, <2>2, <3>1, <3>2, Words DEF Fit, AtHand, Told
    <3> QED
      BY <2>4, <3>3
  <2> QED
    BY <2>1, <2>3, <2>4
<1>4. CASE Evaluate(r)
  <2>1. PICK s \in Reqs, o \in Owners :
          /\ req[s].kind = "seller" /\ req[s].quote # None
          /\ \E ask \in {req[s].quote.optimal, req[s].quote.fast} :
                Step(r, [Idle EXCEPT !.pc = "row", !.kind = "buyer", !.owner = o,
                                     !.key = req[s].key, !.ask = ask])
    BY <1>4 DEF Evaluate
  <2>2. Fit(req[s]) /\ req[s].key \in Keys /\ FitsSize(req[s].quote, Size(req[s].key))
    BY <2>1 DEF AdviceInv, Fit, AtHand
  <2>3. req[s].quote.optimal \in Nat /\ req[s].quote.fast \in Nat
    BY <2>2, KeyType, QuoteFields
  <2>4. PICK ask \in Nat :
          Step(r, [Idle EXCEPT !.pc = "row", !.kind = "buyer", !.owner = o,
                               !.key = req[s].key, !.ask = ask])
    BY <2>1, <2>3
  <2>5. PICK k \in Keys : k = req[s].key
    BY <2>2
  <2> DEFINE v == [Idle EXCEPT !.pc = "row", !.kind = "buyer", !.owner = o,
                               !.key = k, !.ask = ask]
  <2>6. v \in Request
    BY DEF Idle, Request, Pcs, Kinds, Asking, Answers
  <2>7. v.pc = "row" /\ v.kind = "buyer" /\ v.key = k /\ v.answer = None /\ v.quote = None
    BY DEF Idle
  <2>8. Step(r, v)
    BY <2>4, <2>5
  <2> HIDE DEF v
  <2>9. Fit(v)
    BY <2>6, <2>7, Words DEF Fit, AtHand, Told
  <2> QED
    BY <2>8, <2>9, Zenon
<1>5. CASE ReadRow(r)
  <2> DEFINE v == [q EXCEPT !.pc = "failed"]
             w == [q EXCEPT !.pc = "fx", !.row = row[Area(q.key)]]
  <2>1. q.pc = "row" /\ (Step(r, v) \/ (row[Area(q.key)] # None /\ Step(r, w)))
    BY <1>5 DEF ReadRow, Refused
  <2>2. q.key \in Keys /\ q.kind \in Asking /\ q.answer = None
    BY <1>1, <2>1 DEF AtHand
  <2>3. CASE Step(r, v)
    <3>1. v \in Request
      BY <1>1 DEF Request, Pcs
    <3>2. v.pc = "failed" /\ v.quote = q.quote /\ v.key = q.key /\ v.kind = q.kind
          /\ v.answer = None
      BY <1>1, <2>2 DEF Request
    <3> HIDE DEF v
    <3>3. Fit(v)
      BY <1>1, <2>2, <3>1, <3>2 DEF Fit, AtHand, Told
    <3> QED
      BY <2>3, <3>3
  <2>4. CASE row[Area(q.key)] # None /\ Step(r, w)
    <3>1. PICK here \in RowValues : here = row[Area(q.key)]
      BY <2>2, <2>4, KeyType DEF AdviceInv, TypeOK
    <3>2. w = [q EXCEPT !.pc = "fx", !.row = here]
      BY <3>1
    <3>3. w \in Request
      BY <1>1, <3>2 DEF Request, Pcs
    <3>4. w.pc = "fx" /\ w.quote = q.quote /\ w.key = q.key /\ w.kind = q.kind
          /\ w.answer = None /\ w.row \in RowValues
      BY <1>1, <2>2, <3>1, <3>2 DEF Request
    <3> HIDE DEF w
    <3>5. Fit(w)
      BY <1>1, <2>2, <3>3, <3>4 DEF Fit, AtHand, Told
    <3> QED
      BY <2>4, <3>5
  <2> QED
    BY <2>1, <2>3, <2>4
<1>6. CASE ReadFx(r)
  <2> DEFINE v == [q EXCEPT !.pc = "failed"]
             a == Verdict(q)
             w == [q EXCEPT !.pc = "log", !.answer = a]
             new == Quote(q.row, fx, Size(q.key))
             u == [q EXCEPT !.pc = "set", !.quote = new]
  <2>1. q.pc = "fx" /\ (\/ Step(r, v)
                        \/ q.kind = "buyer" /\ Step(r, w)
                        \/ q.kind # "buyer" /\ Step(r, u))
    BY <1>6 DEF ReadFx, Refused
  <2>2. q.key \in Keys /\ q.kind \in Asking /\ q.answer = None /\ q.row \in RowValues
        /\ fx \in Rates /\ Size(q.key) \in Sizes /\ q.ask \in Nat
    BY <1>1, <2>1, KeyType DEF AtHand, AdviceInv, TypeOK, Request
  <2>3. CASE Step(r, v)
    <3>1. v \in Request
      BY <1>1 DEF Request, Pcs
    <3>2. v.pc = "failed" /\ v.quote = q.quote /\ v.key = q.key /\ v.kind = q.kind
          /\ v.answer = None
      BY <1>1, <2>2 DEF Request
    <3> HIDE DEF v
    <3>3. Fit(v)
      BY <1>1, <2>2, <3>1, <3>2 DEF Fit, AtHand, Told
    <3> QED
      BY <2>3, <3>3
  <2>4. CASE q.kind = "buyer" /\ Step(r, w)
    <3>1. a \in Verdicts /\ a.row = q.row /\ a.fx = fx
          /\ a.verdict = BuyerVerdict(q.ask, Baseline(q.row, fx, Size(q.key)))
      BY <2>2 DEF Verdict, Verdicts, BuyerVerdict
    <3> HIDE DEF a
    <3>2. a \in Answers
      BY <3>1 DEF Answers
    <3>3. w \in Request
      BY <1>1, <3>2 DEF Request, Pcs
    <3>4. w.pc = "log" /\ w.quote = q.quote /\ w.key = q.key /\ w.kind = q.kind
          /\ w.answer = a /\ w.ask = q.ask
      BY <1>1 DEF Request
    <3> HIDE DEF w
    <3>5. AtHand(w)
      BY <1>1, <2>2, <3>4 DEF AtHand
    <3>6. Told(w)
      BY <2>2, <2>4, <3>1, <3>4 DEF Told
    <3> QED
      BY <2>4, <3>3, <3>5, <3>6 DEF Fit
  <2>5. CASE q.kind # "buyer" /\ Step(r, u)
    <3>1. FitsSize(new, Size(q.key)) /\ new \in Quotes
      <4>1. FitsSize(new, Size(q.key))
        BY <2>2 DEF FitsSize
      <4> QED
        BY <2>2, <4>1, QuoteFields
    <3> HIDE DEF new
    <3>2. u \in Request
      BY <1>1, <3>1 DEF Request, Pcs
    <3>3. u.pc = "set" /\ u.quote = new /\ u.key = q.key /\ u.kind = q.kind
          /\ u.answer = None
      BY <1>1, <2>2 DEF Request
    <3> HIDE DEF u
    <3>4. Fit(u)
      BY <2>2, <2>5, <3>1, <3>2, <3>3, Words DEF Fit, AtHand, Told
    <3> QED
      BY <2>5, <3>4
  <2> QED
    BY <2>1, <2>3, <2>4, <2>5
<1>7. CASE Quoted(r)
  <2> DEFINE v == [q EXCEPT !.pc = "log", !.answer = q.quote]
  <2>1. q.pc = "ready" /\ q.kind = "seller" /\ Step(r, v)
    BY <1>7 DEF Quoted
  <2>2. q.key \in Keys /\ FitsSize(q.quote, Size(q.key)) /\ q.quote \in Quotes
    BY <1>1, <2>1, KeyType, QuoteFields DEF AtHand
  <2>3. q.quote \in Answers
    BY <2>2 DEF Answers
  <2>4. v \in Request
    BY <1>1, <2>3 DEF Request, Pcs
  <2>5. v.pc = "log" /\ v.quote = q.quote /\ v.key = q.key /\ v.kind = q.kind
        /\ v.answer = q.quote
    BY <1>1 DEF Request
  <2>6. Step(r, v)
    BY <2>1
  <2> HIDE DEF v
  <2>7. AtHand(v)
    BY <2>1, <2>2, <2>5, Words DEF AtHand
  <2>8. Told(v)
    BY <2>1, <2>5 DEF Told
  <2> QED
    BY <2>4, <2>6, <2>7, <2>8 DEF Fit
<1> QED
  BY <1>2, <1>3, <1>4, <1>5, <1>6, <1>7

\* The owner's half, the answers and the two logs' readers.
LEMMA MoreStepsFit ==
    ASSUME AdviceInv, NEW r \in Reqs,
           \/ ReadMarket(r) \/ Strategy(r) \/ Suggestion(r) \/ LogFails(r)
           \/ ErrorUnlogged(r) \/ History(r) \/ HistoryOutcomes(r) \/ Export(r)
           \/ ExportJoin(r)
    PROVE  \E v : Fit(v) /\ Step(r, v)
<1> DEFINE q == req[r]
<1>1. Fit(q) /\ q \in Request /\ AtHand(q) /\ Told(q)
  BY DEF AdviceInv, Fit
<1>10. DOMAIN log \subseteq Nat /\ DOMAIN outcome \subseteq Nat /\ Len(outcome) \in Nat
      /\ \A j \in DOMAIN outcome : outcome[j] \in Nat
  BY DEF AdviceInv, TypeOK
<1>2. CASE ReadMarket(r)
  <2>1. PICK S \in Samples : Step(r, [q EXCEPT !.market = S])
    BY <1>2 DEF ReadMarket
  <2> DEFINE v == [q EXCEPT !.market = S]
  <2>2. v \in Request
    BY <1>1 DEF Request
  <2>3. v.pc = q.pc /\ v.kind = q.kind /\ v.key = q.key /\ v.row = q.row /\ v.ask = q.ask
        /\ v.quote = q.quote /\ v.answer = q.answer
    BY <1>1 DEF Request
  <2> HIDE DEF v
  <2>4. AtHand(v)
    BY <1>1, <2>3 DEF AtHand
  <2>5. Told(v)
    BY <1>1, <2>3 DEF Told
  <2> QED
    BY <2>1, <2>2, <2>4, <2>5 DEF Fit, v
<1>3. CASE Strategy(r)
  <2>1. q.pc = "ready" /\ q.kind = "strategy" /\ q.market # None
    BY <1>3 DEF Strategy
  <2>2. q.key \in Keys /\ FitsSize(q.quote, Size(q.key)) /\ Size(q.key) \in Sizes
        /\ q.market \in Samples /\ q.answer = None
    BY <1>1, <2>1, KeyType DEF AtHand, Request
  <2> DEFINE v == [q EXCEPT !.pc = "refused"]
  <2>3. CASE Step(r, v)
    <3>1. v \in Request
      BY <1>1 DEF Request, Pcs
    <3>2. v.pc = "refused" /\ v.quote = q.quote /\ v.key = q.key /\ v.kind = q.kind
          /\ v.answer = None
      BY <1>1, <2>2 DEF Request
    <3> HIDE DEF v
    <3>3. Fit(v)
      BY <2>2, <3>1, <3>2 DEF Fit, AtHand, Told
    <3> QED
      BY <2>3, <3>3
  <2>4. ASSUME NEW steady \in BOOLEAN, Len(q.market) >= Fewest,
               Step(r, [q EXCEPT !.pc = "log", !.answer = Plans(q, steady)])
        PROVE  \E w : Fit(w) /\ Step(r, w)
    <3> DEFINE a == Plans(q, steady)
               w == [q EXCEPT !.pc = "log", !.answer = a]
    <3>1. q.market \in Seq(Nat) /\ Len(q.market) > 0
      BY <2>2, <2>4, AdvisorAssumption
    <3>2. Median2(q.market) \in Nat
      BY <3>1, MedianType
    <3>3. q.quote.optimal \in Nat /\ q.quote.fast \in Nat /\ q.quote.fast <= q.quote.optimal
      BY <2>2, QuoteFields
    <3>4. Size(q.key) \in Nat
      BY <2>2, AdvisorAssumption
    <3> DEFINE factor == ProfitFactor(Direction(q.market), Spread(q.market, 25), steady)
    <3>5. factor \in Nat
      BY FactorType
    <3>6. a = [fast |-> FastPlan(q.quote.fast, Median2(q.market), Size(q.key)),
               balanced |-> BalancedPlan(q.quote.optimal, Median2(q.market), Size(q.key)),
               profit |-> ProfitPlan(BalancedPlan(q.quote.optimal, Median2(q.market),
                                                  Size(q.key)),
                                     Median2(q.market), Size(q.key), factor)]
      BY DEF Plans
    <3> HIDE DEF factor
    <3>7. a \in PlanPrices /\ PlansOrdered(a)
      <4> HIDE DEF a
      <4>1. PICK m2, o, f, size \in Nat : m2 = Median2(q.market) /\ o = q.quote.optimal
                                       /\ f = q.quote.fast /\ size = Size(q.key)
        BY <3>2, <3>3, <3>4
      <4>2. PICK b : b = BalancedPlan(o, m2, size)
        OBVIOUS
      <4>3. PICK p : p = ProfitPlan(b, m2, size, factor)
        OBVIOUS
      <4>4. PICK l : l = FastPlan(f, m2, size)
        OBVIOUS
      <4>5. l \in Nat /\ b \in Nat /\ l <= b /\ p \in Nat /\ b <= p
        BY <3>3, <3>5, <4>1, <4>2, <4>3, <4>4, PlansInOrder
      <4>6. a = [fast |-> l, balanced |-> b, profit |-> p]
        BY <3>6, <4>1, <4>2, <4>3, <4>4
      <4> QED
        BY <4>5, <4>6 DEF PlanPrices, PlansOrdered
    <3> HIDE DEF a
    <3>8. w \in Request
      BY <1>1, <3>7 DEF Request, Pcs, Answers
    <3>9. w.pc = "log" /\ w.quote = q.quote /\ w.key = q.key /\ w.kind = q.kind
          /\ w.answer = a
      BY <1>1 DEF Request
    <3> HIDE DEF w
    <3>10. AtHand(w)
      BY <2>1, <2>2, <3>9, Words DEF AtHand
    <3>11. Told(w)
      BY <2>1, <3>7, <3>9 DEF Told
    <3>12. Step(r, w)
      BY <2>4 DEF w, a
    <3> QED
      BY <3>8, <3>10, <3>11, <3>12 DEF Fit
  <2> QED
    BY <1>3, <2>3, <2>4 DEF Strategy
<1>4. CASE Suggestion(r)
  <2>1. q.pc = "ready" /\ q.kind = "suggestion"
    BY <1>4 DEF Suggestion
  <2>2. q.key \in Keys /\ FitsSize(q.quote, Size(q.key)) /\ q.answer = None
        /\ q.quote.optimal \in Nat /\ q.quote.fast \in Nat
    BY <1>1, <2>1, KeyType, QuoteFields DEF AtHand
  <2> DEFINE v == [q EXCEPT !.pc = "refused"]
             w(p, pc) == [q EXCEPT !.pc = pc, !.answer = [price |-> p]]
  <2>3. Step(r, v) \/ \E p \in Nat, pc \in {"log", "done"} : Step(r, w(p, pc))
    BY <1>4, <2>2 DEF Suggestion
  <2>4. CASE Step(r, v)
    <3>1. v \in Request
      BY <1>1 DEF Request, Pcs
    <3>2. v.pc = "refused" /\ v.quote = q.quote /\ v.key = q.key /\ v.kind = q.kind
          /\ v.answer = None
      BY <1>1, <2>2 DEF Request
    <3> HIDE DEF v
    <3>3. Fit(v)
      BY <2>2, <3>1, <3>2 DEF Fit, AtHand, Told
    <3> QED
      BY <2>4, <3>3
  <2>5. CASE \E p \in Nat, pc \in {"log", "done"} : Step(r, w(p, pc))
    <3>1. PICK p \in Nat, pc \in {"log", "done"} : Step(r, w(p, pc))
      BY <2>5
    <3>2. PICK a : a = [price |-> p]
      OBVIOUS
    <3>3. a \in Answers
      BY <3>2 DEF Answers
    <3> DEFINE u == [q EXCEPT !.pc = pc, !.answer = a]
    <3>4. u \in Request
      BY <1>1, <3>3 DEF Request, Pcs
    <3>5. u.pc \in {"log", "done"} /\ u.quote = q.quote /\ u.key = q.key
          /\ u.kind = "suggestion"
      BY <1>1, <2>1 DEF Request
    <3>6. Step(r, u)
      BY <3>1, <3>2
    <3> HIDE DEF u
    <3>7. Fit(u)
      BY <2>2, <3>4, <3>5, Words DEF Fit, AtHand, Told
    <3> QED
      BY <3>6, <3>7
  <2> QED
    BY <2>3, <2>4, <2>5
<1>5. CASE LogFails(r) \/ ErrorUnlogged(r)
  <2>1. PICK pc \in {"done", "refused"} : Step(r, [q EXCEPT !.pc = pc])
    BY <1>5 DEF LogFails, ErrorUnlogged
  <2> DEFINE v == [q EXCEPT !.pc = pc]
  <2>2. v \in Request
    BY <1>1 DEF Request, Pcs
  <2>3. v.pc \in {"done", "refused"} /\ v.kind = q.kind /\ v.key = q.key /\ v.ask = q.ask
        /\ v.quote = q.quote /\ v.answer = q.answer
    BY <1>1 DEF Request
  <2> HIDE DEF v
  <2>4. AtHand(v)
    BY <1>1, <2>3 DEF AtHand
  <2>5. Told(v)
    BY <1>1, <2>3 DEF Told
  <2> QED
    BY <2>1, <2>2, <2>4, <2>5 DEF Fit, v
<1>6. CASE History(r)
  <2>1. PICK o \in Owners :
          Step(r, [Idle EXCEPT !.pc = "outcomes", !.kind = "history", !.owner = o,
                               !.seen = LinesOf(o), !.known = Len(outcome)])
    BY <1>6 DEF History
  <2>2. PICK seen \in SUBSET Nat : seen = LinesOf(o)
    BY <1>10 DEF LinesOf
  <2> DEFINE v == [Idle EXCEPT !.pc = "outcomes", !.kind = "history", !.owner = o,
                               !.seen = seen, !.known = Len(outcome)]
  <2>3. v \in Request
    BY <1>10 DEF Idle, Request, Pcs, Kinds, Answers
  <2>4. v.pc = "outcomes" /\ v.quote = None /\ v.answer = None
    BY DEF Idle
  <2>5. Step(r, v)
    BY <2>1, <2>2
  <2> HIDE DEF v
  <2> QED
    BY <2>3, <2>4, <2>5 DEF Fit, AtHand, Told
<1>7. CASE HistoryOutcomes(r)
  <2> DEFINE shown == {<<i, Latest(i)>> : i \in q.seen}
             v == [q EXCEPT !.pc = "done", !.shown = shown]
  <2>1. Step(r, v) /\ q.kind = "history" /\ q.pc = "outcomes"
    BY <1>7 DEF HistoryOutcomes
  <2>2. \A i \in Nat : Latest(i) \in Nat
    <3>1. SUFFICES ASSUME NEW i \in Nat PROVE Latest(i) \in Nat
      OBVIOUS
    <3>2. OutcomesOf(i) \subseteq DOMAIN outcome /\ IsFiniteSet(DOMAIN outcome)
      <4>1. DOMAIN outcome = 1 .. Len(outcome)
        BY DEF AdviceInv, TypeOK
      <4> QED
        BY <1>10, <4>1, FS_Interval DEF OutcomesOf
    <3>3. IsFiniteSet(OutcomesOf(i)) /\ OutcomesOf(i) \in SUBSET Nat
      BY <1>10, <3>2, FS_Subset
    <3> QED
      BY <3>3, Greatest DEF Latest
  <2>3. shown \in SUBSET (Nat \X Nat)
    <3>1. q.seen \in SUBSET Nat
      BY <1>1 DEF Request
    <3> QED
      BY <2>2, <3>1
  <2> HIDE DEF shown
  <2>4. v \in Request
    BY <1>1, <2>3 DEF Request, Pcs
  <2>5. v.pc = "done" /\ v.kind = "history" /\ v.key = q.key /\ v.quote = q.quote
    BY <1>1, <2>1 DEF Request
  <2> HIDE DEF v
  <2> QED
    BY <1>1, <2>1, <2>4, <2>5 DEF Fit, AtHand, Told
<1>8. CASE Export(r)
  <2> DEFINE v == [Idle EXCEPT !.pc = "outcomes", !.kind = "exportLines",
                               !.seen = DOMAIN log, !.known = Len(outcome)]
             all == {<<outcome[j], j>> : j \in DOMAIN outcome}
             w == [Idle EXCEPT !.pc = "lines", !.kind = "export", !.known = Len(outcome),
                               !.shown = all]
  <2>1. Step(r, v) \/ Step(r, w)
    BY <1>8 DEF Export
  <2>2. v \in Request
    BY <1>10 DEF Idle, Request, Pcs, Kinds, Answers
  <2>3. v.pc = "outcomes" /\ v.quote = None /\ v.answer = None
    BY DEF Idle
  <2>4. all \in SUBSET (Nat \X Nat)
    BY <1>10
  <2> HIDE DEF all
  <2>5. w \in Request
    BY <1>10, <2>4 DEF Idle, Request, Pcs, Kinds, Answers
  <2>6. w.pc = "lines" /\ w.quote = None /\ w.answer = None
    BY DEF Idle
  <2> HIDE DEF v, w
  <2> QED
    BY <2>1, <2>2, <2>3, <2>5, <2>6 DEF Fit, AtHand, Told
<1>9. CASE ExportJoin(r)
  <2> DEFINE some == {<<outcome[j], j>> : j \in {k \in DOMAIN outcome : outcome[k] \in q.seen}}
             v == [q EXCEPT !.pc = "done", !.kind = "export", !.shown = some]
             rest == {x \in q.shown : x[1] \in DOMAIN log}
             w == [q EXCEPT !.pc = "done", !.seen = DOMAIN log, !.shown = rest]
  <2>1. \/ q.pc = "outcomes" /\ Step(r, v)
        \/ q.pc = "lines" /\ Step(r, w)
    BY <1>9 DEF ExportJoin
  <2>2. some \in SUBSET (Nat \X Nat)
    BY <1>10
  <2>3. rest \in SUBSET (Nat \X Nat)
    BY <1>1 DEF Request
  <2> HIDE DEF some, rest
  <2>4. v \in Request
    BY <1>1, <2>2, ZenonT(40) DEF Request, Pcs, Kinds
  <2>5. v.pc = "done" /\ v.kind = "export" /\ v.key = q.key /\ v.quote = q.quote
    BY <1>1 DEF Request
  <2>6. w \in Request
    BY <1>1, <1>10, <2>3 DEF Request, Pcs
  <2>7. w.pc = "done" /\ w.kind = q.kind /\ w.key = q.key /\ w.ask = q.ask
        /\ w.quote = q.quote /\ w.answer = q.answer
    BY <1>1 DEF Request
  <2> HIDE DEF v, w
  <2>8. Fit(v)
    BY <1>1, <2>4, <2>5 DEF Fit, AtHand, Told
  <2>9. AtHand(w)
    BY <1>1, <2>7 DEF AtHand
  <2>10. Told(w)
    BY <1>1, <2>7 DEF Told
  <2> QED
    BY <2>1, <2>6, <2>8, <2>9, <2>10 DEF Fit
<1> QED
  BY <1>2, <1>3, <1>4, <1>5, <1>6, <1>7, <1>8, <1>9

\* A request whose line in the log is written, or that has stored its price.
LEMMA PlaceChanges ==
    ASSUME NEW q, Fit(q), NEW pc \in {"done", "refused", "ready"}, NEW id \in Nat,
           pc = "ready" => q.pc = "set"
    PROVE  Fit([q EXCEPT !.pc = pc]) /\ Fit([q EXCEPT !.pc = pc, !.logId = id])
<1>1. q \in Request /\ AtHand(q) /\ Told(q)
  BY DEF Fit
<1> DEFINE v == [q EXCEPT !.pc = pc]
           w == [q EXCEPT !.pc = pc, !.logId = id]
<1>2. v \in Request /\ w \in Request
  BY <1>1 DEF Request, Pcs
<1>3. v.pc = pc /\ v.kind = q.kind /\ v.key = q.key /\ v.ask = q.ask
      /\ v.quote = q.quote /\ v.answer = q.answer /\ v.row = q.row
  BY <1>1 DEF Request
<1>4. w.pc = pc /\ w.kind = q.kind /\ w.key = q.key /\ w.ask = q.ask
      /\ w.quote = q.quote /\ w.answer = q.answer /\ w.row = q.row
  BY <1>1 DEF Request
<1> HIDE DEF v, w
<1>5. AtHand(v) /\ AtHand(w)
  BY <1>1, <1>3, <1>4 DEF AtHand
<1>6. Told(v) /\ Told(w)
  BY <1>1, <1>3, <1>4 DEF Told
<1> QED
  BY <1>2, <1>5, <1>6 DEF Fit, v, w

LEMMA EntryType == ASSUME NEW q \in Request PROVE Entry(q) \in Entries
BY DEF Entry, Entries, Request

\* The steps that change a table.
LEMMA TablesKept ==
    ASSUME AdviceInv,
           \/ \E r \in Reqs : CacheSet(r) \/ LogAnswer(r) \/ LogError(r)
           \/ (\E id \in 0 .. MaxLog : Track(id)) \/ Rebuild \/ NewRate \/ Restart
    PROVE  AdviceInv'
<1>1. TypeOK /\ CacheFits /\ \A r \in Reqs : Fit(req[r]) /\ req[r] \in Request
  BY DEF AdviceInv, Fit
<1>2. ASSUME NEW r \in Reqs, CacheSet(r) PROVE AdviceInv'
  <2> DEFINE q == req[r]
             k == KeyOf(q.key)
             v == [q EXCEPT !.pc = "ready"]
  <2>1. /\ q.pc = "set" /\ cache' = [cache EXCEPT ![k] = q.quote]
        /\ req' = [req EXCEPT ![r] = v]
        /\ UNCHANGED <<row, fx, log, outcome, ran, changes>>
    BY <1>2 DEF CacheSet
  <2>2. k \in Keys /\ k = q.key /\ FitsSize(q.quote, Size(k)) /\ q.quote \in Quotes
    BY <1>1, <2>1, KeyType, QuoteFields DEF Fit, AtHand, KeyOf
  <2>3. Fit(v)
    BY <1>1, <2>1, PlaceChanges
  <2> HIDE DEF v, k
  <2>4. v \in Request
    BY <2>3 DEF Fit
  <2>5. req' \in [Reqs -> Request] /\ \A s \in Reqs : Fit(req'[s])
    BY <1>1, <2>1, <2>3, <2>4 DEF TypeOK
  <2>6. cache' \in [Keys -> Quotes \cup {None}]
    BY <1>1, <2>1, <2>2 DEF TypeOK
  <2>7. CacheFits'
    BY <1>1, <2>1, <2>2 DEF CacheFits, TypeOK
  <2>8. TypeOK'
    BY <1>1, <2>1, <2>5, <2>6 DEF TypeOK
  <2> QED
    BY <2>5, <2>7, <2>8 DEF AdviceInv
<1>3. ASSUME NEW r \in Reqs, LogAnswer(r) \/ LogError(r) PROVE AdviceInv'
  <2> DEFINE q == req[r]
  <2>1. /\ log' = Append(log, Entry(q))
        /\ UNCHANGED <<row, fx, cache, outcome, ran, changes>>
    BY <1>3 DEF LogAnswer, LogError
  <2>2. PICK v : Fit(v) /\ req' = [req EXCEPT ![r] = v]
    <3>1. CASE LogAnswer(r)
      <4>1. req' = [req EXCEPT ![r] = [q EXCEPT !.pc = "done", !.logId = Len(log) + 1]]
        BY <3>1, <1>1 DEF LogAnswer, TypeOK
      <4>2. Len(log) + 1 \in Nat
        BY <1>1 DEF TypeOK
      <4>3. Fit([q EXCEPT !.pc = "done", !.logId = Len(log) + 1])
        BY <1>1, <4>2, PlaceChanges
      <4> QED
        BY <4>1, <4>3
    <3>2. CASE LogError(r)
      <4>1. req' = [req EXCEPT ![r] = [q EXCEPT !.pc = "refused"]]
        BY <3>2, <1>1 DEF LogError, TypeOK
      <4>2. 0 \in Nat
        OBVIOUS
      <4>3. Fit([q EXCEPT !.pc = "refused"])
        BY <1>1, <4>2, PlaceChanges
      <4> QED
        BY <4>1, <4>3
    <3> QED
      BY <1>3, <3>1, <3>2
  <2>3. v \in Request
    BY <2>2 DEF Fit
  <2>4. req' \in [Reqs -> Request] /\ \A s \in Reqs : Fit(req'[s])
    BY <1>1, <2>2, <2>3 DEF TypeOK
  <2>5. log' \in Seq(Entries)
    BY <1>1, <2>1, EntryType DEF TypeOK
  <2>6. CacheFits'
    BY <1>1, <2>1 DEF CacheFits
  <2>7. TypeOK'
    BY <1>1, <2>1, <2>4, <2>5 DEF TypeOK
  <2> QED
    BY <2>4, <2>6, <2>7 DEF AdviceInv
<1>4. ASSUME NEW id \in 0 .. MaxLog, Track(id) PROVE AdviceInv'
  <2>1. /\ outcome' = Append(outcome, id)
        /\ UNCHANGED <<row, fx, cache, log, req, ran, changes>>
    BY <1>4 DEF Track
  <2>2. outcome' \in Seq(Nat)
    BY <1>1, <2>1 DEF TypeOK
  <2>3. TypeOK'
    BY <1>1, <2>1, <2>2 DEF TypeOK
  <2> QED
    BY <1>1, <2>1, <2>3 DEF AdviceInv, CacheFits
<1>5. ASSUME Rebuild PROVE AdviceInv'
  <2>1. PICK a \in Areas, w \in RowValues :
          /\ row' = [row EXCEPT ![a] = w]
          /\ ran' = [ran EXCEPT !.rows = @ \cup {<<a, w>>}]
    BY <1>5 DEF Rebuild
  <2>2. changes' = changes + 1 /\ UNCHANGED <<fx, cache, log, outcome, req>>
    BY <1>5 DEF Rebuild
  <2>3. row' \in [Areas -> RowValues \cup {None}]
    BY <1>1, <2>1 DEF TypeOK
  <2>4. ran' \in [rows : SUBSET (Areas \X (RowValues \cup {None})), rates : SUBSET Rates]
    BY <1>1, <2>1 DEF TypeOK
  <2>5. TypeOK'
    BY <1>1, <2>2, <2>3, <2>4 DEF TypeOK
  <2> QED
    BY <1>1, <2>2, <2>5 DEF AdviceInv, CacheFits
<1>6. ASSUME NewRate PROVE AdviceInv'
  <2>1. PICK rate \in Rates : fx' = rate /\ ran' = [ran EXCEPT !.rates = @ \cup {rate}]
    BY <1>6 DEF NewRate
  <2>2. changes' = changes + 1 /\ UNCHANGED <<row, cache, log, outcome, req>>
    BY <1>6 DEF NewRate
  <2>3. ran' \in [rows : SUBSET (Areas \X (RowValues \cup {None})), rates : SUBSET Rates]
    BY <1>1, <2>1 DEF TypeOK
  <2>4. fx' \in Rates /\ changes' \in Nat
    BY <1>1, <2>1, <2>2 DEF TypeOK
  <2>5. TypeOK'
    BY <1>1, <2>2, <2>3, <2>4 DEF TypeOK
  <2> QED
    BY <1>1, <2>2, <2>5 DEF AdviceInv, CacheFits
<1>7. ASSUME Restart PROVE AdviceInv'
  <2>1. /\ cache' = [k \in Keys |-> None] /\ req' = [r \in Reqs |-> Idle]
        /\ ran' = [rows |-> {<<a, row[a]>> : a \in Areas}, rates |-> {fx}]
        /\ changes' = changes + 1 /\ UNCHANGED <<row, fx, log, outcome>>
    BY <1>7 DEF Restart
  <2>2. ran' \in [rows : SUBSET (Areas \X (RowValues \cup {None})), rates : SUBSET Rates]
    BY <1>1, <2>1 DEF TypeOK
  <2>3. Idle \in Request
    BY IdleFits DEF Fit
  <2>4. req' \in [Reqs -> Request] /\ \A s \in Reqs : Fit(req'[s])
    BY <2>1, <2>3, IdleFits
  <2>5. TypeOK'
    BY <1>1, <2>1, <2>2, <2>4 DEF TypeOK
  <2>6. CacheFits'
    BY <2>1 DEF CacheFits
  <2> QED
    BY <2>4, <2>5, <2>6 DEF AdviceInv
<1> QED
  BY <1>2, <1>3, <1>4, <1>5, <1>6, <1>7

LEMMA AdviceStep == AdviceInv /\ [Next]_vars => AdviceInv'
<1> SUFFICES ASSUME AdviceInv, [Next]_vars PROVE AdviceInv'
  OBVIOUS
<1>1. CASE UNCHANGED vars
  BY <1>1 DEF vars, AdviceInv, TypeOK, CacheFits
<1>2. ASSUME NEW r \in Reqs,
             \/ Ask(r) \/ CacheGet(r) \/ Evaluate(r) \/ ReadRow(r) \/ ReadFx(r) \/ Quoted(r)
      PROVE  AdviceInv'
  <2>1. PICK v : Fit(v) /\ Step(r, v)
    BY <1>2, StepFits
  <2> QED
    BY <2>1, Moves
<1>3. ASSUME NEW r \in Reqs,
             \/ ReadMarket(r) \/ Strategy(r) \/ Suggestion(r) \/ LogFails(r)
             \/ ErrorUnlogged(r) \/ History(r) \/ HistoryOutcomes(r) \/ Export(r)
             \/ ExportJoin(r)
      PROVE  AdviceInv'
  <2>1. PICK v : Fit(v) /\ Step(r, v)
    BY <1>3, MoreStepsFit
  <2> QED
    BY <2>1, Moves
<1> QED
  BY <1>1, <1>2, <1>3, TablesKept DEF Next

LEMMA AdviceInit == Init => AdviceInv
<1> SUFFICES ASSUME Init PROVE AdviceInv
  OBVIOUS
<1>1. Idle \in Request
  BY IdleFits DEF Fit
<1>2. /\ row \in [Areas -> RowValues \cup {None}] /\ fx \in Rates
      /\ cache = [k \in Keys |-> None] /\ log = <<>> /\ outcome = <<>>
      /\ req = [r \in Reqs |-> Idle] /\ changes = 0
      /\ ran = [rows |-> {<<a, row[a]>> : a \in Areas}, rates |-> {fx}]
  BY DEF Init
<1>3. ran \in [rows : SUBSET (Areas \X (RowValues \cup {None})), rates : SUBSET Rates]
  BY <1>2
<1>4. req \in [Reqs -> Request] /\ \A s \in Reqs : Fit(req[s])
  BY <1>1, <1>2, IdleFits
<1>5. TypeOK
  BY <1>2, <1>3, <1>4 DEF TypeOK
<1>6. CacheFits
  BY <1>2 DEF CacheFits
<1> QED
  BY <1>4, <1>5, <1>6 DEF AdviceInv

LEMMA AdviceHolds == Spec => []AdviceInv
BY AdviceInit, AdviceStep, PTL DEF Spec

(* The tables, the cache, both logs and the requests keep their types.      *)
THEOREM TypeCorrect == Spec => []TypeOK
<1>1. AdviceInv => TypeOK
  BY DEF AdviceInv
<1> QED
  BY <1>1, AdviceHolds, PTL

(* What seller, buyer and owner are told agrees, for every row, rate and    *)
(* size and for every sample of the market: a listing offered at a price    *)
(* the advisor suggested is fair by the same row and rate, and the plans of *)
(* a strategy are in order.                                                 *)
THEOREM AdviceIsConsistent == Spec => []AdviceAgrees
<1>1. ASSUME AdviceInv PROVE AdviceAgrees
  <2>1. ASSUME NEW r \in Answered("buyer"), NEW s \in Answered("seller"),
               req[r].key = req[s].key
        PROVE  SuggestionIsFair(req[r], req[s])
    <3>1. r \in Reqs /\ req[r].kind = "buyer" /\ req[r].answer # None
          /\ s \in Reqs /\ req[s].kind = "seller" /\ req[s].answer # None
      BY DEF Answered
    <3>2. AtHand(req[r]) /\ Told(req[r]) /\ AtHand(req[s]) /\ Told(req[s])
      BY <1>1, <3>1 DEF AdviceInv, Fit
    <3>3. req[s].quote # None /\ req[s].key \in Keys
          /\ FitsSize(req[s].quote, Size(req[s].key))
      BY <3>1, <3>2 DEF AtHand, Told
    <3> DEFINE b == Baseline(req[s].quote.row, req[s].quote.fx, Size(req[s].key))
    <3>4. /\ req[s].quote.optimal = Optimal(b) /\ req[s].quote.fast = FastSale(b)
          /\ req[s].quote.row \in RowValues /\ req[s].quote.fx \in Rates
      BY <3>3, KeyType, QuoteFields
    <3>5. b \in Nat
      BY <3>3, <3>4, KeyType, BaselineType
    <3>6. req[r].answer.verdict =
            BuyerVerdict(req[r].ask,
                         Baseline(req[r].answer.row, req[r].answer.fx, Size(req[r].key)))
      BY <3>1, <3>2 DEF Told
    <3>7. SUFFICES ASSUME req[r].answer.row = req[s].quote.row,
                          req[r].answer.fx = req[s].quote.fx,
                          req[r].ask \in {req[s].quote.optimal, req[s].quote.fast}
                   PROVE  req[r].answer.verdict = "fair"
      BY DEF SuggestionIsFair
    <3>8. req[r].answer.verdict = BuyerVerdict(req[r].ask, b)
      BY <2>1, <3>6, <3>7
    <3>9. req[r].ask \in {Optimal(b), FastSale(b)}
      BY <3>4, <3>7
    <3> HIDE DEF b
    <3> QED
      BY <3>5, <3>8, <3>9, FairAtItsPrice
  <2>2. ASSUME NEW r \in Answered("strategy") PROVE PlansOrdered(req[r].answer)
    BY <1>1, <2>2 DEF Answered, AdviceInv, Fit, Told
  <2> QED
    BY <2>1, <2>2 DEF AdviceAgrees
<1> QED
  BY <1>1, AdviceHolds, PTL

-----------------------------------------------------------------------------
(* Where quotes come from.  A quote that fits stays what it is: the rows    *)
(* and rates of this life only grow, and a restart forgets every quote.     *)

\* While the process lives, a request's quote is kept, taken from the cache
\* under its own key, or computed from the row it read; and so is the cache's.
LEMMA QuoteStep == AdviceInv /\ QuoteInv /\ [Next]_vars => QuoteInv'
<1> SUFFICES ASSUME AdviceInv, QuoteInv, [Next]_vars PROVE QuoteInv'
  OBVIOUS
<1> DEFINE Of(life, x, k) == /\ <<Area(k), x.row>> \in life.rows /\ x.fx \in life.rates
                             /\ x = Quote(x.row, x.fx, Size(k))
           Comes(life, q) ==
             /\ q.pc \in {"set", "ready"} \/ q.quote # None => Of(life, q.quote, q.key)
             /\ q.pc = "fx" => <<Area(q.key), q.row>> \in life.rows
<1>1. TypeOK /\ CacheFits /\ Current
      /\ \A r \in Reqs : Comes(ran, req[r]) /\ AtHand(req[r]) /\ req[r] \in Request
  BY DEF AdviceInv, QuoteInv, Genuine, Fit
<1>2. \A k \in Keys : cache[k] # None => Of(ran, cache[k], k)
  BY DEF QuoteInv, Genuine
<1>3. SUFFICES /\ Current'
               /\ \A k \in Keys : cache'[k] # None => Of(ran', cache'[k], k)
               /\ \A r \in Reqs : Comes(ran', req'[r])
  BY DEF QuoteInv, Genuine
<1> HIDE DEF Of
\* A request that moves and leaves the tables alone.
<1>4. ASSUME NEW r \in Reqs, NEW v, Step(r, v), Comes(ran, v)
      PROVE  /\ Current'
             /\ \A k \in Keys : cache'[k] # None => Of(ran', cache'[k], k)
             /\ \A s \in Reqs : Comes(ran', req'[s])
  <2>1. req' = [req EXCEPT ![r] = v] /\ row' = row /\ fx' = fx /\ cache' = cache /\ ran' = ran
    BY <1>4 DEF Step
  <2>2. \A s \in Reqs : req'[s] = IF s = r THEN v ELSE req[s]
    BY <1>1, <2>1 DEF TypeOK
  <2>3. \A s \in Reqs : Comes(ran, req'[s])
    BY <1>1, <1>4, <2>2
  <2> HIDE DEF Comes
  <2> QED
    BY <1>1, <1>2, <2>1, <2>3 DEF Current
<1>5. ASSUME NEW r \in Reqs, NEW v, Step(r, v), v.pc \notin {"set", "ready", "fx"},
             v.quote = None \/ (v.quote = req[r].quote /\ v.key = req[r].key)
      PROVE  Comes(ran, v)
  BY <1>1, <1>5
<1>6. ASSUME NEW r \in Reqs,
             Ask(r) \/ Evaluate(r) \/ ReadRow(r) \/ ReadFx(r) \/ CacheGet(r) \/ Quoted(r)
      PROVE  \E v : Step(r, v) /\ Comes(ran, v)
  <2> DEFINE q == req[r]
  <2>1. CASE Ask(r)
    <3>1. PICK k \in Keys, o \in Owners, kind \in Seller :
            Step(r, [Idle EXCEPT !.pc = "cache", !.kind = kind, !.owner = o, !.key = k])
      BY <2>1 DEF Ask
    <3> DEFINE v == [Idle EXCEPT !.pc = "cache", !.kind = kind, !.owner = o, !.key = k]
    <3>2. v.pc = "cache" /\ v.quote = None
      BY DEF Idle
    <3> HIDE DEF v
    <3> QED
      BY <1>5, <3>1, <3>2 DEF v
  <2>2. CASE Evaluate(r)
    <3>1. PICK s, o, ask :
            Step(r, [Idle EXCEPT !.pc = "row", !.kind = "buyer", !.owner = o,
                                 !.key = req[s].key, !.ask = ask])
      BY <2>2 DEF Evaluate
    <3> DEFINE v == [Idle EXCEPT !.pc = "row", !.kind = "buyer", !.owner = o,
                                 !.key = req[s].key, !.ask = ask]
    <3>2. v.pc = "row" /\ v.quote = None
      BY DEF Idle
    <3> HIDE DEF v
    <3> QED
      BY <1>5, <3>1, <3>2 DEF v
  <2>3. CASE ReadRow(r)
    <3> DEFINE v == [q EXCEPT !.pc = "failed"]
               w == [q EXCEPT !.pc = "fx", !.row = row[Area(q.key)]]
    <3>1. q.pc = "row" /\ (Step(r, v) \/ Step(r, w))
      BY <2>3 DEF ReadRow, Refused
    <3>2. v.pc = "failed" /\ v.quote = q.quote /\ v.key = q.key
      BY <1>1 DEF Request
    <3>3. w.pc = "fx" /\ w.quote = q.quote /\ w.key = q.key /\ w.row = row[Area(q.key)]
      BY <1>1 DEF Request
    <3>4. <<Area(q.key), row[Area(q.key)]>> \in ran.rows
      BY <1>1, <3>1, KeyType DEF AtHand, Current
    <3> HIDE DEF v, w
    <3>5. Comes(ran, w)
      BY <1>1, <3>3, <3>4
    <3> QED
      BY <1>5, <3>1, <3>2, <3>5
  <2>4. CASE ReadFx(r)
    <3> DEFINE v == [q EXCEPT !.pc = "failed"]
               w == [q EXCEPT !.pc = "log", !.answer = Verdict(q)]
               new == Quote(q.row, fx, Size(q.key))
               u == [q EXCEPT !.pc = "set", !.quote = new]
    <3>1. q.pc = "fx" /\ (Step(r, v) \/ Step(r, w) \/ Step(r, u))
      BY <2>4 DEF ReadFx, Refused
    <3>2. v.pc = "failed" /\ v.quote = q.quote /\ v.key = q.key
          /\ w.pc = "log" /\ w.quote = q.quote /\ w.key = q.key
      BY <1>1 DEF Request
    <3>3. u.pc = "set" /\ u.quote = new /\ u.key = q.key
      BY <1>1 DEF Request
    <3>4. new.row = q.row /\ new.fx = fx
      BY DEF Quote
    <3>5. Of(ran, new, q.key)
      BY <1>1, <3>1, <3>4 DEF Of, Current
    <3> HIDE DEF v, w, u, new
    <3>6. Comes(ran, u)
      BY <3>3, <3>5
    <3> QED
      BY <1>5, <3>1, <3>2, <3>6
  <2>5. CASE CacheGet(r)
    <3> DEFINE hit == cache[KeyOf(q.key)]
               v == [q EXCEPT !.pc = "ready", !.quote = hit]
               w == [q EXCEPT !.pc = "row", !.met = Computing(q.key) # {}]
    <3>1. q.pc = "cache" /\ ((hit # None /\ Step(r, v)) \/ Step(r, w))
      BY <2>5 DEF CacheGet, Hit
    <3>2. v.pc = "ready" /\ v.quote = hit /\ v.key = q.key
      BY <1>1 DEF Request
    <3>3. w.pc = "row" /\ w.quote = q.quote /\ w.key = q.key
      BY <1>1 DEF Request
    <3>4. hit # None => Of(ran, hit, q.key)
      BY <1>1, <1>2, <3>1 DEF AtHand, KeyOf
    <3> HIDE DEF v, w, hit
    <3>5. hit # None => Comes(ran, v)
      BY <3>2, <3>4
    <3> QED
      BY <1>5, <3>1, <3>3, <3>5
  <2>6. CASE Quoted(r)
    <3> DEFINE v == [q EXCEPT !.pc = "log", !.answer = q.quote]
    <3>1. Step(r, v)
      BY <2>6 DEF Quoted
    <3>2. v.pc = "log" /\ v.quote = q.quote /\ v.key = q.key
      BY <1>1 DEF Request
    <3> HIDE DEF v
    <3> QED
      BY <1>5, <3>1, <3>2
  <2> QED
    BY <1>6, <2>1, <2>2, <2>3, <2>4, <2>5, <2>6
<1>7. ASSUME NEW r \in Reqs,
             \/ ReadMarket(r) \/ Strategy(r) \/ Suggestion(r) \/ LogFails(r)
             \/ ErrorUnlogged(r) \/ History(r) \/ HistoryOutcomes(r) \/ Export(r)
             \/ ExportJoin(r)
      PROVE  \E v : Step(r, v) /\ Comes(ran, v)
  <2> DEFINE q == req[r]
  <2>1. CASE ReadMarket(r)
    <3>1. PICK S : Step(r, [q EXCEPT !.market = S])
      BY <2>1 DEF ReadMarket
    <3> DEFINE v == [q EXCEPT !.market = S]
    <3>2. v.pc = q.pc /\ v.quote = q.quote /\ v.key = q.key /\ v.row = q.row
      BY <1>1 DEF Request
    <3> HIDE DEF v
    <3>3. Comes(ran, v)
      BY <1>1, <3>2
    <3> QED
      BY <3>1, <3>3 DEF v
  <2>2. CASE Strategy(r) \/ Suggestion(r) \/ LogFails(r) \/ ErrorUnlogged(r)
    <3>1. PICK pc \in {"refused", "log", "done"} :
             \/ Step(r, [q EXCEPT !.pc = pc])
             \/ \E a : Step(r, [q EXCEPT !.pc = pc, !.answer = a])
      BY <2>2 DEF Strategy, Suggestion, LogFails, ErrorUnlogged
    <3>2. CASE Step(r, [q EXCEPT !.pc = pc])
      <4> DEFINE v == [q EXCEPT !.pc = pc]
      <4>1. v.pc = pc /\ v.quote = q.quote /\ v.key = q.key
        BY <1>1 DEF Request
      <4> HIDE DEF v
      <4> QED
        BY <1>5, <3>2, <4>1 DEF v
    <3>3. CASE \E a : Step(r, [q EXCEPT !.pc = pc, !.answer = a])
      <4>1. PICK a : Step(r, [q EXCEPT !.pc = pc, !.answer = a])
        BY <3>3
      <4> DEFINE v == [q EXCEPT !.pc = pc, !.answer = a]
      <4>2. v.pc = pc /\ v.quote = q.quote /\ v.key = q.key
        BY <1>1 DEF Request
      <4> HIDE DEF v
      <4> QED
        BY <1>5, <4>1, <4>2 DEF v
    <3> QED
      BY <3>1, <3>2, <3>3
  <2>3. CASE History(r)
    <3>1. PICK o \in Owners :
            Step(r, [Idle EXCEPT !.pc = "outcomes", !.kind = "history", !.owner = o,
                                 !.seen = LinesOf(o), !.known = Len(outcome)])
      BY <2>3 DEF History
    <3> DEFINE v == [Idle EXCEPT !.pc = "outcomes", !.kind = "history", !.owner = o,
                                 !.seen = LinesOf(o), !.known = Len(outcome)]
    <3>2. v.pc = "outcomes" /\ v.quote = None
      BY DEF Idle
    <3> HIDE DEF v
    <3> QED
      BY <1>5, <3>1, <3>2 DEF v
  <2>4. CASE HistoryOutcomes(r)
    <3> DEFINE v == [q EXCEPT !.pc = "done", !.shown = {<<i, Latest(i)>> : i \in q.seen}]
    <3>1. Step(r, v)
      BY <2>4 DEF HistoryOutcomes
    <3>2. v.pc = "done" /\ v.quote = q.quote /\ v.key = q.key
      BY <1>1 DEF Request
    <3> HIDE DEF v
    <3> QED
      BY <1>5, <3>1, <3>2
  <2>5. CASE Export(r)
    <3> DEFINE v == [Idle EXCEPT !.pc = "outcomes", !.kind = "exportLines",
                                 !.seen = DOMAIN log, !.known = Len(outcome)]
               all == {<<outcome[j], j>> : j \in DOMAIN outcome}
               w == [Idle EXCEPT !.pc = "lines", !.kind = "export", !.known = Len(outcome),
                                 !.shown = all]
    <3>1. Step(r, v) \/ Step(r, w)
      BY <2>5 DEF Export
    <3> HIDE DEF all
    <3>2. v.pc = "outcomes" /\ v.quote = None /\ w.pc = "lines" /\ w.quote = None
      BY DEF Idle
    <3> HIDE DEF v, w
    <3> QED
      BY <1>5, <3>1, <3>2
  <2>6. CASE ExportJoin(r)
    <3> DEFINE some == {<<outcome[j], j>> :
                          j \in {k \in DOMAIN outcome : outcome[k] \in q.seen}}
               v == [q EXCEPT !.pc = "done", !.kind = "export", !.shown = some]
               rest == {x \in q.shown : x[1] \in DOMAIN log}
               w == [q EXCEPT !.pc = "done", !.seen = DOMAIN log, !.shown = rest]
    <3>1. Step(r, v) \/ Step(r, w)
      BY <2>6 DEF ExportJoin
    <3> HIDE DEF some, rest
    <3>2. v.pc = "done" /\ v.quote = q.quote /\ v.key = q.key
          /\ w.pc = "done" /\ w.quote = q.quote /\ w.key = q.key
      BY <1>1 DEF Request
    <3> HIDE DEF v, w
    <3> QED
      BY <1>5, <3>1, <3>2
  <2> QED
    BY <1>7, <2>1, <2>2, <2>3, <2>4, <2>5, <2>6
\* The steps that change a table.
<1>8. ASSUME NEW life, ran.rows \subseteq life.rows, ran.rates \subseteq life.rates
      PROVE  /\ \A k \in Keys : cache[k] # None => Of(life, cache[k], k)
             /\ \A r \in Reqs : Comes(life, req[r])
  BY <1>1, <1>2, <1>8 DEF Of
<1>9. ASSUME NEW r \in Reqs, CacheSet(r)
      PROVE  /\ Current'
             /\ \A k \in Keys : cache'[k] # None => Of(ran', cache'[k], k)
             /\ \A s \in Reqs : Comes(ran', req'[s])
  <2> DEFINE q == req[r]
             v == [q EXCEPT !.pc = "ready"]
  <2>1. /\ q.pc = "set" /\ cache' = [cache EXCEPT ![q.key] = q.quote]
        /\ req' = [req EXCEPT ![r] = v]
        /\ row' = row /\ fx' = fx /\ ran' = ran
    BY <1>9 DEF CacheSet, KeyOf
  <2>2. Of(ran, q.quote, q.key)
    BY <1>1, <2>1
  <2>3. v.pc = "ready" /\ v.quote = q.quote /\ v.key = q.key
    BY <1>1 DEF Request
  <2> HIDE DEF v
  <2>4. Comes(ran, v)
    BY <2>2, <2>3
  <2>5. \A s \in Reqs : req'[s] = IF s = r THEN v ELSE req[s]
    BY <1>1, <2>1 DEF TypeOK
  <2>6. \A k \in Keys : cache'[k] = IF k = q.key THEN q.quote ELSE cache[k]
    BY <1>1, <2>1 DEF TypeOK
  <2>7. \A s \in Reqs : Comes(ran, req'[s])
    BY <1>1, <2>4, <2>5
  <2>8. \A k \in Keys : cache'[k] # None => Of(ran, cache'[k], k)
    BY <1>2, <2>2, <2>6
  <2> HIDE DEF Comes
  <2> QED
    BY <1>1, <2>1, <2>7, <2>8 DEF Current
<1>10. ASSUME NEW r \in Reqs, LogAnswer(r) \/ LogError(r)
       PROVE  /\ Current'
              /\ \A k \in Keys : cache'[k] # None => Of(ran', cache'[k], k)
              /\ \A s \in Reqs : Comes(ran', req'[s])
  <2> DEFINE q == req[r]
  <2>1. row' = row /\ fx' = fx /\ ran' = ran /\ cache' = cache
    BY <1>10 DEF LogAnswer, LogError
  <2>2. \E pc \in {"done", "refused"} :
           \E id : req' = [req EXCEPT ![r] = [q EXCEPT !.pc = pc, !.logId = id]]
    <3>1. CASE LogAnswer(r)
      <4>1. req' = [req EXCEPT ![r] = [q EXCEPT !.pc = "done", !.logId = Len(log) + 1]]
        BY <1>1, <3>1 DEF LogAnswer, TypeOK
      <4> QED
        BY <4>1
    <3>2. CASE LogError(r)
      <4>1. req' = [req EXCEPT ![r] = [q EXCEPT !.pc = "refused"]]
        BY <1>1, <3>2 DEF LogError, TypeOK
      <4>2. [q EXCEPT !.pc = "refused"] = [q EXCEPT !.pc = "refused", !.logId = q.logId]
        BY <1>1 DEF Request
      <4> QED
        BY <4>1, <4>2
    <3> QED
      BY <1>10, <3>1, <3>2
  <2>10. PICK pc \in {"done", "refused"} :
            \E id : req' = [req EXCEPT ![r] = [q EXCEPT !.pc = pc, !.logId = id]]
    BY <2>2
  <2>11. PICK id : req' = [req EXCEPT ![r] = [q EXCEPT !.pc = pc, !.logId = id]]
    BY <2>10
  <2> DEFINE v == [q EXCEPT !.pc = pc, !.logId = id]
  <2>3. v.pc = pc /\ v.quote = q.quote /\ v.key = q.key
    BY <1>1 DEF Request
  <2>4. req' = [req EXCEPT ![r] = v]
    BY <2>11
  <2> HIDE DEF v
  <2>5. \A s \in Reqs : req'[s] = IF s = r THEN v ELSE req[s]
    BY <1>1, <2>4 DEF TypeOK
  <2>6. Comes(ran, v)
    BY <1>1, <2>3
  <2>7. \A s \in Reqs : Comes(ran, req'[s])
    BY <1>1, <2>5, <2>6
  <2> HIDE DEF Comes
  <2> QED
    BY <1>1, <1>2, <2>1, <2>7 DEF Current
<1>11. ASSUME Rebuild \/ NewRate
       PROVE  /\ Current'
              /\ \A k \in Keys : cache'[k] # None => Of(ran', cache'[k], k)
              /\ \A s \in Reqs : Comes(ran', req'[s])
  <2>1. cache' = cache /\ req' = req
    BY <1>11 DEF Rebuild, NewRate
  <2>2. ran.rows \subseteq ran'.rows /\ ran.rates \subseteq ran'.rates /\ Current'
    <3>1. CASE Rebuild
      <4>1. PICK a \in Areas, w \in RowValues :
              row' = [row EXCEPT ![a] = w] /\ ran' = [ran EXCEPT !.rows = @ \cup {<<a, w>>}]
        BY <3>1 DEF Rebuild
      <4>2. fx' = fx
        BY <3>1 DEF Rebuild
      <4>3. ran'.rows = ran.rows \cup {<<a, w>>} /\ ran'.rates = ran.rates
        BY <1>1, <4>1 DEF TypeOK
      <4>4. \A b \in Areas : row'[b] = IF b = a THEN w ELSE row[b]
        BY <1>1, <4>1 DEF TypeOK
      <4> QED
        BY <1>1, <4>2, <4>3, <4>4 DEF Current
    <3>2. CASE NewRate
      <4>1. PICK rate \in Rates : fx' = rate /\ ran' = [ran EXCEPT !.rates = @ \cup {rate}]
        BY <3>2 DEF NewRate
      <4>2. row' = row
        BY <3>2 DEF NewRate
      <4>3. ran'.rows = ran.rows /\ ran'.rates = ran.rates \cup {rate}
        BY <1>1, <4>1 DEF TypeOK
      <4> QED
        BY <1>1, <4>1, <4>2, <4>3 DEF Current
    <3> QED
      BY <1>11, <3>1, <3>2
  <2> HIDE DEF Comes
  <2> QED
    BY <1>8, <2>1, <2>2
<1>12. ASSUME Restart
       PROVE  /\ Current'
              /\ \A k \in Keys : cache'[k] # None => Of(ran', cache'[k], k)
              /\ \A s \in Reqs : Comes(ran', req'[s])
  <2>1. /\ cache' = [k \in Keys |-> None] /\ req' = [r \in Reqs |-> Idle]
        /\ ran' = [rows |-> {<<a, row[a]>> : a \in Areas}, rates |-> {fx}]
        /\ row' = row /\ fx' = fx
    BY <1>12 DEF Restart
  <2>2. \A s \in Reqs : req'[s].pc = "idle" /\ req'[s].quote = None
    BY <2>1 DEF Idle
  <2> QED
    BY <2>1, <2>2 DEF Current
<1>13. CASE UNCHANGED vars \/ \E id \in 0 .. MaxLog : Track(id)
  <2>1. row' = row /\ fx' = fx /\ ran' = ran /\ cache' = cache /\ req' = req
    BY <1>13 DEF vars, Track
  <2> HIDE DEF Comes
  <2> QED
    BY <1>1, <1>2, <2>1 DEF Current
<1> HIDE DEF Comes
<1> QED
  BY <1>4, <1>6, <1>7, <1>9, <1>10, <1>11, <1>12, <1>13 DEF Next

LEMMA QuoteHolds == Spec => []QuoteInv
<1>1. ASSUME Init PROVE QuoteInv
  <2>1. /\ cache = [k \in Keys |-> None] /\ req = [r \in Reqs |-> Idle]
        /\ ran = [rows |-> {<<a, row[a]>> : a \in Areas}, rates |-> {fx}]
    BY <1>1 DEF Init
  <2>2. \A s \in Reqs : req[s].pc = "idle" /\ req[s].quote = None
    BY <2>1 DEF Idle
  <2> QED
    BY <2>1, <2>2 DEF QuoteInv, Current
<1> QED
  BY <1>1, QuoteStep, AdviceHolds, PTL DEF Spec

(* Every quote that is cached or answered is its own property's, from a row *)
(* and a rate of this life of the process, however requests, rebuilds, new  *)
(* rates and restarts interleave.                                           *)
THEOREM QuotesAreTheirKeys == Spec => []QuoteFitsKey
<1>1. QuoteInv => QuoteFitsKey
  BY DEF QuoteInv, QuoteFitsKey
<1> QED
  BY <1>1, QuoteHolds, PTL

-----------------------------------------------------------------------------
(* One price per key.  As long as no two computed the price of a key at the *)
(* same time, at most one computes it, none while it is cached, and whoever *)
(* has a quote has the one that is cached.                                  *)
Single(k) ==
    /\ \A r, s \in Computing(k) : r = s
    /\ Computing(k) # {} => cache[k] = None
    /\ \A r \in Reqs : Asks(r, k) /\ req[r].quote # None /\ req[r].pc # "set"
                       => req[r].quote = cache[k]
OneInv ==
    /\ \A r \in Reqs : req[r].pc \in {"idle", "cache"} => req[r].quote = None /\ ~req[r].met
    /\ \A k \in Keys : Contested(k) \/ Single(k)

(* What a request does besides reading and writing the cache: it begins, or *)
(* goes on with the key and the quote it has, or gets a quote of its own.   *)
Computes(q) == q.pc \in {"row", "fx", "set"}
Calm(q, v) ==
    /\ v.pc # "idle"
    /\ \/ /\ q.pc = "idle"
          /\ \/ v.kind \notin Seller /\ v.pc # "cache"
             \/ v.pc = "cache" /\ v.quote = None /\ ~v.met
       \/ /\ q.pc # "idle" /\ v.key = q.key /\ v.met = q.met
          /\ v.kind = q.kind \/ {v.kind, q.kind} \cap Seller = {}
          /\ Computes(v) => Computes(q)
          /\ v.pc = "cache" => q.pc = "cache"
          /\ v.pc # "set" => v.quote = q.quote /\ q.pc # "set"

LEMMA CalmKeeps ==
    ASSUME OneInv, req \in [Reqs -> Request], NEW r \in Reqs, NEW v,
           req' = [req EXCEPT ![r] = v], cache' = cache, Calm(req[r], v)
    PROVE  OneInv'
<1> DEFINE q == req[r]
<1>1. \A s \in Reqs : req'[s] = IF s = r THEN v ELSE req[s]
  OBVIOUS
<1>2. \A s \in Reqs : req'[s].pc \in {"idle", "cache"}
                      => req'[s].quote = None /\ ~req'[s].met
  BY <1>1 DEF OneInv, Calm
<1>3. ASSUME NEW k \in Keys PROVE Contested(k)' \/ Single(k)'
  <2>1. CASE Contested(k)
    <3>1. PICK s \in Reqs : Asks(s, k) /\ req[s].met
      BY <2>1 DEF Contested
    <3>2. req'[s].kind \in Seller /\ req'[s].key = k /\ req'[s].met
      <4>1. CASE s = r
        <5>1. q.pc # "idle"
          BY <3>1, <4>1 DEF OneInv
        <5> QED
          BY <1>1, <3>1, <4>1, <5>1 DEF Calm, Asks
      <4>2. CASE s # r
        BY <1>1, <3>1, <4>2 DEF Asks
      <4> QED
        BY <4>1, <4>2
    <3> QED
      BY <3>2 DEF Contested, Asks
  <2>2. CASE Single(k)
    <3>1. Computing(k)' \subseteq Computing(k)
      <4>1. SUFFICES ASSUME NEW s \in Reqs, req'[s].kind \in Seller, req'[s].key = k,
                            Computes(req'[s])
                     PROVE  req[s].kind \in Seller /\ req[s].key = k /\ Computes(req[s])
        BY DEF Computing, Asks, Computes
      <4> QED
        BY <1>1, <4>1 DEF Calm, Computes
    <3>2. \A s, t \in Computing(k)' : s = t
      BY <2>2, <3>1 DEF Single
    <3>3. Computing(k)' # {} => cache'[k] = None
      BY <2>2, <3>1 DEF Single
    <3>4. ASSUME NEW s \in Reqs, Asks(s, k)', req'[s].quote # None, req'[s].pc # "set"
          PROVE  req'[s].quote = cache'[k]
      <4>1. req'[s].kind \in Seller /\ req'[s].key = k
        BY <3>4 DEF Asks
      <4>2. /\ req[s].kind \in Seller /\ req[s].key = k /\ req[s].pc # "set"
            /\ req[s].quote = req'[s].quote
        BY <1>1, <3>4, <4>1 DEF Calm
      <4> QED
        BY <2>2, <3>4, <4>2 DEF Single, Asks
    <3> QED
      BY <3>2, <3>3, <3>4 DEF Single
  <2> QED
    BY <2>1, <2>2 DEF OneInv
<1> QED
  BY <1>2, <1>3 DEF OneInv

\* The steps that neither read nor write the cache.
LEMMA CalmSteps ==
    ASSUME AdviceInv, NEW r \in Reqs,
           \/ Ask(r) \/ Evaluate(r) \/ ReadRow(r) \/ ReadFx(r) \/ Quoted(r)
           \/ ReadMarket(r) \/ Strategy(r) \/ Suggestion(r) \/ LogFails(r)
           \/ ErrorUnlogged(r) \/ History(r) \/ HistoryOutcomes(r) \/ Export(r)
           \/ ExportJoin(r) \/ LogAnswer(r) \/ LogError(r)
    PROVE  /\ \E v : req' = [req EXCEPT ![r] = v] /\ Calm(req[r], v)
           /\ cache' = cache
<1> DEFINE q == req[r]
<1>1. req \in [Reqs -> Request] /\ q \in Request /\ AtHand(q)
  BY DEF AdviceInv, TypeOK, Fit
<1>2. \A v : Step(r, v) => req' = [req EXCEPT ![r] = v] /\ cache' = cache
  BY DEF Step
<1>3. ASSUME NEW v, v.pc \notin {"idle", "cache", "row", "fx", "set"}, q.pc \notin {"idle", "set"},
             v.key = q.key, v.met = q.met, v.kind = q.kind, v.quote = q.quote
      PROVE  Calm(q, v)
  BY <1>3 DEF Calm, Computes
<1>4. CASE Ask(r)
  <2>1. PICK k \in Keys, o \in Owners, kind \in Seller :
          Step(r, [Idle EXCEPT !.pc = "cache", !.kind = kind, !.owner = o, !.key = k])
    BY <1>4 DEF Ask
  <2> DEFINE v == [Idle EXCEPT !.pc = "cache", !.kind = kind, !.owner = o, !.key = k]
  <2>2. v.pc = "cache" /\ v.quote = None /\ ~v.met /\ q.pc = "idle"
    BY <1>4 DEF Idle, Ask
  <2> HIDE DEF v
  <2> QED
    BY <1>2, <2>1, <2>2 DEF v, Calm
<1>5. CASE Evaluate(r)
  <2>1. PICK s, o, ask :
          Step(r, [Idle EXCEPT !.pc = "row", !.kind = "buyer", !.owner = o,
                               !.key = req[s].key, !.ask = ask])
    BY <1>5 DEF Evaluate
  <2> DEFINE v == [Idle EXCEPT !.pc = "row", !.kind = "buyer", !.owner = o,
                               !.key = req[s].key, !.ask = ask]
  <2>2. v.pc = "row" /\ v.kind = "buyer" /\ q.pc = "idle"
    BY <1>5 DEF Idle, Evaluate
  <2> HIDE DEF v
  <2>3. Calm(q, v)
    BY <2>2, Words DEF Calm
  <2> QED
    BY <1>2, <2>1, <2>3 DEF v
<1>6. CASE ReadRow(r)
  <2> DEFINE v == [q EXCEPT !.pc = "failed"]
             w == [q EXCEPT !.pc = "fx", !.row = row[Area(q.key)]]
  <2>1. q.pc = "row" /\ (Step(r, v) \/ Step(r, w))
    BY <1>6 DEF ReadRow, Refused
  <2>2. /\ v.pc = "failed" /\ v.quote = q.quote /\ v.key = q.key /\ v.kind = q.kind
        /\ v.met = q.met
        /\ w.pc = "fx" /\ w.quote = q.quote /\ w.key = q.key /\ w.kind = q.kind
        /\ w.met = q.met
    BY <1>1 DEF Request
  <2> HIDE DEF v, w
  <2>3. Calm(q, v) /\ Calm(q, w)
    BY <2>1, <2>2 DEF Calm, Computes
  <2> QED
    BY <1>2, <2>1, <2>3
<1>7. CASE ReadFx(r)
  <2> DEFINE v == [q EXCEPT !.pc = "failed"]
             w == [q EXCEPT !.pc = "log", !.answer = Verdict(q)]
             new == Quote(q.row, fx, Size(q.key))
             u == [q EXCEPT !.pc = "set", !.quote = new]
  <2>1. q.pc = "fx" /\ (Step(r, v) \/ Step(r, w) \/ Step(r, u))
    BY <1>7 DEF ReadFx, Refused
  <2>2. /\ v.pc = "failed" /\ v.quote = q.quote /\ v.key = q.key /\ v.kind = q.kind
        /\ v.met = q.met
        /\ w.pc = "log" /\ w.quote = q.quote /\ w.key = q.key /\ w.kind = q.kind
        /\ w.met = q.met
    BY <1>1 DEF Request
  <2>3. u.pc = "set" /\ u.key = q.key /\ u.kind = q.kind /\ u.met = q.met
    BY <1>1 DEF Request
  <2> HIDE DEF v, w, u
  <2>4. Calm(q, v) /\ Calm(q, w) /\ Calm(q, u)
    BY <2>1, <2>2, <2>3 DEF Calm, Computes
  <2> QED
    BY <1>2, <2>1, <2>4
<1>8. CASE Quoted(r)
  <2> DEFINE v == [q EXCEPT !.pc = "log", !.answer = q.quote]
  <2>1. Step(r, v) /\ q.pc = "ready"
    BY <1>8 DEF Quoted
  <2>2. v.pc = "log" /\ v.quote = q.quote /\ v.key = q.key /\ v.kind = q.kind /\ v.met = q.met
    BY <1>1 DEF Request
  <2> HIDE DEF v
  <2> QED
    BY <1>2, <1>3, <2>1, <2>2
<1>9. CASE ReadMarket(r)
  <2>1. PICK S : Step(r, [q EXCEPT !.market = S])
    BY <1>9 DEF ReadMarket
  <2> DEFINE v == [q EXCEPT !.market = S]
  <2>2. v.pc = q.pc /\ v.quote = q.quote /\ v.key = q.key /\ v.kind = q.kind /\ v.met = q.met
    BY <1>1 DEF Request
  <2>3. q.pc # "idle"
    BY <1>9 DEF ReadMarket
  <2> HIDE DEF v
  <2>4. Calm(q, v)
    BY <2>2, <2>3 DEF Calm, Computes
  <2> QED
    BY <1>2, <2>1, <2>4 DEF v
<1>10. CASE Strategy(r) \/ Suggestion(r) \/ LogFails(r) \/ ErrorUnlogged(r)
  <2>1. PICK pc \in {"refused", "log", "done"} :
           \/ Step(r, [q EXCEPT !.pc = pc])
           \/ \E a : Step(r, [q EXCEPT !.pc = pc, !.answer = a])
    BY <1>10 DEF Strategy, Suggestion, LogFails, ErrorUnlogged
  <2>2. q.pc \notin {"idle", "set"}
    BY <1>10 DEF Strategy, Suggestion, LogFails, ErrorUnlogged
  <2>3. PICK a : \/ Step(r, [q EXCEPT !.pc = pc])
                 \/ Step(r, [q EXCEPT !.pc = pc, !.answer = a])
    BY <2>1
  <2> DEFINE v == [q EXCEPT !.pc = pc]
             w == [q EXCEPT !.pc = pc, !.answer = a]
  <2>4. /\ v.pc = pc /\ v.quote = q.quote /\ v.key = q.key /\ v.kind = q.kind
        /\ v.met = q.met
        /\ w.pc = pc /\ w.quote = q.quote /\ w.key = q.key /\ w.kind = q.kind
        /\ w.met = q.met
    BY <1>1 DEF Request
  <2> HIDE DEF v, w
  <2>5. Calm(q, v) /\ Calm(q, w)
    BY <1>3, <2>2, <2>4
  <2> QED
    BY <1>2, <2>3, <2>5 DEF v, w
<1>11. CASE History(r)
  <2>1. PICK o \in Owners :
          Step(r, [Idle EXCEPT !.pc = "outcomes", !.kind = "history", !.owner = o,
                               !.seen = LinesOf(o), !.known = Len(outcome)])
    BY <1>11 DEF History
  <2> DEFINE v == [Idle EXCEPT !.pc = "outcomes", !.kind = "history", !.owner = o,
                               !.seen = LinesOf(o), !.known = Len(outcome)]
  <2>2. v.pc = "outcomes" /\ v.kind = "history" /\ q.pc = "idle"
    BY <1>11 DEF Idle, History
  <2> HIDE DEF v
  <2>3. Calm(q, v)
    BY <2>2, Words DEF Calm
  <2> QED
    BY <1>2, <2>1, <2>3 DEF v
<1>12. CASE HistoryOutcomes(r)
  <2> DEFINE v == [q EXCEPT !.pc = "done", !.shown = {<<i, Latest(i)>> : i \in q.seen}]
  <2>1. Step(r, v) /\ q.pc = "outcomes"
    BY <1>12 DEF HistoryOutcomes
  <2>2. v.pc = "done" /\ v.quote = q.quote /\ v.key = q.key /\ v.kind = q.kind
        /\ v.met = q.met
    BY <1>1 DEF Request
  <2> HIDE DEF v
  <2> QED
    BY <1>2, <1>3, <2>1, <2>2
<1>13. CASE Export(r)
  <2> DEFINE v == [Idle EXCEPT !.pc = "outcomes", !.kind = "exportLines",
                               !.seen = DOMAIN log, !.known = Len(outcome)]
             all == {<<outcome[j], j>> : j \in DOMAIN outcome}
             w == [Idle EXCEPT !.pc = "lines", !.kind = "export", !.known = Len(outcome),
                               !.shown = all]
  <2>1. (Step(r, v) \/ Step(r, w)) /\ q.pc = "idle"
    BY <1>13 DEF Export
  <2> HIDE DEF all
  <2>2. v.pc = "outcomes" /\ v.kind = "exportLines" /\ w.pc = "lines" /\ w.kind = "export"
    BY DEF Idle
  <2> HIDE DEF v, w
  <2>3. Calm(q, v) /\ Calm(q, w)
    BY <2>1, <2>2, Words DEF Calm
  <2> QED
    BY <1>2, <2>1, <2>3
<1>14. CASE ExportJoin(r)
  <2> DEFINE some == {<<outcome[j], j>> :
                        j \in {k \in DOMAIN outcome : outcome[k] \in q.seen}}
             v == [q EXCEPT !.pc = "done", !.kind = "export", !.shown = some]
             rest == {x \in q.shown : x[1] \in DOMAIN log}
             w == [q EXCEPT !.pc = "done", !.seen = DOMAIN log, !.shown = rest]
  <2>1. \/ Step(r, v) /\ q.pc = "outcomes" /\ q.kind = "exportLines"
        \/ Step(r, w) /\ q.pc = "lines"
    BY <1>14 DEF ExportJoin
  <2> HIDE DEF some, rest
  <2>2. v.pc = "done" /\ v.quote = q.quote /\ v.key = q.key /\ v.kind = "export"
        /\ v.met = q.met
    BY <1>1 DEF Request
  <2>3. w.pc = "done" /\ w.quote = q.quote /\ w.key = q.key /\ w.kind = q.kind
        /\ w.met = q.met
    BY <1>1 DEF Request
  <2> HIDE DEF v, w
  <2>4. CASE Step(r, v) /\ q.pc = "outcomes" /\ q.kind = "exportLines"
    <3>1. Calm(q, v)
      BY <2>2, <2>4, Words DEF Calm, Computes
    <3> QED
      BY <1>2, <2>4, <3>1
  <2>5. CASE Step(r, w) /\ q.pc = "lines"
    BY <1>2, <1>3, <2>3, <2>5
  <2> QED
    BY <2>1, <2>4, <2>5
<1>15. CASE LogAnswer(r) \/ LogError(r)
  <2>1. cache' = cache /\ q.pc \in {"log", "failed"}
    BY <1>15 DEF LogAnswer, LogError
  <2>2. PICK pc \in {"done", "refused"} :
           \E id : req' = [req EXCEPT ![r] = [q EXCEPT !.pc = pc, !.logId = id]]
    <3>1. CASE LogAnswer(r)
      <4>1. req' = [req EXCEPT ![r] = [q EXCEPT !.pc = "done", !.logId = Len(log) + 1]]
        BY <1>1, <3>1 DEF LogAnswer
      <4> QED
        BY <4>1
    <3>2. CASE LogError(r)
      <4>1. req' = [req EXCEPT ![r] = [q EXCEPT !.pc = "refused"]]
        BY <1>1, <3>2 DEF LogError
      <4>2. [q EXCEPT !.pc = "refused"] = [q EXCEPT !.pc = "refused", !.logId = q.logId]
        BY <1>1 DEF Request
      <4> QED
        BY <4>1, <4>2
    <3> QED
      BY <1>15, <3>1, <3>2
  <2>5. PICK id : req' = [req EXCEPT ![r] = [q EXCEPT !.pc = pc, !.logId = id]]
    BY <2>2
  <2> DEFINE v == [q EXCEPT !.pc = pc, !.logId = id]
  <2>3. v.pc = pc /\ v.quote = q.quote /\ v.key = q.key /\ v.kind = q.kind /\ v.met = q.met
    BY <1>1 DEF Request
  <2>4. req' = [req EXCEPT ![r] = v]
    BY <2>5
  <2> HIDE DEF v
  <2> QED
    BY <1>3, <2>1, <2>3, <2>4
<1> QED
  BY <1>4, <1>5, <1>6, <1>7, <1>8, <1>9, <1>10, <1>11, <1>12, <1>13, <1>14, <1>15

\* A look into the cache: a hit is the quote of the key, a miss begins to compute.
LEMMA LookKeeps ==
    ASSUME AdviceInv, OneInv, NEW r \in Reqs, CacheGet(r)
    PROVE  OneInv'
<1> DEFINE q == req[r]
           hit == cache[q.key]
           met == Computing(q.key) # {}
<1>1. req \in [Reqs -> Request] /\ q \in Request /\ AtHand(q) /\ q.pc = "cache"
  BY DEF AdviceInv, TypeOK, Fit, CacheGet
<1>2. q.key \in Keys /\ q.kind \in Seller
  BY <1>1 DEF AtHand
<1>3. PICK v : /\ req' = [req EXCEPT ![r] = v] /\ cache' = cache
               /\ \/ hit # None /\ v = [q EXCEPT !.pc = "ready", !.quote = hit]
                  \/ hit = None /\ v = [q EXCEPT !.pc = "row", !.met = met]
  BY DEF CacheGet, Hit, KeyOf, Step
<1> HIDE DEF hit, met
<1>4. /\ v.key = q.key /\ v.kind = q.kind
      /\ \/ hit # None /\ v.pc = "ready" /\ v.quote = hit /\ v.met = q.met
         \/ hit = None /\ v.pc = "row" /\ v.quote = q.quote /\ v.met = met
  BY <1>1, <1>3 DEF Request
<1>5. \A s \in Reqs : req'[s] = IF s = r THEN v ELSE req[s]
  BY <1>1, <1>3
<1>6. \A s \in Reqs : req'[s].pc \in {"idle", "cache"}
                      => req'[s].quote = None /\ ~req'[s].met
  BY <1>4, <1>5 DEF OneInv
<1>7. ~q.met
  BY <1>1 DEF OneInv
<1>8. ASSUME NEW k \in Keys, k # q.key PROVE Contested(k)' \/ Single(k)'
  <2>1. \A s \in Reqs : Asks(s, k)' <=> Asks(s, k)
    BY <1>4, <1>5, <1>8 DEF Asks
  <2>2. \A s \in Reqs : Asks(s, k) => req'[s] = req[s]
    BY <1>5, <1>8 DEF Asks
  <2>3. Computing(k)' = Computing(k)
    BY <2>1, <2>2 DEF Computing
  <2>4. CASE Contested(k)
    BY <2>1, <2>2, <2>4 DEF Contested
  <2>5. CASE Single(k)
    BY <1>3, <2>1, <2>2, <2>3, <2>5 DEF Single
  <2> QED
    BY <2>4, <2>5 DEF OneInv
<1>9. ASSUME NEW k \in Keys, k = q.key PROVE Contested(k)' \/ Single(k)'
  <2>1. \A s \in Reqs : Asks(s, k)' <=> Asks(s, k)
    BY <1>4, <1>5 DEF Asks
  <2>2. Asks(r, k)
    BY <1>2, <1>9 DEF Asks
  <2>3. CASE met /\ hit = None
    <3>1. req'[r].met
      BY <1>4, <1>5, <2>3
    <3> QED
      BY <2>1, <2>2, <3>1 DEF Contested
  <2>4. CASE hit # None /\ Contested(k)
    <3>1. \A s \in Reqs : req'[s].met = req[s].met
      BY <1>4, <1>5, <2>4
    <3>2. PICK s \in Reqs : Asks(s, k) /\ req[s].met
      BY <2>4 DEF Contested
    <3> QED
      BY <2>1, <3>1, <3>2 DEF Contested
  <2>5. CASE hit # None /\ ~Contested(k)
    <3>1. Single(k) /\ cache[k] = hit
      BY <1>9, <2>5 DEF OneInv, hit
    <3>2. Computing(k) = {}
      BY <2>5, <3>1 DEF Single
    <3>3. Computing(k)' = {}
      <4>1. \A s \in Reqs : Asks(s, k)' /\ req'[s].pc \in {"row", "fx", "set"}
                            => s \in Computing(k)
        BY <1>4, <1>5, <2>1, <2>5 DEF Computing
      <4> QED
        BY <3>2, <4>1 DEF Computing
    <3>4. \A s \in Reqs : Asks(s, k)' /\ req'[s].quote # None /\ req'[s].pc # "set"
                          => req'[s].quote = cache'[k]
      BY <1>3, <1>4, <1>5, <2>1, <2>5, <3>1 DEF Single
    <3> QED
      BY <3>3, <3>4 DEF Single
  <2>6. CASE ~met /\ hit = None
    <3>1. Computing(k) = {} /\ cache[k] = None
      BY <1>9, <2>6 DEF met, hit
    <3>2. Computing(k)' \subseteq {r}
      <4>1. \A s \in Reqs : s # r /\ Asks(s, k)' /\ req'[s].pc \in {"row", "fx", "set"}
                            => s \in Computing(k)
        BY <1>5, <2>1 DEF Computing
      <4> QED
        BY <3>1, <4>1 DEF Computing
    <3>3. CASE Contested(k)
      <4>1. PICK s \in Reqs : Asks(s, k) /\ req[s].met
        BY <3>3 DEF Contested
      <4>2. CASE s # r
        BY <1>5, <2>1, <4>1, <4>2 DEF Contested
      <4>3. CASE s = r
        BY <1>7, <4>1, <4>3
      <4> QED
        BY <4>2, <4>3
    <3>4. CASE Single(k)
      <4>1. \A s \in Reqs : Asks(s, k)' /\ req'[s].quote # None /\ req'[s].pc # "set"
                            => req'[s].quote = cache'[k]
        BY <1>1, <1>3, <1>4, <1>5, <2>1, <2>6, <3>4 DEF Single
      <4> QED
        BY <1>3, <3>1, <3>2, <4>1 DEF Single
    <3> QED
      BY <3>3, <3>4 DEF OneInv
  <2> QED
    BY <2>3, <2>4, <2>5, <2>6
<1> QED
  BY <1>6, <1>8, <1>9 DEF OneInv

\* The price is written where it is computed.
LEMMA WriteKeeps ==
    ASSUME AdviceInv, OneInv, NEW r \in Reqs, CacheSet(r)
    PROVE  OneInv'
<1> DEFINE q == req[r]
<1>1. /\ req \in [Reqs -> Request] /\ q \in Request /\ AtHand(q) /\ q.pc = "set"
      /\ cache \in [Keys -> Quotes \cup {None}]
  BY DEF AdviceInv, TypeOK, Fit, CacheSet
<1>2. q.key \in Keys /\ q.kind \in Seller
  BY <1>1 DEF AtHand
<1>3. PICK v : v = [q EXCEPT !.pc = "ready"]
  OBVIOUS
<1>4. req' = [req EXCEPT ![r] = v] /\ cache' = [cache EXCEPT ![q.key] = q.quote]
  BY <1>1, <1>3 DEF CacheSet, KeyOf
<1>5. /\ v.pc = "ready" /\ v.key = q.key /\ v.kind = q.kind /\ v.met = q.met
      /\ v.quote = q.quote
  BY <1>1, <1>3 DEF Request
<1>6. \A s \in Reqs : req'[s] = IF s = r THEN v ELSE req[s]
  BY <1>1, <1>4
<1>7. \A k \in Keys : cache'[k] = IF k = q.key THEN q.quote ELSE cache[k]
  BY <1>1, <1>4
<1>8. \A s \in Reqs : req'[s].pc \in {"idle", "cache"}
                      => req'[s].quote = None /\ ~req'[s].met
  BY <1>5, <1>6 DEF OneInv
<1>9. \A s \in Reqs : /\ req'[s].kind = req[s].kind /\ req'[s].key = req[s].key
                      /\ req'[s].met = req[s].met /\ req'[s].quote = req[s].quote
                      /\ s # r => req'[s].pc = req[s].pc
  BY <1>5, <1>6
<1>10. ASSUME NEW k \in Keys PROVE Contested(k)' \/ Single(k)'
  <2>1. \A s \in Reqs : Asks(s, k)' <=> Asks(s, k)
    BY <1>9 DEF Asks
  <2>2. CASE Contested(k)
    BY <1>9, <2>1, <2>2 DEF Contested
  <2>3. CASE Single(k)
    <3>1. Computing(k)' = Computing(k) \ {r}
      <4>1. \A s \in Reqs : s \in Computing(k)' <=> s \in Computing(k) /\ s # r
        BY <1>5, <1>6, <1>9, <2>1 DEF Computing
      <4> QED
        BY <4>1 DEF Computing
    <3>2. CASE k = q.key
      <4>1. r \in Computing(k)
        BY <1>1, <1>2, <3>2 DEF Computing, Asks
      <4>2. Computing(k) = {r} /\ cache[k] = None
        BY <2>3, <4>1 DEF Single
      <4>3. ASSUME NEW s \in Reqs, Asks(s, k)', req'[s].quote # None, req'[s].pc # "set"
            PROVE  req'[s].quote = cache'[k]
        <5>1. CASE s = r
          BY <1>5, <1>6, <1>7, <3>2, <5>1
        <5>2. CASE s # r
          <6>1. Asks(s, k) /\ req[s].quote # None /\ req[s].pc # "set"
            BY <1>9, <2>1, <4>3, <5>2
          <6>2. req[s].quote = cache[k]
            BY <2>3, <6>1 DEF Single
          <6> QED
            BY <4>2, <6>1, <6>2
        <5> QED
          BY <5>1, <5>2
      <4>4. Computing(k)' = {}
        BY <3>1, <4>2
      <4> QED
        BY <4>3, <4>4 DEF Single
    <3>3. CASE k # q.key
      <4>1. cache'[k] = cache[k]
        BY <1>7, <3>3
      <4>2. ASSUME NEW s \in Reqs, Asks(s, k)', req'[s].quote # None, req'[s].pc # "set"
            PROVE  req'[s].quote = cache'[k]
        <5>1. s # r
          BY <1>5, <1>6, <3>3, <4>2 DEF Asks
        <5>2. Asks(s, k) /\ req[s].quote # None /\ req[s].pc # "set"
          BY <1>9, <2>1, <4>2, <5>1
        <5> QED
          BY <1>9, <2>3, <4>1, <5>2 DEF Single
      <4> QED
        BY <2>3, <3>1, <4>1, <4>2 DEF Single
    <3> QED
      BY <3>2, <3>3
  <2> QED
    BY <2>2, <2>3 DEF OneInv
<1> QED
  BY <1>8, <1>10 DEF OneInv

LEMMA OneStep == AdviceInv /\ OneInv /\ [Next]_vars => OneInv'
<1> SUFFICES ASSUME AdviceInv, OneInv, [Next]_vars PROVE OneInv'
  OBVIOUS
<1>1. req \in [Reqs -> Request]
  BY DEF AdviceInv, TypeOK
<1>2. ASSUME NEW r \in Reqs,
             \/ Ask(r) \/ Evaluate(r) \/ ReadRow(r) \/ ReadFx(r) \/ Quoted(r)
             \/ ReadMarket(r) \/ Strategy(r) \/ Suggestion(r) \/ LogFails(r)
             \/ ErrorUnlogged(r) \/ History(r) \/ HistoryOutcomes(r) \/ Export(r)
             \/ ExportJoin(r) \/ LogAnswer(r) \/ LogError(r)
      PROVE  OneInv'
  <2>1. cache' = cache /\ \E v : req' = [req EXCEPT ![r] = v] /\ Calm(req[r], v)
    BY <1>2, CalmSteps
  <2> QED
    BY <1>1, <2>1, CalmKeeps
<1>3. CASE Restart
  <2>1. \A s \in Reqs : req'[s].pc = "idle" /\ req'[s].quote = None /\ ~req'[s].met
    BY <1>3 DEF Restart, Idle
  <2>2. ASSUME NEW k \in Keys PROVE Single(k)'
    <3>1. Computing(k)' = {}
      BY <2>1 DEF Computing
    <3> QED
      BY <2>1, <3>1 DEF Single
  <2> QED
    BY <2>1, <2>2 DEF OneInv
<1>4. CASE UNCHANGED vars \/ Rebuild \/ NewRate \/ \E id \in 0 .. MaxLog : Track(id)
  <2>1. req' = req /\ cache' = cache
    BY <1>4 DEF vars, Rebuild, NewRate, Track
  <2>2. \A k : Computing(k)' = Computing(k)
    BY <2>1 DEF Computing, Asks
  <2>3. \A k \in Keys : (Contested(k)' <=> Contested(k)) /\ (Single(k)' <=> Single(k))
    BY <2>1, <2>2 DEF Contested, Single, Asks
  <2> QED
    BY <2>1, <2>3 DEF OneInv
<1> QED
  BY <1>2, <1>3, <1>4, LookKeeps, WriteKeeps DEF Next

LEMMA OneHolds == Spec => []OneInv
<1>1. ASSUME Init PROVE OneInv
  <2>1. \A s \in Reqs : req[s].pc = "idle" /\ req[s].quote = None /\ ~req[s].met
    BY <1>1 DEF Init, Idle
  <2>2. ASSUME NEW k \in Keys PROVE Single(k)
    BY <2>1 DEF Computing, Single
  <2> QED
    BY <2>1, <2>2 DEF OneInv
<1> QED
  BY <1>1, OneStep, AdviceHolds, PTL DEF Spec

(* In one life of the process all who ask for the price of one area and     *)
(* size are quoted the same, however the rows are rebuilt and the rates     *)
(* change, unless two of them computed it at the same time.                 *)
(* (advisor.service.ts: getSellerPriceSuggestion.)                          *)
THEOREM OnePricePerKey == Spec => []OneQuotePerKey
<1>1. ASSUME OneInv PROVE OneQuotePerKey
  <2>1. SUFFICES ASSUME NEW k \in Keys, NEW r \in Reqs, NEW s \in Reqs,
                        Asks(r, k), req[r].quote # None, Asks(s, k), req[s].quote # None,
                        ~Contested(k)
                 PROVE  req[r].quote = req[s].quote
    BY DEF OneQuotePerKey
  <2>2. Single(k)
    BY <1>1, <2>1 DEF OneInv
  <2>3. \A x \in Reqs : Asks(x, k) /\ req[x].pc = "set" => x \in Computing(k)
    BY DEF Computing
  <2> QED
    BY <2>1, <2>2, <2>3 DEF Single
<1> QED
  BY <1>1, OneHolds, PTL

-----------------------------------------------------------------------------
(* The history.  The two logs only grow, so what a request has seen of them *)
(* stays true of it.                                                        *)
LEMMA LogsGrow ==
    ASSUME NEW q \in Request,
           NEW lines \in Seq(Entries), NEW line, LinkedToLine(q, lines),
           NEW tracked \in Seq(Nat), NEW id, Reads(q, tracked)
    PROVE  LinkedToLine(q, Append(lines, line)) /\ Reads(q, Append(tracked, id))
<1>1. q.known \in Nat /\ q.logId \in Nat /\ Len(lines) \in Nat /\ Len(tracked) \in Nat
  BY DEF Request
<1>2. Len(Append(lines, line)) = Len(lines) + 1
      /\ \A j \in 1 .. Len(lines) : Append(lines, line)[j] = lines[j]
  OBVIOUS
<1>3. Len(Append(tracked, id)) = Len(tracked) + 1
      /\ \A j \in 1 .. Len(tracked) : Append(tracked, id)[j] = tracked[j]
  OBVIOUS
<1>4. PICK more : more = Append(lines, line)
  OBVIOUS
<1>5. PICK longer : longer = Append(tracked, id)
  OBVIOUS
<1>6. LinkedToLine(q, more)
  BY <1>1, <1>2, <1>4 DEF LinkedToLine
<1>7. q.known \in 0 .. Len(tracked) /\ \A j \in 1 .. q.known : longer[j] = tracked[j]
  BY <1>1, <1>3, <1>5 DEF Reads
<1>8. q.known \in 0 .. Len(longer)
  BY <1>1, <1>3, <1>5, <1>7
<1>9. ShowsAll(q, tracked) => ShowsAll(q, longer)
  BY <1>7 DEF ShowsAll
<1>10. MissesNone(q, tracked) => MissesNone(q, longer)
  BY <1>7 DEF MissesNone
<1>11. ShowsNewest(q, tracked) => ShowsNewest(q, longer)
  <2>1. \A k \in 0 .. Len(tracked) : k \in 0 .. Len(longer) /\ (k > 0 => longer[k] = tracked[k])
    BY <1>1, <1>3, <1>5
  <2> QED
    BY <1>7, <2>1 DEF ShowsNewest
<1> QED
  BY <1>4, <1>5, <1>6, <1>8, <1>9, <1>10, <1>11 DEF Reads

\* The newest outcome of a line is one of its own and no earlier than any.
LEMMA NewestOutcome ==
    ASSUME outcome \in Seq(Nat), NEW i
    PROVE  /\ Latest(i) \in 0 .. Len(outcome)
           /\ Latest(i) > 0 => outcome[Latest(i)] = i
           /\ \A j \in 1 .. Len(outcome) : outcome[j] = i => j <= Latest(i)
<1>1. DOMAIN outcome = 1 .. Len(outcome) /\ Len(outcome) \in Nat
  OBVIOUS
<1>2. IsFiniteSet(1 .. Len(outcome))
  BY <1>1, FS_Interval
<1>3. OutcomesOf(i) \subseteq 1 .. Len(outcome)
  BY <1>1 DEF OutcomesOf
<1>4. OutcomesOf(i) \in SUBSET Nat /\ IsFiniteSet(OutcomesOf(i))
  BY <1>1, <1>2, <1>3, FS_Subset
<1>5. CASE OutcomesOf(i) = {}
  BY <1>1, <1>5 DEF Latest, OutcomesOf
<1>6. CASE OutcomesOf(i) # {}
  <2>1. PICK k : k = Max(OutcomesOf(i))
    OBVIOUS
  <2>2. k \in OutcomesOf(i) /\ \A y \in OutcomesOf(i) : k >= y
    BY <1>4, <1>6, <2>1, Greatest
  <2>3. Latest(i) = k
    BY <1>6, <2>1 DEF Latest
  <2>4. k \in 1 .. Len(outcome) /\ outcome[k] = i
    BY <1>1, <2>2 DEF OutcomesOf
  <2>5. \A j \in 1 .. Len(outcome) : outcome[j] = i => j <= k
    BY <1>1, <2>2, <2>4 DEF OutcomesOf
  <2> QED
    BY <1>1, <2>3, <2>4, <2>5
<1> QED
  BY <1>5, <1>6

\* A request that moves keeps the two promises of the history.
LEMMA Quiet ==
    ASSUME NEW v, v.logId = 0, Len(log) \in Nat, v.known \in 0 .. Len(outcome),
           v.pc # "lines", v.pc = "done" => v.kind \in Asking
    PROVE  LinkedToLine(v, log) /\ Reads(v, outcome)
BY Words DEF LinkedToLine, Reads, Asking

LEMMA HistoryMoves ==
    ASSUME AdviceInv, HistoryInv, NEW r \in Reqs,
           \/ Ask(r) \/ CacheGet(r) \/ Evaluate(r) \/ ReadRow(r) \/ ReadFx(r) \/ Quoted(r)
           \/ ReadMarket(r) \/ Strategy(r) \/ Suggestion(r) \/ LogFails(r)
           \/ ErrorUnlogged(r) \/ History(r) \/ HistoryOutcomes(r) \/ Export(r)
           \/ ExportJoin(r)
    PROVE  \E v : Step(r, v) /\ LinkedToLine(v, log) /\ Reads(v, outcome)
<1> DEFINE q == req[r]
<1>1. q \in Request /\ AtHand(q) /\ LinkedToLine(q, log) /\ Reads(q, outcome)
      /\ log \in Seq(Entries) /\ outcome \in Seq(Nat)
      /\ Len(log) \in Nat /\ Len(outcome) \in Nat
  BY DEF AdviceInv, Fit, HistoryInv, TypeOK
<1>2. q.known \in 0 .. Len(outcome) /\ (q.pc # "done" => q.logId = 0)
  BY <1>1 DEF LinkedToLine, Reads, Request
<1>3. Idle.logId = 0 /\ Idle.known = 0 /\ 0 \in 0 .. Len(outcome)
      /\ Len(outcome) \in 0 .. Len(outcome)
  BY <1>1 DEF Idle
<1>4. ASSUME NEW pc \in Pcs \ {"lines"}, NEW kind, NEW owner, NEW key, NEW ask, NEW seen,
             NEW known \in 0 .. Len(outcome), pc # "done",
             Step(r, [Idle EXCEPT !.pc = pc, !.kind = kind, !.owner = owner, !.key = key,
                                  !.ask = ask, !.seen = seen, !.known = known])
      PROVE  \E v : Step(r, v) /\ LinkedToLine(v, log) /\ Reads(v, outcome)
  <2> DEFINE v == [Idle EXCEPT !.pc = pc, !.kind = kind, !.owner = owner, !.key = key,
                               !.ask = ask, !.seen = seen, !.known = known]
  <2>1. v.logId = 0 /\ v.known = known /\ v.pc = pc
    BY DEF Idle
  <2> HIDE DEF v
  <2> QED
    BY <1>1, <1>4, <2>1, Quiet DEF v
<1>5. CASE Ask(r)
  <2>1. PICK k \in Keys, o \in Owners, kind \in Seller :
          Step(r, [Idle EXCEPT !.pc = "cache", !.kind = kind, !.owner = o, !.key = k])
    BY <1>5 DEF Ask
  <2> DEFINE v == [Idle EXCEPT !.pc = "cache", !.kind = kind, !.owner = o, !.key = k]
  <2>2. v.logId = 0 /\ v.known = 0 /\ v.pc = "cache"
    BY DEF Idle
  <2> HIDE DEF v
  <2> QED
    BY <1>1, <1>3, <2>1, <2>2, Quiet DEF v
<1>6. CASE Evaluate(r)
  <2>1. PICK s, o, ask :
          Step(r, [Idle EXCEPT !.pc = "row", !.kind = "buyer", !.owner = o,
                               !.key = req[s].key, !.ask = ask])
    BY <1>6 DEF Evaluate
  <2> DEFINE v == [Idle EXCEPT !.pc = "row", !.kind = "buyer", !.owner = o,
                               !.key = req[s].key, !.ask = ask]
  <2>2. v.logId = 0 /\ v.known = 0 /\ v.pc = "row"
    BY DEF Idle
  <2> HIDE DEF v
  <2> QED
    BY <1>1, <1>3, <2>1, <2>2, Quiet DEF v
<1>7. ASSUME q.pc # "done", NEW v, v.logId = q.logId, v.known = q.known,
             v.pc # "lines", v.pc = "done" => v.kind \in Asking
      PROVE  LinkedToLine(v, log) /\ Reads(v, outcome)
  BY <1>1, <1>2, <1>7, Quiet
<1>8. CASE CacheGet(r) \/ ReadRow(r) \/ ReadFx(r) \/ Quoted(r)
  <2> DEFINE v1 == [q EXCEPT !.pc = "ready", !.quote = cache[KeyOf(q.key)]]
             v2 == [q EXCEPT !.pc = "row", !.met = Computing(q.key) # {}]
             v3 == [q EXCEPT !.pc = "failed"]
             v4 == [q EXCEPT !.pc = "fx", !.row = row[Area(q.key)]]
             v5 == [q EXCEPT !.pc = "log", !.answer = Verdict(q)]
             v6 == [q EXCEPT !.pc = "set", !.quote = Quote(q.row, fx, Size(q.key))]
             v7 == [q EXCEPT !.pc = "log", !.answer = q.quote]
  <2>1. q.pc # "done"
    BY <1>8 DEF CacheGet, ReadRow, ReadFx, Quoted
  <2>2. Step(r, v1) \/ Step(r, v2) \/ Step(r, v3) \/ Step(r, v4) \/ Step(r, v5)
        \/ Step(r, v6) \/ Step(r, v7)
    BY <1>8 DEF CacheGet, Hit, ReadRow, ReadFx, Quoted, Refused
  <2>3. \A v \in {v1, v2, v3, v4, v5, v6, v7} :
          v.logId = q.logId /\ v.known = q.known /\ v.pc \notin {"lines", "done"}
    BY <1>1 DEF Request
  <2> HIDE DEF v1, v2, v3, v4, v5, v6, v7
  <2> QED
    BY <1>7, <2>1, <2>2, <2>3
<1>9. CASE ReadMarket(r)
  <2>1. PICK S : Step(r, [q EXCEPT !.market = S])
    BY <1>9 DEF ReadMarket
  <2> DEFINE v == [q EXCEPT !.market = S]
  <2>2. v.pc = q.pc /\ v.kind = q.kind /\ v.owner = q.owner /\ v.answer = q.answer
        /\ v.logId = q.logId /\ v.known = q.known /\ v.seen = q.seen /\ v.shown = q.shown
    BY <1>1 DEF Request
  <2> HIDE DEF v
  <2>3. LinkedToLine(v, log)
    BY <1>1, <2>2 DEF LinkedToLine, Entry
  <2>4. Reads(v, outcome)
    BY <1>1, <2>2 DEF Reads, ShowsAll, ShowsNewest, MissesNone
  <2> QED
    BY <2>1, <2>3, <2>4 DEF v
<1>10. CASE Strategy(r) \/ Suggestion(r) \/ LogFails(r) \/ ErrorUnlogged(r)
  <2>1. q.pc # "done" /\ (ErrorUnlogged(r) \/ q.kind \in Asking)
    BY <1>1, <1>10, Words DEF Strategy, Suggestion, LogFails, ErrorUnlogged, AtHand
  <2>2. PICK pc \in {"refused", "log", "done"} :
           /\ pc = "done" => q.kind \in Asking
           /\ \/ Step(r, [q EXCEPT !.pc = pc])
              \/ \E a : Step(r, [q EXCEPT !.pc = pc, !.answer = a])
    BY <1>10, <2>1 DEF Strategy, Suggestion, LogFails, ErrorUnlogged
  <2>3. CASE Step(r, [q EXCEPT !.pc = pc])
    <3> DEFINE v == [q EXCEPT !.pc = pc]
    <3>1. v.pc = pc /\ v.kind = q.kind /\ v.logId = q.logId /\ v.known = q.known
      BY <1>1 DEF Request
    <3> HIDE DEF v
    <3> QED
      BY <1>7, <2>1, <2>2, <2>3, <3>1 DEF v
  <2>4. CASE \E a : Step(r, [q EXCEPT !.pc = pc, !.answer = a])
    <3>1. PICK a : Step(r, [q EXCEPT !.pc = pc, !.answer = a])
      BY <2>4
    <3> DEFINE v == [q EXCEPT !.pc = pc, !.answer = a]
    <3>2. v.pc = pc /\ v.kind = q.kind /\ v.logId = q.logId /\ v.known = q.known
      BY <1>1 DEF Request
    <3> HIDE DEF v
    <3> QED
      BY <1>7, <2>1, <2>2, <3>1, <3>2 DEF v
  <2> QED
    BY <2>2, <2>3, <2>4
<1>11. CASE History(r)
  <2>1. PICK o \in Owners :
          Step(r, [Idle EXCEPT !.pc = "outcomes", !.kind = "history", !.owner = o,
                               !.seen = LinesOf(o), !.known = Len(outcome)])
    BY <1>11 DEF History
  <2> DEFINE v == [Idle EXCEPT !.pc = "outcomes", !.kind = "history", !.owner = o,
                               !.seen = LinesOf(o), !.known = Len(outcome)]
  <2>2. v.logId = 0 /\ v.known = Len(outcome) /\ v.pc = "outcomes"
    BY DEF Idle
  <2> HIDE DEF v
  <2> QED
    BY <1>1, <1>3, <2>1, <2>2, Quiet DEF v
<1>12. CASE HistoryOutcomes(r)
  <2> DEFINE v == [q EXCEPT !.pc = "done", !.shown = {<<i, Latest(i)>> : i \in q.seen}]
  <2>1. Step(r, v) /\ q.kind = "history" /\ q.pc = "outcomes"
    BY <1>12 DEF HistoryOutcomes
  <2>2. v.pc = "done" /\ v.kind = "history" /\ v.logId = q.logId /\ v.known = q.known
        /\ v.shown = {<<i, Latest(i)>> : i \in q.seen}
    BY <1>1, <2>1 DEF Request
  <2> HIDE DEF v
  <2>3. LinkedToLine(v, log)
    BY <1>1, <1>2, <2>1, <2>2 DEF LinkedToLine
  <2>4. ASSUME NEW x \in v.shown
        PROVE  /\ x[2] \in 0 .. Len(outcome)
               /\ x[2] > 0 => outcome[x[2]] = x[1]
               /\ \A j \in 1 .. v.known : outcome[j] = x[1] => j <= x[2]
    <3>1. PICK i \in q.seen : x = <<i, Latest(i)>>
      BY <2>2
    <3>2. x[1] = i /\ x[2] = Latest(i)
      BY <3>1
    <3>3. \A j \in 1 .. v.known : j \in 1 .. Len(outcome)
      BY <1>1, <1>2, <2>2
    <3> QED
      BY <1>1, <3>2, <3>3, NewestOutcome
  <2>5. Reads(v, outcome)
    BY <1>2, <2>2, <2>4 DEF Reads, ShowsNewest
  <2> QED
    BY <2>1, <2>3, <2>5
<1>13. CASE Export(r)
  <2> DEFINE v == [Idle EXCEPT !.pc = "outcomes", !.kind = "exportLines",
                               !.seen = DOMAIN log, !.known = Len(outcome)]
             all == {<<outcome[j], j>> : j \in DOMAIN outcome}
             w == [Idle EXCEPT !.pc = "lines", !.kind = "export", !.known = Len(outcome),
                               !.shown = all]
  <2>1. Step(r, v) \/ Step(r, w)
    BY <1>13 DEF Export
  <2>2. \A j \in 1 .. Len(outcome) : <<outcome[j], j>> \in all
    BY <1>1
  <2> HIDE DEF all
  <2>3. v.logId = 0 /\ v.known = Len(outcome) /\ v.pc = "outcomes"
    BY DEF Idle
  <2>4. w.logId = 0 /\ w.known = Len(outcome) /\ w.pc = "lines" /\ w.kind = "export"
        /\ w.shown = all
    BY DEF Idle
  <2> HIDE DEF v, w
  <2>5. LinkedToLine(v, log) /\ Reads(v, outcome)
    BY <1>1, <1>3, <2>3, Quiet
  <2>6. LinkedToLine(w, log)
    BY <1>1, <2>4 DEF LinkedToLine
  <2>7. Reads(w, outcome)
    BY <1>3, <2>2, <2>4 DEF Reads, ShowsAll
  <2> QED
    BY <2>1, <2>5, <2>6, <2>7
<1>14. CASE ExportJoin(r)
  <2> DEFINE some == {<<outcome[j], j>> : j \in {k \in DOMAIN outcome : outcome[k] \in q.seen}}
             v == [q EXCEPT !.pc = "done", !.kind = "export", !.shown = some]
             rest == {x \in q.shown : x[1] \in DOMAIN log}
             w == [q EXCEPT !.pc = "done", !.seen = DOMAIN log, !.shown = rest]
  <2>1. \/ q.pc = "outcomes" /\ Step(r, v)
        \/ q.pc = "lines" /\ Step(r, w)
    BY <1>14 DEF ExportJoin
  <2>2. \A i \in q.seen, j \in 1 .. q.known : outcome[j] = i => <<i, j>> \in some
    <3>1. \A j \in 1 .. q.known : j \in DOMAIN outcome
      BY <1>1, <1>2
    <3> QED
      BY <3>1
  <2>3. q.pc = "lines" =>
          q.kind = "export"
          /\ \A i \in DOMAIN log, j \in 1 .. q.known : outcome[j] = i => <<i, j>> \in rest
    BY <1>1 DEF Reads, ShowsAll
  <2> HIDE DEF some, rest
  <2>4. v.pc = "done" /\ v.kind = "export" /\ v.logId = q.logId /\ v.known = q.known
        /\ v.seen = q.seen /\ v.shown = some
    BY <1>1 DEF Request
  <2>5. w.pc = "done" /\ w.kind = q.kind /\ w.logId = q.logId /\ w.known = q.known
        /\ w.seen = DOMAIN log /\ w.shown = rest
    BY <1>1 DEF Request
  <2> HIDE DEF v, w
  <2>6. LinkedToLine(v, log) /\ LinkedToLine(w, log)
    BY <1>1, <1>2, <2>1, <2>4, <2>5 DEF LinkedToLine
  <2>7. Reads(v, outcome)
    BY <1>2, <2>2, <2>4 DEF Reads, MissesNone
  <2>8. q.pc = "lines" => Reads(w, outcome)
    BY <1>2, <2>3, <2>5 DEF Reads, MissesNone
  <2> QED
    BY <2>1, <2>6, <2>7, <2>8
<1> QED
  BY <1>5, <1>6, <1>8, <1>9, <1>10, <1>11, <1>12, <1>13, <1>14

LEMMA HistoryStep == AdviceInv /\ HistoryInv /\ [Next]_vars => HistoryInv'
<1> SUFFICES ASSUME AdviceInv, HistoryInv, [Next]_vars PROVE HistoryInv'
  OBVIOUS
<1>1. log \in Seq(Entries) /\ outcome \in Seq(Nat) /\ req \in [Reqs -> Request]
      /\ Len(log) \in Nat /\ Len(outcome) \in Nat
      /\ \A r \in Reqs : AtHand(req[r]) /\ req[r] \in Request
  BY DEF AdviceInv, TypeOK, Fit
<1>2. \A r \in Reqs : LinkedToLine(req[r], log) /\ Reads(req[r], outcome)
  BY DEF HistoryInv
<1>3. ASSUME NEW r \in Reqs,
             \/ Ask(r) \/ CacheGet(r) \/ Evaluate(r) \/ ReadRow(r) \/ ReadFx(r) \/ Quoted(r)
             \/ ReadMarket(r) \/ Strategy(r) \/ Suggestion(r) \/ LogFails(r)
             \/ ErrorUnlogged(r) \/ History(r) \/ HistoryOutcomes(r) \/ Export(r)
             \/ ExportJoin(r)
      PROVE  HistoryInv'
  <2>1. PICK v : Step(r, v) /\ LinkedToLine(v, log) /\ Reads(v, outcome)
    BY <1>3, HistoryMoves
  <2>2. req' = [req EXCEPT ![r] = v] /\ log' = log /\ outcome' = outcome
    BY <2>1 DEF Step
  <2>3. \A s \in Reqs : req'[s] = IF s = r THEN v ELSE req[s]
    BY <1>1, <2>2
  <2> QED
    BY <1>2, <2>1, <2>2, <2>3 DEF HistoryInv
<1>4. ASSUME NEW r \in Reqs, CacheSet(r) PROVE HistoryInv'
  <2> DEFINE q == req[r]
             v == [q EXCEPT !.pc = "ready"]
  <2>1. q.pc = "set" /\ req' = [req EXCEPT ![r] = v] /\ log' = log /\ outcome' = outcome
    BY <1>4 DEF CacheSet
  <2>2. v.pc = "ready" /\ v.logId = q.logId /\ v.known = q.known
    BY <1>1 DEF Request
  <2>3. q.logId = 0 /\ q.known \in 0 .. Len(outcome)
    BY <1>1, <1>2, <2>1 DEF LinkedToLine, Reads, Request
  <2> HIDE DEF v
  <2>4. LinkedToLine(v, log) /\ Reads(v, outcome)
    BY <1>1, <2>2, <2>3, Quiet
  <2>5. \A s \in Reqs : req'[s] = IF s = r THEN v ELSE req[s]
    BY <1>1, <2>1
  <2> QED
    BY <1>2, <2>1, <2>4, <2>5 DEF HistoryInv
<1>5. ASSUME NEW r \in Reqs, LogAnswer(r) \/ LogError(r) PROVE HistoryInv'
  <2> DEFINE q == req[r]
  <2>1. log' = Append(log, Entry(q)) /\ outcome' = outcome
    BY <1>5 DEF LogAnswer, LogError
  <2>2. q.pc \in {"log", "failed"} /\ q.kind \in Asking
    BY <1>1, <1>5 DEF LogAnswer, LogError, AtHand
  <2>3. q.logId = 0 /\ q.known \in 0 .. Len(outcome)
    BY <1>1, <1>2, <2>2 DEF LinkedToLine, Reads, Request
  <2>4. \A s \in Reqs : LinkedToLine(req[s], log')
    BY <1>1, <1>2, <2>1, LogsGrow
  <2>5. Len(log') = Len(log) + 1 /\ log'[Len(log) + 1] = Entry(q)
    BY <1>1, <2>1
  <2>6. PICK v : /\ req' = [req EXCEPT ![r] = v] /\ v.known = q.known
                 /\ v.kind = q.kind /\ v.pc \in {"done", "refused"} /\ LinkedToLine(v, log')
    <3>1. CASE LogAnswer(r)
      <4> DEFINE v == [q EXCEPT !.pc = "done", !.logId = Len(log) + 1]
      <4>1. req' = [req EXCEPT ![r] = v]
        BY <1>1, <3>1 DEF LogAnswer
      <4>2. v.pc = "done" /\ v.kind = q.kind /\ v.owner = q.owner /\ v.answer = q.answer
            /\ v.known = q.known /\ v.logId = Len(log) + 1
        BY <1>1 DEF Request
      <4> HIDE DEF v
      <4>3. Entry(v) = Entry(q)
        BY <4>2 DEF Entry
      <4>4. LinkedToLine(v, log')
        BY <1>1, <2>5, <4>2, <4>3 DEF LinkedToLine
      <4> QED
        BY <4>1, <4>2, <4>4
    <3>2. CASE LogError(r)
      <4> DEFINE v == [q EXCEPT !.pc = "refused"]
      <4>1. req' = [req EXCEPT ![r] = v]
        BY <3>2 DEF LogError
      <4>2. v.pc = "refused" /\ v.kind = q.kind /\ v.known = q.known /\ v.logId = q.logId
        BY <1>1 DEF Request
      <4> HIDE DEF v
      <4>3. LinkedToLine(v, log')
        BY <1>1, <2>3, <2>5, <4>2 DEF LinkedToLine
      <4> QED
        BY <4>1, <4>2, <4>3
    <3> QED
      BY <1>5, <3>1, <3>2
  <2>7. Reads(v, outcome)
    BY <2>2, <2>3, <2>6, Words DEF Reads
  <2>8. \A s \in Reqs : req'[s] = IF s = r THEN v ELSE req[s]
    BY <1>1, <2>6
  <2> QED
    BY <1>2, <2>1, <2>4, <2>6, <2>7, <2>8 DEF HistoryInv
<1>6. ASSUME NEW id \in 0 .. MaxLog, Track(id) PROVE HistoryInv'
  <2>1. outcome' = Append(outcome, id) /\ log' = log /\ req' = req
    BY <1>6 DEF Track
  <2>2. \A s \in Reqs : Reads(req[s], outcome')
    BY <1>1, <1>2, <2>1, LogsGrow
  <2> QED
    BY <1>2, <2>1, <2>2 DEF HistoryInv
<1>7. CASE Restart
  <2>1. req' = [r \in Reqs |-> Idle] /\ log' = log /\ outcome' = outcome
    BY <1>7 DEF Restart
  <2>2. Idle.logId = 0 /\ Idle.known = 0 /\ Idle.pc = "idle"
    BY DEF Idle
  <2>3. LinkedToLine(Idle, log) /\ Reads(Idle, outcome)
    BY <1>1, <2>2, Quiet
  <2> QED
    BY <2>1, <2>3 DEF HistoryInv
<1>8. CASE UNCHANGED vars \/ Rebuild \/ NewRate
  <2>1. req' = req /\ log' = log /\ outcome' = outcome
    BY <1>8 DEF vars, Rebuild, NewRate
  <2> QED
    BY <1>2, <2>1 DEF HistoryInv
<1> QED
  BY <1>3, <1>4, <1>5, <1>6, <1>7, <1>8 DEF Next

(* A history never shows an older outcome than the newest one tracked       *)
(* before it was asked for, an export misses none, and the id that goes     *)
(* with an answer is that of its own line, for any number of requests and   *)
(* whatever clients track.                                                  *)
THEOREM HistoryStaysFresh == Spec => []HistoryIsFresh
<1>1. ASSUME Init PROVE HistoryInv
  <2>1. req = [r \in Reqs |-> Idle] /\ log = <<>> /\ outcome = <<>>
    BY <1>1 DEF Init
  <2>2. Idle.logId = 0 /\ Idle.known = 0 /\ Idle.pc = "idle"
    BY DEF Idle
  <2>3. LinkedToLine(Idle, log) /\ Reads(Idle, outcome)
    BY <2>1, <2>2, Quiet
  <2> QED
    BY <2>1, <2>3 DEF HistoryInv
<1>2. HistoryInv => HistoryIsFresh
  BY DEF HistoryInv, HistoryIsFresh, LinkedToLine, Reads, ShowsNewest, MissesNone
<1> QED
  BY <1>1, <1>2, HistoryStep, AdviceHolds, PTL DEF Spec

-----------------------------------------------------------------------------
(* Appraisal: the rows, their order and their columns.                      *)

\* A set has as many elements for Appraisal as for this module.
LEMMA SameSize == \A S : P!Cardinality(S) = Cardinality(S)
BY DEF P!Cardinality, Cardinality

LEMMA RowsFinite ==
    ASSUME NEW S \in SUBSET Rows
    PROVE  S \subseteq Nat /\ IsFiniteSet(S) /\ Cardinality(S) \in Nat
BY AppraisalAssumption, FS_Subset, FS_CardinalityType

\* Of the rows of a set, each has a place of its own and no place is empty.
LEMMA OldestIsARow ==
    ASSUME NEW S \in SUBSET Rows, NEW k \in 1 .. Cardinality(S)
    PROVE  P!Oldest(S)[k] \in S
<1> DEFINE upTo == [i \in S |-> {j \in S : j <= i}]
           place == [i \in S |-> Cardinality(upTo[i])]
           places == {place[i] : i \in S}
           n == Cardinality(S)
<1>1. S \subseteq Nat /\ IsFiniteSet(S) /\ n \in Nat
  BY RowsFinite
<1>2. \A i \in S : /\ upTo[i] \subseteq S /\ i \in upTo[i] /\ IsFiniteSet(upTo[i])
                   /\ place[i] \in 1 .. n
  <2>1. SUFFICES ASSUME NEW i \in S
                 PROVE  /\ upTo[i] \subseteq S /\ i \in upTo[i] /\ IsFiniteSet(upTo[i])
                        /\ place[i] \in 1 .. n
    OBVIOUS
  <2> DEFINE u == upTo[i]
  <2>2. u \subseteq S /\ i \in u
    BY <1>1
  <2>4. place[i] = Cardinality(u)
    OBVIOUS
  <2> HIDE DEF u, place
  <2>3. IsFiniteSet(u) /\ Cardinality(u) \in Nat /\ Cardinality(u) <= n /\ Cardinality(u) # 0
    BY <1>1, <2>2, FS_Subset, FS_CardinalityType, FS_EmptySet
  <2> QED
    BY <1>1, <2>2, <2>3, <2>4 DEF u
<1>3. ASSUME NEW i \in S, NEW j \in S, i < j PROVE place[i] < place[j]
  <2> DEFINE u == upTo[i]
             v == upTo[j]
  <2>1. u \subseteq v /\ j \in v /\ j \notin u
    <3>1. /\ i \in Nat /\ j \in Nat /\ i < j /\ S \subseteq Nat
          /\ u = {m \in S : m <= i} /\ v = {m \in S : m <= j}
      BY <1>1, <1>3
    <3> HIDE DEF u, v
    <3>2. j \in v /\ j \notin u
      BY <3>1
    <3>3. ASSUME NEW m \in u PROVE m \in v
      <4>1. m \in S /\ m \in Nat /\ m <= i
        BY <3>1, <3>3
      <4>2. m <= j
        BY <3>1, <4>1
      <4> QED
        BY <3>1, <4>1, <4>2
    <3> QED
      BY <3>2, <3>3
  <2>2. IsFiniteSet(v) /\ place[i] = Cardinality(u) /\ place[j] = Cardinality(v)
    BY <1>2
  <2> HIDE DEF u, v, place
  <2>3. Cardinality(u) <= Cardinality(v) /\ Cardinality(u) # Cardinality(v)
    BY <2>1, <2>2, FS_Subset
  <2>4. place[i] \in Nat /\ place[j] \in Nat
    BY <1>1, <1>2 DEF place
  <2> QED
    BY <2>2, <2>3, <2>4
<1>4. \A i, j \in S : i # j => place[i] # place[j]
  <2>1. SUFFICES ASSUME NEW i \in S, NEW j \in S, i # j PROVE place[i] # place[j]
    OBVIOUS
  <2>2. i < j \/ j < i
    BY <1>1, <2>1
  <2>3. place[i] \in Nat /\ place[j] \in Nat
    BY <1>2
  <2> HIDE DEF place
  <2> QED
    BY <1>3, <2>2, <2>3
<1>5. places \subseteq 1 .. n
  BY <1>2
<1>6. Cardinality(places) = n
  <2>1. place \in Bijection(S, places)
    BY <1>4 DEF Bijection, Injection, IsInjective, Surjection
  <2> HIDE DEF place, places
  <2> QED
    BY <1>1, <2>1, FS_Bijection DEF ExistsBijection
<1>7. places = 1 .. n
  <2>1. IsFiniteSet(1 .. n) /\ Cardinality(1 .. n) = n
    <3>1. IsFiniteSet(1 .. n) /\ Cardinality(1 .. n) = IF 1 > n THEN 0 ELSE n - 1 + 1
      BY <1>1, FS_Interval
    <3> QED
      BY <1>1, <3>1
  <2> HIDE DEF places
  <2> QED
    BY <1>5, <1>6, <2>1, FS_Subset
<1>8. \E i \in S : Cardinality({j \in S : j <= i}) = k
  <2>1. PICK i \in S : place[i] = k
    BY <1>7
  <2> QED
    BY <2>1
<1> QED
  BY <1>8, SameSize DEF P!Oldest

LEMMA ColumnType ==
    ASSUME NEW S \in SUBSET Rows, NEW of \in [Rows -> Nat]
    PROVE  P!Column(S, of) \in Seq(Nat) /\ Len(P!Column(S, of)) = Cardinality(S)
<1> DEFINE n == Cardinality(S)
<1>1. n \in Nat
  BY RowsFinite
<1>2. \A k \in 1 .. n : of[P!Oldest(S)[k]] \in Nat
  BY OldestIsARow
<1> DEFINE column == [k \in 1 .. n |-> of[P!Oldest(S)[k]]]
<1>3. column \in [1 .. n -> Nat]
  BY <1>2
<1>4. P!Column(S, of) = column
  BY SameSize DEF P!Column
<1> HIDE DEF column, n
<1>5. column \in Seq(Nat) /\ Len(column) = n
  BY <1>1, <1>3
<1> QED
  BY <1>4, <1>5 DEF n

-----------------------------------------------------------------------------
(* Of the total of a sequence of prices.                                    *)

\* A sum of natural numbers counts coins: a[x] of them for each x.
Coins(a, S) == {c \in S \X Nat : 1 <= c[2] /\ c[2] <= a[c[1]]}

LEMMA CoinsAdd ==
    ASSUME NEW S, IsFiniteSet(S), NEW a, \A x \in S : a[x] \in Nat
    PROVE  /\ IsFiniteSet(Coins(a, S)) /\ Cardinality(Coins(a, S)) \in Nat
           /\ \A x \in S : Cardinality(Coins(a, S))
                             = a[x] + Cardinality(Coins(a, S \ {x}))
<1> DEFINE Purse(x) == {x} \X (1 .. a[x])
<1>1. ASSUME NEW x \in S
      PROVE  /\ IsFiniteSet(Purse(x)) /\ Cardinality(Purse(x)) = a[x]
             /\ Coins(a, S) = Purse(x) \cup Coins(a, S \ {x})
             /\ Purse(x) \cap Coins(a, S \ {x}) = {}
  <2>1. IsFiniteSet(1 .. a[x]) /\ Cardinality(1 .. a[x]) = a[x]
    BY FS_Interval
  <2>2. IsFiniteSet({x}) /\ Cardinality({x}) = 1
    BY FS_Singleton
  <2>3. Coins(a, S) = Purse(x) \cup Coins(a, S \ {x})
    BY DEF Coins
  <2>4. Purse(x) \cap Coins(a, S \ {x}) = {}
    BY DEF Coins
  <2>5. IsFiniteSet(Purse(x)) /\ Cardinality(Purse(x)) = 1 * a[x]
    BY <2>1, <2>2, FS_Product
  <2>6. a[x] \in Nat
    OBVIOUS
  <2>7. 1 * a[x] = a[x]
    BY <2>6
  <2> HIDE DEF Purse
  <2> QED
    BY <2>3, <2>4, <2>5, <2>7
<1>2. IsFiniteSet(Coins(a, S))
  <2> DEFINE value == [x \in S |-> Purse(x)]
             Purses == {Purse(x) : x \in S}
  <2>1. value \in Surjection(S, Purses)
    BY DEF Surjection
  <2>2. IsFiniteSet(Purses)
    BY <2>1, FS_Surjection
  <2>3. \A T \in Purses : IsFiniteSet(T)
    BY <1>1
  <2>4. IsFiniteSet(UNION Purses)
    BY <2>2, <2>3, FS_UNION
  <2>5. Coins(a, S) \subseteq UNION Purses
    BY DEF Coins
  <2> QED
    BY <2>4, <2>5, FS_Subset
<1>3. Cardinality(Coins(a, S)) \in Nat
  BY <1>2, FS_CardinalityType
<1>4. ASSUME NEW x \in S
      PROVE  Cardinality(Coins(a, S)) = a[x] + Cardinality(Coins(a, S \ {x}))
  <2>1. Coins(a, S \ {x}) \subseteq Coins(a, S)
    BY DEF Coins
  <2>2. IsFiniteSet(Coins(a, S \ {x})) /\ Cardinality(Coins(a, S \ {x})) \in Nat
    BY <1>2, <2>1, FS_Subset, FS_CardinalityType
  <2>3. Cardinality(Purse(x) \cap Coins(a, S \ {x})) = 0
    BY <1>1, FS_EmptySet
  <2> DEFINE rest == Coins(a, S \ {x})
  <2>4. Cardinality(Purse(x) \cup rest)
          = Cardinality(Purse(x)) + Cardinality(rest) - Cardinality(Purse(x) \cap rest)
    BY <1>1, <2>2, FS_Union
  <2>5. Cardinality(Coins(a, S)) = Cardinality(Purse(x) \cup rest)
    BY <1>1
  <2>6. Cardinality(Purse(x)) = a[x] /\ a[x] \in Nat
    BY <1>1
  <2> HIDE DEF Purse, rest
  <2>7. Cardinality(rest) \in Nat /\ Cardinality(Purse(x) \cap rest) = 0
    BY <2>2, <2>3 DEF rest
  <2>8. Cardinality(Coins(a, S)) = a[x] + Cardinality(rest)
    BY <2>4, <2>5, <2>6, <2>7
  <2> QED
    BY <2>8 DEF rest
<1> QED
  BY <1>2, <1>3, <1>4

\* What the library's sum is defined by.
PickOf(s) == CHOOSE x \in s : TRUE
Sums(a, S, f) ==
    f = [s \in SUBSET S |-> IF s = {} THEN 0 ELSE a[PickOf(s)] + f[s \ {PickOf(s)}]]

LEMMA SumCounts ==
    ASSUME NEW S, IsFiniteSet(S), NEW a, \A x \in S : a[x] \in Nat
    PROVE  (CHOOSE f : Sums(a, S, f))[S] = Cardinality(Coins(a, S))
<1> DEFINE count == [s \in SUBSET S |-> Cardinality(Coins(a, s))]
<1>1. \A s \in SUBSET S : s # {} => PickOf(s) \in s
  BY DEF PickOf
<1>2. \A s \in SUBSET S : \A x \in s : count[s] = a[x] + count[s \ {x}]
  <2> SUFFICES ASSUME NEW s \in SUBSET S, NEW x \in s
               PROVE  count[s] = a[x] + count[s \ {x}]
    OBVIOUS
  <2>1. IsFiniteSet(s)
    BY FS_Subset
  <2>2. Cardinality(Coins(a, s)) = a[x] + Cardinality(Coins(a, s \ {x}))
    BY <2>1, CoinsAdd
  <2> QED
    BY <2>2
<1>3. count[{}] = 0
  <2>1. Coins(a, {}) = {}
    BY DEF Coins
  <2> QED
    BY <2>1, FS_EmptySet
<1>4. Sums(a, S, count)
  <2> DEFINE body(s) == IF s = {} THEN 0 ELSE a[PickOf(s)] + count[s \ {PickOf(s)}]
  <2>1. \A s \in SUBSET S : count[s] = body(s)
    BY <1>1, <1>2, <1>3
  <2>2. count = [s \in SUBSET S |-> count[s]]
    OBVIOUS
  <2> HIDE DEF count
  <2> QED
    BY <2>1, <2>2 DEF Sums
<1> DEFINE sums == CHOOSE f : Sums(a, S, f)
<1>5. Sums(a, S, sums)
  BY <1>4
<1> HIDE DEF count, sums
\* Of the sets on which they differ, a smallest one shows that they do not.
<1>6. sums[S] = count[S]
  <2> DEFINE Differ == {s \in SUBSET S : sums[s] # count[s]}
  <2>1. SUFFICES ASSUME Differ # {} PROVE FALSE
    OBVIOUS
  <2>2. IsWellFoundedOn(StrictSubsetOrdering(S), FiniteSubsetsOf(S))
    BY FS_StrictSubsetOrderingWellFounded
  <2>3. FiniteSubsetsOf(S) = SUBSET S
    BY FS_FiniteSubsetsOfFinite
  <2>4. IsWellFoundedOn(StrictSubsetOrdering(S), SUBSET S)
    BY <2>2, <2>3
  <2>5. Differ \subseteq SUBSET S
    OBVIOUS
  <2> HIDE DEF Differ
  <2>6. PICK s \in Differ : \A t \in Differ : ~ (<<t, s>> \in StrictSubsetOrdering(S))
    BY <2>1, <2>4, <2>5, WFMin
  <2>7. s \in SUBSET S /\ sums[s] # count[s]
    BY DEF Differ
  <2>8. sums[s] = IF s = {} THEN 0 ELSE a[PickOf(s)] + sums[s \ {PickOf(s)}]
    BY <1>5, <2>7 DEF Sums
  <2>9. s # {}
    BY <1>3, <2>7, <2>8
  <2> DEFINE t == s \ {PickOf(s)}
  <2>10. t \in SUBSET S /\ t \subseteq s /\ t # s
    BY <1>1, <2>7, <2>9
  <2>11. <<t, s>> \in StrictSubsetOrdering(S)
    BY <2>7, <2>10 DEF StrictSubsetOrdering
  <2>12. sums[t] = count[t]
    BY <2>6, <2>10, <2>11 DEF Differ
  <2> QED
    BY <1>1, <1>2, <2>7, <2>8, <2>9, <2>12
<1>7. S \in SUBSET S
  OBVIOUS
<1> QED
  BY <1>6, <1>7 DEF sums, count

LEMMA TotalCounts ==
    ASSUME NEW v \in Seq(Nat)
    PROVE  /\ P!Total(v) = Cardinality(Coins(v, DOMAIN v)) /\ IsFiniteSet(Coins(v, DOMAIN v))
           /\ P!Total(v) \in Nat
<1>1. IsFiniteSet(DOMAIN v) /\ \A i \in DOMAIN v : v[i] \in Nat
  <2>1. PICK n \in Nat : n = Len(v)
    OBVIOUS
  <2>2. IsFiniteSet(1 .. n)
    BY FS_Interval
  <2>3. DOMAIN v = 1 .. n /\ \A i \in 1 .. n : v[i] \in Nat
    BY <2>1
  <2> QED
    BY <2>2, <2>3
<1>2. P!Total(v) = (CHOOSE f : Sums(v, DOMAIN v, f))[DOMAIN v]
  BY DEF P!Total, P!FoldSeq, P!FoldFunction, P!FoldFunctionOnSet, P!MapThenFoldSet, Sums, PickOf
<1> QED
  BY <1>1, <1>2, SumCounts, CoinsAdd

\* Prices that are not lower do not have a lower total.
LEMMA TotalKeepsOrder ==
    ASSUME NEW v \in Seq(Nat), NEW w \in Seq(Nat), Len(v) = Len(w),
           \A i \in 1 .. Len(v) : v[i] <= w[i]
    PROVE  P!Total(v) <= P!Total(w)
<1>1. DOMAIN v = 1 .. Len(v) /\ DOMAIN w = 1 .. Len(v)
      /\ \A i \in 1 .. Len(v) : v[i] \in Nat /\ w[i] \in Nat
  OBVIOUS
<1>2. Coins(v, DOMAIN v) \subseteq Coins(w, DOMAIN w)
  BY <1>1 DEF Coins
<1> QED
  BY <1>2, TotalCounts, FS_Subset

-----------------------------------------------------------------------------
(* Of the median: a value that is not below it is not below half of them.   *)

\* Appraisal sorts as Advisor does.
LEMMA SameMedian ==
    /\ \A s : P!Median2(s) = Median2(s)
    /\ \A s, v : P!AtMost(s, v) = AtMost(s, v)
BY DEF P!Median2, Median2, P!Ascending, Ascending, P!UpTo, UpTo, P!AtMost, AtMost,
       P!Cardinality, Cardinality

LEMMA Halves ==
    \A n \in Nat : n > 0 =>
        LET m == n \div 2
        IN /\ m \in Nat /\ m + 1 \in Nat /\ (n = 2 * m + 1 \/ (n = 2 * m /\ m > 0))
           /\ (n % 2 = 1 <=> n = 2 * m + 1)
OBVIOUS

LEMMA HalfBelowMedian ==
    ASSUME NEW s \in Seq(Nat), Len(s) > 0, NEW v \in Nat, 2 * v >= Median2(s)
    PROVE  2 * AtMost(s, v) >= Len(s)
<1> DEFINE low == {i \in DOMAIN s : s[i] <= v}
           a == AtMost(s, v)
           n == Len(s)
           m == n \div 2
<1>1. DOMAIN s = 1 .. n /\ n \in Nat /\ n > 0 /\ \A k \in DOMAIN s : s[k] \in Nat
  OBVIOUS
<1>2. IsFiniteSet(low) /\ a = Cardinality(low) /\ a \in Nat
  <2>1. PICK len \in Nat : len = n
    BY <1>1
  <2>2. IsFiniteSet(1 .. len)
    BY FS_Interval
  <2>3. low \subseteq 1 .. len
    BY <1>1, <2>1
  <2>4. a = Cardinality(low)
    BY DEF AtMost
  <2> HIDE DEF low, a
  <2> QED
    BY <2>2, <2>3, <2>4, FS_Subset, FS_CardinalityType
<1>3. ASSUME NEW k \in DOMAIN s, k > a PROVE Ascending(s)[k] \in Nat /\ Ascending(s)[k] > v
  <2>1. PICK i \in DOMAIN s : /\ i = CHOOSE j \in DOMAIN s : Cardinality(UpTo(s, j)) = k
                              /\ Cardinality(UpTo(s, i)) = k
    BY EveryPlaceTaken
  <2>2. Ascending(s)[k] = s[i]
    BY <2>1 DEF Ascending
  <2>3. s[i] \in Nat
    BY <1>1
  <2>4. CASE s[i] <= v
    <3>1. UpTo(s, i) \subseteq low
      BY <1>1, <2>3, <2>4, SMTT(30) DEF UpTo
    <3> HIDE DEF low, a
    <3>2. k <= a
      BY <1>2, <2>1, <3>1, FS_Subset
    <3>3. k \in Nat
      BY <1>1
    <3> QED
      BY <1>2, <1>3, <3>2, <3>3
  <2> QED
    BY <2>2, <2>3, <2>4
<1>4. Len(Ascending(s)) = n
  <2>1. Ascending(s) = [k \in 1 .. n |-> Ascending(s)[k]]
    BY <1>1 DEF Ascending
  <2> QED
    BY <1>1, <2>1
<1>5. Median2(s) = IF n % 2 = 1 THEN 2 * Ascending(s)[m + 1]
                   ELSE Ascending(s)[m] + Ascending(s)[m + 1]
  BY <1>4 DEF Median2
<1>6. m \in Nat /\ (n = 2 * m + 1 \/ (n = 2 * m /\ m > 0)) /\ m + 1 \in Nat
      /\ (n % 2 = 1 <=> n = 2 * m + 1)
  BY <1>1, Halves
<1> HIDE DEF a, m, n
<1>7. SUFFICES ASSUME 2 * a < n PROVE FALSE
  BY <1>1, <1>2 DEF a, n
<1>8. CASE n = 2 * m + 1
  <2>1. m + 1 \in DOMAIN s /\ m + 1 > a
    BY <1>1, <1>2, <1>6, <1>7, <1>8
  <2>2. Ascending(s)[m + 1] \in Nat /\ Ascending(s)[m + 1] > v
    BY <1>3, <2>1
  <2>3. Median2(s) = 2 * Ascending(s)[m + 1]
    BY <1>5, <1>6, <1>8
  <2> QED
    BY <2>2, <2>3
<1>9. CASE n = 2 * m /\ m > 0
  <2>1. m + 1 > a /\ m \in DOMAIN s /\ m > a
    BY <1>1, <1>2, <1>6, <1>7, <1>9
  <2>2. CASE m + 1 \in DOMAIN s
    <3>1. /\ Ascending(s)[m] \in Nat /\ Ascending(s)[m] > v
          /\ Ascending(s)[m + 1] \in Nat /\ Ascending(s)[m + 1] > v
      BY <1>3, <2>1, <2>2
    <3>2. Median2(s) = Ascending(s)[m] + Ascending(s)[m + 1]
      BY <1>5, <1>6, <1>9
    <3> QED
      BY <3>1, <3>2
  <2> QED
    BY <1>1, <1>6, <1>9, <2>2
<1> QED
  BY <1>6, <1>8, <1>9

-----------------------------------------------------------------------------
(* Of a trend: the first and the last part of the points.                   *)

\* Where no point is above the next, none is above a later one.
LEMMA Climbs ==
    ASSUME NEW s \in Seq(Int), \A i \in 1 .. Len(s) - 1 : s[i] <= s[i + 1],
           NEW i \in 1 .. Len(s), NEW j \in 1 .. Len(s), i <= j
    PROVE  s[i] <= s[j]
<1> DEFINE above == {k \in i .. j : s[i] <= s[k]}
<1>1. /\ \A k \in i .. j : k \in Nat /\ k \in 1 .. Len(s) /\ s[k] \in Int
      /\ i \in i .. j /\ j \in Nat
  OBVIOUS
<1>2. above \subseteq Nat /\ i \in above /\ IsFiniteSet(above)
  <2>1. IsFiniteSet(i .. j)
    BY FS_Interval
  <2>2. above \subseteq i .. j /\ i \in above
    BY <1>1
  <2>3. i .. j \subseteq Nat
    BY <1>1
  <2> HIDE DEF above
  <2> QED
    BY <2>1, <2>2, <2>3, FS_Subset
<1> DEFINE k == Max(above)
<1>3. k \in above /\ \A x \in above : k >= x
  BY <1>2, Greatest
<1>4. k \in i .. j /\ s[i] <= s[k] /\ s[i] \in Int /\ s[k] \in Int
  BY <1>1, <1>3
<1>5. ASSUME k # j PROVE FALSE
  <2>1. k \in 1 .. Len(s) - 1 /\ k + 1 \in i .. j
    BY <1>1, <1>4, <1>5
  <2>2. s[k] <= s[k + 1] /\ s[k + 1] \in Int
    BY <1>1, <2>1
  <2>3. k + 1 \in above
    BY <1>4, <2>1, <2>2
  <2> QED
    BY <1>1, <1>3, <1>4, <2>3, SMTT(30)
<1> QED
  BY <1>4, <1>5

LEMMA NegationsTurn ==
    ASSUME NEW a \in Nat, NEW b \in Nat, a >= b
    PROVE  0 - a <= 0 - b
OBVIOUS

LEMMA Sinks ==
    ASSUME NEW s \in Seq(Nat), \A i \in 1 .. Len(s) - 1 : s[i] >= s[i + 1],
           NEW i \in 1 .. Len(s), NEW j \in 1 .. Len(s), i <= j
    PROVE  s[i] >= s[j]
<1> DEFINE n == Len(s)
           t == [k \in 1 .. n |-> 0 - s[k]]
<1>1. n \in Nat /\ \A k \in 1 .. n : s[k] \in Nat
  OBVIOUS
<1>2. t \in [1 .. n -> Int] /\ \A k \in 1 .. n : t[k] = 0 - s[k]
  BY <1>1
<1> HIDE DEF t, n
<1>3. t \in Seq(Int) /\ Len(t) = n
  BY <1>1, <1>2
<1>4. \A k \in 1 .. n - 1 : t[k] <= t[k + 1]
  <2>1. SUFFICES ASSUME NEW k \in 1 .. n - 1 PROVE t[k] <= t[k + 1]
    OBVIOUS
  <2>2. k \in 1 .. n /\ k + 1 \in 1 .. n
    BY <1>1
  <2>3. s[k] >= s[k + 1]
    BY DEF n
  <2>4. s[k] \in Nat /\ s[k + 1] \in Nat
    BY <1>1, <2>2, Zenon
  <2>5. t[k] = 0 - s[k] /\ t[k + 1] = 0 - s[k + 1]
    BY <1>2, <2>2, Zenon
  <2>6. 0 - s[k] <= 0 - s[k + 1]
    BY <2>3, <2>4, NegationsTurn
  <2> QED
    BY <2>5, <2>6, Zenon
<1>5. t[i] <= t[j]
  BY <1>3, <1>4, Climbs DEF n
<1>6. i \in 1 .. n /\ j \in 1 .. n
  BY DEF n
<1>7. s[i] \in Nat /\ s[j] \in Nat /\ t[i] = 0 - s[i] /\ t[j] = 0 - s[j]
  BY <1>1, <1>2, <1>6, Zenon
<1>8. \A a, b \in Nat : 0 - a <= 0 - b => a >= b
  OBVIOUS
<1> QED
  BY <1>5, <1>7, <1>8

LEMMA TrendOfSlope ==
    ASSUME NEW s \in Seq(Nat), Len(s) > 0
    PROVE  /\ (\A i \in 1 .. Len(s) - 1 : s[i] <= s[i + 1]) => P!Direction(s) # "down"
           /\ (\A i \in 1 .. Len(s) - 1 : s[i] >= s[i + 1]) => P!Direction(s) # "up"
<1> DEFINE n == Len(s)
           chunk == IF n \div 2 > 1 THEN n \div 2 ELSE 1
           head == SubSeq(s, 1, chunk)
           tail == SubSeq(s, n - chunk + 1, n)
           first == P!Total(head)
           last == P!Total(tail)
<1>1. n \in Nat /\ n > 0 /\ chunk \in 1 .. n /\ \A i \in 1 .. n : s[i] \in Nat
  OBVIOUS
<1>2. /\ head \in Seq(Nat) /\ Len(head) = chunk
      /\ \A i \in 1 .. chunk : head[i] = s[i]
  <2> HIDE DEF chunk, n
  <2>1. n = Len(s)
    BY DEF n
  <2> QED
    BY <1>1, <2>1
<1>3. /\ tail \in Seq(Nat) /\ Len(tail) = chunk
      /\ \A i \in 1 .. chunk : tail[i] = s[n - chunk + i]
  <2> HIDE DEF chunk, n
  <2>1. n = Len(s)
    BY DEF n
  <2> QED
    BY <1>1, <2>1
<1>4. P!Direction(s) = IF 100 * (last - first) > 3 * first THEN "up"
                       ELSE IF 100 * (first - last) > 3 * first THEN "down" ELSE "flat"
  BY DEF P!Direction
<1> HIDE DEF head, tail
<1>5. first \in Nat /\ last \in Nat
  BY <1>2, <1>3, TotalCounts
<1>6. ASSUME \A i \in 1 .. Len(s) - 1 : s[i] <= s[i + 1] PROVE first <= last
  <2>1. ASSUME NEW i \in 1 .. chunk PROVE head[i] <= tail[i]
    <3>1. i \in 1 .. n /\ n - chunk + i \in 1 .. n /\ i <= n - chunk + i
      BY <1>1
    <3>2. s \in Seq(Int)
      OBVIOUS
    <3>3. s[i] <= s[n - chunk + i]
      BY <1>6, <3>1, <3>2, Climbs
    <3> QED
      BY <1>2, <1>3, <3>3
  <2> HIDE DEF chunk
  <2> QED
    BY <1>2, <1>3, <2>1, TotalKeepsOrder
<1>7. ASSUME \A i \in 1 .. Len(s) - 1 : s[i] >= s[i + 1] PROVE last <= first
  <2>1. ASSUME NEW i \in 1 .. chunk PROVE tail[i] <= head[i]
    <3>1. i \in 1 .. n /\ n - chunk + i \in 1 .. n /\ i <= n - chunk + i
      BY <1>1
    <3>2. s[i] >= s[n - chunk + i]
      BY <1>7, <3>1, Sinks
    <3>3. s[i] \in Nat /\ s[n - chunk + i] \in Nat
      BY <1>1, <3>1
    <3> QED
      BY <1>2, <1>3, <3>2, <3>3
  <2> HIDE DEF chunk
  <2> QED
    BY <1>2, <1>3, <2>1, TotalKeepsOrder
<1> HIDE DEF first, last
<1> QED
  BY <1>4, <1>5, <1>6, <1>7

\* Of two prices asked, the dearer is never in a faster class.
LEMMA DearerIsNotFaster ==
    ASSUME NEW s \in Seq(Nat), Len(s) > 0, NEW size \in Nat,
           NEW p \in Nat, NEW q \in Nat, p <= q
    PROVE  P!SaleSpeed(s, p, size) <= P!SaleSpeed(s, q, size)
<1> DEFINE m == P!Median2(s) * size
           Over(x) == 100 * (2 * x - m)
           Class(x) == IF Over(x) < -5 * m THEN 1
                       ELSE IF Over(x) <= 5 * m THEN 2
                       ELSE IF Over(x) <= 12 * m THEN 3 ELSE 4
           wide == P!Spread(s, 25)
<1>1. m \in Nat
  <2>1. P!Median2(s) \in Nat
    BY SameMedian, MedianType
  <2>2. \A a, b \in Nat : a * b \in Nat
    OBVIOUS
  <2> QED
    BY <2>1, <2>2
<1>2. /\ P!SaleSpeed(s, p, size) = IF wide THEN P!DowngradeSpeed(Class(p)) ELSE Class(p)
      /\ P!SaleSpeed(s, q, size) = IF wide THEN P!DowngradeSpeed(Class(q)) ELSE Class(q)
  BY DEF P!SaleSpeed
<1> HIDE DEF m, wide
<1>3. Class(p) \in 1 .. 4 /\ Class(q) \in 1 .. 4 /\ Class(p) <= Class(q)
  BY <1>1
<1> HIDE DEF Class
<1> QED
  BY <1>2, <1>3 DEF P!DowngradeSpeed

-----------------------------------------------------------------------------
(* What the operators of Appraisal return.                                  *)

Results == [rows : SUBSET Rows, matched : Nat, level : 0 .. 4]
Evaluations == [evaluation : {"fair_price", "underpriced", "overpriced"},
               confidence : {"HIGH", "MEDIUM", "LOW", "VERY_LOW"},
               status : {"STABLE", "HOT", "UNDERVALUED", None}]

\* The comparables that a level has among the rows of a set.
Has(S, s, level) == Cardinality(P!Priced(P!Read(S, s, level)))

LEMMA FoundType ==
    ASSUME NEW S \in SUBSET Rows, NEW s, NEW l \in 1 .. 4
    PROVE  /\ P!Found(S, s, l) \in Results /\ Has(S, s, l) \in Nat
           /\ P!Found(S, s, l).matched = Has(S, s, l) /\ P!Found(S, s, l).level = l
<1> DEFINE priced == P!Priced(P!Read(S, s, l))
<1>1. priced \subseteq S
  BY DEF P!Priced, P!Read, P!Newest
<1>2. P!Ranked(priced, s, Shown) \subseteq priced
  BY DEF P!Ranked
<1>3. P!Found(S, s, l) = [rows |-> P!Ranked(priced, s, Shown),
                          matched |-> Cardinality(priced), level |-> l]
  BY SameSize DEF P!Found
<1>4. Has(S, s, l) = Cardinality(priced)
  BY DEF Has
<1> HIDE DEF priced
<1>5. Cardinality(priced) \in Nat
  BY <1>1, RowsFinite
<1> QED
  BY <1>1, <1>2, <1>3, <1>4, <1>5 DEF Results

LEMMA AnswerType ==
    ASSUME NEW S, NEW s
    PROVE  P!Answer(S, s) \in Evaluations
<1>1. P!Evaluation(P!UsdOf(S), s.size, s.ask) \in {"fair_price", "underpriced", "overpriced"}
  BY DEF P!Evaluation
<1>2. P!Confidence(P!Cardinality(S)) \in {"HIGH", "MEDIUM", "LOW", "VERY_LOW"}
  BY DEF P!Confidence
<1> QED
  BY <1>1, <1>2 DEF P!Answer, Evaluations

\* Rounding a part of an amount gives no more than rounding the amount.
LEMMA PartRounds ==
    ASSUME NEW a \in Nat, NEW b \in Nat \ {0}, NEW part \in 0 .. 100
    PROVE  P!Round(a * part, 100 * b) <= P!Round(a, b)
<1> DEFINE x == P!Round(a * part, 100 * b)
           y == P!Round(a, b)
<1>1. a * part \in Nat /\ a * part <= 100 * a
  OBVIOUS
<1>2. PICK m \in Nat : m = a * part
  BY <1>1
<1>3. x = (2 * m + 100 * b) \div (200 * b)
  BY <1>2 DEF P!Round
<1>4. y = (2 * a + b) \div (2 * b)
  BY DEF P!Round
<1>5. \A n \in Nat, d \in Nat \ {0} : n \div d \in Nat /\ n < d * (n \div d + 1)
                                     /\ d * (n \div d) <= n
  OBVIOUS
<1>6. x \in Nat /\ y \in Nat
  BY <1>2, <1>3, <1>4, <1>5
<1>7. (200 * b) * x <= 2 * m + 100 * b
  <2>1. PICK n \in Nat, d \in Nat \ {0} : n = 2 * m + 100 * b /\ d = 200 * b
    BY <1>2
  <2>2. x = n \div d
    BY <1>3, <2>1
  <2> HIDE DEF x
  <2> QED
    BY <1>5, <2>1, <2>2
<1>8. 2 * a + b < (2 * b) * (y + 1)
  BY <1>4, <1>5
<1> HIDE DEF x, y
<1>9. (200 * b) * x <= 200 * a + 100 * b
  BY <1>1, <1>2, <1>6, <1>7
<1>10. PICK u, v \in Nat : u = b * x /\ v = b * (y + 1)
  BY <1>6
<1>11. 200 * u <= 200 * a + 100 * b /\ 2 * a + b < 2 * v
  <2>1. (200 * b) * x = 200 * u /\ (2 * b) * (y + 1) = 2 * v
    BY <1>6, <1>10
  <2> QED
    BY <1>8, <1>9, <2>1
<1>12. u < v
  BY <1>10, <1>11
<1>13. x < y + 1
  BY <1>6, <1>10, <1>12
<1> QED
  BY <1>6, <1>13 DEF x, y

LEMMA EstimateType ==
    ASSUME NEW k \in Listings, NEW S \in SUBSET Rows, S # {}
    PROVE  /\ P!Estimate(k, S).mid \in Nat /\ P!Estimate(k, S).low \in Nat
           /\ P!Estimate(k, S).low <= P!Estimate(k, S).mid
<1> DEFINE paid == [i \in Rows |-> P!BrainPrice(i)]
           values == P!Column(S, paid)
           size == ListingOf[k].size
           n == P!Total(values) * size
           d == Len(values)
           pct == IF size >= P!Large THEN 8 ELSE 6
<1>1. paid \in [Rows -> Nat]
  BY AppraisalAssumption DEF P!BrainPrice
<1>2. values \in Seq(Nat) /\ d = Cardinality(S)
  BY <1>1, ColumnType
<1>3. d \in Nat \ {0}
  BY <1>2, RowsFinite, FS_EmptySet
<1>4. size \in Nat /\ Million \in Nat \ {0}
  BY AppraisalAssumption
<1>5. P!Estimate(k, S) = [low |-> P!ToMillion(n * (100 - pct), 100 * d, Million) * Million,
                          mid |-> P!ToMillion(n, d, Million) * Million,
                          high |-> P!ToMillion(n * (100 + pct), 100 * d, Million) * Million]
  BY DEF P!Estimate, P!BrainRange
<1>6. P!Total(values) \in Nat
  BY <1>2, TotalCounts
<1>7. \A a, b \in Nat : a * b \in Nat /\ (a # 0 /\ b # 0 => a * b # 0)
  OBVIOUS
<1> HIDE DEF values, size, d
<1>8. n \in Nat
  BY <1>4, <1>6, <1>7
<1>9. 100 - pct \in Nat
  OBVIOUS
<1> HIDE DEF n, pct
<1>10. n * (100 - pct) \in Nat /\ 100 * d \in Nat \ {0}
  BY <1>3, <1>7, <1>8, <1>9
<1>11. d * Million \in Nat \ {0} /\ (100 * d) * Million \in Nat \ {0}
  BY <1>3, <1>4, <1>7, <1>10
<1>12. \A a \in Nat, b \in Nat \ {0} : P!Round(a, b) \in Nat
  BY DEF P!Round
<1>13. /\ P!ToMillion(n * (100 - pct), 100 * d, Million) \in Nat
       /\ P!ToMillion(n, d, Million) \in Nat
  BY <1>8, <1>10, <1>11, <1>12 DEF P!ToMillion
<1>14. P!ToMillion(n * (100 - pct), 100 * d, Million) <= P!ToMillion(n, d, Million)
  <2>1. 100 - pct \in 0 .. 100
    BY DEF pct
  <2>2. (100 * d) * Million = 100 * (d * Million)
    BY <1>3, <1>4
  <2> HIDE DEF pct
  <2> QED
    BY <1>8, <1>11, <2>1, <2>2, PartRounds DEF P!ToMillion
<1>15. \A a, b, c \in Nat : a <= b => a * c <= b * c
  OBVIOUS
<1> QED
  BY <1>4, <1>5, <1>7, <1>13, <1>14, <1>15

-----------------------------------------------------------------------------
(* The inductive invariant of Appraisal.  `u` stands for the usable rows.   *)

Targets == {"OPTIMAL", "FAST", "RAISE_TO_OPTIMAL"}
Tips == [label : {"OVERPRICED", "UNDERPRICED", "FAIR", "MISSING_FIELDS", "NO_MARKET_DATA",
                  None},
         asked : Nat, rows : SUBSET Rows]
Inquiries ==
    [pc : {"idle", "search", "stats", "analyze", "advised", "estimate", "update", "done",
           "refused"},
     kind : {"evaluate", "investment", "insights", "simulate", "analysis", "apply", None},
     of : Subjects \cup Listings \cup {None}, target : Targets \cup {None},
     level : 0 .. 4, best : Results, since : SUBSET Rows, moved : BOOLEAN,
     sample : SUBSET Rows, answer : Evaluations \cup {None}, newPrice : Nat,
     advice : Tips, shown : Nat]

AppraisalTypes ==
    /\ table \subseteq Rows /\ outlier \subseteq Rows
    /\ price \in [Listings -> Nat]
    /\ request \in [Reqs -> Inquiries]

\* The best of the first n levels, as long as the table stands still.
BestOf(q, n) ==
    /\ n > 0 => q.best.level \in 1 .. n
    /\ n = 0 => q.best.level = 0
    /\ \A l \in 1 .. n : /\ Has(q.since, q.of, l) < Needed[l]
                         /\ Has(q.since, q.of, l) <= q.best.matched
                         /\ l < q.best.level => Has(q.since, q.of, l) < q.best.matched
Underway(q, u) ==
    /\ q.level \in 1 .. 4 /\ q.since \subseteq u
    /\ ~q.moved => q.since = u /\ BestOf(q, q.level - 1)

\* What NarrowestThatSuffices and PresentMeansFound say of one request.
Narrowest(q) ==
    LET b == q.best
    IN ~q.moved =>
         /\ \A level \in 1 .. 4 : level < b.level => Has(q.since, q.of, level) < Needed[level]
         /\ b.matched < Needed[b.level] =>
              \A level \in 1 .. 4 :
                 /\ Has(q.since, q.of, level) <= b.matched
                 /\ level < b.level => Has(q.since, q.of, level) < b.matched
FoundIfPresent(q) ==
    Cardinality(Rows) <= Take =>
        ((\E i \in P!Priced(q.since) : P!Matches(i, q.of, 4)) => q.best.matched > 0)

\* What an owner was told of a listing, and the action that was taken of it.
Judged(q) ==
    /\ q.advice.rows # {}
    /\ q.advice.label = P!Label(q.advice.asked, P!Estimate(q.of, q.advice.rows).mid)
Chosen(q) ==
    <<q.target, q.shown>>
        \in P!Suggested(q.advice.label, P!Estimate(q.of, q.advice.rows))

Searches == {"evaluate", "investment"}
Good(q, u) ==
    /\ q.pc = "idle" => q.best = P!NoComparables /\ ~q.moved /\ q.advice = P!NoAdvice
    /\ q.pc = "search" => Underway(q, u)
    /\ q.pc \in {"search", "stats"} => q.kind \in Searches
    /\ q.pc = "stats" => q.answer \in Evaluations
    /\ q.pc # "idle" /\ q.kind \in Searches => q.of \in Subjects
    /\ q.pc \in {"stats", "done"} /\ q.kind \in Searches => Narrowest(q) /\ FoundIfPresent(q)
    /\ q.pc = "done" /\ q.kind \in {"insights", "simulate"}
         => q.of \in Subjects /\ Cardinality(q.sample) >= Fewest
    /\ q.pc \in {"analyze", "advised"} => q.kind = "analysis" /\ q.of \in Listings
    /\ q.pc = "advised" => Judged(q)
    /\ q.pc \in {"estimate", "update"} =>
         /\ q.kind = "apply" /\ q.of \in Listings /\ q.target \in Targets
         /\ q.advice.label # None => Judged(q) /\ Chosen(q)
    /\ q.pc = "update" =>
         /\ q.sample # {}
         /\ q.newPrice = P!TargetPrice(q.target, P!Estimate(q.of, q.sample))

AppraisalInv ==
    /\ AppraisalTypes
    /\ \A r \in Reqs : Good(request[r], P!Usable)

\* A step of a request that writes nothing but its own variables.
LEMMA LocalKeeps ==
    ASSUME AppraisalInv, NEW r \in Reqs, NEW v \in Inquiries, Good(v, P!Usable), P!Local(r, v)
    PROVE  AppraisalInv'
<1>1. /\ request' = [request EXCEPT ![r] = v]
      /\ table' = table /\ outlier' = outlier /\ price' = price
  BY DEF P!Local
<1>2. AppraisalTypes'
  BY <1>1 DEF AppraisalInv, AppraisalTypes
<1>3. P!Usable' = P!Usable
  BY <1>1 DEF P!Usable
<1>4. \A q \in Reqs : Good(request[q], P!Usable)'
  <2>1. SUFFICES ASSUME NEW q \in Reqs PROVE Good(request'[q], P!Usable')
    OBVIOUS
  <2>2. request'[q] = IF q = r THEN v ELSE request[q]
    BY <1>1 DEF AppraisalInv, AppraisalTypes
  <2>3. Good(request[q], P!Usable)
    BY DEF AppraisalInv
  <2>4. Good(request'[q], P!Usable)
    BY <2>2, <2>3
  <2> QED
    BY <1>3, <2>4
<1> QED
  BY <1>2, <1>4 DEF AppraisalInv

\* A request before its step.
LEMMA OfRequest ==
    ASSUME AppraisalInv, NEW r \in Reqs
    PROVE  /\ request[r] \in Inquiries /\ Good(request[r], P!Usable)
           /\ P!Usable \subseteq Rows
BY DEF AppraisalInv, AppraisalTypes, P!Usable

LEMMA EvaluateStep ==
    ASSUME AppraisalInv, NEW r \in Reqs, P!Evaluate(r)
    PROVE  AppraisalInv'
<1>1. PICK s \in Subjects, kind \in Searches :
          P!Local(r, [request[r] EXCEPT !.pc = "search", !.kind = kind, !.of = s,
                                        !.level = 1, !.since = P!Usable])
  BY DEF P!Evaluate, Searches
<1>2. PICK u : u = P!Usable
  OBVIOUS
<1>3. PICK q : q = request[r]
  OBVIOUS
<1>4. q \in Inquiries /\ Good(q, u) /\ u \subseteq Rows /\ q.pc = "idle"
  BY <1>2, <1>3, OfRequest DEF P!Evaluate
<1>5. PICK v : v = [q EXCEPT !.pc = "search", !.kind = kind, !.of = s, !.level = 1,
                             !.since = u]
  OBVIOUS
<1>6. v \in Inquiries
  <2>1. kind \in {"evaluate", "investment"} /\ u \in SUBSET Rows /\ s \in Subjects
    BY <1>4 DEF Searches
  <2>2. PICK w : w = [q EXCEPT !.pc = "search", !.kind = kind, !.of = s]
    OBVIOUS
  <2>3. w \in Inquiries
    BY <1>4, <2>1, <2>2 DEF Inquiries
  <2>4. [w EXCEPT !.level = 1, !.since = u] \in Inquiries
    <3>1. PICK x : x = [w EXCEPT !.level = 1]
      OBVIOUS
    <3>2. x \in Inquiries
      BY <2>3, <3>1 DEF Inquiries
    <3>3. [x EXCEPT !.since = u] \in Inquiries
      BY <2>1, <3>2 DEF Inquiries
    <3>4. [w EXCEPT !.level = 1, !.since = u] = [x EXCEPT !.since = u]
      BY <2>3, <3>1 DEF Inquiries
    <3> QED
      BY <3>3, <3>4
  <2>5. v = [w EXCEPT !.level = 1, !.since = u]
    BY <1>4, <1>5, <2>2 DEF Inquiries
  <2> QED
    BY <2>4, <2>5
<1>7. /\ v.pc = "search" /\ v.kind = kind /\ v.of = s /\ v.level = 1 /\ v.since = u
      /\ v.best = q.best /\ v.moved = q.moved
  BY <1>4, <1>5 DEF Inquiries
<1>8. Underway(v, u)
  <2>1. v.best.level = 0
    BY <1>4, <1>7 DEF Good, P!NoComparables
  <2> QED
    BY <1>7, <2>1 DEF Underway, BestOf
<1>9. Good(v, u)
  BY <1>7, <1>8 DEF Good
<1>10. P!Local(r, v)
  BY <1>1, <1>2, <1>3, <1>5
<1> QED
  BY <1>2, <1>6, <1>9, <1>10, LocalKeeps

\* The results a search works with.
LEMMA Sighted ==
    ASSUME NEW q \in Inquiries, NEW u \in SUBSET Rows, Underway(q, u)
    PROVE  LET now == P!Found(u, q.of, q.level)
               best == P!Better(q.best, now)
           IN /\ now \in Results /\ best \in Results /\ best \in {q.best, now}
              /\ q.best \in Results /\ best.matched >= now.matched
              /\ now.matched = Has(u, q.of, q.level) /\ now.level = q.level
<1>1. q.level \in 1 .. 4 /\ q.best \in Results
  BY DEF Underway, Inquiries
<1> DEFINE now == P!Found(u, q.of, q.level)
<1>2. /\ now \in Results /\ now.matched = Has(u, q.of, q.level) /\ now.level = q.level
  BY <1>1, FoundType
<1>3. now.matched \in Nat /\ q.best.matched \in Nat
  BY <1>1, <1>2 DEF Results
<1> HIDE DEF now
<1>4. P!Better(q.best, now) \in {q.best, now} /\ P!Better(q.best, now).matched >= now.matched
  BY <1>3 DEF P!Better
<1> QED
  BY <1>1, <1>2, <1>4 DEF now

\* What is kept after a level that was not enough is the best so far.
LEMMA BestGoesOn ==
    ASSUME NEW q \in Inquiries, NEW u \in SUBSET Rows, Underway(q, u), ~q.moved,
           P!Found(u, q.of, q.level).matched < Needed[q.level],
           NEW v, v.best = P!Better(q.best, P!Found(u, q.of, q.level)),
           v.since = q.since, v.of = q.of
    PROVE  BestOf(v, q.level)
<1> DEFINE now == P!Found(u, q.of, q.level)
           h == [l \in 1 .. 4 |-> Has(u, q.of, l)]
           n == q.level
           b == q.best
<1>1. n \in 1 .. 4 /\ q.since = u /\ BestOf(q, n - 1)
  BY DEF Underway
<1>2. \A l \in 1 .. 4 : h[l] \in Nat /\ h[l] = Has(u, q.of, l)
  BY FoundType
<1>3. now.matched = h[n] /\ now.level = n /\ b \in Results
  BY <1>1, Sighted
<1>4. b.matched \in Nat /\ b.level \in 0 .. 4 /\ Needed \in [1 .. 4 -> Nat \ {0}]
  BY <1>3, AppraisalAssumption DEF Results
<1>5. /\ n > 1 => b.level \in 1 .. n - 1
      /\ n = 1 => b.level = 0
      /\ \A l \in 1 .. n - 1 : /\ h[l] < Needed[l] /\ h[l] <= b.matched
                               /\ l < b.level => h[l] < b.matched
  BY <1>1, <1>2 DEF BestOf
<1>6. h[n] < Needed[n]
  BY <1>3
<1>7. v.best = IF b.level = 0 \/ now.matched > b.matched THEN now ELSE b
  BY DEF P!Better
<1>8. v.since = u /\ v.of = q.of /\ \A l \in 1 .. n : l \in 1 .. 4
  BY <1>1
<1> HIDE DEF now, h, n, b
<1>9. \A l \in 1 .. n : /\ h[l] \in Nat /\ Needed[l] \in Nat /\ l \in Nat
                        /\ l = n \/ l \in 1 .. n - 1
  BY <1>1, <1>2, <1>4
<1>10. /\ v.best.level \in 1 .. n
       /\ \A l \in 1 .. n : /\ h[l] < Needed[l] /\ h[l] <= v.best.matched
                            /\ l < v.best.level => h[l] < v.best.matched
  <2>1. CASE v.best = now
    <3>1. \A l \in 1 .. n - 1 : h[l] < now.matched
      BY <1>1, <1>3, <1>4, <1>5, <1>7, <1>9, <2>1
    <3> QED
      BY <1>1, <1>3, <1>5, <1>6, <1>9, <2>1, <3>1
  <2>2. CASE v.best = b /\ ~(b.level = 0 \/ now.matched > b.matched)
    <3>1. h[n] <= b.matched /\ b.level \in 1 .. n - 1
      BY <1>1, <1>3, <1>4, <1>5, <1>9, <2>2
    <3> QED
      BY <1>1, <1>4, <1>5, <1>6, <1>9, <2>2, <3>1
  <2> QED
    BY <1>7, <2>1, <2>2
<1>11. n > 0
  BY <1>1
<1>12. \A l \in 1 .. n : h[l] = Has(v.since, v.of, l)
  BY <1>2, <1>8
<1> QED
  BY <1>10, <1>11, <1>12 DEF BestOf, n

\* The widest level reads a row that was there all the time.
LEMMA WidestReadsIt ==
    ASSUME NEW u \in SUBSET Rows, NEW s, Cardinality(Rows) <= Take,
           NEW i \in P!Priced(u), P!Matches(i, s, 4)
    PROVE  Has(u, s, 4) > 0
<1> DEFINE like == {j \in u : P!Matches(j, s, 4)}
           newer == {j \in like : j > i}
           found == P!Priced(P!Read(u, s, 4))
<1>1. i \in u /\ i \in like /\ like \subseteq Rows /\ i \in Rows
  BY DEF P!Priced
<1>2. newer \subseteq Rows /\ i \notin newer
  BY <1>1, AppraisalAssumption
<1>3. Cardinality(newer) < Take
  <2> HIDE DEF newer
  <2>1. Cardinality(newer) \in Nat /\ Cardinality(Rows) \in Nat /\ IsFiniteSet(Rows)
    BY <1>2, RowsFinite
  <2>2. Cardinality(newer) <= Cardinality(Rows) /\ Cardinality(newer) # Cardinality(Rows)
    BY <1>1, <1>2, <2>1, FS_Subset
  <2>3. Take \in Nat
    BY AppraisalAssumption
  <2> QED
    BY <2>1, <2>2, <2>3
<1>4. i \in P!Read(u, s, 4)
  BY <1>1, <1>3, SameSize DEF P!Read, P!Newest
<1>5. i \in found
  BY <1>4 DEF P!Priced
<1>6. found \subseteq Rows
  BY DEF P!Priced, P!Read, P!Newest
<1>7. Has(u, s, 4) = Cardinality(found)
  BY DEF Has
<1> HIDE DEF found
<1>8. Cardinality(found) \in Nat /\ Cardinality(found) # 0
  BY <1>5, <1>6, RowsFinite, FS_EmptySet
<1> QED
  BY <1>7, <1>8

\* A search that goes on to the next level.
LEMMA NextLevelStep ==
    ASSUME AppraisalInv, NEW r \in Reqs, NEW q, q = request[r], NEW u, u = P!Usable,
           q.pc = "search", q.level < 4,
           P!Found(u, q.of, q.level).matched < Needed[q.level],
           NEW b, b = P!Better(q.best, P!Found(u, q.of, q.level)),
           P!Local(r, [q EXCEPT !.level = q.level + 1, !.best = b])
    PROVE  AppraisalInv'
<1>1. q \in Inquiries /\ Good(q, u) /\ u \in SUBSET Rows
  BY OfRequest
<1>2. Underway(q, u) /\ q.kind \in Searches /\ q.of \in Subjects
  BY <1>1 DEF Good
<1>3. b \in Results
  BY <1>1, <1>2, Sighted
<1>4. q.level \in 1 .. 4 /\ q.level + 1 \in 0 .. 4
  BY <1>2 DEF Underway
<1>5. PICK v : v = [q EXCEPT !.level = q.level + 1, !.best = b]
  OBVIOUS
<1>6. v \in Inquiries
  BY <1>1, <1>3, <1>4, <1>5 DEF Inquiries
<1>7. /\ v.pc = "search" /\ v.kind = q.kind /\ v.of = q.of /\ v.level = q.level + 1
      /\ v.since = q.since /\ v.best = b /\ v.moved = q.moved
  BY <1>1, <1>5 DEF Inquiries
<1>8. ~q.moved => BestOf(v, q.level)
  BY <1>1, <1>2, <1>7, BestGoesOn
<1>9. v.level - 1 = q.level
  BY <1>4, <1>7
<1>10. Underway(v, u)
  BY <1>2, <1>4, <1>7, <1>8, <1>9 DEF Underway
<1>11. Good(v, u)
  BY <1>2, <1>7, <1>10 DEF Good
<1> QED
  BY <1>5, <1>6, <1>11, LocalKeeps

\* A search that answers from what it found on this level or before.
LEMMA AnsweredStep ==
    ASSUME AppraisalInv, NEW r \in Reqs, NEW q, q = request[r], NEW u, u = P!Usable,
           q.pc = "search", NEW b,
           \/ /\ P!Found(u, q.of, q.level).matched >= Needed[q.level]
              /\ b = P!Found(u, q.of, q.level)
           \/ /\ P!Found(u, q.of, q.level).matched < Needed[q.level] /\ q.level = 4
              /\ b = P!Better(q.best, P!Found(u, q.of, q.level)),
           P!Local(r, [q EXCEPT !.pc = IF q.kind = "investment" THEN "stats" ELSE "done",
                                !.best = b, !.answer = P!Answer(b.rows, q.of)])
    PROVE  AppraisalInv'
<1>1. q \in Inquiries /\ Good(q, u) /\ u \in SUBSET Rows
  BY OfRequest
<1>2. Underway(q, u) /\ q.kind \in Searches /\ q.of \in Subjects
  BY <1>1 DEF Good
<1> DEFINE now == P!Found(u, q.of, q.level)
<1>3. /\ now \in Results /\ b \in Results /\ now.matched = Has(u, q.of, q.level)
      /\ now.level = q.level /\ b.matched >= now.matched
  <2>1. now \in Results /\ now.matched \in Nat
    BY <1>1, <1>2, Sighted DEF Results
  <2> QED
    BY <1>1, <1>2, <2>1, Sighted
<1>4. q.level \in 1 .. 4 /\ q.since \subseteq u /\ Needed \in [1 .. 4 -> Nat \ {0}]
      /\ now.matched \in Nat /\ b.matched \in Nat
  BY <1>2, <1>3, AppraisalAssumption DEF Underway, Results
<1>5. PICK pc, answer : /\ pc = (IF q.kind = "investment" THEN "stats" ELSE "done")
                        /\ answer = P!Answer(b.rows, q.of)
  OBVIOUS
<1>6. pc \in {"stats", "done"} /\ answer \in Evaluations
  BY <1>5, AnswerType
<1>7. PICK v : v = [q EXCEPT !.pc = pc, !.best = b, !.answer = answer]
  OBVIOUS
<1>8. v \in Inquiries
  BY <1>1, <1>3, <1>6, <1>7 DEF Inquiries
<1>9. /\ v.pc = pc /\ v.kind = q.kind /\ v.of = q.of /\ v.best = b /\ v.since = q.since
      /\ v.moved = q.moved /\ v.answer = answer
  BY <1>1, <1>7 DEF Inquiries
<1>10. Narrowest(v)
  <2>1. SUFFICES ASSUME ~q.moved PROVE Narrowest(v)
    BY <1>9 DEF Narrowest
  <2>2. q.since = u /\ BestOf(q, q.level - 1)
    BY <1>2, <2>1 DEF Underway
  <2>3. CASE now.matched >= Needed[q.level] /\ b = now
    <3>1. ~(b.matched < Needed[b.level]) /\ b.level = q.level
      BY <1>3, <1>4, <2>3
    <3>2. \A l \in 1 .. 4 : l < b.level => Has(q.since, q.of, l) < Needed[l]
      BY <1>4, <2>2, <3>1 DEF BestOf
    <3> QED
      BY <1>9, <3>1, <3>2 DEF Narrowest
  <2>4. CASE now.matched < Needed[q.level] /\ q.level = 4 /\ b = P!Better(q.best, now)
    <3>1. BestOf(v, 4)
      BY <1>1, <1>2, <1>9, <2>1, <2>4, BestGoesOn
    <3> QED
      BY <3>1 DEF BestOf, Narrowest
  <2> QED
    BY <2>3, <2>4
<1>11. FoundIfPresent(v)
  <2>1. SUFFICES ASSUME Cardinality(Rows) <= Take,
                        NEW i \in P!Priced(q.since), P!Matches(i, q.of, 4)
                 PROVE  b.matched > 0
    BY <1>9 DEF FoundIfPresent
  <2>2. CASE now.matched >= Needed[q.level] /\ b = now
    BY <1>4, <2>2
  <2>3. CASE q.level = 4
    <3>1. i \in P!Priced(u)
      BY <1>4 DEF P!Priced
    <3>2. Has(u, q.of, 4) > 0
      BY <1>1, <2>1, <3>1, WidestReadsIt
    <3> QED
      BY <1>3, <1>4, <2>3, <3>2
  <2> QED
    BY <2>2, <2>3
<1>12. Good(v, u)
  BY <1>2, <1>6, <1>9, <1>10, <1>11 DEF Good, Searches
<1>13. P!Local(r, v)
  BY <1>5, <1>7
<1> QED
  BY <1>8, <1>12, <1>13, LocalKeeps

LEMMA SearchStep ==
    ASSUME AppraisalInv, NEW r \in Reqs, P!Search(r)
    PROVE  AppraisalInv'
<1>1. PICK q, u : q = request[r] /\ u = P!Usable
  OBVIOUS
<1>2. PICK now, best : now = P!Found(u, q.of, q.level) /\ best = P!Better(q.best, now)
  OBVIOUS
<1>3. q.pc = "search"
  BY <1>1 DEF P!Search
<1>4. CASE /\ now.matched >= Needed[q.level]
           /\ P!Local(r, [q EXCEPT !.pc = IF q.kind = "investment" THEN "stats" ELSE "done",
                                   !.best = now, !.answer = P!Answer(now.rows, q.of)])
  BY <1>1, <1>2, <1>3, <1>4, AnsweredStep
<1>5. CASE /\ now.matched < Needed[q.level] /\ q.level < 4
           /\ P!Local(r, [q EXCEPT !.level = q.level + 1, !.best = best])
  BY <1>1, <1>2, <1>3, <1>5, NextLevelStep
<1>6. CASE /\ now.matched < Needed[q.level] /\ q.level = 4
           /\ P!Local(r, [q EXCEPT !.pc = IF q.kind = "investment" THEN "stats" ELSE "done",
                                   !.best = best, !.answer = P!Answer(best.rows, q.of)])
  BY <1>1, <1>2, <1>3, <1>6, AnsweredStep
<1> QED
  BY <1>1, <1>2, <1>4, <1>5, <1>6 DEF P!Search, P!LastLevel

LEMMA DistrictStatsStep ==
    ASSUME AppraisalInv, NEW r \in Reqs, P!DistrictStats(r)
    PROVE  AppraisalInv'
<1>1. PICK q, u : q = request[r] /\ u = P!Usable
  OBVIOUS
<1>2. q \in Inquiries /\ Good(q, u) /\ u \in SUBSET Rows /\ q.pc = "stats"
  BY <1>1, OfRequest DEF P!DistrictStats
<1>3. PICK city : city = {i \in u : RowOf[i].usd \in Plausible}
  OBVIOUS
<1>4. PICK district : district = {i \in city : RowOf[i].district = q.of.district}
  OBVIOUS
<1>5. PICK status : status = IF district = {} THEN "STABLE"
                             ELSE P!MarketStatus(P!UsdOf(district), P!UsdOf(city))
  OBVIOUS
<1>6. status \in {"STABLE", "HOT", "UNDERVALUED", None} /\ district \in SUBSET Rows
  <2>1. P!MarketStatus(P!UsdOf(district), P!UsdOf(city)) \in {"STABLE", "HOT", "UNDERVALUED"}
    BY DEF P!MarketStatus
  <2> QED
    BY <1>2, <1>3, <1>4, <1>5, <2>1
<1>7. PICK answer : answer = [q.answer EXCEPT !.status = status]
  OBVIOUS
<1>8. answer \in Evaluations
  <2>1. q.answer \in Evaluations
    BY <1>2 DEF Good
  <2> QED
    BY <1>6, <1>7, <2>1 DEF Evaluations
<1>9. PICK v : v = [q EXCEPT !.pc = "done", !.sample = district, !.answer = answer]
  OBVIOUS
<1>10. v \in Inquiries
  BY <1>2, <1>6, <1>8, <1>9 DEF Inquiries
<1>11. /\ v.pc = "done" /\ v.kind = q.kind /\ v.of = q.of /\ v.best = q.best
       /\ v.since = q.since /\ v.moved = q.moved
  BY <1>2, <1>9 DEF Inquiries
<1>12. Good(v, u)
  BY <1>2, <1>11 DEF Good, Searches, Narrowest, FoundIfPresent
<1>13. P!Local(r, v)
  <2>1. P!Local(r, [q EXCEPT !.pc = "done", !.sample = district, !.answer.status = status])
    BY <1>1, <1>3, <1>4, <1>5 DEF P!DistrictStats
  <2>2. v = [q EXCEPT !.pc = "done", !.sample = district, !.answer.status = status]
    BY <1>2, <1>7, <1>9 DEF Inquiries
  <2> QED
    BY <2>1, <2>2
<1> QED
  BY <1>1, <1>10, <1>12, <1>13, LocalKeeps

LEMMA AnswerFromStep ==
    ASSUME AppraisalInv, NEW r \in Reqs, request[r].pc = "idle",
           NEW s \in Subjects, NEW kind \in {"insights", "simulate"}, P!AnswerFrom(r, kind, s)
    PROVE  AppraisalInv'
<1>1. PICK q, u : q = request[r] /\ u = P!Usable
  OBVIOUS
<1>2. q \in Inquiries /\ u \in SUBSET Rows
  BY <1>1, OfRequest
<1>3. PICK sample : sample = P!Sampled(s)
  OBVIOUS
<1>4. sample \in SUBSET Rows
  BY <1>1, <1>2, <1>3 DEF P!Sampled, P!InSyp
<1>5. PICK pc : pc = IF Cardinality(sample) < Fewest THEN "refused" ELSE "done"
  OBVIOUS
<1>6. PICK v : v = [q EXCEPT !.kind = kind, !.of = s, !.sample = sample, !.pc = pc]
  OBVIOUS
<1>7. v \in Inquiries
  <2>1. PICK w : w = [q EXCEPT !.kind = kind, !.of = s]
    OBVIOUS
  <2>2. w \in Inquiries
    BY <1>2, <2>1 DEF Inquiries
  <2>3. [w EXCEPT !.sample = sample, !.pc = pc] \in Inquiries
    BY <1>4, <1>5, <2>2 DEF Inquiries
  <2>4. v = [w EXCEPT !.sample = sample, !.pc = pc]
    BY <1>2, <1>6, <2>1 DEF Inquiries
  <2> QED
    BY <2>3, <2>4
<1>8. v.pc = pc /\ v.kind = kind /\ v.of = s /\ v.sample = sample
  BY <1>2, <1>6 DEF Inquiries
<1>9. pc = "done" => Cardinality(sample) >= Fewest
  <2>1. Cardinality(sample) \in Nat /\ Fewest \in Nat
    BY <1>4, RowsFinite, AppraisalAssumption
  <2> QED
    BY <1>5, <2>1
<1>10. Good(v, u)
  BY <1>5, <1>8, <1>9 DEF Good, Searches
<1>11. P!Local(r, v)
  BY <1>1, <1>3, <1>5, <1>6, SameSize DEF P!AnswerFrom
<1> QED
  BY <1>1, <1>7, <1>10, <1>11, LocalKeeps

\* An analysis reads the listing, then the rows.
LEMMA AnalyzeStep ==
    ASSUME AppraisalInv, NEW r \in Reqs, P!Analyze(r)
    PROVE  AppraisalInv'
<1>1. PICK q, u : q = request[r] /\ u = P!Usable
  OBVIOUS
<1>2. q \in Inquiries /\ Good(q, u) /\ q.pc = "idle"
  BY <1>1, OfRequest DEF P!Analyze
<1>3. PICK k \in Listings :
          LET w == [q EXCEPT !.kind = "analysis", !.of = k, !.advice.asked = price[k]]
          IN \/ P!Local(r, [w EXCEPT !.pc = "done", !.advice.label = "MISSING_FIELDS"])
             \/ P!Local(r, [w EXCEPT !.pc = "analyze"])
  BY <1>1 DEF P!Analyze
<1>4. PICK tip : tip = [q.advice EXCEPT !.asked = price[k]]
  OBVIOUS
<1>5. tip \in Tips
  <2>1. q.advice \in Tips /\ price[k] \in Nat
    BY <1>2 DEF Inquiries, AppraisalInv, AppraisalTypes
  <2> QED
    BY <1>4, <2>1 DEF Tips
<1>6. PICK w : w = [q EXCEPT !.kind = "analysis", !.of = k, !.advice = tip]
  OBVIOUS
<1>7. w = [q EXCEPT !.kind = "analysis", !.of = k, !.advice.asked = price[k]]
  BY <1>2, <1>4, <1>6 DEF Inquiries
<1>8. /\ w \in Inquiries /\ w.kind = "analysis" /\ w.of = k /\ w.advice = tip
  BY <1>2, <1>5, <1>6 DEF Inquiries
<1>9. CASE P!Local(r, [w EXCEPT !.pc = "done", !.advice.label = "MISSING_FIELDS"])
  <2>1. PICK last : last = [tip EXCEPT !.label = "MISSING_FIELDS"]
    OBVIOUS
  <2>2. last \in Tips
    BY <1>5, <2>1 DEF Tips
  <2>3. PICK v : v = [w EXCEPT !.pc = "done", !.advice = last]
    OBVIOUS
  <2>4. v = [w EXCEPT !.pc = "done", !.advice.label = "MISSING_FIELDS"]
    BY <1>8, <2>1, <2>3 DEF Inquiries
  <2>5. v \in Inquiries /\ v.pc = "done" /\ v.kind = "analysis"
    BY <1>8, <2>2, <2>3 DEF Inquiries
  <2>6. Good(v, u)
    BY <2>5 DEF Good, Searches
  <2> QED
    BY <1>1, <1>9, <2>4, <2>5, <2>6, LocalKeeps
<1>10. CASE P!Local(r, [w EXCEPT !.pc = "analyze"])
  <2>1. PICK v : v = [w EXCEPT !.pc = "analyze"]
    OBVIOUS
  <2>2. v \in Inquiries /\ v.pc = "analyze" /\ v.kind = "analysis" /\ v.of = k
    BY <1>8, <2>1 DEF Inquiries
  <2>3. Good(v, u)
    BY <2>2 DEF Good, Searches
  <2> QED
    BY <1>1, <1>10, <2>1, <2>2, <2>3, LocalKeeps
<1> QED
  BY <1>3, <1>7, <1>9, <1>10

LEMMA AnalyzeEstimateStep ==
    ASSUME AppraisalInv, NEW r \in Reqs, P!AnalyzeEstimate(r)
    PROVE  AppraisalInv'
<1>1. PICK q, u : q = request[r] /\ u = P!Usable
  OBVIOUS
<1>2. /\ q \in Inquiries /\ u \in SUBSET Rows /\ q.pc = "analyze"
      /\ q.kind = "analysis" /\ q.of \in Listings
  BY <1>1, OfRequest DEF P!AnalyzeEstimate, Good
<1>3. PICK rows : rows = P!BrainRows(q.of)
  OBVIOUS
<1>4. rows \in SUBSET Rows
  BY <1>1, <1>2, <1>3 DEF P!BrainRows
<1>5. q.advice \in Tips
  BY <1>2 DEF Inquiries
<1>6. CASE P!Local(r, [q EXCEPT !.pc = "done", !.advice.label = "NO_MARKET_DATA"])
  <2>1. PICK tip : tip = [q.advice EXCEPT !.label = "NO_MARKET_DATA"]
    OBVIOUS
  <2>2. tip \in Tips
    BY <1>5, <2>1 DEF Tips
  <2>3. PICK v : v = [q EXCEPT !.pc = "done", !.advice = tip]
    OBVIOUS
  <2>4. v = [q EXCEPT !.pc = "done", !.advice.label = "NO_MARKET_DATA"]
    BY <1>2, <2>1, <2>3 DEF Inquiries
  <2>5. v \in Inquiries /\ v.pc = "done" /\ v.kind = "analysis"
    BY <1>2, <2>2, <2>3 DEF Inquiries
  <2>6. Good(v, u)
    BY <2>5 DEF Good, Searches
  <2> QED
    BY <1>1, <1>6, <2>4, <2>5, <2>6, LocalKeeps
<1>7. PICK label : label = P!Label(q.advice.asked, P!Estimate(q.of, rows).mid)
  OBVIOUS
<1>8. CASE /\ rows # {}
           /\ P!Local(r, [q EXCEPT !.pc = "advised", !.advice.rows = rows,
                                   !.advice.label = label])
  <2>1. PICK tip : tip = [q.advice EXCEPT !.rows = rows, !.label = label]
    OBVIOUS
  <2>2. label \in {"OVERPRICED", "UNDERPRICED", "FAIR"}
    BY <1>7 DEF P!Label
  <2>3. tip \in Tips
    BY <1>4, <1>5, <2>1, <2>2 DEF Tips
  <2>4. tip.rows = rows /\ tip.label = label /\ tip.asked = q.advice.asked
    BY <1>5, <2>1 DEF Tips
  <2>5. PICK v : v = [q EXCEPT !.pc = "advised", !.advice = tip]
    OBVIOUS
  <2>6. v = [q EXCEPT !.pc = "advised", !.advice.rows = rows, !.advice.label = label]
    BY <1>2, <2>1, <2>5 DEF Inquiries
  <2>7. /\ v \in Inquiries /\ v.pc = "advised" /\ v.kind = "analysis" /\ v.of = q.of
        /\ v.advice = tip
    BY <1>2, <2>3, <2>5 DEF Inquiries
  <2>8. Judged(v)
    BY <1>7, <1>8, <2>4, <2>7 DEF Judged
  <2>9. Good(v, u)
    BY <1>2, <2>7, <2>8 DEF Good, Searches
  <2> QED
    BY <1>1, <1>8, <2>6, <2>7, <2>9, LocalKeeps
<1> QED
  BY <1>1, <1>3, <1>6, <1>7, <1>8 DEF P!AnalyzeEstimate

LEMMA FollowStep ==
    ASSUME AppraisalInv, NEW r \in Reqs, P!FollowAdvice(r)
    PROVE  AppraisalInv'
<1>1. PICK q, u : q = request[r] /\ u = P!Usable
  OBVIOUS
<1>2. /\ q \in Inquiries /\ q.of \in Listings /\ Judged(q)
  BY <1>1, OfRequest DEF P!FollowAdvice, Good
<1>3. PICK range : range = P!Estimate(q.of, q.advice.rows)
  OBVIOUS
<1>4. PICK a : /\ a \in P!Suggested(q.advice.label, range)
               /\ P!Local(r, [q EXCEPT !.pc = "estimate", !.kind = "apply", !.target = a[1],
                                       !.shown = a[2]])
  BY <1>1, <1>3 DEF P!FollowAdvice
<1>5. range.mid \in Nat /\ range.low \in Nat
  <2>1. q.advice.rows \in SUBSET Rows
    BY <1>2 DEF Inquiries, Tips
  <2> QED
    BY <1>2, <1>3, <2>1, EstimateType DEF Judged
<1>6. a = <<a[1], a[2]>> /\ a[1] \in Targets /\ a[2] \in Nat
  BY <1>4, <1>5 DEF P!Suggested, Targets
<1>7. PICK target, shown : target = a[1] /\ shown = a[2]
  OBVIOUS
<1>8. PICK v : v = [q EXCEPT !.pc = "estimate", !.kind = "apply", !.target = target,
                             !.shown = shown]
  OBVIOUS
<1>9. v \in Inquiries
  BY <1>2, <1>6, <1>7, <1>8 DEF Inquiries
<1>10. /\ v.pc = "estimate" /\ v.kind = "apply" /\ v.of = q.of /\ v.target = target
       /\ v.shown = shown /\ v.advice = q.advice
  BY <1>2, <1>8 DEF Inquiries
<1>11. Judged(v) /\ Chosen(v)
  BY <1>2, <1>3, <1>4, <1>6, <1>7, <1>10 DEF Judged, Chosen
<1>12. Good(v, u)
  BY <1>2, <1>6, <1>7, <1>10, <1>11 DEF Good, Searches
<1> QED
  BY <1>1, <1>4, <1>7, <1>8, <1>9, <1>12, LocalKeeps

LEMMA ApplyStep ==
    ASSUME AppraisalInv, NEW r \in Reqs, P!ApplyRecommendation(r)
    PROVE  AppraisalInv'
<1>1. PICK k \in Listings, target \in Targets, pc \in {"refused", "estimate"} :
          P!Local(r, [request[r] EXCEPT !.pc = pc, !.kind = "apply", !.of = k,
                                        !.target = target])
  BY DEF P!ApplyRecommendation, Targets
<1>2. PICK q, u : q = request[r] /\ u = P!Usable
  OBVIOUS
<1>3. q \in Inquiries /\ q.advice.label = None
  BY <1>2, OfRequest DEF P!ApplyRecommendation, Good, P!NoAdvice
<1>4. PICK v : v = [q EXCEPT !.pc = pc, !.kind = "apply", !.of = k, !.target = target]
  OBVIOUS
<1>5. v \in Inquiries
  <2>1. PICK w : w = [q EXCEPT !.pc = pc, !.kind = "apply"]
    OBVIOUS
  <2>2. w \in Inquiries
    BY <1>3, <2>1 DEF Inquiries
  <2>3. [w EXCEPT !.of = k, !.target = target] \in Inquiries
    BY <2>2 DEF Inquiries
  <2>4. v = [w EXCEPT !.of = k, !.target = target]
    BY <1>3, <1>4, <2>1 DEF Inquiries
  <2> QED
    BY <2>3, <2>4
<1>6. /\ v.pc = pc /\ v.kind = "apply" /\ v.of = k /\ v.target = target
      /\ v.advice = q.advice
  BY <1>3, <1>4 DEF Inquiries
<1>7. Good(v, u)
  BY <1>3, <1>6 DEF Good, Searches
<1> QED
  BY <1>1, <1>2, <1>4, <1>5, <1>7, LocalKeeps

LEMMA ApplyEstimateStep ==
    ASSUME AppraisalInv, NEW r \in Reqs, P!ApplyEstimate(r)
    PROVE  AppraisalInv'
<1>1. PICK q, u : q = request[r] /\ u = P!Usable
  OBVIOUS
<1>2. /\ q \in Inquiries /\ u \in SUBSET Rows /\ q.pc = "estimate" /\ q.kind = "apply"
      /\ q.of \in Listings /\ q.target \in Targets
      /\ q.advice.label # None => Judged(q) /\ Chosen(q)
  BY <1>1, OfRequest DEF P!ApplyEstimate, Good
<1>3. PICK rows, target :
          /\ rows = P!BrainRows(q.of)
          /\ target = IF rows = {} THEN 0 ELSE P!TargetPrice(q.target, P!Estimate(q.of, rows))
  OBVIOUS
<1>4. rows \in SUBSET Rows
  BY <1>1, <1>2, <1>3 DEF P!BrainRows
<1>5. target \in Nat
  BY <1>2, <1>3, <1>4, EstimateType DEF P!TargetPrice
<1>6. CASE P!Local(r, [q EXCEPT !.pc = "refused"])
  <2>1. PICK v : v = [q EXCEPT !.pc = "refused"]
    OBVIOUS
  <2>2. v \in Inquiries /\ v.pc = "refused"
    BY <1>2, <2>1 DEF Inquiries
  <2>3. v.kind = "apply"
    BY <1>2, <2>1 DEF Inquiries
  <2>4. Good(v, u)
    BY <2>2, <2>3 DEF Good, Searches
  <2> QED
    BY <1>1, <1>6, <2>1, <2>2, <2>4, LocalKeeps
<1>7. CASE target > 0 /\ P!Local(r, [q EXCEPT !.pc = "update", !.sample = rows,
                                              !.newPrice = target])
  <2>1. PICK v : v = [q EXCEPT !.pc = "update", !.sample = rows, !.newPrice = target]
    OBVIOUS
  <2>2. v \in Inquiries
    BY <1>2, <1>4, <1>5, <2>1 DEF Inquiries
  <2>3. /\ v.pc = "update" /\ v.kind = "apply" /\ v.of = q.of /\ v.target = q.target
        /\ v.sample = rows /\ v.newPrice = target /\ v.advice = q.advice
        /\ v.shown = q.shown
    BY <1>2, <2>1 DEF Inquiries
  <2>4. rows # {} /\ target = P!TargetPrice(q.target, P!Estimate(q.of, rows))
    BY <1>3, <1>7
  <2>5. v.advice.label # None => Judged(v) /\ Chosen(v)
    BY <1>2, <2>3 DEF Judged, Chosen
  <2>6. Good(v, u)
    BY <1>2, <2>3, <2>4, <2>5 DEF Good, Searches
  <2> QED
    BY <1>1, <1>7, <2>1, <2>2, <2>6, LocalKeeps
<1> QED
  BY <1>1, <1>3, <1>6, <1>7 DEF P!ApplyEstimate

\* A step that changes the price of a listing, and the requests only to finish
\* the one that did it.
LEMMA PriceStep ==
    ASSUME AppraisalInv, price' \in [Listings -> Nat], table' = table, outlier' = outlier,
           request' \in [Reqs -> Inquiries],
           \A x \in Reqs : \/ request'[x] = request[x]
                           \/ request'[x].pc = "done" /\ request'[x].kind = "apply"
    PROVE  AppraisalInv'
<1>1. AppraisalTypes'
  BY DEF AppraisalInv, AppraisalTypes
<1>2. P!Usable' = P!Usable
  BY DEF P!Usable
<1>3. ASSUME NEW x \in Reqs PROVE Good(request'[x], P!Usable')
  <2>1. CASE request'[x] = request[x]
    BY <1>2, <2>1 DEF AppraisalInv
  <2>2. CASE request'[x].pc = "done" /\ request'[x].kind = "apply"
    BY <2>2 DEF Good, Searches
  <2> QED
    BY <2>1, <2>2
<1> QED
  BY <1>1, <1>3 DEF AppraisalInv

LEMMA ApplyUpdateStep ==
    ASSUME AppraisalInv, NEW r \in Reqs, P!ApplyUpdate(r)
    PROVE  AppraisalInv'
<1>1. PICK q, u : q = request[r] /\ u = P!Usable
  OBVIOUS
<1>2. q \in Inquiries /\ q.kind = "apply" /\ q.of \in Listings
  BY <1>1, OfRequest DEF P!ApplyUpdate, Good
<1>3. PICK v : v = [q EXCEPT !.pc = "done"]
  OBVIOUS
<1>4. v \in Inquiries /\ v.pc = "done" /\ v.kind = "apply" /\ q.newPrice \in Nat
  BY <1>2, <1>3 DEF Inquiries
<1>5. /\ request' = [request EXCEPT ![r] = v] /\ table' = table /\ outlier' = outlier
      /\ price' = [price EXCEPT ![q.of] = q.newPrice]
  BY <1>1, <1>3 DEF P!ApplyUpdate, AppraisalInv, AppraisalTypes
<1>6. request' \in [Reqs -> Inquiries]
  BY <1>4, <1>5 DEF AppraisalInv, AppraisalTypes
<1>7. \A x \in Reqs : \/ request'[x] = request[x]
                      \/ request'[x].pc = "done" /\ request'[x].kind = "apply"
  BY <1>4, <1>5 DEF AppraisalInv, AppraisalTypes
<1>8. price' \in [Listings -> Nat]
  BY <1>2, <1>4, <1>5 DEF AppraisalInv, AppraisalTypes
<1> QED
  BY <1>5, <1>6, <1>7, <1>8, PriceStep

LEMMA EditPriceStep ==
    ASSUME AppraisalInv, NEW k \in Listings, P!EditPrice(k)
    PROVE  AppraisalInv'
<1>1. price' \in [Listings -> Nat]
  BY AppraisalAssumption DEF P!EditPrice, AppraisalInv, AppraisalTypes
<1>2. table' = table /\ outlier' = outlier /\ request' = request
  BY DEF P!EditPrice
<1>3. request' \in [Reqs -> Inquiries] /\ \A x \in Reqs : request'[x] = request[x]
  BY <1>2 DEF AppraisalInv, AppraisalTypes
<1> QED
  BY <1>1, <1>2, <1>3, PriceStep

\* A change of the table: what a search has read may no longer hold together,
\* but what was there all the time still is.
LEMMA MovedKeeps ==
    ASSUME AppraisalInv, NEW gone, P!Moved(gone), P!Usable \ gone \subseteq P!Usable',
           table' \subseteq Rows, outlier' \subseteq Rows, price' = price
    PROVE  AppraisalInv'
<1>1. PICK u, w : u = P!Usable /\ w = P!Usable'
  OBVIOUS
<1>2. ASSUME NEW r \in Reqs PROVE request'[r] \in Inquiries /\ Good(request'[r], w)
  <2>1. PICK q : q = request[r]
    OBVIOUS
  <2>2. q \in Inquiries /\ Good(q, u)
    BY <1>1, <2>1, OfRequest
  <2>3. PICK since, moved : /\ since = (IF q.pc = "search" THEN q.since \ gone ELSE q.since)
                            /\ moved = (q.pc = "search" \/ q.moved)
    OBVIOUS
  <2>4. PICK v : v = [q EXCEPT !.moved = moved, !.since = since]
    OBVIOUS
  <2>5. request'[r] = v
    BY <2>1, <2>2, <2>3, <2>4 DEF P!Moved, Inquiries
  <2>6. v \in Inquiries
    <3>1. since \in SUBSET Rows /\ moved \in BOOLEAN
      BY <2>2, <2>3 DEF Inquiries
    <3> QED
      BY <2>2, <2>4, <3>1 DEF Inquiries
  <2>7. /\ v.pc = q.pc /\ v.kind = q.kind /\ v.of = q.of /\ v.target = q.target
        /\ v.level = q.level /\ v.best = q.best /\ v.sample = q.sample
        /\ v.answer = q.answer /\ v.newPrice = q.newPrice
        /\ v.advice = q.advice /\ v.shown = q.shown
        /\ v.moved = moved /\ v.since = since
    BY <2>2, <2>4 DEF Inquiries
  <2>8. CASE q.pc = "search"
    <3>1. Underway(v, w)
      BY <1>1, <2>2, <2>3, <2>7, <2>8 DEF Good, Underway
    <3> QED
      BY <2>2, <2>5, <2>6, <2>7, <2>8, <3>1 DEF Good
  <2>9. CASE q.pc # "search"
    <3>1. v.since = q.since /\ v.moved = q.moved
      BY <2>2, <2>3, <2>7, <2>9 DEF Inquiries
    <3>2. (Judged(q) => Judged(v)) /\ (Chosen(q) => Chosen(v))
      BY <2>7 DEF Judged, Chosen
    <3> QED
      BY <2>2, <2>5, <2>6, <2>7, <2>9, <3>1, <3>2 DEF Good, Narrowest, FoundIfPresent
  <2> QED
    BY <2>8, <2>9
<1>3. request' \in [Reqs -> Inquiries]
  BY <1>2 DEF P!Moved
<1>4. AppraisalTypes'
  BY <1>3 DEF AppraisalInv, AppraisalTypes
<1>5. \A r \in Reqs : Good(request'[r], P!Usable')
  BY <1>1, <1>2
<1> QED
  BY <1>4, <1>5 DEF AppraisalInv

LEMMA TableStep ==
    ASSUME AppraisalInv, NEW i \in Rows, P!ImportRow(i) \/ P!MarkOutlier(i)
    PROVE  AppraisalInv'
<1>1. table \subseteq Rows /\ outlier \subseteq Rows
  BY DEF AppraisalInv, AppraisalTypes
<1>2. CASE P!ImportRow(i)
  <2>1. /\ P!Moved({}) /\ table' = table \cup {i} /\ outlier' = outlier
        /\ price' = price
    BY <1>2 DEF P!ImportRow
  <2>2. P!Usable \ {} \subseteq P!Usable'
    BY <2>1 DEF P!Usable
  <2> QED
    BY <1>1, <2>1, <2>2, MovedKeeps
<1>3. CASE P!MarkOutlier(i)
  <2>1. /\ P!Moved({i}) /\ table' = table /\ outlier' = outlier \cup {i}
        /\ price' = price
    BY <1>3 DEF P!MarkOutlier
  <2>2. P!Usable \ {i} \subseteq P!Usable'
    BY <2>1 DEF P!Usable
  <2> QED
    BY <1>1, <2>1, <2>2, MovedKeeps
<1> QED
  BY <1>2, <1>3

LEMMA AppraisalNext == AppraisalInv /\ [P!Next]_appraisalVars => AppraisalInv'
<1> SUFFICES ASSUME AppraisalInv, [P!Next]_appraisalVars PROVE AppraisalInv'
  OBVIOUS
<1>1. CASE UNCHANGED appraisalVars
  <2>1. /\ table' = table /\ outlier' = outlier /\ price' = price
        /\ request' = request
    BY <1>1 DEF appraisalVars
  <2>2. P!Usable' = P!Usable
    BY <2>1 DEF P!Usable
  <2>3. \A r \in Reqs : Good(request'[r], P!Usable')
    BY <2>1, <2>2 DEF AppraisalInv
  <2>4. AppraisalTypes'
    BY <2>1 DEF AppraisalInv, AppraisalTypes
  <2> QED
    BY <2>3, <2>4 DEF AppraisalInv
<1>2. ASSUME NEW r \in Reqs, P!Insights(r) \/ P!Simulate(r) PROVE AppraisalInv'
  <2>1. PICK s \in Subjects, kind \in {"insights", "simulate"} :
            request[r].pc = "idle" /\ P!AnswerFrom(r, kind, s)
    BY <1>2 DEF P!Insights, P!Simulate
  <2> QED
    BY <2>1, AnswerFromStep
<1>3. ASSUME NEW r \in Reqs, P!Evaluate(r) \/ P!Search(r) \/ P!DistrictStats(r)
      PROVE  AppraisalInv'
  BY <1>3, EvaluateStep, SearchStep, DistrictStatsStep
<1>4. ASSUME NEW r \in Reqs, P!ApplyRecommendation(r) \/ P!ApplyEstimate(r) \/ P!ApplyUpdate(r)
      PROVE  AppraisalInv'
  BY <1>4, ApplyStep, ApplyEstimateStep, ApplyUpdateStep
<1>5. ASSUME NEW r \in Reqs, P!Analyze(r) \/ P!AnalyzeEstimate(r) \/ P!FollowAdvice(r)
      PROVE  AppraisalInv'
  BY <1>5, AnalyzeStep, AnalyzeEstimateStep, FollowStep
<1> QED
  BY <1>1, <1>2, <1>3, <1>4, <1>5, EditPriceStep, TableStep DEF P!Next

LEMMA AppraisalInit == P!Init => AppraisalInv
<1> SUFFICES ASSUME P!Init PROVE AppraisalInv
  OBVIOUS
<1>1. PICK q : q = P!IdleReq
  OBVIOUS
<1>2. /\ q.pc = "idle" /\ q.kind = None /\ q.best = P!NoComparables /\ q.moved = FALSE
      /\ q.advice = P!NoAdvice
  BY <1>1 DEF P!IdleReq
<1>3. P!NoComparables \in Results /\ P!NoAdvice \in Tips
  BY DEF P!NoComparables, Results, P!NoAdvice, Tips
<1>4. q \in Inquiries
  BY <1>1, <1>3 DEF P!IdleReq, Inquiries
<1>5. AppraisalTypes
  BY <1>1, <1>4, AppraisalAssumption DEF P!Init, AppraisalTypes
<1>6. \A u : Good(q, u)
  BY <1>2 DEF Good
<1> QED
  BY <1>1, <1>5, <1>6 DEF P!Init, AppraisalInv

-----------------------------------------------------------------------------
(* What the invariant says of the answers.                                  *)

LEMMA NarrowestHolds == AppraisalInv => NarrowestThatSuffices /\ PresentMeansFound
<1> SUFFICES ASSUME AppraisalInv PROVE NarrowestThatSuffices /\ PresentMeansFound
  OBVIOUS
<1>1. \A r \in P!Searched : Narrowest(request[r]) /\ FoundIfPresent(request[r])
  BY DEF P!Searched, AppraisalInv, Good, Searches
<1>2. NarrowestThatSuffices
  BY <1>1, SameSize DEF NarrowestThatSuffices, P!NarrowestThatSuffices, Narrowest, Has
<1>3. PresentMeansFound
  BY <1>1, SameSize DEF PresentMeansFound, P!PresentMeansFound, FoundIfPresent
<1> QED
  BY <1>2, <1>3

\* The price that a followed piece of advice gives a listing.
LEMMA FollowedHolds ==
    ASSUME AppraisalInv, P!Next, NEW r \in Reqs, P!Follows(r)
    PROVE  P!AsAdvised(request[r])
<1>1. PICK q : q = request[r]
  OBVIOUS
<1>2. /\ q \in Inquiries /\ q.of \in Listings /\ q.target \in Targets /\ q.sample # {}
      /\ Judged(q) /\ Chosen(q) /\ q.sample = q.advice.rows
      /\ q.newPrice = P!TargetPrice(q.target, P!Estimate(q.of, q.sample))
  BY <1>1, OfRequest DEF P!Follows, Good
<1>3. price' = [price EXCEPT ![q.of] = q.newPrice]
  <2>1. request[r].pc = "update" /\ request'[r].pc = "done"
    BY DEF P!Follows
  <2>2. request \in [Reqs -> Inquiries]
    BY DEF AppraisalInv, AppraisalTypes
  <2>3. ASSUME NEW x \in Reqs, NEW v, request' = [request EXCEPT ![x] = v]
        PROVE  x = r
    BY <2>1, <2>2, <2>3
  <2>4. ASSUME NEW x \in Reqs, NEW v, P!Local(x, v)
        PROVE  x = r
    BY <2>3, <2>4 DEF P!Local
  <2>5. ASSUME NEW x \in Reqs,
               \/ P!Evaluate(x) \/ P!Search(x) \/ P!DistrictStats(x) \/ P!Insights(x)
               \/ P!Simulate(x) \/ P!Analyze(x) \/ P!AnalyzeEstimate(x)
               \/ P!FollowAdvice(x) \/ P!ApplyRecommendation(x) \/ P!ApplyEstimate(x)
        PROVE  FALSE
    <3>1. request[x].pc # "update"
      BY <2>5 DEF P!Evaluate, P!Search, P!DistrictStats, P!Insights, P!Simulate, P!Analyze,
                  P!AnalyzeEstimate, P!FollowAdvice, P!ApplyRecommendation, P!ApplyEstimate
    <3>2. \E v : P!Local(x, v)
      BY <2>5 DEF P!Evaluate, P!Search, P!DistrictStats, P!Insights, P!Simulate, P!Analyze,
                  P!AnalyzeEstimate, P!FollowAdvice, P!ApplyRecommendation,
                  P!ApplyEstimate, P!AnswerFrom
    <3>3. x = r
      BY <2>4, <3>2
    <3> QED
      BY <2>1, <3>1, <3>3
  <2>6. ASSUME NEW x \in Reqs, P!ApplyUpdate(x)
        PROVE  x = r
    BY <2>3, <2>6 DEF P!ApplyUpdate
  <2>7. ASSUME NEW k \in Listings, P!EditPrice(k)
        PROVE  FALSE
    BY <2>1, <2>7 DEF P!EditPrice
  <2>8. ASSUME NEW i \in Rows, P!ImportRow(i) \/ P!MarkOutlier(i)
        PROVE  FALSE
    <3>1. \E gone : P!Moved(gone)
      BY <2>8 DEF P!ImportRow, P!MarkOutlier
    <3>2. PICK gone : request'[r] =
                [request[r] EXCEPT !.moved = request[r].pc = "search" \/ @,
                                   !.since = IF request[r].pc = "search" THEN @ \ gone
                                             ELSE @]
      BY <3>1 DEF P!Moved
    <3>3. request[r] \in Inquiries
      BY <2>2
    <3>4. request'[r].pc = request[r].pc
      BY <3>2, <3>3 DEF Inquiries
    <3> QED
      BY <2>1, <3>4
  <2>9. P!ApplyUpdate(r)
    BY <2>5, <2>6, <2>7, <2>8 DEF P!Next
  <2> QED
    BY <1>1, <2>9 DEF P!ApplyUpdate
<1>4. PICK range : range = P!Estimate(q.of, q.advice.rows)
  OBVIOUS
<1>5. range.mid \in Nat /\ range.low \in Nat /\ range.low <= range.mid /\ q.advice.asked \in Nat
  <2>1. q.advice.rows \in SUBSET Rows /\ q.advice.asked \in Nat
    BY <1>2 DEF Inquiries, Tips
  <2> QED
    BY <1>2, <1>4, <2>1, EstimateType
<1>6. <<q.target, q.shown>> \in P!Suggested(q.advice.label, range)
  BY <1>2, <1>4 DEF Chosen
<1>7. q.newPrice = q.shown
  BY <1>2, <1>4, <1>6 DEF P!Suggested, P!TargetPrice
<1>8. price'[q.of] = q.shown
  BY <1>2, <1>3, <1>7 DEF AppraisalInv, AppraisalTypes
<1>9. q.advice.label = P!Label(q.advice.asked, range.mid)
  BY <1>2, <1>4 DEF Judged
<1>10. CASE q.advice.label = "OVERPRICED"
  <2>1. q.shown \in {range.mid, range.low}
    BY <1>6, <1>10 DEF P!Suggested
  <2>2. range.mid < q.advice.asked
    BY <1>5, <1>9, <1>10 DEF P!Label
  <2>3. q.shown < q.advice.asked
    BY <1>5, <2>1, <2>2
  <2> QED
    BY <1>1, <1>8, <1>10, <2>3 DEF P!AsAdvised
<1>11. CASE q.advice.label = "UNDERPRICED"
  <2>1. q.shown = range.mid
    BY <1>6, <1>11 DEF P!Suggested
  <2>2. range.mid > q.advice.asked
    BY <1>5, <1>9, <1>11 DEF P!Label
  <2> QED
    BY <1>1, <1>8, <1>11, <2>1, <2>2 DEF P!AsAdvised
<1>12. q.advice.label \in {"OVERPRICED", "UNDERPRICED"}
  BY <1>6 DEF P!Suggested
<1> QED
  BY <1>10, <1>11, <1>12

LEMMA AgreeHolds == AppraisalInv => InsightsAgree
<1> SUFFICES ASSUME AppraisalInv,
                    NEW r \in Reqs, request[r].kind \in {"insights", "simulate"},
                    request[r].pc = "done"
             PROVE  LET S == request[r].sample
                        source == IF P!Cardinality(S \cap Recent) >= TrendRows
                                  THEN S \cap Recent ELSE S
                        trend == P!Column(source, P!Syp)
                        values == P!Column(S, P!Syp)
                        asks == {values[i] * request[r].of.size : i \in DOMAIN values}
                                  \cup {request[r].of.ask}
                    IN /\ \A i \in DOMAIN values :
                            2 * values[i] >= P!Median2(values)
                              => 2 * P!AtMost(values, values[i]) >= Len(values)
                       /\ (\A i \in 1 .. Len(trend) - 1 : trend[i] <= trend[i + 1])
                            => P!Direction(trend) # "down"
                       /\ (\A i \in 1 .. Len(trend) - 1 : trend[i] >= trend[i + 1])
                            => P!Direction(trend) # "up"
                       /\ \A p, q \in asks : p <= q =>
                            P!SaleSpeed(values, p, request[r].of.size)
                              <= P!SaleSpeed(values, q, request[r].of.size)
  BY DEF InsightsAgree, P!InsightsAgree
<1> DEFINE S == request[r].sample
           source == IF P!Cardinality(S \cap Recent) >= TrendRows THEN S \cap Recent ELSE S
           trend == P!Column(source, P!Syp)
           values == P!Column(S, P!Syp)
           size == request[r].of.size
           ask == request[r].of.ask
<1>1. S \in SUBSET Rows /\ Cardinality(S) >= Fewest /\ size \in Nat /\ ask \in Nat
  <2>1. request[r] \in Inquiries /\ Good(request[r], P!Usable)
    BY OfRequest
  <2> QED
    BY <2>1, AppraisalAssumption DEF Good, Inquiries
<1>2. P!Syp \in [Rows -> Nat]
  BY AppraisalAssumption DEF P!Syp
<1>3. Fewest \in Nat \ {0} /\ TrendRows \in Nat \ {0}
  BY AppraisalAssumption
<1> HIDE DEF S
<1>4. Cardinality(S) \in Nat /\ Cardinality(S \cap Recent) \in Nat
  BY <1>1, RowsFinite
<1>5. values \in Seq(Nat) /\ Len(values) > 0
  BY <1>1, <1>2, <1>3, <1>4, ColumnType
<1>6. source \in SUBSET Rows /\ Cardinality(source) > 0
  BY <1>1, <1>3, <1>4, SameSize
<1>7. trend \in Seq(Nat) /\ Len(trend) > 0
  <2> HIDE DEF source
  <2> QED
    BY <1>2, <1>6, ColumnType
<1> HIDE DEF values, trend, size, ask, source
<1>8. \A i \in DOMAIN values : values[i] \in Nat
  BY <1>5
<1>9. ASSUME NEW i \in DOMAIN values, 2 * values[i] >= P!Median2(values)
      PROVE  2 * P!AtMost(values, values[i]) >= Len(values)
  BY <1>5, <1>8, <1>9, SameMedian, HalfBelowMedian
<1>10. ASSUME NEW p \in {values[i] * size : i \in DOMAIN values} \cup {ask},
              NEW q \in {values[i] * size : i \in DOMAIN values} \cup {ask}, p <= q
       PROVE  P!SaleSpeed(values, p, size) <= P!SaleSpeed(values, q, size)
  <2>1. \A a, b \in Nat : a * b \in Nat
    OBVIOUS
  <2>2. p \in Nat /\ q \in Nat
    BY <1>1, <1>8, <2>1
  <2> QED
    BY <1>1, <1>5, <1>10, <2>2, DearerIsNotFaster
<1> QED
  BY <1>7, <1>9, <1>10, TrendOfSlope DEF values, trend, size, ask, source, S

LEMMA AppraisalInvariance == P!Spec => []AppraisalInv
<1>1. AppraisalInv /\ [P!Next]_P!vars => AppraisalInv'
  BY AppraisalNext DEF P!vars, appraisalVars
<1> QED
  BY <1>1, AppraisalInit, PTL DEF P!Spec

\* An evaluation answers from the narrowest level of comparables that suffices
\* or else from the one with most, if nothing was imported or marked during its
\* search, for any rows and tolerances of the subject.
\* (comparable-engine.service.ts: findComparables.)
THEOREM NarrowestAnswers == P!Spec => []NarrowestThatSuffices
<1> QED
  BY AppraisalInvariance, NarrowestHolds, PTL

\* A priced row like the subject that stayed in the table during the search is
\* found, whatever was imported or marked between its four reads.
\* (comparable-engine.service.ts: findComparables.)
THEOREM PresentRowsFound == P!Spec => []PresentMeansFound
<1> QED
  BY AppraisalInvariance, NarrowestHolds, PTL

\* Percentile and median, trend and prices, speed of sale and price of one
\* sample agree, whatever prices it has.
\* (advisor.service.ts: getInsights, simulate, computePercentile,
\* computeTrendLast30Days.)
THEOREM OneSampleOneStory == P!Spec => []InsightsAgree
<1> QED
  BY AppraisalInvariance, AgreeHolds, PTL

\* A listing whose owner follows the advice of an analysis gets the price that was
\* shown and moves the way the label says, unless the rows of its district changed
\* in between, however requests, imports and marks interleave.
\* (owner-portfolio-analyzer.service.ts: getAnalysis, applyRecommendation.)
THEOREM AdviceFollowed == P!Spec => FollowedAsAdvised
<1>1. AppraisalInv /\ [P!Next]_P!vars
      => [\A r \in Reqs : P!Follows(r) => P!AsAdvised(request[r])]_P!vars
  BY FollowedHolds
<1> QED
  BY <1>1, AppraisalInvariance, PTL DEF P!Spec, FollowedAsAdvised, P!FollowedAsAdvised
=============================================================================
