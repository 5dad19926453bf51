------------------------------ MODULE External ------------------------------
(***************************************************************************)
(* Market data from outside: AdminExternalMarketService over the tables    *)
(* external_market_sources, external_market_observations and               *)
(* external_baseline_index.  The statements of a request interleave with   *)
(* those of the others, and it may end after any of them.                  *)
(*                                                                         *)
(* Time passes in months.  A line of a file is a source, a place (area and *)
(* metric after normalizing), a value and the month it was published, or   *)
(* None where one is missing; the hash of an observation is its source,    *)
(* place, value and date.  Reliabilities are tenths.  Left out: units,     *)
(* addresses and methods, the splitting of a file into fields, and the     *)
(* lists, which only read.                                                 *)
(***************************************************************************)
EXTENDS Integers, Sequences, FiniteSets, SequencesExt, FiniteSetsExt

CONSTANTS
    None,
    Requests,
    Orders,       \* what may be asked: [does, lines, months, reliability]
    MaxMonth      \* bound: the clock stops there

VARIABLES
    month,        \* the clock
    sources,      \* [by, reliability] in the order of their identifiers; all are active
    observations, \* their hashes
    baseline,     \* of each place: the last row written, [mean, median, months, at, of, by],
                  \* of being its observations
    request,
    together      \* history: for each request, those served with it

vars == <<month, sources, observations, baseline, request, together>>

Ended(r) == request[r].pc \in {"idle", "done", "failed"}
Goes(r, pc) == request' = [request EXCEPT ![r].pc = pc]
Fails(r) == Goes(r, "failed") /\ UNCHANGED <<month, sources, observations, baseline, together>>

Init ==
    /\ month = 12
    /\ sources \in {<<>>, <<[by |-> None, reliability |-> 10]>>}
    /\ observations = {}
    /\ baseline = <<>>
    /\ request = [r \in Requests |->
          [pc |-> "idle", does |-> None, lines |-> <<>>, months |-> None, reliability |-> None,
           prepared |-> <<>>, groups |-> <<>>, at |-> 0, answer |-> None]]
    /\ together = [r \in Requests |-> {}]

Tick == month < MaxMonth /\ month' = month + 1
        /\ UNCHANGED <<sources, observations, baseline, request, together>>

Ask(r) ==
    /\ request[r].pc = "idle"
    /\ \E o \in Orders :
        request' = [request EXCEPT ![r].does = o.does, ![r].lines = o.lines, ![r].months = o.months,
            ![r].reliability = o.reliability,
            ![r].pc = CASE o.does = "source" -> "write" [] o.does = "rebuild" -> "read" [] OTHER -> "prepare"]
    /\ together' = [q \in Requests |->
          IF q = r THEN {p \in Requests \ {r} : ~Ended(p)}
          ELSE IF Ended(q) THEN together[q] ELSE together[q] \cup {r}]
    /\ UNCHANGED <<month, sources, observations, baseline>>

-----------------------------------------------------------------------------
(* The source answered is the newest one, hers or not.                     *)
NormalizeReliability(n) == IF n = None THEN 10 ELSE Max({0, Min({10, n})})
CreateSource(r) ==
    /\ request[r].does = "source" /\ request[r].pc = "write"
    /\ sources' = Append(sources, [by |-> r, reliability |-> NormalizeReliability(request[r].reliability)])
    /\ Goes(r, "newest")
    /\ UNCHANGED <<month, observations, baseline, together>>
ReadNewest(r) ==
    /\ request[r].pc = "newest"
    /\ request' = [request EXCEPT ![r].pc = "done", ![r].answer = sources[Len(sources)].by]
    /\ UNCHANGED <<month, sources, observations, baseline, together>>

-----------------------------------------------------------------------------
(* Observations, one by one.  A line that is wrong ends createObservation, *)
(* an import goes on without it.                                           *)
Valid(line) ==
    /\ line.source \in 1 .. Len(sources)
    /\ line.place # None /\ line.value # None /\ line.value > 0
Prepared(line) == [line EXCEPT !.published = IF @ = None THEN month ELSE @]

Prepare(r) ==
    LET q == request[r]
        o == Prepared(Head(q.lines))
    IN /\ q.pc = "prepare" /\ q.lines # <<>>
       /\ IF ~Valid(Head(q.lines))
          THEN request' = [request EXCEPT ![r].lines = Tail(@),
                              ![r].pc = IF q.does = "observe" THEN "failed" ELSE @]
          ELSE request' = [request EXCEPT ![r].lines = Tail(@),
                              ![r].prepared = IF o \in ToSet(@) THEN @ ELSE Append(@, o)]
       /\ UNCHANGED <<month, sources, observations, baseline, together>>
AllPrepared(r) ==
    LET q == request[r]
    IN /\ q.pc = "prepare" /\ q.lines = <<>>
       /\ request' = [request EXCEPT ![r].pc = "insert", ![r].lines = q.prepared]
       /\ UNCHANGED <<month, sources, observations, baseline, together>>

(* A hash that is there is skipped; one that came since it was looked for  *)
(* breaks the key, and the import with it.                                 *)
Look(r) ==
    LET q == request[r]
    IN /\ q.pc = "insert" /\ q.lines # <<>>
       /\ request' = IF Head(q.lines) \in observations
                     THEN [request EXCEPT ![r].lines = Tail(@)] ELSE [request EXCEPT ![r].pc = "put"]
       /\ UNCHANGED <<month, sources, observations, baseline, together>>
Put(r) ==
    LET q == request[r]
    IN /\ q.pc = "put"
       /\ IF Head(q.lines) \in observations THEN Fails(r)
          ELSE /\ observations' = observations \cup {Head(q.lines)}
               /\ request' = [request EXCEPT ![r].lines = Tail(@), ![r].pc = "insert"]
               /\ UNCHANGED <<month, sources, baseline, together>>
(* An import whose window is no window fails here, its rows inserted.      *)
AllInserted(r) ==
    /\ request[r].pc = "insert" /\ request[r].lines = <<>>
    /\ Goes(r, IF request[r].does = "observe" THEN "done" ELSE "read")
    /\ UNCHANGED <<month, sources, observations, baseline, together>>

-----------------------------------------------------------------------------
(* rebuildBaseline: one read, then a row for each place.                   *)
Windowed(months) == months \in 6 .. 12
InWindow(o, months, now) == now - months <= o.published /\ o.published <= now

(* Reliability by recency, which falls with age to a fifth; the least      *)
(* weight is one unit.                                                     *)
Weight(o, months, now) ==
    Max({1, sources[o.source].reliability * Max({months, 5 * (months - (now - o.published))})})
TotalOf(a, S) == MapThenSumSet(LAMBDA x : a[x], S)
WeightOf(items) == TotalOf([i \in items |-> i.weight], items)
Mean(items) == TotalOf([i \in items |-> i.value * i.weight], items) \div WeightOf(items)
(* The least value up to which half of the weight lies.                    *)
(* Mutant: half of the items, whatever they weigh.                         *)
BadMedian(items) ==
    Min({i.value : i \in {j \in items : 2 * Cardinality({k \in items : k.value <= j.value}) >= Cardinality(items)}})
Median(items) ==
    Min({i.value : i \in {j \in items :
        2 * WeightOf({k \in items : k.value <= j.value}) >= WeightOf(items)}})

ReadRows(r) ==
    LET q == request[r]
        rows == {o \in observations : InWindow(o, q.months, month)}
        items == {[o |-> o, value |-> o.value, weight |-> Weight(o, q.months, month)] : o \in rows}
        places == {o.place : o \in rows}
    IN /\ q.pc = "read"
       /\ IF ~Windowed(q.months) THEN Fails(r)
          ELSE /\ request' = [request EXCEPT ![r].pc = "upsert", ![r].at = month,
                     ![r].groups = [p \in places |-> {i \in items : i.o.place = p}]]
               /\ UNCHANGED <<month, sources, observations, baseline, together>>

Upsert(r) ==
    LET groups == request[r].groups
    IN /\ request[r].pc = "upsert"
       /\ \E p \in DOMAIN groups :
             /\ baseline' = [x \in DOMAIN baseline \cup {p} |->
                   IF x = p THEN [mean |-> Mean(groups[p]), median |-> Median(groups[p]),
                                  of |-> groups[p], by |-> r,
                                  months |-> request[r].months, at |-> request[r].at]
                   ELSE baseline[x]]
             /\ request' = [request EXCEPT ![r].groups = [x \in DOMAIN groups \ {p} |-> groups[x]]]
       /\ UNCHANGED <<month, sources, observations, together>>
AllUpserted(r) ==
    /\ request[r].pc = "upsert" /\ DOMAIN request[r].groups = {}
    /\ Goes(r, "done")
    /\ UNCHANGED <<month, sources, observations, baseline, together>>

Stop(r) == ~Ended(r) /\ Fails(r)

Next == Tick \/ \E r \in Requests :
    \/ Ask(r) \/ CreateSource(r) \/ ReadNewest(r)
    \/ Prepare(r) \/ AllPrepared(r) \/ Look(r) \/ Put(r) \/ AllInserted(r)
    \/ ReadRows(r) \/ Upsert(r) \/ AllUpserted(r) \/ Stop(r)

Spec == Init /\ [][Next]_vars

-----------------------------------------------------------------------------
Middle(b) ==
    /\ 2 * WeightOf({i \in b.of : i.value < b.median}) <= WeightOf(b.of)
    /\ 2 * WeightOf({i \in b.of : i.value > b.median}) <= WeightOf(b.of)
    /\ \E i, j \in b.of : i.value <= b.mean /\ b.mean <= j.value

Counted(r, o) ==
    InWindow(o, request[r].months, request[r].at) =>
        /\ o.place \in DOMAIN baseline
        /\ LET b == baseline[o.place]
           IN (\E i \in b.of : i.o = o) \/ b.by \in together[r] \/ ~InWindow(o, b.months, b.at)

(* The external baseline tells the middle of its observations: no more     *)
(* than half of their weight lies below the median or above it, the mean   *)
(* is within their values.  Of an import that was answered it has each row *)
(* of the import's own window, unless the last rebuild of the place was of *)
(* a window without the row, or served together with the import.  And a    *)
(* source is answered to whom created it, if no other request was being    *)
(* served.  (rebuildBaseline, computeWeightedMedian; importCsv;            *)
(* createSource.)                                                          *)
BaselineTells ==
    /\ \A p \in DOMAIN baseline : Middle(baseline[p]) /\ \A i \in baseline[p].of : i.o \in observations
    /\ \A r \in Requests : request[r].pc = "done" =>
          /\ request[r].does = "import" => \A o \in ToSet(request[r].prepared) : Counted(r, o)
          /\ request[r].does = "source" /\ together[r] = {} => request[r].answer = r
=============================================================================
