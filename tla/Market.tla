------------------------------- MODULE Market -------------------------------
(***************************************************************************)
(* The market data behind every price: the two CSV imports into            *)
(* market_data, the marking of outliers, and the two tables derived from   *)
(* it, areas_price (rebuildAreas) and market_snapshot_daily                *)
(* (rebuildSnapshots), as several administrators work on them at a time.   *)
(*                                                                         *)
(* A derived price is the set of rows it is computed from, which covers    *)
(* every mean, median and deviation over them.  Left out: which lines of a *)
(* file are valid, the exchange rate (a rebuild without one stops before   *)
(* it writes) and the counts of invalid and repeated lines.                *)
(***************************************************************************)
EXTENDS Naturals, FiniteSets

CONSTANTS
    Reqs,       \* the administrators' requests
    BulkLines,  \* lines of MarketDataService's files: stamped on insertion
    AdminLines, \* lines of AdminMarketService's files
    Dated,      \* created_at of an admin line, None if it has none
    Areas,      \* (city, district, property type)
    AreaOf,     \* the area of a line
    Files,      \* bound: the files that are imported
    Windows,    \* the `days` of a request
    Marked,     \* bound: the lines whose rows are marked together
    DayLength,  \* steps of the clock in a day
    Chunk,      \* chunkSize of insertRows
    Batch,      \* areas per transaction of rebuildAreas
    MaxTime,    \* bound: the clock stops there
    None

Lines == BulkLines \cup AdminLines
Times == 0 .. MaxTime

ASSUME MarketAssumption ==
    /\ IsFiniteSet(Lines) /\ IsFiniteSet(Areas) /\ IsFiniteSet(Reqs)
    /\ BulkLines \cap AdminLines = {}
    /\ Dated \in [AdminLines -> Nat \cup {None}] /\ None \notin Nat
    /\ \A l \in AdminLines : Dated[l] = None \/ Dated[l] <= MaxTime
    /\ AreaOf \in [Lines -> Areas]
    /\ Windows \subseteq Nat \ {0} /\ {Files, Marked} \subseteq SUBSET SUBSET Lines
    /\ {DayLength, Chunk, Batch} \subseteq Nat \ {0} /\ MaxTime \in Nat

VARIABLES
    now,      \* the clock
    at,       \* created_at of the rows of market_data, None if absent
    outlier,  \* the rows whose is_outlier is set
    areas,    \* areas_price: the rows of each price, {} if there is none
    snaps,    \* market_snapshot_daily: the same for an area and a day
    job       \* the requests, with their local variables

vars == <<now, at, outlier, areas, snaps, job>>

Day(t) == t \div DayLength
Days == {Day(t) : t \in Times}
Cells == Areas \X Days

(* The ingest_hash of a line taken in at time t: a bulk line's is of its    *)
(* content only, an admin line's also of its day, today if it has no date.  *)
Rows == (BulkLines \X {None}) \cup (AdminLines \X Days)
CreatedAt(l, t) == IF l \in AdminLines /\ Dated[l] # None THEN Dated[l] ELSE t
Hash(l, t) == <<l, IF l \in BulkLines THEN None ELSE Day(CreatedAt(l, t))>>

PC == {"idle", "insert", "rebuild", "areas", "snaps", "done", "lost"}
Kinds == {"none", "bulk", "admin", "areas", "mark", "snaps"}
(* `grouped` and `skipped` are of the answer of rebuildSnapshots: how many  *)
(* snapshots its rows make, and whether skipped_rows is not zero.           *)
(* `alone` is history: no other request wrote since this one read.          *)
JobLocals == [pc : PC, kind : Kinds, days : Windows \cup {0}, file : SUBSET Rows,
              todo : SUBSET Rows, inserted : Nat, reading : SUBSET Rows, read : Times,
              left : SUBSET (Areas \cup Cells), grouped : Nat, skipped : BOOLEAN,
              alone : BOOLEAN]
IdleJob == [pc |-> "idle", kind |-> "none", days |-> 0, file |-> {}, todo |-> {},
            inserted |-> 0, reading |-> {}, read |-> 0, left |-> {},
            grouped |-> 0, skipped |-> FALSE, alone |-> TRUE]

(* The columns and the requests' variables hold what they are declared to   *)
(* hold, and a row counts as an outlier only while it is in the table.      *)
TypeOK ==
    /\ now \in Times
    /\ at \in [Rows -> Times \cup {None}]
    /\ outlier \subseteq {h \in Rows : at[h] # None}
    /\ areas \in [Areas -> SUBSET Rows]
    /\ snaps \in [Cells -> SUBSET Rows]
    /\ job \in [Reqs -> JobLocals]

Init ==
    /\ now = 0
    /\ at = [h \in Rows |-> None]
    /\ outlier = {}
    /\ areas = [a \in Areas |-> {}]
    /\ snaps = [c \in Cells |-> {}]
    /\ job = [r \in Reqs |-> IdleJob]

-----------------------------------------------------------------------------
Present == {h \in Rows : at[h] # None}

(* The rows that a read of the last `days` days finds at time t.            *)
(* Mutant: the outliers are read too.                                      *)
BadWithin(days, t) == {h \in Present : at[h] + days * DayLength >= t}
Within(days, t) == {h \in Present \ outlier : at[h] + days * DayLength >= t}

(* A snapshot takes no bulk row: those have no price_per_m2_syp.            *)
BadPriced(S) == S  \* mutant: the condition on price_per_m2_syp is dropped
Priced(S) == {h \in S : h[1] \in AdminLines}

OfArea(S, a) == {h \in S : AreaOf[h[1]] = a}
OfCell(S, c) == {h \in OfArea(S, c[1]) : Day(at[h]) = c[2]}
AreasOf(S) == {AreaOf[h[1]] : h \in S}
CellsOf(S) == {<<AreaOf[h[1]], Day(at[h])>> : h \in S}

(* What one pass of a loop takes from what is left: n at most, all of the   *)
(* last ones.                                                               *)
PassOf(S, n) ==
    {T \in SUBSET S : T # {} /\ (T = S \/ Cardinality(T) = n) /\ Cardinality(T) <= n}

Local(r, value) == job' = [job EXCEPT ![r] = value]
Wrote(r, value) ==
    job' = [q \in Reqs |-> IF q = r THEN value ELSE [job[q] EXCEPT !.alone = FALSE]]

(* createMany with skipDuplicates, and the count it returns.                *)
Insert(S) == at' = [h \in Rows |-> IF h \in S \ Present THEN CreatedAt(h[1], now)
                                   ELSE at[h]]
(* Mutant: the rows sent are counted, not those the insertion reports.      *)
BadCount(S) == Cardinality(S)
Count(S) == Cardinality(S \ Present)

-----------------------------------------------------------------------------
(* MarketDataService.importCsv: the rows already there are looked up and    *)
(* the others inserted chunk by chunk.                                      *)
BulkStart(r, lines) ==
    LET file == {Hash(l, now) : l \in lines} IN
    /\ job[r].pc = "idle"
    /\ Local(r, [IdleJob EXCEPT !.pc = "insert", !.kind = "bulk", !.file = file,
                                !.todo = file \ Present])
    /\ UNCHANGED <<now, at, outlier, areas, snaps>>

InsertChunk(r) ==
    /\ job[r].pc = "insert"
    /\ \E chunk \in PassOf(job[r].todo, Chunk) :
          /\ Insert(chunk)
          /\ Wrote(r, [job[r] EXCEPT !.todo = @ \ chunk, !.inserted = @ + Count(chunk)])
    /\ UNCHANGED <<now, outlier, areas, snaps>>

(* Mutant: the loop stops before its last chunk.                            *)
BadBulkReport(r) ==
    /\ job[r].pc = "insert" /\ Cardinality(job[r].todo) <= Chunk
    /\ Local(r, [job[r] EXCEPT !.pc = "done", !.todo = {}])
    /\ UNCHANGED <<now, at, outlier, areas, snaps>>
BulkReport(r) ==
    /\ job[r].pc = "insert" /\ job[r].todo = {}
    /\ Local(r, [job[r] EXCEPT !.pc = "done"])
    /\ UNCHANGED <<now, at, outlier, areas, snaps>>

(* AdminMarketService.importCsvAndRebuild: one createMany, then the rebuild.*)
AdminImport(r, lines, days) ==
    LET file == {Hash(l, now) : l \in lines} IN
    /\ job[r].pc = "idle"
    /\ Insert(file)
    /\ Wrote(r, [IdleJob EXCEPT !.pc = "rebuild", !.kind = "admin", !.days = days,
                                !.file = file, !.inserted = Count(file)])
    /\ UNCHANGED <<now, outlier, areas, snaps>>

(* markOutliers: one updateMany, which finds the rows that are there, and   *)
(* the rebuild if days were given.                                          *)
Mark(r, rows, flag, days) ==
    /\ job[r].pc = "idle"
    /\ outlier' = IF flag THEN outlier \cup (rows \cap Present) ELSE outlier \ rows
    /\ Wrote(r, [IdleJob EXCEPT !.pc = IF days = 0 THEN "done" ELSE "rebuild",
                                !.kind = "mark", !.days = days])
    /\ UNCHANGED <<now, at, areas, snaps>>

RebuildStart(r, days) ==
    /\ job[r].pc = "idle"
    /\ Local(r, [IdleJob EXCEPT !.pc = "rebuild", !.kind = "areas", !.days = days])
    /\ UNCHANGED <<now, at, outlier, areas, snaps>>

(* rebuildAreas reads the window and upserts the areas it found there, in   *)
(* transactions of Batch areas; an area it did not find keeps its price.    *)
RebuildRead(r) ==
    LET reading == Within(job[r].days, now) IN
    /\ job[r].pc = "rebuild"
    /\ Local(r, [job[r] EXCEPT !.pc = "areas", !.reading = reading, !.read = now,
                               !.left = AreasOf(reading), !.alone = TRUE])
    /\ UNCHANGED <<now, at, outlier, areas, snaps>>

RebuildWrite(r) ==
    /\ job[r].pc = "areas"
    /\ \E batch \in PassOf(job[r].left, Batch) :
          /\ areas' = [a \in Areas |-> IF a \in batch THEN OfArea(job[r].reading, a)
                                       ELSE areas[a]]
          /\ Wrote(r, [job[r] EXCEPT !.left = @ \ batch])
    /\ UNCHANGED <<now, at, outlier, snaps>>

(* rebuildSnapshots reads the window too, and upserts one area and day at a *)
(* time; one that fails is logged and skipped.  When its query fails, that  *)
(* is logged too, and answered as a rebuild that found nothing to do.       *)
SnapshotRead(r, days) ==
    LET reading == Priced(Within(days, now)) IN
    /\ job[r].pc = "idle"
    /\ Local(r, [IdleJob EXCEPT !.pc = "snaps", !.kind = "snaps", !.days = days,
                                !.reading = reading, !.read = now,
                                !.left = CellsOf(reading),
                                !.grouped = Cardinality(CellsOf(reading))])
    /\ UNCHANGED <<now, at, outlier, areas, snaps>>

SnapshotQueryFails(r, days) ==
    /\ job[r].pc = "idle"
    /\ Local(r, [IdleJob EXCEPT !.pc = "done", !.kind = "snaps", !.days = days,
                                !.read = now])
    /\ UNCHANGED <<now, at, outlier, areas, snaps>>

SnapshotWrite(r, c) ==
    /\ job[r].pc = "snaps" /\ c \in job[r].left
    /\ snaps' = [snaps EXCEPT ![c] = OfCell(job[r].reading, c)]
    /\ Wrote(r, [job[r] EXCEPT !.left = @ \ {c}])
    /\ UNCHANGED <<now, at, outlier, areas>>

SnapshotSkipped(r, c) ==
    /\ job[r].pc = "snaps" /\ c \in job[r].left
    /\ Local(r, [job[r] EXCEPT !.left = @ \ {c}, !.skipped = TRUE])
    /\ UNCHANGED <<now, at, outlier, areas, snaps>>

Finish(r) ==
    /\ job[r].pc \in {"areas", "snaps"} /\ job[r].left = {}
    /\ Local(r, [job[r] EXCEPT !.pc = "done", !.reading = {}])
    /\ UNCHANGED <<now, at, outlier, areas, snaps>>

(* The request dies between two of its writes: nothing resumes it.          *)
Lost(r) ==
    /\ job[r].pc \in {"insert", "rebuild", "areas", "snaps"}
    /\ Local(r, [IdleJob EXCEPT !.pc = "lost", !.inserted = job[r].inserted])
    /\ UNCHANGED <<now, at, outlier, areas, snaps>>

Tick ==
    /\ now < MaxTime
    /\ now' = now + 1
    /\ UNCHANGED <<at, outlier, areas, snaps, job>>

Import(r) ==
    \/ \E lines \in Files \cap SUBSET BulkLines : BulkStart(r, lines)
    \/ InsertChunk(r) \/ BulkReport(r)
    \/ \E lines \in Files \cap SUBSET AdminLines, days \in Windows :
          AdminImport(r, lines, days)

Rebuild(r) ==
    \/ \E lines \in Marked, flag \in BOOLEAN, days \in Windows \cup {0} :
          Mark(r, {h \in Rows : h[1] \in lines}, flag, days)
    \/ \E days \in Windows : RebuildStart(r, days) \/ SnapshotRead(r, days)
                            \/ SnapshotQueryFails(r, days)
    \/ RebuildRead(r) \/ RebuildWrite(r)
    \/ \E c \in Cells : SnapshotWrite(r, c) \/ SnapshotSkipped(r, c)
    \/ Finish(r) \/ Lost(r)

Next == Tick \/ \E r \in Reqs : Import(r) \/ Rebuild(r)
Spec == Init /\ [][Next]_vars

-----------------------------------------------------------------------------
(* Every row of the table was counted as inserted by one import, and by one *)
(* only, however the imports of the same lines overlap: there is a way to   *)
(* attribute the rows to the requests that gives each the count its report  *)
(* shows, and the counts add up to the table.                               *)
InsertedOnce ==
    \E by \in [Present -> Reqs] :
        \A r \in Reqs : job[r].inserted = Cardinality({h \in Present : by[h] = r})

(* An import that reports success left all the valid rows of its file in    *)
(* the table, those that another import inserted meanwhile included.        *)
ImportIsComplete ==
    \A r \in Reqs : job[r].pc = "done" => job[r].file \subseteq Present

(* A row a price should take at time t: not an outlier, at most `days` days *)
(* old.                                                                     *)
Wanted(h, days, t) ==
    /\ h \in Present /\ h \notin outlier
    /\ at[h] + days * DayLength >= t

(* While no other request has written since it read, a finished rebuild has *)
(* left each area that has a row in the window with exactly those rows, the *)
(* rows it imported and the marks it set itself included.                   *)
LoneRebuildIsComplete ==
    \A r \in Reqs : job[r].pc = "done" /\ job[r].kind \in {"areas", "admin", "mark"}
                    /\ job[r].days > 0 /\ job[r].alone =>
        \A a \in Areas :
            LET rows == {h \in Rows : AreaOf[h[1]] = a /\ Wanted(h, job[r].days, job[r].read)}
            IN  rows # {} => areas[a] = rows

(* Likewise the snapshots, as far as the answer of rebuildSnapshots can be  *)
(* believed: one of no snapshot may be that of a query that failed and have *)
(* left what was there, one that skipped some tells not which.  Any other   *)
(* answer leaves the snapshot of an area and a day that lies wholly in the  *)
(* window with the rows of that day.  The first day of the window is only   *)
(* in part in it (its start is a time of day) and its snapshot is           *)
(* recomputed from a part.                                                  *)
LoneSnapshotIsComplete ==
    \A r \in Reqs : job[r].pc = "done" /\ job[r].kind = "snaps" /\ job[r].alone
                    /\ job[r].grouped > 0 /\ ~job[r].skipped =>
        \A c \in Cells :
            LET rows == {h \in Rows : /\ h[1] \in AdminLines /\ AreaOf[h[1]] = c[1]
                                      /\ h \in Present \ outlier /\ Day(at[h]) = c[2]}
            IN  rows # {} /\ (c[2] + job[r].days) * DayLength >= job[r].read
                    => snaps[c] = rows

=============================================================================
