---------------------------- MODULE MarketProofs ----------------------------
(***************************************************************************)
(* Proofs about Market for all files, windows and numbers of requests:     *)
(* types, that an import that succeeds leaves its whole file in the table, *)
(* what a rebuild leaves that no other request writes beside, and that the *)
(* imports' counts attribute every row of the table to one of them.  And   *)
(* about External, for all files and numbers of requests: that its         *)
(* baseline tells the weighted middle of its observations, and has those   *)
(* of the imports that were answered.                                      *)
(***************************************************************************)
EXTENDS MarketData, FiniteSetTheorems, WellFoundedInduction, TLAPS

(* Of the file of an import, what is not in the table is still to insert.   *)
FileInv ==
    \A r \in Reqs :
        /\ job[r].pc = "insert" => job[r].file \ job[r].todo \subseteq Present
        /\ job[r].pc \in {"rebuild", "areas", "snaps", "done"} =>
               job[r].file \subseteq Present

IInv == TypeOK /\ FileInv

-----------------------------------------------------------------------------
(* The rows and the moments they are stamped with.                          *)
LEMMA Stamps ==
    /\ Times \subseteq Nat /\ None \notin Times
    /\ \A l \in Lines, t \in Times : CreatedAt(l, t) \in Times /\ Hash(l, t) \in Rows
    /\ \A h \in Rows : h[1] \in Lines /\ AreaOf[h[1]] \in Areas
<1>1. Times \subseteq Nat /\ None \notin Times
  BY MarketAssumption DEF Times
<1>2. ASSUME NEW l \in Lines, NEW t \in Times
      PROVE  CreatedAt(l, t) \in Times
  BY <1>1, MarketAssumption DEF CreatedAt, Times, Lines
<1>3. ASSUME NEW l \in Lines, NEW t \in Times
      PROVE  Hash(l, t) \in Rows
  BY <1>2, MarketAssumption DEF Hash, Rows, Days, Lines
<1>4. \A h \in Rows : h[1] \in Lines /\ AreaOf[h[1]] \in Areas
  BY MarketAssumption DEF Rows, Lines
<1> QED
  BY <1>1, <1>2, <1>3, <1>4

LEMMA FiniteRows == IsFiniteSet(Rows) /\ IsFiniteSet(Cells)
<1> DEFINE dayOf == [t \in Times |-> Day(t)]
<1>1. IsFiniteSet(Times)
  BY MarketAssumption, FS_Interval DEF Times
<1>2. dayOf \in Surjection(Times, Days)
  BY DEF Surjection, Days
<1>3. IsFiniteSet(Days)
  BY <1>1, <1>2, FS_Surjection
<1>4. IsFiniteSet(BulkLines) /\ IsFiniteSet(AdminLines)
  BY MarketAssumption, FS_Subset DEF Lines
<1>5. IsFiniteSet(BulkLines \X {None}) /\ IsFiniteSet(AdminLines \X Days)
  BY <1>3, <1>4, FS_Singleton, FS_Product
<1> QED
  BY <1>3, <1>5, FS_Union, FS_Product, MarketAssumption DEF Rows, Cells

LEMMA CountType == ASSUME NEW S, S \subseteq Rows PROVE Count(S) \in Nat
<1>1. IsFiniteSet(S \ Present)
  BY FiniteRows, FS_Subset
<1> QED
  BY <1>1, FS_CardinalityType DEF Count

(* An insertion keeps the rows that were there and adds those it was given. *)
LEMMA Inserted ==
    ASSUME TypeOK, NEW S, S \subseteq Rows, Insert(S)
    PROVE  at' \in [Rows -> Times \cup {None}] /\ Present \cup S \subseteq Present'
<1>1. \A h \in Rows : h[1] \in Lines
  BY Stamps
<1>2. \A h \in Rows : CreatedAt(h[1], now) \in Times
  BY <1>1, Stamps DEF TypeOK
<1>3. \A h \in Rows : at'[h] = IF h \in S \ Present THEN CreatedAt(h[1], now) ELSE at[h]
  BY DEF Insert
<1>4. at' \in [Rows -> Times \cup {None}]
  BY <1>2 DEF Insert, TypeOK
<1>5. \A h \in Rows : h \in Present \/ h \in S => at'[h] # None
  BY <1>2, <1>3, Stamps DEF Present
<1> QED
  BY <1>4, <1>5 DEF Present

(* What a rebuild finds, and where it belongs.                              *)
LEMMA Found ==
    ASSUME TypeOK, NEW days, NEW t
    PROVE  /\ Within(days, t) \subseteq Present /\ Present \subseteq Rows
           /\ AreasOf(Within(days, t)) \subseteq Areas
           /\ CellsOf(Priced(Within(days, t))) \subseteq Cells
<1>1. Within(days, t) \subseteq Present /\ Present \subseteq Rows
  BY DEF Within, Present
<1>2. AreasOf(Within(days, t)) \subseteq Areas
  BY <1>1, Stamps DEF AreasOf
<1>3. \A h \in Present : at[h] \in Times
  BY DEF Present, TypeOK
<1>4. \A h \in Present : Day(at[h]) \in Days
  BY <1>3 DEF Days
<1>5. Priced(Within(days, t)) \subseteq Present
  BY <1>1 DEF Priced
<1>6. \A h \in Present : <<AreaOf[h[1]], Day(at[h])>> \in Areas \X Days
  BY <1>1, <1>4, Stamps
<1>7. CellsOf(Priced(Within(days, t))) \subseteq Cells
  BY <1>5, <1>6 DEF CellsOf, Cells
<1> QED
  BY <1>1, <1>2, <1>7

LEMMA IdleType == IdleJob \in JobLocals
<1>1. 0 \in Times
  BY MarketAssumption DEF Times
<1> QED
  BY <1>1 DEF IdleJob, JobLocals, PC, Kinds

(* Both ways to leave a step set the request's record and, at most, the     *)
(* history of the others.                                                   *)
LEMMA JobType ==
    ASSUME TypeOK, NEW r \in Reqs, NEW value \in JobLocals,
           Local(r, value) \/ Wrote(r, value)
    PROVE  /\ job' \in [Reqs -> JobLocals]
           /\ job'[r] = value
           /\ \A q \in Reqs \ {r} : /\ job'[q].pc = job[q].pc
                                    /\ job'[q].file = job[q].file
                                    /\ job'[q].todo = job[q].todo
<1>1. \A q \in Reqs : job[q] \in JobLocals
  BY DEF TypeOK
<1>2. \A q \in Reqs : [job[q] EXCEPT !.alone = FALSE] \in JobLocals
  BY <1>1 DEF JobLocals
<1>3. CASE Local(r, value)
  BY <1>1, <1>3 DEF Local, TypeOK
<1>4. CASE Wrote(r, value)
  <2>1. job' \in [Reqs -> JobLocals]
    BY <1>2, <1>4 DEF Wrote
  <2>2. job'[r] = value
    BY <1>4 DEF Wrote
  <2>3. \A q \in Reqs \ {r} : job'[q] = [job[q] EXCEPT !.alone = FALSE]
    BY <1>4 DEF Wrote
  <2>4. \A q \in Reqs \ {r} : /\ job'[q].pc = job[q].pc
                              /\ job'[q].file = job[q].file
                              /\ job'[q].todo = job[q].todo
    BY <1>1, <2>3 DEF JobLocals
  <2> QED
    BY <2>1, <2>2, <2>4
<1> QED
  BY <1>3, <1>4

(* So a step of one request that keeps the table's rows keeps FileInv if it *)
(* does for that request.                                                   *)
LEMMA FileKept ==
    ASSUME IInv, NEW r \in Reqs, NEW value \in JobLocals,
           Local(r, value) \/ Wrote(r, value),
           Present \subseteq Present',
           value.pc = "insert" => value.file \ value.todo \subseteq Present',
           value.pc \in {"rebuild", "areas", "snaps", "done"} => value.file \subseteq Present'
    PROVE  FileInv'
<1>1. /\ job'[r] = value
      /\ \A q \in Reqs \ {r} : /\ job'[q].pc = job[q].pc
                               /\ job'[q].file = job[q].file
                               /\ job'[q].todo = job[q].todo
  BY JobType DEF IInv
<1>2. ASSUME NEW q \in Reqs
      PROVE  /\ job'[q].pc = "insert" => job'[q].file \ job'[q].todo \subseteq Present'
             /\ job'[q].pc \in {"rebuild", "areas", "snaps", "done"} =>
                    job'[q].file \subseteq Present'
  <2>1. CASE q = r
    BY <1>1, <2>1
  <2>2. CASE q # r
    BY <1>1, <2>2 DEF IInv, FileInv
  <2> QED
    BY <2>1, <2>2
<1> QED
  BY <1>2 DEF FileInv

-----------------------------------------------------------------------------
LEMMA InitIInv == Init => IInv
<1> SUFFICES ASSUME Init PROVE IInv
  OBVIOUS
<1>1. 0 \in Times
  BY MarketAssumption DEF Times
<1>2. TypeOK
  BY <1>1, IdleType DEF Init, TypeOK
<1>3. FileInv
  BY DEF Init, FileInv, IdleJob
<1> QED
  BY <1>2, <1>3 DEF IInv

LEMMA ImportStep ==
    ASSUME IInv, NEW r \in Reqs, Import(r)
    PROVE  IInv'
<1>1. TypeOK /\ FileInv /\ job[r] \in JobLocals
  BY DEF IInv, TypeOK
<1>2. ASSUME NEW lines \in SUBSET Lines
      PROVE  {Hash(l, now) : l \in lines} \subseteq Rows
  BY <1>1, Stamps DEF TypeOK
<1>3. ASSUME NEW lines \in SUBSET BulkLines, BulkStart(r, lines)
      PROVE  IInv'
  <2> DEFINE file == {Hash(l, now) : l \in lines}
  <2> DEFINE value == [IdleJob EXCEPT !.pc = "insert", !.kind = "bulk", !.file = file,
                                      !.todo = file \ Present]
  <2>1. file \subseteq Rows
    BY <1>2 DEF Lines
  <2>2. value \in JobLocals
    BY <2>1, IdleType DEF IdleJob, JobLocals, PC, Kinds
  <2>3. Local(r, value)
    BY <1>3 DEF BulkStart
  <2>4. UNCHANGED <<now, at, outlier, areas, snaps>>
    BY <1>3 DEF BulkStart
  <2>5. value.pc = "insert" /\ value.file \ value.todo \subseteq Present
    BY DEF IdleJob
  <2> HIDE DEF value
  <2>6. TypeOK'
    BY <1>1, <2>2, <2>3, <2>4, JobType DEF TypeOK
  <2>7. FileInv'
    BY <2>2, <2>3, <2>4, <2>5, FileKept DEF Present
  <2> QED
    BY <2>6, <2>7 DEF IInv
<1>4. ASSUME InsertChunk(r)
      PROVE  IInv'
  <2>1. PICK chunk \in PassOf(job[r].todo, Chunk) :
           /\ Insert(chunk)
           /\ Wrote(r, [job[r] EXCEPT !.todo = @ \ chunk, !.inserted = @ + Count(chunk)])
    BY <1>4 DEF InsertChunk
  <2> DEFINE value == [job[r] EXCEPT !.todo = @ \ chunk, !.inserted = @ + Count(chunk)]
  <2>2. chunk \subseteq Rows
    BY <1>1, <2>1 DEF PassOf, JobLocals
  <2> DEFINE todo == job[r].todo \ chunk
  <2> DEFINE inserted == job[r].inserted + Count(chunk)
  <2>3. todo \in SUBSET Rows /\ inserted \in Nat
    <3>1. job[r].todo \in SUBSET Rows /\ job[r].inserted \in Nat
      BY <1>1 DEF JobLocals
    <3>2. Count(chunk) \in Nat
      BY <2>2, CountType
    <3> QED
      BY <3>1, <3>2
  <2>4. value \in JobLocals
    <3> HIDE DEF todo, inserted
    <3>1. [job[r] EXCEPT !.todo = todo, !.inserted = inserted] \in JobLocals
      BY <1>1, <2>3 DEF JobLocals
    <3> QED
      BY <3>1 DEF todo, inserted
  <2>5. at' \in [Rows -> Times \cup {None}] /\ Present \cup chunk \subseteq Present'
    BY <1>1, <2>1, <2>2, Inserted
  <2>6. /\ job[r].pc = "insert"
        /\ UNCHANGED <<now, outlier, areas, snaps>>
    BY <1>4 DEF InsertChunk
  <2>7. /\ value.pc = "insert" /\ value.file = job[r].file
        /\ value.todo = job[r].todo \ chunk
    BY <1>1, <2>6 DEF JobLocals
  <2>8. value.file \ value.todo \subseteq Present'
    BY <1>1, <2>5, <2>6, <2>7 DEF FileInv
  <2> HIDE DEF value
  <2>9. TypeOK'
    BY <1>1, <2>1, <2>4, <2>5, <2>6, JobType DEF TypeOK, Present, value
  <2>10. FileInv'
    BY <2>1, <2>4, <2>5, <2>7, <2>8, FileKept DEF value
  <2> QED
    BY <2>9, <2>10 DEF IInv
<1>5. ASSUME BulkReport(r)
      PROVE  IInv'
  <2> DEFINE value == [job[r] EXCEPT !.pc = "done"]
  <2>1. /\ job[r].pc = "insert" /\ job[r].todo = {}
        /\ Local(r, value)
        /\ UNCHANGED <<now, at, outlier, areas, snaps>>
    BY <1>5 DEF BulkReport
  <2>2. value \in JobLocals /\ value.pc = "done" /\ value.file = job[r].file
    BY <1>1 DEF JobLocals, PC
  <2>3. value.file \subseteq Present
    BY <1>1, <2>1, <2>2 DEF FileInv
  <2> HIDE DEF value
  <2>4. TypeOK'
    BY <1>1, <2>1, <2>2, JobType DEF TypeOK
  <2>5. FileInv'
    BY <2>1, <2>2, <2>3, FileKept DEF Present
  <2> QED
    BY <2>4, <2>5 DEF IInv
<1>6. ASSUME NEW lines \in SUBSET AdminLines, NEW days \in Windows,
             AdminImport(r, lines, days)
      PROVE  IInv'
  <2> DEFINE file == {Hash(l, now) : l \in lines}
  <2> DEFINE value == [IdleJob EXCEPT !.pc = "rebuild", !.kind = "admin", !.days = days,
                                      !.file = file, !.inserted = Count(file)]
  <2>1. file \subseteq Rows
    BY <1>2 DEF Lines
  <2>2. Count(file) \in Nat
    BY <2>1, CountType
  <2>3. value \in JobLocals
    BY <2>1, <2>2, IdleType DEF IdleJob, JobLocals, PC, Kinds
  <2>4. /\ Insert(file) /\ Wrote(r, value)
        /\ UNCHANGED <<now, outlier, areas, snaps>>
    BY <1>6 DEF AdminImport
  <2>5. at' \in [Rows -> Times \cup {None}] /\ Present \cup file \subseteq Present'
    BY <1>1, <2>1, <2>4, Inserted
  <2>6. value.pc = "rebuild" /\ value.file = file
    BY DEF IdleJob
  <2> HIDE DEF value, file
  <2>7. TypeOK'
    BY <1>1, <2>3, <2>4, <2>5, JobType DEF TypeOK, Present
  <2>8. FileInv'
    BY <2>3, <2>4, <2>5, <2>6, FileKept
  <2> QED
    BY <2>7, <2>8 DEF IInv
<1> QED
  BY <1>3, <1>4, <1>5, <1>6 DEF Import

(* A step that leaves the table alone and moves a request on within its     *)
(* rebuild, or ends it.                                                     *)
LEMMA Advance ==
    ASSUME IInv, NEW r \in Reqs, NEW value \in JobLocals,
           Local(r, value) \/ Wrote(r, value),
           UNCHANGED <<now, at, outlier>>,
           areas' \in [Areas -> SUBSET Rows], snaps' \in [Cells -> SUBSET Rows],
           value.pc # "insert", value.file \subseteq Present
    PROVE  IInv'
<1>1. TypeOK'
  BY JobType DEF IInv, TypeOK
<1>2. Present' = Present
  BY DEF Present
<1>3. FileInv'
  BY <1>2, FileKept
<1> QED
  BY <1>1, <1>3 DEF IInv

LEMMA RebuildStep ==
    ASSUME IInv, NEW r \in Reqs, Rebuild(r)
    PROVE  IInv'
<1>1. TypeOK /\ FileInv /\ job[r] \in JobLocals
  BY DEF IInv, TypeOK
<1>2. areas \in [Areas -> SUBSET Rows] /\ snaps \in [Cells -> SUBSET Rows]
  BY <1>1 DEF TypeOK
<1>3. now \in Times
  BY <1>1 DEF TypeOK
<1>4. IdleJob.file = {} /\ {} \subseteq Present
  BY DEF IdleJob
<1>5. job[r].pc \in {"rebuild", "areas", "snaps"} => job[r].file \subseteq Present
  BY <1>1 DEF FileInv
<1>6. ASSUME NEW rows \in SUBSET Rows, NEW flag \in BOOLEAN, NEW days \in Windows \cup {0},
             Mark(r, rows, flag, days)
      PROVE  IInv'
  <2> DEFINE value == [IdleJob EXCEPT !.pc = IF days = 0 THEN "done" ELSE "rebuild",
                                      !.kind = "mark", !.days = days]
  <2>1. value \in JobLocals
    BY IdleType DEF IdleJob, JobLocals, PC, Kinds
  <2>2. Wrote(r, value) /\ UNCHANGED <<now, at, areas, snaps>>
    BY <1>6 DEF Mark
  <2>3. outlier' \subseteq Present
    BY <1>1, <1>6 DEF Mark, TypeOK, Present
  <2>4. value.pc # "insert" /\ value.file = {}
    BY DEF IdleJob
  <2> HIDE DEF value
  <2>5. TypeOK'
    BY <1>1, <2>1, <2>2, <2>3, JobType DEF TypeOK, Present
  <2>6. Present' = Present
    BY <2>2 DEF Present
  <2>7. FileInv'
    BY <2>1, <2>2, <2>4, <2>6, FileKept
  <2> QED
    BY <2>5, <2>7 DEF IInv
<1>7. ASSUME NEW days \in Windows, RebuildStart(r, days)
      PROVE  IInv'
  <2> DEFINE value == [IdleJob EXCEPT !.pc = "rebuild", !.kind = "areas", !.days = days]
  <2>1. value \in JobLocals
    BY IdleType DEF IdleJob, JobLocals, PC, Kinds
  <2>2. Local(r, value) /\ UNCHANGED <<now, at, outlier, areas, snaps>>
    BY <1>7 DEF RebuildStart
  <2>3. value.pc # "insert" /\ value.file = {}
    BY DEF IdleJob
  <2> QED
    BY <1>2, <2>1, <2>2, <2>3, Advance
<1>8. ASSUME NEW days \in Windows, SnapshotRead(r, days)
      PROVE  IInv'
  <2> DEFINE reading == Priced(Within(days, now))
  <2> DEFINE value == [IdleJob EXCEPT !.pc = "snaps", !.kind = "snaps", !.days = days,
                                      !.reading = reading, !.read = now,
                                      !.left = CellsOf(reading),
                                      !.grouped = Cardinality(CellsOf(reading))]
  <2>1. reading \subseteq Rows /\ CellsOf(reading) \subseteq Cells
    BY <1>1, Found DEF Priced
  <2>2. Local(r, value) /\ UNCHANGED <<now, at, outlier, areas, snaps>>
    BY <1>8 DEF SnapshotRead
  <2> HIDE DEF reading
  <2>5. Cardinality(CellsOf(reading)) \in Nat
    BY <2>1, FiniteRows, FS_Subset, FS_CardinalityType
  <2>3. value \in JobLocals
    BY <1>3, <2>1, <2>5, IdleType DEF IdleJob, JobLocals, PC, Kinds
  <2>4. value.pc # "insert" /\ value.file = {}
    BY DEF IdleJob
  <2> QED
    BY <1>2, <2>2, <2>3, <2>4, Advance
<1>15. ASSUME NEW days \in Windows, SnapshotQueryFails(r, days)
       PROVE  IInv'
  <2> DEFINE value == [IdleJob EXCEPT !.pc = "done", !.kind = "snaps", !.days = days,
                                      !.read = now]
  <2>1. value \in JobLocals
    BY <1>3, IdleType DEF IdleJob, JobLocals, PC, Kinds
  <2>2. Local(r, value) /\ UNCHANGED <<now, at, outlier, areas, snaps>>
    BY <1>15 DEF SnapshotQueryFails
  <2>3. value.pc # "insert" /\ value.file = {}
    BY DEF IdleJob
  <2> HIDE DEF value
  <2> QED
    BY <1>2, <2>1, <2>2, <2>3, Advance
<1>9. ASSUME RebuildRead(r)
      PROVE  IInv'
  <2> DEFINE reading == Within(job[r].days, now)
  <2> DEFINE value == [job[r] EXCEPT !.pc = "areas", !.reading = reading, !.read = now,
                                     !.left = AreasOf(reading), !.alone = TRUE]
  <2>1. reading \subseteq Rows /\ AreasOf(reading) \subseteq Areas
    BY <1>1, Found
  <2>2. /\ job[r].pc = "rebuild" /\ Local(r, value)
        /\ UNCHANGED <<now, at, outlier, areas, snaps>>
    BY <1>9 DEF RebuildRead
  <2> HIDE DEF reading
  <2>3. value \in JobLocals /\ value.pc # "insert" /\ value.file = job[r].file
    BY <1>1, <1>3, <2>1 DEF JobLocals, PC
  <2> HIDE DEF value
  <2> QED
    BY <1>2, <1>5, <2>2, <2>3, Advance
<1>10. ASSUME RebuildWrite(r)
       PROVE  IInv'
  <2>1. PICK batch \in PassOf(job[r].left, Batch) :
           /\ areas' = [a \in Areas |-> IF a \in batch THEN OfArea(job[r].reading, a)
                                        ELSE areas[a]]
           /\ Wrote(r, [job[r] EXCEPT !.left = @ \ batch])
    BY <1>10 DEF RebuildWrite
  <2> DEFINE value == [job[r] EXCEPT !.left = @ \ batch]
  <2>2. value \in JobLocals /\ value.pc = job[r].pc /\ value.file = job[r].file
    BY <1>1 DEF JobLocals
  <2>3. job[r].reading \subseteq Rows
    BY <1>1 DEF JobLocals
  <2>4. areas' \in [Areas -> SUBSET Rows]
    BY <1>2, <2>1, <2>3 DEF OfArea
  <2>5. job[r].pc = "areas" /\ UNCHANGED <<now, at, outlier, snaps>>
    BY <1>10 DEF RebuildWrite
  <2>6. Wrote(r, value)
    BY <2>1
  <2> HIDE DEF value
  <2> QED
    BY <1>2, <1>5, <2>2, <2>4, <2>5, <2>6, Advance
<1>11. ASSUME NEW c \in Cells, SnapshotWrite(r, c)
       PROVE  IInv'
  <2> DEFINE value == [job[r] EXCEPT !.left = @ \ {c}]
  <2>1. value \in JobLocals /\ value.pc = job[r].pc /\ value.file = job[r].file
    BY <1>1 DEF JobLocals
  <2>2. job[r].reading \subseteq Rows
    BY <1>1 DEF JobLocals
  <2>3. /\ job[r].pc = "snaps" /\ Wrote(r, value)
        /\ snaps' = [snaps EXCEPT ![c] = OfCell(job[r].reading, c)]
        /\ UNCHANGED <<now, at, outlier, areas>>
    BY <1>11 DEF SnapshotWrite
  <2>4. snaps' \in [Cells -> SUBSET Rows]
    BY <1>2, <2>2, <2>3 DEF OfCell, OfArea
  <2> HIDE DEF value
  <2> QED
    BY <1>2, <1>5, <2>1, <2>3, <2>4, Advance
<1>12. ASSUME NEW c \in Cells, SnapshotSkipped(r, c)
       PROVE  IInv'
  <2> DEFINE value == [job[r] EXCEPT !.left = @ \ {c}, !.skipped = TRUE]
  <2>1. value \in JobLocals /\ value.pc = job[r].pc /\ value.file = job[r].file
    BY <1>1 DEF JobLocals
  <2>2. /\ job[r].pc = "snaps" /\ Local(r, value)
        /\ UNCHANGED <<now, at, outlier, areas, snaps>>
    BY <1>12 DEF SnapshotSkipped
  <2> HIDE DEF value
  <2> QED
    BY <1>2, <1>5, <2>1, <2>2, Advance
<1>13. ASSUME Finish(r)
       PROVE  IInv'
  <2> DEFINE value == [job[r] EXCEPT !.pc = "done", !.reading = {}]
  <2>1. value \in JobLocals /\ value.pc = "done" /\ value.file = job[r].file
    BY <1>1 DEF JobLocals, PC
  <2>2. /\ job[r].pc \in {"areas", "snaps"} /\ Local(r, value)
        /\ UNCHANGED <<now, at, outlier, areas, snaps>>
    BY <1>13 DEF Finish
  <2> HIDE DEF value
  <2> QED
    BY <1>2, <1>5, <2>1, <2>2, Advance
<1>14. ASSUME Lost(r)
       PROVE  IInv'
  <2> DEFINE value == [IdleJob EXCEPT !.pc = "lost", !.inserted = job[r].inserted]
  <2>1. job[r].inserted \in Nat
    BY <1>1 DEF JobLocals
  <2>2. value \in JobLocals
    BY <2>1, IdleType DEF IdleJob, JobLocals, PC
  <2>3. value.pc = "lost" /\ value.file = {}
    BY DEF IdleJob
  <2>4. Local(r, value) /\ UNCHANGED <<now, at, outlier, areas, snaps>>
    BY <1>14 DEF Lost
  <2> HIDE DEF value
  <2> QED
    BY <1>2, <2>2, <2>3, <2>4, Advance
<1> QED
  <2>1. \A lines \in Marked : {h \in Rows : h[1] \in lines} \in SUBSET Rows
    OBVIOUS
  <2> QED
    BY <1>6, <1>7, <1>8, <1>9, <1>10, <1>11, <1>12, <1>13, <1>14, <1>15, <2>1
       DEF Rebuild

LEMMA Invariance == Spec => []IInv
<1>1. ASSUME IInv, [Next]_vars
      PROVE  IInv'
  <2>1. CASE Tick
    <3>1. now' \in Times
      BY <1>1, <2>1, MarketAssumption DEF Tick, Times, IInv, TypeOK
    <3>2. Present' = Present /\ UNCHANGED <<at, outlier, areas, snaps, job>>
      BY <2>1 DEF Tick, Present
    <3> QED
      BY <1>1, <3>1, <3>2 DEF IInv, TypeOK, FileInv
  <2>2. ASSUME NEW r \in Reqs, Import(r) \/ Rebuild(r)
        PROVE  IInv'
    BY <1>1, <2>2, ImportStep, RebuildStep
  <2>3. CASE UNCHANGED vars
    BY <1>1, <2>3 DEF vars, IInv, TypeOK, FileInv, Present
  <2> QED
    BY <1>1, <2>1, <2>2, <2>3 DEF Next
<1> QED
  BY <1>1, InitIInv, PTL DEF Spec

-----------------------------------------------------------------------------
(* What a request that runs alone has derived so far: AreasSet and SnapsSet *)
(* say which prices are those of the rows of S, all but the ones in T.      *)
AreasSet(S, T) == \A a \in AreasOf(S) \ T : areas[a] = OfArea(S, a)
SnapsSet(S, T) == \A c \in CellsOf(S) \ T : snaps[c] = OfCell(S, c)

Rebuilds == {"areas", "admin", "mark"}

Kinded(r) ==
    /\ job[r].pc = "insert" => job[r].kind = "bulk"
    /\ job[r].pc \in {"rebuild", "areas"} => job[r].kind \in Rebuilds
    /\ job[r].pc = "snaps" => job[r].kind = "snaps"

Derived(r) ==
    LET found == Within(job[r].days, job[r].read) IN
    /\ job[r].pc = "areas" =>
           job[r].reading = found /\ AreasSet(found, job[r].left)
    /\ job[r].pc = "snaps" =>
           /\ job[r].reading = Priced(found)
           /\ ~job[r].skipped => SnapsSet(Priced(found), job[r].left)
    /\ job[r].pc = "done" /\ job[r].kind \in Rebuilds /\ job[r].days > 0 =>
           AreasSet(found, {})
    /\ job[r].pc = "done" /\ job[r].kind = "snaps" /\ job[r].grouped > 0 /\ ~job[r].skipped
           => SnapsSet(Priced(found), {})

LoneInv == \A r \in Reqs : Kinded(r) /\ (job[r].alone => Derived(r))

(* The requests other than the one that takes a step either see no table    *)
(* change or are no longer alone.                                           *)
LEMMA OthersDerived ==
    ASSUME TypeOK, LoneInv, NEW r \in Reqs, NEW value,
           \/ Wrote(r, value)
           \/ Local(r, value) /\ UNCHANGED <<at, outlier, areas, snaps>>,
           Kinded(r)', job'[r].alone => Derived(r)'
    PROVE  LoneInv'
<1>1. ASSUME NEW q \in Reqs, q # r
      PROVE  Kinded(q)' /\ (job'[q].alone => Derived(q)')
  <2>1. Kinded(q) /\ (job[q].alone => Derived(q)) /\ job[q] \in JobLocals
    BY DEF LoneInv, TypeOK
  <2>2. CASE Wrote(r, value)
    <3>1. job'[q] = [job[q] EXCEPT !.alone = FALSE]
      BY <1>1, <2>2 DEF Wrote
    <3>2. ~job'[q].alone /\ job'[q].pc = job[q].pc /\ job'[q].kind = job[q].kind
      BY <2>1, <3>1 DEF JobLocals
    <3> QED
      BY <2>1, <3>2 DEF Kinded
  <2>3. CASE Local(r, value) /\ UNCHANGED <<at, outlier, areas, snaps>>
    <3>1. job'[q] = job[q]
      BY <1>1, <2>3 DEF Local, TypeOK
    <3>2. Kinded(q)' <=> Kinded(q)
      BY <3>1 DEF Kinded
    <3>3. Derived(q)' <=> Derived(q)
      BY <2>3, <3>1 DEF Derived, AreasSet, SnapsSet, Within, Present, Priced, CellsOf,
                        OfCell, OfArea, AreasOf
    <3> QED
      BY <2>1, <3>1, <3>2, <3>3
  <2> QED
    BY <2>2, <2>3
<1> QED
  BY <1>1 DEF LoneInv

LEMMA LoneInit == Init => LoneInv
BY DEF Init, LoneInv, Kinded, Derived, IdleJob

LEMMA LoneImport ==
    ASSUME TypeOK, LoneInv, NEW r \in Reqs, Import(r)
    PROVE  LoneInv'
<1>1. job[r] \in JobLocals /\ Kinded(r)
  BY DEF TypeOK, LoneInv
<1>2. ASSUME NEW lines, BulkStart(r, lines)
      PROVE  LoneInv'
  <2> DEFINE file == {Hash(l, now) : l \in lines}
  <2> DEFINE value == [IdleJob EXCEPT !.pc = "insert", !.kind = "bulk", !.file = file,
                                      !.todo = file \ Present]
  <2>1. Local(r, value) /\ UNCHANGED <<at, outlier, areas, snaps>>
    BY <1>2 DEF BulkStart
  <2>2. value.pc = "insert" /\ value.kind = "bulk"
    BY DEF IdleJob
  <2> HIDE DEF value
  <2>3. job'[r] = value
    BY <2>1 DEF Local, TypeOK
  <2>4. Kinded(r)' /\ Derived(r)'
    BY <2>2, <2>3 DEF Kinded, Derived, Rebuilds
  <2> QED
    BY <2>1, <2>4, OthersDerived
<1>3. ASSUME InsertChunk(r)
      PROVE  LoneInv'
  <2>1. job[r].pc = "insert" /\ job[r].kind = "bulk"
    BY <1>1, <1>3 DEF InsertChunk, Kinded
  <2>2. PICK chunk : Wrote(r, [job[r] EXCEPT !.todo = @ \ chunk,
                                             !.inserted = @ + Count(chunk)])
    BY <1>3 DEF InsertChunk
  <2> DEFINE value == [job[r] EXCEPT !.todo = @ \ chunk, !.inserted = @ + Count(chunk)]
  <2>3. value.pc = "insert" /\ value.kind = "bulk"
    BY <1>1, <2>1 DEF JobLocals
  <2>4. Wrote(r, value)
    BY <2>2
  <2> HIDE DEF value
  <2>5. job'[r] = value
    BY <2>4 DEF Wrote
  <2>6. Kinded(r)' /\ Derived(r)'
    BY <2>3, <2>5 DEF Kinded, Derived, Rebuilds
  <2> QED
    BY <2>4, <2>6, OthersDerived
<1>4. ASSUME BulkReport(r)
      PROVE  LoneInv'
  <2> DEFINE value == [job[r] EXCEPT !.pc = "done"]
  <2>1. Local(r, value) /\ UNCHANGED <<at, outlier, areas, snaps>>
    BY <1>4 DEF BulkReport
  <2>2. value.pc = "done" /\ value.kind = "bulk"
    BY <1>1, <1>4 DEF BulkReport, JobLocals, Kinded
  <2> HIDE DEF value
  <2>3. job'[r] = value
    BY <2>1 DEF Local, TypeOK
  <2>4. Kinded(r)' /\ Derived(r)'
    BY <2>2, <2>3 DEF Kinded, Derived, Rebuilds
  <2> QED
    BY <2>1, <2>4, OthersDerived
<1>5. ASSUME NEW lines, NEW days, AdminImport(r, lines, days)
      PROVE  LoneInv'
  <2> DEFINE file == {Hash(l, now) : l \in lines}
  <2> DEFINE value == [IdleJob EXCEPT !.pc = "rebuild", !.kind = "admin", !.days = days,
                                      !.file = file, !.inserted = Count(file)]
  <2>1. Wrote(r, value)
    BY <1>5 DEF AdminImport
  <2>2. value.pc = "rebuild" /\ value.kind = "admin"
    BY DEF IdleJob
  <2> HIDE DEF value
  <2>3. job'[r] = value
    BY <2>1 DEF Wrote
  <2>4. Kinded(r)' /\ Derived(r)'
    BY <2>2, <2>3 DEF Kinded, Derived, Rebuilds
  <2> QED
    BY <2>1, <2>4, OthersDerived
<1> QED
  BY <1>2, <1>3, <1>4, <1>5 DEF Import

LEMMA LoneRebuild ==
    ASSUME TypeOK, LoneInv, NEW r \in Reqs, Rebuild(r)
    PROVE  LoneInv'
<1>1. job[r] \in JobLocals /\ Kinded(r) /\ (job[r].alone => Derived(r))
  BY DEF TypeOK, LoneInv
<1>2. ASSUME NEW rows, NEW flag, NEW days, Mark(r, rows, flag, days),
             days \in Windows \cup {0}
      PROVE  LoneInv'
  <2> DEFINE value == [IdleJob EXCEPT !.pc = IF days = 0 THEN "done" ELSE "rebuild",
                                      !.kind = "mark", !.days = days]
  <2>1. Wrote(r, value)
    BY <1>2 DEF Mark
  <2>2. /\ value.pc = "rebuild" \/ (value.pc = "done" /\ value.days = 0)
        /\ value.kind = "mark"
    BY DEF IdleJob
  <2> HIDE DEF value
  <2>3. job'[r] = value
    BY <2>1 DEF Wrote
  <2>4. Kinded(r)' /\ Derived(r)'
    BY <2>2, <2>3 DEF Kinded, Derived, Rebuilds
  <2> QED
    BY <2>1, <2>4, OthersDerived
<1>3. ASSUME NEW days, RebuildStart(r, days)
      PROVE  LoneInv'
  <2> DEFINE value == [IdleJob EXCEPT !.pc = "rebuild", !.kind = "areas", !.days = days]
  <2>1. Local(r, value) /\ UNCHANGED <<at, outlier, areas, snaps>>
    BY <1>3 DEF RebuildStart
  <2>2. value.pc = "rebuild" /\ value.kind = "areas"
    BY DEF IdleJob
  <2> HIDE DEF value
  <2>3. job'[r] = value
    BY <2>1 DEF Local, TypeOK
  <2>4. Kinded(r)' /\ Derived(r)'
    BY <2>2, <2>3 DEF Kinded, Derived, Rebuilds
  <2> QED
    BY <2>1, <2>4, OthersDerived
<1>4. ASSUME NEW days, SnapshotRead(r, days)
      PROVE  LoneInv'
  <2> DEFINE reading == Priced(Within(days, now))
  <2> DEFINE value == [IdleJob EXCEPT !.pc = "snaps", !.kind = "snaps", !.days = days,
                                      !.reading = reading, !.read = now,
                                      !.left = CellsOf(reading),
                                      !.grouped = Cardinality(CellsOf(reading))]
  <2>1. Local(r, value) /\ UNCHANGED <<at, outlier, areas, snaps>>
    BY <1>4 DEF SnapshotRead
  <2>2. /\ value.pc = "snaps" /\ value.kind = "snaps" /\ value.days = days
        /\ value.reading = reading /\ value.read = now /\ value.left = CellsOf(reading)
    BY DEF IdleJob
  <2> HIDE DEF value
  <2>4. job'[r] = value
    BY <2>1 DEF Local, TypeOK
  <2>6. /\ job'[r].reading = Priced(Within(job[r].days, job[r].read))'
        /\ job'[r].left = CellsOf(Priced(Within(job[r].days, job[r].read)))'
    BY <2>1, <2>2, <2>4 DEF Within, Priced, Present, CellsOf
  <2>7. Kinded(r)'
    BY <2>2, <2>4 DEF Kinded
  <2>8. Derived(r)'
    BY <2>2, <2>4, <2>6 DEF Derived, SnapsSet
  <2> QED
    BY <2>1, <2>7, <2>8, OthersDerived
<1>11. ASSUME NEW days, SnapshotQueryFails(r, days)
       PROVE  LoneInv'
  <2> DEFINE value == [IdleJob EXCEPT !.pc = "done", !.kind = "snaps", !.days = days,
                                      !.read = now]
  <2>1. Local(r, value) /\ UNCHANGED <<at, outlier, areas, snaps>>
    BY <1>11 DEF SnapshotQueryFails
  <2>2. value.pc = "done" /\ value.kind = "snaps" /\ value.grouped = 0
    BY DEF IdleJob
  <2> HIDE DEF value
  <2>3. job'[r] = value
    BY <2>1 DEF Local, TypeOK
  <2>4. Kinded(r)' /\ Derived(r)'
    BY <2>2, <2>3 DEF Kinded, Derived, Rebuilds
  <2> QED
    BY <2>1, <2>4, OthersDerived
<1>5. ASSUME RebuildRead(r)
      PROVE  LoneInv'
  <2> DEFINE reading == Within(job[r].days, now)
  <2> DEFINE value == [job[r] EXCEPT !.pc = "areas", !.reading = reading, !.read = now,
                                     !.left = AreasOf(reading), !.alone = TRUE]
  <2>1. Local(r, value) /\ UNCHANGED <<at, outlier, areas, snaps>>
    BY <1>5 DEF RebuildRead
  <2>2. job[r].kind \in Rebuilds
    BY <1>1, <1>5 DEF RebuildRead, Kinded
  <2>3. /\ value.pc = "areas" /\ value.kind \in Rebuilds /\ value.days = job[r].days
        /\ value.reading = reading /\ value.read = now /\ value.left = AreasOf(reading)
    BY <1>1, <2>2 DEF JobLocals
  <2> HIDE DEF value
  <2>4. job'[r] = value
    BY <2>1 DEF Local, TypeOK
  <2>5. /\ job'[r].reading = Within(job[r].days, job[r].read)'
        /\ job'[r].left = AreasOf(Within(job[r].days, job[r].read))'
    BY <2>1, <2>3, <2>4 DEF Within, Present, AreasOf
  <2>6. Kinded(r)'
    BY <2>3, <2>4 DEF Kinded
  <2>7. Derived(r)'
    BY <2>3, <2>4, <2>5 DEF Derived, AreasSet
  <2> QED
    BY <2>1, <2>6, <2>7, OthersDerived
<1>6. ASSUME RebuildWrite(r)
      PROVE  LoneInv'
  <2>1. PICK batch \in PassOf(job[r].left, Batch) :
           /\ areas' = [a \in Areas |-> IF a \in batch THEN OfArea(job[r].reading, a)
                                        ELSE areas[a]]
           /\ Wrote(r, [job[r] EXCEPT !.left = @ \ batch])
    BY <1>6 DEF RebuildWrite
  <2> DEFINE value == [job[r] EXCEPT !.left = @ \ batch]
  <2> DEFINE found == Within(job[r].days, job[r].read)
  <2>2. Wrote(r, value) /\ job[r].pc = "areas" /\ UNCHANGED <<now, at, outlier, snaps>>
    BY <1>6, <2>1 DEF RebuildWrite
  <2>3. /\ value.pc = "areas" /\ value.kind = job[r].kind /\ value.days = job[r].days
        /\ value.reading = job[r].reading /\ value.read = job[r].read
        /\ value.left = job[r].left \ batch /\ value.alone = job[r].alone
    BY <1>1, <2>2 DEF JobLocals
  <2> HIDE DEF value
  <2>4. job'[r] = value
    BY <2>2 DEF Wrote
  <2>5. Kinded(r)'
    BY <1>1, <2>2, <2>3, <2>4 DEF Kinded
  <2>6. ASSUME job'[r].alone PROVE Derived(r)'
    <3>1. job[r].reading = found /\ AreasSet(found, job[r].left)
      BY <1>1, <2>2, <2>3, <2>4, <2>6 DEF Derived
    <3>2. found' = found
      BY <2>2, <2>3, <2>4 DEF Within, Present
    <3>3. AreasOf(found) \subseteq Areas
      BY Found
    <3> HIDE DEF found
    <3>4. \A a \in AreasOf(found) \ (job[r].left \ batch) : areas'[a] = OfArea(found, a)
      BY <2>1, <3>1, <3>3 DEF AreasSet
    <3>5. AreasSet(found, job[r].left)'
      BY <2>3, <2>4, <3>2, <3>4 DEF AreasSet, AreasOf, OfArea
    <3> QED
      BY <2>3, <2>4, <3>1, <3>2, <3>5 DEF Derived, found
  <2> QED
    BY <2>2, <2>5, <2>6, OthersDerived
<1>7. ASSUME NEW c \in Cells, SnapshotWrite(r, c)
      PROVE  LoneInv'
  <2> DEFINE value == [job[r] EXCEPT !.left = @ \ {c}]
  <2> DEFINE found == Priced(Within(job[r].days, job[r].read))
  <2>1. /\ Wrote(r, value) /\ job[r].pc = "snaps"
        /\ snaps' = [snaps EXCEPT ![c] = OfCell(job[r].reading, c)]
        /\ UNCHANGED <<now, at, outlier, areas>>
    BY <1>7 DEF SnapshotWrite
  <2>2. /\ value.pc = "snaps" /\ value.kind = job[r].kind /\ value.days = job[r].days
        /\ value.reading = job[r].reading /\ value.read = job[r].read
        /\ value.left = job[r].left \ {c} /\ value.alone = job[r].alone
        /\ value.skipped = job[r].skipped
    BY <1>1, <2>1 DEF JobLocals
  <2> HIDE DEF value
  <2>3. job'[r] = value
    BY <2>1 DEF Wrote
  <2>4. Kinded(r)'
    BY <1>1, <2>1, <2>2, <2>3 DEF Kinded
  <2>5. ASSUME job'[r].alone PROVE Derived(r)'
    <3>1. /\ job[r].reading = found
          /\ ~job[r].skipped => SnapsSet(found, job[r].left)
      BY <1>1, <2>1, <2>2, <2>3, <2>5 DEF Derived
    <3>2. found' = found
      BY <2>1, <2>2, <2>3 DEF Within, Present, Priced
    <3>3. CellsOf(found) \subseteq Cells
      BY Found
    <3> HIDE DEF found
    <3>4. snaps \in [Cells -> SUBSET Rows]
      BY DEF TypeOK
    <3>5. ASSUME ~job[r].skipped
          PROVE  \A d \in CellsOf(found) \ (job[r].left \ {c}) : snaps'[d] = OfCell(found, d)
      BY <2>1, <3>1, <3>3, <3>4, <3>5 DEF SnapsSet
    <3>6. ~job[r].skipped => SnapsSet(found, job[r].left)'
      BY <2>1, <2>2, <2>3, <3>2, <3>5 DEF SnapsSet, CellsOf, OfCell, OfArea
    <3> QED
      BY <2>2, <2>3, <3>1, <3>2, <3>6 DEF Derived, found
  <2> QED
    BY <2>1, <2>4, <2>5, OthersDerived
<1>8. ASSUME NEW c \in Cells, SnapshotSkipped(r, c)
      PROVE  LoneInv'
  <2> DEFINE value == [job[r] EXCEPT !.left = @ \ {c}, !.skipped = TRUE]
  <2>1. /\ Local(r, value) /\ job[r].pc = "snaps"
        /\ UNCHANGED <<at, outlier, areas, snaps>>
    BY <1>8 DEF SnapshotSkipped
  <2>2. /\ value.pc = "snaps" /\ value.kind = job[r].kind /\ value.days = job[r].days
        /\ value.reading = job[r].reading /\ value.read = job[r].read
        /\ value.alone = job[r].alone /\ value.skipped
    BY <1>1, <2>1 DEF JobLocals
  <2> HIDE DEF value
  <2>3. job'[r] = value
    BY <2>1 DEF Local, TypeOK
  <2>4. Kinded(r)'
    BY <1>1, <2>1, <2>2, <2>3 DEF Kinded
  <2>5. ASSUME job'[r].alone PROVE Derived(r)'
    <3> DEFINE found == Priced(Within(job[r].days, job[r].read))
    <3>1. job[r].reading = found
      BY <1>1, <2>1, <2>2, <2>3, <2>5 DEF Derived
    <3>2. found' = found
      BY <2>1, <2>2, <2>3 DEF Within, Present, Priced
    <3> HIDE DEF found
    <3> QED
      BY <2>2, <2>3, <3>1, <3>2 DEF Derived, found
  <2> QED
    BY <2>1, <2>4, <2>5, OthersDerived
<1>9. ASSUME Finish(r)
      PROVE  LoneInv'
  <2> DEFINE value == [job[r] EXCEPT !.pc = "done", !.reading = {}]
  <2>1. /\ Local(r, value) /\ job[r].pc \in {"areas", "snaps"} /\ job[r].left = {}
        /\ UNCHANGED <<at, outlier, areas, snaps>>
    BY <1>9 DEF Finish
  <2>2. /\ value.pc = "done" /\ value.kind = job[r].kind /\ value.days = job[r].days
        /\ value.read = job[r].read /\ value.alone = job[r].alone
        /\ value.grouped = job[r].grouped /\ value.skipped = job[r].skipped
    BY <1>1 DEF JobLocals
  <2> HIDE DEF value
  <2>3. job'[r] = value
    BY <2>1 DEF Local, TypeOK
  <2>4. Kinded(r)'
    BY <2>2, <2>3 DEF Kinded
  <2>5. ASSUME job'[r].alone PROVE Derived(r)'
    <3> DEFINE found == Within(job[r].days, job[r].read)
    <3>1. found' = found
      BY <2>1, <2>2, <2>3 DEF Within, Present
    <3>2. job[r].kind \in Rebuilds => AreasSet(found, {})
      BY <1>1, <2>1, <2>2, <2>3, <2>5 DEF Derived, Kinded, Rebuilds
    <3>3. job[r].kind = "snaps" /\ ~job[r].skipped => SnapsSet(Priced(found), {})
      BY <1>1, <2>1, <2>2, <2>3, <2>5 DEF Derived, Kinded, Rebuilds
    <3> HIDE DEF found
    <3>4. AreasSet(found, {})' <=> AreasSet(found, {})
      BY <2>1, <3>1 DEF AreasSet, AreasOf, OfArea
    <3>5. SnapsSet(Priced(found), {})' <=> SnapsSet(Priced(found), {})
      BY <2>1, <3>1 DEF SnapsSet, Priced, CellsOf, OfCell, OfArea
    <3> QED
      BY <2>2, <2>3, <3>2, <3>3, <3>4, <3>5 DEF Derived, found
  <2> QED
    BY <2>1, <2>4, <2>5, OthersDerived
<1>10. ASSUME Lost(r)
       PROVE  LoneInv'
  <2> DEFINE value == [IdleJob EXCEPT !.pc = "lost", !.inserted = job[r].inserted]
  <2>1. Local(r, value) /\ UNCHANGED <<at, outlier, areas, snaps>>
    BY <1>10 DEF Lost
  <2>2. value.pc = "lost"
    BY DEF IdleJob
  <2> HIDE DEF value
  <2>3. job'[r] = value
    BY <2>1 DEF Local, TypeOK
  <2>4. Kinded(r)' /\ Derived(r)'
    BY <2>2, <2>3 DEF Kinded, Derived
  <2> QED
    BY <2>1, <2>4, OthersDerived
<1> QED
  BY <1>2, <1>3, <1>4, <1>5, <1>6, <1>7, <1>8, <1>9, <1>10, <1>11 DEF Rebuild

(* Tables and requests hold what they are declared to hold, and only rows   *)
(* of the table are outliers, whatever ids markOutliers is given.           *)
THEOREM TypeCorrect == Spec => []TypeOK
<1>1. IInv => TypeOK
  BY DEF IInv
<1> QED
  BY <1>1, Invariance, PTL

(* importCsv and importCsvAndRebuild report success only with all the valid *)
(* rows of the file in market_data, whoever inserted them.                  *)
THEOREM SuccessfulImportIsComplete == Spec => []ImportIsComplete
<1>1. IInv => ImportIsComplete
  BY DEF IInv, FileInv, ImportIsComplete
<1> QED
  BY <1>1, Invariance, PTL

LEMMA LoneInvariance == Spec => [](TypeOK /\ LoneInv)
<1>1. ASSUME TypeOK, LoneInv, [Next]_vars
      PROVE  LoneInv'
  <2>1. CASE UNCHANGED <<at, outlier, areas, snaps, job>>
    BY <1>1, <2>1 DEF LoneInv, Kinded, Derived, AreasSet, SnapsSet, Within, Present, Priced,
                      CellsOf, OfCell, OfArea, AreasOf
  <2>2. ASSUME NEW r \in Reqs, Import(r) \/ Rebuild(r)
        PROVE  LoneInv'
    BY <1>1, <2>2, LoneImport, LoneRebuild
  <2> QED
    BY <1>1, <2>1, <2>2 DEF Next, Tick, vars
<1>2. IInv => TypeOK
  BY DEF IInv
<1> QED
  BY <1>1, <1>2, Invariance, LoneInit, PTL DEF Spec

(* rebuildAreas, alone or at the end of an import or of a marking, leaves   *)
(* the areas of its window with exactly the rows of the window, in whatever *)
(* batches it writes them, unless another request wrote after it read.      *)
THEOREM LoneRebuildsComplete == Spec => []LoneRebuildIsComplete
<1>1. ASSUME TypeOK, LoneInv
      PROVE  LoneRebuildIsComplete
  <2> SUFFICES ASSUME NEW r \in Reqs, job[r].pc = "done", job[r].kind \in Rebuilds,
                      job[r].days > 0, job[r].alone, NEW a \in Areas
               PROVE  LET rows == {h \in Rows : /\ AreaOf[h[1]] = a
                                                /\ Wanted(h, job[r].days, job[r].read)}
                      IN  rows # {} => areas[a] = rows
    BY DEF LoneRebuildIsComplete, Rebuilds
  <2> DEFINE found == Within(job[r].days, job[r].read)
  <2>1. AreasSet(found, {})
    BY <1>1 DEF LoneInv, Derived
  <2>2. {h \in Rows : AreaOf[h[1]] = a /\ Wanted(h, job[r].days, job[r].read)}
          = OfArea(found, a)
    BY DEF Wanted, OfArea, Within, Present
  <2> HIDE DEF found
  <2>3. OfArea(found, a) # {} => a \in AreasOf(found)
    BY DEF OfArea, AreasOf
  <2> QED
    BY <2>1, <2>2, <2>3 DEF AreasSet
<1> QED
  BY <1>1, LoneInvariance, PTL

(* A day that lies wholly in a window lies in it at every moment.           *)
LEMMA WholeDay ==
    ASSUME NEW t \in Nat, NEW days \in Nat, NEW now0 \in Nat,
           (Day(t) + days) * DayLength >= now0
    PROVE  t + days * DayLength >= now0
<1>1. DayLength \in Nat \ {0}
  BY MarketAssumption
<1> DEFINE d == t \div DayLength
<1>2. d \in Nat /\ d * DayLength <= t
  BY <1>1
<1> HIDE DEF d
<1>3. (d + days) * DayLength = d * DayLength + days * DayLength
  BY <1>1, <1>2
<1>4. d * DayLength \in Nat /\ days * DayLength \in Nat
  BY <1>1, <1>2
<1>5. (d + days) * DayLength >= now0
  BY DEF d, Day
<1> QED
  BY <1>2, <1>3, <1>4, <1>5

(* rebuildSnapshots leaves each area and day that lies wholly in its window *)
(* with exactly the rows of that day that have a price and are no outliers, *)
(* if its answer is of some snapshots and of none skipped, and no other     *)
(* request wrote after it read.                                             *)
THEOREM LoneSnapshotsComplete == Spec => []LoneSnapshotIsComplete
<1>1. ASSUME TypeOK, LoneInv
      PROVE  LoneSnapshotIsComplete
  <2> SUFFICES ASSUME NEW r \in Reqs, job[r].pc = "done", job[r].kind = "snaps",
                      job[r].alone, job[r].grouped > 0, ~job[r].skipped,
                      NEW c \in Cells,
                      (c[2] + job[r].days) * DayLength >= job[r].read
               PROVE  LET rows == {h \in Rows : /\ h[1] \in AdminLines
                                                /\ AreaOf[h[1]] = c[1]
                                                /\ h \in Present \ outlier
                                                /\ Day(at[h]) = c[2]}
                      IN  rows # {} => snaps[c] = rows
    BY DEF LoneSnapshotIsComplete
  <2> DEFINE rows == {h \in Rows : /\ h[1] \in AdminLines /\ AreaOf[h[1]] = c[1]
                                   /\ h \in Present \ outlier /\ Day(at[h]) = c[2]}
  <2> DEFINE found == Priced(Within(job[r].days, job[r].read))
  <2>1. SnapsSet(found, {})
    BY <1>1 DEF LoneInv, Derived
  <2>2. job[r].days \in Nat /\ job[r].read \in Nat
    <3>1. job[r] \in JobLocals
      BY <1>1 DEF TypeOK
    <3>2. job[r].days \in Windows \cup {0} /\ job[r].read \in Times
      BY <3>1 DEF JobLocals
    <3>3. Windows \subseteq Nat
      BY MarketAssumption
    <3>4. Windows \cup {0} \subseteq Nat
      BY <3>3
    <3> QED
      BY <3>2, <3>4, Stamps
  <2>3. ASSUME NEW h \in rows
        PROVE  at[h] + job[r].days * DayLength >= job[r].read
    <3>1. at[h] \in Nat /\ Day(at[h]) = c[2]
      BY <1>1, Stamps DEF TypeOK, Present
    <3> QED
      BY <2>2, <3>1, WholeDay
  <2>4. rows = OfCell(found, c)
    BY <2>3 DEF OfCell, OfArea, Priced, Within, Present
  <2> HIDE DEF found
  <2>5. c = <<c[1], c[2]>>
    BY DEF Cells
  <2>6. OfCell(found, c) # {} => c \in CellsOf(found)
    BY <2>5 DEF OfCell, OfArea, CellsOf
  <2> HIDE DEF rows
  <2>7. rows # {} => snaps[c] = rows
    BY <2>1, <2>4, <2>6 DEF SnapsSet
  <2> QED
    BY <2>7 DEF rows
<1> QED
  BY <1>1, LoneInvariance, PTL

-----------------------------------------------------------------------------
(* The attribution of the rows, and that a request that has not begun has   *)
(* counted none: what a step counts is then all that is added.              *)
CountInv ==
    /\ InsertedOnce
    /\ \A r \in Reqs : job[r].pc = "idle" => job[r].inserted = 0

(* After a step the rows that were new to it are the request's that took it,*)
(* and every other row is whose it was.                                     *)
LEMMA CountStep ==
    ASSUME TypeOK, CountInv, NEW r \in Reqs, NEW S \in SUBSET Rows, Insert(S),
           NEW value, Local(r, value) \/ Wrote(r, value),
           value.pc # "idle", value.inserted = job[r].inserted + Count(S)
    PROVE  CountInv'
<1> DEFINE new == S \ Present
<1>1. Present' = Present \cup new
  <2>1. Present \cup S \subseteq Present'
    BY Inserted
  <2>2. \A h \in Rows : h \notin S \ Present => at'[h] = at[h]
    BY DEF Insert
  <2> QED
    BY <2>1, <2>2 DEF Present
<1>2. /\ job'[r] = value
      /\ \A q \in Reqs \ {r} : job'[q].pc = job[q].pc /\ job'[q].inserted = job[q].inserted
  <2>1. job'[r] = value
    BY DEF Local, Wrote, TypeOK
  <2>2. \A q \in Reqs : job[q] \in JobLocals
    BY DEF TypeOK
  <2>3. \A q \in Reqs \ {r} : job'[q] = job[q] \/ job'[q] = [job[q] EXCEPT !.alone = FALSE]
    BY DEF Local, Wrote, TypeOK
  <2> QED
    BY <2>1, <2>2, <2>3 DEF JobLocals
<1>3. PICK by \in [Present -> Reqs] :
         \A q \in Reqs : job[q].inserted = Cardinality({h \in Present : by[h] = q})
  BY DEF CountInv, InsertedOnce
<1> DEFINE owner == [h \in Present \cup new |-> IF h \in Present THEN by[h] ELSE r]
<1>4. owner \in [Present \cup new -> Reqs]
  BY <1>3
<1>5. ASSUME NEW q \in Reqs
      PROVE  job'[q].inserted = Cardinality({h \in Present \cup new : owner[h] = q})
  <2> DEFINE old == {h \in Present : by[h] = q}
  <2>1. CASE q # r
    <3>1. {h \in Present \cup new : owner[h] = q} = old
      BY <2>1
    <3> QED
      BY <1>2, <1>3, <2>1, <3>1
  <2>2. CASE q = r
    <3>1. {h \in Present \cup new : owner[h] = q} = old \cup new
      BY <2>2
    <3>2. old \cap new = {}
      OBVIOUS
    <3>3. old \subseteq Rows /\ new \subseteq Rows
      BY DEF Present
    <3> HIDE DEF old, new
    <3>4. IsFiniteSet(old) /\ IsFiniteSet(new)
      BY <3>3, FiniteRows, FS_Subset
    <3>5. Cardinality(old) \in Nat /\ Cardinality(new) \in Nat
      BY <3>4, FS_CardinalityType
    <3>6. Cardinality(old \cup new) = Cardinality(old) + Cardinality(new)
      <4>1. Cardinality(old \cap new) = 0
        BY <3>2, FS_EmptySet DEF old, new
      <4>2. Cardinality(old \cup new)
              = Cardinality(old) + Cardinality(new) - Cardinality(old \cap new)
        BY <3>4, FS_Union
      <4> QED
        BY <3>5, <4>1, <4>2
    <3>7. Count(S) = Cardinality(new)
      BY DEF Count, new
    <3>8. job[q].inserted = Cardinality(old)
      BY <1>3 DEF old
    <3> QED
      BY <1>2, <2>2, <3>1, <3>6, <3>7, <3>8
  <2> QED
    BY <2>1, <2>2
<1>6. InsertedOnce'
  <2> HIDE DEF owner, new
  <2>1. owner \in [Present' -> Reqs]
    BY <1>1, <1>4
  <2>2. \A q \in Reqs : job'[q].inserted = Cardinality({h \in Present' : owner[h] = q})
    BY <1>1, <1>5
  <2> QED
    BY <2>1, <2>2 DEF InsertedOnce
<1>7. \A q \in Reqs : job'[q].pc = "idle" => job'[q].inserted = 0
  BY <1>2 DEF CountInv
<1> QED
  BY <1>6, <1>7 DEF CountInv

(* A step that leaves the table alone counts nothing.                       *)
LEMMA CountKept ==
    ASSUME TypeOK, CountInv, NEW r \in Reqs, UNCHANGED at,
           NEW value, Local(r, value) \/ Wrote(r, value),
           value.pc # "idle", value.inserted = job[r].inserted
    PROVE  CountInv'
<1>1. Insert({})
  BY DEF Insert, TypeOK
<1>2. Count({}) = 0
  BY FS_EmptySet DEF Count
<1>3. value.inserted = job[r].inserted + Count({})
  BY <1>2 DEF TypeOK, JobLocals
<1> QED
  BY <1>1, <1>3, CountStep

LEMMA CountInit == Init => CountInv
<1> SUFFICES ASSUME Init PROVE CountInv
  OBVIOUS
<1>1. Present = {}
  BY DEF Init, Present
<1>2. \A r \in Reqs : job[r].inserted = 0
  BY DEF Init, IdleJob
<1> DEFINE by == [h \in {} |-> h]
<1>3. by \in [Present -> Reqs]
  BY <1>1
<1>4. \A r \in Reqs : {h \in Present : by[h] = r} = {}
  BY <1>1
<1>5. \A r \in Reqs : job[r].inserted = Cardinality({h \in Present : by[h] = r})
  BY <1>2, <1>4, FS_EmptySet
<1> HIDE DEF by
<1> QED
  BY <1>2, <1>3, <1>5 DEF CountInv, InsertedOnce

LEMMA CountImport ==
    ASSUME TypeOK, CountInv, NEW r \in Reqs, Import(r)
    PROVE  CountInv'
<1>1. job[r] \in JobLocals /\ (job[r].pc = "idle" => job[r].inserted = 0)
  BY DEF TypeOK, CountInv
<1>2. ASSUME NEW lines, BulkStart(r, lines)
      PROVE  CountInv'
  <2> DEFINE file == {Hash(l, now) : l \in lines}
  <2> DEFINE value == [IdleJob EXCEPT !.pc = "insert", !.kind = "bulk", !.file = file,
                                      !.todo = file \ Present]
  <2>1. job[r].pc = "idle" /\ Local(r, value) /\ UNCHANGED at
    BY <1>2 DEF BulkStart
  <2>2. value.pc = "insert" /\ value.inserted = 0
    BY DEF IdleJob
  <2> HIDE DEF value
  <2> QED
    BY <1>1, <2>1, <2>2, CountKept
<1>3. ASSUME InsertChunk(r)
      PROVE  CountInv'
  <2>1. PICK chunk \in PassOf(job[r].todo, Chunk) :
           /\ Insert(chunk)
           /\ Wrote(r, [job[r] EXCEPT !.todo = @ \ chunk, !.inserted = @ + Count(chunk)])
    BY <1>3 DEF InsertChunk
  <2> DEFINE value == [job[r] EXCEPT !.todo = @ \ chunk, !.inserted = @ + Count(chunk)]
  <2>2. chunk \in SUBSET Rows
    BY <1>1, <2>1 DEF PassOf, JobLocals
  <2>3. job[r].pc = "insert"
    BY <1>3 DEF InsertChunk
  <2>4. value.pc = "insert" /\ value.inserted = job[r].inserted + Count(chunk)
    BY <1>1, <2>3 DEF JobLocals
  <2>5. Insert(chunk) /\ Wrote(r, value)
    BY <2>1
  <2> HIDE DEF value
  <2> QED
    BY <2>2, <2>4, <2>5, CountStep
<1>4. ASSUME BulkReport(r)
      PROVE  CountInv'
  <2> DEFINE value == [job[r] EXCEPT !.pc = "done"]
  <2>1. Local(r, value) /\ UNCHANGED at
    BY <1>4 DEF BulkReport
  <2>2. value.pc = "done" /\ value.inserted = job[r].inserted
    BY <1>1 DEF JobLocals
  <2> HIDE DEF value
  <2> QED
    BY <2>1, <2>2, CountKept
<1>5. ASSUME NEW lines \in SUBSET AdminLines, NEW days, AdminImport(r, lines, days)
      PROVE  CountInv'
  <2> DEFINE file == {Hash(l, now) : l \in lines}
  <2> DEFINE value == [IdleJob EXCEPT !.pc = "rebuild", !.kind = "admin", !.days = days,
                                      !.file = file, !.inserted = Count(file)]
  <2>1. job[r].pc = "idle" /\ Insert(file) /\ Wrote(r, value)
    BY <1>5 DEF AdminImport
  <2>2. value.pc = "rebuild" /\ value.inserted = Count(file)
    BY DEF IdleJob
  <2>3. file \in SUBSET Rows
    BY Stamps DEF TypeOK, Lines
  <2> HIDE DEF value, file
  <2>4. value.inserted = job[r].inserted + Count(file)
    BY <1>1, <2>1, <2>2, <2>3, CountType
  <2> QED
    BY <2>1, <2>2, <2>3, <2>4, CountStep
<1> QED
  BY <1>2, <1>3, <1>4, <1>5 DEF Import

LEMMA CountRebuild ==
    ASSUME TypeOK, CountInv, NEW r \in Reqs, Rebuild(r)
    PROVE  CountInv'
<1>1. job[r] \in JobLocals /\ (job[r].pc = "idle" => job[r].inserted = 0)
  BY DEF TypeOK, CountInv
<1>2. UNCHANGED at
  BY DEF Rebuild, Mark, RebuildStart, SnapshotRead, SnapshotQueryFails, RebuildRead,
         RebuildWrite, SnapshotWrite, SnapshotSkipped, Finish, Lost
<1>3. ASSUME NEW value, Local(r, value) \/ Wrote(r, value),
             value.pc # "idle", value.inserted = job[r].inserted
      PROVE  CountInv'
  BY <1>2, <1>3, CountKept
<1>4. ASSUME NEW rows, NEW flag, NEW days, Mark(r, rows, flag, days)
      PROVE  CountInv'
  <2> DEFINE value == [IdleJob EXCEPT !.pc = IF days = 0 THEN "done" ELSE "rebuild",
                                      !.kind = "mark", !.days = days]
  <2>1. job[r].pc = "idle" /\ Wrote(r, value)
    BY <1>4 DEF Mark
  <2>2. value.pc # "idle" /\ value.inserted = 0
    BY DEF IdleJob
  <2> HIDE DEF value
  <2> QED
    BY <1>1, <1>3, <2>1, <2>2
<1>5. ASSUME NEW days, RebuildStart(r, days)
      PROVE  CountInv'
  <2> DEFINE value == [IdleJob EXCEPT !.pc = "rebuild", !.kind = "areas", !.days = days]
  <2>1. job[r].pc = "idle" /\ Local(r, value)
    BY <1>5 DEF RebuildStart
  <2>2. value.pc # "idle" /\ value.inserted = 0
    BY DEF IdleJob
  <2> HIDE DEF value
  <2> QED
    BY <1>1, <1>3, <2>1, <2>2
<1>6. ASSUME NEW days, SnapshotRead(r, days)
      PROVE  CountInv'
  <2> DEFINE reading == Priced(Within(days, now))
  <2> DEFINE value == [IdleJob EXCEPT !.pc = "snaps", !.kind = "snaps", !.days = days,
                                      !.reading = reading, !.read = now,
                                      !.left = CellsOf(reading),
                                      !.grouped = Cardinality(CellsOf(reading))]
  <2>1. job[r].pc = "idle" /\ Local(r, value)
    BY <1>6 DEF SnapshotRead
  <2>2. value.pc # "idle" /\ value.inserted = 0
    BY DEF IdleJob
  <2> HIDE DEF value
  <2> QED
    BY <1>1, <1>3, <2>1, <2>2
<1>7. ASSUME RebuildRead(r)
      PROVE  CountInv'
  <2> DEFINE reading == Within(job[r].days, now)
  <2> DEFINE value == [job[r] EXCEPT !.pc = "areas", !.reading = reading, !.read = now,
                                     !.left = AreasOf(reading), !.alone = TRUE]
  <2>1. Local(r, value)
    BY <1>7 DEF RebuildRead
  <2>2. value.pc # "idle" /\ value.inserted = job[r].inserted
    BY <1>1 DEF JobLocals
  <2> HIDE DEF value
  <2> QED
    BY <1>3, <2>1, <2>2
<1>8. ASSUME RebuildWrite(r)
      PROVE  CountInv'
  <2>1. PICK batch : Wrote(r, [job[r] EXCEPT !.left = @ \ batch])
    BY <1>8 DEF RebuildWrite
  <2> DEFINE value == [job[r] EXCEPT !.left = @ \ batch]
  <2>2. value.pc = "areas" /\ value.inserted = job[r].inserted
    BY <1>1, <1>8 DEF JobLocals, RebuildWrite
  <2>3. Wrote(r, value)
    BY <2>1
  <2> HIDE DEF value
  <2> QED
    BY <1>3, <2>2, <2>3
<1>9. ASSUME NEW c, SnapshotWrite(r, c) \/ SnapshotSkipped(r, c)
      PROVE  CountInv'
  <2> DEFINE written == [job[r] EXCEPT !.left = @ \ {c}]
  <2> DEFINE skipped == [job[r] EXCEPT !.left = @ \ {c}, !.skipped = TRUE]
  <2>1. Wrote(r, written) \/ Local(r, skipped)
    BY <1>9 DEF SnapshotWrite, SnapshotSkipped
  <2>2. job[r].pc = "snaps"
    BY <1>9 DEF SnapshotWrite, SnapshotSkipped
  <2>3. /\ written.pc = "snaps" /\ written.inserted = job[r].inserted
        /\ skipped.pc = "snaps" /\ skipped.inserted = job[r].inserted
    BY <1>1, <2>2 DEF JobLocals
  <2> HIDE DEF written, skipped
  <2> QED
    BY <1>3, <2>1, <2>3
<1>10. ASSUME Finish(r)
       PROVE  CountInv'
  <2> DEFINE value == [job[r] EXCEPT !.pc = "done", !.reading = {}]
  <2>1. Local(r, value)
    BY <1>10 DEF Finish
  <2>2. value.pc # "idle" /\ value.inserted = job[r].inserted
    BY <1>1 DEF JobLocals
  <2> HIDE DEF value
  <2> QED
    BY <1>3, <2>1, <2>2
<1>11. ASSUME Lost(r)
       PROVE  CountInv'
  <2> DEFINE value == [IdleJob EXCEPT !.pc = "lost", !.inserted = job[r].inserted]
  <2>1. Local(r, value)
    BY <1>11 DEF Lost
  <2>2. value.pc # "idle" /\ value.inserted = job[r].inserted
    BY DEF IdleJob
  <2> HIDE DEF value
  <2> QED
    BY <1>3, <2>1, <2>2
<1>12. ASSUME NEW days, SnapshotQueryFails(r, days)
       PROVE  CountInv'
  <2> DEFINE value == [IdleJob EXCEPT !.pc = "done", !.kind = "snaps", !.days = days,
                                      !.read = now]
  <2>1. job[r].pc = "idle" /\ Local(r, value)
    BY <1>12 DEF SnapshotQueryFails
  <2>2. value.pc # "idle" /\ value.inserted = 0
    BY DEF IdleJob
  <2> HIDE DEF value
  <2> QED
    BY <1>1, <1>3, <2>1, <2>2
<1> QED
  BY <1>4, <1>5, <1>6, <1>7, <1>8, <1>9, <1>10, <1>11, <1>12 DEF Rebuild

(* Every row of the table is counted as inserted by one request, and by one *)
(* only, in whatever chunks overlapping imports of the same lines insert    *)
(* and wherever a request is lost: createMany counts what it adds, and      *)
(* nothing else is added to the counts.                                     *)
THEOREM CountedOnce == Spec => []InsertedOnce
<1>1. ASSUME TypeOK, CountInv, [Next]_vars
      PROVE  CountInv'
  <2>1. CASE UNCHANGED <<at, job>>
    <3>1. Present' = Present
      BY <2>1 DEF Present
    <3>2. PICK by \in [Present -> Reqs] :
             \A r \in Reqs : job[r].inserted = Cardinality({h \in Present : by[h] = r})
      BY <1>1 DEF CountInv, InsertedOnce
    <3>3. \A r \in Reqs : job'[r].inserted = Cardinality({h \in Present' : by[h] = r})
      BY <2>1, <3>1, <3>2
    <3>4. by \in [Present' -> Reqs]
      BY <3>1, <3>2
    <3> QED
      BY <1>1, <2>1, <3>3, <3>4 DEF CountInv, InsertedOnce
  <2>2. ASSUME NEW r \in Reqs, Import(r) \/ Rebuild(r)
        PROVE  CountInv'
    BY <1>1, <2>2, CountImport, CountRebuild
  <2> QED
    BY <1>1, <2>1, <2>2 DEF Next, Tick, vars
<1>2. IInv => TypeOK
  BY DEF IInv
<1>3. CountInv => InsertedOnce
  BY DEF CountInv
<1> QED
  BY <1>1, <1>2, <1>3, Invariance, CountInit, PTL DEF Spec

-----------------------------------------------------------------------------
(* The external market data.                                               *)
\* A sum of natural numbers counts coins: a[x] of them for each x.
Coins(a, S) == {c \in S \X Nat : 1 <= c[2] /\ c[2] <= a[c[1]]}

LEMMA CoinsAdd ==
    ASSUME NEW S, IsFiniteSet(S), NEW a, \A x \in S : a[x] \in Nat
    PROVE  /\ IsFiniteSet(Coins(a, S)) /\ Cardinality(Coins(a, S)) \in Nat
           /\ \A x \in S : Cardinality(Coins(a, S))
                             = a[x] + Cardinality(Coins(a, S \ {x}))
<1> DEFINE Purse(x) == {x} \X (1 .. a[x])
<1>1. ASSUME NEW x \in S
      PROVE  /\ IsFiniteSet(Purse(x)) /\ Cardinality(Purse(x)) = a[x]
             /\ Coins(a, S) = Purse(x) \cup Coins(a, S \ {x})
             /\ Purse(x) \cap Coins(a, S \ {x}) = {}
  <2>1. IsFiniteSet(1 .. a[x]) /\ Cardinality(1 .. a[x]) = a[x]
    BY FS_Interval
  <2>2. IsFiniteSet({x}) /\ Cardinality({x}) = 1
    BY FS_Singleton
  <2>3. Coins(a, S) = Purse(x) \cup Coins(a, S \ {x})
    BY DEF Coins
  <2>4. Purse(x) \cap Coins(a, S \ {x}) = {}
    BY DEF Coins
  <2>5. IsFiniteSet(Purse(x)) /\ Cardinality(Purse(x)) = 1 * a[x]
    BY <2>1, <2>2, FS_Product
  <2>6. a[x] \in Nat
    OBVIOUS
  <2>7. 1 * a[x] = a[x]
    BY <2>6
  <2> HIDE DEF Purse
  <2> QED
    BY <2>3, <2>4, <2>5, <2>7
<1>2. IsFiniteSet(Coins(a, S))
  <2> DEFINE value == [x \in S |-> Purse(x)]
             Purses == {Purse(x) : x \in S}
  <2>1. value \in Surjection(S, Purses)
    BY DEF Surjection
  <2>2. IsFiniteSet(Purses)
    BY <2>1, FS_Surjection
  <2>3. \A T \in Purses : IsFiniteSet(T)
    BY <1>1
  <2>4. IsFiniteSet(UNION Purses)
    BY <2>2, <2>3, FS_UNION
  <2>5. Coins(a, S) \subseteq UNION Purses
    BY DEF Coins
  <2> QED
    BY <2>4, <2>5, FS_Subset
<1>3. Cardinality(Coins(a, S)) \in Nat
  BY <1>2, FS_CardinalityType
<1>4. ASSUME NEW x \in S
      PROVE  Cardinality(Coins(a, S)) = a[x] + Cardinality(Coins(a, S \ {x}))
  <2>1. Coins(a, S \ {x}) \subseteq Coins(a, S)
    BY DEF Coins
  <2>2. IsFiniteSet(Coins(a, S \ {x})) /\ Cardinality(Coins(a, S \ {x})) \in Nat
    BY <1>2, <2>1, FS_Subset, FS_CardinalityType
  <2>3. Cardinality(Purse(x) \cap Coins(a, S \ {x})) = 0
    BY <1>1, FS_EmptySet
  <2> DEFINE rest == Coins(a, S \ {x})
  <2>4. Cardinality(Purse(x) \cup rest)
          = Cardinality(Purse(x)) + Cardinality(rest) - Cardinality(Purse(x) \cap rest)
    BY <1>1, <2>2, FS_Union
  <2>5. Cardinality(Coins(a, S)) = Cardinality(Purse(x) \cup rest)
    BY <1>1
  <2>6. Cardinality(Purse(x)) = a[x] /\ a[x] \in Nat
    BY <1>1
  <2> HIDE DEF Purse, rest
  <2>7. Cardinality(rest) \in Nat /\ Cardinality(Purse(x) \cap rest) = 0
    BY <2>2, <2>3 DEF rest
  <2>8. Cardinality(Coins(a, S)) = a[x] + Cardinality(rest)
    BY <2>4, <2>5, <2>6, <2>7
  <2> QED
    BY <2>8 DEF rest
<1> QED
  BY <1>2, <1>3, <1>4

\* What the library's sum is defined by.
PickOf(s) == CHOOSE x \in s : TRUE
Sums(a, S, f) ==
    f = [s \in SUBSET S |-> IF s = {} THEN 0 ELSE a[PickOf(s)] + f[s \ {PickOf(s)}]]

LEMMA Unfold ==
    ASSUME NEW a, NEW S
    PROVE  X!TotalOf(a, S) = (CHOOSE f : Sums(a, S, f))[S]
BY DEF X!TotalOf, X!MapThenSumSet, X!MapThenFoldSet, Sums, PickOf

LEMMA SumCounts ==
    ASSUME NEW S, IsFiniteSet(S), NEW a, \A x \in S : a[x] \in Nat
    PROVE  X!TotalOf(a, S) = Cardinality(Coins(a, S))
<1> DEFINE count == [s \in SUBSET S |-> Cardinality(Coins(a, s))]
<1>1. \A s \in SUBSET S : s # {} => PickOf(s) \in s
  BY DEF PickOf
<1>2. \A s \in SUBSET S : \A x \in s : count[s] = a[x] + count[s \ {x}]
  <2> SUFFICES ASSUME NEW s \in SUBSET S, NEW x \in s
               PROVE  count[s] = a[x] + count[s \ {x}]
    OBVIOUS
  <2>1. IsFiniteSet(s)
    BY FS_Subset
  <2>2. Cardinality(Coins(a, s)) = a[x] + Cardinality(Coins(a, s \ {x}))
    BY <2>1, CoinsAdd
  <2> QED
    BY <2>2
<1>3. count[{}] = 0
  <2>1. Coins(a, {}) = {}
    BY DEF Coins
  <2> QED
    BY <2>1, FS_EmptySet
<1>4. Sums(a, S, count)
  <2> DEFINE body(s) == IF s = {} THEN 0 ELSE a[PickOf(s)] + count[s \ {PickOf(s)}]
  <2>1. \A s \in SUBSET S : count[s] = body(s)
    BY <1>1, <1>2, <1>3
  <2>2. count = [s \in SUBSET S |-> count[s]]
    OBVIOUS
  <2> HIDE DEF count
  <2> QED
    BY <2>1, <2>2 DEF Sums
<1> DEFINE sums == CHOOSE f : Sums(a, S, f)
<1>5. Sums(a, S, sums)
  BY <1>4
<1> HIDE DEF count, sums
\* Of the sets on which they differ, a smallest one shows that they do not.
<1>6. sums[S] = count[S]
  <2> DEFINE Differ == {s \in SUBSET S : sums[s] # count[s]}
  <2>1. SUFFICES ASSUME Differ # {} PROVE FALSE
    OBVIOUS
  <2>2. IsWellFoundedOn(StrictSubsetOrdering(S), FiniteSubsetsOf(S))
    BY FS_StrictSubsetOrderingWellFounded
  <2>3. FiniteSubsetsOf(S) = SUBSET S
    BY FS_FiniteSubsetsOfFinite
  <2>4. IsWellFoundedOn(StrictSubsetOrdering(S), SUBSET S)
    BY <2>2, <2>3
  <2>5. Differ \subseteq SUBSET S
    OBVIOUS
  <2> HIDE DEF Differ
  <2>6. PICK s \in Differ : \A t \in Differ : ~ (<<t, s>> \in StrictSubsetOrdering(S))
    BY <2>1, <2>4, <2>5, WFMin
  <2>7. s \in SUBSET S /\ sums[s] # count[s]
    BY DEF Differ
  <2>8. sums[s] = IF s = {} THEN 0 ELSE a[PickOf(s)] + sums[s \ {PickOf(s)}]
    BY <1>5, <2>7 DEF Sums
  <2>9. s # {}
    BY <1>3, <2>7, <2>8
  <2> DEFINE t == s \ {PickOf(s)}
  <2>10. t \in SUBSET S /\ t \subseteq s /\ t # s
    BY <1>1, <2>7, <2>9
  <2>11. <<t, s>> \in StrictSubsetOrdering(S)
    BY <2>7, <2>10 DEF StrictSubsetOrdering
  <2>12. sums[t] = count[t]
    BY <2>6, <2>10, <2>11 DEF Differ
  <2> QED
    BY <1>1, <1>2, <2>7, <2>8, <2>9, <2>12
<1>7. S \in SUBSET S
  OBVIOUS
<1> QED
  BY <1>6, <1>7, Unfold DEF sums, count


LEMMA SumEmpty == ASSUME NEW a PROVE X!TotalOf(a, {}) = 0
<1>1. Coins(a, {}) = {}
  BY DEF Coins
<1> QED
  BY <1>1, SumCounts, FS_EmptySet

-----------------------------------------------------------------------------
\* The weight of items counts units, so the parts of a set share its weight.
Weighed(S) == IsFiniteSet(S) /\ \A i \in S : i.weight \in Nat \ {0} /\ i.value \in Nat
Units(S) == {c \in S \X Nat : 1 <= c[2] /\ c[2] <= c[1].weight}

LEMMA WeightCounts ==
    ASSUME NEW S, Weighed(S)
    PROVE  /\ X!WeightOf(S) = Cardinality(Units(S)) /\ IsFiniteSet(Units(S))
           /\ X!WeightOf(S) \in Nat
<1> DEFINE a == [i \in S |-> i.weight]
<1>1. \A x \in S : a[x] \in Nat
  BY DEF Weighed
<1>2. Coins(a, S) = Units(S)
  BY DEF Coins, Units
<1>3. X!WeightOf(S) = X!TotalOf(a, S)
  BY DEF X!WeightOf
<1>4. IsFiniteSet(S)
  BY DEF Weighed
<1> HIDE DEF a
<1>5. X!TotalOf(a, S) = Cardinality(Coins(a, S))
  BY <1>1, <1>4, SumCounts
<1>6. IsFiniteSet(Coins(a, S)) /\ Cardinality(Coins(a, S)) \in Nat
  BY <1>1, <1>4, CoinsAdd
<1> QED
  BY <1>2, <1>3, <1>5, <1>6

LEMMA WeightParts ==
    ASSUME NEW S, Weighed(S), NEW T \in SUBSET S
    PROVE  /\ Weighed(T) /\ Weighed(S \ T)
           /\ X!WeightOf(S) = X!WeightOf(T) + X!WeightOf(S \ T)
<1>1. Weighed(T) /\ Weighed(S \ T)
  BY FS_Subset DEF Weighed
<1>2. Units(S) = Units(T) \cup Units(S \ T) /\ Units(T) \cap Units(S \ T) = {}
  BY DEF Units
<1> DEFINE u == Units(T)
           w == Units(S \ T)
<1>3. Cardinality(u \cap w) = 0
  BY <1>2, FS_EmptySet
<1>4. IsFiniteSet(u) /\ IsFiniteSet(w)
  BY <1>1, WeightCounts
<1> HIDE DEF u, w
<1>5. Cardinality(u \cup w) = Cardinality(u) + Cardinality(w) - Cardinality(u \cap w)
  BY <1>4, FS_Union
<1>6. Cardinality(u) \in Nat /\ Cardinality(w) \in Nat
  BY <1>4, FS_CardinalityType
<1>7. Cardinality(u \cup w) = Cardinality(u) + Cardinality(w)
  BY <1>3, <1>5, <1>6
<1>8. X!WeightOf(T) = Cardinality(u) /\ X!WeightOf(S \ T) = Cardinality(w)
  BY <1>1, WeightCounts DEF u, w
<1>9. X!WeightOf(S) = Cardinality(u \cup w)
  BY <1>2, WeightCounts DEF u, w
<1> QED
  BY <1>1, <1>7, <1>8, <1>9

LEMMA WeightOfNone == X!WeightOf({}) = 0
BY SumEmpty DEF X!WeightOf

\* The product of an item grows with its value.
Product(S) == [i \in S |-> i.value * i.weight]
Products(S) == X!TotalOf(Product(S), S)

LEMMA Times2 ==
    ASSUME NEW v \in Nat, NEW w \in Nat, NEW n \in Nat, v <= n
    PROVE  v * w <= n * w /\ v * w \in Nat /\ n * w \in Nat
OBVIOUS

LEMMA ProductsAdd ==
    ASSUME NEW S, Weighed(S), NEW x \in S
    PROVE  /\ Products(S) \in Nat
           /\ Products(S) = Products(S \ {x}) + x.value * x.weight
           /\ X!WeightOf(S) = X!WeightOf(S \ {x}) + x.weight
<1> DEFINE T == S \ {x}
<1>1. Weighed(T)
  BY WeightParts
<1>2. \A i \in S : i.value * i.weight \in Nat
  BY DEF Weighed
<1>3. /\ \A i \in S : Product(S)[i] \in Nat
      /\ \A i \in T : Product(T)[i] = Product(S)[i]
      /\ Product(S)[x] = x.value * x.weight
  BY <1>2 DEF Product
<1>4. /\ Products(S) = Cardinality(Coins(Product(S), S))
      /\ Products(T) = Cardinality(Coins(Product(T), T))
      /\ Cardinality(Coins(Product(S), S)) \in Nat
  BY <1>1, <1>3, SumCounts, CoinsAdd DEF Products, Weighed
<1>5. Coins(Product(T), T) = Coins(Product(S), T)
  BY <1>3 DEF Coins
<1>6. Cardinality(Coins(Product(S), S)) = Product(S)[x] + Cardinality(Coins(Product(S), T))
  BY <1>3, CoinsAdd DEF Weighed
<1>7. Cardinality(Coins(Product(T), T)) \in Nat
  BY <1>1, <1>3, CoinsAdd DEF Weighed
<1>8. Products(S) = Products(T) + x.value * x.weight
  <2> HIDE DEF T
  <2>1. Product(S)[x] \in Nat
    BY <1>3
  <2> QED
    BY <1>3, <1>4, <1>5, <1>6, <1>7, <2>1
<1>9. X!WeightOf(S) = X!WeightOf(T) + x.weight
  <2> DEFINE a == [i \in S |-> i.weight]
             b == [i \in T |-> i.weight]
  <2>1. \A i \in S : a[i] \in Nat
    BY DEF Weighed
  <2>2. Coins(a, T) = Coins(b, T)
    BY DEF Coins
  <2>3. Cardinality(Coins(a, S)) = a[x] + Cardinality(Coins(a, T))
    BY <2>1, CoinsAdd DEF Weighed
  <2>4. \A i \in T : b[i] \in Nat
    BY DEF Weighed
  <2>5. a[x] = x.weight /\ x.weight \in Nat
    BY DEF Weighed
  <2>6. /\ X!WeightOf(S) = X!TotalOf(a, S)
        /\ X!WeightOf(T) = X!TotalOf(b, T)
    BY DEF X!WeightOf
  <2> HIDE DEF a, b
  <2>7. /\ X!WeightOf(S) = Cardinality(Coins(a, S))
        /\ X!WeightOf(T) = Cardinality(Coins(b, T))
        /\ Cardinality(Coins(b, T)) \in Nat
    BY <1>1, <2>1, <2>4, <2>6, SumCounts, CoinsAdd DEF Weighed
  <2> HIDE DEF T
  <2> QED
    BY <2>2, <2>3, <2>5, <2>7
<1> QED
  BY <1>4, <1>8, <1>9


\* A finite set of numbers that is not empty has a least and a greatest one:
\* of its parts that lack either, a smallest one does not.
LEMMA Ends ==
    ASSUME NEW S, IsFiniteSet(S), S # {}, S \subseteq Int
    PROVE  /\ \E x \in S : \A y \in S : x <= y
           /\ \E x \in S : \A y \in S : y <= x
<1> DEFINE Has(T) == (\E x \in T : \A y \in T : x <= y) /\ (\E x \in T : \A y \in T : y <= x)
           Lacking == {T \in SUBSET S : T # {} /\ ~Has(T)}
<1>1. SUFFICES ASSUME Lacking # {} PROVE FALSE
  OBVIOUS
<1>2. IsWellFoundedOn(StrictSubsetOrdering(S), SUBSET S)
  BY FS_StrictSubsetOrderingWellFounded, FS_FiniteSubsetsOfFinite
<1>3. Lacking \subseteq SUBSET S
  OBVIOUS
<1> HIDE DEF Lacking
<1>4. PICK T \in Lacking : \A U \in Lacking : ~ (<<U, T>> \in StrictSubsetOrdering(S))
  BY <1>1, <1>2, <1>3, WFMin
<1> USE DEF Lacking
<1>5. PICK z \in T : TRUE
  BY <1>4
<1> DEFINE U == T \ {z}
<1>6. U \in SUBSET S /\ U \subseteq T /\ U # T
  BY <1>3, <1>4, <1>5
<1>7. <<U, T>> \in StrictSubsetOrdering(S)
  BY <1>3, <1>4, <1>6 DEF StrictSubsetOrdering
<1>8. U = {} \/ Has(U)
  BY <1>4, <1>6, <1>7
<1>9. T \subseteq Int /\ z \in Int /\ \A y \in T : y = z \/ y \in U
  BY <1>3, <1>4, <1>5
<1>10. CASE U = {}
  BY <1>4, <1>5, <1>9, <1>10
<1>11. CASE Has(U)
  <2>1. PICK lo \in U : \A y \in U : lo <= y
    BY <1>11
  <2>2. PICK hi \in U : \A y \in U : y <= hi
    BY <1>11
  <2>3. lo \in Int /\ hi \in Int /\ lo \in T /\ hi \in T /\ U \subseteq Int
    BY <1>6, <1>9
  <2>4. \A y \in T : y \in Int
    BY <1>9
  <2>5. \E x \in T : \A y \in T : x <= y
    <3>1. CASE lo <= z BY <1>9, <2>1, <2>3, <3>1
    <3>2. CASE z <= lo
      <4>1. \A y \in T : z <= y
        BY <1>9, <2>1, <2>3, <2>4, <3>2
      <4> QED BY <1>5, <4>1
    <3> QED BY <1>9, <2>3, <3>1, <3>2
  <2>6. \E x \in T : \A y \in T : y <= x
    <3>1. CASE z <= hi BY <1>9, <2>2, <2>3, <3>1
    <3>2. CASE hi <= z
      <4>1. \A y \in T : y <= z
        BY <1>9, <2>2, <2>3, <2>4, <3>2
      <4> QED BY <1>5, <4>1
    <3> QED BY <1>9, <2>3, <3>1, <3>2
  <2> QED
    BY <1>4, <2>5, <2>6
<1> QED
  BY <1>8, <1>10, <1>11

LEMMA Distribute ==
    ASSUME NEW a \in Nat, NEW b \in Nat, NEW c \in Nat
    PROVE  a * (b + c) = a * b + a * c /\ a * b \in Nat /\ a * c \in Nat
OBVIOUS

\* Between the bounds of the values lies the sum of the products, weighed:
\* of the sets of items of which it does not, a smallest one is not one.
LEMMA ProductsBetween ==
    ASSUME NEW S, Weighed(S), NEW lo \in Nat, NEW hi \in Nat,
           \A i \in S : lo <= i.value /\ i.value <= hi
    PROVE  lo * X!WeightOf(S) <= Products(S) /\ Products(S) <= hi * X!WeightOf(S)
<1> DEFINE Between(T) == lo * X!WeightOf(T) <= Products(T) /\ Products(T) <= hi * X!WeightOf(T)
           Outside == {T \in SUBSET S : ~Between(T)}
<1>1. SUFFICES ASSUME Outside # {} PROVE FALSE
  BY S \in SUBSET S
<1>2. IsWellFoundedOn(StrictSubsetOrdering(S), SUBSET S)
  BY FS_StrictSubsetOrderingWellFounded, FS_FiniteSubsetsOfFinite DEF Weighed
<1>3. Outside \subseteq SUBSET S
  OBVIOUS
<1> HIDE DEF Outside
<1>4. PICK T \in Outside : \A U \in Outside : ~ (<<U, T>> \in StrictSubsetOrdering(S))
  BY <1>1, <1>2, <1>3, WFMin
<1> USE DEF Outside
<1>5. T \in SUBSET S /\ ~Between(T) /\ Weighed(T)
  BY <1>4, WeightParts
<1>6. CASE T = {}
  <2>1. X!WeightOf(T) = 0 /\ Products(T) = 0
    BY <1>6, WeightOfNone, SumEmpty DEF Products
  <2> QED
    BY <1>5, <2>1
<1>7. CASE T # {}
  <2>1. PICK x \in T : TRUE
    BY <1>7
  <2> DEFINE U == T \ {x}
  <2>2. U \in SUBSET S /\ U \subseteq T /\ U # T /\ Weighed(U)
    BY <1>5, <2>1, WeightParts
  <2>3. <<U, T>> \in StrictSubsetOrdering(S)
    BY <1>5, <2>2 DEF StrictSubsetOrdering
  <2>4. Between(U)
    BY <1>4, <2>2, <2>3
  <2>5. /\ Products(T) = Products(U) + x.value * x.weight
        /\ X!WeightOf(T) = X!WeightOf(U) + x.weight
    BY <1>5, <2>1, ProductsAdd
  <2>6. /\ x.value \in Nat /\ x.weight \in Nat /\ lo <= x.value /\ x.value <= hi
        /\ X!WeightOf(U) \in Nat
    BY <1>5, <2>1, <2>2, WeightCounts DEF Weighed
  <2>7. Products(U) \in Nat
    <3>1. CASE U = {} BY <3>1, SumEmpty DEF Products
    <3>2. CASE U # {} BY <2>2, <3>2, ProductsAdd
    <3> QED BY <3>1, <3>2
  <2> DEFINE w == x.weight
             v == x.value
             W == X!WeightOf(U)
             P == Products(U)
  <2>8. /\ v * w \in Nat /\ lo * w \in Nat /\ hi * w \in Nat /\ lo * w <= v * w /\ v * w <= hi * w
    BY <2>6, Times2
  <2>9. /\ lo * (W + w) = lo * W + lo * w /\ hi * (W + w) = hi * W + hi * w
        /\ lo * W \in Nat /\ hi * W \in Nat
    BY <2>6, Distribute
  <2>10. lo * W <= P /\ P <= hi * W /\ P \in Nat
    BY <2>4, <2>7
  <2>11. Products(T) = P + v * w /\ X!WeightOf(T) = W + w
    BY <2>5
  <2> HIDE DEF w, v, W, P, U
  <2>12. lo * W + lo * w <= P + v * w /\ P + v * w <= hi * W + hi * w
    BY <2>8, <2>9, <2>10
  <2>13. Between(T)
    BY <2>9, <2>11, <2>12
  <2> QED
    BY <1>5, <2>13
<1> QED
  BY <1>6, <1>7

LEMMA Quotient ==
    ASSUME NEW p \in Nat, NEW w \in Nat \ {0}, NEW lo \in Nat, NEW hi \in Nat,
           lo * w <= p, p <= hi * w
    PROVE  p \div w \in Int /\ lo <= p \div w /\ p \div w <= hi
<1> DEFINE q == p \div w
<1>1. q \in Int /\ w * q <= p /\ p < w * (q + 1)
  OBVIOUS
<1> HIDE DEF q
<1>2. lo <= q
  <2>1. SUFFICES ASSUME q + 1 <= lo PROVE FALSE
    BY <1>1
  <2>2. w * (q + 1) <= lo * w
    BY <1>1, <2>1
  <2> QED
    BY <1>1, <2>2
<1>3. q <= hi
  <2>1. SUFFICES ASSUME hi + 1 <= q PROVE FALSE
    BY <1>1
  <2>2. hi * w + w <= w * q
    BY <1>1, <2>1
  <2>3. hi * w \in Nat /\ w * q \in Int
    BY <1>1
  <2> QED
    BY <1>1, <2>2, <2>3
<1> QED
  BY <1>1, <1>2, <1>3 DEF q

LEMMA ValueEnds ==
    ASSUME NEW S, Weighed(S), S # {}
    PROVE  /\ \E i \in S : \A j \in S : i.value <= j.value
           /\ \E i \in S : \A j \in S : j.value <= i.value
<1> DEFINE value == [i \in S |-> i.value]
           Values == {i.value : i \in S}
<1>1. value \in Surjection(S, Values)
  BY DEF Surjection
<1>2. IsFiniteSet(Values)
  BY <1>1, FS_Surjection DEF Weighed
<1>3. Values # {} /\ Values \subseteq Int
  BY DEF Weighed
<1>4. (\E x \in Values : \A y \in Values : x <= y) /\ (\E x \in Values : \A y \in Values : y <= x)
  <2> HIDE DEF Values
  <2> QED
    BY <1>2, <1>3, Ends
<1> QED
  BY <1>4

\* computeWeightedMedian: of the items up to whose value half of the weight
\* lies, the least has no more than half below it and none above it.
LEMMA MedianIsMiddle ==
    ASSUME NEW S, Weighed(S), S # {}
    PROVE  /\ 2 * X!WeightOf({i \in S : i.value < X!Median(S)}) <= X!WeightOf(S)
           /\ 2 * X!WeightOf({i \in S : i.value > X!Median(S)}) <= X!WeightOf(S)
<1> DEFINE W(T) == X!WeightOf(T)
           UpTo(v) == {k \in S : k.value <= v}
           Reach == {j \in S : 2 * W(UpTo(j.value)) >= W(S)}
           M == X!Median(S)
<1>1. \A T \in SUBSET S : W(T) \in Nat /\ Weighed(T)
  BY WeightParts, WeightCounts
<1>2. Reach # {}
  <2>1. PICK top \in S : \A j \in S : j.value <= top.value
    BY ValueEnds
  <2>2. UpTo(top.value) = S
    BY <2>1
  <2>3. W(S) \in Nat
    BY <1>1
  <2> QED
    BY <2>2, <2>3
<1>3. PICK m \in Reach : \A j \in Reach : m.value <= j.value
  <2>1. Weighed(Reach)
    BY <1>1
  <2> HIDE DEF Reach
  <2> QED
    BY <1>2, <2>1, ValueEnds
<1>4. \A i \in S : i.value \in Nat
  BY DEF Weighed
<1>5. M = m.value
  <2> DEFINE Values == {i.value : i \in Reach}
  <2>1. M = CHOOSE x \in Values : \A y \in Values : x <= y
    BY DEF X!Median, X!Min
  <2>2. m.value \in Values /\ \A y \in Values : m.value <= y
    BY <1>3
  <2>3. Values \subseteq Nat
    BY <1>4
  <2> HIDE DEF Values, M
  <2>4. M \in Values /\ \A y \in Values : M <= y
    BY <2>1, <2>2
  <2>5. m.value <= M /\ M <= m.value
    BY <2>2, <2>4
  <2>6. M \in Nat /\ m.value \in Nat
    BY <2>2, <2>3, <2>4
  <2> QED
    BY <2>5, <2>6
<1> HIDE DEF M
<1>6. 2 * W({i \in S : i.value > M}) <= W(S)
  <2>1. {i \in S : i.value > M} = S \ UpTo(M)
    BY <1>4, <1>5
  <2>2. W(S) = W(UpTo(M)) + W(S \ UpTo(M))
    <3>1. UpTo(M) \in SUBSET S
      OBVIOUS
    <3> HIDE DEF UpTo
    <3> QED
      BY <3>1, WeightParts
  <2>3. 2 * W(UpTo(M)) >= W(S)
    BY <1>3, <1>5
  <2>4. W(UpTo(M)) \in Nat /\ W(S \ UpTo(M)) \in Nat /\ W(S) \in Nat
    BY <1>1
  <2> DEFINE up == W(UpTo(M))
             above == W(S \ UpTo(M))
             all == W(S)
  <2>5. up \in Nat /\ above \in Nat /\ all = up + above /\ 2 * up >= all
    BY <2>2, <2>3, <2>4
  <2>6. above = W({i \in S : i.value > M})
    BY <2>1
  <2> HIDE DEF up, above, all
  <2>7. 2 * above <= all
    BY <2>5
  <2> QED
    BY <2>6, <2>7 DEF all
<1>7. 2 * W({i \in S : i.value < M}) <= W(S)
  <2> DEFINE B == {i \in S : i.value < M}
  <2>1. W(B) \in Nat /\ Weighed(B) /\ W(S) \in Nat
    BY <1>1
  <2>2. CASE B = {}
    <3>1. W(B) = 0
      BY <2>2, WeightOfNone
    <3> QED
      BY <2>1, <3>1
  <2>3. CASE B # {}
    <3>1. PICK b \in B : \A j \in B : j.value <= b.value
      <4> HIDE DEF B
      <4> QED
        BY <2>1, <2>3, ValueEnds
    <3>2. b \in S /\ b.value < M
      BY <3>1
    <3>3. \A k \in S : k.value < M <=> k.value <= b.value
      BY <1>3, <1>4, <1>5, <3>1, <3>2
    <3>4. UpTo(b.value) = B
      BY <3>3
    <3>5. b \notin Reach
      BY <1>3, <1>4, <1>5, <3>2
    <3>6. ~(2 * W(B) >= W(S))
      BY <3>2, <3>4, <3>5
    <3> DEFINE below == W(B)
               all == W(S)
    <3>7. below \in Nat /\ all \in Nat /\ ~(2 * below >= all)
      BY <2>1, <3>6
    <3> HIDE DEF below, all
    <3>8. 2 * below <= all
      BY <3>7
    <3> QED
      BY <3>8 DEF below, all
  <2> QED
    BY <2>2, <2>3
<1> QED
  BY <1>6, <1>7 DEF M

LEMMA MeanIsBetween ==
    ASSUME NEW S, Weighed(S), S # {}
    PROVE  \E i, j \in S : i.value <= X!Mean(S) /\ X!Mean(S) <= j.value
<1>1. PICK i \in S : \A k \in S : i.value <= k.value
  BY ValueEnds
<1>2. PICK j \in S : \A k \in S : k.value <= j.value
  BY ValueEnds
<1>3. /\ X!WeightOf(S) = X!WeightOf(S \ {i}) + i.weight /\ Products(S) \in Nat
      /\ X!WeightOf(S) \in Nat /\ X!WeightOf(S \ {i}) \in Nat
  BY ProductsAdd, WeightParts, WeightCounts
<1>4. i.weight \in Nat \ {0} /\ i.value \in Nat /\ j.value \in Nat
  BY DEF Weighed
<1>5. i.value * X!WeightOf(S) <= Products(S) /\ Products(S) <= j.value * X!WeightOf(S)
  BY <1>1, <1>2, <1>4, ProductsBetween
<1>6. X!Mean(S) = Products(S) \div X!WeightOf(S)
  BY DEF X!Mean, Products, Product
<1>7. X!WeightOf(S) \in Nat \ {0}
  BY <1>3, <1>4
<1> QED
  BY <1>3, <1>4, <1>5, <1>6, <1>7, Quotient

-----------------------------------------------------------------------------
\* The lines that are asked for, and the observations made of them.
OrderLines == UNION {{o.lines[i] : i \in DOMAIN o.lines} : o \in Orders}
Told == {[source |-> l.source, place |-> l.place, value |-> l.value, published |-> t] :
            l \in {k \in OrderLines : k.value \in Nat \ {0}}, t \in Int}

XFields == {"pc", "does", "lines", "months", "reliability", "prepared", "groups", "at", "answer"}
XPC == {"idle", "write", "newest", "prepare", "insert", "put", "read", "upsert", "done", "failed"}
XDoes == {"source", "observe", "import", "rebuild"}

\* A request on the external data, and the way of each kind.
XRow(q) ==
    /\ q = [f \in XFields |-> q[f]]
    /\ q.pc \in XPC /\ q.does \in XDoes \cup {None} /\ q.at \in Int
    /\ q.reliability \in Int \cup {None} /\ q.prepared \in Seq(Told)
    /\ q.pc \in {"write", "newest"} => q.does = "source"
    /\ q.pc \in {"prepare", "insert", "put"} => q.does \in {"observe", "import"}
    /\ q.pc \in {"read", "upsert"} => q.does \in {"import", "rebuild"}
    /\ q.pc = "prepare" => q.lines \in Seq(OrderLines)
    /\ q.pc \in {"insert", "put"} => q.lines \in Seq(Told)
    /\ q.pc = "put" => q.lines # <<>>

SourceRows == [by : Reqs \cup {None}, reliability : Int]
KnownIn(S, n) == \A o \in S : o.source \in 1 .. n

ExternalTypes ==
    /\ month \in Int /\ sources \in Seq(SourceRows)
    /\ IsFiniteSet(observations) /\ observations \subseteq Told
    /\ KnownIn(observations, Len(sources))
    /\ request = [r \in Reqs |-> request[r]] /\ together \in [Reqs -> SUBSET Reqs]
    /\ \A r \in Reqs : XRow(request[r]) /\ KnownIn(X!ToSet(request[r].prepared), Len(sources))

\* Two requests that are being served know of each other.
Meet == \A r, w \in Reqs : r # w /\ ~X!Ended(r) /\ ~X!Ended(w) => w \in together[r]

\* What was prepared is in the table, or still to insert.
Inserting(q, table) ==
    /\ q.pc \in {"insert", "put"} => /\ X!ToSet(q.lines) \subseteq X!ToSet(q.prepared)
                                     /\ X!ToSet(q.prepared) \subseteq table \cup X!ToSet(q.lines)
    /\ q.pc \in {"idle", "write", "newest", "read", "upsert", "done"} => X!ToSet(q.prepared) \subseteq table

\* The groups of a rebuild hold observations, each with a weight.
Grouped(q, table) ==
    q.pc = "upsert" => \A p \in DOMAIN q.groups :
        /\ Weighed(q.groups[p]) /\ q.groups[p] # {}
        /\ \A i \in q.groups[p] : i.o \in table

\* Of what a request p has inserted, a rebuild w that read after it has every
\* row of its window in the groups it still has.
Inserted3 == {"read", "upsert", "done"}
HasRead(w, p) ==
    \A o \in X!ToSet(p.prepared) :
        X!InWindow(o, w.months, w.at) /\ o.place \in DOMAIN w.groups =>
            \E i \in w.groups[o.place] : i.o = o
Readers ==
    \A w, r \in Reqs :
        /\ request[w].pc = "upsert" /\ request[r].pc \in Inserted3
        /\ w = r \/ w \notin together[r]
        => HasRead(request[w], request[r])

\* A row of an import is in the baseline, or its place is still to write.
InBaseline(o, base, others) ==
    /\ o.place \in DOMAIN base
    /\ \/ \E i \in base[o.place].of : i.o = o
       \/ base[o.place].by \in others
       \/ ~X!InWindow(o, base[o.place].months, base[o.place].at)
Followed(q, base, others) ==
    q.does = "import" /\ q.pc \in {"upsert", "done"} =>
        \A o \in X!ToSet(q.prepared) : X!InWindow(o, q.months, q.at) =>
            InBaseline(o, base, others) \/ (q.pc = "upsert" /\ o.place \in DOMAIN q.groups)

\* The source of a request that is alone is the newest one.
Newest(r) ==
    together[r] = {} =>
        /\ request[r].pc = "newest" => Len(sources) > 0 /\ sources[Len(sources)].by = r
        /\ request[r].does = "source" /\ request[r].pc = "done" => request[r].answer = r

Based ==
    \A p \in DOMAIN baseline : X!Middle(baseline[p]) /\ \A i \in baseline[p].of : i.o \in observations

ReadInv ==
    /\ ExternalTypes /\ Meet /\ Readers
    /\ \A r \in Reqs : Inserting(request[r], observations) /\ Grouped(request[r], observations)
TellInv == Based /\ \A r \in Reqs : Followed(request[r], baseline, together[r]) /\ Newest(r)

ExternalInv == ReadInv /\ TellInv

\* What a step of a rebuild does to what it has read: its groups only go.
Keeps(p, q) ==
    /\ q.pc \in Inserted3 => q.prepared = p.prepared
    /\ q.pc = "upsert" => p.pc \in {"read", "upsert"}
    /\ q.pc = "upsert" /\ p.pc = "upsert" =>
          /\ q.at = p.at /\ q.months = p.months
          /\ DOMAIN q.groups \subseteq DOMAIN p.groups
          /\ \A x \in DOMAIN q.groups : q.groups[x] = p.groups[x]

LEMMA OneRow ==
    ASSUME ExternalTypes, NEW r \in Reqs, NEW q, XRow(q), request' = [request EXCEPT ![r] = q]
    PROVE  /\ request' = [x \in Reqs |-> request'[x]] /\ request'[r] = q
           /\ \A x \in Reqs \ {r} : request'[x] = request[x]
           /\ \A x \in Reqs : XRow(request'[x])
<1>1. DOMAIN request = Reqs /\ request = [x \in Reqs |-> request[x]]
  BY DEF ExternalTypes
<1>2. request' = [x \in Reqs |-> IF x = r THEN q ELSE request[x]]
  BY <1>1
<1> QED
  BY <1>2 DEF ExternalTypes

LEMMA StepTypes ==
    ASSUME ExternalTypes, NEW r \in Reqs, NEW q, XRow(q), request' = [request EXCEPT ![r] = q],
           UNCHANGED together, month' \in Int,
           sources' \in Seq(SourceRows), Len(sources) <= Len(sources'),
           IsFiniteSet(observations'), observations' \subseteq Told,
           KnownIn(observations', Len(sources)), KnownIn(X!ToSet(q.prepared), Len(sources))
    PROVE  ExternalTypes'
<1>1. Len(sources) \in Nat /\ Len(sources') \in Nat
  BY DEF ExternalTypes
<1>2. \A S : KnownIn(S, Len(sources)) => KnownIn(S, Len(sources'))
  BY <1>1 DEF KnownIn
<1>3. \A x \in Reqs : KnownIn(X!ToSet(request'[x].prepared), Len(sources'))
  BY <1>2, OneRow DEF ExternalTypes
<1> QED
  BY <1>2, <1>3, OneRow DEF ExternalTypes

LEMMA StepReads ==
    ASSUME ReadInv, NEW r \in Reqs, NEW q, XRow(q), request' = [request EXCEPT ![r] = q],
           ~X!Ended(r), UNCHANGED together, observations \subseteq observations',
           Keeps(request[r], q), Inserting(q, observations'), Grouped(q, observations'),
           q.pc = "upsert" /\ request[r].pc = "read" =>
              \A o \in observations : X!InWindow(o, q.months, q.at) /\ o.place \in DOMAIN q.groups =>
                  \E i \in q.groups[o.place] : i.o = o
    PROVE  /\ Meet' /\ Readers'
           /\ \A x \in Reqs : Inserting(request'[x], observations') /\ Grouped(request'[x], observations')
<1>1. /\ request' = [x \in Reqs |-> request'[x]] /\ request'[r] = q
      /\ \A x \in Reqs \ {r} : request'[x] = request[x]
  BY OneRow DEF ReadInv
<1>2. Meet'
  BY <1>1 DEF ReadInv, Meet, X!Ended
<1>3. \A x \in Reqs : Inserting(request'[x], observations') /\ Grouped(request'[x], observations')
  BY <1>1 DEF ReadInv, Inserting, Grouped
<1>4. ASSUME NEW w \in Reqs, NEW x \in Reqs,
             request'[w].pc = "upsert", request'[x].pc \in Inserted3, w = x \/ w \notin together[x]
      PROVE  HasRead(request'[w], request'[x])
  <2>1. CASE w # r /\ x # r
    BY <1>1, <1>4, <2>1 DEF ReadInv, Readers
  <2>2. CASE w # r /\ x = r
    <3>1. request[w].pc = "upsert" /\ request'[w] = request[w]
      BY <1>1, <1>4, <2>2
    <3>2. ~X!Ended(w)
      BY <3>1 DEF X!Ended
    <3>3. FALSE
      BY <1>4, <2>2, <3>2 DEF ReadInv, Meet
    <3> QED
      BY <3>3
  <2>3. CASE w = r
    <3>1. request[r].pc \in {"read", "upsert"} /\ q.pc = "upsert"
      BY <1>1, <1>4, <2>3 DEF Keeps
    <3>2. request[x].pc \in Inserted3 /\ request'[x].prepared = request[x].prepared
      BY <1>1, <1>4, <2>3, <3>1 DEF Keeps, Inserted3
    <3>3. CASE request[r].pc = "upsert"
      <4>1. HasRead(request[r], request[x])
        BY <1>4, <2>3, <3>2, <3>3 DEF ReadInv, Readers
      <4> QED
        BY <1>1, <2>3, <3>1, <3>2, <3>3, <4>1 DEF HasRead, Keeps
    <3>4. CASE request[r].pc = "read"
      <4>1. X!ToSet(request[x].prepared) \subseteq observations
        BY <3>2 DEF ReadInv, Inserting, Inserted3
      <4> QED
        BY <1>1, <2>3, <3>1, <3>2, <3>4, <4>1 DEF HasRead
    <3> QED
      BY <3>1, <3>3, <3>4
  <2> QED
    BY <2>1, <2>2, <2>3
<1>5. Readers'
  BY <1>4 DEF Readers
<1> QED
  BY <1>2, <1>3, <1>5

LEMMA StepTells ==
    ASSUME ReadInv, TellInv, NEW r \in Reqs, NEW q, XRow(q), request' = [request EXCEPT ![r] = q],
           UNCHANGED <<sources, baseline, together>>, observations \subseteq observations',
           Followed(q, baseline, together[r]),
           q.pc # "newest",
           q.pc = "done" /\ q.does = "source" /\ together[r] = {} => q.answer = r
    PROVE  TellInv'
<1>1. /\ request' = [x \in Reqs |-> request'[x]] /\ request'[r] = q
      /\ \A x \in Reqs \ {r} : request'[x] = request[x]
  BY OneRow DEF ReadInv
<1>2. Based'
  BY DEF TellInv, Based, X!Middle
<1>3. \A x \in Reqs : Followed(request'[x], baseline', together'[x])
  BY <1>1 DEF TellInv
<1>4. \A x \in Reqs : Newest(x)'
  BY <1>1 DEF TellInv, Newest
<1> QED
  BY <1>2, <1>3, <1>4 DEF TellInv

LEMMA ElementsOf ==
    ASSUME NEW T, NEW s \in Seq(T)
    PROVE  /\ X!ToSet(s) \subseteq T
           /\ s # <<>> => /\ Head(s) \in T /\ Tail(s) \in Seq(T)
                          /\ X!ToSet(s) = {Head(s)} \cup X!ToSet(Tail(s))
           /\ s = <<>> => X!ToSet(s) = {}
           /\ \A x \in T : Append(s, x) \in Seq(T) /\ X!ToSet(Append(s, x)) = X!ToSet(s) \cup {x}
<1>1. X!ToSet(s) \subseteq T
  BY DEF X!ToSet
<1>2. s = <<>> => X!ToSet(s) = {}
  BY DEF X!ToSet
<1>3. ASSUME s # <<>>
      PROVE  /\ Head(s) \in T /\ Tail(s) \in Seq(T)
             /\ X!ToSet(s) = {Head(s)} \cup X!ToSet(Tail(s))
  <2>1. Head(s) \in T /\ Tail(s) \in Seq(T) /\ Len(s) \in Nat \ {0}
    BY <1>3
  <2>2. /\ \A i \in 1 .. Len(s) : s[i] = IF i = 1 THEN Head(s) ELSE Tail(s)[i - 1]
        /\ Len(Tail(s)) = Len(s) - 1
    BY <1>3
  <2>3. X!ToSet(s) = {s[i] : i \in 1 .. Len(s)} /\ X!ToSet(Tail(s)) = {Tail(s)[i] : i \in 1 .. Len(s) - 1}
    <3>1. DOMAIN s = 1 .. Len(s) /\ DOMAIN Tail(s) = 1 .. Len(s) - 1
      BY <2>1, <2>2
    <3> QED
      BY <3>1 DEF X!ToSet
  <2>4. \A i \in 1 .. Len(s) : s[i] \in {Head(s)} \cup X!ToSet(Tail(s))
    <3>1. ASSUME NEW i \in 1 .. Len(s), i # 1 PROVE s[i] = Tail(s)[i - 1] /\ i - 1 \in 1 .. Len(s) - 1
      BY <2>1, <2>2, <3>1
    <3>2. \A i \in 1 .. Len(s) : i # 1 => s[i] \in X!ToSet(Tail(s))
      BY <2>3, <3>1
    <3> QED
      BY <2>2, <3>2
  <2>5. Head(s) \in X!ToSet(s)
    BY <2>1, <2>2, <2>3
  <2>6. \A i \in 1 .. Len(s) - 1 : Tail(s)[i] \in X!ToSet(s)
    <3>1. ASSUME NEW i \in 1 .. Len(s) - 1 PROVE Tail(s)[i] = s[i + 1] /\ i + 1 \in 1 .. Len(s)
      BY <2>1, <2>2
    <3> QED
      BY <3>1, <2>3
  <2> QED
    BY <2>1, <2>3, <2>4, <2>5, <2>6
<1>4. ASSUME NEW x \in T
      PROVE  Append(s, x) \in Seq(T) /\ X!ToSet(Append(s, x)) = X!ToSet(s) \cup {x}
  <2>1. /\ Len(Append(s, x)) = Len(s) + 1 /\ Len(s) \in Nat /\ Append(s, x) \in Seq(T)
        /\ \A i \in 1 .. Len(s) : Append(s, x)[i] = s[i]
        /\ Append(s, x)[Len(s) + 1] = x
    OBVIOUS
  <2>2. /\ X!ToSet(s) = {s[i] : i \in 1 .. Len(s)}
        /\ X!ToSet(Append(s, x)) = {Append(s, x)[i] : i \in 1 .. Len(s) + 1}
    BY <2>1 DEF X!ToSet
  <2>3. \A i \in 1 .. Len(s) + 1 : i \in 1 .. Len(s) \/ i = Len(s) + 1
    BY <2>1
  <2> QED
    BY <2>1, <2>2, <2>3
<1> QED
  BY <1>1, <1>2, <1>3, <1>4

LEMMA OrderFacts ==
    /\ \A o \in Orders : /\ o.does \in XDoes /\ o.reliability \in Int \cup {None} /\ o.lines \in Seq(OrderLines)
                         /\ o.does \in {"source", "rebuild"} => o.lines = <<>>
    /\ \A l \in OrderLines :
          /\ l = [source |-> l.source, place |-> l.place, value |-> l.value, published |-> l.published]
          /\ l.value \in Int \cup {None} /\ l.published \in Int \cup {None}
<1>1. ASSUME NEW o \in Orders PROVE o.lines \in Seq(OrderLines)
  <2> DEFINE S == {o.lines[i] : i \in DOMAIN o.lines}
  <2>1. o.lines \in Seq(S)
    BY ExternalAssumption
  <2>2. S \subseteq OrderLines
    BY DEF OrderLines
  <2> HIDE DEF S
  <2> QED
    BY <2>1, <2>2
<1>2. \A o \in Orders : /\ o.does \in XDoes /\ o.reliability \in Int \cup {None}
                        /\ o.does \in {"source", "rebuild"} => o.lines = <<>>
  BY ExternalAssumption DEF XDoes
<1>3. \A l \in OrderLines : \E o \in Orders : \E i \in DOMAIN o.lines : l = o.lines[i]
  BY DEF OrderLines
<1>4. \A o \in Orders : \A i \in DOMAIN o.lines :
          /\ o.lines[i] = [source |-> o.lines[i].source, place |-> o.lines[i].place,
                           value |-> o.lines[i].value, published |-> o.lines[i].published]
          /\ o.lines[i].value \in Int \cup {None} /\ o.lines[i].published \in Int \cup {None}
  BY ExternalAssumption
<1>5. ASSUME NEW l \in OrderLines
      PROVE  /\ l = [source |-> l.source, place |-> l.place, value |-> l.value, published |-> l.published]
             /\ l.value \in Int \cup {None} /\ l.published \in Int \cup {None}
  <2>1. PICK o \in Orders : \E i \in DOMAIN o.lines : l = o.lines[i]
    BY <1>3
  <2>2. PICK i \in DOMAIN o.lines : l = o.lines[i]
    BY <2>1
  <2> QED
    BY <1>4, <2>2
<1> QED
  BY <1>1, <1>2, <1>5

\* A step of which the request only goes on, and changes nothing it has read.
Onward(p, q) ==
    /\ XRow(q) /\ q.prepared = p.prepared /\ q.does = p.does /\ q.months = p.months
    /\ q.groups = p.groups /\ q.at = p.at

LEMMA OnwardStep ==
    ASSUME ExternalInv, NEW r \in Reqs, NEW q, Onward(request[r], q), request' = [request EXCEPT ![r] = q],
           ~X!Ended(r), UNCHANGED <<month, sources, baseline, together>>,
           observations \subseteq observations', IsFiniteSet(observations'), observations' \subseteq Told,
           KnownIn(observations', Len(sources)),
           Inserting(q, observations'),
           q.pc = "upsert" => request[r].pc = "upsert",
           q.pc = "done" => request[r].does # "import" \/ (request[r].pc = "upsert" /\ DOMAIN q.groups = {}),
           q.pc # "newest",
           q.pc = "done" /\ q.does = "source" /\ together[r] = {} => q.answer = r
    PROVE  ExternalInv'
<1>1. Grouped(q, observations')
  BY DEF ExternalInv, ReadInv, Grouped, Onward
<1>2. Keeps(request[r], q)
  BY DEF Keeps, Onward
<1>3. Followed(q, baseline, together[r])
  BY DEF ExternalInv, TellInv, Followed, Onward
<1>4. XRow(q) /\ ExternalTypes /\ KnownIn(X!ToSet(q.prepared), Len(sources))
  BY DEF ExternalInv, ReadInv, ExternalTypes, Onward
<1>5. ExternalTypes'
  <2>1. month' \in Int /\ sources' \in Seq(SourceRows) /\ Len(sources) <= Len(sources')
    BY <1>4 DEF ExternalTypes
  <2> QED
    BY <1>4, <2>1, StepTypes
<1>6. ReadInv'
  <2>1. /\ Meet' /\ Readers'
        /\ \A x \in Reqs : Inserting(request'[x], observations') /\ Grouped(request'[x], observations')
    BY <1>1, <1>2, <1>4, StepReads DEF ExternalInv
  <2> QED
    BY <1>5, <2>1 DEF ReadInv
<1>7. TellInv'
  BY <1>3, <1>4, StepTells DEF ExternalInv
<1> QED
  BY <1>6, <1>7 DEF ExternalInv

LEMMA ReadNewestStep ==
    ASSUME ExternalInv, NEW r \in Reqs, X!ReadNewest(r)
    PROVE  ExternalInv'
<1> DEFINE p == request[r]
           q == [p EXCEPT !.pc = "done", !.answer = sources[Len(sources)].by]
<1>1. XRow(p) /\ p.pc = "newest" /\ p.does = "source"
  BY DEF X!ReadNewest, ExternalInv, ReadInv, ExternalTypes, XRow
<1>2. Onward(p, q) /\ q.pc = "done" /\ q.answer = sources[Len(sources)].by
  <2>1. q = [f \in XFields |-> q[f]]
    BY <1>1 DEF XRow, XFields
  <2> QED
    BY <1>1, <2>1 DEF Onward, XRow, XFields, XPC
<1>3. request' = [request EXCEPT ![r] = q]
  BY DEF X!ReadNewest
<1>4. together[r] = {} => q.answer = r
  BY <1>1, <1>2 DEF ExternalInv, TellInv, Newest
<1>5. Inserting(q, observations)
  BY <1>1, <1>2 DEF ExternalInv, ReadInv, Inserting, Onward
<1>6. ~X!Ended(r)
  BY <1>1 DEF X!Ended
<1>7. UNCHANGED <<month, sources, observations, baseline, together>>
  BY DEF X!ReadNewest
<1>8. IsFiniteSet(observations) /\ observations \subseteq Told /\ KnownIn(observations, Len(sources))
  BY DEF ExternalInv, ReadInv, ExternalTypes
<1> HIDE DEF q
<1> QED
  BY <1>1, <1>2, <1>3, <1>4, <1>5, <1>6, <1>7, <1>8, OnwardStep

\* A step that only moves the request on, and perhaps takes lines from it.
LEMMA GoStep ==
    ASSUME ExternalInv, NEW r \in Reqs, NEW pc \in XPC, NEW lines,
           request' = [request EXCEPT ![r].pc = pc, ![r].lines = lines],
           UNCHANGED <<month, sources, observations, baseline, together>>,
           ~X!Ended(r), pc \notin {"newest", "upsert", "prepare", "write", "idle"},
           pc \in {"insert", "put"} => request[r].does \in {"observe", "import"} /\ lines \in Seq(Told),
           pc = "put" => lines # <<>>,
           pc = "read" => request[r].does \in {"import", "rebuild"},
           Inserting([request[r] EXCEPT !.pc = pc, !.lines = lines], observations),
           pc = "done" => request[r].does # "source" /\ 
               (request[r].does # "import" \/ (request[r].pc = "upsert" /\ DOMAIN request[r].groups = {}))
    PROVE  ExternalInv'
<1> DEFINE p == request[r]
           q == [p EXCEPT !.pc = pc, !.lines = lines]
<1>1. XRow(p)
  BY DEF ExternalInv, ReadInv, ExternalTypes
<1>2. Onward(p, q) /\ q.pc = pc
  <2>1. q = [f \in XFields |-> q[f]]
    BY <1>1 DEF XRow, XFields
  <2> QED
    BY <1>1, <2>1 DEF Onward, XRow, XFields
<1>3. request' = [request EXCEPT ![r] = q]
  OBVIOUS
<1>4. IsFiniteSet(observations) /\ observations \subseteq Told /\ KnownIn(observations, Len(sources))
  BY DEF ExternalInv, ReadInv, ExternalTypes
<1>5. Inserting(q, observations) /\ q.does = p.does /\ q.groups = p.groups
  BY <1>2 DEF Onward
<1> HIDE DEF q
<1> QED
  BY <1>2, <1>3, <1>4, <1>5, OnwardStep

LEMMA StopStep ==
    ASSUME ExternalInv, NEW r \in Reqs, ~X!Ended(r), X!Fails(r)
    PROVE  ExternalInv'
<1>1. XRow(request[r]) /\ request = [x \in Reqs |-> request[x]]
  BY DEF ExternalInv, ReadInv, ExternalTypes
<1>2. request' = [request EXCEPT ![r].pc = "failed", ![r].lines = request[r].lines]
  BY <1>1 DEF X!Fails, X!Goes, XRow, XFields
<1>3. Inserting([request[r] EXCEPT !.pc = "failed", !.lines = request[r].lines], observations)
  BY <1>1 DEF Inserting, XRow, XFields
<1> QED
  BY <1>2, <1>3, GoStep DEF X!Fails, XPC

LEMMA AllPreparedStep ==
    ASSUME ExternalInv, NEW r \in Reqs, X!AllPrepared(r)
    PROVE  ExternalInv'
<1> DEFINE p == request[r]
<1>1. XRow(p) /\ p.pc = "prepare" /\ p.prepared \in Seq(Told) /\ p.does \in {"observe", "import"}
  BY DEF X!AllPrepared, ExternalInv, ReadInv, ExternalTypes, XRow
<1>2. /\ request' = [request EXCEPT ![r].pc = "insert", ![r].lines = p.prepared]
      /\ UNCHANGED <<month, sources, observations, baseline, together>>
  BY DEF X!AllPrepared
<1>3. Inserting([p EXCEPT !.pc = "insert", !.lines = p.prepared], observations)
  BY <1>1 DEF Inserting, XRow, XFields
<1>4. ~X!Ended(r)
  BY <1>1 DEF X!Ended
<1> HIDE DEF p
<1> QED
  BY <1>1, <1>2, <1>3, <1>4, GoStep DEF XPC, p

LEMMA LookStep ==
    ASSUME ExternalInv, NEW r \in Reqs, X!Look(r)
    PROVE  ExternalInv'
<1> DEFINE p == request[r]
<1>1. /\ XRow(p) /\ p.pc = "insert" /\ p.lines \in Seq(Told) /\ p.lines # <<>>
      /\ p.does \in {"observe", "import"}
      /\ request = [x \in Reqs |-> request[x]]
  BY DEF X!Look, ExternalInv, ReadInv, ExternalTypes, XRow
<1>2. ~X!Ended(r)
  BY <1>1 DEF X!Ended
<1>3. /\ Head(p.lines) \in Told /\ Tail(p.lines) \in Seq(Told)
      /\ X!ToSet(p.lines) = {Head(p.lines)} \cup X!ToSet(Tail(p.lines))
  BY <1>1, ElementsOf
<1>4. Inserting(p, observations)
  BY DEF ExternalInv, ReadInv
<1>5. CASE Head(p.lines) \in observations
  <2>1. /\ request' = [request EXCEPT ![r].pc = "insert", ![r].lines = Tail(p.lines)]
        /\ UNCHANGED <<month, sources, observations, baseline, together>>
    BY <1>1, <1>5 DEF X!Look, XRow, XFields
  <2>2. Inserting([p EXCEPT !.pc = "insert", !.lines = Tail(p.lines)], observations)
    BY <1>1, <1>3, <1>4, <1>5 DEF Inserting, XRow, XFields
  <2> HIDE DEF p
  <2> QED
    BY <1>1, <1>2, <1>3, <2>1, <2>2, GoStep DEF XPC, p
<1>6. CASE Head(p.lines) \notin observations
  <2>1. /\ request' = [request EXCEPT ![r].pc = "put", ![r].lines = p.lines]
        /\ UNCHANGED <<month, sources, observations, baseline, together>>
    BY <1>1, <1>6 DEF X!Look, XRow, XFields
  <2>2. Inserting([p EXCEPT !.pc = "put", !.lines = p.lines], observations)
    BY <1>1, <1>4 DEF Inserting, XRow, XFields
  <2> HIDE DEF p
  <2> QED
    BY <1>1, <1>2, <2>1, <2>2, GoStep DEF XPC, p
<1> QED
  BY <1>5, <1>6

LEMMA AllInsertedStep ==
    ASSUME ExternalInv, NEW r \in Reqs, X!AllInserted(r)
    PROVE  ExternalInv'
<1> DEFINE p == request[r]
           pc == IF p.does = "observe" THEN "done" ELSE "read"
<1>1. /\ XRow(p) /\ p.pc = "insert" /\ p.lines = <<>> /\ p.does \in {"observe", "import"}
      /\ request = [x \in Reqs |-> request[x]]
  BY DEF X!AllInserted, ExternalInv, ReadInv, ExternalTypes, XRow
<1>2. ~X!Ended(r)
  BY <1>1 DEF X!Ended
<1>3. /\ request' = [request EXCEPT ![r].pc = pc, ![r].lines = p.lines]
      /\ UNCHANGED <<month, sources, observations, baseline, together>>
  BY <1>1 DEF X!AllInserted, X!Goes, XRow, XFields
<1>4. X!ToSet(p.lines) = {}
  BY <1>1 DEF X!ToSet
<1>5. Inserting([p EXCEPT !.pc = pc, !.lines = p.lines], observations)
  BY <1>1, <1>4 DEF Inserting, XRow, XFields, ExternalInv, ReadInv
<1>6. pc \in XPC /\ pc \in {"done", "read"} /\ (pc = "done" => p.does = "observe") /\ (pc = "read" => p.does = "import")
  BY <1>1 DEF XPC
<1> HIDE DEF pc
<1> QED
  BY <1>1, <1>2, <1>3, <1>5, <1>6, GoStep

LEMMA AllUpsertedStep ==
    ASSUME ExternalInv, NEW r \in Reqs, X!AllUpserted(r)
    PROVE  ExternalInv'
<1> DEFINE p == request[r]
<1>1. /\ XRow(p) /\ p.pc = "upsert" /\ DOMAIN p.groups = {} /\ p.does \in {"import", "rebuild"}
      /\ request = [x \in Reqs |-> request[x]]
  BY DEF X!AllUpserted, ExternalInv, ReadInv, ExternalTypes, XRow
<1>2. ~X!Ended(r)
  BY <1>1 DEF X!Ended
<1>3. /\ request' = [request EXCEPT ![r].pc = "done", ![r].lines = p.lines]
      /\ UNCHANGED <<month, sources, observations, baseline, together>>
  BY <1>1 DEF X!AllUpserted, X!Goes, XRow, XFields
<1>4. Inserting([p EXCEPT !.pc = "done", !.lines = p.lines], observations)
  BY <1>1 DEF Inserting, XRow, XFields, ExternalInv, ReadInv
<1> QED
  BY <1>1, <1>2, <1>3, <1>4, GoStep DEF XPC

LEMMA PutStep ==
    ASSUME ExternalInv, NEW r \in Reqs, X!Put(r)
    PROVE  ExternalInv'
<1> DEFINE p == request[r]
<1>1. /\ XRow(p) /\ p.pc = "put" /\ p.lines \in Seq(Told) /\ p.lines # <<>>
      /\ p.does \in {"observe", "import"}
      /\ request = [x \in Reqs |-> request[x]]
  BY DEF X!Put, ExternalInv, ReadInv, ExternalTypes, XRow
<1>2. ~X!Ended(r)
  BY <1>1 DEF X!Ended
<1>3. CASE Head(p.lines) \in observations
  BY <1>2, <1>3, StopStep DEF X!Put
<1>4. CASE Head(p.lines) \notin observations
  <2> DEFINE q == [p EXCEPT !.lines = Tail(p.lines), !.pc = "insert"]
             o == Head(p.lines)
  <2>1. /\ request' = [request EXCEPT ![r] = q] /\ observations' = observations \cup {o}
        /\ UNCHANGED <<month, sources, baseline, together>>
    BY <1>4 DEF X!Put
  <2>2. /\ o \in Told /\ Tail(p.lines) \in Seq(Told)
        /\ X!ToSet(p.lines) = {o} \cup X!ToSet(Tail(p.lines))
    BY <1>1, ElementsOf
  <2>3. Onward(p, q) /\ q.pc = "insert" /\ q.lines = Tail(p.lines)
    <3>1. q = [f \in XFields |-> q[f]]
      BY <1>1 DEF XRow, XFields
    <3> QED
      BY <1>1, <2>2, <3>1 DEF Onward, XRow, XFields, XPC
  <2>4. X!ToSet(p.lines) \subseteq X!ToSet(p.prepared) /\ X!ToSet(p.prepared) \subseteq observations \cup X!ToSet(p.lines)
    BY <1>1 DEF ExternalInv, ReadInv, Inserting
  <2>5. KnownIn(observations \cup {o}, Len(sources))
    BY <2>2, <2>4 DEF ExternalInv, ReadInv, ExternalTypes, KnownIn
  <2>6. /\ IsFiniteSet(observations \cup {o}) /\ observations \cup {o} \subseteq Told
    BY <2>2, FS_AddElement DEF ExternalInv, ReadInv, ExternalTypes
  <2> HIDE DEF q, o
  <2>7. Inserting(q, observations')
    BY <2>1, <2>2, <2>3, <2>4 DEF Inserting, Onward
  <2> QED
    BY <1>2, <2>1, <2>3, <2>5, <2>6, <2>7, OnwardStep
<1> QED
  BY <1>3, <1>4

LEMMA PrepareStep ==
    ASSUME ExternalInv, NEW r \in Reqs, X!Prepare(r)
    PROVE  ExternalInv'
<1> DEFINE p == request[r]
           line == Head(p.lines)
           o == X!Prepared(line)
<1>1. /\ XRow(p) /\ p.pc = "prepare" /\ p.lines \in Seq(OrderLines) /\ p.lines # <<>>
      /\ p.prepared \in Seq(Told) /\ p.does \in {"observe", "import"}
      /\ request = [x \in Reqs |-> request[x]] /\ KnownIn(X!ToSet(p.prepared), Len(sources))
  BY DEF X!Prepare, ExternalInv, ReadInv, ExternalTypes, XRow
<1>2. ~X!Ended(r)
  BY <1>1 DEF X!Ended
<1>3. line \in OrderLines /\ Tail(p.lines) \in Seq(OrderLines)
  BY <1>1, ElementsOf
<1>4. month \in Int
  BY DEF ExternalInv, ReadInv, ExternalTypes
<1>5. \E q : /\ request' = [request EXCEPT ![r] = q] /\ XRow(q) /\ q.pc \in {"prepare", "failed"}
             /\ KnownIn(X!ToSet(q.prepared), Len(sources))
  <2>1. CASE ~X!Valid(line)
    <3> DEFINE q == [p EXCEPT !.lines = Tail(p.lines), !.pc = IF p.does = "observe" THEN "failed" ELSE p.pc]
    <3>1. request' = [request EXCEPT ![r] = q]
      BY <1>1, <2>1 DEF X!Prepare
    <3>2. q = [f \in XFields |-> q[f]]
      BY <1>1 DEF XRow, XFields
    <3>3. XRow(q) /\ q.pc \in {"prepare", "failed"} /\ q.prepared = p.prepared
      BY <1>1, <1>3, <3>2 DEF XRow, XFields, XPC
    <3> HIDE DEF q
    <3> QED
      BY <1>1, <3>1, <3>3
  <2>2. CASE X!Valid(line)
    <3> DEFINE prepared == IF o \in X!ToSet(p.prepared) THEN p.prepared ELSE Append(p.prepared, o)
               q == [p EXCEPT !.lines = Tail(p.lines), !.prepared = prepared]
    <3>1. request' = [request EXCEPT ![r] = q]
      BY <1>1, <2>2 DEF X!Prepare
    <3>2. o \in Told /\ o.source \in 1 .. Len(sources)
      <4>1. /\ line = [source |-> line.source, place |-> line.place,
                       value |-> line.value, published |-> line.published]
            /\ line.value \in Int \cup {None} /\ line.published \in Int \cup {None}
        BY <1>3, OrderFacts
      <4>2. line.value \in Nat \ {0} /\ line.source \in 1 .. Len(sources)
        BY <2>2, <4>1 DEF X!Valid
      <4> DEFINE t == IF line.published = None THEN month ELSE line.published
      <4>3. t \in Int
        BY <1>4, <4>1
      <4>4. o = [source |-> line.source, place |-> line.place, value |-> line.value, published |-> t]
        BY <4>1 DEF X!Prepared
      <4> HIDE DEF t, o, line
      <4> QED
        BY <1>3, <4>2, <4>3, <4>4 DEF Told
    <3>3. prepared \in Seq(Told) /\ X!ToSet(prepared) \subseteq X!ToSet(p.prepared) \cup {o}
      BY <1>1, <3>2, ElementsOf
    <3>4. KnownIn(X!ToSet(prepared), Len(sources))
      BY <1>1, <3>2, <3>3 DEF KnownIn
    <3> HIDE DEF prepared
    <3>5. q = [f \in XFields |-> q[f]]
      BY <1>1 DEF XRow, XFields
    <3>6. XRow(q) /\ q.pc = "prepare" /\ q.prepared = prepared
      BY <1>1, <1>3, <3>3, <3>5 DEF XRow, XFields
    <3> HIDE DEF q
    <3> QED
      BY <3>1, <3>4, <3>6
  <2> QED
    BY <2>1, <2>2
<1>6. PICK q : /\ request' = [request EXCEPT ![r] = q] /\ XRow(q) /\ q.pc \in {"prepare", "failed"}
               /\ KnownIn(X!ToSet(q.prepared), Len(sources))
  BY <1>5
<1>7. UNCHANGED <<month, sources, observations, baseline, together>>
  BY DEF X!Prepare
<1>8. ExternalTypes /\ ExternalTypes'
  <2>1. /\ ExternalTypes /\ month \in Int /\ sources \in Seq(SourceRows) /\ Len(sources) \in Nat
        /\ IsFiniteSet(observations) /\ observations \subseteq Told /\ KnownIn(observations, Len(sources))
    BY DEF ExternalInv, ReadInv, ExternalTypes
  <2>2. /\ month' \in Int /\ sources' \in Seq(SourceRows) /\ Len(sources) <= Len(sources')
        /\ UNCHANGED together /\ observations' = observations
    BY <1>7, <2>1
  <2> QED
    BY <1>6, <2>1, <2>2, StepTypes
<1>9. Keeps(request[r], q) /\ Inserting(q, observations) /\ Grouped(q, observations) /\ Followed(q, baseline, together[r])
  BY <1>6 DEF Keeps, Inserted3, Inserting, Grouped, Followed
<1>10. ReadInv'
  <2>1. /\ Meet' /\ Readers'
        /\ \A x \in Reqs : Inserting(request'[x], observations') /\ Grouped(request'[x], observations')
    BY <1>2, <1>6, <1>7, <1>9, StepReads DEF ExternalInv
  <2> QED
    BY <1>8, <2>1 DEF ReadInv
<1>11. TellInv'
  BY <1>6, <1>7, <1>9, StepTells DEF ExternalInv
<1> QED
  BY <1>10, <1>11 DEF ExternalInv

LEMMA TickStep == ASSUME ExternalInv, X!Tick PROVE ExternalInv'
<1>1. /\ UNCHANGED <<sources, observations, baseline, request, together>> /\ month \in Int
      /\ month' = month + 1
  BY DEF X!Tick, ExternalInv, ReadInv, ExternalTypes
<1>2. ExternalTypes'
  BY <1>1 DEF ExternalInv, ReadInv, ExternalTypes
<1>3. Meet' /\ Readers'
  BY <1>1 DEF ExternalInv, ReadInv, Meet, Readers, X!Ended
<1>4. TellInv'
  BY <1>1 DEF ExternalInv, TellInv, Based, X!Middle, Newest
<1> QED
  BY <1>1, <1>2, <1>3, <1>4 DEF ExternalInv, ReadInv

LEMMA CreateSourceStep ==
    ASSUME ExternalInv, NEW r \in Reqs, X!CreateSource(r)
    PROVE  ExternalInv'
<1> DEFINE p == request[r]
           q == [p EXCEPT !.pc = "newest"]
           row == [by |-> r, reliability |-> X!NormalizeReliability(p.reliability)]
<1>1. /\ XRow(p) /\ p.pc = "write" /\ p.does = "source" /\ p.reliability \in Int \cup {None}
      /\ sources \in Seq(SourceRows)
  BY DEF X!CreateSource, ExternalInv, ReadInv, ExternalTypes, XRow
<1>2. /\ request' = [request EXCEPT ![r] = q] /\ sources' = Append(sources, row)
      /\ UNCHANGED <<month, observations, baseline, together>>
  BY DEF X!CreateSource, X!Goes
<1>3. Onward(p, q) /\ q.pc = "newest"
  <2>1. q = [f \in XFields |-> q[f]]
    BY <1>1 DEF XRow, XFields
  <2> QED
    BY <1>1, <2>1 DEF Onward, XRow, XFields, XPC
<1>4. row \in SourceRows
  <2>1. p.reliability # None => p.reliability \in Int
    BY <1>1
  <2>2. ASSUME NEW n \in Int PROVE X!Min({10, n}) \in Int
    BY DEF X!Min
  <2>3. ASSUME NEW n \in Int PROVE X!Max({0, n}) \in Int
    BY DEF X!Max
  <2>4. X!NormalizeReliability(p.reliability) \in Int
    BY <2>1, <2>2, <2>3 DEF X!NormalizeReliability
  <2> QED
    BY <2>4 DEF SourceRows
<1> HIDE DEF q, row
<1>5. /\ sources' \in Seq(SourceRows) /\ Len(sources') = Len(sources) + 1 /\ Len(sources) \in Nat
      /\ sources'[Len(sources')] = row
  BY <1>1, <1>2, <1>4
<1>6. ~X!Ended(r)
  BY <1>1 DEF X!Ended
<1>7. /\ ExternalTypes /\ month \in Int /\ IsFiniteSet(observations) /\ observations \subseteq Told
      /\ KnownIn(observations, Len(sources)) /\ KnownIn(X!ToSet(q.prepared), Len(sources)) /\ XRow(q)
  BY <1>3 DEF ExternalInv, ReadInv, ExternalTypes, Onward
<1>8. /\ Keeps(p, q) /\ Inserting(q, observations) /\ Grouped(q, observations)
      /\ Followed(q, baseline, together[r])
  BY <1>1, <1>3 DEF Keeps, Inserted3, Inserting, Grouped, Followed, Onward, ExternalInv, ReadInv
<1>9. ReadInv'
  <2>1. /\ month' \in Int /\ observations' = observations /\ UNCHANGED together
        /\ Len(sources) <= Len(sources')
    BY <1>2, <1>5, <1>7
  <2>2. ExternalTypes'
    BY <1>2, <1>5, <1>7, <2>1, StepTypes
  <2>3. /\ Meet' /\ Readers'
        /\ \A x \in Reqs : Inserting(request'[x], observations') /\ Grouped(request'[x], observations')
    BY <1>2, <1>3, <1>6, <1>7, <1>8, <2>1, StepReads DEF ExternalInv
  <2> QED
    BY <2>2, <2>3 DEF ReadInv
<1>10. TellInv'
  <2>1. request'[r] = q /\ \A x \in Reqs \ {r} : request'[x] = request[x]
    BY <1>2, <1>7, OneRow
  <2>2. Based'
    BY <1>2 DEF ExternalInv, TellInv, Based, X!Middle
  <2>3. \A x \in Reqs : Followed(request'[x], baseline', together'[x])
    BY <1>2, <1>8, <2>1 DEF ExternalInv, TellInv
  <2>4. Newest(r)'
    BY <1>3, <1>5, <2>1 DEF Newest, row
  <2>5. ASSUME NEW x \in Reqs \ {r} PROVE Newest(x)'
    <3>1. request[x].pc = "newest" => ~X!Ended(x)
      BY DEF X!Ended
    <3>2. request[x].pc = "newest" => together[x] # {}
      BY <1>6, <3>1 DEF ExternalInv, ReadInv, Meet
    <3> QED
      BY <1>2, <2>1, <3>2 DEF Newest, ExternalInv, TellInv
  <2> QED
    BY <2>2, <2>3, <2>4, <2>5 DEF TellInv
<1> QED
  BY <1>9, <1>10 DEF ExternalInv

LEMMA AskStep ==
    ASSUME ExternalInv, NEW r \in Reqs, X!Ask(r)
    PROVE  ExternalInv'
<1> DEFINE p == request[r]
<1>1. /\ XRow(p) /\ p.pc = "idle" /\ request = [x \in Reqs |-> request[x]]
      /\ KnownIn(X!ToSet(p.prepared), Len(sources)) /\ X!ToSet(p.prepared) \subseteq observations
      /\ together \in [Reqs -> SUBSET Reqs]
  BY DEF X!Ask, ExternalInv, ReadInv, ExternalTypes, XRow, Inserting
<1>2. PICK o \in Orders :
        request' = [request EXCEPT ![r].does = o.does, ![r].lines = o.lines, ![r].months = o.months,
            ![r].reliability = o.reliability,
            ![r].pc = CASE o.does = "source" -> "write" [] o.does = "rebuild" -> "read" [] OTHER -> "prepare"]
  BY DEF X!Ask
<1> DEFINE pc == CASE o.does = "source" -> "write" [] o.does = "rebuild" -> "read" [] OTHER -> "prepare"
           q == [p EXCEPT !.does = o.does, !.lines = o.lines, !.months = o.months,
                          !.reliability = o.reliability, !.pc = pc]
<1>3. request' = [request EXCEPT ![r] = q]
  BY <1>1, <1>2
<1>4. /\ o.does \in XDoes /\ o.reliability \in Int \cup {None} /\ o.lines \in Seq(OrderLines)
      /\ o.does \in {"source", "rebuild"} => o.lines = <<>>
  BY OrderFacts
<1>5. /\ pc \in {"write", "read", "prepare"} /\ (pc = "write" => o.does = "source")
      /\ (pc = "read" => o.does = "rebuild") /\ (pc = "prepare" => o.does \in {"observe", "import"})
  BY <1>4 DEF XDoes
<1> HIDE DEF pc
<1>6. XRow(q) /\ q.pc = pc /\ q.does = o.does /\ q.prepared = p.prepared
  <2>1. q = [f \in XFields |-> q[f]]
    BY <1>1 DEF XRow, XFields
  <2> QED
    BY <1>1, <1>4, <1>5, <2>1 DEF XRow, XFields, XPC
<1> HIDE DEF q
<1>7. request'[r] = q /\ request' = [x \in Reqs |-> request'[x]]
      /\ \A x \in Reqs \ {r} : request'[x] = request[x]
  BY <1>3, <1>6, OneRow DEF ExternalInv, ReadInv
<1>8. /\ together' = [x \in Reqs |->
            IF x = r THEN {y \in Reqs \ {r} : ~X!Ended(y)}
            ELSE IF X!Ended(x) THEN together[x] ELSE together[x] \cup {r}]
      /\ UNCHANGED <<month, sources, observations, baseline>>
  BY DEF X!Ask
<1>9. together' \in [Reqs -> SUBSET Reqs] /\ \A x \in Reqs \ {r} : together[x] \subseteq together'[x]
  BY <1>1, <1>8
<1>10. X!Ended(r)
  BY <1>1 DEF X!Ended
<1>11. \A x \in Reqs \ {r} : X!Ended(x)' <=> X!Ended(x)
  BY <1>7 DEF X!Ended
<1>12. Meet'
  <2> SUFFICES ASSUME NEW x \in Reqs, NEW y \in Reqs, x # y, ~X!Ended(x)', ~X!Ended(y)'
               PROVE  y \in together'[x]
    BY DEF Meet
  <2>1. CASE x # r /\ y # r
    BY <1>9, <1>11, <2>1 DEF ExternalInv, ReadInv, Meet
  <2>2. CASE x = r
    BY <1>8, <1>11, <2>2
  <2>3. CASE y = r
    BY <1>8, <1>11, <2>3
  <2> QED
    BY <2>1, <2>2, <2>3
<1>13. Readers'
  <2> SUFFICES ASSUME NEW w \in Reqs, NEW x \in Reqs,
                      request'[w].pc = "upsert", request'[x].pc \in Inserted3,
                      w = x \/ w \notin together'[x]
               PROVE  HasRead(request'[w], request'[x])
    BY DEF Readers
  <2>1. w # r
    BY <1>5, <1>6, <1>7
  <2>2. ~X!Ended(w)
    BY <1>7, <2>1 DEF X!Ended
  <2>3. x # r
    BY <1>8, <2>1, <2>2
  <2> QED
    BY <1>7, <1>9, <2>1, <2>3 DEF ExternalInv, ReadInv, Readers
<1>14. ExternalTypes'
  BY <1>1, <1>6, <1>7, <1>8, <1>9 DEF ExternalInv, ReadInv, ExternalTypes
<1>15. \A x \in Reqs : Inserting(request'[x], observations') /\ Grouped(request'[x], observations')
  BY <1>1, <1>5, <1>6, <1>7, <1>8 DEF ExternalInv, ReadInv, Inserting, Grouped
<1>16. Based'
  BY <1>8 DEF ExternalInv, TellInv, Based, X!Middle
<1>17. \A x \in Reqs : Followed(request'[x], baseline', together'[x])
  BY <1>5, <1>6, <1>7, <1>8, <1>9 DEF ExternalInv, TellInv, Followed, InBaseline
<1>18. \A x \in Reqs : Newest(x)'
  BY <1>5, <1>6, <1>7, <1>8, <1>9 DEF ExternalInv, TellInv, Newest
<1> QED
  BY <1>12, <1>13, <1>14, <1>15, <1>16, <1>17, <1>18 DEF ExternalInv, ReadInv, TellInv

LEMMA WeightType ==
    ASSUME ExternalTypes, NEW o \in Told, o.source \in 1 .. Len(sources), NEW months \in 6 .. 12
    PROVE  X!Weight(o, months, month) \in Nat \ {0}
<1>1. month \in Int /\ o.published \in Int /\ months \in Int
  BY DEF ExternalTypes, Told
<1>2. sources[o.source].reliability \in Int
  <2>1. sources[o.source] \in SourceRows
    BY DEF ExternalTypes
  <2> QED
    BY <2>1 DEF SourceRows
<1>3. ASSUME NEW a \in Int, NEW b \in Int PROVE X!Max({a, b}) \in Int /\ X!Max({a, b}) >= a
  BY DEF X!Max
<1>4. 5 * (months - (month - o.published)) \in Int
  BY <1>1
<1> DEFINE recency == X!Max({months, 5 * (months - (month - o.published))})
<1>5. recency \in Int
  BY <1>1, <1>3, <1>4
<1> HIDE DEF recency
<1>6. sources[o.source].reliability * recency \in Int
  BY <1>2, <1>5
<1> DEFINE w == sources[o.source].reliability * recency
<1>7. X!Weight(o, months, month) = X!Max({1, w})
  BY DEF X!Weight, recency
<1>8. w \in Int
  BY <1>6
<1> HIDE DEF w
<1>9. X!Max({1, w}) \in Int /\ X!Max({1, w}) >= 1
  BY <1>3, <1>8
<1> QED
  BY <1>7, <1>9

LEMMA ReadRowsStep ==
    ASSUME ExternalInv, NEW r \in Reqs, X!ReadRows(r)
    PROVE  ExternalInv'
<1> DEFINE p == request[r]
           rows == {o \in observations : X!InWindow(o, p.months, month)}
           Item(o) == [o |-> o, value |-> o.value, weight |-> X!Weight(o, p.months, month)]
           items == {Item(o) : o \in rows}
           places == {o.place : o \in rows}
           groups == [x \in places |-> {i \in items : i.o.place = x}]
           q == [p EXCEPT !.pc = "upsert", !.at = month, !.groups = groups]
<1>1. /\ XRow(p) /\ p.pc = "read" /\ p.does \in {"import", "rebuild"}
      /\ ExternalTypes /\ month \in Int /\ observations \subseteq Told /\ IsFiniteSet(observations)
      /\ KnownIn(observations, Len(sources)) /\ KnownIn(X!ToSet(p.prepared), Len(sources))
      /\ X!ToSet(p.prepared) \subseteq observations
  BY DEF X!ReadRows, ExternalInv, ReadInv, ExternalTypes, XRow, Inserting
<1>2. ~X!Ended(r)
  BY <1>1 DEF X!Ended
<1>3. CASE ~X!Windowed(p.months)
  BY <1>2, <1>3, StopStep DEF X!ReadRows
<1>4. CASE X!Windowed(p.months)
  <2>1. /\ request' = [request EXCEPT ![r] = q]
        /\ UNCHANGED <<month, sources, observations, baseline, together>>
    BY <1>4 DEF X!ReadRows
  <2>2. p.months \in 6 .. 12
    BY <1>4 DEF X!Windowed
  <2>3. \A o \in rows : /\ Item(o).weight \in Nat \ {0} /\ Item(o).value \in Nat
                        /\ Item(o).o = o /\ o \in observations
    <3> SUFFICES ASSUME NEW o \in rows
                 PROVE  X!Weight(o, p.months, month) \in Nat \ {0} /\ o.value \in Nat
      OBVIOUS
    <3>1. o \in Told /\ o.source \in 1 .. Len(sources)
      BY <1>1 DEF KnownIn
    <3>2. o.value \in Nat
      BY <3>1 DEF Told
    <3> QED
      BY <1>1, <2>2, <3>1, <3>2, WeightType
  <2> HIDE DEF Item
  <2>4. IsFiniteSet(items)
    <3> DEFINE item == [o \in rows |-> Item(o)]
    <3>1. IsFiniteSet(rows)
      BY <1>1, FS_Subset
    <3>2. item \in Surjection(rows, items)
      BY DEF Surjection
    <3> HIDE DEF item, rows, items
    <3> QED
      BY <3>1, <3>2, FS_Surjection
  <2>5. \A x \in DOMAIN groups : /\ Weighed(groups[x]) /\ groups[x] # {}
                                 /\ \A i \in groups[x] : i.o \in observations
    <3> SUFFICES ASSUME NEW x \in places
                 PROVE  /\ Weighed(groups[x]) /\ groups[x] # {}
                        /\ \A i \in groups[x] : i.o \in observations
      OBVIOUS
    <3>1. groups[x] \subseteq items /\ IsFiniteSet(groups[x])
      BY <2>4, FS_Subset
    <3>2. \A i \in items : i.weight \in Nat \ {0} /\ i.value \in Nat /\ i.o \in observations
      BY <2>3
    <3>3. groups[x] # {}
      <4>1. PICK o \in rows : o.place = x
        OBVIOUS
      <4>2. Item(o) \in items /\ Item(o).o.place = x
        BY <2>3, <4>1
      <4> QED
        BY <4>2
    <3> QED
      BY <3>1, <3>2, <3>3 DEF Weighed
  <2>6. \A o \in observations : X!InWindow(o, p.months, month) =>
            o.place \in DOMAIN groups /\ \E i \in groups[o.place] : i.o = o
    <3> SUFFICES ASSUME NEW o \in rows
                 PROVE  o.place \in places /\ \E i \in groups[o.place] : i.o = o
      OBVIOUS
    <3>1. Item(o) \in items /\ Item(o).o = o
      BY <2>3
    <3>2. Item(o) \in groups[o.place]
      BY <3>1
    <3> QED
      BY <3>1, <3>2
  <2> HIDE DEF groups
  <2>7. /\ XRow(q) /\ q.pc = "upsert" /\ q.at = month /\ q.groups = groups /\ q.months = p.months
        /\ q.prepared = p.prepared /\ q.does = p.does
    <3>1. q = [f \in XFields |-> q[f]]
      BY <1>1 DEF XRow, XFields
    <3> QED
      BY <1>1, <3>1 DEF XRow, XFields, XPC
  <2> HIDE DEF q
  <2>8. Keeps(p, q) /\ Inserting(q, observations) /\ Grouped(q, observations)
    BY <1>1, <2>5, <2>7 DEF Keeps, Inserting, Grouped
  <2>9. Followed(q, baseline, together[r])
    BY <1>1, <2>6, <2>7 DEF Followed
  <2>10. \A o \in observations : X!InWindow(o, q.months, q.at) /\ o.place \in DOMAIN q.groups =>
            \E i \in q.groups[o.place] : i.o = o
    BY <2>6, <2>7
  <2> HIDE DEF p
  <2>11. /\ month' \in Int /\ observations' = observations /\ UNCHANGED together
         /\ sources' \in Seq(SourceRows) /\ Len(sources) <= Len(sources')
    BY <1>1, <2>1 DEF ExternalTypes
  <2>12. ExternalTypes'
    BY <1>1, <2>1, <2>7, <2>11, StepTypes
  <2>13. /\ Meet' /\ Readers'
         /\ \A x \in Reqs : Inserting(request'[x], observations') /\ Grouped(request'[x], observations')
    BY <1>2, <2>1, <2>7, <2>8, <2>10, <2>11, StepReads DEF ExternalInv, p
  <2>14. TellInv'
    BY <2>1, <2>7, <2>9, <2>11, StepTells DEF ExternalInv
  <2> QED
    BY <2>12, <2>13, <2>14 DEF ExternalInv, ReadInv
<1> QED
  BY <1>3, <1>4

LEMMA UpsertStep ==
    ASSUME ExternalInv, NEW r \in Reqs, X!Upsert(r)
    PROVE  ExternalInv'
<1> DEFINE p == request[r]
           groups == p.groups
<1>1. /\ XRow(p) /\ p.pc = "upsert" /\ p.does \in {"import", "rebuild"}
      /\ ExternalTypes /\ Grouped(p, observations) /\ Inserting(p, observations)
      /\ request = [x \in Reqs |-> request[x]]
  BY DEF X!Upsert, ExternalInv, ReadInv, ExternalTypes, XRow
<1>2. ~X!Ended(r)
  BY <1>1 DEF X!Ended
<1>3. PICK place \in DOMAIN groups :
         /\ baseline' = [x \in DOMAIN baseline \cup {place} |->
               IF x = place THEN [mean |-> X!Mean(groups[place]), median |-> X!Median(groups[place]),
                                  of |-> groups[place], by |-> r, months |-> p.months, at |-> p.at]
               ELSE baseline[x]]
         /\ request' = [request EXCEPT ![r].groups = [x \in DOMAIN groups \ {place} |-> groups[x]]]
  BY DEF X!Upsert
<1> DEFINE left == [x \in DOMAIN groups \ {place} |-> groups[x]]
           q == [p EXCEPT !.groups = left]
           S == groups[place]
<1>4. request' = [request EXCEPT ![r] = q] /\ UNCHANGED <<month, sources, observations, together>>
  BY <1>1, <1>3 DEF X!Upsert
<1>5. /\ DOMAIN left = DOMAIN groups \ {place} /\ \A x \in DOMAIN left : left[x] = groups[x]
  OBVIOUS
<1> HIDE DEF left
<1>6. /\ XRow(q) /\ q.pc = "upsert" /\ q.groups = left /\ q.at = p.at /\ q.months = p.months
      /\ q.prepared = p.prepared /\ q.does = p.does
  <2>1. q = [f \in XFields |-> q[f]]
    BY <1>1 DEF XRow, XFields
  <2> QED
    BY <1>1, <2>1 DEF XRow, XFields
<1> HIDE DEF q
<1>7. Keeps(p, q) /\ Inserting(q, observations) /\ Grouped(q, observations)
  BY <1>1, <1>5, <1>6 DEF Keeps, Inserting, Grouped
<1>8. ReadInv'
  <2>1. /\ month' \in Int /\ observations' = observations /\ UNCHANGED together
        /\ sources' \in Seq(SourceRows) /\ Len(sources) <= Len(sources')
        /\ IsFiniteSet(observations) /\ observations \subseteq Told
        /\ KnownIn(observations, Len(sources)) /\ KnownIn(X!ToSet(q.prepared), Len(sources))
    BY <1>1, <1>4, <1>6 DEF ExternalTypes
  <2>2. ExternalTypes'
    BY <1>1, <1>4, <1>6, <2>1, StepTypes
  <2>3. /\ Meet' /\ Readers'
        /\ \A x \in Reqs : Inserting(request'[x], observations') /\ Grouped(request'[x], observations')
    BY <1>1, <1>2, <1>4, <1>6, <1>7, <2>1, StepReads DEF ExternalInv
  <2> QED
    BY <2>2, <2>3 DEF ReadInv
<1>9. /\ request'[r] = q /\ \A x \in Reqs \ {r} : request'[x] = request[x]
  BY <1>1, <1>4, <1>6, OneRow
<1>10. Weighed(S) /\ S # {} /\ \A i \in S : i.o \in observations
  BY <1>1, <1>3 DEF Grouped
<1> DEFINE row == [mean |-> X!Mean(S), median |-> X!Median(S), of |-> S, by |-> r,
                   months |-> p.months, at |-> p.at]
<1>11. /\ DOMAIN baseline' = DOMAIN baseline \cup {place}
       /\ baseline'[place] = row /\ \A x \in DOMAIN baseline \ {place} : baseline'[x] = baseline[x]
  BY <1>3
<1>12. row.of = S /\ row.by = r /\ row.months = p.months /\ row.at = p.at
  OBVIOUS
<1>13. X!Middle(row)
  <2>1. row.median = X!Median(S) /\ row.mean = X!Mean(S) /\ row.of = S
    OBVIOUS
  <2> HIDE DEF row, S
  <2> QED
    BY <1>10, <2>1, MedianIsMiddle, MeanIsBetween DEF X!Middle
<1> HIDE DEF row, S
<1>14. Based'
  <2>1. \A x \in DOMAIN baseline' : X!Middle(baseline'[x]) /\ \A i \in baseline'[x].of : i.o \in observations
    BY <1>10, <1>11, <1>12, <1>13 DEF ExternalInv, TellInv, Based
  <2> QED
    BY <1>4, <2>1 DEF Based, X!Middle
<1>15. ASSUME NEW x \in Reqs PROVE Followed(request'[x], baseline', together[x])
  <2> SUFFICES ASSUME request'[x].does = "import", request'[x].pc \in {"upsert", "done"},
                      NEW o \in X!ToSet(request'[x].prepared),
                      X!InWindow(o, request'[x].months, request'[x].at)
               PROVE  \/ InBaseline(o, baseline', together[x])
                      \/ request'[x].pc = "upsert" /\ o.place \in DOMAIN request'[x].groups
    BY DEF Followed
  <2>1. /\ request[x].does = "import" /\ request[x].pc \in {"upsert", "done"}
        /\ o \in X!ToSet(request[x].prepared) /\ X!InWindow(o, request[x].months, request[x].at)
        /\ request'[x].pc = request[x].pc
    BY <1>1, <1>6, <1>9
  <2>2. CASE o.place # place
    <3>1. InBaseline(o, baseline, together[x]) => InBaseline(o, baseline', together[x])
      BY <1>11, <2>2 DEF InBaseline
    <3>2. \/ InBaseline(o, baseline, together[x])
          \/ request[x].pc = "upsert" /\ o.place \in DOMAIN request[x].groups
      BY <2>1 DEF ExternalInv, TellInv, Followed
    <3>3. o.place \in DOMAIN request[x].groups => o.place \in DOMAIN request'[x].groups
      BY <1>5, <1>6, <1>9, <2>2
    <3> QED
      BY <2>1, <3>1, <3>2, <3>3
  <2>3. CASE o.place = place
    <3>1. x = r \/ r \notin together[x] => HasRead(p, request[x])
      BY <1>1, <2>1 DEF ExternalInv, ReadInv, Readers, Inserted3
    <3>2. ~X!InWindow(o, p.months, p.at) \/ r \in together[x] \/ \E i \in S : i.o = o
      BY <1>3, <2>1, <2>3, <3>1 DEF HasRead, S
    <3>3. InBaseline(o, baseline', together[x])
      BY <1>11, <1>12, <2>3, <3>2 DEF InBaseline
    <3> QED
      BY <3>3
  <2> QED
    BY <2>2, <2>3
<1>16. \A x \in Reqs : Newest(x)'
  BY <1>1, <1>4, <1>6, <1>9 DEF ExternalInv, TellInv, Newest
<1> QED
  BY <1>4, <1>8, <1>14, <1>15, <1>16 DEF ExternalInv, TellInv

LEMMA ExternalInit == X!Init => ExternalInv
<1> SUFFICES ASSUME X!Init PROVE ExternalInv
  OBVIOUS
<1> DEFINE q == [pc |-> "idle", does |-> None, lines |-> <<>>, months |-> None, reliability |-> None,
                 prepared |-> <<>>, groups |-> <<>>, at |-> 0, answer |-> None]
<1>1. XRow(q) /\ q.pc = "idle" /\ q.prepared = <<>> /\ q.lines = <<>>
  <2>1. q = [f \in XFields |-> q[f]]
    BY DEF XFields
  <2>2. <<>> \in Seq(Told)
    OBVIOUS
  <2> QED
    BY <2>1, <2>2 DEF XRow, XPC
<1> HIDE DEF q
<1>2. request = [r \in Reqs |-> q] /\ together = [r \in Reqs |-> {}] /\ observations = {} /\ baseline = <<>>
  BY DEF X!Init, q
<1>3. X!ToSet(<<>>) = {}
  BY DEF X!ToSet
<1>4. sources \in Seq(SourceRows) /\ month \in Int
  <2>1. [by |-> None, reliability |-> 10] \in SourceRows
    BY DEF SourceRows
  <2>2. <<[by |-> None, reliability |-> 10]>> \in Seq(SourceRows) /\ <<>> \in Seq(SourceRows)
    BY <2>1
  <2>3. month = 12 /\ (sources = <<>> \/ sources = <<[by |-> None, reliability |-> 10]>>)
    BY DEF X!Init
  <2>4. sources \in Seq(SourceRows)
    BY <2>2, <2>3, Zenon
  <2>5. month \in Int
    BY <2>3
  <2> QED
    BY <2>4, <2>5
<1>5. ExternalTypes
  BY <1>1, <1>2, <1>3, <1>4, FS_EmptySet DEF ExternalTypes, KnownIn
<1>6. Meet /\ Readers
  BY <1>1, <1>2 DEF Meet, Readers, X!Ended
<1>7. \A r \in Reqs : Inserting(request[r], observations) /\ Grouped(request[r], observations)
  BY <1>1, <1>2, <1>3 DEF Inserting, Grouped
<1>8. Based
  BY <1>2 DEF Based
<1>9. \A r \in Reqs : Followed(request[r], baseline, together[r]) /\ Newest(r)
  BY <1>1, <1>2 DEF Followed, Newest
<1> QED
  BY <1>5, <1>6, <1>7, <1>8, <1>9 DEF ExternalInv, ReadInv, TellInv

LEMMA ExternalNext == ExternalInv /\ [X!Next]_externalVars => ExternalInv'
<1> SUFFICES ASSUME ExternalInv, [X!Next]_externalVars PROVE ExternalInv'
  OBVIOUS
<1>1. CASE UNCHANGED externalVars
  <2>1. UNCHANGED <<month, sources, observations, baseline, request, together>>
    BY <1>1 DEF externalVars
  <2>2. ReadInv'
    BY <2>1 DEF ExternalInv, ReadInv, ExternalTypes, Meet, Readers, X!Ended
  <2>3. TellInv'
    BY <2>1 DEF ExternalInv, TellInv, Based, X!Middle, Newest
  <2> QED
    BY <2>2, <2>3 DEF ExternalInv
<1>2. CASE X!Tick
  BY <1>2, TickStep
<1>3. ASSUME NEW r \in Reqs, X!Ask(r) \/ X!CreateSource(r) \/ X!ReadNewest(r) PROVE ExternalInv'
  BY <1>3, AskStep, CreateSourceStep, ReadNewestStep
<1>4. ASSUME NEW r \in Reqs, X!Prepare(r) \/ X!AllPrepared(r) \/ X!Look(r) \/ X!Put(r) \/ X!AllInserted(r)
      PROVE  ExternalInv'
  BY <1>4, PrepareStep, AllPreparedStep, LookStep, PutStep, AllInsertedStep
<1>5. ASSUME NEW r \in Reqs, X!ReadRows(r) \/ X!Upsert(r) \/ X!AllUpserted(r) \/ X!Stop(r)
      PROVE  ExternalInv'
  <2>1. X!Stop(r) => ExternalInv'
    BY StopStep DEF X!Stop
  <2> QED
    BY <1>5, <2>1, ReadRowsStep, UpsertStep, AllUpsertedStep
<1> QED
  BY <1>1, <1>2, <1>3, <1>4, <1>5 DEF X!Next

LEMMA ExternalTells == ExternalInv => BaselineTells
<1> SUFFICES ASSUME ExternalInv PROVE BaselineTells
  OBVIOUS
<1>1. \A p \in DOMAIN baseline :
          X!Middle(baseline[p]) /\ \A i \in baseline[p].of : i.o \in observations
  BY DEF ExternalInv, TellInv, Based
<1>2. ASSUME NEW r \in Reqs, request[r].pc = "done", request[r].does = "import",
             NEW o \in X!ToSet(request[r].prepared)
      PROVE  X!Counted(r, o)
  BY <1>2 DEF ExternalInv, TellInv, Followed, InBaseline, X!Counted
<1>3. ASSUME NEW r \in Reqs, request[r].pc = "done", request[r].does = "source", together[r] = {}
      PROVE  request[r].answer = r
  BY <1>3 DEF ExternalInv, TellInv, Newest
<1> QED
  BY <1>1, <1>2, <1>3 DEF BaselineTells, X!BaselineTells

\* However the statements of the administrators' requests interleave, and
\* wherever they stop, the external baseline tells the weighted middle of
\* observations of the table, an import that was answered is in it but where a
\* rebuild of another window or served together with it wrote last, and a
\* source is answered to the request that created it, if it was alone.
\* (admin-external-market.service.ts: rebuildBaseline, importCsv, createSource.)
THEOREM ExternalBaselineTells == X!Spec => []BaselineTells
<1>1. ExternalInv /\ [X!Next]_X!vars => ExternalInv'
  BY ExternalNext DEF X!vars, externalVars
<1> QED
  BY <1>1, ExternalInit, ExternalTells, PTL DEF X!Spec
=============================================================================
