-------------------------- MODULE OwnerChatProofs --------------------------
(***************************************************************************)
(* Proofs about OwnerChat for every number of requests, properties and     *)
(* messages: types, that only a pricing completes an evaluation, that an   *)
(* estimate rests on answers about its own property and comes after the    *)
(* building question, and that the row forgets nothing of itself; and      *)
(* about OwnerRoutes for every set of messages: no handler forgets what    *)
(* the owner told.                                                         *)
(***************************************************************************)
EXTENDS OwnerTalk, TLAPS

\* t has put the building question.
AskedBuilding(t) == send[t].reply = "ask" /\ send[t].ctx.eval.stage = "asking_building"

\* A complete evaluation was priced; one that waits for the building details
\* was left so by the turn that asked for them; one that is not open has no answers.
Origin(ev) ==
    /\ ev.stage = "none" => ev.has = Blank
    /\ ev.stage = "complete" =>
          \E s \in Reqs : send[s].reply \in {"estimate", "no_price"} /\ send[s].ctx.eval = ev
    /\ ev.stage = "asking_building" => \E t \in Reqs : AskedBuilding(t)

OriginInv ==
    /\ meta # NoRow => Origin(meta.ctx.eval)
    /\ \A s \in Reqs : Origin(send[s].snap.ctx.eval) /\ Origin(send[s].ctx.eval)

\* What a turn knows of the evaluation at each of its points.
TurnInv ==
    /\ last # None => send[last].msg \in Messages /\ send[last].pc # "idle"
    /\ \A s \in Reqs :
        /\ send[s].pc \in {"idle", "merged", "open", "sync", "refused"} => send[s].reply = "none"
        /\ send[s].pc = "idle" => s \notin stale
        /\ Turning(s) => last # None
        /\ Turning(s) \/ send[s].reply # "none" => send[s].msg \in Messages
        /\ send[s].pc \in {"merged", "open"} => send[s].ctx.eval = send[s].snap.ctx.eval
        /\ Turning(s) /\ send[s].ctx.eval.stage = "none" => send[s].snap.ctx.eval.stage = "none"
        /\ send[s].pc = "answered" => send[s].reply # "none"
        /\ send[s].reply \in {"estimate", "again"} => send[s].ctx.eval.stage = "complete"
        /\ send[s].pc = "answered" /\ ~Renews(s) =>
              \A f \in Facts : send[s].snap.ctx.eval.has[f] # None
                                  => send[s].ctx.eval.has[f] # None

\* The row as the first of the two writes of a turn leaves it.
Half(s) == Persisted(send[s].snap, send[s].pid,
                     [send[s].ctx EXCEPT !.eval = send[s].snap.ctx.eval])

\* The row is what a request that nobody overtook left it, or read.
HoldInv ==
    meta # NoRow => \A s \in Reqs \ stale :
        /\ send[s].pc \in {"merged", "task", "sync"} => meta = send[s].snap
        /\ send[s].pc \in {"open", "answered"} => meta = Half(s)

\* An evaluation in progress is about p, and so was the building question.
Fits(ev, p) ==
    Active(ev) => /\ \A f \in Facts : ev.has[f] \in {p, None}
                  /\ ev.stage = "asking_building" =>
                        \E t \in Reqs : AskedBuilding(t) /\ send[t].msg.about = p

\* While the owner changes the subject between evaluations only and nobody
\* overwrote a newer row, what is under way is about the property of the last
\* message, and so is every message that the row has not moved away from.
SubjectInv ==
    ~lossy /\ ~abrupt =>
        /\ meta # NoRow =>
              /\ last = None => ~Active(meta.ctx.eval)
              /\ last # None => Fits(meta.ctx.eval, send[last].msg.about)
        /\ \A s \in Reqs : Turning(s) =>
              /\ Fits(send[s].ctx.eval, send[s].msg.about)
              /\ s \notin stale => send[s].msg.about = send[last].msg.about

\* The inductive invariant.
IInv == /\ TypeOK /\ TurnInv /\ OriginInv /\ HoldInv /\ SubjectInv
        /\ AnswersOfThisProperty /\ BuildingAskedFirst

-----------------------------------------------------------------------------
LEMMA EvalTypes ==
    /\ Empty \in Row /\ NoEval \in Eval /\ Blank \in [Facts -> Known]
    /\ IdleSend \in SendLocals
<1>1. Blank \in [Facts -> Known]
  BY DEF Blank, Known
<1>2. NoEval \in Eval
  BY <1>1 DEF NoEval, Eval, Stage
<1>3. Empty \in Row
  BY <1>2 DEF Empty, Row, Context, Known
<1>4. Empty.ctx \in Context
  BY <1>3 DEF Row
<1> QED
  BY <1>1, <1>2, <1>3, <1>4 DEF IdleSend, SendLocals, SendPC, Reply, Known

LEMMA MessageFields ==
    ASSUME NEW m \in Messages
    PROVE  /\ m.about \in Properties /\ m.fresh \in BOOLEAN /\ m.short \in BOOLEAN
           /\ m.pid \in Known /\ m.about # None
BY ChatAssumption DEF MessageType, Known

LEMMA MergeType ==
    ASSUME NEW c \in Context, NEW m \in Messages, NEW pid \in Known, NEW asked \in BOOLEAN
    PROVE  /\ Merge(c, m, pid, asked) \in Context
           /\ Merge(c, m, pid, asked).eval = c.eval
<1>1. c.district \in Known /\ c.area \in Known /\ c.eval \in Eval
  BY DEF Context
<1>2. m.about \in Known /\ None \in Known
  BY MessageFields DEF Known
<1> QED
  BY <1>1, <1>2 DEF Merge, Context, First

\* A row with some of its fields set.
LEMMA RowSet ==
    ASSUME NEW written \in Row, NEW pid \in Known
    PROVE  /\ [written EXCEPT !.pid = pid] \in Row /\ [written EXCEPT !.pid = pid].ctx = written.ctx
           /\ [written EXCEPT !.pid = pid].task = written.task
           /\ [written EXCEPT !.task = TRUE] \in Row /\ [written EXCEPT !.task = TRUE].ctx = written.ctx
           /\ [written EXCEPT !.task = TRUE].task = TRUE
BY DEF Row

\* Writing a turn's state back keeps the rest of the snapshot.
LEMMA PersistedType ==
    ASSUME NEW snap \in Row, NEW pid \in Known, NEW c \in Context
    PROVE  /\ Persisted(snap, pid, c) \in Row
           /\ Persisted(snap, pid, c).ctx.eval
                 = IF c.eval.stage # "none" THEN c.eval ELSE snap.ctx.eval
           /\ Persisted(snap, pid, c).ctx.district = First(c.district, snap.ctx.district)
           /\ Persisted(snap, pid, c).ctx.area = First(c.area, snap.ctx.area)
           /\ Persisted(snap, pid, c).task = snap.task
           /\ Persisted(snap, pid, c).pid = pid
<1> DEFINE ev == IF c.eval.stage # "none" THEN c.eval ELSE snap.ctx.eval
           ctx == [district |-> First(c.district, snap.ctx.district),
                   area |-> First(c.area, snap.ctx.area), eval |-> ev]
<1>1. c.district \in Known /\ c.area \in Known /\ c.eval \in Eval
  BY DEF Context
<1>2. /\ snap.ctx.district \in Known /\ snap.ctx.area \in Known /\ snap.ctx.eval \in Eval
      /\ snap.task \in BOOLEAN
  BY DEF Row, Context
<1>3. ctx \in Context
  BY <1>1, <1>2 DEF Context, First
<1>4. Persisted(snap, pid, c) = [snap EXCEPT !.pid = pid, !.ctx = ctx]
  BY DEF Persisted
<1> HIDE DEF ctx
<1>6. /\ Persisted(snap, pid, c) \in Row /\ Persisted(snap, pid, c).ctx = ctx
      /\ Persisted(snap, pid, c).task = snap.task /\ Persisted(snap, pid, c).pid = pid
  BY <1>2, <1>3, <1>4 DEF Row
<1>7. /\ ctx.eval = ev /\ ctx.district = First(c.district, snap.ctx.district)
      /\ ctx.area = First(c.area, snap.ctx.area)
  BY DEF ctx
<1> QED
  BY <1>6, <1>7

\* An evaluation is opened with no answers or taken as it stands, and answers
\* are added to it or, the building details, replaced.
LEMMA FilledType ==
    ASSUME NEW c \in Context, NEW m \in Messages
    PROVE  /\ Opened(c, m) \in Eval
           /\ Filled(c, m) \in Eval
           /\ Filled(c, m).stage = CASE Opened(c, m).stage = "asking_building" -> "complete"
                 [] Opened(c, m).stage = "asking_location" /\ c.district # None -> "asking_legal"
                 [] OTHER -> Opened(c, m).stage
           /\ \A f \in Facts : Filled(c, m).has[f] \in {m.about, Opened(c, m).has[f]}
           /\ \A f \in Facts : Opened(c, m).has[f] # None => Filled(c, m).has[f] # None
<1>1. c.eval \in Eval
  BY DEF Context
<1>2. Opened(c, m) \in Eval
  BY <1>1, EvalTypes DEF Opened, Eval, Stage
<1> DEFINE ev == Opened(c, m)
           st == CASE ev.stage = "asking_building" -> "complete"
                   [] ev.stage = "asking_location" /\ c.district # None -> "asking_legal"
                   [] OTHER -> ev.stage
           hs == [f \in Facts |->
                      IF f \in m.tells /\ (ev.has[f] = None \/ Replaces(ev, f))
                      THEN m.about ELSE ev.has[f]]
<1>3. Filled(c, m) = [stage |-> st, has |-> hs]
  BY Zenon DEF Filled
<1>4. ev.stage \in Stage /\ ev.has \in [Facts -> Known]
  BY <1>2 DEF Eval
<1>5. st \in Stage
  BY <1>4 DEF Stage, Asking
<1>6. /\ hs \in [Facts -> Known]
      /\ \A f \in Facts : hs[f] \in {m.about, ev.has[f]} /\ (ev.has[f] # None => hs[f] # None)
  BY <1>4, MessageFields DEF Known
<1> HIDE DEF ev, st, hs
<1>7. Filled(c, m) \in Eval /\ Filled(c, m).stage = st /\ Filled(c, m).has = hs
  BY <1>3, <1>5, <1>6 DEF Eval
<1> QED
  BY <1>2, <1>6, <1>7 DEF ev, st

-----------------------------------------------------------------------------
(* What a step does to the requests.                                        *)

\* s moves on, with another snapshot at most.
Change(s, pc, snap) ==
    /\ send' \in [Reqs -> SendLocals]
    /\ \A t \in Reqs \ {s} : send'[t] = send[t]
    /\ send'[s].pc = pc /\ send'[s].snap = snap
    /\ send'[s].msg = send[s].msg /\ send'[s].pid = send[s].pid
    /\ send'[s].ctx = send[s].ctx /\ send'[s].reply = send[s].reply

\* What a turn has answered stays answered.
Keeps == \A t \in Reqs : send[t].reply # "none" =>
            /\ send'[t].reply = send[t].reply
            /\ send'[t].ctx = send[t].ctx /\ send'[t].msg = send[t].msg

LEMMA SendTypes ==
    ASSUME TypeOK, NEW s \in Reqs
    PROVE  /\ send[s] \in SendLocals
           /\ send[s].pc \in SendPC /\ send[s].msg \in Messages \cup {NoMsg}
           /\ send[s].snap \in Row /\ send[s].pid \in Known
           /\ send[s].ctx \in Context /\ send[s].reply \in Reply
           /\ send[s].ctx.eval \in Eval /\ send[s].snap.ctx \in Context
           /\ send[s].snap.ctx.eval \in Eval
<1>1. send[s] \in SendLocals
  BY DEF TypeOK
<1>2. /\ send[s].pc \in SendPC /\ send[s].msg \in Messages \cup {NoMsg}
      /\ send[s].snap \in Row /\ send[s].pid \in Known
      /\ send[s].ctx \in Context /\ send[s].reply \in Reply
  BY <1>1 DEF SendLocals
<1> QED
  BY <1>1, <1>2 DEF Row, Context

LEMMA MoveChange ==
    ASSUME TypeOK, NEW s \in Reqs, NEW pc \in SendPC, NEW snap \in Row,
           \/ send' = [send EXCEPT ![s] = [send[s] EXCEPT !.pc = pc, !.snap = snap]]
           \/ send' = [send EXCEPT ![s].pc = pc] /\ snap = send[s].snap
    PROVE  Change(s, pc, snap)
<1>1. send[s] \in SendLocals
  BY DEF TypeOK
<1>2. CASE send' = [send EXCEPT ![s] = [send[s] EXCEPT !.pc = pc, !.snap = snap]]
  <2> DEFINE new == [send[s] EXCEPT !.pc = pc, !.snap = snap]
  <2>1. /\ new \in SendLocals /\ new.pc = pc /\ new.snap = snap
        /\ new.msg = send[s].msg /\ new.pid = send[s].pid
        /\ new.ctx = send[s].ctx /\ new.reply = send[s].reply
    BY <1>1 DEF SendLocals
  <2> HIDE DEF new
  <2>2. send' = [send EXCEPT ![s] = new]
    BY <1>2 DEF new
  <2> QED
    BY <2>1, <2>2 DEF TypeOK, Change
<1>3. CASE send' = [send EXCEPT ![s].pc = pc] /\ snap = send[s].snap
  <2> DEFINE new == [send[s] EXCEPT !.pc = pc]
  <2>1. /\ new \in SendLocals /\ new.pc = pc /\ new.snap = snap
        /\ new.msg = send[s].msg /\ new.pid = send[s].pid
        /\ new.ctx = send[s].ctx /\ new.reply = send[s].reply
    BY <1>1, <1>3 DEF SendLocals
  <2> HIDE DEF new
  <2>2. send' = [send EXCEPT ![s] = new]
    BY <1>3 DEF new
  <2> QED
    BY <2>1, <2>2 DEF TypeOK, Change
<1> QED
  BY <1>2, <1>3

LEMMA ChangeKeeps ==
    ASSUME NEW s \in Reqs, NEW pc, NEW snap, Change(s, pc, snap)
    PROVE  Keeps
BY DEF Change, Keeps

\* The answer of a turn changes its evaluation and reply only.
LEMMA AnswerDoes ==
    ASSUME TypeOK, NEW s \in Reqs, NEW ev \in Eval, NEW said \in Reply, Answer(s, ev, said)
    PROVE  /\ send' \in [Reqs -> SendLocals]
           /\ \A t \in Reqs \ {s} : send'[t] = send[t]
           /\ send'[s].pc = "answered" /\ send'[s].reply = said
           /\ send'[s].msg = send[s].msg /\ send'[s].snap = send[s].snap
           /\ send'[s].pid = send[s].pid
           /\ send'[s].ctx.eval = ev
           /\ send'[s].ctx.district = send[s].ctx.district
           /\ send'[s].ctx.area = send[s].ctx.area
<1> DEFINE ctx == [send[s].ctx EXCEPT !.eval = ev]
           new == [send[s] EXCEPT !.pc = "answered", !.ctx = ctx, !.reply = said]
<1>1. send[s] \in SendLocals /\ send[s].ctx \in Context
  BY SendTypes
<1>2. /\ ctx \in Context /\ ctx.eval = ev /\ ctx.district = send[s].ctx.district
      /\ ctx.area = send[s].ctx.area
  BY <1>1 DEF Context
<1>3. send' = [send EXCEPT ![s] = new]
  BY DEF Answer
<1> HIDE DEF ctx
<1>4. /\ new \in SendLocals /\ new.pc = "answered" /\ new.ctx = ctx /\ new.reply = said
      /\ new.msg = send[s].msg /\ new.snap = send[s].snap /\ new.pid = send[s].pid
  BY <1>1, <1>2 DEF SendLocals, SendPC
<1> HIDE DEF new
<1> QED
  BY <1>2, <1>3, <1>4 DEF TypeOK

\* A turn starts from the row as it is.
LEMMA StartDoes ==
    ASSUME TypeOK, TurnInv, NEW s \in Reqs, NEW m \in Messages, NEW asked \in BOOLEAN,
           Start(s, m, asked)
    PROVE  /\ send' \in [Reqs -> SendLocals]
           /\ \A t \in Reqs \ {s} : send'[t] = send[t]
           /\ send'[s].reply = "none" /\ send'[s].snap \in {meta, send[s].snap}
           /\ \/ /\ meta = NoRow /\ last' = last /\ send'[s].pc = "refused"
                 /\ send'[s].snap = send[s].snap /\ send'[s].ctx = send[s].ctx
              \/ /\ meta # NoRow /\ last' = s /\ send'[s].pc = "merged"
                 /\ send'[s].snap = meta /\ send'[s].msg = m
                 /\ send'[s].ctx.eval = meta.ctx.eval
<1> USE DEF Start
<1>1. send[s] \in SendLocals /\ send[s].reply = "none"
  BY SendTypes DEF TurnInv
<1>2. CASE meta = NoRow
  <2>1. Change(s, "refused", send[s].snap)
    BY <1>2, SendTypes, MoveChange DEF SendPC
  <2> QED
    BY <1>1, <1>2, <2>1, Zenon DEF Change
<1>3. CASE meta # NoRow
  <2> DEFINE pid == First(m.pid, meta.pid)
             ctx == Merge(meta.ctx, m, pid, asked)
             new == [send[s] EXCEPT !.pc = "merged", !.msg = m, !.snap = meta, !.pid = pid,
                                    !.ctx = ctx]
  <2>1. meta \in Row /\ meta.pid \in Known /\ meta.ctx \in Context
    BY <1>3 DEF TypeOK, Row
  <2>2. pid \in Known
    BY <2>1, MessageFields DEF First
  <2>3. send' = [send EXCEPT ![s] = new] /\ last' = s
    BY <1>3
  <2> HIDE DEF pid
  <2>4. ctx \in Context /\ ctx.eval = meta.ctx.eval
    BY <2>1, <2>2, MergeType
  <2> HIDE DEF ctx
  <2>5. /\ new \in SendLocals /\ new.pc = "merged" /\ new.msg = m /\ new.snap = meta
        /\ new.ctx = ctx /\ new.reply = send[s].reply
    BY <1>1, <2>1, <2>2, <2>4 DEF SendLocals, SendPC
  <2> HIDE DEF new
  <2> QED
    BY <1>1, <1>3, <2>3, <2>4, <2>5 DEF TypeOK
<1> QED
  BY <1>2, <1>3

LEMMA SyncStartDoes ==
    ASSUME TypeOK, NEW s \in Reqs, SyncStart(s)
    PROVE  \/ meta = NoRow /\ Change(s, "refused", send[s].snap)
           \/ meta # NoRow /\ Change(s, "sync", meta)
<1>1. CASE meta = NoRow
  <2>1. send' = [send EXCEPT ![s].pc = "refused"]
    BY <1>1 DEF SyncStart
  <2> QED
    BY <1>1, <2>1, SendTypes, MoveChange DEF SendPC
<1>2. CASE meta # NoRow
  <2>1. send' = [send EXCEPT ![s] = [send[s] EXCEPT !.pc = "sync", !.snap = meta]]
    BY <1>2 DEF SyncStart
  <2>2. meta \in Row
    BY <1>2, Zenon DEF TypeOK
  <2> QED
    BY <1>2, <2>1, <2>2, MoveChange DEF SendPC
<1> QED
  BY <1>1, <1>2

\* The other steps change the point a request is at, and its snapshot.
LEMMA StepChanges ==
    ASSUME TypeOK, NEW s \in Reqs
    PROVE  /\ PersistBefore(s) => Change(s, "open", send[s].snap)
           /\ PersistAfter(s) => Change(s, "saved", send[s].snap)
           /\ SaveReply(s) => Change(s, "told", Empty) \/ Change(s, "done", Empty)
           /\ TaskRead(s) => Change(s, "task", meta) /\ meta \in Row
           /\ TaskWrite(s) => Change(s, "done", Empty)
           /\ Lost(s) => Change(s, "lost", Empty)
           /\ \A p \in Known : SyncWrite(s, p) => Change(s, "done", Empty)
<1> USE SendTypes, EvalTypes, MoveChange DEF SendPC
<1>1. PersistBefore(s) => Change(s, "open", send[s].snap)
  BY DEF PersistBefore
<1>2. PersistAfter(s) => Change(s, "saved", send[s].snap)
  BY DEF PersistAfter
<1>3. SaveReply(s) => Change(s, "told", Empty) \/ Change(s, "done", Empty)
  <2>1. CASE send[s].reply \in {"estimate", "other_price"}
    BY <2>1 DEF SaveReply
  <2>2. CASE send[s].reply \notin {"estimate", "other_price"}
    BY <2>2 DEF SaveReply
  <2> QED
    BY <2>1, <2>2
<1>4. TaskRead(s) => meta \in Row
  BY DEF TaskRead, TypeOK
<1>5. TaskRead(s) => Change(s, "task", meta)
  BY <1>4 DEF TaskRead
<1>6. TaskWrite(s) => Change(s, "done", Empty)
  BY DEF TaskWrite
<1>7. Lost(s) => Change(s, "lost", Empty)
  BY DEF Lost
<1>8. \A p \in Known : SyncWrite(s, p) => Change(s, "done", Empty)
  BY DEF SyncWrite
<1> QED
  BY <1>1, <1>2, <1>3, <1>4, <1>5, <1>6, <1>7, <1>8

-----------------------------------------------------------------------------
(* Each part of the invariant across the steps that only move a request.    *)

LEMMA ChangeTurn ==
    ASSUME TypeOK, TurnInv, NEW s \in Reqs,
           NEW pc \in {"open", "saved", "told", "task", "sync", "done", "refused", "lost"},
           NEW snap, Change(s, pc, snap),
           pc = "open" => send[s].pc = "merged" /\ snap = send[s].snap,
           pc \in {"sync", "refused"} => send[s].pc = "idle",
           stale' \subseteq stale \cup Holders, last' = last
    PROVE  TurnInv'
<1>1. ASSUME last # None
      PROVE  send'[last].msg \in Messages /\ send'[last].pc # "idle"
  <2>1. last \in Reqs
    BY <1>1 DEF TypeOK
  <2> QED
    BY <1>1, <2>1 DEF TurnInv, Change
<1>2. ASSUME NEW t \in Reqs, send'[t].pc = "idle" PROVE t \notin stale'
  BY <1>2 DEF TurnInv, Change, Holders, Turning
<1>3. ASSUME NEW t \in Reqs \ {s}
      PROVE  /\ send'[t].pc \in {"idle", "merged", "open", "sync", "refused"} => send'[t].reply = "none"
             /\ Turning(t)' => last # None
             /\ Turning(t)' \/ send'[t].reply # "none" => send'[t].msg \in Messages
             /\ send'[t].pc \in {"merged", "open"} => send'[t].ctx.eval = send'[t].snap.ctx.eval
             /\ Turning(t)' /\ send'[t].ctx.eval.stage = "none" => send'[t].snap.ctx.eval.stage = "none"
             /\ send'[t].pc = "answered" => send'[t].reply # "none"
             /\ send'[t].reply \in {"estimate", "again"} => send'[t].ctx.eval.stage = "complete"
             /\ send'[t].pc = "answered" /\ ~Renews(t)' =>
                   \A f \in Facts : send'[t].snap.ctx.eval.has[f] # None
                                       => send'[t].ctx.eval.has[f] # None
  <2>1. send'[t] = send[t]
    BY DEF Change
  <2> QED
    BY <2>1 DEF TurnInv, Turning, Renews
<1>4. /\ send'[s].pc \in {"idle", "merged", "open", "sync", "refused"} => send'[s].reply = "none"
      /\ Turning(s)' => last # None
      /\ Turning(s)' \/ send'[s].reply # "none" => send'[s].msg \in Messages
      /\ send'[s].pc \in {"merged", "open"} => send'[s].ctx.eval = send'[s].snap.ctx.eval
      /\ Turning(s)' /\ send'[s].ctx.eval.stage = "none" => send'[s].snap.ctx.eval.stage = "none"
      /\ send'[s].pc # "answered"
      /\ send'[s].reply \in {"estimate", "again"} => send'[s].ctx.eval.stage = "complete"
  BY DEF TurnInv, Turning, Change
<1> QED
  BY <1>1, <1>2, <1>3, <1>4 DEF TurnInv

LEMMA OriginNone == Origin(NoEval) /\ Origin(Empty.ctx.eval)
BY DEF Origin, NoEval, Empty

LEMMA ChangeOrigin ==
    ASSUME OriginInv, NEW s \in Reqs, NEW pc, NEW snap, Change(s, pc, snap),
           snap \in {Empty, send[s].snap} \/ (snap = meta /\ meta # NoRow),
           meta' # NoRow => meta'.ctx.eval \in {send[s].snap.ctx.eval, send[s].ctx.eval}
                            \/ meta' = meta
    PROVE  OriginInv'
<1>1. Keeps
  BY ChangeKeeps
<1>2. Origin(snap.ctx.eval)
  BY OriginNone DEF OriginInv
<1>3. meta' # NoRow => Origin(meta'.ctx.eval)
  BY DEF OriginInv
<1>4. \A t \in Reqs : Origin(send'[t].snap.ctx.eval) /\ Origin(send'[t].ctx.eval)
  BY <1>2 DEF OriginInv, Change
<1> QED
  BY <1>1, <1>3, <1>4, Z3 DEF OriginInv, Keeps, Origin, AskedBuilding

\* What was priced stays what it was.
LEMMA KeepsPrices ==
    ASSUME Keeps, lossy => lossy', abrupt => abrupt',
           AnswersOfThisProperty, BuildingAskedFirst,
           \A t \in Reqs : send[t].reply = "none" => send'[t].reply # "estimate"
    PROVE  AnswersOfThisProperty' /\ BuildingAskedFirst'
<1>1. AnswersOfThisProperty'
  BY DEF Keeps, AnswersOfThisProperty
<1>2. BuildingAskedFirst'
  BY DEF Keeps, BuildingAskedFirst
<1> QED
  BY <1>1, <1>2

\* A write outdates every other snapshot, and is itself what the row then holds.
LEMMA WriteHolds ==
    ASSUME HoldInv, NEW s \in Reqs, NEW written, Write(s, written),
           NEW pc \in {"open", "saved", "done"}, NEW snap, Change(s, pc, snap),
           pc = "open" => written = Half(s) /\ snap = send[s].snap
    PROVE  HoldInv'
<1>1. \A t \in Reqs \ {s} : send'[t] = send[t] /\ (t \in Holders => t \in stale')
  BY DEF Write, Change
<1>2. pc = "open" => meta' = Half(s)'
  BY DEF Write, Half, Change
<1> QED
  BY <1>1, <1>2 DEF HoldInv, Holders, Turning, Change

\* A write that leaves the evaluation of the row as it is.
LEMMA WriteSubject ==
    ASSUME TypeOK, TurnInv, SubjectInv, NEW s \in Reqs, NEW written, Write(s, written),
           last' = last, abrupt' = abrupt,
           NEW pc \in {"open", "done"}, NEW snap, Change(s, pc, snap),
           pc = "open" => send[s].pc = "merged",
           s \notin stale => written.ctx.eval = meta.ctx.eval
    PROVE  SubjectInv'
<1> SUFFICES ASSUME ~lossy', ~abrupt' PROVE SubjectInv'
  BY DEF SubjectInv
<1>1. ~lossy /\ ~abrupt /\ s \notin stale /\ meta # NoRow /\ meta'.ctx.eval = meta.ctx.eval
  BY DEF Write
<1>2. Keeps
  BY ChangeKeeps
<1>3. last # None => last \in Reqs /\ send'[last].msg = send[last].msg
  BY DEF TypeOK, Change
<1>4. meta' # NoRow =>
        /\ last = None => ~Active(meta'.ctx.eval)
        /\ last # None => Fits(meta'.ctx.eval, send'[last].msg.about)
  BY <1>1, <1>3 DEF SubjectInv
<1>5. ASSUME NEW t \in Reqs, Turning(t)'
      PROVE  /\ Fits(send'[t].ctx.eval, send'[t].msg.about)
             /\ t \notin stale' => send'[t].msg.about = send'[last].msg.about
  <2>1. Turning(t) /\ send'[t].ctx = send[t].ctx /\ send'[t].msg = send[t].msg
    BY <1>5 DEF Turning, Change
  <2>2. last # None
    BY <2>1 DEF TurnInv
  <2> QED
    BY <1>1, <1>3, <2>1, <2>2 DEF SubjectInv, Write
<1> QED
  BY <1>2, <1>3, <1>4, <1>5 DEF SubjectInv, Keeps, Fits, AskedBuilding

\* A step that does not touch the row, or deletes it.
LEMMA QuietSubject ==
    ASSUME TypeOK, TurnInv, SubjectInv, NEW s \in Reqs,
           last' = last, abrupt' = abrupt, lossy' = lossy, meta' \in {meta, NoRow},
           NEW pc \in {"told", "task", "sync", "done", "refused", "lost"},
           NEW snap, Change(s, pc, snap),
           \A t \in Reqs \ {s} : t \in stale => t \in stale'
    PROVE  SubjectInv'
<1> SUFFICES ASSUME ~lossy, ~abrupt PROVE SubjectInv'
  BY DEF SubjectInv
<1>1. Keeps
  BY ChangeKeeps
<1>2. last # None => last \in Reqs /\ send'[last].msg = send[last].msg
  BY DEF TypeOK, Change
<1>3. meta' # NoRow =>
        /\ last = None => ~Active(meta'.ctx.eval)
        /\ last # None => Fits(meta'.ctx.eval, send'[last].msg.about)
  BY <1>2 DEF SubjectInv
<1>4. ASSUME NEW t \in Reqs, Turning(t)'
      PROVE  /\ Fits(send'[t].ctx.eval, send'[t].msg.about)
             /\ t \notin stale' => send'[t].msg.about = send'[last].msg.about
  <2>1. /\ Turning(t) /\ send'[t].ctx = send[t].ctx /\ send'[t].msg = send[t].msg /\ t # s
    BY <1>4 DEF Turning, Change
  <2>2. last # None
    BY <2>1 DEF TurnInv
  <2> QED
    BY <1>2, <2>1, <2>2 DEF SubjectInv
<1> QED
  BY <1>1, <1>2, <1>3, <1>4 DEF SubjectInv, Keeps, Fits, AskedBuilding

LEMMA QuietHolds ==
    ASSUME HoldInv, NEW s \in Reqs, meta' \in {meta, NoRow},
           NEW pc \in {"told", "task", "sync", "done", "refused", "lost"},
           NEW snap, Change(s, pc, snap),
           pc \in {"task", "sync"} => snap = meta,
           \A t \in Reqs \ {s} : t \in stale => t \in stale'
    PROVE  HoldInv'
<1>1. \A t \in Reqs \ {s} : send'[t] = send[t]
  BY DEF Change
<1> QED
  BY <1>1 DEF HoldInv, Half, Change

LEMMA QuietStep ==
    ASSUME IInv, NEW s \in Reqs, last' = last, abrupt' = abrupt, lossy' = lossy, meta' = meta,
           NEW pc \in {"told", "task", "sync", "done", "refused", "lost"},
           NEW snap, Change(s, pc, snap),
           pc \in {"sync", "refused"} => send[s].pc = "idle",
           pc \in {"task", "sync"} => snap = meta,
           snap \in {Empty, send[s].snap} \/ (snap = meta /\ meta # NoRow),
           stale' \subseteq stale, \A t \in Reqs \ {s} : t \in stale => t \in stale'
    PROVE  IInv'
<1>1. TypeOK'
  BY DEF IInv, TypeOK, Change
<1>2. TurnInv'
  BY ChangeTurn DEF IInv
<1>3. OriginInv'
  BY ChangeOrigin DEF IInv
<1>4. HoldInv' /\ SubjectInv'
  BY QuietHolds, QuietSubject DEF IInv
<1>5. AnswersOfThisProperty' /\ BuildingAskedFirst'
  BY ChangeKeeps, KeepsPrices DEF IInv, Change
<1> QED
  BY <1>1, <1>2, <1>3, <1>4, <1>5 DEF IInv

LEMMA QuietSteps ==
    ASSUME IInv, NEW s \in Reqs, SaveReply(s) \/ TaskRead(s) \/ Lost(s) \/ SyncStart(s)
    PROVE  IInv'
<1> USE DEF IInv
<1>1. CASE SaveReply(s)
  <2>1. PICK pc \in {"told", "done"} : Change(s, pc, Empty)
    BY <1>1, StepChanges
  <2> QED
    BY <1>1, <2>1, QuietStep DEF SaveReply, history
<1>2. CASE TaskRead(s)
  <2>1. Change(s, "task", meta)
    BY <1>2, StepChanges
  <2> QED
    BY <1>2, <2>1, QuietStep DEF TaskRead, history
<1>3. CASE Lost(s)
  <2>1. Change(s, "lost", Empty)
    BY <1>3, StepChanges
  <2> QED
    BY <1>3, <2>1, QuietStep DEF Lost, history
<1>4. CASE SyncStart(s)
  <2>1. CASE meta = NoRow /\ Change(s, "refused", send[s].snap)
    BY <1>4, <2>1, QuietStep DEF SyncStart, history
  <2>2. CASE meta # NoRow /\ Change(s, "sync", meta)
    BY <1>4, <2>2, QuietStep DEF SyncStart, history
  <2> QED
    BY <1>4, <2>1, <2>2, SyncStartDoes
<1> QED
  BY <1>1, <1>2, <1>3, <1>4

LEMMA DeleteStep == IInv /\ DeleteSession => IInv'
<1> SUFFICES ASSUME IInv, DeleteSession PROVE IInv'
  OBVIOUS
<1> USE DEF IInv, DeleteSession, history
<1>1. TypeOK' /\ OriginInv' /\ HoldInv'
  BY DEF TypeOK, OriginInv, HoldInv, Origin, AskedBuilding
<1>2. TurnInv'
  BY DEF TurnInv, Turning, Renews
<1>3. SubjectInv'
  BY DEF SubjectInv, Turning, Fits, AskedBuilding
<1>4. AnswersOfThisProperty' /\ BuildingAskedFirst'
  BY DEF AnswersOfThisProperty, BuildingAskedFirst
<1> QED
  BY <1>1, <1>2, <1>3, <1>4

-----------------------------------------------------------------------------
(* The writes.                                                              *)

LEMMA WriteType ==
    ASSUME TypeOK, NEW s \in Reqs, NEW written \in Row, Write(s, written),
           last' = last, abrupt' = abrupt, NEW pc, NEW snap, Change(s, pc, snap)
    PROVE  TypeOK' /\ stale' \subseteq stale \cup Holders /\ (lossy => lossy')
BY DEF Write, TypeOK, Change, Holders, Turning

LEMMA PersistBeforeStep ==
    ASSUME IInv, NEW s \in Reqs, PersistBefore(s)
    PROVE  IInv'
<1> DEFINE written == Persisted(send[s].snap, send[s].pid, send[s].ctx)
<1> USE DEF IInv
<1>1. Change(s, "open", send[s].snap)
  BY StepChanges
<1>2. /\ send[s].pc = "merged" /\ Write(s, written) /\ last' = last /\ abrupt' = abrupt
      /\ send[s].ctx.eval = send[s].snap.ctx.eval
  BY DEF PersistBefore, TurnInv
<1>3. written \in Row /\ written.ctx.eval = send[s].snap.ctx.eval
  BY <1>2, SendTypes, PersistedType
<1>4. written = Half(s)
  <2>1. [send[s].ctx EXCEPT !.eval = send[s].snap.ctx.eval] = send[s].ctx
    BY <1>2, SendTypes DEF Context
  <2> QED
    BY <2>1 DEF Half
<1>5. s \notin stale => written.ctx.eval = meta.ctx.eval
  BY <1>2, <1>3 DEF HoldInv, Write
<1> HIDE DEF written
<1>6. /\ TypeOK' /\ stale' \subseteq stale \cup Holders /\ (lossy => lossy')
  BY <1>1, <1>2, <1>3, WriteType
<1>7. TurnInv'
  BY <1>1, <1>2, <1>6, ChangeTurn
<1>8. OriginInv'
  BY <1>1, <1>2, <1>3, ChangeOrigin DEF Write
<1>9. HoldInv' /\ SubjectInv'
  BY <1>1, <1>2, <1>4, <1>5, WriteHolds, WriteSubject
<1>10. AnswersOfThisProperty' /\ BuildingAskedFirst'
  BY <1>1, <1>2, <1>6, ChangeKeeps, KeepsPrices DEF Change
<1> QED
  BY <1>6, <1>7, <1>8, <1>9, <1>10

\* The writes of the outcome of a price and of the session's property.
LEMMA LateWriteStep ==
    ASSUME IInv, NEW s \in Reqs, TaskWrite(s) \/ \E p \in Known : SyncWrite(s, p)
    PROVE  IInv'
<1> USE DEF IInv
<1>1. Change(s, "done", Empty)
  BY StepChanges
<1>2. send[s].pc \in {"task", "sync"} /\ last' = last /\ abrupt' = abrupt
  BY DEF TaskWrite, SyncWrite
<1>3. PICK written \in Row : Write(s, written) /\ written.ctx = send[s].snap.ctx
  <2>1. send[s].snap \in Row
    BY SendTypes
  <2>2. CASE TaskWrite(s)
    BY <2>1, <2>2, RowSet DEF TaskWrite, Known
  <2>3. CASE \E p \in Known : SyncWrite(s, p)
    BY <2>1, <2>3, RowSet DEF SyncWrite
  <2> QED
    BY <2>2, <2>3
<1>4. s \notin stale => written.ctx.eval = meta.ctx.eval
  BY <1>2, <1>3 DEF HoldInv, Write
<1>5. /\ TypeOK' /\ stale' \subseteq stale \cup Holders /\ (lossy => lossy')
  BY <1>1, <1>2, <1>3, WriteType
<1>6. TurnInv'
  BY <1>1, <1>2, <1>5, ChangeTurn
<1>7. OriginInv'
  BY <1>1, <1>3, ChangeOrigin DEF Write
<1>8. HoldInv' /\ SubjectInv'
  BY <1>1, <1>2, <1>3, <1>4, WriteHolds, WriteSubject
<1>9. AnswersOfThisProperty' /\ BuildingAskedFirst'
  BY <1>1, <1>2, <1>5, ChangeKeeps, KeepsPrices DEF Change
<1> QED
  BY <1>5, <1>6, <1>7, <1>8, <1>9

\* The second write of a turn, which carries its answer.
LEMMA PersistAfterStep ==
    ASSUME IInv, NEW s \in Reqs, PersistAfter(s)
    PROVE  IInv'
<1> DEFINE written == Persisted(send[s].snap, send[s].pid, send[s].ctx)
<1> USE DEF IInv
<1>1. Change(s, "saved", send[s].snap)
  BY StepChanges
<1>2. /\ send[s].pc = "answered" /\ Write(s, written) /\ Turning(s)
      /\ last' = last /\ abrupt' = abrupt
  BY DEF PersistAfter, Turning
<1>3. written \in Row /\ written.ctx.eval = IF send[s].ctx.eval.stage # "none" THEN send[s].ctx.eval
                                    ELSE send[s].snap.ctx.eval
  BY <1>2, SendTypes, PersistedType
<1> HIDE DEF written
<1>4. /\ TypeOK' /\ stale' \subseteq stale \cup Holders /\ (lossy => lossy')
  BY <1>1, <1>2, <1>3, WriteType
<1>5. TurnInv'
  BY <1>1, <1>2, <1>4, ChangeTurn
<1>6. OriginInv'
  BY <1>1, <1>2, <1>3, ChangeOrigin DEF Write
<1>7. HoldInv'
  BY <1>1, <1>2, WriteHolds
<1>8. SubjectInv'
  <2> SUFFICES ASSUME ~lossy', ~abrupt' PROVE SubjectInv'
    BY DEF SubjectInv
  <2>1. ~lossy /\ ~abrupt /\ s \notin stale /\ meta' = written
    BY <1>2 DEF Write
  <2>2. Keeps
    BY <1>1, ChangeKeeps
  <2>3. last \in Reqs /\ last # None /\ send'[last].msg = send[last].msg
    BY <1>1, <1>2 DEF TypeOK, TurnInv, Change
  <2>4. send[s].msg.about = send[last].msg.about /\ Fits(send[s].ctx.eval, send[s].msg.about)
    BY <1>2, <2>1 DEF SubjectInv
  <2>5. send[s].ctx.eval.stage = "none" => ~Active(send[s].snap.ctx.eval)
    BY <1>2, Zenon DEF TurnInv, Active
  <2>6. Fits(written.ctx.eval, send[last].msg.about)
    BY <1>3, <2>4, <2>5 DEF Fits
  <2>7. ASSUME NEW t \in Reqs, Turning(t)'
        PROVE  /\ Fits(send'[t].ctx.eval, send'[t].msg.about)
               /\ t \notin stale' => send'[t].msg.about = send'[last].msg.about
    <3>1. Turning(t) /\ send'[t].ctx = send[t].ctx /\ send'[t].msg = send[t].msg
      BY <1>1, <2>7 DEF Turning, Change
    <3> QED
      BY <1>2, <2>1, <2>3, <3>1 DEF SubjectInv, Write
  <2> QED
    BY <1>2, <2>1, <2>2, <2>3, <2>6, <2>7 DEF SubjectInv, Keeps, Fits, AskedBuilding
<1>9. AnswersOfThisProperty' /\ BuildingAskedFirst'
  BY <1>1, <1>2, <1>4, ChangeKeeps, KeepsPrices DEF Change
<1> QED
  BY <1>4, <1>5, <1>6, <1>7, <1>8, <1>9

-----------------------------------------------------------------------------
(* The start of a turn, and its answer.                                     *)

LEMMA StartStep ==
    ASSUME IInv, NEW s \in Reqs, NEW m \in Messages, NEW asked \in BOOLEAN,
           Start(s, m, asked)
    PROVE  IInv'
<1> USE DEF IInv
<1>1. /\ send[s].pc = "idle" /\ send[s].reply = "none" /\ s \notin stale
      /\ meta' = meta /\ stale' = stale /\ lossy' = lossy
  BY DEF Start, TurnInv
<1>2. CASE meta = NoRow
  <2>1. Change(s, "refused", send[s].snap) /\ last' = last /\ abrupt' = abrupt
    <3>1. send' = [send EXCEPT ![s].pc = "refused"] /\ last' = last /\ abrupt' = abrupt
      BY <1>2 DEF Start
    <3> QED
      BY <3>1, SendTypes, MoveChange DEF SendPC
  <2> QED
    BY <1>1, <2>1, QuietStep
<1>3. CASE meta # NoRow
  <2>1. /\ send' \in [Reqs -> SendLocals]
        /\ \A t \in Reqs \ {s} : send'[t] = send[t]
        /\ send'[s].reply = "none" /\ last' = s /\ send'[s].pc = "merged"
        /\ send'[s].snap = meta /\ send'[s].msg = m /\ send'[s].ctx.eval = meta.ctx.eval
        /\ abrupt' = (abrupt \/ Interrupts(m))
    BY <1>3, StartDoes DEF Start
  <2>2. Keeps
    BY <1>1, <2>1 DEF Keeps
  <2>3. s # None /\ m.about # None
    BY ChatAssumption, MessageFields
  <2>4. TypeOK'
    BY <1>1, <2>1 DEF TypeOK, Interrupts
  <2>5. TurnInv'
    BY <1>1, <2>1, <2>3 DEF TurnInv, Turning, Renews
  <2>6. OriginInv'
    BY <1>1, <1>3, <2>1, <2>2 DEF OriginInv, Keeps, Origin, AskedBuilding
  <2>7. HoldInv'
    BY <1>1, <2>1 DEF HoldInv, Half
  <2>8. SubjectInv'
    <3> SUFFICES ASSUME ~lossy, ~abrupt, ~Interrupts(m) PROVE SubjectInv'
      BY <1>1, <2>1 DEF SubjectInv
    <3>1. Fits(meta.ctx.eval, m.about)
      BY <1>3 DEF SubjectInv, Interrupts, Fits
    <3>2. ASSUME NEW t \in Reqs \ {s}, Turning(t), t \notin stale
          PROVE  send[t].msg.about = m.about
      BY <3>2 DEF SubjectInv, TurnInv, Interrupts
    <3>3. ASSUME NEW t \in Reqs, Turning(t)'
          PROVE  /\ Fits(send'[t].ctx.eval, send'[t].msg.about)
                 /\ t \notin stale' => send'[t].msg.about = send'[s].msg.about
      BY <1>1, <2>1, <3>1, <3>2, <3>3 DEF SubjectInv, Turning
    <3> QED
      BY <1>1, <2>1, <2>2, <2>3, <3>1, <3>3 DEF SubjectInv, Keeps, Fits, AskedBuilding
  <2>9. AnswersOfThisProperty' /\ BuildingAskedFirst'
    BY <1>1, <2>1, <2>2, KeepsPrices
  <2> QED
    BY <2>4, <2>5, <2>6, <2>7, <2>8, <2>9
<1> QED
  BY <1>2, <1>3

\* The evaluation would open the complete one s has read anew.
Reopens(s) == send[s].snap.ctx.eval.stage = "complete" /\ send[s].msg.fresh

\* What an answer must be for the invariant to go on.
Sound(s, ev, said) ==
    /\ ev \in Eval /\ said \in Reply \ {"none"}
    /\ ev.stage = "none" => ev = send[s].ctx.eval
    /\ said \in {"estimate", "again"} => ev.stage = "complete"
    /\ ev.stage = "complete" => said \in {"estimate", "no_price"} \/ ev = send[s].ctx.eval
    /\ ev.stage = "asking_building" => said = "ask" \/ ev = send[s].ctx.eval
    /\ \/ said \in {"ask", "estimate", "no_price"} /\ Reopens(s)
       \/ \A f \in Facts : send[s].snap.ctx.eval.has[f] # None => ev.has[f] # None
    /\ Fits(send[s].ctx.eval, send[s].msg.about) /\ Active(ev) =>
          \A f \in Facts : ev.has[f] \in {send[s].msg.about, None}
    /\ said = "estimate" =>
          /\ Fits(send[s].ctx.eval, send[s].msg.about) =>
                /\ \A f \in {"ownership", "legal"} : ev.has[f] = send[s].msg.about
                /\ ev.has["building"] \in {send[s].msg.about, None}
          /\ ev.has["building"] = None => send[s].ctx.eval.stage = "asking_building"

LEMMA AnswerStep ==
    ASSUME IInv, NEW s \in Reqs, send[s].pc = "open", NEW ev, NEW said, Sound(s, ev, said),
           Answer(s, ev, said), UNCHANGED <<meta, history>>
    PROVE  IInv'
<1> USE DEF IInv, history
<1>1. /\ send' \in [Reqs -> SendLocals]
      /\ \A t \in Reqs \ {s} : send'[t] = send[t]
      /\ send'[s].pc = "answered" /\ send'[s].reply = said
      /\ send'[s].msg = send[s].msg /\ send'[s].snap = send[s].snap
      /\ send'[s].pid = send[s].pid
      /\ send'[s].ctx.eval = ev
      /\ send'[s].ctx.district = send[s].ctx.district
      /\ send'[s].ctx.area = send[s].ctx.area
  BY AnswerDoes DEF Sound
<1>2. send[s].reply = "none" /\ send[s].ctx.eval = send[s].snap.ctx.eval /\ last # None
      /\ Turning(s) /\ send[s].msg \in Messages
  BY DEF TurnInv, Turning
<1>3. Keeps
  BY <1>1, <1>2 DEF Keeps
<1>4. TypeOK'
  BY <1>1 DEF TypeOK
<1>5. TurnInv'
  <2>1. last \in Reqs /\ send'[last].msg \in Messages /\ send'[last].pc # "idle"
    BY <1>1, <1>2 DEF TypeOK, TurnInv
  <2>2. Renews(s)' <=> said \in {"ask", "estimate", "no_price"} /\ Reopens(s)
    BY <1>1 DEF Renews, Reopens
  <2>3. \A t \in Reqs \ {s} : (Renews(t)' <=> Renews(t)) /\ (Turning(t)' <=> Turning(t))
    BY <1>1 DEF Renews, Turning
  <2>4. /\ send'[s].reply \in {"estimate", "again"} => send'[s].ctx.eval.stage = "complete"
        /\ send'[s].reply # "none"
        /\ send'[s].ctx.eval.stage = "none" => send'[s].snap.ctx.eval.stage = "none"
        /\ ~Renews(s)' => \A f \in Facts : send'[s].snap.ctx.eval.has[f] # None
                                             => send'[s].ctx.eval.has[f] # None
    BY <1>1, <1>2, <2>2 DEF Sound
  <2> QED
    BY <1>1, <1>2, <2>1, <2>3, <2>4 DEF TurnInv
<1>6. OriginInv'
  <2>1. Origin(ev)'
    BY <1>1, <1>3, SendTypes DEF Sound, OriginInv, Origin, AskedBuilding, Keeps
  <2> QED
    BY <1>1, <1>3, <2>1 DEF OriginInv, Origin, AskedBuilding, Keeps
<1>7. HoldInv'
  <2> DEFINE old == send[s].snap.ctx.eval
  <2>1. \A c \in Context : [c EXCEPT !.eval = old]
                              = [district |-> c.district, area |-> c.area, eval |-> old]
    BY DEF Context
  <2>2. send[s].ctx \in Context /\ send'[s].ctx \in Context
    BY <1>4, SendTypes DEF TypeOK, SendLocals
  <2> HIDE DEF old
  <2>3. [send'[s].ctx EXCEPT !.eval = old] = [send[s].ctx EXCEPT !.eval = old]
    <3> DEFINE c == send[s].ctx
               d == send'[s].ctx
    <3>1. c \in Context /\ d \in Context /\ d.district = c.district /\ d.area = c.area
      BY <1>1, <2>2
    <3> HIDE DEF c, d
    <3>2. [c EXCEPT !.eval = old] = [district |-> c.district, area |-> c.area, eval |-> old]
      BY <2>1, <3>1
    <3>3. [d EXCEPT !.eval = old] = [district |-> c.district, area |-> c.area, eval |-> old]
      BY <2>1, <3>1
    <3>4. [d EXCEPT !.eval = old] = [c EXCEPT !.eval = old]
      BY <3>2, <3>3
    <3> QED
      BY <3>4 DEF c, d
  <2>4. Half(s)' = Half(s)
    BY <1>1, <2>3 DEF Half, old
  <2> QED
    BY <1>1, <2>4 DEF HoldInv, Half
<1>8. SubjectInv'
  <2> SUFFICES ASSUME ~lossy, ~abrupt PROVE SubjectInv'
    BY DEF SubjectInv
  <2>1. Fits(send[s].ctx.eval, send[s].msg.about)
    BY <1>2 DEF SubjectInv
  <2>2. Fits(ev, send[s].msg.about)'
    BY <1>1, <1>2, <1>3, <2>1 DEF Sound, Fits, Keeps, AskedBuilding, Active
  <2> QED
    BY <1>1, <1>2, <1>3, <2>2 DEF SubjectInv, Turning, Keeps, Fits, AskedBuilding, TypeOK
<1>9. AnswersOfThisProperty'
  BY <1>1, <1>2, <1>3 DEF AnswersOfThisProperty, Sound, SubjectInv, Keeps
<1>10. BuildingAskedFirst'
  <2>1. ASSUME said = "estimate", ev.has["building"] = None
        PROVE  \E t \in Reqs \ {s} : /\ AskedBuilding(t)
                                     /\ ~lossy /\ ~abrupt => send[t].msg.about = send[s].msg.about
    <3>1. send[s].ctx.eval.stage = "asking_building"
      BY <2>1 DEF Sound
    <3>2. CASE lossy \/ abrupt
      BY <1>2, <3>1, <3>2 DEF OriginInv, Origin, AskedBuilding
    <3>3. CASE ~lossy /\ ~abrupt
      BY <1>2, <3>1, <3>3 DEF SubjectInv, Fits, Active, AskedBuilding
    <3> QED
      BY <3>2, <3>3
  <2>2. ASSUME NEW t \in Reqs \ {s}, send'[t].reply = "estimate",
               send'[t].ctx.eval.has["building"] = None
        PROVE  \E u \in Reqs \ {t} :
                  /\ send'[u].reply = "ask" /\ send'[u].ctx.eval.stage = "asking_building"
                  /\ ~lossy /\ ~abrupt => send'[u].msg.about = send'[t].msg.about
    BY <1>1, <1>3, <2>2 DEF BuildingAskedFirst, Keeps
  <2> QED
    BY <1>1, <1>3, <2>1, <2>2 DEF BuildingAskedFirst, Keeps, AskedBuilding
<1> QED
  BY <1>4, <1>5, <1>6, <1>7, <1>8, <1>9, <1>10

\* The questions put and those left out.
LEMMA NextAsked ==
    ASSUME NEW c, NEW m
    PROVE  /\ NextQuestion(c, m) \in Asking \cup {"none"}
           /\ NextQuestion(c, m) = "none" =>
                 /\ Filled(c, m).has.ownership # None /\ Filled(c, m).has.legal # None
                 /\ Filled(c, m).has.building = None => Opened(c, m).stage = "asking_building"
BY DEF NextQuestion, FirstOf, Unanswered, Asking

\* The evaluation a turn works on, and what it makes of the answers.
LEMMA FilledSound ==
    ASSUME IInv, NEW s \in Reqs, send[s].pc = "open",
           send[s].ctx.eval.stage = "complete" => send[s].msg.fresh
    PROVE  LET c == send[s].ctx  m == send[s].msg IN
           /\ c \in Context /\ m \in Messages
           /\ Opened(c, m).stage # "none" /\ Opened(c, m).stage # "complete"
           /\ Opened(c, m).stage = "asking_building" => c.eval.stage = "asking_building"
           /\ Fits(c.eval, m.about) => \A f \in Facts : Filled(c, m).has[f] \in {m.about, None}
           /\ Reopens(s) \/ \A f \in Facts : send[s].snap.ctx.eval.has[f] # None
                                                => Filled(c, m).has[f] # None
<1> DEFINE c == send[s].ctx
           m == send[s].msg
<1>1. c \in Context /\ m \in Messages /\ c.eval = send[s].snap.ctx.eval
  BY SendTypes DEF IInv, TurnInv, Turning
<1>2. \/ Opened(c, m) = c.eval /\ Active(c.eval)
      \/ Opened(c, m) = [stage |-> "initial", has |-> Blank]
  BY <1>1 DEF Opened, Active
<1>3. Fits(c.eval, m.about) => \A f \in Facts : Opened(c, m).has[f] \in {m.about, None}
  BY <1>2 DEF Fits, Blank
<1>4. Reopens(s) \/ \A f \in Facts : send[s].snap.ctx.eval.has[f] # None
                                        => Opened(c, m).has[f] # None
  BY <1>1 DEF Reopens, Opened, IInv, OriginInv, Origin, Blank
<1> HIDE DEF c, m
<1>5. Fits(c.eval, m.about) => \A f \in Facts : Filled(c, m).has[f] \in {m.about, None}
  BY <1>1, <1>3, FilledType
<1>6. Reopens(s) \/ \A f \in Facts : send[s].snap.ctx.eval.has[f] # None
                                        => Filled(c, m).has[f] # None
  BY <1>1, <1>4, FilledType
<1>7. /\ Opened(c, m).stage # "none" /\ Opened(c, m).stage # "complete"
      /\ Opened(c, m).stage = "asking_building" => c.eval.stage = "asking_building"
  BY <1>2 DEF Active
<1> QED
  BY <1>1, <1>5, <1>6, <1>7 DEF c, m

LEMMA FilledSet ==
    ASSUME NEW c \in Context, NEW m \in Messages, NEW stage \in Stage
    PROVE  /\ [Filled(c, m) EXCEPT !.stage = stage] \in Eval
           /\ [Filled(c, m) EXCEPT !.stage = stage].stage = stage
           /\ [Filled(c, m) EXCEPT !.stage = stage].has = Filled(c, m).has
BY FilledType DEF Eval

LEMMA AskStep ==
    ASSUME IInv, NEW s \in Reqs, Ask(s)
    PROVE  IInv'
<1> DEFINE c == send[s].ctx
           m == send[s].msg
           ev == [Filled(c, m) EXCEPT !.stage = NextQuestion(c, m)]
<1>1. /\ send[s].pc = "open"
      /\ c.eval.stage = "complete" => m.fresh
      /\ NextQuestion(c, m) \in Asking /\ Answer(s, ev, "ask")
      /\ UNCHANGED <<meta, history>>
  BY NextAsked DEF Ask, Evaluating
<1>2. /\ c \in Context /\ m \in Messages
      /\ Fits(c.eval, m.about) => \A f \in Facts : Filled(c, m).has[f] \in {m.about, None}
      /\ Reopens(s) \/ \A f \in Facts : send[s].snap.ctx.eval.has[f] # None
                                          => Filled(c, m).has[f] # None
  BY <1>1, FilledSound
<1>3. ev \in Eval /\ ev.stage = NextQuestion(c, m) /\ ev.has = Filled(c, m).has
  BY <1>1, <1>2, FilledSet DEF Stage
<1> HIDE DEF ev
<1>4. Sound(s, ev, "ask")
  BY <1>1, <1>2, <1>3 DEF Sound, Reply, Asking
<1> QED
  BY <1>1, <1>4, AnswerStep

LEMMA PriceStep ==
    ASSUME IInv, NEW s \in Reqs, Price(s)
    PROVE  IInv'
<1> DEFINE c == send[s].ctx
           m == send[s].msg
           ev == [Filled(c, m) EXCEPT !.stage = "complete"]
<1>1. /\ send[s].pc = "open"
      /\ c.eval.stage = "complete" => m.fresh
      /\ NextQuestion(c, m) = "none" /\ Answer(s, ev, "estimate")
      /\ UNCHANGED <<meta, history>>
  BY DEF Price, Evaluating
<1>2. /\ c \in Context /\ m \in Messages
      /\ Opened(c, m).stage = "asking_building" => c.eval.stage = "asking_building"
      /\ Fits(c.eval, m.about) => \A f \in Facts : Filled(c, m).has[f] \in {m.about, None}
      /\ Reopens(s) \/ \A f \in Facts : send[s].snap.ctx.eval.has[f] # None
                                          => Filled(c, m).has[f] # None
  BY <1>1, FilledSound
<1>3. ev \in Eval /\ ev.stage = "complete" /\ ev.has = Filled(c, m).has
  <2>1. "complete" \in Stage
    BY DEF Stage
  <2> QED
    BY <1>2, <2>1, FilledSet
<1> HIDE DEF ev
<1>4. /\ ev.has["ownership"] # None /\ ev.has["legal"] # None
      /\ ev.has["building"] = None => c.eval.stage = "asking_building"
  BY <1>1, <1>2, <1>3, NextAsked
<1>5. Sound(s, ev, "estimate")
  BY <1>1, <1>2, <1>3, <1>4 DEF Sound, Reply, Facts, Active
<1> QED
  BY <1>1, <1>5, AnswerStep

LEMMA PriceFailsStep ==
    ASSUME IInv, NEW s \in Reqs, PriceFails(s)
    PROVE  IInv'
<1> DEFINE c == send[s].ctx
           m == send[s].msg
           ev == Filled(c, m)
<1>1. /\ send[s].pc = "open"
      /\ c.eval.stage = "complete" => m.fresh
      /\ Answer(s, ev, "no_price")
      /\ UNCHANGED <<meta, history>>
  BY DEF PriceFails, Evaluating
<1>2. /\ c \in Context /\ m \in Messages
      /\ Opened(c, m).stage # "none" /\ Opened(c, m).stage # "complete"
      /\ Fits(c.eval, m.about) => \A f \in Facts : ev.has[f] \in {m.about, None}
      /\ Reopens(s) \/ \A f \in Facts : send[s].snap.ctx.eval.has[f] # None
                                          => ev.has[f] # None
  BY <1>1, FilledSound
<1>3. ev \in Eval /\ ev.stage # "none" /\ ev.stage # "asking_building"
  BY <1>2, FilledType
<1> HIDE DEF ev
<1>4. Sound(s, ev, "no_price")
  BY <1>1, <1>2, <1>3 DEF Sound, Reply
<1> QED
  BY <1>1, <1>4, AnswerStep

\* The answers that leave the evaluation as it is.
LEMMA OtherSteps ==
    ASSUME IInv, NEW s \in Reqs,
           SayAgain(s) \/ \E said \in {"other", "other_price"} : AnswerOther(s, said)
    PROVE  IInv'
<1>1. PICK said \in {"again", "other", "other_price"} :
        /\ send[s].pc = "open" /\ Answer(s, send[s].ctx.eval, said)
        /\ said = "again" => send[s].ctx.eval.stage = "complete"
        /\ UNCHANGED <<meta, history>>
  BY DEF SayAgain, Evaluating, AnswerOther
<1>2. send[s].ctx.eval \in Eval /\ send[s].ctx.eval = send[s].snap.ctx.eval
  BY <1>1, SendTypes, Zenon DEF IInv, TurnInv
<1>3. Sound(s, send[s].ctx.eval, said)
  BY <1>1, <1>2 DEF Sound, Reply, Fits
<1> QED
  BY <1>1, <1>3, AnswerStep

-----------------------------------------------------------------------------
LEMMA InitInv == Init => IInv
<1> SUFFICES ASSUME Init PROVE IInv
  OBVIOUS
<1> USE DEF Init
<1>1. \A s \in Reqs : /\ send[s] = IdleSend /\ send[s].pc = "idle" /\ send[s].reply = "none"
                      /\ send[s].snap = Empty /\ send[s].ctx = Empty.ctx
  BY DEF IdleSend
<1>2. TypeOK
  BY EvalTypes DEF TypeOK, Known
<1>3. TurnInv
  BY <1>1 DEF TurnInv, Turning
<1>4. OriginInv
  BY <1>1, OriginNone DEF OriginInv
<1>5. HoldInv
  BY <1>1 DEF HoldInv
<1>6. SubjectInv
  <2>1. ~Active(Empty.ctx.eval)
    BY DEF Active, Empty, NoEval
  <2> QED
    BY <1>1, <2>1 DEF SubjectInv, Turning
<1>7. AnswersOfThisProperty /\ BuildingAskedFirst
  BY <1>1 DEF AnswersOfThisProperty, BuildingAskedFirst
<1> QED
  BY <1>2, <1>3, <1>4, <1>5, <1>6, <1>7 DEF IInv

LEMMA NextInv == IInv /\ [Next]_vars => IInv'
<1> SUFFICES ASSUME IInv, [Next]_vars PROVE IInv'
  OBVIOUS
<1>1. ASSUME NEW s \in Reqs, Step(s) PROVE IInv'
  <2>1. CASE \E m \in Messages, asked \in BOOLEAN : (asked => m.short) /\ Start(s, m, asked)
    BY <2>1, StartStep
  <2>2. CASE PersistBefore(s) \/ PersistAfter(s)
    BY <2>2, PersistBeforeStep, PersistAfterStep
  <2>3. CASE SayAgain(s) \/ \E said \in {"other", "other_price"} : AnswerOther(s, said)
    BY <2>3, OtherSteps
  <2>4. CASE Ask(s) \/ Price(s) \/ PriceFails(s)
    BY <2>4, AskStep, PriceStep, PriceFailsStep
  <2>5. CASE SaveReply(s) \/ TaskRead(s) \/ Lost(s) \/ SyncStart(s)
    BY <2>5, QuietSteps
  <2>6. CASE TaskWrite(s) \/ \E p \in Properties \cup {None} : SyncWrite(s, p)
    BY <2>6, LateWriteStep DEF Known
  <2> QED
    BY <1>1, <2>1, <2>2, <2>3, <2>4, <2>5, <2>6 DEF Step
<1>2. CASE DeleteSession
  BY <1>2, DeleteStep
<1>3. CASE UNCHANGED vars
  <2> USE <1>3 DEF vars
  <2>1. TypeOK' /\ HoldInv'
    BY DEF IInv, TypeOK, HoldInv, Half
  <2>2. TurnInv'
    BY DEF IInv, TurnInv, Turning, Renews
  <2>3. OriginInv'
    BY DEF IInv, OriginInv, Origin, AskedBuilding
  <2>4. SubjectInv'
    BY DEF IInv, SubjectInv, Turning, Fits, AskedBuilding
  <2>5. AnswersOfThisProperty' /\ BuildingAskedFirst'
    BY DEF IInv, AnswersOfThisProperty, BuildingAskedFirst
  <2> QED
    BY <2>1, <2>2, <2>3, <2>4, <2>5 DEF IInv
<1> QED
  BY <1>1, <1>2, <1>3 DEF Next

\* The invariant holds in every reachable state.
LEMMA Invariance == Spec => []IInv
BY InitInv, NextInv, PTL DEF Spec

\* Types are as declared, for every number of requests, properties and messages.
THEOREM TypeCorrect == Spec => []TypeOK
<1>1. IInv => TypeOK
  BY DEF IInv
<1> QED
  BY <1>1, Invariance, PTL

\* An estimate rests on answers about the property it was asked for, if nobody
\* overwrote a newer row and the owner turned to another property only with no
\* evaluation under way and no message unanswered: what is under way is then
\* about the property of the last message (sendMessage,
\* handlePropertyEvaluation, persistSessionContextState).
THEOREM OwnAnswers == Spec => []AnswersOfThisProperty
<1>1. IInv => AnswersOfThisProperty
  BY DEF IInv
<1> QED
  BY <1>1, Invariance, PTL

\* An estimate without building details follows the building question of
\* another turn, about the same property under the conditions of OwnAnswers.
THEOREM QuestionFirst == Spec => []BuildingAskedFirst
<1>1. IInv => BuildingAskedFirst
  BY DEF IInv
<1> QED
  BY <1>1, Invariance, PTL

\* The answers of a complete evaluation in the row are those some turn priced
\* or tried to price.
THEOREM PricingCompletes == Spec => []CompletedByPricing
<1>1. IInv => CompletedByPricing
  BY DEF IInv, OriginInv, Origin, CompletedByPricing
<1> QED
  BY <1>1, Invariance, PTL

-----------------------------------------------------------------------------
(* What a step takes from the row.                                          *)

\* Writing a turn's state back keeps a row of which it has at least as much;
\* `dropped` are the facts its evaluation may lack.
LEMMA PersistsAll ==
    ASSUME NEW snap \in Row, NEW pid \in Known, NEW c \in Context, NEW written \in Row,
           written.ctx.district \in {First(c.district, snap.ctx.district), snap.ctx.district},
           written.ctx.area \in {First(c.area, snap.ctx.area), snap.ctx.area},
           written.task = snap.task, NEW dropped,
           \A f \in Facts \ dropped : written.ctx.eval.has[f] # None
              => Persisted(snap, pid, c).ctx.eval.has[f] # None
    PROVE  Established(written) \ dropped \subseteq Established(Persisted(snap, pid, c))
<1>1. /\ Persisted(snap, pid, c).ctx.district = First(c.district, snap.ctx.district)
      /\ Persisted(snap, pid, c).ctx.area = First(c.area, snap.ctx.area)
      /\ Persisted(snap, pid, c).task = snap.task
  BY PersistedType
<1> DEFINE new == Persisted(snap, pid, c)
<1> HIDE DEF new
<1>2. {f \in Facts : written.ctx.eval.has[f] # None} \ dropped
         \subseteq {f \in Facts : new.ctx.eval.has[f] # None}
  BY DEF new
<1>3. {f \in {"district", "area"} : written.ctx[f] # None}
         \subseteq {f \in {"district", "area"} : new.ctx[f] # None}
  BY <1>1 DEF new, First
<1>4. {f \in {"priced"} : written.task} \subseteq {f \in {"priced"} : new.task}
  BY <1>1 DEF new
<1> QED
  BY <1>2, <1>3, <1>4 DEF Established, new

LEMMA HalfRow ==
    ASSUME TypeOK, NEW s \in Reqs
    PROVE  /\ Half(s) \in Row /\ Half(s).task = send[s].snap.task
           /\ Half(s).ctx.eval = send[s].snap.ctx.eval
           /\ Half(s).ctx.district = First(send[s].ctx.district, send[s].snap.ctx.district)
           /\ Half(s).ctx.area = First(send[s].ctx.area, send[s].snap.ctx.area)
<1> DEFINE c == [send[s].ctx EXCEPT !.eval = send[s].snap.ctx.eval]
<1>1. /\ c \in Context /\ c.eval = send[s].snap.ctx.eval
      /\ c.district = send[s].ctx.district /\ c.area = send[s].ctx.area
  BY SendTypes DEF Context
<1>2. Half(s) = Persisted(send[s].snap, send[s].pid, c)
  BY DEF Half
<1> HIDE DEF c
<1> QED
  BY <1>1, <1>2, SendTypes, PersistedType

\* What a write of s may leave out of what it found: the answers of an
\* evaluation it opened anew.
Dropped(s) == IF Renews(s) THEN Facts ELSE {}

LEMMA WriteKeepsFound ==
    ASSUME IInv, NEW s \in Reqs, meta # NoRow, NEW pid \in Known,
           \/ PersistBefore(s) \/ PersistAfter(s) \/ TaskWrite(s) \/ SyncWrite(s, pid),
           NEW found, found = send[s].snap \/ (found = meta /\ s \notin stale)
    PROVE  Established(found) \ Dropped(s) \subseteq Established(meta')
<1> USE DEF IInv
<1>1. CASE PersistBefore(s)
  <2>1. /\ found = send[s].snap /\ send[s].ctx.eval = send[s].snap.ctx.eval
        /\ meta' = Persisted(send[s].snap, send[s].pid, send[s].ctx)
    BY <1>1 DEF PersistBefore, Write, HoldInv, TurnInv
  <2>2. meta'.ctx.eval = found.ctx.eval
    BY <2>1, SendTypes, PersistedType, Z3
  <2> QED
    BY <2>1, <2>2, SendTypes, PersistsAll
<1>2. CASE PersistAfter(s)
  <2>1. /\ found = send[s].snap \/ found = Half(s)
        /\ send[s].pc = "answered"
        /\ meta' = Persisted(send[s].snap, send[s].pid, send[s].ctx)
        /\ \A f \in Facts \ Dropped(s) : send[s].snap.ctx.eval.has[f] # None
                                           => send[s].ctx.eval.has[f] # None
    BY <1>2 DEF PersistAfter, Write, HoldInv, TurnInv, Dropped
  <2>2. meta'.ctx.eval = IF send[s].ctx.eval.stage # "none" THEN send[s].ctx.eval
                         ELSE send[s].snap.ctx.eval
    BY <2>1, SendTypes, PersistedType
  <2>3. /\ found \in Row /\ found.task = send[s].snap.task
        /\ found.ctx.eval = send[s].snap.ctx.eval
        /\ found.ctx.district \in {First(send[s].ctx.district, send[s].snap.ctx.district),
                                   send[s].snap.ctx.district}
        /\ found.ctx.area \in {First(send[s].ctx.area, send[s].snap.ctx.area),
                               send[s].snap.ctx.area}
    BY <2>1, HalfRow, SendTypes
  <2>4. \A f \in Facts \ Dropped(s) : found.ctx.eval.has[f] # None
                                        => meta'.ctx.eval.has[f] # None
    BY <2>1, <2>2, <2>3
  <2> QED
    BY <2>1, <2>3, <2>4, SendTypes, PersistsAll
<1>3. CASE TaskWrite(s) \/ SyncWrite(s, pid)
  <2>1. found \in Row /\ found = send[s].snap
    BY <1>3, SendTypes DEF TaskWrite, SyncWrite, HoldInv
  <2>2. meta'.ctx = found.ctx /\ (found.task => meta'.task)
    BY <1>3, <2>1, RowSet DEF TaskWrite, SyncWrite, Write
  <2> QED
    BY <2>2 DEF Established
<1> QED
  BY <1>1, <1>2, <1>3

\* What NothingForgotten says of a step.
Forgetting ==
    \A r \in Reqs :
        meta' \notin {meta, NoRow} /\ send'[r] # send[r] =>
            (Established(send[r].snap) \cup (IF r \in stale THEN {} ELSE Established(meta)))
                \ (IF Renews(r) THEN Facts ELSE {}) \subseteq Established(meta')

LEMMA StepForgetsNothing == IInv /\ [Next]_vars => Forgetting
<1> SUFFICES ASSUME IInv, Next, meta' # meta, meta' # NoRow PROVE Forgetting
  BY DEF Forgetting, vars
<1>1. ASSUME NEW s \in Reqs, Step(s) PROVE Forgetting
  <2>1. PICK pid \in Known :
          PersistBefore(s) \/ PersistAfter(s) \/ TaskWrite(s) \/ SyncWrite(s, pid)
    <3>1. \/ PersistBefore(s) \/ PersistAfter(s) \/ TaskWrite(s)
          \/ \E p \in Known : SyncWrite(s, p)
      BY <1>1 DEF Step, Start, SayAgain, Ask, Price, PriceFails, AnswerOther, SaveReply,
                  TaskRead, Lost, SyncStart, Known
    <3> QED
      BY <3>1 DEF Known
  <2>2. \A t \in Reqs \ {s} : send'[t] = send[t]
    BY <2>1, StepChanges DEF IInv, Change
  <2>3. meta # NoRow
    BY <2>1 DEF PersistBefore, PersistAfter, TaskWrite, SyncWrite, Write
  <2>4. ASSUME NEW found, found = send[s].snap \/ (found = meta /\ s \notin stale)
        PROVE  Established(found) \ Dropped(s) \subseteq Established(meta')
    BY <2>1, <2>3, <2>4, WriteKeepsFound
  <2>5. /\ Established(send[s].snap) \ Dropped(s) \subseteq Established(meta')
        /\ s \notin stale => Established(meta) \ Dropped(s) \subseteq Established(meta')
    BY <2>4
  <2>6. (Established(send[s].snap) \cup (IF s \in stale THEN {} ELSE Established(meta)))
           \ Dropped(s) \subseteq Established(meta')
    BY <2>5
  <2> QED
    BY <2>2, <2>6, Zenon DEF Forgetting, Dropped
<1>2. CASE DeleteSession
  BY <1>2 DEF DeleteSession
<1> QED
  BY <1>1, <1>2 DEF Next

\* The row forgets nothing by itself: what a request found in the row is there
\* after each of its writes, but for the answers of an evaluation it opens anew
\* (persistSessionContextState, persistSessionTaskState).
THEOREM ForgetsOnlyOvertaken == Spec => NothingForgotten
<1>1. IInv /\ [Next]_vars => [Forgetting]_vars
  BY StepForgetsNothing
<1>2. Spec => [][Forgetting]_vars
  BY <1>1, InitInv, NextInv, PTL DEF Spec
<1>3. [][Forgetting]_vars <=> NothingForgotten
  BY DEF Forgetting, NothingForgotten
<1> QED
  BY <1>2, <1>3


-----------------------------------------------------------------------------
(* OwnerRoutes: every handler leaves what the session knows, for every set  *)
(* of messages.  A turn's copy of the state has the evaluation of the row   *)
(* and the facts of its message.                                            *)
IsState(st) ==
    st = [known |-> st.known, listing |-> st.listing, pending |-> st.pending, stage |-> st.stage]
Copied(t) ==
    IsState(t.st) /\ t.st.stage = row.stage /\ t.m.tells \subseteq t.st.known
RouteInv == IsState(row) /\ (turn.busy => Copied(turn))

Kept ==
    /\ row.known \subseteq row'.known
    /\ row'.stage # row.stage => reply'.route = "evaluation"
    /\ reply' # reply => reply'.given \subseteq row'.known

\* Whatever state a handler returns, its facts are added to the row's, and its
\* evaluation counts if it has one.
LEMMA Saved ==
    ASSUME NEW st
    PROVE  LET p == R!Persisted(st)
           IN /\ IsState(p) /\ p.known = row.known \cup st.known
              /\ p.stage = IF st.stage # "none" THEN st.stage ELSE row.stage
BY DEF R!Persisted, IsState

LEMMA Answered ==
    ASSUME NEW route, NEW given, NEW st, NEW figures, R!Answer(route, given, st, figures),
           given \subseteq row.known \cup st.known,
           st.stage \in {"none", row.stage} \/ route = "evaluation"
    PROVE  RouteInv' /\ Kept
<1>1. row' = R!Persisted(st) /\ turn' = R!Idle /\ reply' = [route |-> route, given |-> given]
  BY DEF R!Answer
<1>2. PICK p : p = R!Persisted(st)
  OBVIOUS
<1>3. IsState(p) /\ p.known = row.known \cup st.known
      /\ p.stage = IF st.stage # "none" THEN st.stage ELSE row.stage
  BY <1>2, Saved
<1>4. RouteInv'
  BY <1>1, <1>2, <1>3 DEF RouteInv, IsState, R!Idle
<1>5. Kept
  BY <1>1, <1>2, <1>3 DEF Kept
<1> QED
  BY <1>4, <1>5

\* The states the handlers return.
LEMMA ReturnedStates ==
    ASSUME RouteInv, turn.busy
    PROVE  /\ turn.st.stage = row.stage /\ turn.m.tells \subseteq turn.st.known
           /\ R!Returned(turn).known = turn.st.known /\ R!Returned(turn).stage = row.stage
           /\ \A stage : [R!Returned(turn) EXCEPT !.stage = stage].known = turn.st.known
           /\ \A pending : /\ R!Cleaned(turn, pending).known = turn.st.known
                           /\ R!Cleaned(turn, pending).stage = "none"
<1>1. PICK t : t = turn
  OBVIOUS
<1>2. /\ IsState(t.st) /\ t.st.stage = row.stage /\ t.m.tells \subseteq t.st.known
  BY <1>1 DEF RouteInv, Copied
<1>3. R!Returned(t) = [t.st EXCEPT !.listing = "sell"] \/ R!Returned(t) = t.st
  BY DEF R!Returned
<1>4. IsState(R!Returned(t)) /\ R!Returned(t).known = t.st.known /\ R!Returned(t).stage = t.st.stage
  BY <1>2, <1>3 DEF IsState
<1>5. \A stage : [R!Returned(t) EXCEPT !.stage = stage].known = t.st.known
  <2>1. PICK r : r = R!Returned(t)
    OBVIOUS
  <2>2. \A stage : [r EXCEPT !.stage = stage].known = r.known
    BY <1>4, <2>1 DEF IsState
  <2> QED
    BY <1>4, <2>1, <2>2
<1>6. \A pending : R!Cleaned(t, pending).known = t.st.known /\ R!Cleaned(t, pending).stage = "none"
  BY <1>2 DEF R!Cleaned, IsState
<1> QED
  BY <1>1, <1>2, <1>4, <1>5, <1>6

\* What an engine is given is what the turn knows.
LEMMA GivenIsKnown ==
    ASSUME RouteInv, turn.busy
    PROVE  R!Slots(turn) \subseteq turn.st.known /\ R!SummaryPlace(turn) \subseteq turn.st.known
BY ReturnedStates DEF R!Slots, R!SummaryPlace

LEMMA ReceiveKeeps ==
    ASSUME RouteInv, NEW m, NEW c, NEW s, NEW k, R!Receive(m, c, s, k)
    PROVE  RouteInv' /\ Kept
<1>1. PICK st : /\ st = R!Merged(m, c) /\ row' = R!Persisted(st) /\ reply' = reply
                /\ turn' = [busy |-> TRUE, m |-> m, st |-> st,
                            continues |-> c, scope |-> s, follows |-> k]
  BY DEF R!Receive
<1>2. IsState(st) /\ st.stage = row.stage /\ m.tells \subseteq st.known
  BY <1>1 DEF RouteInv, IsState, R!Merged
<1>3. PICK p : p = R!Persisted(st)
  OBVIOUS
<1>4. IsState(p) /\ p.known = row.known \cup st.known /\ p.stage = row.stage
  BY <1>2, <1>3, Saved
<1>5. turn'.st = st /\ turn'.m = m /\ row' = p
  BY <1>1, <1>3
<1>6. RouteInv'
  BY <1>2, <1>4, <1>5 DEF RouteInv, Copied, IsState
<1> QED
  BY <1>1, <1>4, <1>5, <1>6 DEF Kept

LEMMA ReturnKeeps ==
    ASSUME RouteInv, turn.busy, NEW route, NEW given, given \subseteq turn.st.known, NEW figures,
           \/ R!Answer(route, given, turn.st, figures)
           \/ R!Answer(route, given, R!Returned(turn), figures)
    PROVE  RouteInv' /\ Kept
<1>1. PICK st : /\ st = turn.st \/ st = R!Returned(turn)
                /\ R!Answer(route, given, st, figures)
  OBVIOUS
<1>2. st.stage = row.stage /\ given \subseteq row.known \cup st.known
  BY <1>1, ReturnedStates
<1> QED
  BY <1>1, <1>2, Answered

LEMMA EvaluationKeeps ==
    ASSUME RouteInv, turn.busy, NEW given, given \subseteq turn.st.known, NEW stage,
           R!Answer("evaluation", given, [R!Returned(turn) EXCEPT !.stage = stage], FALSE)
    PROVE  RouteInv' /\ Kept
<1>1. PICK st : st = [R!Returned(turn) EXCEPT !.stage = stage]
  OBVIOUS
<1>2. given \subseteq row.known \cup st.known
  BY <1>1, ReturnedStates
<1> QED
  BY <1>1, <1>2, Answered

LEMMA CleanKeeps ==
    ASSUME RouteInv, turn.busy, NEW route, NEW given, given \subseteq turn.st.known, NEW figures,
           NEW pending, R!Answer(route, given, R!Cleaned(turn, pending), figures)
    PROVE  RouteInv' /\ Kept
<1>1. PICK st : st = R!Cleaned(turn, pending)
  OBVIOUS
<1>2. st.stage = "none" /\ given \subseteq row.known \cup st.known
  BY <1>1, ReturnedStates
<1> QED
  BY <1>1, <1>2, Answered

LEMMA FallbackKeeps ==
    ASSUME RouteInv,
           \/ R!Speak \/ R!EvaluateAsks \/ R!EvaluatePrices \/ R!EvaluateFails \/ R!EvaluateAgain
           \/ R!MarketSummary \/ R!MarketAsks \/ R!MarketFigures \/ R!FailStatically
    PROVE  RouteInv' /\ Kept
<1>1. turn.busy
  BY DEF R!Speak, R!EvaluateAsks, R!EvaluatePrices, R!EvaluateFails, R!EvaluateAgain,
         R!MarketSummary, R!MarketAsks, R!MarketFigures, R!FailStatically
<1>2. CASE R!Speak
  <2>1. PICK r : r = R!Route(turn)
    OBVIOUS
  <2>2. R!Answer(r, {}, IF r \in {"desk", "small_talk"} THEN turn.st ELSE R!Returned(turn), FALSE)
    BY <1>2, <2>1 DEF R!Speak
  <2> QED
    BY <1>1, <2>2, ReturnKeeps
<1>3. CASE R!EvaluateAsks
  <2>1. R!Answer("evaluation", {}, [R!Returned(turn) EXCEPT !.stage = "asking"], FALSE)
    BY <1>3 DEF R!EvaluateAsks
  <2> QED
    BY <1>1, <2>1, EvaluationKeeps
<1>4. CASE R!EvaluatePrices
  <2>1. R!Answer("evaluation", turn.st.known, [R!Returned(turn) EXCEPT !.stage = "complete"], FALSE)
    BY <1>4 DEF R!EvaluatePrices
  <2> QED
    BY <1>1, <2>1, EvaluationKeeps
<1>5. CASE R!EvaluateFails
  <2>1. PICK stage : R!Answer("evaluation", {}, [R!Returned(turn) EXCEPT !.stage = stage], FALSE)
    BY <1>5 DEF R!EvaluateFails
  <2> QED
    BY <1>1, <2>1, EvaluationKeeps
<1>6. CASE R!EvaluateAgain
  <2>1. R!Answer("evaluation", {}, R!Returned(turn), FALSE)
    BY <1>6 DEF R!EvaluateAgain
  <2> QED
    BY <1>1, <2>1, ReturnKeeps
<1>7. CASE R!MarketSummary
  <2>1. R!Answer("market", turn.st.known \cap {"city"}, R!Returned(turn), TRUE)
    BY <1>7 DEF R!MarketSummary
  <2> QED
    BY <1>1, <2>1, ReturnKeeps
<1>8. CASE R!MarketAsks
  <2>1. R!Answer("market_asks", {}, R!Returned(turn), FALSE)
    BY <1>8 DEF R!MarketAsks
  <2> QED
    BY <1>1, <2>1, ReturnKeeps
<1>9. CASE R!MarketFigures
  <2>1. R!Answer("market", turn.st.known, R!Returned(turn), TRUE)
    BY <1>9 DEF R!MarketFigures
  <2> QED
    BY <1>1, <2>1, ReturnKeeps
<1>10. CASE R!FailStatically
  <2>1. \/ R!Answer("failure", {}, turn.st, FALSE)
        \/ R!Answer("failure", {}, R!Returned(turn), FALSE)
    BY <1>10 DEF R!FailStatically
  <2> QED
    BY <1>1, <2>1, ReturnKeeps
<1> QED
  BY <1>2, <1>3, <1>4, <1>5, <1>6, <1>7, <1>8, <1>9, <1>10

LEMMA OrchestratorKeeps ==
    ASSUME RouteInv,
           \/ R!Socialize \/ R!Converse \/ R!SummaryAsks \/ R!SummaryFigures
           \/ R!ValuationAsks \/ R!ValuationFigures
    PROVE  RouteInv' /\ Kept
<1>1. turn.busy
  BY DEF R!Socialize, R!Converse, R!SummaryAsks, R!SummaryFigures, R!ValuationAsks,
         R!ValuationFigures, R!Orchestrating
<1>2. CASE R!Socialize
  <2>1. PICK r : R!Answer(r, {}, IF r = "out_of_scope" THEN turn.st
                                 ELSE R!Cleaned(turn, turn.st.pending), FALSE)
    BY <1>2 DEF R!Socialize
  <2> QED
    BY <1>1, <2>1, ReturnKeeps, CleanKeeps
<1>3. CASE R!Converse
  <2>1. PICK r : R!Answer(r, {}, R!Cleaned(turn, None), FALSE)
    BY <1>3 DEF R!Converse
  <2> QED
    BY <1>1, <2>1, CleanKeeps
<1>4. CASE R!SummaryAsks
  <2>1. R!Answer("asks", {}, R!Cleaned(turn, "city"), FALSE)
    BY <1>4 DEF R!SummaryAsks
  <2> QED
    BY <1>1, <2>1, CleanKeeps
<1>5. CASE R!SummaryFigures
  <2>1. R!Answer("summary", {"city"}, R!Cleaned(turn, None), TRUE)
        /\ {"city"} \subseteq turn.st.known
    BY <1>1, <1>5, GivenIsKnown DEF R!SummaryFigures
  <2> QED
    BY <1>1, <2>1, CleanKeeps
<1>6. CASE R!ValuationAsks
  <2>1. PICK pending : R!Answer("asks", {}, R!Cleaned(turn, pending), FALSE)
    BY <1>6 DEF R!ValuationAsks
  <2> QED
    BY <1>1, <2>1, CleanKeeps
<1>7. CASE R!ValuationFigures
  <2>1. R!Answer("valuation", R!Slots(turn), R!Cleaned(turn, None), TRUE)
        /\ R!Slots(turn) \subseteq turn.st.known
    BY <1>1, <1>7, GivenIsKnown DEF R!ValuationFigures
  <2> QED
    BY <1>1, <2>1, CleanKeeps
<1> QED
  BY <1>2, <1>3, <1>4, <1>5, <1>6, <1>7

LEMMA RoutesKeep ==
    ASSUME RouteInv, [R!Next]_routeVars
    PROVE  RouteInv' /\ [Kept]_routeVars
<1>1. CASE UNCHANGED routeVars
  BY <1>1 DEF routeVars, RouteInv, IsState, Copied
<1>2. CASE R!Lost
  <2>1. turn' = R!Idle /\ row' = row /\ reply' = reply
    BY <1>2 DEF R!Lost
  <2> QED
    BY <2>1 DEF RouteInv, IsState, Kept, R!Idle
<1>3. CASE \E m \in Talk, c, s, k \in BOOLEAN : R!Receive(m, c, s, k)
  BY <1>3, ReceiveKeeps
<1> QED
  BY <1>1, <1>2, <1>3, FallbackKeeps, OrchestratorKeeps DEF R!Next

\* Whichever handler answers an owner, what was told stays known, the evaluation
\* moves only when the evaluation answered, and an engine is given what the session
\* remembers (handleAiFallback, orchestrateOwnerChat, persistSessionContextState).
THEOREM RoutesLoseNothing == R!Spec => NothingLostByAnswering
<1>1. R!Init => RouteInv
  BY DEF R!Init, R!Idle, RouteInv, IsState
<1>2. RouteInv /\ [R!Next]_(R!vars) => RouteInv' /\ [Kept]_(R!vars)
  BY RoutesKeep DEF R!vars, routeVars
<1> QED
  BY <1>1, <1>2, PTL DEF R!Spec, NothingLostByAnswering, R!NothingLostByAnswering, Kept
=============================================================================
