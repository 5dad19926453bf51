----------------------------- MODULE OwnerChat -----------------------------
(***************************************************************************)
(* One chat session of a property owner: OwnerChatService.sendMessage with *)
(* the property evaluation it leads the owner through, the PATCH of the    *)
(* session's property and the deletion of the session.                     *)
(*                                                                         *)
(* All that the turns share is the row's metaJson: every turn reads it     *)
(* once, works on that snapshot, and writes the whole column back twice.   *)
(* A fact (district, area, answers) is represented by the property it is a *)
(* fact of.  What a message says is a record; which of the many handlers   *)
(* its wording selects is left open wherever the state does not decide it. *)
(* Title, status, city and the numeric fields other than the area select   *)
(* nothing here and are left out, and so is the learned vocabulary.        *)
(***************************************************************************)
EXTENDS FiniteSets, Naturals

CONSTANTS
    Reqs,        \* POST sessions/:id/message and PATCH sessions/:id/context requests
    Properties,  \* what an owner can talk about; also the rows of property
    Messages,    \* the messages an owner may send
    None         \* nothing said or known

(* `fresh` is a message with the words that announce a property ("I have",  *)
(* "new property"); `short` one that may continue the assistant's question; *)
(* `pid` the context.propertyId of the request.                             *)
Facts == {"ownership", "legal", "building"}
MessageType == [about : Properties, tells : SUBSET (Facts \cup {"district", "area", "type"}),
                fresh : BOOLEAN, short : BOOLEAN, pid : Properties \cup {None}]

ASSUME ChatAssumption ==
    /\ Messages \subseteq MessageType
    /\ None \notin Properties \cup Reqs

VARIABLES
    meta,     \* the row's metaJson; NoRow once the session is deleted
    send,     \* the requests, with their local variables
    stale,    \* history: requests whose snapshot the row has moved away from
    lossy,    \* history: one of them has written it back
    last,     \* history: the request of the owner's last message, None before it
    abrupt    \* history: the owner changed the subject with an evaluation under way

history == <<stale, lossy, last, abrupt>>
vars == <<meta, send, stale, lossy, last, abrupt>>

Known == Properties \cup {None}
Asking == {"asking_location", "asking_ownership", "asking_legal", "asking_building"}
Stage == {"none", "initial", "complete"} \cup Asking
Eval == [stage : Stage, has : [Facts -> Known]]
Context == [district : Known, area : Known, eval : Eval]
Row == [pid : Known, ctx : Context, task : BOOLEAN]
NoRow == [pid |-> None]

Blank == [f \in Facts |-> None]
NoEval == [stage |-> "none", has |-> Blank]
Empty == [pid |-> None,
          ctx |-> [district |-> None, area |-> None, eval |-> NoEval],
          task |-> FALSE]

SendPC == {"idle", "merged", "open", "answered", "saved", "told", "task",
           "sync", "done", "refused", "lost"}
Reply == {"none", "ask", "again", "estimate", "no_price", "other", "other_price"}
NoMsg == [about |-> None]
IdleSend == [pc |-> "idle", msg |-> NoMsg, snap |-> Empty, pid |-> None,
             ctx |-> Empty.ctx, reply |-> "none"]
SendLocals == [pc : SendPC, msg : Messages \cup {NoMsg}, snap : Row, pid : Known,
               ctx : Context, reply : Reply]

TypeOK ==
    /\ meta \in Row \cup {NoRow}
    /\ send \in [Reqs -> SendLocals]
    /\ stale \subseteq Reqs
    /\ lossy \in BOOLEAN
    /\ last \in Reqs \cup {None}
    /\ abrupt \in BOOLEAN

Init ==
    /\ meta = Empty
    /\ send = [s \in Reqs |-> IdleSend]
    /\ stale = {}
    /\ lossy = FALSE
    /\ last = None
    /\ abrupt = FALSE

-----------------------------------------------------------------------------
(* The turns between the read of the row and the last write of their state, *)
(* and all the requests that hold a snapshot of the row.                    *)
Turning(s) == send[s].pc \in {"merged", "open", "answered"}
Holders == {s \in Reqs : Turning(s) \/ send[s].pc \in {"task", "sync"}}

(* An evaluation under way: neither unopened nor complete.                  *)
Active(ev) == ev.stage \notin {"none", "complete"}

(* A write of the whole column by r outdates every other snapshot.          *)
Write(r, row) ==
    /\ meta # NoRow
    /\ meta' = row
    /\ stale' = stale \cup (Holders \ {r})
    /\ lossy' = (lossy \/ r \in stale)

First(a, b) == IF a # None THEN a ELSE b

(* mergeDeterministicState: what the turn knows.  The area of a message     *)
(* that names another property is not inherited, the district is.           *)
Merge(c, m, pid, asked) ==
    LET told(f) == IF f \in m.tells THEN m.about ELSE None
        anchored == m.tells \cap {"district", "area", "type"} # {}
        keep     == (m.short /\ asked) \/ ~anchored \/ Active(c.eval)
    IN [district |-> First(First(told("district"), c.district), pid),
        area     |-> First(First(told("area"), IF keep THEN c.area ELSE None), pid),
        eval     |-> c.eval]

(* Mistake: metaJson is rebuilt from the turn alone.                        *)
BadPersisted(snap, pid, c) == [Empty EXCEPT !.pid = pid, !.ctx = c]

(* persistSessionContextState: fields are set where the turn knows them and *)
(* never cleared, except propertyId; the rest of metaJson is the snapshot's.*)
Persisted(snap, pid, c) ==
    [snap EXCEPT !.pid = pid,
                 !.ctx = [district |-> First(c.district, snap.ctx.district),
                          area     |-> First(c.area, snap.ctx.area),
                          eval     |-> IF c.eval.stage # "none" THEN c.eval
                                       ELSE snap.ctx.eval]]

-----------------------------------------------------------------------------
(* Mistake: the stage is reset but the answers are kept.                    *)
BadOpened(c, m) ==
    IF c.eval.stage = "none" \/ (c.eval.stage = "complete" /\ m.fresh)
    THEN [c.eval EXCEPT !.stage = "initial"]
    ELSE c.eval

(* handlePropertyEvaluation: an evaluation that is complete is begun anew   *)
(* by a message that announces a property, and only its answers are.        *)
Opened(c, m) ==
    IF c.eval.stage = "none" \/ (c.eval.stage = "complete" /\ m.fresh)
    THEN [stage |-> "initial", has |-> Blank]
    ELSE c.eval

(* The reply to the building question replaces what was known.              *)
Replaces(ev, f) == f = "building" /\ ev.stage = "asking_building"

(* The first answer to each question stays, and the reply to the building   *)
(* question closes the evaluation.                                          *)
Filled(c, m) ==
    LET ev == Opened(c, m)
    IN [stage |-> CASE ev.stage = "asking_building" -> "complete"
                    [] ev.stage = "asking_location" /\ c.district # None -> "asking_legal"
                    [] OTHER -> ev.stage,
        has   |-> [f \in Facts |->
                      IF f \in m.tells /\ (ev.has[f] = None \/ Replaces(ev, f))
                      THEN m.about ELSE ev.has[f]]]

(* The questions without an answer, the first of which is put next; "none"  *)
(* when the price can be given.                                             *)
Unanswered(c, m) ==
    LET has == Filled(c, m).has IN
    {q \in Asking :
        \/ q = "asking_location" /\ (c.district = None \/ c.area = None)
        \/ q = "asking_ownership" /\ has.ownership = None
        \/ q = "asking_legal" /\ has.legal = None
        \/ q = "asking_building" /\ has.building = None
           /\ Opened(c, m).stage # "asking_building"}

FirstOf(questions) ==
    IF "asking_location" \in questions THEN "asking_location"
    ELSE IF "asking_ownership" \in questions THEN "asking_ownership"
    ELSE IF "asking_legal" \in questions THEN "asking_legal"
    ELSE IF "asking_building" \in questions THEN "asking_building"
    ELSE "none"

(* Mistakes: the building question left out for an owner who gave no        *)
(* details, or put with the evaluation already closed.                      *)
BadNextQuestion(c, m) == FirstOf(Unanswered(c, m) \ {"asking_building"})
BadClosing(c, m) ==
    IF Unanswered(c, m) = {"asking_building"} THEN "complete"
    ELSE FirstOf(Unanswered(c, m))

NextQuestion(c, m) == FirstOf(Unanswered(c, m))

(* The owner turns to another property while the row's evaluation is under  *)
(* way or another message is being answered.  The code does not notice.     *)
Interrupts(m) ==
    /\ last # None
    /\ m.about # send[last].msg.about
    /\ Active(meta.ctx.eval) \/ \E t \in Reqs : Turning(t)

(* sendMessage reads the row (assertOwnerSession) and merges the message    *)
(* into what the snapshot knows; `asked`: the assistant's last turn was a   *)
(* question.                                                                *)
Start(s, m, asked) ==
    /\ send[s].pc = "idle"
    /\ IF meta = NoRow
       THEN send' = [send EXCEPT ![s].pc = "refused"] /\ UNCHANGED <<last, abrupt>>
       ELSE /\ LET pid == First(m.pid, meta.pid) IN
               send' = [send EXCEPT ![s] =
                           [@ EXCEPT !.pc = "merged", !.msg = m, !.snap = meta, !.pid = pid,
                                     !.ctx = Merge(meta.ctx, m, pid, asked)]]
            /\ last' = s
            /\ abrupt' = (abrupt \/ Interrupts(m))
    /\ UNCHANGED <<meta, stale, lossy>>

PersistBefore(s) ==
    /\ send[s].pc = "merged"
    /\ Write(s, Persisted(send[s].snap, send[s].pid, send[s].ctx))
    /\ send' = [send EXCEPT ![s].pc = "open"]
    /\ UNCHANGED <<last, abrupt>>

(* The message row is created and the message dispatched; the handlers      *)
(* change the turn's copy of the state only.                                *)
Answer(s, ev, reply) ==
    send' = [send EXCEPT ![s] = [@ EXCEPT !.pc = "answered", !.ctx.eval = ev, !.reply = reply]]

(* The evaluation is entered when it is being asked about, or with an area. *)
Evaluating(s) ==
    /\ send[s].pc = "open"
    /\ send[s].ctx.eval.stage \in Asking \/ send[s].ctx.area # None

SayAgain(s) ==
    LET c == send[s].ctx  m == send[s].msg IN
    /\ Evaluating(s)
    /\ c.eval.stage = "complete" /\ ~m.fresh
    /\ Answer(s, c.eval, "again")
    /\ UNCHANGED <<meta, history>>

Ask(s) ==
    LET c == send[s].ctx  m == send[s].msg IN
    /\ Evaluating(s)
    /\ c.eval.stage = "complete" => m.fresh
    /\ NextQuestion(c, m) # "none"
    /\ Answer(s, [Filled(c, m) EXCEPT !.stage = NextQuestion(c, m)], "ask")
    /\ UNCHANGED <<meta, history>>

Price(s) ==
    LET c == send[s].ctx  m == send[s].msg IN
    /\ Evaluating(s)
    /\ c.eval.stage = "complete" => m.fresh
    /\ NextQuestion(c, m) = "none"
    /\ Answer(s, [Filled(c, m) EXCEPT !.stage = "complete"], "estimate")
    /\ UNCHANGED <<meta, history>>

(* No district has data, or pricing throws: the stage stays as it stands.   *)
PriceFails(s) ==
    LET c == send[s].ctx  m == send[s].msg IN
    /\ Evaluating(s)
    /\ c.eval.stage = "complete" => m.fresh
    /\ NextQuestion(c, m) = "none"
    /\ Answer(s, Filled(c, m), "no_price")
    /\ UNCHANGED <<meta, history>>

(* Any other handler: the detours of detectOwnerChatIntent, which come      *)
(* before the evaluation, and outside an evaluation those that price too.   *)
AnswerOther(s, reply) ==
    /\ send[s].pc = "open"
    /\ reply = "other_price" => send[s].ctx.eval.stage \notin Asking
    /\ Answer(s, send[s].ctx.eval, reply)
    /\ UNCHANGED <<meta, history>>

PersistAfter(s) ==
    /\ send[s].pc = "answered"
    /\ Write(s, Persisted(send[s].snap, send[s].pid, send[s].ctx))
    /\ send' = [send EXCEPT ![s].pc = "saved"]
    /\ UNCHANGED <<last, abrupt>>

(* The tool and assistant rows are created; the insert needs the session.   *)
SaveReply(s) ==
    /\ send[s].pc = "saved" /\ meta # NoRow
    /\ LET priced == send[s].reply \in {"estimate", "other_price"} IN
       send' = [send EXCEPT ![s] = [@ EXCEPT !.pc = IF priced THEN "told" ELSE "done",
                                             !.snap = Empty]]
    /\ UNCHANGED <<meta, history>>

(* persistSessionTaskState reads the row afresh and writes it back.         *)
TaskRead(s) ==
    /\ send[s].pc = "told" /\ meta # NoRow
    /\ send' = [send EXCEPT ![s] = [@ EXCEPT !.pc = "task", !.snap = meta]]
    /\ stale' = stale \ {s}
    /\ UNCHANGED <<meta, lossy, last, abrupt>>

TaskWrite(s) ==
    /\ send[s].pc = "task"
    /\ Write(s, [send[s].snap EXCEPT !.task = TRUE])
    /\ send' = [send EXCEPT ![s] = [@ EXCEPT !.pc = "done", !.snap = Empty]]
    /\ UNCHANGED <<last, abrupt>>

(* The request dies: the row is gone, the database refuses, the process     *)
(* ends.  What was written before stays.                                    *)
Lost(s) ==
    /\ send[s].pc \in SendPC \ {"idle", "done", "refused", "lost"}
    /\ send' = [send EXCEPT ![s] = [@ EXCEPT !.pc = "lost", !.snap = Empty]]
    /\ UNCHANGED <<meta, history>>

-----------------------------------------------------------------------------
(* updateSessionContext reads the row and writes it back with the property. *)
SyncStart(s) ==
    /\ send[s].pc = "idle"
    /\ send' = [send EXCEPT ![s] = IF meta = NoRow THEN [@ EXCEPT !.pc = "refused"]
                                  ELSE [@ EXCEPT !.pc = "sync", !.snap = meta]]
    /\ UNCHANGED <<meta, history>>

SyncWrite(s, p) ==
    /\ send[s].pc = "sync"
    /\ Write(s, [send[s].snap EXCEPT !.pid = p])
    /\ send' = [send EXCEPT ![s] = [@ EXCEPT !.pc = "done", !.snap = Empty]]
    /\ UNCHANGED <<last, abrupt>>

DeleteSession ==
    /\ meta # NoRow
    /\ meta' = NoRow
    /\ UNCHANGED <<send, history>>

Step(s) ==
    \/ \E m \in Messages, asked \in BOOLEAN : (asked => m.short) /\ Start(s, m, asked)
    \/ PersistBefore(s) \/ SayAgain(s) \/ Ask(s) \/ Price(s) \/ PriceFails(s)
    \/ \E reply \in {"other", "other_price"} : AnswerOther(s, reply)
    \/ PersistAfter(s) \/ SaveReply(s) \/ TaskRead(s) \/ TaskWrite(s) \/ Lost(s)
    \/ SyncStart(s)
    \/ \E p \in Properties \cup {None} : SyncWrite(s, p)

Next ==
    \/ \E s \in Reqs : Step(s)
    \/ DeleteSession

Spec == Init /\ [][Next]_vars

-----------------------------------------------------------------------------
(* What the row says the owner has established.                             *)
Established(row) ==
    {f \in Facts : row.ctx.eval.has[f] # None}
        \cup {f \in {"district", "area"} : row.ctx[f] # None}
        \cup {f \in {"priced"} : row.task}

(* The evaluation answered s with a complete one opened anew: the only turn *)
(* by which the code drops anything on purpose.                             *)
Renews(s) ==
    /\ send[s].pc = "answered" /\ send[s].reply \in {"ask", "estimate", "no_price"}
    /\ send[s].snap.ctx.eval.stage = "complete"
    /\ send[s].msg.fresh

(* NothingForgotten: whatever a request finds in the row when it reads it   *)
(* (the answers, the district, the area, that a price was given) is there   *)
(* after each of its writes, and so is what the row records meanwhile, if   *)
(* no other request wrote since: the two writes of one turn and the         *)
(* separate write of its outcome lose nothing, and a turn that overtakes    *)
(* another loses no more than the other recorded since it read.  A fresh    *)
(* evaluation gives up the answers of the complete one, and nothing else;   *)
(* a detour or a context update gives up nothing.                           *)
NothingForgotten ==
    [][\A r \in Reqs :
          meta' \notin {meta, NoRow} /\ send'[r] # send[r] =>
              LET found == Established(send[r].snap)
                              \cup (IF r \in stale THEN {} ELSE Established(meta))
              IN found \ (IF Renews(r) THEN Facts ELSE {}) \subseteq Established(meta')]_vars

(* AnswersOfThisProperty: an estimate rests on answers that are all about   *)
(* the property it was asked for, although answers are kept across messages *)
(* and across evaluations.  Two things are excused: a snapshot that         *)
(* overwrote a newer row, and an owner who turned to another property with  *)
(* an evaluation under way or a message unanswered.  An evaluation counts   *)
(* as under way until its answers were completed by the reply to the        *)
(* building question or by a price: one that found no data to price by      *)
(* stays open, and the answers in it are taken for the next property's.     *)
AnswersOfThisProperty ==
    \A s \in Reqs :
        send[s].reply = "estimate" /\ ~lossy /\ ~abrupt =>
            /\ \A f \in {"ownership", "legal"} : send[s].ctx.eval.has[f] = send[s].msg.about
            /\ send[s].ctx.eval.has["building"] \in {send[s].msg.about, None}

(* BuildingAskedFirst: an estimate is made without the building details     *)
(* only for a reply to the building question, so only after another turn    *)
(* put that question, and about the same property but for the two cases     *)
(* AnswersOfThisProperty excuses; the stage that remembers it lives in the  *)
(* row, not in the turn.                                                    *)
BuildingAskedFirst ==
    \A s \in Reqs :
        send[s].reply = "estimate" /\ send[s].ctx.eval.has["building"] = None =>
            \E t \in Reqs \ {s} :
                /\ send[t].reply = "ask" /\ send[t].ctx.eval.stage = "asking_building"
                /\ ~lossy /\ ~abrupt => send[t].msg.about = send[s].msg.about

(* CompletedByPricing: the answers in a row whose evaluation is complete    *)
(* are exactly the ones some turn priced, or tried to price: no turn that   *)
(* asked, detoured, died half way or wrote back an old snapshot closes the  *)
(* evaluation or changes the answers of a closed one.                       *)
CompletedByPricing ==
    meta # NoRow /\ meta.ctx.eval.stage = "complete" =>
        \E s \in Reqs : /\ send[s].reply \in {"estimate", "no_price"}
                          /\ send[s].ctx.eval = meta.ctx.eval

(* EstimateOfOneProperty: what "does not reuse stale property state for a   *)
(* fresh valuation request" and "reset for new property" promise of an      *)
(* estimate for a property announced when an evaluation was complete: its   *)
(* district and its area are those of the property the owner asks about.    *)
EstimateOfOneProperty ==
    \A s \in Reqs :
        /\ send[s].reply = "estimate" /\ ~lossy
        /\ send[s].msg.fresh /\ send[s].snap.ctx.eval.stage = "complete"
        => {send[s].ctx.district, send[s].ctx.area} = {send[s].msg.about}
=============================================================================
