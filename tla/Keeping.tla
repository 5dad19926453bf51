------------------------------ MODULE Keeping ------------------------------
(***************************************************************************)
(* What buyers and owners keep, and what the program keeps of them:        *)
(* BuyerSavedSearchService, the watches of OwnerMarketWatchService, and    *)
(* VocabularyService for one term and one meaning.  The statements of a    *)
(* request interleave with those of the others, and it may end after any.  *)
(* An upsert is a look and a statement, as the client of MySQL does it.    *)
(*                                                                         *)
(* A search is its filters as they are after normalizeForHash, which drops *)
(* blanks and sorts keys, and so is its hash.  Left out: titles, lists and *)
(* the insights, which only read.                                          *)
(***************************************************************************)
EXTENDS Integers

CONSTANTS
    None,
    Requests, Users,
    Filters,   \* searches that hash differently
    Areas,     \* city, district and type after normalizeAreaInput
    Windows    \* daysWindow of a watch

VARIABLES
    searches,    \* BuyerSavedSearch: [id, buyer, hash]; an id is the request that made it
    watches,     \* OwnerMarketWatch: [id, owner, area, days]
    word,        \* LearnedVocabulary: None, or [confidence (tenths), usage, confirmed, rejected]
    learningLog, \* VocabularyLearningLog: [by, action]
    request,
    removed      \* history: [id, by] of the rows removed

tables == <<searches, watches, word, learningLog>>
vars == <<searches, watches, word, learningLog, request, removed>>

Kinds == {"save", "unsave", "watch", "unwatch", "learn", "reject", "lookup"}
Ended(r) == request[r].pc \in {"idle", "done", "failed"}
Goes(r, pc) == request' = [request EXCEPT ![r].pc = pc]
Fails(r) == Goes(r, "failed") /\ UNCHANGED <<tables, removed>>
At(r, kind, pc) == request[r].kind = kind /\ request[r].pc = pc

Init ==
    /\ searches = {} /\ watches = {} /\ word = None /\ learningLog = {} /\ removed = {}
    /\ request = [r \in Requests |->
          [pc |-> "idle", kind |-> None, by |-> None, what |-> None, days |-> None, held |-> None]]

(* Whose row is removed is named by its identifier, hers or not.           *)
Ask(r) ==
    /\ request[r].pc = "idle"
    /\ \E kind \in Kinds, u \in Users :
       \E what \in CASE kind = "save" -> Filters
                     [] kind = "watch" -> Areas
                     [] kind \in {"unsave", "unwatch"} -> Requests
                     [] OTHER -> {None},
          days \in IF kind = "watch" THEN Windows ELSE {None} :
          request' = [request EXCEPT ![r] =
              [pc |-> IF kind \in {"unsave", "unwatch"} THEN "write" ELSE "look",
               kind |-> kind, by |-> u, what |-> what, days |-> days, held |-> None]]
    /\ UNCHANGED <<tables, removed>>

-----------------------------------------------------------------------------
(* Saved searches.  The hash is unique over all buyers.                    *)
Saved(hash) == {s \in searches : s.hash = hash}
(* Mutant: whose search was found is not looked at.                        *)
BadOwn(r, row) == TRUE
Own(r, row) == row.buyer = request[r].by

LookSearch(r) ==
    /\ At(r, "save", "look")
    /\ \/ Saved(request[r].what) = {} /\ Goes(r, "write")
       \/ \E s \in Saved(request[r].what) :
            IF Own(r, s) THEN request' = [request EXCEPT ![r].pc = "done", ![r].held = s.id]
                         ELSE Goes(r, "failed")
    /\ UNCHANGED <<tables, removed>>

Save(r) ==
    /\ At(r, "save", "write")
    /\ IF Saved(request[r].what) # {} THEN Fails(r)
       ELSE /\ searches' = searches \cup
                  {[id |-> r, buyer |-> request[r].by, hash |-> request[r].what]}
            /\ request' = [request EXCEPT ![r].pc = "done", ![r].held = r]
            /\ UNCHANGED <<watches, word, learningLog, removed>>

Unsave(r) ==
    LET gone == {s \in searches : s.id = request[r].what /\ s.buyer = request[r].by}
    IN /\ At(r, "unsave", "write")
       /\ searches' = searches \ gone
       /\ removed' = removed \cup {[id |-> s.id, by |-> request[r].by] : s \in gone}
       /\ Goes(r, IF gone = {} THEN "failed" ELSE "done")
       /\ UNCHANGED <<watches, word, learningLog>>

-----------------------------------------------------------------------------
(* Watches, one for each owner and area.                                   *)
Watched(r) == {w \in watches : w.owner = request[r].by /\ w.area = request[r].what}
LookWatch(r) ==
    /\ At(r, "watch", "look")
    /\ \/ Watched(r) = {} /\ Goes(r, "write")
       \/ \E w \in Watched(r) : request' = [request EXCEPT ![r].pc = "write", ![r].held = w.id]
    /\ UNCHANGED <<tables, removed>>

Watch(r) ==
    LET q == request[r]
        row == [id |-> IF q.held = None THEN r ELSE q.held,
                owner |-> q.by, area |-> q.what, days |-> q.days]
    IN /\ At(r, "watch", "write")
       /\ IF {w.id : w \in Watched(r)} # {q.held} \ {None} THEN Fails(r)
          ELSE /\ watches' = (watches \ Watched(r)) \cup {row}
               /\ request' = [request EXCEPT ![r].pc = "done", ![r].held = row.id]
               /\ UNCHANGED <<searches, word, learningLog, removed>>

Unwatch(r) ==
    LET gone == {w \in watches : w.id = request[r].what /\ w.owner = request[r].by}
    IN /\ At(r, "unwatch", "write")
       /\ watches' = watches \ gone
       /\ removed' = removed \cup {[id |-> w.id, by |-> request[r].by] : w \in gone}
       /\ Goes(r, IF gone = {} THEN "failed" ELSE "done")
       /\ UNCHANGED <<searches, word, learningLog>>

-----------------------------------------------------------------------------
(* Learned vocabulary.  The counters are incremented by the database; the  *)
(* confidence is written as it was reckoned from the row read before.      *)
Low(a, b) == IF a < b THEN a ELSE b
High(a, b) == IF a > b THEN a ELSE b
Surer(confidence) == Low(10, confidence + 1)
LessSure(confidence) == High(0, confidence - 2)

LookWord(r) ==
    /\ request[r].kind \in {"learn", "reject", "lookup"} /\ request[r].pc = "look"
    /\ request' = [request EXCEPT ![r].held = word,
          ![r].pc = IF /\ request[r].kind # "learn"
                       /\ word = None \/ (request[r].kind = "lookup" /\ word.confidence < 5)
                    THEN "done" ELSE "write"]
    /\ UNCHANGED <<tables, removed>>

LearnNew(r) ==
    /\ At(r, "learn", "write") /\ request[r].held = None
    /\ IF word # None THEN Fails(r)
       ELSE /\ word' = [confidence |-> 6, usage |-> 1, confirmed |-> 0, rejected |-> 0]
            /\ Goes(r, "log")
            /\ UNCHANGED <<searches, watches, learningLog, removed>>

Confirm(r) ==
    /\ At(r, "learn", "write") /\ request[r].held # None
    /\ word' = [word EXCEPT !.confidence = Surer(request[r].held.confidence),
                            !.confirmed = @ + 1, !.usage = @ + 1]
    /\ Goes(r, "log")
    /\ UNCHANGED <<searches, watches, learningLog, removed>>

Reject(r) ==
    /\ At(r, "reject", "write")
    /\ word' = [word EXCEPT !.confidence = LessSure(request[r].held.confidence), !.rejected = @ + 1]
    /\ Goes(r, "log")
    /\ UNCHANGED <<searches, watches, learningLog, removed>>

Lookup(r) ==
    /\ At(r, "lookup", "write")
    /\ word' = [word EXCEPT !.usage = @ + 1]
    /\ Goes(r, "done")
    /\ UNCHANGED <<searches, watches, learningLog, removed>>

Log(r) ==
    /\ request[r].pc = "log"
    /\ learningLog' = learningLog \cup {[by |-> r, action |->
          IF request[r].kind = "reject" THEN "rejected"
          ELSE IF request[r].held = None THEN "auto_learned" ELSE "confirmed"]}
    /\ Goes(r, "done")
    /\ UNCHANGED <<searches, watches, word, removed>>

-----------------------------------------------------------------------------
Stop(r) == ~Ended(r) /\ Fails(r)

Next == \E r \in Requests :
    \/ Ask(r)
    \/ LookSearch(r) \/ Save(r) \/ Unsave(r)
    \/ LookWatch(r) \/ Watch(r) \/ Unwatch(r)
    \/ LookWord(r) \/ LearnNew(r) \/ Confirm(r) \/ Reject(r) \/ Lookup(r) \/ Log(r)
    \/ Stop(r)

Spec == Init /\ [][Next]_vars

-----------------------------------------------------------------------------
KeptIsHers ==
    \A r \in Requests :
        LET q == request[r]
        IN q.kind \in {"save", "watch"} /\ q.pc = "done" =>
              \/ [id |-> q.held, by |-> q.by] \in removed
              \/ \E s \in searches : s = [id |-> q.held, buyer |-> q.by, hash |-> q.what]
              \/ \E w \in watches : w.id = q.held /\ w.owner = q.by /\ w.area = q.what

ConfidenceWithin ==
    word # None =>
        /\ word.confidence \in High(0, 6 - 2 * word.rejected) .. Low(10, 6 + word.confirmed)
        /\ \A r \in Requests : [by |-> r, action |-> "confirmed"] \in learningLog => word.confirmed > 0

(* What a buyer or an owner was told is kept is hers: the row she was      *)
(* answered with is there, with her search or area, until she removes it,  *)
(* whatever others save, watch and remove, although saves look and insert  *)
(* apart under a hash that all buyers share.  And although confirmations   *)
(* and rejections overwrite one another, the confidence in a term stays    *)
(* between what its rejections alone and what its confirmations alone      *)
(* would have made of it.  (BuyerSavedSearchService.create,                *)
(* OwnerMarketWatchService.create, VocabularyService.learn and reject.)    *)
KeptAsTold == KeptIsHers /\ ConfidenceWithin
=============================================================================
