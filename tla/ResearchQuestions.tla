------------------------- MODULE ResearchQuestions -------------------------
(***************************************************************************)
(* The research questions of one ticker: a desk leaves questions open, they *)
(* are queued, a later run of the ticker claims them, answers them with     *)
(* evidence or hands them back (research_queue_service.py,                  *)
(* question_ledger.py, research_work.py, dossier_sync.py and their callers  *)
(* in pipeline_service.py and orchestrator.py).                             *)
(*                                                                         *)
(* A run is one pass of a cycle over the ticker.  Runs overlap when two     *)
(* processes trade or an old cycle goes on after its leases were reclaimed, *)
(* so every call of the database is a step.                                *)
(***************************************************************************)
EXTENDS Integers, FiniteSets

CONSTANTS
    Questions,     \* what may be asked about the ticker
    Items,         \* entries the queue may hold
    Runs,
    ClaimLimit,    \* limit of claim_for_ticker
    MaxAttempts,   \* MAX_ATTEMPTS
    DeskQuestions, \* MAX_QUESTIONS_PER_DESK
    Nobody, NoItem, NoQuestion

ASSUME ResearchAssumption ==
    /\ MaxAttempts \in Nat \ {0} /\ ClaimLimit \in Nat \ {0} /\ DeskQuestions \in Nat
    /\ Nobody \notin Runs /\ NoItem \notin Items /\ NoQuestion \notin Questions

VARIABLES
    status,    \* an entry's status, "none" before it is inserted
    about,     \* its question
    attempts,
    holder,    \* the run whose lease_token it carries
    cooling,   \* next_attempt_at is in the future
    stale,     \* updated_at is older than RECLAIM_AFTER_SECONDS
    ledger,    \* the status of a question in dossier_question_log
    pc,
    ending,    \* the run delivers its own answer, at its end
    held,      \* what it claimed and has not released
    todo,      \* of these, what finish_questions has not come to
    found,     \* the stored answers a delivery has yet to hand over
    item,      \* the one it is handing over
    asked,     \* the desk's questions not yet recorded
    kept,      \* those recorded
    new,       \* those to be queued
    question   \* the one being recorded or queued

entry == <<status, about, attempts, holder, cooling, stale>>
books == <<entry, ledger>>
delivery == <<found, item>>
sync == <<asked, kept, new, question>>
local == <<pc, ending, held, todo, delivery, sync>>
vars == <<books, local>>

Statuses == {"none", "pending", "processing", "answer_ready", "completed", "failed"}
Open == {"open", "reasked"}
Places == {"idle", "publish", "complete", "reclaim", "claim", "desk", "record", "insert",
           "mark", "drop", "enqueue", "queue", "finish", "release"}

TypeOK ==
    /\ status \in [Items -> Statuses]
    /\ about \in [Items -> Questions \cup {NoQuestion}]
    /\ attempts \in [Items -> 0 .. MaxAttempts]
    /\ holder \in [Items -> Runs \cup {Nobody}]
    /\ cooling \in [Items -> BOOLEAN] /\ stale \in [Items -> BOOLEAN]
    /\ ledger \in [Questions -> Open \cup {"none", "dropped", "answered"}]
    /\ pc \in [Runs -> Places] /\ ending \in [Runs -> BOOLEAN]
    /\ held \in [Runs -> SUBSET Items] /\ todo \in [Runs -> SUBSET Items]
    /\ found \in [Runs -> SUBSET Items] /\ item \in [Runs -> Items \cup {NoItem}]
    /\ asked \in [Runs -> SUBSET Questions] /\ kept \in [Runs -> SUBSET Questions]
    /\ new \in [Runs -> SUBSET Questions] /\ question \in [Runs -> Questions \cup {NoQuestion}]
    /\ \A i \in Items : status[i] # "none" => about[i] \in Questions

Init ==
    /\ status = [i \in Items |-> "none"] /\ about = [i \in Items |-> NoQuestion]
    /\ attempts = [i \in Items |-> 0] /\ holder = [i \in Items |-> Nobody]
    /\ cooling = [i \in Items |-> FALSE] /\ stale = [i \in Items |-> FALSE]
    /\ ledger = [q \in Questions |-> "none"]
    /\ pc = [r \in Runs |-> "idle"] /\ ending = [r \in Runs |-> FALSE]
    /\ held = [r \in Runs |-> {}] /\ todo = [r \in Runs |-> {}]
    /\ found = [r \in Runs |-> {}] /\ item = [r \in Runs |-> NoItem]
    /\ asked = [r \in Runs |-> {}] /\ kept = [r \in Runs |-> {}]
    /\ new = [r \in Runs |-> {}] /\ question = [r \in Runs |-> NoQuestion]

Goto(r, place) == pc' = [pc EXCEPT ![r] = place]

\* _claim_filter: the entry is being processed under this run's token.
Leased(r, i) == status[i] = "processing" /\ holder[i] = r

-----------------------------------------------------------------------------
(* enqueue_item                                                            *)

\* An entry of the same question that is still alive makes a new one needless.
Queued(q) == \E i \in Items : about[i] = q /\ status[i] \in {"pending", "processing", "answer_ready"}

\* Mutant of Insert: the question is not stored with the entry.
InsertBare(q) ==
    \E i \in Items :
        /\ status[i] = "none"
        /\ status' = [status EXCEPT ![i] = "pending"]
        /\ UNCHANGED <<about, attempts, holder, cooling, stale>>

Insert(q) ==
    \E i \in Items :
        /\ status[i] = "none"
        /\ status' = [status EXCEPT ![i] = "pending"]
        /\ about' = [about EXCEPT ![i] = q]
        /\ UNCHANGED <<attempts, holder, cooling, stale>>

\* The endpoint of the research firm.
Request(q) ==
    /\ ~Queued(q)
    /\ Insert(q)
    /\ UNCHANGED <<ledger, local>>

-----------------------------------------------------------------------------
(* claim_for_ticker                                                        *)

\* Mutant of Start: nobody looks for answers another run has stored.
StartUndelivered(r) ==
    /\ pc[r] = "idle"
    /\ Goto(r, "publish")
    /\ UNCHANGED <<books, ending, held, todo, delivery, sync>>

\* deliver_ready_answers begins with a list of what is to be delivered.
Start(r) ==
    /\ pc[r] = "idle"
    /\ found' = [found EXCEPT ![r] = {i \in Items : status[i] = "answer_ready"}]
    /\ Goto(r, "publish")
    /\ UNCHANGED <<books, ending, held, todo, item, sync>>

\* One of them: the answer is written to the ledger, the question
\* taken off the dossier, and only then the entry completed.
Publish(r, i) ==
    /\ pc[r] = "publish" /\ i \in found[r]
    /\ ledger' = [ledger EXCEPT ![about[i]] = "answered"]
    /\ item' = [item EXCEPT ![r] = i]
    /\ Goto(r, "complete")
    /\ UNCHANGED <<entry, ending, held, todo, found, sync>>

Complete(r, i) ==
    /\ pc[r] = "complete" /\ item[r] = i
    /\ status' = [status EXCEPT ![i] = IF @ = "answer_ready" THEN "completed" ELSE @]
    /\ found' = [found EXCEPT ![r] = @ \ {i}]
    /\ item' = [item EXCEPT ![r] = NoItem]
    /\ Goto(r, "publish")
    /\ UNCHANGED <<about, attempts, holder, cooling, stale, ledger, ending, held, todo, sync>>

Delivered(r) ==
    /\ pc[r] = "publish" /\ found[r] = {}
    /\ Goto(r, IF ending[r] THEN "finish" ELSE "reclaim")
    /\ ending' = [ending EXCEPT ![r] = FALSE]
    /\ UNCHANGED <<books, held, todo, delivery, sync>>

\* A write fails, or the dossier changed three times: the delivery is given
\* up, and at the start of a run the claim with it.
DeliveryFails(r) ==
    /\ pc[r] = "complete" \/ (pc[r] = "publish" /\ found[r] # {})
    /\ found' = [found EXCEPT ![r] = {}]
    /\ item' = [item EXCEPT ![r] = NoItem]
    /\ Goto(r, IF ending[r] THEN "finish" ELSE "desk")
    /\ ending' = [ending EXCEPT ![r] = FALSE]
    /\ UNCHANGED <<books, held, todo, sync>>

Spent(i) == attempts[i] >= MaxAttempts

\* Mutant of Reclaim: what is stale is always tried again.
ReclaimAlways(r, i) ==
    /\ pc[r] = "reclaim"
    /\ status[i] = "processing" /\ stale[i]
    /\ status' = [status EXCEPT ![i] = "pending"]
    /\ stale' = [stale EXCEPT ![i] = FALSE]
    /\ UNCHANGED <<about, attempts, holder, cooling, ledger, local>>

\* reclaim_stale, one entry after the other; an exception ends it.
Reclaim(r, i) ==
    /\ pc[r] = "reclaim"
    /\ status[i] = "processing" /\ stale[i]
    /\ status' = [status EXCEPT ![i] = IF Spent(i) THEN "failed" ELSE "pending"]
    /\ stale' = [stale EXCEPT ![i] = FALSE]
    /\ UNCHANGED <<about, attempts, holder, cooling, ledger, local>>

Reclaimed(r) ==
    /\ pc[r] = "reclaim"
    /\ Goto(r, "claim")
    /\ UNCHANGED <<books, ending, held, todo, delivery, sync>>

Claimable(i) == status[i] = "pending" /\ ~cooling[i]

Claim(r, i) ==
    /\ pc[r] = "claim" /\ Cardinality(held[r]) < ClaimLimit
    /\ Claimable(i)
    /\ status' = [status EXCEPT ![i] = "processing"]
    /\ attempts' = [attempts EXCEPT ![i] = @ + 1]
    /\ holder' = [holder EXCEPT ![i] = r]
    /\ stale' = [stale EXCEPT ![i] = FALSE]
    /\ held' = [held EXCEPT ![r] = @ \cup {i}]
    /\ UNCHANGED <<about, cooling, ledger, pc, ending, todo, delivery, sync>>

\* With its claims the run goes to the desk, without them after an exception.
Claimed(r) ==
    /\ pc[r] = "claim"
    /\ \/ /\ Cardinality(held[r]) = ClaimLimit \/ \A i \in Items : ~Claimable(i)
          /\ UNCHANGED held
       \/ held' = [held EXCEPT ![r] = {}]
    /\ Goto(r, "desk")
    /\ UNCHANGED <<books, ending, todo, delivery, sync>>

\* heartbeat_claims, as long as the pipeline runs.
Heartbeat(r, i) ==
    /\ pc[r] \notin {"idle", "publish", "complete", "reclaim", "claim", "release"} \/ ending[r]
    /\ i \in held[r] /\ Leased(r, i)
    /\ stale' = [stale EXCEPT ![i] = FALSE]
    /\ UNCHANGED <<status, about, attempts, holder, cooling, ledger, local>>

-----------------------------------------------------------------------------
(* sync_desk_to_dossier                                                    *)

\* The desk ends with some questions open, or the pipeline fails before.
Desk(r) ==
    /\ pc[r] = "desk"
    /\ \/ /\ \E Q \in SUBSET Questions :
               /\ Cardinality(Q) <= DeskQuestions
               /\ asked' = [asked EXCEPT ![r] = Q]
          /\ Goto(r, "record")
       \/ Goto(r, "release") /\ UNCHANGED asked
    /\ UNCHANGED <<books, ending, held, todo, delivery, kept, new, question>>

\* record_asked: is the question known?
Record(r, q) ==
    /\ pc[r] = "record" /\ q \in asked[r]
    /\ asked' = [asked EXCEPT ![r] = @ \ {q}]
    /\ IF ledger[q] = "answered"
         THEN kept' = [kept EXCEPT ![r] = @ \cup {q}] /\ UNCHANGED <<pc, question>>
         ELSE /\ Goto(r, IF ledger[q] = "none" THEN "insert" ELSE "mark")
              /\ question' = [question EXCEPT ![r] = q]
              /\ UNCHANGED kept
    /\ UNCHANGED <<books, ending, held, todo, delivery, new>>

Recorded(r) ==
    /\ kept' = [kept EXCEPT ![r] = @ \cup {question[r]}]
    /\ question' = [question EXCEPT ![r] = NoQuestion]
    /\ Goto(r, "record")

InsertOpen(r) ==
    LET q == question[r] IN
    /\ pc[r] = "insert"
    /\ ledger' = [ledger EXCEPT ![q] = IF @ = "none" THEN "open" ELSE @]
    /\ new' = [new EXCEPT ![r] = @ \cup {q}]
    /\ Recorded(r)
    /\ UNCHANGED <<entry, ending, held, todo, delivery, asked>>

\* Mutant of MarkReasked: the status is not looked at again by the write.
MarkAnyway(r) ==
    /\ pc[r] = "mark"
    /\ ledger' = [ledger EXCEPT ![question[r]] = "reasked"]
    /\ Recorded(r)
    /\ UNCHANGED <<entry, ending, held, todo, delivery, asked, new>>

MarkReasked(r) ==
    /\ pc[r] = "mark"
    /\ ledger' = [ledger EXCEPT ![question[r]] = IF @ = "answered" THEN @ ELSE "reasked"]
    /\ Recorded(r)
    /\ UNCHANGED <<entry, ending, held, todo, delivery, asked, new>>

\* An exception makes record_asked return nothing of what it recorded.
RecordEnds(r) ==
    /\ \/ pc[r] = "record" /\ asked[r] = {} /\ UNCHANGED <<asked, kept, new, question>>
       \/ /\ pc[r] \in {"insert", "mark"} \/ (pc[r] = "record" /\ asked[r] # {})
          /\ asked' = [asked EXCEPT ![r] = {}]
          /\ kept' = [kept EXCEPT ![r] = {}]
          /\ new' = [new EXCEPT ![r] = {}]
          /\ question' = [question EXCEPT ![r] = NoQuestion]
    /\ Goto(r, "drop")
    /\ UNCHANGED <<books, ending, held, todo, delivery>>

\* mark_not_reasked, unless no research was run or the write fails.
Drop(r) ==
    /\ pc[r] = "drop"
    /\ \/ ledger' = [q \in Questions |->
                       IF ledger[q] \in Open /\ q \notin kept[r] THEN "dropped" ELSE ledger[q]]
       \/ UNCHANGED ledger
    /\ kept' = [kept EXCEPT ![r] = {}]
    /\ Goto(r, "enqueue")
    /\ UNCHANGED <<entry, ending, held, todo, delivery, asked, new, question>>

\* enqueue_item for what was asked for the first time: look, then insert.
Enqueue(r, q) ==
    /\ pc[r] = "enqueue" /\ q \in new[r]
    /\ new' = [new EXCEPT ![r] = @ \ {q}]
    /\ IF Queued(q) THEN UNCHANGED <<pc, question>>
                    ELSE Goto(r, "queue") /\ question' = [question EXCEPT ![r] = q]
    /\ UNCHANGED <<books, ending, held, todo, delivery, asked, kept>>

InsertItem(r) ==
    /\ pc[r] = "queue"
    /\ Insert(question[r])
    /\ question' = [question EXCEPT ![r] = NoQuestion]
    /\ Goto(r, "enqueue")
    /\ UNCHANGED <<ledger, ending, held, todo, delivery, asked, kept, new>>

\* All is queued, or an exception ends the synchronisation.
SyncEnds(r) ==
    /\ pc[r] \in {"enqueue", "queue"}
    /\ new' = [new EXCEPT ![r] = {}]
    /\ question' = [question EXCEPT ![r] = NoQuestion]
    /\ todo' = [todo EXCEPT ![r] = held[r]]
    /\ Goto(r, "finish")
    /\ UNCHANGED <<books, ending, held, delivery, asked, kept>>

-----------------------------------------------------------------------------
(* finish_questions, and the release in the finally of the run             *)

\* finish_claim with evidence: the answer is stored before it is delivered.
Answer(r, i) ==
    /\ pc[r] = "finish" /\ i \in todo[r]
    /\ Leased(r, i)
    /\ status' = [status EXCEPT ![i] = "answer_ready"]
    /\ todo' = [todo EXCEPT ![r] = @ \ {i}]
    /\ found' = [found EXCEPT ![r] = {i}]
    /\ ending' = [ending EXCEPT ![r] = TRUE]
    /\ Goto(r, "publish")
    /\ UNCHANGED <<about, attempts, holder, cooling, stale, ledger, held, item, sync>>

\* finish_claim without an answer: back to the queue for half a day, or given up.
HandBack(i) ==
    /\ status' = [status EXCEPT ![i] = IF Spent(i) THEN "failed" ELSE "pending"]
    /\ cooling' = [cooling EXCEPT ![i] = TRUE]
    /\ stale' = [stale EXCEPT ![i] = FALSE]
    /\ UNCHANGED <<about, attempts, holder>>

\* Nothing happens when the lease is lost or the write fails.
Defer(r, i) ==
    /\ pc[r] = "finish" /\ i \in todo[r]
    /\ (Leased(r, i) /\ HandBack(i)) \/ UNCHANGED entry
    /\ todo' = [todo EXCEPT ![r] = @ \ {i}]
    /\ UNCHANGED <<ledger, pc, ending, held, delivery, sync>>

Finished(r) ==
    /\ pc[r] = "finish" /\ todo[r] = {}
    /\ Goto(r, "release")
    /\ UNCHANGED <<books, ending, held, todo, delivery, sync>>

Release(r, i) ==
    /\ pc[r] = "release" /\ i \in held[r]
    /\ (Leased(r, i) /\ HandBack(i)) \/ UNCHANGED entry
    /\ held' = [held EXCEPT ![r] = @ \ {i}]
    /\ UNCHANGED <<ledger, pc, ending, todo, delivery, sync>>

Released(r) ==
    /\ pc[r] = "release" /\ held[r] = {}
    /\ Goto(r, "idle")
    /\ UNCHANGED <<books, ending, held, todo, delivery, sync>>

-----------------------------------------------------------------------------
(* The environment                                                         *)

\* The process dies, or the cycle is torn down.
Crash(r) ==
    /\ pc[r] # "idle"
    /\ Goto(r, "idle")
    /\ ending' = [ending EXCEPT ![r] = FALSE]
    /\ held' = [held EXCEPT ![r] = {}] /\ todo' = [todo EXCEPT ![r] = {}]
    /\ found' = [found EXCEPT ![r] = {}] /\ item' = [item EXCEPT ![r] = NoItem]
    /\ asked' = [asked EXCEPT ![r] = {}] /\ kept' = [kept EXCEPT ![r] = {}]
    /\ new' = [new EXCEPT ![r] = {}] /\ question' = [question EXCEPT ![r] = NoQuestion]
    /\ UNCHANGED books

\* Half an hour without a heartbeat.
Expire(i) ==
    /\ status[i] = "processing" /\ ~stale[i]
    /\ stale' = [stale EXCEPT ![i] = TRUE]
    /\ UNCHANGED <<status, about, attempts, holder, cooling, ledger, local>>

\* Half a day.
CoolOff(i) ==
    /\ cooling[i]
    /\ cooling' = [cooling EXCEPT ![i] = FALSE]
    /\ UNCHANGED <<status, about, attempts, holder, stale, ledger, local>>

Deliver(r, i) == Publish(r, i) \/ Complete(r, i)

Advance(r) ==
    \/ Delivered(r) \/ DeliveryFails(r) \/ Reclaimed(r) \/ Claimed(r) \/ Desk(r)
    \/ InsertOpen(r) \/ MarkReasked(r) \/ RecordEnds(r) \/ Drop(r) \/ InsertItem(r)
    \/ SyncEnds(r) \/ Finished(r) \/ Released(r)
    \/ \E q \in Questions : Record(r, q) \/ Enqueue(r, q)
    \/ \E i \in Items : Deliver(r, i) \/ Reclaim(r, i) \/ Claim(r, i)
                        \/ Answer(r, i) \/ Defer(r, i) \/ Release(r, i)

Next ==
    \/ \E q \in Questions : Request(q)
    \/ \E r \in Runs : Start(r) \/ Advance(r) \/ Crash(r)
    \/ \E r \in Runs, i \in Items : Heartbeat(r, i)
    \/ \E i \in Items : Expire(i) \/ CoolOff(i)

Spec == Init /\ [][Next]_vars

\* The ticker is run again and again and each run comes to its end, or dies,
\* but not for ever at the same point; time passes for entries nobody holds;
\* and no write fails for ever.
FairSpec ==
    /\ Spec
    /\ \A r \in Runs : WF_vars(Start(r)) /\ WF_vars(Advance(r))
    /\ SF_vars(\E r \in Runs : Delivered(r))
    /\ \A i \in Items :
         /\ WF_vars(Expire(i))
         /\ SF_vars(\E r \in Runs : Reclaim(r, i))
         /\ SF_vars(\E r \in Runs : Publish(r, i))
         /\ SF_vars(\E r \in Runs : Complete(r, i))

-----------------------------------------------------------------------------
(* Properties.                                                             *)

\* An entry is completed only if its question is answered in the ledger, and
\* stays so: no desk that asks again, however late it writes, and no other
\* run erases a delivered answer (research_queue_service.py:320-350,
\* question_ledger.py:155-177).
CompletedIsAnswered ==
    \A i \in Items : status[i] = "completed" => ledger[about[i]] = "answered"

\* A delivered answer is never taken back: no desk that asks the question again,
\* inserts it or drops it, however late it writes, changes that it is answered.
AnswerIsFinal ==
    [][\A q \in Questions : ledger[q] = "answered" => ledger'[q] = "answered"]_vars

\* An entry is tried MaxAttempts times, whatever runs crash, lose their lease
\* or hand it back twice, and is given up exactly when these are used up.
AttemptBudget ==
    \A i \in Items :
        /\ status[i] \in {"none", "pending"} => attempts[i] < MaxAttempts
        /\ status[i] = "failed" => attempts[i] = MaxAttempts

\* What a run claimed does not stay claimed, and an answer that was stored is
\* delivered, through crashes and failed writes.
ClaimSettles ==
    \A i \in Items : status[i] \in {"processing", "answer_ready"}
                     ~> status[i] \in {"pending", "failed", "completed"}
=============================================================================
