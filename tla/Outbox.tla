------------------------------- MODULE Outbox -------------------------------
(***************************************************************************)
(* The transactional outbox: execution_outbox as a queue of TRADE_EXECUTED *)
(* events, leased in batches by outbox workers that reconcile the          *)
(* execution and mark the event COMPLETED, or record a failed attempt.     *)
(*                                                                         *)
(* Every claim call makes a fresh owner token.  The token matters only as  *)
(* "is it the one worker w holds now", so owner[e] is w while locked_by    *)
(* holds w's current token, and Nobody when it is None or an older token.  *)
(*                                                                         *)
(* at[e] is the event's timestamp relative to the present: retry_after of  *)
(* a PENDING event (positive: in the future), locked_at of a PROCESSING    *)
(* one.  It is not followed below -Oldest, where it no longer matters.     *)
(***************************************************************************)
EXTENDS Integers, FiniteSets

CONSTANTS
    Events,      \* events the execution transactions insert
    Workers,     \* worker loops, one for each process of the service
    BatchSize,   \* events claimed in one iteration
    MaxAttempts, \* failures after which an event is poison
    Lease,       \* lock_timeout, in ticks
    Backoff,     \* Backoff[a]: ticks to wait after the a-th failure
    MaxReplays,  \* bound: operator replays of one event
    Nobody,      \* no current token
    NoEvent

ASSUME BoundAssumption ==
    /\ BatchSize \in Nat \ {0}
    /\ MaxAttempts \in Nat \ {0}
    /\ Lease \in Nat
    /\ Backoff \in [1 .. MaxAttempts -> Nat]
    /\ MaxReplays \in Nat

ASSUME NoneAssumption == Nobody \notin Workers /\ NoEvent \notin Events

VARIABLES
    status,      \* status[e], "NONE" before insertion
    attempts,    \* attempts[e]: failures recorded
    at,          \* at[e]: see above
    owner,       \* owner[e]: the worker whose current token is in locked_by
    reconciled,  \* events with an execution_reconciliations document
    replays,     \* replays[e]: operator replays so far
    step,        \* step[w]: where worker w is
    drift,       \* drift[w]: time since the `now' of w's claim call
    batch,       \* batch[w]: events claimed and not yet handled
    current,     \* current[w]: the event being handled
    seen         \* seen[w]: the attempts value mark_failed is about to write

queue == <<status, attempts, at, owner>>
worker == <<step, drift, batch, current, seen>>
vars == <<queue, reconciled, replays, worker>>

Statuses == {"NONE", "PENDING", "PROCESSING", "COMPLETED", "FAILED"}
Steps == {"idle", "claim", "work", "complete", "fail", "record"}

\* Older than any claim call can tell apart.
Oldest == 2 * Lease + 2

TypeOK ==
    /\ status \in [Events -> Statuses]
    /\ attempts \in [Events -> Nat]
    /\ at \in [Events -> Int]
    /\ owner \in [Events -> Workers \cup {Nobody}]
    /\ reconciled \subseteq Events
    /\ replays \in [Events -> 0 .. MaxReplays]
    /\ step \in [Workers -> Steps]
    /\ drift \in [Workers -> 0 .. Lease + 1]
    /\ batch \in [Workers -> SUBSET Events]
    /\ current \in [Workers -> Events \cup {NoEvent}]
    /\ seen \in [Workers -> Nat]
    /\ \A w \in Workers : step[w] \in {"complete", "fail", "record"} => current[w] \in Events

Init ==
    /\ status = [e \in Events |-> "NONE"]
    /\ attempts = [e \in Events |-> 0]
    /\ at = [e \in Events |-> -Oldest]
    /\ owner = [e \in Events |-> Nobody]
    /\ reconciled = {}
    /\ replays = [e \in Events |-> 0]
    /\ step = [w \in Workers |-> "idle"]
    /\ drift = [w \in Workers |-> 0]
    /\ batch = [w \in Workers |-> {}]
    /\ current = [w \in Workers |-> NoEvent]
    /\ seen = [w \in Workers |-> 0]

-----------------------------------------------------------------------------
\* The execution transaction of the event's trade inserts it, due at once.
Publish(e) ==
    /\ status[e] = "NONE"
    /\ status' = [status EXCEPT ![e] = "PENDING"]
    /\ UNCHANGED <<attempts, at, owner, reconciled, replays, worker>>

\* replay_poison_outbox_event: an operator gives a FAILED event another try.
Replay(e) ==
    /\ status[e] = "FAILED" /\ replays[e] < MaxReplays
    /\ status' = [status EXCEPT ![e] = "PENDING"]
    /\ at' = [at EXCEPT ![e] = 0]
    /\ replays' = [replays EXCEPT ![e] = @ + 1]
    /\ UNCHANGED <<attempts, owner, reconciled, worker>>

-----------------------------------------------------------------------------
(* claim_pending_outbox_events: one find_one_and_update per event, all     *)
(* with the token and the time taken when the call starts.                 *)

Begin(w) ==
    /\ step[w] = "idle"
    /\ step' = [step EXCEPT ![w] = "claim"]
    /\ drift' = [drift EXCEPT ![w] = 0]
    /\ owner' = [e \in Events |-> IF owner[e] = w THEN Nobody ELSE owner[e]]
    /\ UNCHANGED <<status, attempts, at, reconciled, replays, batch, current, seen>>

\* Mutant: the leases of dead workers are not reclaimed.
PendingOnly(e, w) == status[e] = "PENDING" /\ at[e] <= -drift[w]

\* Due, or leased by someone whose lease has run out, as of w's `now'.
Claimable(e, w) ==
    \/ status[e] = "PENDING" /\ at[e] <= -drift[w]
    \/ status[e] = "PROCESSING" /\ at[e] < -(drift[w] + Lease)

\* An event of this batch is not matched again: its timestamp is w's `now', or
\* was set later by another worker.
Claim(w) ==
    /\ step[w] = "claim"
    /\ Cardinality(batch[w]) < BatchSize
    /\ \E e \in Events \ batch[w] :
         /\ Claimable(e, w)
         /\ status' = [status EXCEPT ![e] = "PROCESSING"]
         /\ at' = [at EXCEPT ![e] = -drift[w]]
         /\ owner' = [owner EXCEPT ![e] = w]
         /\ batch' = [batch EXCEPT ![w] = @ \cup {e}]
    /\ UNCHANGED <<attempts, reconciled, replays, step, drift, current, seen>>

EndClaim(w) ==
    /\ step[w] = "claim"
    /\ \/ Cardinality(batch[w]) >= BatchSize
       \/ \A e \in Events \ batch[w] : ~Claimable(e, w)
    /\ step' = [step EXCEPT ![w] = IF batch[w] = {} THEN "idle" ELSE "work"]
    /\ drift' = [drift EXCEPT ![w] = 0]
    /\ UNCHANGED <<queue, reconciled, replays, batch, current, seen>>

-----------------------------------------------------------------------------
(* run_outbox_worker_iteration, for each event of the batch.               *)

\* Mutant: an exception of process_outbox_event is swallowed.
ProcessSwallowing(w) ==
    /\ step[w] = "work"
    /\ \E e \in batch[w], done \in BOOLEAN :
         /\ current' = [current EXCEPT ![w] = e]
         /\ reconciled' = IF done THEN reconciled \cup {e} ELSE reconciled
    /\ step' = [step EXCEPT ![w] = "complete"]
    /\ UNCHANGED <<queue, replays, drift, batch, seen>>

\* process_outbox_event writes the reconciliation (idempotent under its
\* deterministic id), or raises, before the write or after it was applied.
Process(w) ==
    /\ step[w] = "work"
    /\ \E e \in batch[w] :
         /\ current' = [current EXCEPT ![w] = e]
         /\ \/ /\ reconciled' = reconciled \cup {e}
               /\ \E next \in {"complete", "fail"} : step' = [step EXCEPT ![w] = next]
            \/ /\ step' = [step EXCEPT ![w] = "fail"]
               /\ UNCHANGED reconciled
    /\ UNCHANGED <<queue, replays, drift, batch, seen>>

\* Mutant: with events left, the worker stays at the step it was in.
FinishInPlace(w) ==
    /\ batch' = [batch EXCEPT ![w] = @ \ {current[w]}]
    /\ step' = [step EXCEPT ![w] = IF batch'[w] = {} THEN "idle" ELSE @]
    /\ current' = [current EXCEPT ![w] = NoEvent]
    /\ seen' = [seen EXCEPT ![w] = 0]
    /\ UNCHANGED drift

\* The worker is done with its current event.
Finish(w) ==
    /\ batch' = [batch EXCEPT ![w] = @ \ {current[w]}]
    /\ step' = [step EXCEPT ![w] = IF batch'[w] = {} THEN "idle" ELSE "work"]
    /\ current' = [current EXCEPT ![w] = NoEvent]
    /\ seen' = [seen EXCEPT ![w] = 0]
    /\ UNCHANGED drift

\* Mutant: the owner token is not part of the completion query.
HoldsAny(w) == status[current[w]] = "PROCESSING"

\* The query of mark_outbox_event_completed matches.
Holds(w) == status[current[w]] = "PROCESSING" /\ owner[current[w]] = w

\* mark_outbox_event_completed.  Its result is ignored; when it raises, applied
\* or not, the failure is recorded as one of the event.
Complete(w) ==
    /\ step[w] = "complete"
    /\ \/ /\ status' = IF Holds(w) THEN [status EXCEPT ![current[w]] = "COMPLETED"] ELSE status
          /\ \/ Finish(w)
             \/ /\ step' = [step EXCEPT ![w] = "fail"]
                /\ UNCHANGED <<drift, batch, current, seen>>
       \/ /\ step' = [step EXCEPT ![w] = "fail"]
          /\ UNCHANGED <<status, drift, batch, current, seen>>
    /\ UNCHANGED <<attempts, at, owner, reconciled, replays>>

\* Mutant: the failure query does not ask for the owner token.
OpenAny(w) == status[current[w]] \in {"PROCESSING", "PENDING"}

\* The query of mark_outbox_event_failed matches.
Owns(w) == status[current[w]] \in {"PROCESSING", "PENDING"} /\ owner[current[w]] = w

\* mark_outbox_event_failed, first half: read the attempts.
Fail(w) ==
    /\ step[w] = "fail"
    /\ IF Owns(w)
         THEN /\ step' = [step EXCEPT ![w] = "record"]
              /\ seen' = [seen EXCEPT ![w] = attempts[current[w]] + 1]
              /\ UNCHANGED <<drift, batch, current>>
         ELSE Finish(w)
    /\ UNCHANGED <<queue, reconciled, replays>>

\* Second half: write the count read, and back off or give the event up.
Record(w) ==
    LET e == current[w] IN
    /\ step[w] = "record"
    /\ IF Owns(w)
         THEN /\ attempts' = [attempts EXCEPT ![e] = seen[w]]
              /\ owner' = [owner EXCEPT ![e] = Nobody]
              /\ IF seen[w] >= MaxAttempts
                   THEN /\ status' = [status EXCEPT ![e] = "FAILED"]
                        /\ at' = [at EXCEPT ![e] = -Oldest]
                   ELSE /\ status' = [status EXCEPT ![e] = "PENDING"]
                        /\ at' = [at EXCEPT ![e] = Backoff[seen[w]]]
         ELSE UNCHANGED queue
    /\ Finish(w)
    /\ UNCHANGED <<reconciled, replays>>

\* The process dies, or a database error ends the iteration; what it claimed
\* stays PROCESSING.
Crash(w) ==
    /\ step[w] # "idle"
    /\ step' = [step EXCEPT ![w] = "idle"]
    /\ drift' = [drift EXCEPT ![w] = 0]
    /\ batch' = [batch EXCEPT ![w] = {}]
    /\ current' = [current EXCEPT ![w] = NoEvent]
    /\ seen' = [seen EXCEPT ![w] = 0]
    /\ UNCHANGED <<queue, reconciled, replays>>

\* Time passes.
Tick ==
    /\ at' = [e \in Events |-> IF at[e] > -Oldest THEN at[e] - 1 ELSE at[e]]
    /\ drift' = [w \in Workers |-> IF step[w] = "claim" /\ drift[w] <= Lease
                                   THEN drift[w] + 1 ELSE drift[w]]
    /\ UNCHANGED <<status, attempts, owner, reconciled, replays, step, batch, current, seen>>

-----------------------------------------------------------------------------
Work(w) == \/ Begin(w) \/ Claim(w) \/ EndClaim(w) \/ Process(w)
           \/ Complete(w) \/ Fail(w) \/ Record(w)

Next == \/ \E e \in Events : Publish(e) \/ Replay(e)
        \/ \E w \in Workers : Work(w) \/ Crash(w)
        \/ Tick

Spec == Init /\ [][Next]_vars

\* Time goes on, the worker's endless loop keeps iterating, and it does not
\* die for ever at the same point of an iteration.
FairSpec ==
    /\ Spec
    /\ WF_vars(Tick)
    /\ \A w \in Workers :
         /\ WF_vars(Begin(w))
         /\ \A n \in 0 .. BatchSize - 1 : SF_vars(Claim(w) /\ Cardinality(batch[w]) = n)
         /\ WF_vars(EndClaim(w)) /\ SF_vars(EndClaim(w) /\ batch[w] # {})
         /\ SF_vars(Process(w))
         /\ SF_vars(Complete(w)) /\ SF_vars(Fail(w)) /\ SF_vars(Record(w))

-----------------------------------------------------------------------------
(* Properties.                                                             *)

\* An event is COMPLETED only with its reconciliation on record, whatever
\* workers raced for it, failed or died (worker.py:125-137).
CompletedIsReconciled ==
    \A e \in Events : status[e] = "COMPLETED" => e \in reconciled

\* An event gets MaxAttempts tries and one more for each replay, and is
\* given up exactly when they are used: failures are neither lost nor counted
\* twice by workers that read the count, lose the lease and write it late
\* (repository.py:98-146).
RetryBudget ==
    \A e \in Events :
        IF status[e] = "FAILED" THEN attempts[e] = MaxAttempts + replays[e]
                                ELSE attempts[e] < MaxAttempts + replays[e]

\* Only the present owner of the lease settles an event, and a completed event
\* stays so: a worker whose lease was reclaimed can neither complete nor fail
\* it, nor can one that completed it, lost the answer and records a failure
\* (worker.py:130-137; scenario 4 of test_real_concurrency_and_invariants.py).
OnlyOwnerSettles ==
    [][\A e \in Events :
          /\ status[e] = "PROCESSING" /\ status'[e] # "PROCESSING" =>
                /\ owner[e] \in Workers
                /\ current[owner[e]] = e
                /\ step'[owner[e]] # step[owner[e]]
          /\ status[e] = "COMPLETED" => status'[e] = "COMPLETED"]_vars

\* Every event is eventually completed or given up, if workers crash but not
\* for ever at the same point.
EventSettles ==
    \A e \in Events : status[e] = "PENDING" ~> status[e] \in {"COMPLETED", "FAILED"}
=============================================================================
