--------------------------- MODULE DurableTraining ---------------------------
(***************************************************************************)
(* Durable training jobs: the training_jobs collection, the worker loops   *)
(* that admit, lease and run its jobs, the calls that submit and cancel    *)
(* them, and the Jetson service that trains the candidates and serves one  *)
(* active model.  All jobs are of one task, so that their candidates       *)
(* compete for the same place; job j's candidate model is called j.        *)
(*                                                                         *)
(* A worker's coroutine runs from one await to the next, but other         *)
(* processes' writes fall between any two of its database calls: each call *)
(* whose answer is used later is a step of its own.  Timestamps are kept   *)
(* as what the code compares: live[j] while lease_expires_at (for an       *)
(* unowned ADMITTED job: updated_at plus 60 s) is in the future.  A lease  *)
(* value never comes back, so a filter on a lease value read earlier       *)
(* matches until the next write to it: Renewed clears such pending writes. *)
(***************************************************************************)
EXTENDS Integers, FiniteSets

CONSTANTS
    Workers,      \* worker loops, one for each process
    JobCount,     \* jobs that passed deduplication, numbered by created_at
    Cancellable,  \* bound: jobs somebody may cancel
    MaxCrashes,   \* bound: process crashes
    MaxExpiries,  \* bound: leases that run out under a live worker
    MaxFaults,    \* bound: failing Jetson calls
    Replacements, \* do the decay monitor and operators change the active model?
    Nobody,       \* no lease_owner
    Gone,         \* the worker_id of a process that is no more
    NoModel,      \* no active model known
    Champion      \* the model in service at the start

Jobs == 1 .. JobCount
Models == Jobs \cup {Champion}

ASSUME BoundAssumption ==
    /\ JobCount \in Nat /\ MaxCrashes \in Nat /\ MaxExpiries \in Nat /\ MaxFaults \in Nat
    /\ Cancellable \subseteq Jobs

ASSUME ReplacementsAssumption == Replacements \in BOOLEAN

ASSUME NameAssumption ==
    /\ Nobody \notin Workers /\ Gone \notin Workers /\ Nobody # Gone
    /\ Champion \notin Jobs /\ NoModel \notin Models

VARIABLES
    status, owner, live,  \* the job documents: status, lease_owner, see above
    jetson, candidate,    \* jetson_job_id and candidate_model_id are set
    training,             \* Jetson: the remote job of each job
    active, served,       \* Jetson: the model in service; all that ever were
    moved,                \* history: replaced by others since the last comparison
    pc, cur,              \* each worker: where it is, the job it is at
    scan,                 \* its pending reconcile write for each job
    read,                 \* the job document it read before taking the lease
    seen,                 \* the champion it found, NoModel if none
    outcome,              \* the status it is about to write
    cancelling,           \* jobs whose cancel_job waits for Jetson
    crashes, expiries, faults

document == <<status, owner, live, jetson, candidate>>
remote == <<training, active, served, moved>>
locals == <<pc, cur, scan, read, seen, outcome>>
bounds == <<crashes, expiries, faults>>
vars == <<document, remote, locals, cancelling, bounds>>

Active == {"ADMITTED", "RUNNING", "EVALUATING"}
Terminal == {"PROMOTED", "REJECTED", "FAILED", "CANCELLED", "TIMEOUT"}
Statuses == {"NONE", "QUEUED"} \cup Active \cup Terminal

\* Where a worker that holds, or held, a lease can be.
Executing == {"submit", "store", "poll", "ask", "keep", "mark",
              "evaluate", "gate", "lock", "promote", "verify", "settle"}
Steps == {"idle", "reconcile", "count", "health", "take", "post", "revert",
          "find", "acquire"} \cup Executing

NoJob == 0
ActiveJobs == {j \in Jobs : status[j] \in Active}
Oldest(S) == {j \in S : \A k \in S : j <= k}
Nothing == [evaluating |-> FALSE, jetson |-> FALSE, candidate |-> FALSE]

TypeOK ==
    /\ status \in [Jobs -> Statuses]
    /\ owner \in [Jobs -> Workers \cup {Nobody, Gone}]
    /\ live \in [Jobs -> BOOLEAN]
    /\ jetson \in [Jobs -> BOOLEAN] /\ candidate \in [Jobs -> BOOLEAN]
    /\ training \in [Jobs -> {"none", "running", "completed", "failed"}]
    /\ active \in Models /\ served \subseteq Models /\ moved \in BOOLEAN
    /\ pc \in [Workers -> Steps]
    /\ cur \in [Workers -> Jobs \cup {NoJob}]
    /\ scan \in [Workers -> [Jobs -> {"skip", "unadmit", "requeue", "release"}]]
    /\ read \in [Workers -> [evaluating : BOOLEAN, jetson : BOOLEAN, candidate : BOOLEAN]]
    /\ seen \in [Workers -> Models \cup {NoModel}]
    /\ outcome \in [Workers -> Terminal \cup {"none"}]
    /\ cancelling \subseteq Jobs
    /\ crashes \in 0 .. MaxCrashes /\ expiries \in 0 .. MaxExpiries /\ faults \in 0 .. MaxFaults

Init ==
    /\ status = [j \in Jobs |-> "NONE"]
    /\ owner = [j \in Jobs |-> Nobody]
    /\ live = [j \in Jobs |-> FALSE]
    /\ jetson = [j \in Jobs |-> FALSE] /\ candidate = [j \in Jobs |-> FALSE]
    /\ training = [j \in Jobs |-> "none"]
    /\ active = Champion /\ served = {Champion} /\ moved = FALSE
    /\ pc = [w \in Workers |-> "idle"]
    /\ cur = [w \in Workers |-> NoJob]
    /\ scan = [w \in Workers |-> [j \in Jobs |-> "skip"]]
    /\ read = [w \in Workers |-> Nothing]
    /\ seen = [w \in Workers |-> NoModel]
    /\ outcome = [w \in Workers |-> "none"]
    /\ cancelling = {}
    /\ crashes = 0 /\ expiries = 0 /\ faults = 0

-----------------------------------------------------------------------------
(* Parts of steps.                                                         *)

\* Worker w goes on at step s.
Go(w, s) == pc' = [pc EXCEPT ![w] = s]

\* Worker w ends the iteration of its loop and forgets its job.
Rest(w) ==
    /\ pc' = [pc EXCEPT ![w] = "idle"]
    /\ cur' = [cur EXCEPT ![w] = NoJob]
    /\ read' = [read EXCEPT ![w] = Nothing]
    /\ seen' = [seen EXCEPT ![w] = NoModel]
    /\ outcome' = [outcome EXCEPT ![w] = "none"]

\* Mutant of Conclude: the final status is not set.
ConcludeWithout(w, s) ==
    /\ pc' = [pc EXCEPT ![w] = "settle"]
    /\ UNCHANGED outcome

\* Worker w goes on to write the final status s.
Conclude(w, s) ==
    /\ pc' = [pc EXCEPT ![w] = "settle"]
    /\ outcome' = [outcome EXCEPT ![w] = s]

\* The reconcile writes that stay pending when job j gets a new lease value:
\* those that filter on the value read match nothing any more.
Renewed(j) ==
    [w \in Workers |-> [scan[w] EXCEPT ![j] = IF @ = "unadmit" THEN @ ELSE "skip"]]

\* A call to Jetson fails.
Fault == faults < MaxFaults /\ faults' = faults + 1

Owns(w) == owner[cur[w]] = w

-----------------------------------------------------------------------------
(* Callers.                                                                *)

\* submit_job, for a request that finds no active job under its key.
Submit(j) ==
    /\ status[j] = "NONE"
    /\ \A k \in Jobs : k < j => status[k] # "NONE"
    /\ status' = [status EXCEPT ![j] = "QUEUED"]
    /\ UNCHANGED <<owner, live, jetson, candidate, remote, locals, cancelling, bounds>>

\* cancel_job up to its write: a job with a remote job is cancelled there
\* first, and the call waits for the answer, or for its failure.
Cancel(j) ==
    /\ j \in Cancellable \ cancelling
    /\ status[j] \notin {"NONE", "CANCELLED"}
    /\ cancelling' = cancelling \cup {j}
    /\ \/ training' = training
       \/ /\ jetson[j] /\ training[j] = "running"
          /\ training' = [training EXCEPT ![j] = "failed"]
    /\ UNCHANGED <<document, active, served, moved, locals, bounds>>

\* The write of cancel_job, which looks at no status.
CancelWrite(j) ==
    /\ j \in cancelling
    /\ cancelling' = cancelling \ {j}
    /\ status' = [status EXCEPT ![j] = "CANCELLED"]
    /\ owner' = [owner EXCEPT ![j] = Nobody]
    /\ live' = [live EXCEPT ![j] = FALSE]
    /\ scan' = Renewed(j)
    /\ UNCHANGED <<jetson, candidate, remote, pc, cur, read, seen, outcome, bounds>>

-----------------------------------------------------------------------------
(* One iteration of start_worker_loop: reconcile, admit, find a job.       *)

\* What reconcile_stale_leases will write to job j, from what it reads now.
StaleWrite(j) ==
    IF status[j] \notin Active \/ live[j] THEN "skip"
    ELSE IF status[j] = "ADMITTED" THEN "unadmit"
    ELSE IF owner[j] = Nobody THEN "skip"
    ELSE IF status[j] = "RUNNING" /\ ~jetson[j] THEN "requeue"
    ELSE "release"

\* reconcile_stale_leases reads the active jobs.
Reconcile(w) ==
    /\ pc[w] = "idle"
    /\ scan' = [scan EXCEPT ![w] = [j \in Jobs |-> StaleWrite(j)]]
    /\ Go(w, "reconcile")
    /\ UNCHANGED <<document, remote, cur, read, seen, outcome, cancelling, bounds>>

\* Its next write.  Only the write to an ADMITTED job filters on the status.
ReconcileWrite(w) ==
    /\ pc[w] = "reconcile"
    /\ \E j \in Oldest({k \in Jobs : scan[w][k] # "skip"}) :
           IF scan[w][j] = "unadmit" /\ status[j] # "ADMITTED"
           THEN /\ scan' = [scan EXCEPT ![w][j] = "skip"]
                /\ UNCHANGED <<status, owner, live>>
           ELSE /\ status' = [status EXCEPT ![j] = IF scan[w][j] = "release" THEN @ ELSE "QUEUED"]
                /\ owner' = [owner EXCEPT ![j] = Nobody]
                /\ live' = [live EXCEPT ![j] = FALSE]
                /\ scan' = [Renewed(j) EXCEPT ![w][j] = "skip"]
    /\ UNCHANGED <<jetson, candidate, remote, pc, cur, read, seen, outcome, cancelling, bounds>>

\* Mutant of CountActive: only the jobs being trained are counted.
CountRunning(w) ==
    /\ pc[w] = "reconcile"
    /\ \A j \in Jobs : scan[w][j] = "skip"
    /\ Go(w, IF \A j \in Jobs : status[j] # "RUNNING" THEN "health" ELSE "find")
    /\ UNCHANGED <<document, remote, cur, scan, read, seen, outcome, cancelling, bounds>>

\* try_admit_next_job counts the active jobs.
CountActive(w) ==
    /\ pc[w] = "reconcile"
    /\ \A j \in Jobs : scan[w][j] = "skip"
    /\ Go(w, IF ActiveJobs = {} THEN "health" ELSE "find")
    /\ UNCHANGED <<document, remote, cur, scan, read, seen, outcome, cancelling, bounds>>

\* It asks Jetson for its load.  A failed call is answered by a report without
\* one, which reads as no load and admits.
Health(w) ==
    /\ pc[w] = "health"
    /\ \/ /\ \A j \in Jobs : training[j] # "running"
          /\ Go(w, "take") /\ UNCHANGED faults
       \/ /\ \E j \in Jobs : training[j] = "running"
          /\ Go(w, "find") /\ UNCHANGED faults
       \/ Fault /\ Go(w, "take")
    /\ UNCHANGED <<document, remote, cur, scan, read, seen, outcome, cancelling, crashes, expiries>>

\* It takes the oldest queued job, if there is one.
Take(w) ==
    LET queued == {j \in Jobs : status[j] = "QUEUED"}
    IN  /\ pc[w] = "take"
        /\ \/ /\ queued = {}
              /\ Go(w, "find")
              /\ UNCHANGED <<status, live, cur>>
           \/ \E j \in Oldest(queued) :
                  /\ status' = [status EXCEPT ![j] = "ADMITTED"]
                  /\ live' = [live EXCEPT ![j] = TRUE]
                  /\ cur' = [cur EXCEPT ![w] = j]
                  /\ Go(w, "post")
        /\ UNCHANGED <<owner, jetson, candidate, remote, scan, read, seen, outcome, cancelling, bounds>>

\* The safety gate counts again: the oldest active job stays.
PostCount(w) ==
    LET many == Cardinality(ActiveJobs) > 1
    IN  /\ pc[w] = "post"
        /\ IF many /\ cur[w] \notin Oldest(ActiveJobs)
           THEN Go(w, "revert") /\ UNCHANGED cur
           ELSE Go(w, "find") /\ cur' = [cur EXCEPT ![w] = NoJob]
        /\ UNCHANGED <<document, remote, scan, read, seen, outcome, cancelling, bounds>>

\* A newer admission is undone, unless the job is no longer ADMITTED.
Revert(w) ==
    /\ pc[w] = "revert"
    /\ status' = [status EXCEPT ![cur[w]] = IF @ = "ADMITTED" THEN "QUEUED" ELSE @]
    /\ cur' = [cur EXCEPT ![w] = NoJob]
    /\ Go(w, "find")
    /\ UNCHANGED <<owner, live, jetson, candidate, remote, scan, read, seen, outcome, cancelling, bounds>>

\* The jobs the loop may process: its own, unowned ones, expired leases.
Available(w) ==
    {j \in ActiveJobs : owner[j] \in {w, Nobody} \/ ~live[j]}

\* The loop finds some job (the query has no order) and process_admitted_job
\* reads it.
FindAndRead(w) ==
    /\ pc[w] = "find"
    /\ \/ Available(w) = {} /\ Rest(w)
       \/ \E j \in Available(w) :
              /\ cur' = [cur EXCEPT ![w] = j]
              /\ read' = [read EXCEPT ![w] =
                    [evaluating |-> status[j] = "EVALUATING",
                     jetson |-> jetson[j], candidate |-> candidate[j]]]
              /\ Go(w, "acquire")
              /\ UNCHANGED <<seen, outcome>>
    /\ UNCHANGED <<document, remote, scan, cancelling, bounds>>

-----------------------------------------------------------------------------
(* process_admitted_job.                                                   *)

\* Mutants of CanAcquire: without the test of the lease; without the status.
CanAcquireActive(w, j) == status[j] \in Active

CanAcquireFree(w, j) == status[j] = "ADMITTED" \/ owner[j] \in {Nobody, w} \/ ~live[j]

\* The filter of the lease acquisition.
CanAcquire(w, j) ==
    /\ status[j] \in Active
    /\ \/ status[j] = "ADMITTED"
       \/ owner[j] = Nobody
       \/ ~live[j]
       \/ owner[j] = w

\* The conditional lease acquisition; what was read before it decides where
\* the job is taken up.
Acquire(w) ==
    LET j == cur[w]
    IN  /\ pc[w] = "acquire"
        /\ \/ /\ CanAcquire(w, j)
              /\ status' = [status EXCEPT ![j] = IF read[w].evaluating THEN "EVALUATING" ELSE "RUNNING"]
              /\ owner' = [owner EXCEPT ![j] = w]
              /\ live' = [live EXCEPT ![j] = TRUE]
              /\ scan' = Renewed(j)
              /\ Go(w, IF read[w].candidate THEN "mark" ELSE IF read[w].jetson THEN "poll" ELSE "submit")
              /\ read' = [read EXCEPT ![w] = Nothing]
              /\ UNCHANGED <<cur, seen, outcome>>
           \/ /\ ~CanAcquire(w, j)
              /\ Rest(w)
              /\ UNCHANGED <<status, owner, live, scan>>
        /\ UNCHANGED <<jetson, candidate, remote, cancelling, bounds>>

\* submit_training_job; Jetson knows the job again by its idempotency key,
\* and the answer may be lost after it has taken the job.
SubmitRemote(w) ==
    LET start == [training EXCEPT ![cur[w]] = IF @ = "none" THEN "running" ELSE @]
    IN  /\ pc[w] = "submit"
        /\ \/ /\ training' = start
              /\ Go(w, "store")
              /\ UNCHANGED <<outcome, faults>>
           \/ /\ Fault
              /\ training' \in {training, start}
              /\ Conclude(w, "FAILED")
        /\ UNCHANGED <<document, active, served, moved, cur, scan, read, seen, cancelling, crashes, expiries>>

StoreRemoteId(w) ==
    /\ pc[w] = "store"
    /\ jetson' = [jetson EXCEPT ![cur[w]] = @ \/ Owns(w)]
    /\ Go(w, "poll")
    /\ UNCHANGED <<status, owner, live, candidate, remote, cur, scan, read, seen, outcome, cancelling, bounds>>

\* One turn of the poll loop: the heartbeat, unless the time is up.
Heartbeat(w) ==
    LET j == cur[w]
    IN  /\ pc[w] = "poll"
        /\ \/ /\ Owns(w) /\ status[j] # "CANCELLED"
              /\ live' = [live EXCEPT ![j] = TRUE]
              /\ scan' = Renewed(j)
              /\ Go(w, "ask")
              /\ UNCHANGED <<cur, read, seen, outcome>>
           \/ /\ ~(Owns(w) /\ status[j] # "CANCELLED")
              /\ Rest(w)
              /\ UNCHANGED <<live, scan>>
           \/ /\ Conclude(w, "TIMEOUT")
              /\ UNCHANGED <<live, cur, scan, read, seen>>
        /\ UNCHANGED <<status, owner, jetson, candidate, remote, cancelling, bounds>>

\* Mutant of AskRemote: a failed training is asked about again.
AskUntilCompleted(w) ==
    /\ pc[w] = "ask"
    /\ Go(w, IF training[cur[w]] = "completed" THEN "keep" ELSE "poll")
    /\ UNCHANGED <<document, remote, cur, scan, read, seen, outcome, cancelling, bounds>>

\* get_training_job; its exception leaves the job as it is.
AskRemote(w) ==
    /\ pc[w] = "ask"
    /\ \/ /\ training[cur[w]] = "running"
          /\ Go(w, "poll") /\ UNCHANGED <<cur, read, seen, outcome, faults>>
       \/ /\ training[cur[w]] = "completed"
          /\ Go(w, "keep") /\ UNCHANGED <<cur, read, seen, outcome, faults>>
       \/ /\ training[cur[w]] = "failed"
          /\ Conclude(w, "FAILED") /\ UNCHANGED <<cur, read, seen, faults>>
       \/ Fault /\ Rest(w)
    /\ UNCHANGED <<document, remote, scan, cancelling, crashes, expiries>>

KeepCandidate(w) ==
    /\ pc[w] = "keep"
    /\ candidate' = [candidate EXCEPT ![cur[w]] = @ \/ Owns(w)]
    /\ Go(w, "mark")
    /\ UNCHANGED <<status, owner, live, jetson, remote, cur, scan, read, seen, outcome, cancelling, bounds>>

MarkEvaluating(w) ==
    /\ pc[w] = "mark"
    /\ status' = [status EXCEPT ![cur[w]] = IF Owns(w) THEN "EVALUATING" ELSE @]
    /\ Go(w, "evaluate")
    /\ UNCHANGED <<owner, live, jetson, candidate, remote, cur, scan, read, seen, outcome, cancelling, bounds>>

\* evaluate_candidate, the holdout evaluation.
Evaluate(w) ==
    /\ pc[w] = "evaluate"
    /\ \/ Go(w, "gate") /\ UNCHANGED <<outcome, faults>>
       \/ Fault /\ Conclude(w, "FAILED")
    /\ UNCHANGED <<document, remote, cur, scan, read, seen, cancelling, crashes, expiries>>

\* Mutant of Gate: the candidate is compared with the model it started from.
GateAgainstBase(w) ==
    /\ pc[w] = "gate"
    /\ seen' = [seen EXCEPT ![w] = Champion]
    /\ \/ Go(w, "lock") /\ UNCHANGED outcome
       \/ Conclude(w, "REJECTED")
    /\ moved' = FALSE
    /\ UNCHANGED <<document, training, active, served, cur, scan, read, cancelling, bounds>>

\* The promotion gate: the champion is looked up (an exception counts as no
\* champion), its metrics are fetched, and the candidate is compared with it,
\* or with the fixed thresholds alone.  Missing metrics reject the candidate.
Gate(w) ==
    /\ pc[w] = "gate"
    /\ \/ seen' = [seen EXCEPT ![w] = active] /\ UNCHANGED faults
       \/ Fault /\ UNCHANGED seen
    /\ \/ Go(w, "lock") /\ UNCHANGED outcome
       \/ Conclude(w, "REJECTED")
    /\ moved' = FALSE
    /\ UNCHANGED <<document, training, active, served, cur, scan, read, cancelling, crashes, expiries>>

\* The recheck before promotion and the refresh that repeats its conditions.
LockForPromotion(w) ==
    LET j == cur[w]
        ok == Owns(w) /\ status[j] # "CANCELLED" /\ live[j]
    IN  /\ pc[w] = "lock"
        /\ \/ /\ ok
              /\ live' = [live EXCEPT ![j] = TRUE]
              /\ scan' = Renewed(j)
              /\ Go(w, "promote")
              /\ UNCHANGED <<cur, read, seen, outcome>>
           \/ /\ ~ok
              /\ Rest(w)
              /\ UNCHANGED <<live, scan>>
        /\ UNCHANGED <<status, owner, jetson, candidate, remote, cancelling, bounds>>

\* promote_candidate: Jetson compares no expected champion.  Its answer may
\* be lost, and a positive answer need not mean the model is in service.
Promote(w) ==
    /\ pc[w] = "promote"
    /\ \/ active' = cur[w] /\ served' = served \cup {cur[w]}
       \/ UNCHANGED <<active, served>>
    /\ \/ Go(w, "verify") /\ UNCHANGED <<outcome, faults>>
       \/ Fault /\ Conclude(w, "FAILED")
    /\ UNCHANGED <<document, training, moved, cur, scan, read, seen, cancelling, crashes, expiries>>

\* The read-back of the active model; its exception ends the iteration.
Verify(w) ==
    /\ pc[w] = "verify"
    /\ \/ /\ active = cur[w]
          /\ Conclude(w, "PROMOTED") /\ UNCHANGED <<cur, read, seen, faults>>
       \/ /\ active # cur[w]
          /\ Conclude(w, "FAILED") /\ UNCHANGED <<cur, read, seen, faults>>
       \/ Fault /\ Rest(w)
    /\ UNCHANGED <<document, remote, scan, cancelling, crashes, expiries>>

\* The write of a final status, filtered on the owner.
Settle(w) ==
    /\ pc[w] = "settle"
    /\ status' = [status EXCEPT ![cur[w]] = IF Owns(w) THEN outcome[w] ELSE @]
    /\ Rest(w)
    /\ UNCHANGED <<owner, live, jetson, candidate, remote, scan, cancelling, bounds>>

-----------------------------------------------------------------------------
(* The environment.                                                        *)

\* Jetson ends a training job.
RemoteEnds(j) ==
    /\ training[j] = "running"
    /\ \E result \in {"completed", "failed"} : training' = [training EXCEPT ![j] = result]
    /\ UNCHANGED <<document, active, served, moved, locals, cancelling, bounds>>

\* The decay monitor rolls the model in service back, or an operator promotes
\* or rolls back one: Jetson serves another model it has.
ReplaceActive(m) ==
    /\ Replacements
    /\ m \in (served \cup {j \in Jobs : training[j] = "completed"}) \ {active}
    /\ active' = m /\ served' = served \cup {m}
    /\ moved' = TRUE
    /\ UNCHANGED <<document, training, locals, cancelling, bounds>>

\* A process ends and starts again: its worker has a new worker_id.
Crash(w) ==
    /\ crashes < MaxCrashes
    /\ crashes' = crashes + 1
    /\ Rest(w)
    /\ scan' = [scan EXCEPT ![w] = [j \in Jobs |-> "skip"]]
    /\ owner' = [j \in Jobs |-> IF owner[j] = w THEN Gone ELSE owner[j]]
    /\ UNCHANGED <<status, live, jetson, candidate, remote, cancelling, expiries, faults>>

\* Time passes: the lease of a process that is no more runs out, or an
\* admitted job has waited a minute for a worker.
RunsOut(j) ==
    /\ live[j] /\ owner[j] \in {Nobody, Gone} /\ status[j] \in Active
    /\ live' = [live EXCEPT ![j] = FALSE]
    /\ UNCHANGED <<status, owner, jetson, candidate, remote, locals, cancelling, bounds>>

\* A live worker is held up for longer than its lease.
Stall(j) ==
    /\ live[j] /\ owner[j] \in Workers /\ status[j] \in Active
    /\ expiries < MaxExpiries
    /\ expiries' = expiries + 1
    /\ live' = [live EXCEPT ![j] = FALSE]
    /\ UNCHANGED <<status, owner, jetson, candidate, remote, locals, cancelling, crashes, faults>>

WorkerStep(w) ==
    \/ Reconcile(w) \/ ReconcileWrite(w)
    \/ CountActive(w) \/ Health(w) \/ Take(w) \/ PostCount(w) \/ Revert(w)
    \/ FindAndRead(w) \/ Acquire(w)
    \/ SubmitRemote(w) \/ StoreRemoteId(w) \/ Heartbeat(w) \/ AskRemote(w)
    \/ KeepCandidate(w) \/ MarkEvaluating(w) \/ Evaluate(w) \/ Gate(w)
    \/ LockForPromotion(w) \/ Promote(w) \/ Verify(w) \/ Settle(w)

Next ==
    \/ \E j \in Jobs : Submit(j) \/ Cancel(j) \/ CancelWrite(j)
    \/ \E w \in Workers : WorkerStep(w)
    \/ \E j \in Jobs : RemoteEnds(j) \/ RunsOut(j) \/ Stall(j)
    \/ \E m \in Models : ReplaceActive(m)
    \/ \E w \in Workers : Crash(w)

Spec == Init /\ [][Next]_vars

\* The loop is scheduled again and again, Jetson ends what it trains, and
\* time passes.  Nothing obliges a caller, an operator, a crash or a fault.
FairSpec ==
    /\ Spec
    /\ \A w \in Workers : WF_vars(WorkerStep(w))
    /\ \A j \in Jobs : WF_vars(RemoteEnds(j)) /\ WF_vars(RunsOut(j)) /\ WF_vars(CancelWrite(j))

-----------------------------------------------------------------------------
(* Properties.                                                             *)

\* As long as no lease ran out under a live worker, no two workers execute
\* the same job, across crashes, requeues and repeated admissions.
ExclusiveExecution ==
    expiries = 0 =>
        \A v, w \in Workers :
            pc[v] \in Executing /\ pc[w] \in Executing /\ cur[v] = cur[w] => v = w

\* A cancelled job stays cancelled, whatever its worker, a reconciling worker
\* or an admitting one still has to write about it.  As long as no lease ran
\* out under a live worker, any other outcome is changed by nothing but a
\* cancellation: no requeue resurrects it.
OutcomeIsFinal ==
    [][\A j \in Jobs :
          /\ status[j] = "CANCELLED" => status'[j] = "CANCELLED"
          /\ status[j] \in Terminal /\ expiries = 0 =>
                status'[j] \in {status[j], "CANCELLED"}]_vars

\* A job reported PROMOTED had its candidate in service: a promotion that
\* Jetson accepted without effect is not reported as one.
PromotedWasServed ==
    \A j \in Jobs : status[j] = "PROMOTED" => j \in served

\* One process never has two jobs active, whatever crashes, requeues and
\* cancellations come between admission and outcome (training_max is 1).
SoloCapacity ==
    Cardinality(Workers) = 1 => Cardinality(ActiveJobs) <= 1

\* One process never replaces the champion by a candidate that was compared
\* with another model, though promotion is not a compare-and-swap and crashes
\* and restarts come between comparison and promotion: only a replacement by the
\* decay monitor or an operator in between can bring that about.
ComparedWithReplaced ==
    [][active' # active /\ ~moved' =>
            \E w \in Workers : cur[w] = active' /\ seen[w] \in {active, NoModel}]_vars

\* "If replacing an active champion, trusted evidence is MANDATORY": a champion
\* is only replaced by a candidate that was compared with it.
ReplacementHasEvidence ==
    [][active' # active => \E w \in Workers : cur[w] = active' /\ seen[w] = active]_vars

\* Every queued job gets an outcome.
JobSettles == \A j \in Jobs : status[j] = "QUEUED" ~> status[j] \in Terminal
=============================================================================
