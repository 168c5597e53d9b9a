------------------------ MODULE DurableTrainingProofs ------------------------
(* Theorems about DurableTraining, for any workers, jobs and bounds.       *)
EXTENDS DurableTraining, FiniteSetTheorems, TLAPS

-----------------------------------------------------------------------------
(* The inductive invariant, in parts.                                      *)

\* A worker that acts on a job has one; a worker that settles has an outcome.
Located ==
    \A w \in Workers : pc[w] \in {"post", "revert", "acquire"} \cup Executing => cur[w] \in Jobs

Concluded ==
    \A w \in Workers :
        pc[w] = "settle" => outcome[w] \in {"PROMOTED", "REJECTED", "FAILED", "TIMEOUT"}

DocumentsOK ==
    /\ status \in [Jobs -> Statuses]
    /\ owner \in [Jobs -> Workers \cup {Nobody, Gone}]
    /\ live \in [Jobs -> BOOLEAN]
    /\ jetson \in [Jobs -> BOOLEAN] /\ candidate \in [Jobs -> BOOLEAN]

RemoteOK ==
    /\ training \in [Jobs -> {"none", "running", "completed", "failed"}]
    /\ active \in Models /\ served \subseteq Models /\ moved \in BOOLEAN
    /\ cancelling \subseteq Jobs
    /\ crashes \in 0 .. MaxCrashes /\ expiries \in 0 .. MaxExpiries /\ faults \in 0 .. MaxFaults

PlacesOK ==
    /\ pc \in [Workers -> Steps]
    /\ cur \in [Workers -> Jobs \cup {NoJob}]
    /\ Located

PendingOK ==
    scan \in [Workers -> [Jobs -> {"skip", "unadmit", "requeue", "release"}]]

AnswersOK ==
    /\ read \in [Workers -> [evaluating : BOOLEAN, jetson : BOOLEAN, candidate : BOOLEAN]]
    /\ seen \in [Workers -> Models \cup {NoModel}]
    /\ outcome \in [Workers -> Terminal \cup {"none"}]
    /\ Concluded

Typed == DocumentsOK /\ RemoteOK /\ PlacesOK /\ PendingOK /\ AnswersOK

\* The model in service is one that was promoted, and so is the candidate that
\* a worker is about to report PROMOTED.
Reported ==
    \A w \in Workers : pc[w] = "settle" /\ outcome[w] = "PROMOTED" => cur[w] \in served

Served == active \in served /\ Reported /\ PromotedWasServed

\* A job nobody has leased yet, or a cancelled one, has no owner, and no
\* pending write can change a cancelled one.
Unowned ==
    \A j \in Jobs : status[j] \in {"NONE", "QUEUED", "ADMITTED", "CANCELLED"} => owner[j] = Nobody

Filtered ==
    \A w \in Workers, j \in Jobs : status[j] = "CANCELLED" => scan[w][j] \in {"skip", "unadmit"}

\* While no lease has run out under a live worker, an active job of a live
\* worker has a live lease,
LiveLease ==
    expiries = 0 =>
        \A j \in Jobs : owner[j] \in Workers /\ status[j] \in Active => live[j]

\* no pending write can take a job from a live worker or change one that has
\* its outcome,
Harmless ==
    expiries = 0 =>
        \A w \in Workers, j \in Jobs :
            owner[j] \in Workers \/ status[j] \in Terminal => scan[w][j] \in {"skip", "unadmit"}

\* and who executes a job owns it, unless it was cancelled.
Held ==
    expiries = 0 =>
        \A w \in Workers :
            pc[w] \in Executing =>
                \/ owner[cur[w]] = w /\ status[cur[w]] \in {"RUNNING", "EVALUATING"}
                \/ status[cur[w]] = "CANCELLED"

Leased == LiveLease /\ Harmless /\ Held /\ ExclusiveExecution

\* What no step does.
CancelledKept ==
    \A j \in Jobs : status[j] = "CANCELLED" => status'[j] = "CANCELLED"

OutcomeKept ==
    \A j \in Jobs : status[j] \in Terminal /\ expiries = 0 => status'[j] \in {status[j], "CANCELLED"}

IInv == Typed /\ Served /\ Unowned /\ Filtered /\ Leased

-----------------------------------------------------------------------------
\* A worker that rests, goes on or concludes has well-typed answers.
LEMMA RestAnswers ==
    ASSUME Typed, NEW w \in Workers, Rest(w)
    PROVE  AnswersOK'
<1>1. /\ pc' = [pc EXCEPT ![w] = "idle"]
      /\ read' = [read EXCEPT ![w] = Nothing]
      /\ seen' = [seen EXCEPT ![w] = NoModel]
      /\ outcome' = [outcome EXCEPT ![w] = "none"]
  BY DEF Rest
<1>2. Nothing \in [evaluating : BOOLEAN, jetson : BOOLEAN, candidate : BOOLEAN]
  BY DEF Nothing
<1>3. read' \in [Workers -> [evaluating : BOOLEAN, jetson : BOOLEAN, candidate : BOOLEAN]]
  BY <1>1, <1>2 DEF Typed, AnswersOK
<1>4. seen' \in [Workers -> Models \cup {NoModel}] /\ outcome' \in [Workers -> Terminal \cup {"none"}]
  BY <1>1 DEF Typed, AnswersOK
<1>5. Concluded'
  BY <1>1 DEF Typed, AnswersOK, PlacesOK, Concluded
<1> QED
  BY <1>3, <1>4, <1>5 DEF AnswersOK

LEMMA GoAnswers ==
    ASSUME Typed, NEW w \in Workers, NEW s \in Steps \ {"settle"}, Go(w, s), UNCHANGED outcome,
           seen' \in [Workers -> Models \cup {NoModel}],
           read' \in [Workers -> [evaluating : BOOLEAN, jetson : BOOLEAN, candidate : BOOLEAN]]
    PROVE  AnswersOK'
  BY DEF Go, Typed, AnswersOK, PlacesOK, Concluded

LEMMA ConcludeAnswers ==
    ASSUME Typed, NEW w \in Workers, NEW s \in {"PROMOTED", "REJECTED", "FAILED", "TIMEOUT"},
           Conclude(w, s), UNCHANGED read, seen' \in [Workers -> Models \cup {NoModel}]
    PROVE  AnswersOK'
  BY DEF Conclude, Typed, AnswersOK, PlacesOK, Concluded, Terminal

\* What Renewed leaves pending is well typed.
LEMMA RenewedType ==
    ASSUME PendingOK, NEW j \in Jobs
    PROVE  Renewed(j) \in [Workers -> [Jobs -> {"skip", "unadmit", "requeue", "release"}]]
  BY DEF PendingOK, Renewed

\* Clearing one entry clears no other.
LEMMA ClearedEntry ==
    ASSUME NEW f \in [Workers -> [Jobs -> {"skip", "unadmit", "requeue", "release"}]],
           NEW w \in Workers, NEW j \in Jobs
    PROVE  \A v \in Workers, k \in Jobs :
               [f EXCEPT ![w][j] = "skip"][v][k] = IF v = w /\ k = j THEN "skip" ELSE f[v][k]
  OBVIOUS

\* Every step keeps the types of the documents.
LEMMA DocumentsStep ==
    ASSUME Typed, [Next]_vars
    PROVE  DocumentsOK'
<1>1. CASE UNCHANGED <<document>>
  BY <1>1 DEF Typed, DocumentsOK, document
<1>2. ASSUME NEW j \in Jobs,
           Cancel(j) \/ RemoteEnds(j)
      PROVE  DocumentsOK'
  BY <1>2, <1>1 DEF Cancel, RemoteEnds, document, locals, bounds
<1>3. ASSUME NEW w \in Workers,
           Reconcile(w) \/ CountActive(w) \/ Health(w) \/ PostCount(w) \/
              FindAndRead(w) \/ SubmitRemote(w) \/ AskRemote(w) \/ Evaluate(w)
              \/ Gate(w) \/ Promote(w) \/ Verify(w)
      PROVE  DocumentsOK'
  BY <1>3, <1>1 DEF Reconcile, CountActive, Health, PostCount, FindAndRead,
     SubmitRemote, AskRemote, Evaluate, Gate, Promote, Verify, document,
     remote, bounds
<1>4. ASSUME NEW j \in Jobs, Submit(j)
      PROVE  DocumentsOK'
  BY <1>4 DEF Submit, remote, locals, bounds, Typed, DocumentsOK, PlacesOK,
     AnswersOK, Located, Concluded, Executing, Statuses, Active, Terminal
<1>5. ASSUME NEW j \in Jobs, CancelWrite(j)
      PROVE  DocumentsOK'
  BY <1>5 DEF CancelWrite, Renewed, remote, bounds, Typed, DocumentsOK,
     PlacesOK, AnswersOK, Located, Concluded, Executing, Statuses, Active,
     Terminal
<1>6. ASSUME NEW j \in Jobs, RunsOut(j)
      PROVE  DocumentsOK'
  BY <1>6 DEF RunsOut, remote, locals, bounds, Typed, DocumentsOK, PlacesOK,
     AnswersOK, Located, Concluded, Executing, Statuses, Active, Terminal
<1>7. ASSUME NEW j \in Jobs, Stall(j)
      PROVE  DocumentsOK'
  BY <1>7 DEF Stall, remote, locals, Typed, DocumentsOK, PlacesOK, AnswersOK,
     Located, Concluded, Executing, Statuses, Active, Terminal
<1>8. ASSUME NEW w \in Workers, ReconcileWrite(w)
      PROVE  DocumentsOK'
  <2>1. CASE UNCHANGED <<status, owner, live>>
    BY <1>8, <2>1 DEF ReconcileWrite, Typed, DocumentsOK
  <2>2. ASSUME NEW j \in Jobs,
               status' = [status EXCEPT ![j] = IF scan[w][j] = "release" THEN status[j] ELSE "QUEUED"],
               owner' = [owner EXCEPT ![j] = Nobody], live' = [live EXCEPT ![j] = FALSE]
        PROVE  DocumentsOK'
    BY <1>8, <2>2 DEF ReconcileWrite, Typed, DocumentsOK, Statuses
  <2> QED
    BY <1>8, <2>1, <2>2 DEF ReconcileWrite, Oldest
<1>9. ASSUME NEW w \in Workers, Take(w)
      PROVE  DocumentsOK'
  <2>1. CASE UNCHANGED <<status, live>>
    BY <1>9, <2>1 DEF Take, Typed, DocumentsOK
  <2>2. ASSUME NEW j \in Jobs, status' = [status EXCEPT ![j] = "ADMITTED"], live' = [live EXCEPT ![j] = TRUE]
        PROVE  DocumentsOK'
    BY <1>9, <2>2 DEF Take, Typed, DocumentsOK, Statuses, Active
  <2> QED
    BY <1>9, <2>1, <2>2 DEF Take, Oldest
<1>10. ASSUME NEW w \in Workers, Revert(w)
      PROVE  DocumentsOK'
  BY <1>10 DEF Revert, Go, remote, bounds, Typed, DocumentsOK, PlacesOK,
     AnswersOK, Located, Concluded, Executing, Statuses, Active, Terminal
<1>11. ASSUME NEW w \in Workers, Acquire(w)
      PROVE  DocumentsOK'
  <2>1. CASE UNCHANGED <<status, owner, live>>
    BY <1>11, <2>1 DEF Acquire, Typed, DocumentsOK
  <2>2. CASE /\ status' = [status EXCEPT ![cur[w]] = IF read[w].evaluating THEN "EVALUATING" ELSE "RUNNING"]
             /\ owner' = [owner EXCEPT ![cur[w]] = w]
             /\ live' = [live EXCEPT ![cur[w]] = TRUE]
    BY <1>11, <2>2 DEF Acquire, Typed, DocumentsOK, Statuses, Active
  <2> QED
    BY <1>11, <2>1, <2>2 DEF Acquire
<1>12. ASSUME NEW w \in Workers, StoreRemoteId(w)
      PROVE  DocumentsOK'
  BY <1>12 DEF StoreRemoteId, Go, Owns, remote, bounds, Typed, DocumentsOK,
     PlacesOK, AnswersOK, Located, Concluded, Executing, Statuses, Active,
     Terminal
<1>13. ASSUME NEW w \in Workers, Heartbeat(w)
      PROVE  DocumentsOK'
  BY <1>13 DEF Heartbeat, Go, Rest, Renewed, Owns, Conclude, Nothing, NoJob,
     remote, bounds, Typed, DocumentsOK, PlacesOK, AnswersOK, Located,
     Concluded, Executing, Statuses, Active, Terminal
<1>14. ASSUME NEW w \in Workers, KeepCandidate(w)
      PROVE  DocumentsOK'
  BY <1>14 DEF KeepCandidate, Go, Owns, remote, bounds, Typed, DocumentsOK,
     PlacesOK, AnswersOK, Located, Concluded, Executing, Statuses, Active,
     Terminal
<1>15. ASSUME NEW w \in Workers, MarkEvaluating(w)
      PROVE  DocumentsOK'
  BY <1>15 DEF MarkEvaluating, Go, Owns, remote, bounds, Typed, DocumentsOK,
     PlacesOK, AnswersOK, Located, Concluded, Executing, Statuses, Active,
     Terminal
<1>16. ASSUME NEW w \in Workers, LockForPromotion(w)
      PROVE  DocumentsOK'
  BY <1>16 DEF LockForPromotion, Go, Rest, Owns, Renewed, Nothing, NoJob,
     remote, bounds, Typed, DocumentsOK, PlacesOK, AnswersOK, Located,
     Concluded, Executing, Statuses, Active, Terminal
<1>17. ASSUME NEW w \in Workers, Settle(w)
      PROVE  DocumentsOK'
  BY <1>17 DEF Settle, Rest, Owns, Nothing, NoJob, remote, bounds, Typed,
     DocumentsOK, PlacesOK, AnswersOK, Located, Concluded, Executing,
     Statuses, Active, Terminal
<1>18. ASSUME NEW w \in Workers, Crash(w)
      PROVE  DocumentsOK'
  BY <1>18 DEF Crash, Rest, Nothing, NoJob, remote, Typed, DocumentsOK,
     PlacesOK, AnswersOK, Located, Concluded, Executing, Statuses, Active,
     Terminal
<1>19. ASSUME NEW m \in Models, ReplaceActive(m)
      PROVE  DocumentsOK'
  BY <1>19, <1>1 DEF ReplaceActive, document, locals, bounds
<1> QED
  BY <1>1, <1>2, <1>3, <1>4, <1>5, <1>6, <1>7, <1>8, <1>9, <1>10, <1>11,
     <1>12, <1>13, <1>14, <1>15, <1>16, <1>17, <1>18,
     <1>19 DEF Next, WorkerStep,
     vars, document, remote, locals, bounds

\* Every step keeps the types of Jetson's state and of the bounds.
LEMMA RemoteStep ==
    ASSUME Typed, [Next]_vars
    PROVE  RemoteOK'
<1>1. CASE UNCHANGED <<remote, cancelling, bounds>>
  BY <1>1, BoundAssumption DEF Typed, RemoteOK, remote, bounds
<1>2. ASSUME NEW j \in Jobs,
           Submit(j) \/ RunsOut(j)
      PROVE  RemoteOK'
  BY <1>2, <1>1 DEF Submit, RunsOut, remote, locals, bounds
<1>3. ASSUME NEW w \in Workers,
           Reconcile(w) \/ ReconcileWrite(w) \/ CountActive(w) \/ Take(w) \/
              PostCount(w) \/ Revert(w) \/ FindAndRead(w) \/ Acquire(w) \/
              StoreRemoteId(w) \/ Heartbeat(w) \/ KeepCandidate(w) \/
              MarkEvaluating(w) \/ LockForPromotion(w) \/ Settle(w)
      PROVE  RemoteOK'
  BY <1>3, <1>1 DEF Reconcile, ReconcileWrite, CountActive, Take, PostCount,
     Revert, FindAndRead, Acquire, StoreRemoteId, Heartbeat, KeepCandidate,
     MarkEvaluating, LockForPromotion, Settle, document, remote, bounds
<1>4. ASSUME NEW j \in Jobs, Cancel(j)
      PROVE  RemoteOK'
  BY <1>4, BoundAssumption DEF Cancel, document, locals, bounds, Typed,
     RemoteOK, PlacesOK, Located, Executing, Models
<1>5. ASSUME NEW j \in Jobs, CancelWrite(j)
      PROVE  RemoteOK'
  BY <1>5, BoundAssumption DEF CancelWrite, Renewed, remote, bounds, Typed,
     RemoteOK, PlacesOK, Located, Executing, Models
<1>6. ASSUME NEW j \in Jobs, RemoteEnds(j)
      PROVE  RemoteOK'
  BY <1>6, BoundAssumption DEF RemoteEnds, document, locals, bounds, Typed,
     RemoteOK, PlacesOK, Located, Executing, Models
<1>7. ASSUME NEW j \in Jobs, Stall(j)
      PROVE  RemoteOK'
  BY <1>7, BoundAssumption DEF Stall, remote, locals, Typed, RemoteOK,
     PlacesOK, Located, Executing, Models
<1>8. ASSUME NEW w \in Workers, Health(w)
      PROVE  RemoteOK'
  BY <1>8, BoundAssumption DEF Health, Go, Fault, document, remote, Typed,
     RemoteOK, PlacesOK, Located, Executing, Models
<1>9. ASSUME NEW w \in Workers, SubmitRemote(w)
      PROVE  RemoteOK'
  BY <1>9, BoundAssumption DEF SubmitRemote, Go, Fault, Conclude, document,
     Typed, RemoteOK, PlacesOK, Located, Executing, Models
<1>10. ASSUME NEW w \in Workers, AskRemote(w)
      PROVE  RemoteOK'
  BY <1>10, BoundAssumption DEF AskRemote, Go, Rest, Fault, Conclude, Nothing,
     NoJob, document, remote, Typed, RemoteOK, PlacesOK, Located, Executing,
     Models
<1>11. ASSUME NEW w \in Workers, Evaluate(w)
      PROVE  RemoteOK'
  BY <1>11, BoundAssumption DEF Evaluate, Go, Fault, Conclude, document,
     remote, Typed, RemoteOK, PlacesOK, Located, Executing, Models
<1>12. ASSUME NEW w \in Workers, Gate(w)
      PROVE  RemoteOK'
  <2>1. moved' \in BOOLEAN
    BY <1>12 DEF Gate
  <2>2. faults' \in 0 .. MaxFaults
    BY <1>12, BoundAssumption DEF Gate, Fault, Typed, RemoteOK
  <2>3. UNCHANGED <<training, active, served, cancelling, crashes, expiries>>
    BY <1>12 DEF Gate
  <2> QED
    BY <2>1, <2>2, <2>3 DEF Typed, RemoteOK
<1>13. ASSUME NEW w \in Workers, Promote(w)
      PROVE  RemoteOK'
  BY <1>13, BoundAssumption DEF Promote, Go, Fault, Conclude, Models,
     document, Typed, RemoteOK, PlacesOK, Located, Executing, Models
<1>14. ASSUME NEW w \in Workers, Verify(w)
      PROVE  RemoteOK'
  BY <1>14, BoundAssumption DEF Verify, Go, Rest, Fault, Conclude, Nothing,
     NoJob, document, remote, Typed, RemoteOK, PlacesOK, Located, Executing,
     Models
<1>15. ASSUME NEW w \in Workers, Crash(w)
      PROVE  RemoteOK'
  BY <1>15, BoundAssumption DEF Crash, Rest, Nothing, NoJob, remote, Typed,
     RemoteOK, PlacesOK, Located, Executing, Models
<1>16. ASSUME NEW m \in Models, ReplaceActive(m)
      PROVE  RemoteOK'
  BY <1>16 DEF ReplaceActive, document, locals, bounds, Typed, RemoteOK, Models
<1> QED
  BY <1>1, <1>2, <1>3, <1>4, <1>5, <1>6, <1>7, <1>8, <1>9, <1>10, <1>11,
     <1>12, <1>13, <1>14, <1>15,
     <1>16 DEF Next, WorkerStep, vars, document, remote,
     locals, bounds

\* Every step keeps every worker in its place, with a job where it needs one.
LEMMA PlacesStep ==
    ASSUME Typed, [Next]_vars
    PROVE  PlacesOK'
<1>1. CASE UNCHANGED <<pc, cur>>
  BY <1>1 DEF Typed, PlacesOK, Located
<1>2. ASSUME NEW j \in Jobs,
           Submit(j) \/ Cancel(j) \/ CancelWrite(j) \/ RemoteEnds(j) \/
              RunsOut(j) \/ Stall(j)
      PROVE  PlacesOK'
  BY <1>2, <1>1 DEF Submit, Cancel, CancelWrite, RemoteEnds, RunsOut, Stall,
     document, remote, locals, bounds
<1>3. ASSUME NEW w \in Workers,
           ReconcileWrite(w)
      PROVE  PlacesOK'
  BY <1>3, <1>1 DEF ReconcileWrite, remote, bounds
<1>4. ASSUME NEW w \in Workers, Reconcile(w)
      PROVE  PlacesOK'
  BY <1>4 DEF Reconcile, StaleWrite, Go, document, remote, bounds, Typed,
     PlacesOK, Located, NoJob, Executing, Steps
<1>5. ASSUME NEW w \in Workers, CountActive(w)
      PROVE  PlacesOK'
  BY <1>5 DEF CountActive, Go, document, remote, bounds, Typed, PlacesOK,
     Located, NoJob, Executing, Steps
<1>6. ASSUME NEW w \in Workers, Health(w)
      PROVE  PlacesOK'
  BY <1>6 DEF Health, Go, Fault, document, remote, Typed, PlacesOK, Located,
     NoJob, Executing, Steps
<1>7. ASSUME NEW w \in Workers, Take(w)
      PROVE  PlacesOK'
  BY <1>7 DEF Take, Go, Oldest, remote, bounds, Typed, PlacesOK, Located,
     NoJob, Executing, Steps
<1>8. ASSUME NEW w \in Workers, PostCount(w)
      PROVE  PlacesOK'
  BY <1>8 DEF PostCount, Go, document, remote, bounds, Typed, PlacesOK,
     Located, NoJob, Executing, Steps
<1>9. ASSUME NEW w \in Workers, Revert(w)
      PROVE  PlacesOK'
  BY <1>9 DEF Revert, Go, remote, bounds, Typed, PlacesOK, Located, NoJob,
     Executing, Steps
<1>10. ASSUME NEW w \in Workers, FindAndRead(w)
      PROVE  PlacesOK'
  BY <1>10 DEF FindAndRead, Go, Rest, Oldest, Available, ActiveJobs, Nothing,
     NoJob, document, remote, bounds, Typed, PlacesOK, Located, NoJob,
     Executing, Steps
<1>11. ASSUME NEW w \in Workers, Acquire(w)
      PROVE  PlacesOK'
  BY <1>11 DEF Acquire, Go, Rest, Renewed, CanAcquire, Nothing, NoJob, remote,
     bounds, Typed, PlacesOK, Located, NoJob, Executing, Steps
<1>12. ASSUME NEW w \in Workers, SubmitRemote(w)
      PROVE  PlacesOK'
  BY <1>12 DEF SubmitRemote, Go, Fault, Conclude, document, Typed, PlacesOK,
     Located, NoJob, Executing, Steps
<1>13. ASSUME NEW w \in Workers, StoreRemoteId(w)
      PROVE  PlacesOK'
  BY <1>13 DEF StoreRemoteId, Go, Owns, remote, bounds, Typed, PlacesOK,
     Located, NoJob, Executing, Steps
<1>14. ASSUME NEW w \in Workers, Heartbeat(w)
      PROVE  PlacesOK'
  BY <1>14 DEF Heartbeat, Go, Rest, Renewed, Owns, Conclude, Nothing, NoJob,
     remote, bounds, Typed, PlacesOK, Located, NoJob, Executing, Steps
<1>15. ASSUME NEW w \in Workers, AskRemote(w)
      PROVE  PlacesOK'
  BY <1>15 DEF AskRemote, Go, Rest, Fault, Conclude, Nothing, NoJob, document,
     remote, Typed, PlacesOK, Located, NoJob, Executing, Steps
<1>16. ASSUME NEW w \in Workers, KeepCandidate(w)
      PROVE  PlacesOK'
  BY <1>16 DEF KeepCandidate, Go, Owns, remote, bounds, Typed, PlacesOK,
     Located, NoJob, Executing, Steps
<1>17. ASSUME NEW w \in Workers, MarkEvaluating(w)
      PROVE  PlacesOK'
  BY <1>17 DEF MarkEvaluating, Go, Owns, remote, bounds, Typed, PlacesOK,
     Located, NoJob, Executing, Steps
<1>18. ASSUME NEW w \in Workers, Evaluate(w)
      PROVE  PlacesOK'
  BY <1>18 DEF Evaluate, Go, Fault, Conclude, document, remote, Typed,
     PlacesOK, Located, NoJob, Executing, Steps
<1>19. ASSUME NEW w \in Workers, Gate(w)
      PROVE  PlacesOK'
  BY <1>19 DEF Gate, Go, Fault, Conclude, document, remote, Typed, PlacesOK,
     Located, NoJob, Executing, Steps
<1>20. ASSUME NEW w \in Workers, LockForPromotion(w)
      PROVE  PlacesOK'
  BY <1>20 DEF LockForPromotion, Go, Rest, Owns, Renewed, Nothing, NoJob,
     remote, bounds, Typed, PlacesOK, Located, NoJob, Executing, Steps
<1>21. ASSUME NEW w \in Workers, Promote(w)
      PROVE  PlacesOK'
  BY <1>21 DEF Promote, Go, Fault, Conclude, Models, document, Typed,
     PlacesOK, Located, NoJob, Executing, Steps
<1>22. ASSUME NEW w \in Workers, Verify(w)
      PROVE  PlacesOK'
  BY <1>22 DEF Verify, Go, Rest, Fault, Conclude, Nothing, NoJob, document,
     remote, Typed, PlacesOK, Located, NoJob, Executing, Steps
<1>23. ASSUME NEW w \in Workers, Settle(w)
      PROVE  PlacesOK'
  BY <1>23 DEF Settle, Rest, Owns, Nothing, NoJob, remote, bounds, Typed,
     PlacesOK, Located, NoJob, Executing, Steps
<1>24. ASSUME NEW w \in Workers, Crash(w)
      PROVE  PlacesOK'
  BY <1>24 DEF Crash, Rest, Nothing, NoJob, remote, Typed, PlacesOK, Located,
     NoJob, Executing, Steps
<1>25. ASSUME NEW m \in Models, ReplaceActive(m)
      PROVE  PlacesOK'
  BY <1>25, <1>1 DEF ReplaceActive, document, locals, bounds
<1> QED
  BY <1>1, <1>2, <1>3, <1>4, <1>5, <1>6, <1>7, <1>8, <1>9, <1>10, <1>11,
     <1>12, <1>13, <1>14, <1>15, <1>16, <1>17, <1>18, <1>19, <1>20, <1>21,
     <1>22, <1>23, <1>24,
     <1>25 DEF Next, WorkerStep, vars, document, remote, locals,
     bounds

\* Every step keeps the types of the pending writes.
LEMMA PendingStep ==
    ASSUME Typed, [Next]_vars
    PROVE  PendingOK'
<1>1. CASE UNCHANGED <<scan>>
  BY <1>1 DEF Typed, PendingOK
<1>2. ASSUME NEW j \in Jobs,
           Submit(j) \/ Cancel(j) \/ RemoteEnds(j) \/ RunsOut(j) \/ Stall(j)
      PROVE  PendingOK'
  BY <1>2, <1>1 DEF Submit, Cancel, RemoteEnds, RunsOut, Stall, document,
     remote, locals, bounds
<1>3. ASSUME NEW w \in Workers,
           CountActive(w) \/ Health(w) \/ Take(w) \/ PostCount(w) \/ Revert(w)
              \/ FindAndRead(w) \/ SubmitRemote(w) \/ StoreRemoteId(w) \/
              AskRemote(w) \/ KeepCandidate(w) \/ MarkEvaluating(w) \/
              Evaluate(w) \/ Gate(w) \/ Promote(w) \/ Verify(w) \/ Settle(w)
      PROVE  PendingOK'
  BY <1>3, <1>1 DEF CountActive, Health, Take, PostCount, Revert, FindAndRead,
     SubmitRemote, StoreRemoteId, AskRemote, KeepCandidate, MarkEvaluating,
     Evaluate, Gate, Promote, Verify, Settle, document, remote, bounds
<1>4. ASSUME NEW j \in Jobs, CancelWrite(j)
      PROVE  PendingOK'
  BY <1>4 DEF CancelWrite, Renewed, remote, bounds, Typed, PendingOK,
     PlacesOK, Located, Executing
<1>5. ASSUME NEW w \in Workers, Reconcile(w)
      PROVE  PendingOK'
  BY <1>5 DEF Reconcile, StaleWrite, Go, document, remote, bounds, Typed,
     PendingOK, PlacesOK, Located, Executing
<1>6. ASSUME NEW w \in Workers, ReconcileWrite(w)
      PROVE  PendingOK'
  <2>1. PICK j \in Jobs : \/ scan' = [scan EXCEPT ![w][j] = "skip"]
                          \/ scan' = [Renewed(j) EXCEPT ![w][j] = "skip"]
    BY <1>6 DEF ReconcileWrite, Oldest
  <2>2. Renewed(j) \in [Workers -> [Jobs -> {"skip", "unadmit", "requeue", "release"}]]
    BY RenewedType DEF Typed
  <2>3. CASE scan' = [scan EXCEPT ![w][j] = "skip"]
    BY <2>3 DEF Typed, PendingOK
  <2>4. CASE scan' = [Renewed(j) EXCEPT ![w][j] = "skip"]
    BY <2>2, <2>4 DEF PendingOK
  <2> QED
    BY <2>1, <2>3, <2>4
<1>7. ASSUME NEW w \in Workers, Acquire(w)
      PROVE  PendingOK'
  <2>1. cur[w] \in Jobs
    BY <1>7 DEF Acquire, Typed, PlacesOK, Located, Executing
  <2>2. scan' = scan \/ scan' = Renewed(cur[w])
    BY <1>7 DEF Acquire
  <2> QED
    BY <2>1, <2>2, RenewedType DEF Typed, PendingOK
<1>8. ASSUME NEW w \in Workers, Heartbeat(w)
      PROVE  PendingOK'
  <2>1. cur[w] \in Jobs
    BY <1>8 DEF Heartbeat, Typed, PlacesOK, Located, Executing
  <2>2. scan' = scan \/ scan' = Renewed(cur[w])
    BY <1>8 DEF Heartbeat
  <2> QED
    BY <2>1, <2>2, RenewedType DEF Typed, PendingOK
<1>9. ASSUME NEW w \in Workers, LockForPromotion(w)
      PROVE  PendingOK'
  <2>1. cur[w] \in Jobs
    BY <1>9 DEF LockForPromotion, Typed, PlacesOK, Located, Executing
  <2>2. scan' = scan \/ scan' = Renewed(cur[w])
    BY <1>9 DEF LockForPromotion
  <2> QED
    BY <2>1, <2>2, RenewedType DEF Typed, PendingOK
<1>10. ASSUME NEW w \in Workers, Crash(w)
      PROVE  PendingOK'
  BY <1>10 DEF Crash, Rest, Nothing, NoJob, remote, Typed, PendingOK,
     PlacesOK, Located, Executing
<1>11. ASSUME NEW m \in Models, ReplaceActive(m)
      PROVE  PendingOK'
  BY <1>11, <1>1 DEF ReplaceActive, document, locals, bounds
<1> QED
  BY <1>1, <1>2, <1>3, <1>4, <1>5, <1>6, <1>7, <1>8, <1>9, <1>10,
     <1>11 DEF Next,
     WorkerStep, vars, document, remote, locals, bounds

\* Every step keeps the types of what the workers remember.
LEMMA AnswersStep ==
    ASSUME Typed, [Next]_vars
    PROVE  AnswersOK'
<1>1. CASE UNCHANGED <<pc, read, seen, outcome>>
  BY <1>1 DEF Typed, AnswersOK, Concluded
<1>2. ASSUME NEW j \in Jobs,
           Submit(j) \/ Cancel(j) \/ CancelWrite(j) \/ RemoteEnds(j) \/
              RunsOut(j) \/ Stall(j)
      PROVE  AnswersOK'
  BY <1>2, <1>1 DEF Submit, Cancel, CancelWrite, RemoteEnds, RunsOut, Stall,
     document, remote, locals, bounds
<1>3. ASSUME NEW w \in Workers,
           ReconcileWrite(w)
      PROVE  AnswersOK'
  BY <1>3, <1>1 DEF ReconcileWrite, remote, bounds
<1>4. ASSUME NEW w \in Workers,
           Reconcile(w) \/ CountActive(w) \/ Health(w) \/ Take(w) \/
              PostCount(w) \/ Revert(w) \/ StoreRemoteId(w) \/
              KeepCandidate(w) \/ MarkEvaluating(w)
      PROVE  AnswersOK'
  <2>1. \E s \in Steps \ {"settle"} : Go(w, s) /\ UNCHANGED <<outcome, seen, read>>
    BY <1>4 DEF Reconcile, CountActive, Health, Take, PostCount, Revert,
       StoreRemoteId, KeepCandidate, MarkEvaluating, Fault, Steps, Executing
  <2> QED
    BY <2>1, GoAnswers DEF Typed, AnswersOK
<1>5. ASSUME NEW w \in Workers,
           Settle(w) \/ Crash(w)
      PROVE  AnswersOK'
  <2>1. Rest(w)
    BY <1>5 DEF Settle, Crash, remote, bounds
  <2> QED
    BY <2>1, RestAnswers
<1>6. ASSUME NEW w \in Workers, FindAndRead(w)
      PROVE  AnswersOK'
  <2>1. CASE Rest(w)
    BY <2>1, RestAnswers
  <2>2. ASSUME NEW j \in Available(w),
               read' = [read EXCEPT ![w] = [evaluating |-> status[j] = "EVALUATING",
                                            jetson |-> jetson[j], candidate |-> candidate[j]]],
               Go(w, "acquire"), UNCHANGED <<seen, outcome>>
        PROVE  AnswersOK'
    <3>1. j \in Jobs
      BY DEF Available, ActiveJobs
    <3>2. jetson[j] \in BOOLEAN /\ candidate[j] \in BOOLEAN
      BY <3>1 DEF Typed, DocumentsOK
    <3>3. read' \in [Workers -> [evaluating : BOOLEAN, jetson : BOOLEAN, candidate : BOOLEAN]]
      BY <2>2, <3>2 DEF Typed, AnswersOK
    <3> QED
      BY <2>2, <3>3, GoAnswers DEF Typed, AnswersOK, Steps
  <2> QED
    BY <1>6, <2>1, <2>2 DEF FindAndRead
<1>7. ASSUME NEW w \in Workers, Acquire(w)
      PROVE  AnswersOK'
  <2>1. CASE Rest(w)
    BY <2>1, RestAnswers
  <2>2. ASSUME Go(w, IF read[w].candidate THEN "mark" ELSE IF read[w].jetson THEN "poll" ELSE "submit"),
               read' = [read EXCEPT ![w] = Nothing], UNCHANGED <<seen, outcome>>
        PROVE  AnswersOK'
    <3>1. Nothing \in [evaluating : BOOLEAN, jetson : BOOLEAN, candidate : BOOLEAN]
      BY DEF Nothing
    <3>2. read' \in [Workers -> [evaluating : BOOLEAN, jetson : BOOLEAN, candidate : BOOLEAN]]
      BY <2>2, <3>1 DEF Typed, AnswersOK
    <3> QED
      BY <2>2, <3>2, GoAnswers DEF Typed, AnswersOK, Steps, Executing
  <2> QED
    BY <1>7, <2>1, <2>2 DEF Acquire
<1>8. ASSUME NEW w \in Workers, SubmitRemote(w)
      PROVE  AnswersOK'
  <2>1. \/ \E s \in Steps \ {"settle"} : Go(w, s) /\ UNCHANGED outcome /\ UNCHANGED <<seen, read>>
        \/ \E s \in {"PROMOTED", "REJECTED", "FAILED", "TIMEOUT"} : Conclude(w, s) /\ UNCHANGED <<read, seen>>
    BY <1>8 DEF SubmitRemote, Steps, Executing
  <2> QED
    BY <2>1, RestAnswers, GoAnswers, ConcludeAnswers DEF Typed, AnswersOK
<1>9. ASSUME NEW w \in Workers, Heartbeat(w)
      PROVE  AnswersOK'
  <2>1. \/ Rest(w)
        \/ \E s \in Steps \ {"settle"} : Go(w, s) /\ UNCHANGED outcome /\ UNCHANGED <<seen, read>>
        \/ \E s \in {"PROMOTED", "REJECTED", "FAILED", "TIMEOUT"} : Conclude(w, s) /\ UNCHANGED <<read, seen>>
    BY <1>9 DEF Heartbeat, Steps, Executing
  <2> QED
    BY <2>1, RestAnswers, GoAnswers, ConcludeAnswers DEF Typed, AnswersOK
<1>10. ASSUME NEW w \in Workers, AskRemote(w)
      PROVE  AnswersOK'
  <2>1. \/ Rest(w)
        \/ \E s \in Steps \ {"settle"} : Go(w, s) /\ UNCHANGED outcome /\ UNCHANGED <<seen, read>>
        \/ \E s \in {"PROMOTED", "REJECTED", "FAILED", "TIMEOUT"} : Conclude(w, s) /\ UNCHANGED <<read, seen>>
    BY <1>10 DEF AskRemote, Steps, Executing
  <2> QED
    BY <2>1, RestAnswers, GoAnswers, ConcludeAnswers DEF Typed, AnswersOK
<1>11. ASSUME NEW w \in Workers, Evaluate(w)
      PROVE  AnswersOK'
  <2>1. \/ \E s \in Steps \ {"settle"} : Go(w, s) /\ UNCHANGED outcome /\ UNCHANGED <<seen, read>>
        \/ \E s \in {"PROMOTED", "REJECTED", "FAILED", "TIMEOUT"} : Conclude(w, s) /\ UNCHANGED <<read, seen>>
    BY <1>11 DEF Evaluate, Steps, Executing
  <2> QED
    BY <2>1, RestAnswers, GoAnswers, ConcludeAnswers DEF Typed, AnswersOK
<1>12. ASSUME NEW w \in Workers, Gate(w)
      PROVE  AnswersOK'
  <2>1. seen' \in [Workers -> Models \cup {NoModel}]
    BY <1>12 DEF Gate, Typed, AnswersOK, RemoteOK
  <2> QED
    BY <1>12, <2>1, GoAnswers, ConcludeAnswers DEF Gate, Typed, AnswersOK, Steps, Executing
<1>13. ASSUME NEW w \in Workers, LockForPromotion(w)
      PROVE  AnswersOK'
  <2>1. \/ Rest(w)
        \/ \E s \in Steps \ {"settle"} : Go(w, s) /\ UNCHANGED outcome /\ UNCHANGED <<seen, read>>
    BY <1>13 DEF LockForPromotion, Steps, Executing
  <2> QED
    BY <2>1, RestAnswers, GoAnswers, ConcludeAnswers DEF Typed, AnswersOK
<1>14. ASSUME NEW w \in Workers, Promote(w)
      PROVE  AnswersOK'
  <2>1. \/ \E s \in Steps \ {"settle"} : Go(w, s) /\ UNCHANGED outcome /\ UNCHANGED <<seen, read>>
        \/ \E s \in {"PROMOTED", "REJECTED", "FAILED", "TIMEOUT"} : Conclude(w, s) /\ UNCHANGED <<read, seen>>
    BY <1>14 DEF Promote, Steps, Executing
  <2> QED
    BY <2>1, RestAnswers, GoAnswers, ConcludeAnswers DEF Typed, AnswersOK
<1>15. ASSUME NEW w \in Workers, Verify(w)
      PROVE  AnswersOK'
  <2>1. \/ Rest(w)
        \/ \E s \in {"PROMOTED", "REJECTED", "FAILED", "TIMEOUT"} : Conclude(w, s) /\ UNCHANGED <<read, seen>>
    BY <1>15 DEF Verify, Steps, Executing
  <2> QED
    BY <2>1, RestAnswers, GoAnswers, ConcludeAnswers DEF Typed, AnswersOK
<1>16. ASSUME NEW m \in Models, ReplaceActive(m)
      PROVE  AnswersOK'
  BY <1>16, <1>1 DEF ReplaceActive, document, locals, bounds
<1> QED
  BY <1>1, <1>2, <1>3, <1>4, <1>5, <1>6, <1>7, <1>8, <1>9, <1>10, <1>11,
     <1>12, <1>13, <1>14, <1>15,
     <1>16 DEF Next, WorkerStep, vars, document, remote,
     locals, bounds

\* Every step keeps the types.
LEMMA TypedStep ==
    ASSUME Typed, [Next]_vars
    PROVE  Typed'
  BY DocumentsStep, RemoteStep, PlacesStep, PendingStep, AnswersStep DEF Typed

\* A model in service stays among the served ones.
LEMMA ServedGrows ==
    ASSUME active \in served, [Next]_vars
    PROVE  active' \in served' /\ served \subseteq served'
<1>1. CASE UNCHANGED <<active, served>>
  BY <1>1
<1>2. ASSUME NEW w \in Workers, Promote(w)
      PROVE  active' \in served' /\ served \subseteq served'
  BY <1>2 DEF Promote
<1>3. ASSUME NEW m \in Models, ReplaceActive(m)
      PROVE  active' \in served' /\ served \subseteq served'
  BY <1>3 DEF ReplaceActive
<1> QED
  BY <1>1, <1>2, <1>3 DEF Next, WorkerStep, vars, remote, Submit, Cancel,
     CancelWrite, RemoteEnds, RunsOut, Stall, Reconcile, ReconcileWrite,
     CountActive, Health, Take, PostCount, Revert, FindAndRead, Acquire,
     SubmitRemote, StoreRemoteId, Heartbeat, AskRemote, KeepCandidate,
     MarkEvaluating, Evaluate, Gate, LockForPromotion, Verify, Settle, Crash

\* Every step keeps the candidate of a worker about to report it among the served.
LEMMA ReportedStep ==
    ASSUME Typed, active \in served, Reported, [Next]_vars
    PROVE  Reported'
<1>1. CASE UNCHANGED <<pc, cur, outcome>>
  BY <1>1, ServedGrows DEF Reported, Typed, PlacesOK
<1>2. ASSUME NEW j \in Jobs,
           Submit(j) \/ Cancel(j) \/ CancelWrite(j) \/ RemoteEnds(j) \/
              RunsOut(j) \/ Stall(j)
      PROVE  Reported'
  BY <1>2, <1>1 DEF Submit, Cancel, CancelWrite, RemoteEnds, RunsOut, Stall,
     document, remote, locals, bounds
<1>3. ASSUME NEW w \in Workers,
           ReconcileWrite(w)
      PROVE  Reported'
  BY <1>3, <1>1 DEF ReconcileWrite, remote, bounds
<1>4. ASSUME NEW w \in Workers, Reconcile(w)
      PROVE  Reported'
  BY <1>4, ServedGrows DEF Reconcile, StaleWrite, Go, document, remote,
     bounds, Reported, Typed, PlacesOK, AnswersOK, Located, Executing
<1>5. ASSUME NEW w \in Workers, CountActive(w)
      PROVE  Reported'
  BY <1>5, ServedGrows DEF CountActive, Go, document, remote, bounds,
     Reported, Typed, PlacesOK, AnswersOK, Located, Executing
<1>6. ASSUME NEW w \in Workers, Health(w)
      PROVE  Reported'
  BY <1>6, ServedGrows DEF Health, Go, Fault, document, remote, Reported,
     Typed, PlacesOK, AnswersOK, Located, Executing
<1>7. ASSUME NEW w \in Workers, Take(w)
      PROVE  Reported'
  BY <1>7, ServedGrows DEF Take, Go, Oldest, remote, bounds, Reported, Typed,
     PlacesOK, AnswersOK, Located, Executing
<1>8. ASSUME NEW w \in Workers, PostCount(w)
      PROVE  Reported'
  BY <1>8, ServedGrows DEF PostCount, Go, document, remote, bounds, Reported,
     Typed, PlacesOK, AnswersOK, Located, Executing
<1>9. ASSUME NEW w \in Workers, Revert(w)
      PROVE  Reported'
  BY <1>9, ServedGrows DEF Revert, Go, remote, bounds, Reported, Typed,
     PlacesOK, AnswersOK, Located, Executing
<1>10. ASSUME NEW w \in Workers, FindAndRead(w)
      PROVE  Reported'
  BY <1>10, ServedGrows DEF FindAndRead, Go, Rest, Oldest, Available,
     ActiveJobs, Nothing, NoJob, document, remote, bounds, Reported, Typed,
     PlacesOK, AnswersOK, Located, Executing
<1>11. ASSUME NEW w \in Workers, Acquire(w)
      PROVE  Reported'
  BY <1>11, ServedGrows DEF Acquire, Go, Rest, Renewed, CanAcquire, Nothing,
     NoJob, remote, bounds, Reported, Typed, PlacesOK, AnswersOK, Located,
     Executing
<1>12. ASSUME NEW w \in Workers, SubmitRemote(w)
      PROVE  Reported'
  BY <1>12, ServedGrows DEF SubmitRemote, Go, Fault, Conclude, document,
     Reported, Typed, PlacesOK, AnswersOK, Located, Executing
<1>13. ASSUME NEW w \in Workers, StoreRemoteId(w)
      PROVE  Reported'
  BY <1>13, ServedGrows DEF StoreRemoteId, Go, Owns, remote, bounds, Reported,
     Typed, PlacesOK, AnswersOK, Located, Executing
<1>14. ASSUME NEW w \in Workers, Heartbeat(w)
      PROVE  Reported'
  BY <1>14, ServedGrows DEF Heartbeat, Go, Rest, Renewed, Owns, Conclude,
     Nothing, NoJob, remote, bounds, Reported, Typed, PlacesOK, AnswersOK,
     Located, Executing
<1>15. ASSUME NEW w \in Workers, AskRemote(w)
      PROVE  Reported'
  BY <1>15, ServedGrows DEF AskRemote, Go, Rest, Fault, Conclude, Nothing,
     NoJob, document, remote, Reported, Typed, PlacesOK, AnswersOK, Located,
     Executing
<1>16. ASSUME NEW w \in Workers, KeepCandidate(w)
      PROVE  Reported'
  BY <1>16, ServedGrows DEF KeepCandidate, Go, Owns, remote, bounds, Reported,
     Typed, PlacesOK, AnswersOK, Located, Executing
<1>17. ASSUME NEW w \in Workers, MarkEvaluating(w)
      PROVE  Reported'
  BY <1>17, ServedGrows DEF MarkEvaluating, Go, Owns, remote, bounds,
     Reported, Typed, PlacesOK, AnswersOK, Located, Executing
<1>18. ASSUME NEW w \in Workers, Evaluate(w)
      PROVE  Reported'
  BY <1>18, ServedGrows DEF Evaluate, Go, Fault, Conclude, document, remote,
     Reported, Typed, PlacesOK, AnswersOK, Located, Executing
<1>19. ASSUME NEW w \in Workers, Gate(w)
      PROVE  Reported'
  BY <1>19, ServedGrows DEF Gate, Go, Fault, Conclude, document, remote,
     Reported, Typed, PlacesOK, AnswersOK, Located, Executing
<1>20. ASSUME NEW w \in Workers, LockForPromotion(w)
      PROVE  Reported'
  BY <1>20, ServedGrows DEF LockForPromotion, Go, Rest, Owns, Renewed,
     Nothing, NoJob, remote, bounds, Reported, Typed, PlacesOK, AnswersOK,
     Located, Executing
<1>21. ASSUME NEW w \in Workers, Promote(w)
      PROVE  Reported'
  BY <1>21, ServedGrows DEF Promote, Go, Fault, Conclude, Models, document,
     Reported, Typed, PlacesOK, AnswersOK, Located, Executing
<1>22. ASSUME NEW w \in Workers, Verify(w)
      PROVE  Reported'
  BY <1>22, ServedGrows DEF Verify, Go, Rest, Fault, Conclude, Nothing, NoJob,
     document, remote, Reported, Typed, PlacesOK, AnswersOK, Located,
     Executing
<1>23. ASSUME NEW w \in Workers, Settle(w)
      PROVE  Reported'
  BY <1>23, ServedGrows DEF Settle, Rest, Owns, Nothing, NoJob, remote,
     bounds, Reported, Typed, PlacesOK, AnswersOK, Located, Executing
<1>24. ASSUME NEW w \in Workers, Crash(w)
      PROVE  Reported'
  BY <1>24, ServedGrows DEF Crash, Rest, Nothing, NoJob, remote, Reported,
     Typed, PlacesOK, AnswersOK, Located, Executing
<1>25. ASSUME NEW m \in Models, ReplaceActive(m)
      PROVE  Reported'
  BY <1>25, <1>1 DEF ReplaceActive, locals
<1> QED
  BY <1>1, <1>2, <1>3, <1>4, <1>5, <1>6, <1>7, <1>8, <1>9, <1>10, <1>11,
     <1>12, <1>13, <1>14, <1>15, <1>16, <1>17, <1>18, <1>19, <1>20, <1>21,
     <1>22, <1>23, <1>24,
     <1>25 DEF Next, WorkerStep, vars, document, remote, locals,
     bounds

\* Every step keeps the promoted jobs' candidates among the served.
LEMMA PromotedStep ==
    ASSUME Typed, active \in served, Reported, PromotedWasServed, [Next]_vars
    PROVE  PromotedWasServed'
<1>1. CASE UNCHANGED <<status>>
  BY <1>1, ServedGrows DEF PromotedWasServed
<1>2. ASSUME NEW j \in Jobs,
           Cancel(j) \/ RemoteEnds(j) \/ RunsOut(j) \/ Stall(j)
      PROVE  PromotedWasServed'
  BY <1>2, <1>1 DEF Cancel, RemoteEnds, RunsOut, Stall, document, remote,
     locals, bounds
<1>3. ASSUME NEW w \in Workers,
           Reconcile(w) \/ CountActive(w) \/ Health(w) \/ PostCount(w) \/
              FindAndRead(w) \/ SubmitRemote(w) \/ StoreRemoteId(w) \/
              Heartbeat(w) \/ AskRemote(w) \/ KeepCandidate(w) \/ Evaluate(w)
              \/ Gate(w) \/ LockForPromotion(w) \/ Promote(w) \/ Verify(w) \/
              Crash(w)
      PROVE  PromotedWasServed'
  BY <1>3, <1>1 DEF Reconcile, CountActive, Health, PostCount, FindAndRead,
     SubmitRemote, StoreRemoteId, Heartbeat, AskRemote, KeepCandidate,
     Evaluate, Gate, LockForPromotion, Promote, Verify, Crash, document,
     remote, bounds
<1>4. ASSUME NEW j \in Jobs, Submit(j)
      PROVE  PromotedWasServed'
  BY <1>4, ServedGrows DEF Submit, remote, locals, bounds, PromotedWasServed,
     Reported, Typed, DocumentsOK, PlacesOK, Located, Executing
<1>5. ASSUME NEW j \in Jobs, CancelWrite(j)
      PROVE  PromotedWasServed'
  BY <1>5, ServedGrows DEF CancelWrite, Renewed, remote, bounds,
     PromotedWasServed, Reported, Typed, DocumentsOK, PlacesOK, Located,
     Executing
<1>6. ASSUME NEW w \in Workers, ReconcileWrite(w)
      PROVE  PromotedWasServed'
  BY <1>6, ServedGrows DEF ReconcileWrite, Renewed, Oldest, remote, bounds,
     PromotedWasServed, Reported, Typed, DocumentsOK, PlacesOK, Located,
     Executing
<1>7. ASSUME NEW w \in Workers, Take(w)
      PROVE  PromotedWasServed'
  BY <1>7, ServedGrows DEF Take, Go, Oldest, remote, bounds,
     PromotedWasServed, Reported, Typed, DocumentsOK, PlacesOK, Located,
     Executing
<1>8. ASSUME NEW w \in Workers, Revert(w)
      PROVE  PromotedWasServed'
  BY <1>8, ServedGrows DEF Revert, Go, remote, bounds, PromotedWasServed,
     Reported, Typed, DocumentsOK, PlacesOK, Located, Executing
<1>9. ASSUME NEW w \in Workers, Acquire(w)
      PROVE  PromotedWasServed'
  BY <1>9, ServedGrows DEF Acquire, Go, Rest, Renewed, CanAcquire, Nothing,
     NoJob, remote, bounds, PromotedWasServed, Reported, Typed, DocumentsOK,
     PlacesOK, Located, Executing
<1>10. ASSUME NEW w \in Workers, MarkEvaluating(w)
      PROVE  PromotedWasServed'
  BY <1>10, ServedGrows DEF MarkEvaluating, Go, Owns, remote, bounds,
     PromotedWasServed, Reported, Typed, DocumentsOK, PlacesOK, Located,
     Executing
<1>11. ASSUME NEW w \in Workers, Settle(w)
      PROVE  PromotedWasServed'
  BY <1>11, ServedGrows DEF Settle, Rest, Owns, Nothing, NoJob, remote,
     bounds, PromotedWasServed, Reported, Typed, DocumentsOK, PlacesOK,
     Located, Executing
<1>12. ASSUME NEW m \in Models, ReplaceActive(m)
      PROVE  PromotedWasServed'
  BY <1>12, <1>1 DEF ReplaceActive, document, locals, bounds
<1> QED
  BY <1>1, <1>2, <1>3, <1>4, <1>5, <1>6, <1>7, <1>8, <1>9, <1>10, <1>11,
     <1>12 DEF
     Next, WorkerStep, vars, document, remote, locals, bounds

\* Every step keeps a job that nobody leased, or that was cancelled, unowned.
LEMMA UnownedStep ==
    ASSUME Typed, Unowned, [Next]_vars
    PROVE  Unowned'
<1>1. CASE UNCHANGED <<status, owner>>
  BY <1>1, NameAssumption DEF Unowned
<1>2. ASSUME NEW j \in Jobs,
           Cancel(j) \/ RemoteEnds(j) \/ RunsOut(j) \/ Stall(j)
      PROVE  Unowned'
  BY <1>2, <1>1 DEF Cancel, RemoteEnds, RunsOut, Stall, document, remote,
     locals, bounds
<1>3. ASSUME NEW w \in Workers,
           Reconcile(w) \/ CountActive(w) \/ Health(w) \/ PostCount(w) \/
              FindAndRead(w) \/ SubmitRemote(w) \/ StoreRemoteId(w) \/
              Heartbeat(w) \/ AskRemote(w) \/ KeepCandidate(w) \/ Evaluate(w)
              \/ Gate(w) \/ LockForPromotion(w) \/ Promote(w) \/ Verify(w)
      PROVE  Unowned'
  BY <1>3, <1>1 DEF Reconcile, CountActive, Health, PostCount, FindAndRead,
     SubmitRemote, StoreRemoteId, Heartbeat, AskRemote, KeepCandidate,
     Evaluate, Gate, LockForPromotion, Promote, Verify, document, remote,
     bounds
<1>4. ASSUME NEW j \in Jobs, Submit(j)
      PROVE  Unowned'
  BY <1>4, NameAssumption DEF Submit, remote, locals, bounds, Unowned, Typed,
     DocumentsOK, PlacesOK, AnswersOK, Located, Concluded, Executing
<1>5. ASSUME NEW j \in Jobs, CancelWrite(j)
      PROVE  Unowned'
  BY <1>5, NameAssumption DEF CancelWrite, Renewed, remote, bounds, Unowned,
     Typed, DocumentsOK, PlacesOK, AnswersOK, Located, Concluded, Executing
<1>6. ASSUME NEW w \in Workers, ReconcileWrite(w)
      PROVE  Unowned'
  BY <1>6, NameAssumption DEF ReconcileWrite, Renewed, Oldest, remote, bounds,
     Unowned, Typed, DocumentsOK, PlacesOK, AnswersOK, Located, Concluded,
     Executing
<1>7. ASSUME NEW w \in Workers, Take(w)
      PROVE  Unowned'
  BY <1>7, NameAssumption DEF Take, Go, Oldest, remote, bounds, Unowned,
     Typed, DocumentsOK, PlacesOK, AnswersOK, Located, Concluded, Executing
<1>8. ASSUME NEW w \in Workers, Revert(w)
      PROVE  Unowned'
  BY <1>8, NameAssumption DEF Revert, Go, remote, bounds, Unowned, Typed,
     DocumentsOK, PlacesOK, AnswersOK, Located, Concluded, Executing
<1>9. ASSUME NEW w \in Workers, Acquire(w)
      PROVE  Unowned'
  BY <1>9, NameAssumption DEF Acquire, Go, Rest, Renewed, CanAcquire, Nothing,
     NoJob, remote, bounds, Unowned, Typed, DocumentsOK, PlacesOK, AnswersOK,
     Located, Concluded, Executing
<1>10. ASSUME NEW w \in Workers, MarkEvaluating(w)
      PROVE  Unowned'
  BY <1>10, NameAssumption DEF MarkEvaluating, Go, Owns, remote, bounds,
     Unowned, Typed, DocumentsOK, PlacesOK, AnswersOK, Located, Concluded,
     Executing
<1>11. ASSUME NEW w \in Workers, Settle(w)
      PROVE  Unowned'
  BY <1>11, NameAssumption DEF Settle, Rest, Owns, Nothing, NoJob, remote,
     bounds, Unowned, Typed, DocumentsOK, PlacesOK, AnswersOK, Located,
     Concluded, Executing
<1>12. ASSUME NEW w \in Workers, Crash(w)
      PROVE  Unowned'
  BY <1>12, NameAssumption DEF Crash, Rest, Nothing, NoJob, remote, Unowned,
     Typed, DocumentsOK, PlacesOK, AnswersOK, Located, Concluded, Executing
<1>13. ASSUME NEW m \in Models, ReplaceActive(m)
      PROVE  Unowned'
  BY <1>13, <1>1 DEF ReplaceActive, document, locals, bounds
<1> QED
  BY <1>1, <1>2, <1>3, <1>4, <1>5, <1>6, <1>7, <1>8, <1>9, <1>10, <1>11, <1>12,
     <1>13
     DEF Next, WorkerStep, vars, document, remote, locals, bounds

\* Every step keeps cancelled jobs out of the pending writes.
LEMMA FilteredStep ==
    ASSUME Typed, Unowned, Filtered, [Next]_vars
    PROVE  Filtered'
<1>1. CASE UNCHANGED <<status, scan>>
  BY <1>1, NameAssumption DEF Filtered
<1>2. ASSUME NEW j \in Jobs,
           Cancel(j) \/ RemoteEnds(j) \/ RunsOut(j) \/ Stall(j)
      PROVE  Filtered'
  BY <1>2, <1>1 DEF Cancel, RemoteEnds, RunsOut, Stall, document, remote,
     locals, bounds
<1>3. ASSUME NEW w \in Workers,
           CountActive(w) \/ Health(w) \/ PostCount(w) \/ FindAndRead(w) \/
              SubmitRemote(w) \/ StoreRemoteId(w) \/ AskRemote(w) \/
              KeepCandidate(w) \/ Evaluate(w) \/ Gate(w) \/ Promote(w) \/
              Verify(w)
      PROVE  Filtered'
  BY <1>3, <1>1 DEF CountActive, Health, PostCount, FindAndRead, SubmitRemote,
     StoreRemoteId, AskRemote, KeepCandidate, Evaluate, Gate, Promote, Verify,
     document, remote, bounds
<1>4. ASSUME NEW j \in Jobs, Submit(j)
      PROVE  Filtered'
  BY <1>4, NameAssumption DEF Submit, remote, locals, bounds, Filtered,
     Unowned, Typed, DocumentsOK, PlacesOK, PendingOK, AnswersOK, Located,
     Concluded, Executing, Active
<1>5. ASSUME NEW j \in Jobs, CancelWrite(j)
      PROVE  Filtered'
  BY <1>5, NameAssumption DEF CancelWrite, Renewed, remote, bounds, Filtered,
     Unowned, Typed, DocumentsOK, PlacesOK, PendingOK, AnswersOK, Located,
     Concluded, Executing, Active
<1>6. ASSUME NEW w \in Workers, Reconcile(w)
      PROVE  Filtered'
  BY <1>6, NameAssumption DEF Reconcile, StaleWrite, Go, document, remote,
     bounds, Filtered, Unowned, Typed, DocumentsOK, PlacesOK, PendingOK,
     AnswersOK, Located, Concluded, Executing, Active
<1>7. ASSUME NEW w \in Workers, ReconcileWrite(w)
      PROVE  Filtered'
  <2>1. PICK j \in Jobs :
              \/ /\ scan' = [scan EXCEPT ![w][j] = "skip"]
                 /\ UNCHANGED <<status, owner, live>>
              \/ /\ ~(scan[w][j] = "unadmit" /\ status[j] # "ADMITTED") /\ scan[w][j] # "skip"
                 /\ status' = [status EXCEPT ![j] = IF scan[w][j] = "release" THEN status[j] ELSE "QUEUED"]
                 /\ owner' = [owner EXCEPT ![j] = Nobody]
                 /\ scan' = [Renewed(j) EXCEPT ![w][j] = "skip"]
    BY <1>7 DEF ReconcileWrite, Oldest
  <2>2. \A v \in Workers, k \in Jobs :
            \/ scan'[v][k] \in {"skip", "unadmit"}
            \/ scan'[v][k] = scan[v][k] /\ (k # j \/ UNCHANGED <<status, owner>>)
    <3>1. CASE scan' = [scan EXCEPT ![w][j] = "skip"] /\ UNCHANGED <<status, owner>>
      BY <3>1 DEF Typed, PendingOK
    <3>2. CASE scan' = [Renewed(j) EXCEPT ![w][j] = "skip"]
      <4> DEFINE f == Renewed(j)
      <4>0. f \in [Workers -> [Jobs -> {"skip", "unadmit", "requeue", "release"}]]
        BY RenewedType DEF Typed
      <4>1. \A v \in Workers, k \in Jobs : scan'[v][k] = IF v = w /\ k = j THEN "skip" ELSE f[v][k]
        <5>1. scan' = [f EXCEPT ![w][j] = "skip"]
          BY <3>2
        <5> HIDE DEF f
        <5> QED
          BY <4>0, <5>1, ClearedEntry
      <4>2. \A v \in Workers, k \in Jobs :
                Renewed(j)[v][k] \in {"skip", "unadmit"} \/ (k # j /\ Renewed(j)[v][k] = scan[v][k])
        BY DEF Renewed, Typed, PendingOK
      <4> QED
        BY <4>1, <4>2 DEF f
    <3> QED
      BY <2>1, <3>1, <3>2
  <2>3. \A k \in Jobs : k # j \/ UNCHANGED <<status, owner>> => status'[k] = status[k] /\ owner'[k] = owner[k]
    BY <2>1 DEF Typed, DocumentsOK
  <2> QED
    BY <1>7, <2>1, <2>2, <2>3 DEF ReconcileWrite, bounds, Filtered
<1>8. ASSUME NEW w \in Workers, Take(w)
      PROVE  Filtered'
  BY <1>8, NameAssumption DEF Take, Go, Oldest, remote, bounds, Filtered,
     Unowned, Typed, DocumentsOK, PlacesOK, PendingOK, AnswersOK, Located,
     Concluded, Executing, Active
<1>9. ASSUME NEW w \in Workers, Revert(w)
      PROVE  Filtered'
  BY <1>9, NameAssumption DEF Revert, Go, remote, bounds, Filtered, Unowned,
     Typed, DocumentsOK, PlacesOK, PendingOK, AnswersOK, Located, Concluded,
     Executing, Active
<1>10. ASSUME NEW w \in Workers, Acquire(w)
      PROVE  Filtered'
  BY <1>10, NameAssumption DEF Acquire, Go, Rest, Renewed, CanAcquire,
     Nothing, NoJob, remote, bounds, Filtered, Unowned, Typed, DocumentsOK,
     PlacesOK, PendingOK, AnswersOK, Located, Concluded, Executing, Active
<1>11. ASSUME NEW w \in Workers, Heartbeat(w)
      PROVE  Filtered'
  BY <1>11, NameAssumption DEF Heartbeat, Go, Rest, Renewed, Owns, Conclude,
     Nothing, NoJob, remote, bounds, Filtered, Unowned, Typed, DocumentsOK,
     PlacesOK, PendingOK, AnswersOK, Located, Concluded, Executing, Active
<1>12. ASSUME NEW w \in Workers, MarkEvaluating(w)
      PROVE  Filtered'
  BY <1>12, NameAssumption DEF MarkEvaluating, Go, Owns, remote, bounds,
     Filtered, Unowned, Typed, DocumentsOK, PlacesOK, PendingOK, AnswersOK,
     Located, Concluded, Executing, Active
<1>13. ASSUME NEW w \in Workers, LockForPromotion(w)
      PROVE  Filtered'
  <2>1. cur[w] \in Jobs
    BY <1>13 DEF LockForPromotion, Typed, PlacesOK, Located, Executing
  <2>2. \A v \in Workers, k \in Jobs : scan'[v][k] = scan[v][k] \/ scan'[v][k] \in {"skip", "unadmit"}
    BY <1>13, <2>1 DEF LockForPromotion, Renewed, Typed, PendingOK
  <2> QED
    BY <1>13, <2>2 DEF LockForPromotion, Filtered
<1>14. ASSUME NEW w \in Workers, Settle(w)
      PROVE  Filtered'
  BY <1>14, NameAssumption DEF Settle, Rest, Owns, Nothing, NoJob, remote,
     bounds, Filtered, Unowned, Typed, DocumentsOK, PlacesOK, PendingOK,
     AnswersOK, Located, Concluded, Executing, Active
<1>15. ASSUME NEW w \in Workers, Crash(w)
      PROVE  Filtered'
  BY <1>15, NameAssumption DEF Crash, Rest, Nothing, NoJob, remote, Filtered,
     Unowned, Typed, DocumentsOK, PlacesOK, PendingOK, AnswersOK, Located,
     Concluded, Executing, Active
<1>16. ASSUME NEW m \in Models, ReplaceActive(m)
      PROVE  Filtered'
  BY <1>16, <1>1 DEF ReplaceActive, document, locals, bounds
<1> QED
  BY <1>1, <1>2, <1>3, <1>4, <1>5, <1>6, <1>7, <1>8, <1>9, <1>10, <1>11,
     <1>12, <1>13, <1>14, <1>15,
     <1>16 DEF Next, WorkerStep, vars, document, remote,
     locals, bounds

\* Every step keeps the leases of live workers' active jobs live.
LEMMA LiveLeaseStep ==
    ASSUME Typed, Unowned, LiveLease, Held, [Next]_vars
    PROVE  LiveLease'
<1>1. CASE UNCHANGED <<status, owner, live, expiries>>
  BY <1>1, NameAssumption DEF LiveLease
<1>2. ASSUME NEW j \in Jobs,
           Cancel(j) \/ RemoteEnds(j)
      PROVE  LiveLease'
  BY <1>2, <1>1 DEF Cancel, RemoteEnds, document, locals, bounds
<1>3. ASSUME NEW w \in Workers,
           Reconcile(w) \/ CountActive(w) \/ Health(w) \/ PostCount(w) \/
              FindAndRead(w) \/ SubmitRemote(w) \/ StoreRemoteId(w) \/
              AskRemote(w) \/ KeepCandidate(w) \/ Evaluate(w) \/ Gate(w) \/
              Promote(w) \/ Verify(w)
      PROVE  LiveLease'
  BY <1>3, <1>1 DEF Reconcile, CountActive, Health, PostCount, FindAndRead,
     SubmitRemote, StoreRemoteId, AskRemote, KeepCandidate, Evaluate, Gate,
     Promote, Verify, document, remote, bounds
<1>4. ASSUME NEW j \in Jobs, Submit(j)
      PROVE  LiveLease'
  BY <1>4, NameAssumption DEF Submit, remote, locals, bounds, LiveLease, Held,
     Unowned, Typed, DocumentsOK, RemoteOK, PlacesOK, AnswersOK, Located,
     Concluded, Executing, Active
<1>5. ASSUME NEW j \in Jobs, CancelWrite(j)
      PROVE  LiveLease'
  BY <1>5, NameAssumption DEF CancelWrite, Renewed, remote, bounds, LiveLease,
     Held, Unowned, Typed, DocumentsOK, RemoteOK, PlacesOK, AnswersOK,
     Located, Concluded, Executing, Active
<1>6. ASSUME NEW j \in Jobs, RunsOut(j)
      PROVE  LiveLease'
  BY <1>6, NameAssumption DEF RunsOut, remote, locals, bounds, LiveLease,
     Held, Unowned, Typed, DocumentsOK, RemoteOK, PlacesOK, AnswersOK,
     Located, Concluded, Executing, Active
<1>7. ASSUME NEW j \in Jobs, Stall(j)
      PROVE  LiveLease'
  BY <1>7, NameAssumption DEF Stall, remote, locals, LiveLease, Held, Unowned,
     Typed, DocumentsOK, RemoteOK, PlacesOK, AnswersOK, Located, Concluded,
     Executing, Active
<1>8. ASSUME NEW w \in Workers, ReconcileWrite(w)
      PROVE  LiveLease'
  BY <1>8, NameAssumption DEF ReconcileWrite, Renewed, Oldest, remote, bounds,
     LiveLease, Held, Unowned, Typed, DocumentsOK, RemoteOK, PlacesOK,
     AnswersOK, Located, Concluded, Executing, Active
<1>9. ASSUME NEW w \in Workers, Take(w)
      PROVE  LiveLease'
  BY <1>9, NameAssumption DEF Take, Go, Oldest, remote, bounds, LiveLease,
     Held, Unowned, Typed, DocumentsOK, RemoteOK, PlacesOK, AnswersOK,
     Located, Concluded, Executing, Active
<1>10. ASSUME NEW w \in Workers, Revert(w)
      PROVE  LiveLease'
  BY <1>10, NameAssumption DEF Revert, Go, remote, bounds, LiveLease, Held,
     Unowned, Typed, DocumentsOK, RemoteOK, PlacesOK, AnswersOK, Located,
     Concluded, Executing, Active
<1>11. ASSUME NEW w \in Workers, Acquire(w)
      PROVE  LiveLease'
  <2>1. \A k \in Jobs : \/ live'[k] = TRUE
                        \/ live'[k] = live[k] /\ status'[k] = status[k] /\ owner'[k] = owner[k]
    BY <1>11 DEF Acquire, Typed, DocumentsOK
  <2> QED
    BY <1>11, <2>1 DEF Acquire, bounds, LiveLease
<1>12. ASSUME NEW w \in Workers, Heartbeat(w)
      PROVE  LiveLease'
  <2>1. \A k \in Jobs : live'[k] = live[k] \/ live'[k] = TRUE
    BY <1>12 DEF Heartbeat, Typed, DocumentsOK
  <2> QED
    BY <1>12, <2>1 DEF Heartbeat, bounds, LiveLease
<1>13. ASSUME NEW w \in Workers, MarkEvaluating(w)
      PROVE  LiveLease'
  BY <1>13, NameAssumption DEF MarkEvaluating, Go, Owns, remote, bounds,
     LiveLease, Held, Unowned, Typed, DocumentsOK, RemoteOK, PlacesOK,
     AnswersOK, Located, Concluded, Executing, Active
<1>14. ASSUME NEW w \in Workers, LockForPromotion(w)
      PROVE  LiveLease'
  <2>1. \A k \in Jobs : live'[k] = live[k] \/ live'[k] = TRUE
    BY <1>14 DEF LockForPromotion, Typed, DocumentsOK
  <2> QED
    BY <1>14, <2>1 DEF LockForPromotion, bounds, LiveLease
<1>15. ASSUME NEW w \in Workers, Settle(w)
      PROVE  LiveLease'
  BY <1>15, NameAssumption DEF Settle, Rest, Owns, Nothing, NoJob, remote,
     bounds, LiveLease, Held, Unowned, Typed, DocumentsOK, RemoteOK, PlacesOK,
     AnswersOK, Located, Concluded, Executing, Active
<1>16. ASSUME NEW w \in Workers, Crash(w)
      PROVE  LiveLease'
  BY <1>16, NameAssumption DEF Crash, Rest, Nothing, NoJob, remote, LiveLease,
     Held, Unowned, Typed, DocumentsOK, RemoteOK, PlacesOK, AnswersOK,
     Located, Concluded, Executing, Active
<1>17. ASSUME NEW m \in Models, ReplaceActive(m)
      PROVE  LiveLease'
  BY <1>17, <1>1 DEF ReplaceActive, document, locals, bounds
<1> QED
  BY <1>1, <1>2, <1>3, <1>4, <1>5, <1>6, <1>7, <1>8, <1>9, <1>10, <1>11,
     <1>12, <1>13, <1>14, <1>15, <1>16,
     <1>17 DEF Next, WorkerStep, vars, document,
     remote, locals, bounds

\* Every step keeps the pending writes harmless.
LEMMA HarmlessStep ==
    ASSUME Typed, Unowned, LiveLease, Harmless, Held, [Next]_vars
    PROVE  Harmless'
<1>1. CASE UNCHANGED <<status, owner, scan, expiries>>
  BY <1>1, NameAssumption DEF Harmless
<1>2. ASSUME NEW j \in Jobs,
           Cancel(j) \/ RemoteEnds(j) \/ RunsOut(j)
      PROVE  Harmless'
  BY <1>2, <1>1 DEF Cancel, RemoteEnds, RunsOut, document, remote, locals,
     bounds
<1>3. ASSUME NEW w \in Workers,
           CountActive(w) \/ Health(w) \/ PostCount(w) \/ FindAndRead(w) \/
              SubmitRemote(w) \/ StoreRemoteId(w) \/ AskRemote(w) \/
              KeepCandidate(w) \/ Evaluate(w) \/ Gate(w) \/ Promote(w) \/
              Verify(w)
      PROVE  Harmless'
  BY <1>3, <1>1 DEF CountActive, Health, PostCount, FindAndRead, SubmitRemote,
     StoreRemoteId, AskRemote, KeepCandidate, Evaluate, Gate, Promote, Verify,
     document, remote, bounds
<1>4. ASSUME NEW j \in Jobs, Submit(j)
      PROVE  Harmless'
  BY <1>4, NameAssumption DEF Submit, remote, locals, bounds, Harmless,
     LiveLease, Held, Unowned, Typed, DocumentsOK, RemoteOK, PlacesOK,
     PendingOK, AnswersOK, Located, Concluded, Executing, Active, Terminal
<1>5. ASSUME NEW j \in Jobs, CancelWrite(j)
      PROVE  Harmless'
  BY <1>5, NameAssumption DEF CancelWrite, Renewed, remote, bounds, Harmless,
     LiveLease, Held, Unowned, Typed, DocumentsOK, RemoteOK, PlacesOK,
     PendingOK, AnswersOK, Located, Concluded, Executing, Active, Terminal
<1>6. ASSUME NEW j \in Jobs, Stall(j)
      PROVE  Harmless'
  BY <1>6, NameAssumption DEF Stall, remote, locals, Harmless, LiveLease,
     Held, Unowned, Typed, DocumentsOK, RemoteOK, PlacesOK, PendingOK,
     AnswersOK, Located, Concluded, Executing, Active, Terminal
<1>7. ASSUME NEW w \in Workers, Reconcile(w)
      PROVE  Harmless'
  BY <1>7, NameAssumption DEF Reconcile, StaleWrite, Go, document, remote,
     bounds, Harmless, LiveLease, Held, Unowned, Typed, DocumentsOK, RemoteOK,
     PlacesOK, PendingOK, AnswersOK, Located, Concluded, Executing, Active,
     Terminal
<1>8. ASSUME NEW w \in Workers, ReconcileWrite(w)
      PROVE  Harmless'
  <2>1. PICK j \in Jobs :
              \/ /\ scan' = [scan EXCEPT ![w][j] = "skip"]
                 /\ UNCHANGED <<status, owner, live>>
              \/ /\ ~(scan[w][j] = "unadmit" /\ status[j] # "ADMITTED") /\ scan[w][j] # "skip"
                 /\ status' = [status EXCEPT ![j] = IF scan[w][j] = "release" THEN status[j] ELSE "QUEUED"]
                 /\ owner' = [owner EXCEPT ![j] = Nobody]
                 /\ scan' = [Renewed(j) EXCEPT ![w][j] = "skip"]
    BY <1>8 DEF ReconcileWrite, Oldest
  <2>2. \A v \in Workers, k \in Jobs :
            \/ scan'[v][k] \in {"skip", "unadmit"}
            \/ scan'[v][k] = scan[v][k] /\ (k # j \/ UNCHANGED <<status, owner>>)
    <3>1. CASE scan' = [scan EXCEPT ![w][j] = "skip"] /\ UNCHANGED <<status, owner>>
      BY <3>1 DEF Typed, PendingOK
    <3>2. CASE scan' = [Renewed(j) EXCEPT ![w][j] = "skip"]
      <4> DEFINE f == Renewed(j)
      <4>0. f \in [Workers -> [Jobs -> {"skip", "unadmit", "requeue", "release"}]]
        BY RenewedType DEF Typed
      <4>1. \A v \in Workers, k \in Jobs : scan'[v][k] = IF v = w /\ k = j THEN "skip" ELSE f[v][k]
        <5>1. scan' = [f EXCEPT ![w][j] = "skip"]
          BY <3>2
        <5> HIDE DEF f
        <5> QED
          BY <4>0, <5>1, ClearedEntry
      <4>2. \A v \in Workers, k \in Jobs :
                Renewed(j)[v][k] \in {"skip", "unadmit"} \/ (k # j /\ Renewed(j)[v][k] = scan[v][k])
        BY DEF Renewed, Typed, PendingOK
      <4> QED
        BY <4>1, <4>2 DEF f
    <3> QED
      BY <2>1, <3>1, <3>2
  <2>3. \A k \in Jobs : k # j \/ UNCHANGED <<status, owner>> => status'[k] = status[k] /\ owner'[k] = owner[k]
    BY <2>1 DEF Typed, DocumentsOK
  <2> QED
    BY <1>8, <2>1, <2>2, <2>3 DEF ReconcileWrite, bounds, Harmless
<1>9. ASSUME NEW w \in Workers, Take(w)
      PROVE  Harmless'
  BY <1>9, NameAssumption DEF Take, Go, Oldest, remote, bounds, Harmless,
     LiveLease, Held, Unowned, Typed, DocumentsOK, RemoteOK, PlacesOK,
     PendingOK, AnswersOK, Located, Concluded, Executing, Active, Terminal
<1>10. ASSUME NEW w \in Workers, Revert(w)
      PROVE  Harmless'
  BY <1>10, NameAssumption DEF Revert, Go, remote, bounds, Harmless,
     LiveLease, Held, Unowned, Typed, DocumentsOK, RemoteOK, PlacesOK,
     PendingOK, AnswersOK, Located, Concluded, Executing, Active, Terminal
<1>11. ASSUME NEW w \in Workers, Acquire(w)
      PROVE  Harmless'
  <2>1. cur[w] \in Jobs
    BY <1>11 DEF Acquire, Typed, PlacesOK, Located
  <2>2. CASE UNCHANGED <<status, owner, scan>>
    BY <1>11, <2>2 DEF Acquire, bounds, Harmless
  <2>3. CASE /\ status' = [status EXCEPT ![cur[w]] = IF read[w].evaluating THEN "EVALUATING" ELSE "RUNNING"]
             /\ owner' = [owner EXCEPT ![cur[w]] = w]
             /\ scan' = Renewed(cur[w])
    <3>1. \A v \in Workers : scan'[v][cur[w]] \in {"skip", "unadmit"}
      BY <2>1, <2>3 DEF Renewed, Typed, PendingOK
    <3>2. \A v \in Workers, k \in Jobs \ {cur[w]} :
              scan'[v][k] = scan[v][k] /\ status'[k] = status[k] /\ owner'[k] = owner[k]
      BY <2>1, <2>3 DEF Renewed, Typed, PendingOK, DocumentsOK
    <3> QED
      BY <1>11, <3>1, <3>2 DEF Acquire, bounds, Harmless
  <2> QED
    BY <1>11, <2>2, <2>3 DEF Acquire
<1>12. ASSUME NEW w \in Workers, Heartbeat(w)
      PROVE  Harmless'
  BY <1>12, NameAssumption DEF Heartbeat, Go, Rest, Renewed, Owns, Conclude,
     Nothing, NoJob, remote, bounds, Harmless, LiveLease, Held, Unowned,
     Typed, DocumentsOK, RemoteOK, PlacesOK, PendingOK, AnswersOK, Located,
     Concluded, Executing, Active, Terminal
<1>13. ASSUME NEW w \in Workers, MarkEvaluating(w)
      PROVE  Harmless'
  BY <1>13, NameAssumption DEF MarkEvaluating, Go, Owns, remote, bounds,
     Harmless, LiveLease, Held, Unowned, Typed, DocumentsOK, RemoteOK,
     PlacesOK, PendingOK, AnswersOK, Located, Concluded, Executing, Active,
     Terminal
<1>14. ASSUME NEW w \in Workers, LockForPromotion(w)
      PROVE  Harmless'
  BY <1>14, NameAssumption DEF LockForPromotion, Go, Rest, Owns, Renewed,
     Nothing, NoJob, remote, bounds, Harmless, LiveLease, Held, Unowned,
     Typed, DocumentsOK, RemoteOK, PlacesOK, PendingOK, AnswersOK, Located,
     Concluded, Executing, Active, Terminal
<1>15. ASSUME NEW w \in Workers, Settle(w)
      PROVE  Harmless'
  BY <1>15, NameAssumption DEF Settle, Rest, Owns, Nothing, NoJob, remote,
     bounds, Harmless, LiveLease, Held, Unowned, Typed, DocumentsOK, RemoteOK,
     PlacesOK, PendingOK, AnswersOK, Located, Concluded, Executing, Active,
     Terminal
<1>16. ASSUME NEW w \in Workers, Crash(w)
      PROVE  Harmless'
  BY <1>16, NameAssumption DEF Crash, Rest, Nothing, NoJob, remote, Harmless,
     LiveLease, Held, Unowned, Typed, DocumentsOK, RemoteOK, PlacesOK,
     PendingOK, AnswersOK, Located, Concluded, Executing, Active, Terminal
<1>17. ASSUME NEW m \in Models, ReplaceActive(m)
      PROVE  Harmless'
  BY <1>17, <1>1 DEF ReplaceActive, document, locals, bounds
<1> QED
  BY <1>1, <1>2, <1>3, <1>4, <1>5, <1>6, <1>7, <1>8, <1>9, <1>10, <1>11,
     <1>12, <1>13, <1>14, <1>15, <1>16,
     <1>17 DEF Next, WorkerStep, vars, document,
     remote, locals, bounds

\* Every step keeps every executing worker the owner of its job.
LEMMA HeldStep ==
    ASSUME Typed, Unowned, Filtered, LiveLease, Harmless, Held, ExclusiveExecution, [Next]_vars
    PROVE  Held'
<1>1. CASE UNCHANGED <<pc, cur, status, owner, expiries>>
  BY <1>1, NameAssumption DEF Held
<1>2. ASSUME NEW j \in Jobs,
           Cancel(j) \/ RemoteEnds(j) \/ RunsOut(j)
      PROVE  Held'
  BY <1>2, <1>1 DEF Cancel, RemoteEnds, RunsOut, document, remote, locals,
     bounds
<1>3. ASSUME NEW j \in Jobs, Submit(j)
      PROVE  Held'
  BY <1>3, NameAssumption DEF Submit, remote, locals, bounds, Held,
     ExclusiveExecution, LiveLease, Harmless, Unowned, Filtered, Typed,
     DocumentsOK, RemoteOK, PlacesOK, Located, Executing, Active
<1>4. ASSUME NEW j \in Jobs, CancelWrite(j)
      PROVE  Held'
  BY <1>4, NameAssumption DEF CancelWrite, Renewed, remote, bounds, Held,
     ExclusiveExecution, LiveLease, Harmless, Unowned, Filtered, Typed,
     DocumentsOK, RemoteOK, PlacesOK, Located, Executing, Active
<1>5. ASSUME NEW j \in Jobs, Stall(j)
      PROVE  Held'
  BY <1>5, NameAssumption DEF Stall, remote, locals, Held, ExclusiveExecution,
     LiveLease, Harmless, Unowned, Filtered, Typed, DocumentsOK, RemoteOK,
     PlacesOK, Located, Executing, Active
<1>6. ASSUME NEW w \in Workers, Reconcile(w)
      PROVE  Held'
  BY <1>6, NameAssumption DEF Reconcile, StaleWrite, Go, document, remote,
     bounds, Held, ExclusiveExecution, LiveLease, Harmless, Unowned, Filtered,
     Typed, DocumentsOK, RemoteOK, PlacesOK, Located, Executing, Active
<1>7. ASSUME NEW w \in Workers, ReconcileWrite(w)
      PROVE  Held'
  BY <1>7, NameAssumption DEF ReconcileWrite, Renewed, Oldest, remote, bounds,
     Held, ExclusiveExecution, LiveLease, Harmless, Unowned, Filtered, Typed,
     DocumentsOK, RemoteOK, PlacesOK, Located, Executing, Active
<1>8. ASSUME NEW w \in Workers, CountActive(w)
      PROVE  Held'
  BY <1>8, NameAssumption DEF CountActive, Go, document, remote, bounds, Held,
     ExclusiveExecution, LiveLease, Harmless, Unowned, Filtered, Typed,
     DocumentsOK, RemoteOK, PlacesOK, Located, Executing, Active
<1>9. ASSUME NEW w \in Workers, Health(w)
      PROVE  Held'
  BY <1>9, NameAssumption DEF Health, Go, Fault, document, remote, Held,
     ExclusiveExecution, LiveLease, Harmless, Unowned, Filtered, Typed,
     DocumentsOK, RemoteOK, PlacesOK, Located, Executing, Active
<1>10. ASSUME NEW w \in Workers, Take(w)
      PROVE  Held'
  BY <1>10, NameAssumption DEF Take, Go, Oldest, remote, bounds, Held,
     ExclusiveExecution, LiveLease, Harmless, Unowned, Filtered, Typed,
     DocumentsOK, RemoteOK, PlacesOK, Located, Executing, Active
<1>11. ASSUME NEW w \in Workers, PostCount(w)
      PROVE  Held'
  BY <1>11, NameAssumption DEF PostCount, Go, document, remote, bounds, Held,
     ExclusiveExecution, LiveLease, Harmless, Unowned, Filtered, Typed,
     DocumentsOK, RemoteOK, PlacesOK, Located, Executing, Active
<1>12. ASSUME NEW w \in Workers, Revert(w)
      PROVE  Held'
  BY <1>12, NameAssumption DEF Revert, Go, remote, bounds, Held,
     ExclusiveExecution, LiveLease, Harmless, Unowned, Filtered, Typed,
     DocumentsOK, RemoteOK, PlacesOK, Located, Executing, Active
<1>13. ASSUME NEW w \in Workers, FindAndRead(w)
      PROVE  Held'
  BY <1>13, NameAssumption DEF FindAndRead, Go, Rest, Oldest, Available,
     ActiveJobs, Nothing, NoJob, document, remote, bounds, Held,
     ExclusiveExecution, LiveLease, Harmless, Unowned, Filtered, Typed,
     DocumentsOK, RemoteOK, PlacesOK, Located, Executing, Active
<1>14. ASSUME NEW w \in Workers, Acquire(w)
      PROVE  Held'
  BY <1>14, NameAssumption DEF Acquire, Go, Rest, Renewed, CanAcquire,
     Nothing, NoJob, remote, bounds, Held, ExclusiveExecution, LiveLease,
     Harmless, Unowned, Filtered, Typed, DocumentsOK, RemoteOK, PlacesOK,
     Located, Executing, Active
<1>15. ASSUME NEW w \in Workers, SubmitRemote(w)
      PROVE  Held'
  BY <1>15, NameAssumption DEF SubmitRemote, Go, Fault, Conclude, document,
     Held, ExclusiveExecution, LiveLease, Harmless, Unowned, Filtered, Typed,
     DocumentsOK, RemoteOK, PlacesOK, Located, Executing, Active
<1>16. ASSUME NEW w \in Workers, StoreRemoteId(w)
      PROVE  Held'
  BY <1>16, NameAssumption DEF StoreRemoteId, Go, Owns, remote, bounds, Held,
     ExclusiveExecution, LiveLease, Harmless, Unowned, Filtered, Typed,
     DocumentsOK, RemoteOK, PlacesOK, Located, Executing, Active
<1>17. ASSUME NEW w \in Workers, Heartbeat(w)
      PROVE  Held'
  BY <1>17, NameAssumption DEF Heartbeat, Go, Rest, Renewed, Owns, Conclude,
     Nothing, NoJob, remote, bounds, Held, ExclusiveExecution, LiveLease,
     Harmless, Unowned, Filtered, Typed, DocumentsOK, RemoteOK, PlacesOK,
     Located, Executing, Active
<1>18. ASSUME NEW w \in Workers, AskRemote(w)
      PROVE  Held'
  BY <1>18, NameAssumption DEF AskRemote, Go, Rest, Fault, Conclude, Nothing,
     NoJob, document, remote, Held, ExclusiveExecution, LiveLease, Harmless,
     Unowned, Filtered, Typed, DocumentsOK, RemoteOK, PlacesOK, Located,
     Executing, Active
<1>19. ASSUME NEW w \in Workers, KeepCandidate(w)
      PROVE  Held'
  BY <1>19, NameAssumption DEF KeepCandidate, Go, Owns, remote, bounds, Held,
     ExclusiveExecution, LiveLease, Harmless, Unowned, Filtered, Typed,
     DocumentsOK, RemoteOK, PlacesOK, Located, Executing, Active
<1>20. ASSUME NEW w \in Workers, MarkEvaluating(w)
      PROVE  Held'
  BY <1>20, NameAssumption DEF MarkEvaluating, Go, Owns, remote, bounds, Held,
     ExclusiveExecution, LiveLease, Harmless, Unowned, Filtered, Typed,
     DocumentsOK, RemoteOK, PlacesOK, Located, Executing, Active
<1>21. ASSUME NEW w \in Workers, Evaluate(w)
      PROVE  Held'
  BY <1>21, NameAssumption DEF Evaluate, Go, Fault, Conclude, document,
     remote, Held, ExclusiveExecution, LiveLease, Harmless, Unowned, Filtered,
     Typed, DocumentsOK, RemoteOK, PlacesOK, Located, Executing, Active
<1>22. ASSUME NEW w \in Workers, Gate(w)
      PROVE  Held'
  BY <1>22, NameAssumption DEF Gate, Go, Fault, Conclude, document, remote,
     Held, ExclusiveExecution, LiveLease, Harmless, Unowned, Filtered, Typed,
     DocumentsOK, RemoteOK, PlacesOK, Located, Executing, Active
<1>23. ASSUME NEW w \in Workers, LockForPromotion(w)
      PROVE  Held'
  BY <1>23, NameAssumption DEF LockForPromotion, Go, Rest, Owns, Renewed,
     Nothing, NoJob, remote, bounds, Held, ExclusiveExecution, LiveLease,
     Harmless, Unowned, Filtered, Typed, DocumentsOK, RemoteOK, PlacesOK,
     Located, Executing, Active
<1>24. ASSUME NEW w \in Workers, Promote(w)
      PROVE  Held'
  BY <1>24, NameAssumption DEF Promote, Go, Fault, Conclude, Models, document,
     Held, ExclusiveExecution, LiveLease, Harmless, Unowned, Filtered, Typed,
     DocumentsOK, RemoteOK, PlacesOK, Located, Executing, Active
<1>25. ASSUME NEW w \in Workers, Verify(w)
      PROVE  Held'
  BY <1>25, NameAssumption DEF Verify, Go, Rest, Fault, Conclude, Nothing,
     NoJob, document, remote, Held, ExclusiveExecution, LiveLease, Harmless,
     Unowned, Filtered, Typed, DocumentsOK, RemoteOK, PlacesOK, Located,
     Executing, Active
<1>26. ASSUME NEW w \in Workers, Settle(w)
      PROVE  Held'
  BY <1>26, NameAssumption DEF Settle, Rest, Owns, Nothing, NoJob, remote,
     bounds, Held, ExclusiveExecution, LiveLease, Harmless, Unowned, Filtered,
     Typed, DocumentsOK, RemoteOK, PlacesOK, Located, Executing, Active
<1>27. ASSUME NEW w \in Workers, Crash(w)
      PROVE  Held'
  BY <1>27, NameAssumption DEF Crash, Rest, Nothing, NoJob, remote, Held,
     ExclusiveExecution, LiveLease, Harmless, Unowned, Filtered, Typed,
     DocumentsOK, RemoteOK, PlacesOK, Located, Executing, Active
<1>28. ASSUME NEW m \in Models, ReplaceActive(m)
      PROVE  Held'
  BY <1>28, <1>1 DEF ReplaceActive, document, locals, bounds
<1> QED
  BY <1>1, <1>2, <1>3, <1>4, <1>5, <1>6, <1>7, <1>8, <1>9, <1>10, <1>11,
     <1>12, <1>13, <1>14, <1>15, <1>16, <1>17, <1>18, <1>19, <1>20, <1>21,
     <1>22, <1>23, <1>24, <1>25, <1>26, <1>27,
     <1>28 DEF Next, WorkerStep, vars,
     document, remote, locals, bounds

\* Every step keeps executions exclusive.
LEMMA ExclusiveStep ==
    ASSUME Typed, LiveLease, Held, ExclusiveExecution, [Next]_vars
    PROVE  ExclusiveExecution'
<1>1. CASE UNCHANGED <<pc, cur, expiries>>
  BY <1>1, NameAssumption DEF ExclusiveExecution
<1>2. ASSUME NEW j \in Jobs,
           Submit(j) \/ Cancel(j) \/ CancelWrite(j) \/ RemoteEnds(j) \/
              RunsOut(j)
      PROVE  ExclusiveExecution'
  BY <1>2, <1>1 DEF Submit, Cancel, CancelWrite, RemoteEnds, RunsOut,
     document, remote, locals, bounds
<1>3. ASSUME NEW w \in Workers,
           ReconcileWrite(w)
      PROVE  ExclusiveExecution'
  BY <1>3, <1>1 DEF ReconcileWrite, remote, bounds
<1>4. ASSUME NEW j \in Jobs, Stall(j)
      PROVE  ExclusiveExecution'
  BY <1>4, NameAssumption DEF Stall, remote, locals, ExclusiveExecution,
     LiveLease, Held, Typed, RemoteOK, PlacesOK, Located, Executing, Active
<1>5. ASSUME NEW w \in Workers, Reconcile(w)
      PROVE  ExclusiveExecution'
  BY <1>5, NameAssumption DEF Reconcile, StaleWrite, Go, document, remote,
     bounds, ExclusiveExecution, LiveLease, Held, Typed, RemoteOK, PlacesOK,
     Located, Executing, Active
<1>6. ASSUME NEW w \in Workers, CountActive(w)
      PROVE  ExclusiveExecution'
  BY <1>6, NameAssumption DEF CountActive, Go, document, remote, bounds,
     ExclusiveExecution, LiveLease, Held, Typed, RemoteOK, PlacesOK, Located,
     Executing, Active
<1>7. ASSUME NEW w \in Workers, Health(w)
      PROVE  ExclusiveExecution'
  BY <1>7, NameAssumption DEF Health, Go, Fault, document, remote,
     ExclusiveExecution, LiveLease, Held, Typed, RemoteOK, PlacesOK, Located,
     Executing, Active
<1>8. ASSUME NEW w \in Workers, Take(w)
      PROVE  ExclusiveExecution'
  BY <1>8, NameAssumption DEF Take, Go, Oldest, remote, bounds,
     ExclusiveExecution, LiveLease, Held, Typed, RemoteOK, PlacesOK, Located,
     Executing, Active
<1>9. ASSUME NEW w \in Workers, PostCount(w)
      PROVE  ExclusiveExecution'
  BY <1>9, NameAssumption DEF PostCount, Go, document, remote, bounds,
     ExclusiveExecution, LiveLease, Held, Typed, RemoteOK, PlacesOK, Located,
     Executing, Active
<1>10. ASSUME NEW w \in Workers, Revert(w)
      PROVE  ExclusiveExecution'
  BY <1>10, NameAssumption DEF Revert, Go, remote, bounds, ExclusiveExecution,
     LiveLease, Held, Typed, RemoteOK, PlacesOK, Located, Executing, Active
<1>11. ASSUME NEW w \in Workers, FindAndRead(w)
      PROVE  ExclusiveExecution'
  BY <1>11, NameAssumption DEF FindAndRead, Go, Rest, Oldest, Available,
     ActiveJobs, Nothing, NoJob, document, remote, bounds, ExclusiveExecution,
     LiveLease, Held, Typed, RemoteOK, PlacesOK, Located, Executing, Active
<1>12. ASSUME NEW w \in Workers, Acquire(w)
      PROVE  ExclusiveExecution'
  BY <1>12, NameAssumption DEF Acquire, Go, Rest, Renewed, CanAcquire,
     Nothing, NoJob, remote, bounds, ExclusiveExecution, LiveLease, Held,
     Typed, RemoteOK, PlacesOK, Located, Executing, Active
<1>13. ASSUME NEW w \in Workers, SubmitRemote(w)
      PROVE  ExclusiveExecution'
  BY <1>13, NameAssumption DEF SubmitRemote, Go, Fault, Conclude, document,
     ExclusiveExecution, LiveLease, Held, Typed, RemoteOK, PlacesOK, Located,
     Executing, Active
<1>14. ASSUME NEW w \in Workers, StoreRemoteId(w)
      PROVE  ExclusiveExecution'
  BY <1>14, NameAssumption DEF StoreRemoteId, Go, Owns, remote, bounds,
     ExclusiveExecution, LiveLease, Held, Typed, RemoteOK, PlacesOK, Located,
     Executing, Active
<1>15. ASSUME NEW w \in Workers, Heartbeat(w)
      PROVE  ExclusiveExecution'
  BY <1>15, NameAssumption DEF Heartbeat, Go, Rest, Renewed, Owns, Conclude,
     Nothing, NoJob, remote, bounds, ExclusiveExecution, LiveLease, Held,
     Typed, RemoteOK, PlacesOK, Located, Executing, Active
<1>16. ASSUME NEW w \in Workers, AskRemote(w)
      PROVE  ExclusiveExecution'
  BY <1>16, NameAssumption DEF AskRemote, Go, Rest, Fault, Conclude, Nothing,
     NoJob, document, remote, ExclusiveExecution, LiveLease, Held, Typed,
     RemoteOK, PlacesOK, Located, Executing, Active
<1>17. ASSUME NEW w \in Workers, KeepCandidate(w)
      PROVE  ExclusiveExecution'
  BY <1>17, NameAssumption DEF KeepCandidate, Go, Owns, remote, bounds,
     ExclusiveExecution, LiveLease, Held, Typed, RemoteOK, PlacesOK, Located,
     Executing, Active
<1>18. ASSUME NEW w \in Workers, MarkEvaluating(w)
      PROVE  ExclusiveExecution'
  BY <1>18, NameAssumption DEF MarkEvaluating, Go, Owns, remote, bounds,
     ExclusiveExecution, LiveLease, Held, Typed, RemoteOK, PlacesOK, Located,
     Executing, Active
<1>19. ASSUME NEW w \in Workers, Evaluate(w)
      PROVE  ExclusiveExecution'
  BY <1>19, NameAssumption DEF Evaluate, Go, Fault, Conclude, document,
     remote, ExclusiveExecution, LiveLease, Held, Typed, RemoteOK, PlacesOK,
     Located, Executing, Active
<1>20. ASSUME NEW w \in Workers, Gate(w)
      PROVE  ExclusiveExecution'
  BY <1>20, NameAssumption DEF Gate, Go, Fault, Conclude, document, remote,
     ExclusiveExecution, LiveLease, Held, Typed, RemoteOK, PlacesOK, Located,
     Executing, Active
<1>21. ASSUME NEW w \in Workers, LockForPromotion(w)
      PROVE  ExclusiveExecution'
  BY <1>21, NameAssumption DEF LockForPromotion, Go, Rest, Owns, Renewed,
     Nothing, NoJob, remote, bounds, ExclusiveExecution, LiveLease, Held,
     Typed, RemoteOK, PlacesOK, Located, Executing, Active
<1>22. ASSUME NEW w \in Workers, Promote(w)
      PROVE  ExclusiveExecution'
  BY <1>22, NameAssumption DEF Promote, Go, Fault, Conclude, Models, document,
     ExclusiveExecution, LiveLease, Held, Typed, RemoteOK, PlacesOK, Located,
     Executing, Active
<1>23. ASSUME NEW w \in Workers, Verify(w)
      PROVE  ExclusiveExecution'
  BY <1>23, NameAssumption DEF Verify, Go, Rest, Fault, Conclude, Nothing,
     NoJob, document, remote, ExclusiveExecution, LiveLease, Held, Typed,
     RemoteOK, PlacesOK, Located, Executing, Active
<1>24. ASSUME NEW w \in Workers, Settle(w)
      PROVE  ExclusiveExecution'
  BY <1>24, NameAssumption DEF Settle, Rest, Owns, Nothing, NoJob, remote,
     bounds, ExclusiveExecution, LiveLease, Held, Typed, RemoteOK, PlacesOK,
     Located, Executing, Active
<1>25. ASSUME NEW w \in Workers, Crash(w)
      PROVE  ExclusiveExecution'
  BY <1>25, NameAssumption DEF Crash, Rest, Nothing, NoJob, remote,
     ExclusiveExecution, LiveLease, Held, Typed, RemoteOK, PlacesOK, Located,
     Executing, Active
<1>26. ASSUME NEW m \in Models, ReplaceActive(m)
      PROVE  ExclusiveExecution'
  BY <1>26, <1>1 DEF ReplaceActive, document, locals, bounds
<1> QED
  BY <1>1, <1>2, <1>3, <1>4, <1>5, <1>6, <1>7, <1>8, <1>9, <1>10, <1>11,
     <1>12, <1>13, <1>14, <1>15, <1>16, <1>17, <1>18, <1>19, <1>20, <1>21,
     <1>22, <1>23, <1>24, <1>25,
     <1>26 DEF Next, WorkerStep, vars, document, remote,
     locals, bounds

\* No step changes a cancelled job's status.
LEMMA CancelledStep ==
    ASSUME Typed, Unowned, Filtered, [Next]_vars
    PROVE  CancelledKept
<1>1. CASE UNCHANGED <<status>>
  BY <1>1, NameAssumption DEF CancelledKept
<1>2. ASSUME NEW j \in Jobs,
           Cancel(j) \/ RemoteEnds(j) \/ RunsOut(j) \/ Stall(j)
      PROVE  CancelledKept
  BY <1>2, <1>1 DEF Cancel, RemoteEnds, RunsOut, Stall, document, remote,
     locals, bounds
<1>3. ASSUME NEW w \in Workers,
           Reconcile(w) \/ CountActive(w) \/ Health(w) \/ PostCount(w) \/
              FindAndRead(w) \/ SubmitRemote(w) \/ StoreRemoteId(w) \/
              Heartbeat(w) \/ AskRemote(w) \/ KeepCandidate(w) \/ Evaluate(w)
              \/ Gate(w) \/ LockForPromotion(w) \/ Promote(w) \/ Verify(w) \/
              Crash(w)
      PROVE  CancelledKept
  BY <1>3, <1>1 DEF Reconcile, CountActive, Health, PostCount, FindAndRead,
     SubmitRemote, StoreRemoteId, Heartbeat, AskRemote, KeepCandidate,
     Evaluate, Gate, LockForPromotion, Promote, Verify, Crash, document,
     remote, bounds
<1>4. ASSUME NEW j \in Jobs, Submit(j)
      PROVE  CancelledKept
  BY <1>4, NameAssumption DEF Submit, remote, locals, bounds, CancelledKept,
     Unowned, Filtered, Typed, DocumentsOK, PlacesOK, Located, Executing,
     Active
<1>5. ASSUME NEW j \in Jobs, CancelWrite(j)
      PROVE  CancelledKept
  BY <1>5, NameAssumption DEF CancelWrite, Renewed, remote, bounds,
     CancelledKept, Unowned, Filtered, Typed, DocumentsOK, PlacesOK, Located,
     Executing, Active
<1>6. ASSUME NEW w \in Workers, ReconcileWrite(w)
      PROVE  CancelledKept
  BY <1>6, NameAssumption DEF ReconcileWrite, Renewed, Oldest, remote, bounds,
     CancelledKept, Unowned, Filtered, Typed, DocumentsOK, PlacesOK, Located,
     Executing, Active
<1>7. ASSUME NEW w \in Workers, Take(w)
      PROVE  CancelledKept
  BY <1>7, NameAssumption DEF Take, Go, Oldest, remote, bounds, CancelledKept,
     Unowned, Filtered, Typed, DocumentsOK, PlacesOK, Located, Executing,
     Active
<1>8. ASSUME NEW w \in Workers, Revert(w)
      PROVE  CancelledKept
  BY <1>8, NameAssumption DEF Revert, Go, remote, bounds, CancelledKept,
     Unowned, Filtered, Typed, DocumentsOK, PlacesOK, Located, Executing,
     Active
<1>9. ASSUME NEW w \in Workers, Acquire(w)
      PROVE  CancelledKept
  BY <1>9, NameAssumption DEF Acquire, Go, Rest, Renewed, CanAcquire, Nothing,
     NoJob, remote, bounds, CancelledKept, Unowned, Filtered, Typed,
     DocumentsOK, PlacesOK, Located, Executing, Active
<1>10. ASSUME NEW w \in Workers, MarkEvaluating(w)
      PROVE  CancelledKept
  BY <1>10, NameAssumption DEF MarkEvaluating, Go, Owns, remote, bounds,
     CancelledKept, Unowned, Filtered, Typed, DocumentsOK, PlacesOK, Located,
     Executing, Active
<1>11. ASSUME NEW w \in Workers, Settle(w)
      PROVE  CancelledKept
  BY <1>11, NameAssumption DEF Settle, Rest, Owns, Nothing, NoJob, remote,
     bounds, CancelledKept, Unowned, Filtered, Typed, DocumentsOK, PlacesOK,
     Located, Executing, Active
<1>12. ASSUME NEW m \in Models, ReplaceActive(m)
      PROVE  CancelledKept
  BY <1>12, <1>1 DEF ReplaceActive, document, locals, bounds
<1> QED
  BY <1>1, <1>2, <1>3, <1>4, <1>5, <1>6, <1>7, <1>8, <1>9, <1>10, <1>11,
     <1>12 DEF
     Next, WorkerStep, vars, document, remote, locals, bounds

\* While no lease ran out under a live worker, no step but a cancellation changes
\* an outcome.
LEMMA OutcomeStep ==
    ASSUME Typed, Unowned, Harmless, Held, [Next]_vars
    PROVE  OutcomeKept
<1>1. CASE UNCHANGED <<status>>
  BY <1>1, NameAssumption DEF OutcomeKept
<1>2. ASSUME NEW j \in Jobs,
           Cancel(j) \/ RemoteEnds(j) \/ RunsOut(j) \/ Stall(j)
      PROVE  OutcomeKept
  BY <1>2, <1>1 DEF Cancel, RemoteEnds, RunsOut, Stall, document, remote,
     locals, bounds
<1>3. ASSUME NEW w \in Workers,
           Reconcile(w) \/ CountActive(w) \/ Health(w) \/ PostCount(w) \/
              FindAndRead(w) \/ SubmitRemote(w) \/ StoreRemoteId(w) \/
              Heartbeat(w) \/ AskRemote(w) \/ KeepCandidate(w) \/ Evaluate(w)
              \/ Gate(w) \/ LockForPromotion(w) \/ Promote(w) \/ Verify(w) \/
              Crash(w)
      PROVE  OutcomeKept
  BY <1>3, <1>1 DEF Reconcile, CountActive, Health, PostCount, FindAndRead,
     SubmitRemote, StoreRemoteId, Heartbeat, AskRemote, KeepCandidate,
     Evaluate, Gate, LockForPromotion, Promote, Verify, Crash, document,
     remote, bounds
<1>4. ASSUME NEW j \in Jobs, Submit(j)
      PROVE  OutcomeKept
  BY <1>4, NameAssumption DEF Submit, remote, locals, bounds, OutcomeKept,
     Harmless, Held, Unowned, Typed, DocumentsOK, PlacesOK, Located,
     Executing, Active, Terminal
<1>5. ASSUME NEW j \in Jobs, CancelWrite(j)
      PROVE  OutcomeKept
  BY <1>5, NameAssumption DEF CancelWrite, Renewed, remote, bounds,
     OutcomeKept, Harmless, Held, Unowned, Typed, DocumentsOK, PlacesOK,
     Located, Executing, Active, Terminal
<1>6. ASSUME NEW w \in Workers, ReconcileWrite(w)
      PROVE  OutcomeKept
  BY <1>6, NameAssumption DEF ReconcileWrite, Renewed, Oldest, remote, bounds,
     OutcomeKept, Harmless, Held, Unowned, Typed, DocumentsOK, PlacesOK,
     Located, Executing, Active, Terminal
<1>7. ASSUME NEW w \in Workers, Take(w)
      PROVE  OutcomeKept
  BY <1>7, NameAssumption DEF Take, Go, Oldest, remote, bounds, OutcomeKept,
     Harmless, Held, Unowned, Typed, DocumentsOK, PlacesOK, Located,
     Executing, Active, Terminal
<1>8. ASSUME NEW w \in Workers, Revert(w)
      PROVE  OutcomeKept
  BY <1>8, NameAssumption DEF Revert, Go, remote, bounds, OutcomeKept,
     Harmless, Held, Unowned, Typed, DocumentsOK, PlacesOK, Located,
     Executing, Active, Terminal
<1>9. ASSUME NEW w \in Workers, Acquire(w)
      PROVE  OutcomeKept
  BY <1>9, NameAssumption DEF Acquire, Go, Rest, Renewed, CanAcquire, Nothing,
     NoJob, remote, bounds, OutcomeKept, Harmless, Held, Unowned, Typed,
     DocumentsOK, PlacesOK, Located, Executing, Active, Terminal
<1>10. ASSUME NEW w \in Workers, MarkEvaluating(w)
      PROVE  OutcomeKept
  BY <1>10, NameAssumption DEF MarkEvaluating, Go, Owns, remote, bounds,
     OutcomeKept, Harmless, Held, Unowned, Typed, DocumentsOK, PlacesOK,
     Located, Executing, Active, Terminal
<1>11. ASSUME NEW w \in Workers, Settle(w)
      PROVE  OutcomeKept
  BY <1>11, NameAssumption DEF Settle, Rest, Owns, Nothing, NoJob, remote,
     bounds, OutcomeKept, Harmless, Held, Unowned, Typed, DocumentsOK,
     PlacesOK, Located, Executing, Active, Terminal
<1>12. ASSUME NEW m \in Models, ReplaceActive(m)
      PROVE  OutcomeKept
  BY <1>12, <1>1 DEF ReplaceActive, document, locals, bounds
<1> QED
  BY <1>1, <1>2, <1>3, <1>4, <1>5, <1>6, <1>7, <1>8, <1>9, <1>10, <1>11,
     <1>12 DEF
     Next, WorkerStep, vars, document, remote, locals, bounds

-----------------------------------------------------------------------------
(* One worker loop.                                                        *)

Alone == \A v, w \in Workers : v = w

\* At most one job is active, and none is while the worker decides to admit
\* one: it counted no active job, and only it makes one active.
OneActive == \A i, j \in ActiveJobs : i = j

NoneAdmitted == \A w \in Workers : pc[w] \in {"health", "take"} => ActiveJobs = {}

\* A worker that owns the job it executes made it active: its late writes make
\* no other job active, though its lease may have run out.
HeldActive ==
    \A w \in Workers :
        pc[w] \in Executing /\ owner[cur[w]] = w => status[cur[w]] \in {"RUNNING", "EVALUATING"}

\* The champion a worker found is still in service when it promotes, and it
\* remembers none of an earlier job when it looks for one.
Compared ==
    \A w \in Workers :
        /\ pc[w] \in {"lock", "promote"} /\ ~moved => seen[w] \in {active, NoModel}
        /\ pc[w] \notin {"lock", "promote", "verify", "settle"} => seen[w] = NoModel

Solo == OneActive /\ NoneAdmitted /\ HeldActive /\ Compared

\* No step makes a second job active.
LEMMA OneActiveStep ==
    ASSUME Typed, Alone, OneActive, NoneAdmitted, HeldActive, [Next]_vars
    PROVE  OneActive'
<1>1. CASE UNCHANGED <<status>>
  BY <1>1 DEF OneActive, NoneAdmitted, HeldActive, ActiveJobs, Typed,
     DocumentsOK, PlacesOK, Located, Executing, Active, Terminal, Concluded,
     AnswersOK
<1>2. ASSUME NEW j \in Jobs,
           Cancel(j) \/ RemoteEnds(j) \/ RunsOut(j) \/ Stall(j)
      PROVE  OneActive'
  BY <1>2, <1>1 DEF Cancel, RemoteEnds, RunsOut, Stall, document
<1>3. ASSUME NEW w \in Workers,
           Reconcile(w) \/ CountActive(w) \/ Health(w) \/ PostCount(w) \/
              FindAndRead(w) \/ SubmitRemote(w) \/ StoreRemoteId(w) \/
              Heartbeat(w) \/ AskRemote(w) \/ KeepCandidate(w) \/ Evaluate(w)
              \/ Gate(w) \/ LockForPromotion(w) \/ Promote(w) \/ Verify(w) \/
              Crash(w)
      PROVE  OneActive'
  BY <1>3, <1>1 DEF Reconcile, CountActive, Health, PostCount, FindAndRead,
     SubmitRemote, StoreRemoteId, Heartbeat, AskRemote, KeepCandidate,
     Evaluate, Gate, LockForPromotion, Promote, Verify, Crash, document
<1>4. ASSUME NEW j \in Jobs, Submit(j)
      PROVE  OneActive'
  BY <1>4 DEF Submit, OneActive, NoneAdmitted, HeldActive, ActiveJobs, Typed,
     DocumentsOK, PlacesOK, Located, Executing, Active, Terminal, Concluded,
     AnswersOK
<1>5. ASSUME NEW j \in Jobs, CancelWrite(j)
      PROVE  OneActive'
  BY <1>5 DEF CancelWrite, OneActive, NoneAdmitted, HeldActive, ActiveJobs,
     Typed, DocumentsOK, PlacesOK, Located, Executing, Active, Terminal,
     Concluded, AnswersOK
<1>6. ASSUME NEW w \in Workers, ReconcileWrite(w)
      PROVE  OneActive'
  BY <1>6 DEF ReconcileWrite, Oldest, OneActive, NoneAdmitted, HeldActive,
     ActiveJobs, Typed, DocumentsOK, PlacesOK, Located, Executing, Active,
     Terminal, Concluded, AnswersOK
<1>7. ASSUME NEW w \in Workers, Take(w)
      PROVE  OneActive'
  BY <1>7 DEF Take, Go, Oldest, OneActive, NoneAdmitted, HeldActive,
     ActiveJobs, Typed, DocumentsOK, PlacesOK, Located, Executing, Active,
     Terminal, Concluded, AnswersOK
<1>8. ASSUME NEW w \in Workers, Revert(w)
      PROVE  OneActive'
  BY <1>8 DEF Revert, Go, OneActive, NoneAdmitted, HeldActive, ActiveJobs,
     Typed, DocumentsOK, PlacesOK, Located, Executing, Active, Terminal,
     Concluded, AnswersOK
<1>9. ASSUME NEW w \in Workers, Acquire(w)
      PROVE  OneActive'
  BY <1>9 DEF Acquire, Go, Rest, CanAcquire, OneActive, NoneAdmitted,
     HeldActive, ActiveJobs, Typed, DocumentsOK, PlacesOK, Located, Executing,
     Active, Terminal, Concluded, AnswersOK
<1>10. ASSUME NEW w \in Workers, MarkEvaluating(w)
      PROVE  OneActive'
  BY <1>10 DEF MarkEvaluating, Go, Owns, OneActive, NoneAdmitted, HeldActive,
     ActiveJobs, Typed, DocumentsOK, PlacesOK, Located, Executing, Active,
     Terminal, Concluded, AnswersOK
<1>11. ASSUME NEW w \in Workers, Settle(w)
      PROVE  OneActive'
  BY <1>11 DEF Settle, Rest, Owns, OneActive, NoneAdmitted, HeldActive,
     ActiveJobs, Typed, DocumentsOK, PlacesOK, Located, Executing, Active,
     Terminal, Concluded, AnswersOK
<1>12. ASSUME NEW m \in Models, ReplaceActive(m)
      PROVE  OneActive'
  BY <1>12, <1>1 DEF ReplaceActive, document, locals, bounds
<1> QED
  BY <1>1, <1>2, <1>3, <1>4, <1>5, <1>6, <1>7, <1>8, <1>9, <1>10, <1>11,
     <1>12 DEF
     Next, WorkerStep, vars, document

\* Nobody but the worker that counted makes a job active.
LEMMA NoneAdmittedStep ==
    ASSUME Typed, Alone, NoneAdmitted, HeldActive, [Next]_vars
    PROVE  NoneAdmitted'
<1>1. CASE UNCHANGED <<pc, status>>
  BY <1>1 DEF Alone, NoneAdmitted, HeldActive, ActiveJobs, Typed, DocumentsOK,
     PlacesOK, Located, Executing, Active, Terminal
<1>2. ASSUME NEW j \in Jobs,
           Cancel(j) \/ RemoteEnds(j) \/ RunsOut(j) \/ Stall(j)
      PROVE  NoneAdmitted'
  BY <1>2, <1>1 DEF Cancel, RemoteEnds, RunsOut, Stall, document, locals
<1>3. ASSUME NEW j \in Jobs, Submit(j)
      PROVE  NoneAdmitted'
  BY <1>3 DEF Submit, locals, Alone, NoneAdmitted, HeldActive, ActiveJobs,
     Typed, DocumentsOK, PlacesOK, Located, Executing, Active, Terminal
<1>4. ASSUME NEW j \in Jobs, CancelWrite(j)
      PROVE  NoneAdmitted'
  BY <1>4 DEF CancelWrite, Alone, NoneAdmitted, HeldActive, ActiveJobs, Typed,
     DocumentsOK, PlacesOK, Located, Executing, Active, Terminal
<1>5. ASSUME NEW w \in Workers, Reconcile(w)
      PROVE  NoneAdmitted'
  BY <1>5 DEF Reconcile, Go, document, Alone, NoneAdmitted, HeldActive,
     ActiveJobs, Typed, DocumentsOK, PlacesOK, Located, Executing, Active,
     Terminal
<1>6. ASSUME NEW w \in Workers, ReconcileWrite(w)
      PROVE  NoneAdmitted'
  BY <1>6 DEF ReconcileWrite, Oldest, Alone, NoneAdmitted, HeldActive,
     ActiveJobs, Typed, DocumentsOK, PlacesOK, Located, Executing, Active,
     Terminal
<1>7. ASSUME NEW w \in Workers, CountActive(w)
      PROVE  NoneAdmitted'
  BY <1>7 DEF CountActive, Go, document, Alone, NoneAdmitted, HeldActive,
     ActiveJobs, Typed, DocumentsOK, PlacesOK, Located, Executing, Active,
     Terminal
<1>8. ASSUME NEW w \in Workers, Health(w)
      PROVE  NoneAdmitted'
  BY <1>8 DEF Health, Go, document, Alone, NoneAdmitted, HeldActive,
     ActiveJobs, Typed, DocumentsOK, PlacesOK, Located, Executing, Active,
     Terminal
<1>9. ASSUME NEW w \in Workers, Take(w)
      PROVE  NoneAdmitted'
  BY <1>9 DEF Take, Go, Oldest, Alone, NoneAdmitted, HeldActive, ActiveJobs,
     Typed, DocumentsOK, PlacesOK, Located, Executing, Active, Terminal
<1>10. ASSUME NEW w \in Workers, PostCount(w)
      PROVE  NoneAdmitted'
  BY <1>10 DEF PostCount, Go, document, Alone, NoneAdmitted, HeldActive,
     ActiveJobs, Typed, DocumentsOK, PlacesOK, Located, Executing, Active,
     Terminal
<1>11. ASSUME NEW w \in Workers, Revert(w)
      PROVE  NoneAdmitted'
  BY <1>11 DEF Revert, Go, Alone, NoneAdmitted, HeldActive, ActiveJobs, Typed,
     DocumentsOK, PlacesOK, Located, Executing, Active, Terminal
<1>12. ASSUME NEW w \in Workers, FindAndRead(w)
      PROVE  NoneAdmitted'
  BY <1>12 DEF FindAndRead, Go, Rest, Oldest, document, Alone, NoneAdmitted,
     HeldActive, ActiveJobs, Typed, DocumentsOK, PlacesOK, Located, Executing,
     Active, Terminal
<1>13. ASSUME NEW w \in Workers, Acquire(w)
      PROVE  NoneAdmitted'
  BY <1>13 DEF Acquire, Go, Rest, CanAcquire, Alone, NoneAdmitted, HeldActive,
     ActiveJobs, Typed, DocumentsOK, PlacesOK, Located, Executing, Active,
     Terminal
<1>14. ASSUME NEW w \in Workers, SubmitRemote(w)
      PROVE  NoneAdmitted'
  BY <1>14 DEF SubmitRemote, Go, Conclude, document, Alone, NoneAdmitted,
     HeldActive, ActiveJobs, Typed, DocumentsOK, PlacesOK, Located, Executing,
     Active, Terminal
<1>15. ASSUME NEW w \in Workers, StoreRemoteId(w)
      PROVE  NoneAdmitted'
  BY <1>15 DEF StoreRemoteId, Go, Alone, NoneAdmitted, HeldActive, ActiveJobs,
     Typed, DocumentsOK, PlacesOK, Located, Executing, Active, Terminal
<1>16. ASSUME NEW w \in Workers, Heartbeat(w)
      PROVE  NoneAdmitted'
  BY <1>16 DEF Heartbeat, Go, Rest, Conclude, Alone, NoneAdmitted, HeldActive,
     ActiveJobs, Typed, DocumentsOK, PlacesOK, Located, Executing, Active,
     Terminal
<1>17. ASSUME NEW w \in Workers, AskRemote(w)
      PROVE  NoneAdmitted'
  BY <1>17 DEF AskRemote, Go, Rest, Conclude, document, Alone, NoneAdmitted,
     HeldActive, ActiveJobs, Typed, DocumentsOK, PlacesOK, Located, Executing,
     Active, Terminal
<1>18. ASSUME NEW w \in Workers, KeepCandidate(w)
      PROVE  NoneAdmitted'
  BY <1>18 DEF KeepCandidate, Go, Alone, NoneAdmitted, HeldActive, ActiveJobs,
     Typed, DocumentsOK, PlacesOK, Located, Executing, Active, Terminal
<1>19. ASSUME NEW w \in Workers, MarkEvaluating(w)
      PROVE  NoneAdmitted'
  BY <1>19 DEF MarkEvaluating, Go, Owns, Alone, NoneAdmitted, HeldActive,
     ActiveJobs, Typed, DocumentsOK, PlacesOK, Located, Executing, Active,
     Terminal
<1>20. ASSUME NEW w \in Workers, Evaluate(w)
      PROVE  NoneAdmitted'
  BY <1>20 DEF Evaluate, Go, Conclude, document, Alone, NoneAdmitted,
     HeldActive, ActiveJobs, Typed, DocumentsOK, PlacesOK, Located, Executing,
     Active, Terminal
<1>21. ASSUME NEW w \in Workers, Gate(w)
      PROVE  NoneAdmitted'
  BY <1>21 DEF Gate, Go, Conclude, document, Alone, NoneAdmitted, HeldActive,
     ActiveJobs, Typed, DocumentsOK, PlacesOK, Located, Executing, Active,
     Terminal
<1>22. ASSUME NEW w \in Workers, LockForPromotion(w)
      PROVE  NoneAdmitted'
  BY <1>22 DEF LockForPromotion, Go, Rest, Conclude, Alone, NoneAdmitted,
     HeldActive, ActiveJobs, Typed, DocumentsOK, PlacesOK, Located, Executing,
     Active, Terminal
<1>23. ASSUME NEW w \in Workers, Promote(w)
      PROVE  NoneAdmitted'
  BY <1>23 DEF Promote, Go, Conclude, document, Alone, NoneAdmitted,
     HeldActive, ActiveJobs, Typed, DocumentsOK, PlacesOK, Located, Executing,
     Active, Terminal
<1>24. ASSUME NEW w \in Workers, Verify(w)
      PROVE  NoneAdmitted'
  BY <1>24 DEF Verify, Go, Rest, Conclude, document, Alone, NoneAdmitted,
     HeldActive, ActiveJobs, Typed, DocumentsOK, PlacesOK, Located, Executing,
     Active, Terminal
<1>25. ASSUME NEW w \in Workers, Settle(w)
      PROVE  NoneAdmitted'
  BY <1>25 DEF Settle, Rest, Owns, Alone, NoneAdmitted, HeldActive,
     ActiveJobs, Typed, DocumentsOK, PlacesOK, Located, Executing, Active,
     Terminal
<1>26. ASSUME NEW w \in Workers, Crash(w)
      PROVE  NoneAdmitted'
  BY <1>26 DEF Crash, Rest, Alone, NoneAdmitted, HeldActive, ActiveJobs,
     Typed, DocumentsOK, PlacesOK, Located, Executing, Active, Terminal
<1>27. ASSUME NEW m \in Models, ReplaceActive(m)
      PROVE  NoneAdmitted'
  BY <1>27, <1>1 DEF ReplaceActive, document, locals, bounds
<1> QED
  BY <1>1, <1>2, <1>3, <1>4, <1>5, <1>6, <1>7, <1>8, <1>9, <1>10, <1>11,
     <1>12, <1>13, <1>14, <1>15, <1>16, <1>17, <1>18, <1>19, <1>20, <1>21,
     <1>22, <1>23, <1>24, <1>25, <1>26,
     <1>27 DEF Next, WorkerStep, vars, document,
     locals

\* A worker's job is active as long as the worker owns it.
LEMMA HeldActiveStep ==
    ASSUME Typed, Alone, HeldActive, [Next]_vars
    PROVE  HeldActive'
<1>1. CASE UNCHANGED <<cur, owner, pc, status>>
  BY <1>1 DEF Alone, HeldActive, Typed, DocumentsOK, PlacesOK, Located,
     Executing, Active
<1>2. ASSUME NEW j \in Jobs,
           Cancel(j) \/ RemoteEnds(j) \/ RunsOut(j) \/ Stall(j)
      PROVE  HeldActive'
  BY <1>2, <1>1 DEF Cancel, RemoteEnds, RunsOut, Stall, document, locals
<1>3. ASSUME NEW j \in Jobs, Submit(j)
      PROVE  HeldActive'
  BY <1>3, NameAssumption DEF Submit, locals, Alone, HeldActive, Typed,
     DocumentsOK, PlacesOK, Located, Executing, Active
<1>4. ASSUME NEW j \in Jobs, CancelWrite(j)
      PROVE  HeldActive'
  BY <1>4, NameAssumption DEF CancelWrite, Alone, HeldActive, Typed,
     DocumentsOK, PlacesOK, Located, Executing, Active
<1>5. ASSUME NEW w \in Workers, Reconcile(w)
      PROVE  HeldActive'
  BY <1>5, NameAssumption DEF Reconcile, Go, document, Alone, HeldActive,
     Typed, DocumentsOK, PlacesOK, Located, Executing, Active
<1>6. ASSUME NEW w \in Workers, ReconcileWrite(w)
      PROVE  HeldActive'
  BY <1>6, NameAssumption DEF ReconcileWrite, Oldest, Alone, HeldActive,
     Typed, DocumentsOK, PlacesOK, Located, Executing, Active
<1>7. ASSUME NEW w \in Workers, CountActive(w)
      PROVE  HeldActive'
  BY <1>7, NameAssumption DEF CountActive, Go, document, Alone, HeldActive,
     Typed, DocumentsOK, PlacesOK, Located, Executing, Active
<1>8. ASSUME NEW w \in Workers, Health(w)
      PROVE  HeldActive'
  BY <1>8, NameAssumption DEF Health, Go, document, Alone, HeldActive, Typed,
     DocumentsOK, PlacesOK, Located, Executing, Active
<1>9. ASSUME NEW w \in Workers, Take(w)
      PROVE  HeldActive'
  BY <1>9, NameAssumption DEF Take, Go, Oldest, Alone, HeldActive, Typed,
     DocumentsOK, PlacesOK, Located, Executing, Active
<1>10. ASSUME NEW w \in Workers, PostCount(w)
      PROVE  HeldActive'
  BY <1>10, NameAssumption DEF PostCount, Go, document, Alone, HeldActive,
     Typed, DocumentsOK, PlacesOK, Located, Executing, Active
<1>11. ASSUME NEW w \in Workers, Revert(w)
      PROVE  HeldActive'
  BY <1>11, NameAssumption DEF Revert, Go, Alone, HeldActive, Typed,
     DocumentsOK, PlacesOK, Located, Executing, Active
<1>12. ASSUME NEW w \in Workers, FindAndRead(w)
      PROVE  HeldActive'
  BY <1>12, NameAssumption DEF FindAndRead, Go, Rest, Oldest, document, Alone,
     HeldActive, Typed, DocumentsOK, PlacesOK, Located, Executing, Active
<1>13. ASSUME NEW w \in Workers, Acquire(w)
      PROVE  HeldActive'
  BY <1>13, NameAssumption DEF Acquire, Go, Rest, CanAcquire, Alone,
     HeldActive, Typed, DocumentsOK, PlacesOK, Located, Executing, Active
<1>14. ASSUME NEW w \in Workers, SubmitRemote(w)
      PROVE  HeldActive'
  BY <1>14, NameAssumption DEF SubmitRemote, Go, Conclude, document, Alone,
     HeldActive, Typed, DocumentsOK, PlacesOK, Located, Executing, Active
<1>15. ASSUME NEW w \in Workers, StoreRemoteId(w)
      PROVE  HeldActive'
  BY <1>15, NameAssumption DEF StoreRemoteId, Go, Alone, HeldActive, Typed,
     DocumentsOK, PlacesOK, Located, Executing, Active
<1>16. ASSUME NEW w \in Workers, Heartbeat(w)
      PROVE  HeldActive'
  BY <1>16, NameAssumption DEF Heartbeat, Go, Rest, Conclude, Alone,
     HeldActive, Typed, DocumentsOK, PlacesOK, Located, Executing, Active
<1>17. ASSUME NEW w \in Workers, AskRemote(w)
      PROVE  HeldActive'
  BY <1>17, NameAssumption DEF AskRemote, Go, Rest, Conclude, document, Alone,
     HeldActive, Typed, DocumentsOK, PlacesOK, Located, Executing, Active
<1>18. ASSUME NEW w \in Workers, KeepCandidate(w)
      PROVE  HeldActive'
  BY <1>18, NameAssumption DEF KeepCandidate, Go, Alone, HeldActive, Typed,
     DocumentsOK, PlacesOK, Located, Executing, Active
<1>19. ASSUME NEW w \in Workers, MarkEvaluating(w)
      PROVE  HeldActive'
  BY <1>19, NameAssumption DEF MarkEvaluating, Go, Owns, Alone, HeldActive,
     Typed, DocumentsOK, PlacesOK, Located, Executing, Active
<1>20. ASSUME NEW w \in Workers, Evaluate(w)
      PROVE  HeldActive'
  BY <1>20, NameAssumption DEF Evaluate, Go, Conclude, document, Alone,
     HeldActive, Typed, DocumentsOK, PlacesOK, Located, Executing, Active
<1>21. ASSUME NEW w \in Workers, Gate(w)
      PROVE  HeldActive'
  BY <1>21, NameAssumption DEF Gate, Go, Conclude, document, Alone,
     HeldActive, Typed, DocumentsOK, PlacesOK, Located, Executing, Active
<1>22. ASSUME NEW w \in Workers, LockForPromotion(w)
      PROVE  HeldActive'
  BY <1>22, NameAssumption DEF LockForPromotion, Go, Rest, Conclude, Alone,
     HeldActive, Typed, DocumentsOK, PlacesOK, Located, Executing, Active
<1>23. ASSUME NEW w \in Workers, Promote(w)
      PROVE  HeldActive'
  BY <1>23, NameAssumption DEF Promote, Go, Conclude, document, Alone,
     HeldActive, Typed, DocumentsOK, PlacesOK, Located, Executing, Active
<1>24. ASSUME NEW w \in Workers, Verify(w)
      PROVE  HeldActive'
  BY <1>24, NameAssumption DEF Verify, Go, Rest, Conclude, document, Alone,
     HeldActive, Typed, DocumentsOK, PlacesOK, Located, Executing, Active
<1>25. ASSUME NEW w \in Workers, Settle(w)
      PROVE  HeldActive'
  BY <1>25, NameAssumption DEF Settle, Rest, Owns, Alone, HeldActive, Typed,
     DocumentsOK, PlacesOK, Located, Executing, Active
<1>26. ASSUME NEW w \in Workers, Crash(w)
      PROVE  HeldActive'
  BY <1>26, NameAssumption DEF Crash, Rest, Alone, HeldActive, Typed,
     DocumentsOK, PlacesOK, Located, Executing, Active
<1>27. ASSUME NEW m \in Models, ReplaceActive(m)
      PROVE  HeldActive'
  BY <1>27, <1>1 DEF ReplaceActive, document, locals, bounds
<1> QED
  BY <1>1, <1>2, <1>3, <1>4, <1>5, <1>6, <1>7, <1>8, <1>9, <1>10, <1>11,
     <1>12, <1>13, <1>14, <1>15, <1>16, <1>17, <1>18, <1>19, <1>20, <1>21,
     <1>22, <1>23, <1>24, <1>25, <1>26,
     <1>27 DEF Next, WorkerStep, vars, document,
     locals

\* Nobody but the worker that compared replaces the champion.
LEMMA ComparedStep ==
    ASSUME Typed, Alone, Compared, [Next]_vars
    PROVE  Compared'
<1>1. CASE UNCHANGED <<active, moved, pc, seen>>
  BY <1>1 DEF Alone, Compared, Typed, PlacesOK, AnswersOK
<1>2. ASSUME NEW j \in Jobs,
           Submit(j) \/ Cancel(j) \/ CancelWrite(j) \/ RemoteEnds(j) \/
              RunsOut(j) \/ Stall(j)
      PROVE  Compared'
  BY <1>2, <1>1 DEF Submit, Cancel, CancelWrite, RemoteEnds, RunsOut, Stall,
     remote, locals
<1>3. ASSUME NEW w \in Workers,
           ReconcileWrite(w)
      PROVE  Compared'
  BY <1>3, <1>1 DEF ReconcileWrite, remote
<1>4. ASSUME NEW w \in Workers, Reconcile(w)
      PROVE  Compared'
  BY <1>4 DEF Reconcile, Go, remote, Alone, Compared, Typed, PlacesOK,
     AnswersOK
<1>5. ASSUME NEW w \in Workers, CountActive(w)
      PROVE  Compared'
  BY <1>5 DEF CountActive, Go, remote, Alone, Compared, Typed, PlacesOK,
     AnswersOK
<1>6. ASSUME NEW w \in Workers, Health(w)
      PROVE  Compared'
  BY <1>6 DEF Health, Go, remote, Alone, Compared, Typed, PlacesOK, AnswersOK
<1>7. ASSUME NEW w \in Workers, Take(w)
      PROVE  Compared'
  BY <1>7 DEF Take, Go, Oldest, remote, Alone, Compared, Typed, PlacesOK,
     AnswersOK
<1>8. ASSUME NEW w \in Workers, PostCount(w)
      PROVE  Compared'
  BY <1>8 DEF PostCount, Go, remote, Alone, Compared, Typed, PlacesOK,
     AnswersOK
<1>9. ASSUME NEW w \in Workers, Revert(w)
      PROVE  Compared'
  BY <1>9 DEF Revert, Go, remote, Alone, Compared, Typed, PlacesOK, AnswersOK
<1>10. ASSUME NEW w \in Workers, FindAndRead(w)
      PROVE  Compared'
  BY <1>10 DEF FindAndRead, Go, Rest, Oldest, remote, Alone, Compared, Typed,
     PlacesOK, AnswersOK
<1>11. ASSUME NEW w \in Workers, Acquire(w)
      PROVE  Compared'
  BY <1>11 DEF Acquire, Go, Rest, CanAcquire, remote, Alone, Compared, Typed,
     PlacesOK, AnswersOK
<1>12. ASSUME NEW w \in Workers, SubmitRemote(w)
      PROVE  Compared'
  BY <1>12 DEF SubmitRemote, Go, Conclude, Alone, Compared, Typed, PlacesOK,
     AnswersOK
<1>13. ASSUME NEW w \in Workers, StoreRemoteId(w)
      PROVE  Compared'
  BY <1>13 DEF StoreRemoteId, Go, remote, Alone, Compared, Typed, PlacesOK,
     AnswersOK
<1>14. ASSUME NEW w \in Workers, Heartbeat(w)
      PROVE  Compared'
  BY <1>14 DEF Heartbeat, Go, Rest, Conclude, remote, Alone, Compared, Typed,
     PlacesOK, AnswersOK
<1>15. ASSUME NEW w \in Workers, AskRemote(w)
      PROVE  Compared'
  BY <1>15 DEF AskRemote, Go, Rest, Conclude, remote, Alone, Compared, Typed,
     PlacesOK, AnswersOK
<1>16. ASSUME NEW w \in Workers, KeepCandidate(w)
      PROVE  Compared'
  BY <1>16 DEF KeepCandidate, Go, remote, Alone, Compared, Typed, PlacesOK,
     AnswersOK
<1>17. ASSUME NEW w \in Workers, MarkEvaluating(w)
      PROVE  Compared'
  BY <1>17 DEF MarkEvaluating, Go, Owns, remote, Alone, Compared, Typed,
     PlacesOK, AnswersOK
<1>18. ASSUME NEW w \in Workers, Evaluate(w)
      PROVE  Compared'
  BY <1>18 DEF Evaluate, Go, Conclude, remote, Alone, Compared, Typed,
     PlacesOK, AnswersOK
<1>19. ASSUME NEW w \in Workers, Gate(w)
      PROVE  Compared'
  BY <1>19 DEF Gate, Go, Conclude, remote, Alone, Compared, Typed, PlacesOK,
     AnswersOK
<1>20. ASSUME NEW w \in Workers, LockForPromotion(w)
      PROVE  Compared'
  BY <1>20 DEF LockForPromotion, Go, Rest, Conclude, remote, Alone, Compared,
     Typed, PlacesOK, AnswersOK
<1>21. ASSUME NEW w \in Workers, Promote(w)
      PROVE  Compared'
  BY <1>21 DEF Promote, Go, Conclude, Alone, Compared, Typed, PlacesOK,
     AnswersOK
<1>22. ASSUME NEW w \in Workers, Verify(w)
      PROVE  Compared'
  BY <1>22 DEF Verify, Go, Rest, Conclude, remote, Alone, Compared, Typed,
     PlacesOK, AnswersOK
<1>23. ASSUME NEW w \in Workers, Settle(w)
      PROVE  Compared'
  BY <1>23 DEF Settle, Rest, Owns, remote, Alone, Compared, Typed, PlacesOK,
     AnswersOK
<1>24. ASSUME NEW w \in Workers, Crash(w)
      PROVE  Compared'
  BY <1>24 DEF Crash, Rest, remote, Alone, Compared, Typed, PlacesOK,
     AnswersOK
<1>25. ASSUME NEW m \in Models, ReplaceActive(m)
      PROVE  Compared'
  BY <1>25 DEF ReplaceActive, locals, Alone, Compared, Typed, PlacesOK, AnswersOK
<1> QED
  BY <1>1, <1>2, <1>3, <1>4, <1>5, <1>6, <1>7, <1>8, <1>9, <1>10, <1>11,
     <1>12, <1>13, <1>14, <1>15, <1>16, <1>17, <1>18, <1>19, <1>20, <1>21,
     <1>22, <1>23, <1>24,
     <1>25 DEF Next, WorkerStep, vars, remote, locals

-----------------------------------------------------------------------------
(* The theorems.                                                           *)

LEMMA InitHolds ==
    Init => IInv
<1> SUFFICES ASSUME Init PROVE IInv
  OBVIOUS
<1>1. DocumentsOK
  BY DEF Init, DocumentsOK, Statuses
<1>2. RemoteOK
  <2>1. moved \in BOOLEAN
    BY DEF Init
  <2> QED
    BY <2>1, BoundAssumption DEF Init, RemoteOK, Models
<1>3. PlacesOK /\ PendingOK
  BY DEF Init, PlacesOK, PendingOK, Located, Executing, Steps
<1>4. AnswersOK
  <2>1. Nothing \in [evaluating : BOOLEAN, jetson : BOOLEAN, candidate : BOOLEAN]
    BY DEF Nothing
  <2> QED
    BY <2>1 DEF Init, AnswersOK, Concluded
<1>5. Served
  BY DEF Init, Served, Reported, PromotedWasServed
<1>6. Unowned /\ Filtered
  BY DEF Init, Unowned, Filtered
<1>7. LiveLease /\ Harmless /\ Held /\ ExclusiveExecution
  BY DEF Init, LiveLease, Harmless, Held, ExclusiveExecution, Executing, Active
<1> QED
  BY <1>1, <1>2, <1>3, <1>4, <1>5, <1>6, <1>7 DEF IInv, Typed, Leased

LEMMA Invariance ==
    Spec => []IInv
<1>1. ASSUME IInv, [Next]_vars PROVE IInv'
  <2>1. Typed /\ Served /\ Unowned /\ Filtered /\ Leased
    BY <1>1 DEF IInv
  <2>2. Typed'
    BY <1>1, <2>1, TypedStep
  <2>3. Served'
    BY <1>1, <2>1, ServedGrows, ReportedStep, PromotedStep DEF Served
  <2>4. Unowned' /\ Filtered'
    BY <1>1, <2>1, UnownedStep, FilteredStep
  <2>5. Leased'
    BY <1>1, <2>1, LiveLeaseStep, HarmlessStep, HeldStep, ExclusiveStep DEF Leased
  <2> QED
    BY <2>2, <2>3, <2>4, <2>5 DEF IInv
<1> QED
  BY <1>1, InitHolds, PTL DEF Spec

\* Every variable keeps its type.
THEOREM TypeCorrect ==
    Spec => []TypeOK
<1>1. IInv => TypeOK
  BY DEF IInv, Typed, DocumentsOK, RemoteOK, PlacesOK, PendingOK, AnswersOK,
     TypeOK
<1> QED
  BY <1>1, Invariance, PTL

\* However many workers, jobs and crashes there are: as long as no lease runs
\* out under a live worker, no two workers execute the same job.
THEOREM OneExecutor ==
    Spec => []ExclusiveExecution
<1>1. IInv => ExclusiveExecution
  BY DEF IInv, Leased
<1> QED
  BY <1>1, Invariance, PTL

\* A job reported PROMOTED had its candidate in service.
THEOREM PromotionsServed ==
    Spec => []PromotedWasServed
<1>1. IInv => PromotedWasServed
  BY DEF IInv, Served
<1> QED
  BY <1>1, Invariance, PTL

\* A cancelled job stays cancelled, leases that ran out included; any other
\* outcome is changed by nothing but a cancellation as long as no lease runs
\* out under a live worker.
THEOREM OutcomesKept ==
    Spec => OutcomeIsFinal
<1>1. ASSUME IInv, [Next]_vars
      PROVE  [CancelledKept /\ OutcomeKept]_vars
  BY <1>1, CancelledStep, OutcomeStep DEF IInv, Leased
<1>2. CancelledKept /\ OutcomeKept <=>
        \A j \in Jobs :
           /\ status[j] = "CANCELLED" => status'[j] = "CANCELLED"
           /\ status[j] \in Terminal /\ expiries = 0 =>
                 status'[j] \in {status[j], "CANCELLED"}
  BY DEF CancelledKept, OutcomeKept
<1> QED
  BY <1>1, <1>2, Invariance, PTL DEF Spec, OutcomeIsFinal

\* What one worker loop keeps.
LEMMA SoloInvariant ==
    ASSUME Alone
    PROVE  Spec => []Solo
<1>1. Init => Solo
  BY DEF Init, Solo, OneActive, NoneAdmitted, HeldActive, Compared, ActiveJobs, Executing, Active
<1>2. ASSUME IInv, Solo, [Next]_vars PROVE Solo'
  BY <1>2, Alone, OneActiveStep, NoneAdmittedStep, HeldActiveStep, ComparedStep DEF IInv, Solo
<1> QED
  BY <1>1, <1>2, Invariance, PTL DEF Spec

\* One process never has two jobs active, whatever crashes, requeues and
\* cancellations come between admission and outcome.  The property itself says
\* that there is one worker loop; its worker loops are finitely many.
THEOREM OneJobActive ==
    ASSUME IsFiniteSet(Workers)
    PROVE  Spec => []SoloCapacity
<1>1. CASE Cardinality(Workers) # 1
  <2>1. SoloCapacity
    BY <1>1 DEF SoloCapacity
  <2> QED
    BY <2>1, PTL
<1>2. CASE Cardinality(Workers) = 1
  <2>1. Alone
    BY <1>2, FS_Singleton DEF Alone
  <2>2. ASSUME Solo PROVE SoloCapacity
    <3>1. CASE ActiveJobs = {}
      BY <3>1, FS_EmptySet DEF SoloCapacity
    <3>2. ASSUME NEW j \in ActiveJobs PROVE SoloCapacity
      <4>1. ActiveJobs = {j}
        BY <2>2, <3>2 DEF Solo, OneActive
      <4> QED
        BY <4>1, FS_Singleton DEF SoloCapacity
    <3> QED
      BY <3>1, <3>2
  <2> QED
    BY <2>1, <2>2, SoloInvariant, PTL
<1> QED
  BY <1>1, <1>2

\* One process never replaces the champion by a candidate that was compared with
\* another model, unless the decay monitor or an operator replaced it since the
\* comparison: a crash, a lost lease or a repeated promotion does not suffice.
THEOREM PromotionsCompared ==
    ASSUME NEW W, Workers = {W}
    PROVE  Spec => ComparedWithReplaced
<1> DEFINE Replaced == active' # active /\ ~moved' =>
                            \E w \in Workers : cur[w] = active' /\ seen[w] \in {active, NoModel}
<1>1. Alone
  BY DEF Alone
<1>2. ASSUME IInv, Solo, [Next]_vars PROVE [Replaced]_vars
  <2>1. CASE \E w \in Workers : Promote(w)
    BY <1>2, <2>1 DEF Promote, Solo, Compared
  <2>2. CASE UNCHANGED active
    BY <2>2
  <2>3. CASE UNCHANGED vars
    BY <2>3
  <2>4. CASE \E m \in Models : ReplaceActive(m)
    BY <2>4 DEF ReplaceActive
  <2> QED
    BY <1>2, <2>1, <2>2, <2>3, <2>4 DEF Next, WorkerStep, Submit, Cancel, CancelWrite, Reconcile,
       ReconcileWrite, CountActive, Health, Take, PostCount, Revert, FindAndRead, Acquire,
       SubmitRemote, StoreRemoteId, Heartbeat, AskRemote, KeepCandidate, MarkEvaluating,
       Evaluate, Gate, LockForPromotion, Verify, Settle, RemoteEnds, RunsOut, Stall, Crash,
       remote
<1> QED
  BY <1>1, <1>2, Invariance, SoloInvariant, PTL DEF Spec, ComparedWithReplaced
=============================================================================
