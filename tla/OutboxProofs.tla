---------------------------- MODULE OutboxProofs ----------------------------
(* Theorems about Outbox, for any events, workers, leases and backoffs.    *)
EXTENDS Outbox, TLAPS

-----------------------------------------------------------------------------
(* The inductive invariant.                                                *)

\* A worker about to complete an event has seen its reconciliation written.
CompletesReconciled ==
    \A w \in Workers : step[w] = "complete" => current[w] \in reconciled

\* The count a worker is about to write is current as long as it holds the
\* lease: only the owner changes attempts, and it gives the lease up with it.
CountIsCurrent ==
    \A w \in Workers :
        step[w] = "record" /\ Owns(w) => seen[w] = attempts[current[w]] + 1

\* A token is only ever on events that are leased, or were completed under it.
OwnedIsClaimed ==
    \A e \in Events : owner[e] # Nobody => status[e] \in {"PROCESSING", "COMPLETED"}

\* A replayed event is one failure away from being given up again.
ReplayedIsSpent ==
    \A e \in Events : replays[e] > 0 => attempts[e] >= MaxAttempts + replays[e] - 1

IInv == /\ TypeOK
        /\ CompletesReconciled
        /\ CompletedIsReconciled
        /\ OwnedIsClaimed
        /\ CountIsCurrent
        /\ ReplayedIsSpent
        /\ RetryBudget

\* The initial states satisfy the inductive invariant.
LEMMA InitIInv == Init => IInv
BY BoundAssumption, NoneAssumption
DEF Init, IInv, TypeOK, CompletesReconciled, CompletedIsReconciled, OwnedIsClaimed,
    CountIsCurrent, ReplayedIsSpent, RetryBudget, Statuses, Steps, Oldest

\* Every step preserves the types.
LEMMA TypeStep == TypeOK /\ CountIsCurrent /\ [Next]_vars => TypeOK'
<1> SUFFICES ASSUME TypeOK, CountIsCurrent, [Next]_vars PROVE TypeOK'
  OBVIOUS
<1> USE DEF TypeOK, Statuses, Steps
<1>1. CASE \E e \in Events : Publish(e) \/ Replay(e)
  <2>1. CASE \E e \in Events : Publish(e)
    BY <2>1 DEF Publish, worker
  <2>2. CASE \E e \in Events : Replay(e)
    <3>1. PICK e \in Events : Replay(e)
      BY <2>2
    <3>2. replays[e] + 1 \in 0 .. MaxReplays
      BY <3>1, BoundAssumption DEF Replay
    <3> QED
      BY <3>1, <3>2 DEF Replay, worker
  <2> QED
    BY <1>1, <2>1, <2>2
<1>2. CASE \E w \in Workers : Begin(w)
  BY <1>2, BoundAssumption DEF Begin
<1>3. CASE \E w \in Workers : Claim(w)
  BY <1>3, BoundAssumption DEF Claim
<1>4. CASE \E w \in Workers : EndClaim(w)
  BY <1>4, BoundAssumption DEF EndClaim, queue
<1>5. CASE \E w \in Workers : Process(w)
  BY <1>5 DEF Process, queue
<1>6. CASE \E w \in Workers : Complete(w)
  BY <1>6 DEF Complete, Finish, Holds
<1>7. CASE \E w \in Workers : Fail(w)
  BY <1>7 DEF Fail, Finish, queue
<1>8. CASE \E w \in Workers : Record(w)
  <2>1. PICK w \in Workers : Record(w)
    BY <1>8
  <2>2. step[w] = "record" /\ current[w] \in Events
    BY <2>1 DEF Record
  <2>3. CASE ~Owns(w)
    BY <2>1, <2>2, <2>3 DEF Record, Finish, queue
  <2>4. CASE Owns(w)
    <3>1. seen[w] \in Nat /\ seen[w] >= 1
      BY <2>2, <2>4 DEF CountIsCurrent
    <3>2. seen[w] < MaxAttempts => Backoff[seen[w]] \in Int
      BY <3>1, BoundAssumption
    <3>3. at' \in [Events -> Int]
      BY <2>1, <2>2, <2>4, <3>1, <3>2, BoundAssumption DEF Record, Oldest
    <3> QED
      BY <2>1, <2>2, <2>4, <3>1, <3>3 DEF Record, Finish
  <2> QED
    BY <2>3, <2>4
<1>9. CASE \E w \in Workers : Crash(w)
  BY <1>9, BoundAssumption DEF Crash, queue
<1>10. CASE Tick
  BY <1>10, BoundAssumption DEF Tick, Oldest
<1>11. CASE UNCHANGED vars
  BY <1>11 DEF vars, queue, worker
<1> QED
  BY <1>1, <1>2, <1>3, <1>4, <1>5, <1>6, <1>7, <1>8, <1>9, <1>10, <1>11 DEF Next, Work

\* Every step preserves the link between completion and reconciliation.
LEMMA ReconciledStep ==
    IInv /\ [Next]_vars => CompletesReconciled' /\ CompletedIsReconciled'
<1> SUFFICES ASSUME IInv, [Next]_vars PROVE CompletesReconciled' /\ CompletedIsReconciled'
  OBVIOUS
<1> USE DEF IInv, TypeOK, CompletesReconciled, CompletedIsReconciled
<1>1. CASE \E e \in Events : Publish(e) \/ Replay(e)
  BY <1>1 DEF Publish, Replay, worker
<1>2. CASE \E w \in Workers : Begin(w) \/ Claim(w) \/ EndClaim(w)
  BY <1>2 DEF Begin, Claim, EndClaim, queue
<1>3. CASE \E w \in Workers : Process(w)
  BY <1>3 DEF Process, queue
<1>4. CASE \E w \in Workers : Complete(w)
  BY <1>4 DEF Complete, Finish, Holds
<1>5. CASE \E w \in Workers : Fail(w)
  BY <1>5 DEF Fail, Finish, queue
<1>6. CASE \E w \in Workers : Record(w)
  BY <1>6 DEF Record, Finish, queue
<1>7. CASE \E w \in Workers : Crash(w)
  BY <1>7 DEF Crash, queue
<1>8. CASE Tick \/ UNCHANGED vars
  BY <1>8 DEF Tick, vars, queue, worker
<1> QED
  BY <1>1, <1>2, <1>3, <1>4, <1>5, <1>6, <1>7, <1>8 DEF Next, Work

\* Every step preserves the link between tokens and leases.
LEMMA OwnedStep == IInv /\ [Next]_vars => OwnedIsClaimed'
<1> SUFFICES ASSUME IInv, [Next]_vars PROVE OwnedIsClaimed'
  OBVIOUS
<1> USE DEF IInv, TypeOK, OwnedIsClaimed
<1>1. CASE \E e \in Events : Publish(e) \/ Replay(e)
  BY <1>1 DEF Publish, Replay
<1>2. CASE \E w \in Workers : Begin(w) \/ Claim(w) \/ EndClaim(w)
  BY <1>2 DEF Begin, Claim, EndClaim, queue
<1>3. CASE \E w \in Workers : Process(w) \/ Fail(w) \/ Crash(w)
  BY <1>3 DEF Process, Fail, Crash, queue
<1>4. CASE \E w \in Workers : Complete(w)
  BY <1>4 DEF Complete, Holds
<1>5. CASE \E w \in Workers : Record(w)
  BY <1>5 DEF Record, queue
<1>6. CASE Tick \/ UNCHANGED vars
  BY <1>6 DEF Tick, vars, queue
<1> QED
  BY <1>1, <1>2, <1>3, <1>4, <1>5, <1>6 DEF Next, Work

\* Every step preserves what a lease owner knows about the attempts.
LEMMA CountStep == IInv /\ [Next]_vars => CountIsCurrent'
<1> SUFFICES ASSUME IInv, [Next]_vars PROVE CountIsCurrent'
  OBVIOUS
<1> USE NoneAssumption DEF IInv, TypeOK, CountIsCurrent, Owns
<1>1. CASE \E e \in Events : Publish(e) \/ Replay(e)
  BY <1>1 DEF OwnedIsClaimed, Publish, Replay, worker
<1>2. CASE \E w \in Workers : Begin(w) \/ EndClaim(w)
  BY <1>2 DEF Begin, EndClaim, queue
<1>3. CASE \E w \in Workers : Claim(w)
  BY <1>3 DEF Claim, Claimable
<1>4. CASE \E w \in Workers : Process(w)
  BY <1>4 DEF Process, queue
<1>5. CASE \E w \in Workers : Complete(w)
  BY <1>5 DEF Complete, Finish, Holds
<1>6. CASE \E w \in Workers : Fail(w)
  BY <1>6 DEF Fail, Finish, queue
<1>7. CASE \E w \in Workers : Record(w)
  BY <1>7 DEF Record, Finish, queue
<1>8. CASE \E w \in Workers : Crash(w)
  BY <1>8 DEF Crash, queue
<1>9. CASE Tick \/ UNCHANGED vars
  BY <1>9 DEF Tick, vars, queue, worker
<1> QED
  BY <1>1, <1>2, <1>3, <1>4, <1>5, <1>6, <1>7, <1>8, <1>9 DEF Next, Work

\* One more failure, of an event that has some of its budget left.
LEMMA OneMoreFailure ==
    ASSUME NEW a \in Nat, NEW r \in Nat, NEW m \in Nat,
           a < m + r, r > 0 => a >= m + r - 1
    PROVE  /\ r > 0 => a + 1 >= m + r - 1
           /\ a + 1 >= m => a + 1 = m + r
           /\ a + 1 < m => a + 1 < m + r
OBVIOUS

\* Every step preserves the retry budget.
LEMMA BudgetStep == IInv /\ [Next]_vars => ReplayedIsSpent' /\ RetryBudget'
<1> SUFFICES ASSUME IInv, [Next]_vars PROVE ReplayedIsSpent' /\ RetryBudget'
  OBVIOUS
<1> USE BoundAssumption DEF IInv, TypeOK, ReplayedIsSpent, RetryBudget
<1>1. CASE \E e \in Events : Publish(e)
  BY <1>1 DEF Publish
<1>2. CASE \E e \in Events : Replay(e)
  BY <1>2 DEF Replay
<1>3. CASE \E w \in Workers : Begin(w) \/ EndClaim(w) \/ Process(w) \/ Fail(w) \/ Crash(w)
  BY <1>3 DEF Begin, EndClaim, Process, Fail, Crash, queue
<1>4. CASE \E w \in Workers : Claim(w)
  BY <1>4 DEF Claim, Claimable
<1>5. CASE \E w \in Workers : Complete(w)
  BY <1>5 DEF Complete, Holds
<1>6. CASE \E w \in Workers : Record(w)
  <2>1. PICK w \in Workers : Record(w)
    BY <1>6
  <2>2. step[w] = "record" /\ current[w] \in Events
    BY <2>1 DEF Record
  <2>3. CASE ~Owns(w)
    BY <2>1, <2>3 DEF Record, queue
  <2>4. CASE Owns(w)
    <3>1. /\ seen[w] = attempts[current[w]] + 1
          /\ status[current[w]] # "FAILED"
      BY <2>2, <2>4 DEF CountIsCurrent, Owns
    <3>2. attempts' = [attempts EXCEPT ![current[w]] = seen[w]] /\ UNCHANGED replays
      BY <2>1, <2>4 DEF Record
    <3>3. status' = [status EXCEPT ![current[w]] =
                        IF seen[w] >= MaxAttempts THEN "FAILED" ELSE "PENDING"]
      BY <2>1, <2>4 DEF Record
    <3>4. \A e \in Events \ {current[w]} :
             attempts'[e] = attempts[e] /\ status'[e] = status[e] /\ replays'[e] = replays[e]
      BY <2>2, <3>2, <3>3
    <3>5. /\ attempts'[current[w]] = attempts[current[w]] + 1
          /\ replays'[current[w]] = replays[current[w]]
          /\ status'[current[w]] =
               IF attempts[current[w]] + 1 >= MaxAttempts THEN "FAILED" ELSE "PENDING"
      BY <2>2, <3>1, <3>2, <3>3
    <3>6. /\ replays'[current[w]] > 0 =>
               attempts'[current[w]] >= MaxAttempts + replays'[current[w]] - 1
          /\ IF status'[current[w]] = "FAILED"
               THEN attempts'[current[w]] = MaxAttempts + replays'[current[w]]
               ELSE attempts'[current[w]] < MaxAttempts + replays'[current[w]]
      <4>1. attempts[current[w]] \in Nat /\ replays[current[w]] \in Nat
        BY <2>2
      <4>2. /\ attempts[current[w]] < MaxAttempts + replays[current[w]]
            /\ replays[current[w]] > 0 =>
                 attempts[current[w]] >= MaxAttempts + replays[current[w]] - 1
        BY <2>2, <3>1
      <4>3. /\ replays[current[w]] > 0 =>
                 attempts[current[w]] + 1 >= MaxAttempts + replays[current[w]] - 1
            /\ attempts[current[w]] + 1 >= MaxAttempts =>
                 attempts[current[w]] + 1 = MaxAttempts + replays[current[w]]
            /\ attempts[current[w]] + 1 < MaxAttempts =>
                 attempts[current[w]] + 1 < MaxAttempts + replays[current[w]]
        BY <4>1, <4>2, OneMoreFailure
      <4> QED
        BY <3>5, <4>1, <4>3
    <3> QED
      BY <3>4, <3>6
  <2> QED
    BY <2>3, <2>4
<1>7. CASE Tick \/ UNCHANGED vars
  BY <1>7 DEF Tick, vars, queue
<1> QED
  BY <1>1, <1>2, <1>3, <1>4, <1>5, <1>6, <1>7 DEF Next, Work

\* The inductive invariant holds in every reachable state.
THEOREM OutboxInvariant == Spec => []IInv
<1>1. IInv /\ [Next]_vars => IInv'
  BY TypeStep, ReconciledStep, OwnedStep, CountStep, BudgetStep DEF IInv
<1> QED
  BY InitIInv, <1>1, PTL DEF Spec

-----------------------------------------------------------------------------
\* Type correctness.
THEOREM TypeCorrect == Spec => []TypeOK
BY OutboxInvariant, PTL DEF IInv

\* A completed event has its reconciliation on record.
THEOREM CompletionIsReconciled == Spec => []CompletedIsReconciled
BY OutboxInvariant, PTL DEF IInv

\* Failures are counted exactly, across lease races and replays.
THEOREM BudgetIsKept == Spec => []RetryBudget
BY OutboxInvariant, PTL DEF IInv

\* Only the present lease owner settles an event, and for good.
THEOREM OwnerSettles == Spec => OnlyOwnerSettles
<1> DEFINE Settles ==
      \A e \in Events :
          /\ status[e] = "PROCESSING" /\ status'[e] # "PROCESSING" =>
                /\ owner[e] \in Workers
                /\ current[owner[e]] = e
                /\ step'[owner[e]] # step[owner[e]]
          /\ status[e] = "COMPLETED" => status'[e] = "COMPLETED"
<1>1. TypeOK /\ [Next]_vars => [Settles]_vars
  <2> SUFFICES ASSUME TypeOK, Next PROVE Settles
    OBVIOUS
  <2> USE DEF TypeOK
  <2>1. CASE \E e \in Events : Publish(e) \/ Replay(e)
    BY <2>1 DEF Publish, Replay
  <2>2. CASE \E w \in Workers : Begin(w) \/ EndClaim(w) \/ Process(w) \/ Fail(w) \/ Crash(w)
    BY <2>2 DEF Begin, EndClaim, Process, Fail, Crash, queue
  <2>3. CASE \E w \in Workers : Complete(w)
    BY <2>3 DEF Complete, Finish, Holds
  <2>4. CASE \E w \in Workers : Record(w)
    BY <2>4 DEF Record, Finish, Owns, queue
  <2>5. CASE Tick
    BY <2>5 DEF Tick
  <2>6. CASE \E w \in Workers : Claim(w)
    BY <2>6 DEF Claim, Claimable
  <2> QED
    BY <2>1, <2>2, <2>3, <2>4, <2>5, <2>6 DEF Next, Work
<1> QED
  BY TypeCorrect, <1>1, PTL DEF Spec, OnlyOwnerSettles
=============================================================================
