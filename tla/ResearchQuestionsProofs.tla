---------------------- MODULE ResearchQuestionsProofs ----------------------
(* Theorems about ResearchQuestions, for any number of questions, entries  *)
(* and runs, and any limits.                                               *)
EXTENDS ResearchQuestions, TLAPS

\* What the locals of a run refer to is there.
Known ==
    \A r \in Runs :
        /\ pc[r] \in {"insert", "mark", "queue"} => question[r] \in Questions
        /\ \A i \in found[r] : status[i] # "none"

\* Between the write to the ledger and the completion of the entry.
Published ==
    \A r \in Runs :
        pc[r] = "complete" =>
            /\ item[r] \in Items
            /\ status[item[r]] # "none"
            /\ ledger[about[item[r]]] = "answered"

Inv == TypeOK /\ Known /\ AttemptBudget /\ Published /\ CompletedIsAnswered

LEMMA InitInv == Init => Inv
<1> USE ResearchAssumption
<1> QED
  BY DEF Init, Inv, TypeOK, Known, AttemptBudget, Published, CompletedIsAnswered, Statuses, Open, Places

-----------------------------------------------------------------------------
\* Every step keeps the types.
LEMMA TypeStep ==
    ASSUME Inv, [Next]_vars
    PROVE  TypeOK'
<1> USE DEF Inv, TypeOK, Known, AttemptBudget, Statuses, Open, Places
<1>1. ASSUME NEW q \in Questions, Request(q) PROVE TypeOK'
  BY <1>1 DEF Request, Insert, books, entry, local, delivery, sync
<1>2. ASSUME NEW r \in Runs, Start(r) PROVE TypeOK'
  BY <1>2 DEF Start, Goto, books, entry, local, delivery, sync
<1>3. ASSUME NEW r \in Runs, NEW i \in Items, Publish(r, i) PROVE TypeOK'
  BY <1>3 DEF Publish, Goto, books, entry, local, delivery, sync
<1>4. ASSUME NEW r \in Runs, NEW i \in Items, Complete(r, i) PROVE TypeOK'
  BY <1>4 DEF Complete, Goto, books, entry, local, delivery, sync
<1>5. ASSUME NEW r \in Runs, Delivered(r) PROVE TypeOK'
  BY <1>5 DEF Delivered, Goto, books, entry, local, delivery, sync
<1>6. ASSUME NEW r \in Runs, DeliveryFails(r) PROVE TypeOK'
  BY <1>6 DEF DeliveryFails, Goto, books, entry, local, delivery, sync
<1>7. ASSUME NEW r \in Runs, NEW i \in Items, Reclaim(r, i) PROVE TypeOK'
  BY <1>7 DEF Reclaim, Spent, books, entry, local, delivery, sync
<1>8. ASSUME NEW r \in Runs, Reclaimed(r) PROVE TypeOK'
  BY <1>8 DEF Reclaimed, Goto, books, entry, local, delivery, sync
<1>9. ASSUME NEW r \in Runs, NEW i \in Items, Claim(r, i) PROVE TypeOK'
  BY <1>9, ResearchAssumption DEF Claim, Claimable, books, entry, local, delivery, sync
<1>10. ASSUME NEW r \in Runs, Claimed(r) PROVE TypeOK'
  BY <1>10 DEF Claimed, Goto, books, entry, local, delivery, sync
<1>11. ASSUME NEW r \in Runs, NEW i \in Items, Heartbeat(r, i) PROVE TypeOK'
  BY <1>11 DEF Heartbeat, Leased, books, entry, local, delivery, sync
<1>12. ASSUME NEW r \in Runs, Desk(r) PROVE TypeOK'
  BY <1>12 DEF Desk, Goto, books, entry, local, delivery, sync
<1>13. ASSUME NEW r \in Runs, NEW q \in Questions, Record(r, q) PROVE TypeOK'
  BY <1>13 DEF Record, Goto, books, entry, local, delivery, sync
<1>14. ASSUME NEW r \in Runs, InsertOpen(r) PROVE TypeOK'
  BY <1>14 DEF InsertOpen, Recorded, Goto, books, entry, local, delivery, sync
<1>15. ASSUME NEW r \in Runs, MarkReasked(r) PROVE TypeOK'
  BY <1>15 DEF MarkReasked, Recorded, Goto, books, entry, local, delivery, sync
<1>16. ASSUME NEW r \in Runs, RecordEnds(r) PROVE TypeOK'
  BY <1>16 DEF RecordEnds, Goto, books, entry, local, delivery, sync
<1>17. ASSUME NEW r \in Runs, Drop(r) PROVE TypeOK'
  BY <1>17 DEF Drop, Goto, books, entry, local, delivery, sync
<1>18. ASSUME NEW r \in Runs, NEW q \in Questions, Enqueue(r, q) PROVE TypeOK'
  BY <1>18 DEF Enqueue, Goto, books, entry, local, delivery, sync
<1>19. ASSUME NEW r \in Runs, InsertItem(r) PROVE TypeOK'
  BY <1>19 DEF InsertItem, Insert, Goto, books, entry, local, delivery, sync
<1>20. ASSUME NEW r \in Runs, SyncEnds(r) PROVE TypeOK'
  BY <1>20 DEF SyncEnds, Goto, books, entry, local, delivery, sync
<1>21. ASSUME NEW r \in Runs, NEW i \in Items, Answer(r, i) PROVE TypeOK'
  BY <1>21 DEF Answer, Leased, Goto, books, entry, local, delivery, sync
<1>22. ASSUME NEW r \in Runs, NEW i \in Items, Defer(r, i) PROVE TypeOK'
  BY <1>22 DEF Defer, HandBack, Leased, Spent, books, entry, local, delivery, sync
<1>23. ASSUME NEW r \in Runs, Finished(r) PROVE TypeOK'
  BY <1>23 DEF Finished, Goto, books, entry, local, delivery, sync
<1>24. ASSUME NEW r \in Runs, NEW i \in Items, Release(r, i) PROVE TypeOK'
  BY <1>24 DEF Release, HandBack, Leased, Spent, books, entry, local, delivery, sync
<1>25. ASSUME NEW r \in Runs, Released(r) PROVE TypeOK'
  BY <1>25 DEF Released, Goto, books, entry, local, delivery, sync
<1>26. ASSUME NEW r \in Runs, Crash(r) PROVE TypeOK'
  BY <1>26 DEF Crash, Goto, books, entry, local, delivery, sync
<1>27. ASSUME NEW i \in Items, Expire(i) PROVE TypeOK'
  BY <1>27 DEF Expire, books, entry, local, delivery, sync
<1>28. ASSUME NEW i \in Items, CoolOff(i) PROVE TypeOK'
  BY <1>28 DEF CoolOff, books, entry, local, delivery, sync
<1>29. CASE UNCHANGED vars
  BY <1>29 DEF vars, books, entry, local, delivery, sync
<1> QED
  BY <1>1, <1>2, <1>3, <1>4, <1>5, <1>6, <1>7, <1>8, <1>9, <1>10, <1>11,
     <1>12, <1>13, <1>14, <1>15, <1>16, <1>17, <1>18, <1>19, <1>20, <1>21,
     <1>22, <1>23, <1>24, <1>25, <1>26, <1>27, <1>28, <1>29 DEF Next, Advance,
     Deliver

\* Whoever is about to write about a question has one, and entries to be
\* delivered exist.
LEMMA KnownStep ==
    ASSUME Inv, [Next]_vars
    PROVE  Known'
<1> USE DEF Inv, Known, TypeOK
<1>1. ASSUME NEW q \in Questions, Request(q) PROVE Known'
  BY <1>1 DEF Request, Insert, books, entry, local, delivery, sync
<1>2. ASSUME NEW r \in Runs, Start(r) PROVE Known'
  BY <1>2 DEF Start, Goto, books, entry, local, delivery, sync
<1>3. ASSUME NEW r \in Runs, NEW i \in Items, Publish(r, i) PROVE Known'
  BY <1>3 DEF Publish, Goto, books, entry, local, delivery, sync
<1>4. ASSUME NEW r \in Runs, NEW i \in Items, Complete(r, i) PROVE Known'
  BY <1>4 DEF Complete, Goto, books, entry, local, delivery, sync
<1>5. ASSUME NEW r \in Runs, Delivered(r) PROVE Known'
  BY <1>5 DEF Delivered, Goto, books, entry, local, delivery, sync
<1>6. ASSUME NEW r \in Runs, DeliveryFails(r) PROVE Known'
  BY <1>6 DEF DeliveryFails, Goto, books, entry, local, delivery, sync
<1>7. ASSUME NEW r \in Runs, NEW i \in Items, Reclaim(r, i) PROVE Known'
  BY <1>7 DEF Reclaim, Spent, books, entry, local, delivery, sync
<1>8. ASSUME NEW r \in Runs, Reclaimed(r) PROVE Known'
  BY <1>8 DEF Reclaimed, Goto, books, entry, local, delivery, sync
<1>9. ASSUME NEW r \in Runs, NEW i \in Items, Claim(r, i) PROVE Known'
  BY <1>9 DEF Claim, Claimable, books, entry, local, delivery, sync
<1>10. ASSUME NEW r \in Runs, Claimed(r) PROVE Known'
  BY <1>10 DEF Claimed, Goto, books, entry, local, delivery, sync
<1>11. ASSUME NEW r \in Runs, NEW i \in Items, Heartbeat(r, i) PROVE Known'
  BY <1>11 DEF Heartbeat, Leased, books, entry, local, delivery, sync
<1>12. ASSUME NEW r \in Runs, Desk(r) PROVE Known'
  BY <1>12 DEF Desk, Goto, books, entry, local, delivery, sync
<1>13. ASSUME NEW r \in Runs, NEW q \in Questions, Record(r, q) PROVE Known'
  BY <1>13 DEF Record, Goto, books, entry, local, delivery, sync
<1>14. ASSUME NEW r \in Runs, InsertOpen(r) PROVE Known'
  BY <1>14 DEF InsertOpen, Recorded, Goto, books, entry, local, delivery, sync
<1>15. ASSUME NEW r \in Runs, MarkReasked(r) PROVE Known'
  BY <1>15 DEF MarkReasked, Recorded, Goto, books, entry, local, delivery, sync
<1>16. ASSUME NEW r \in Runs, RecordEnds(r) PROVE Known'
  BY <1>16 DEF RecordEnds, Goto, books, entry, local, delivery, sync
<1>17. ASSUME NEW r \in Runs, Drop(r) PROVE Known'
  BY <1>17 DEF Drop, Goto, books, entry, local, delivery, sync
<1>18. ASSUME NEW r \in Runs, NEW q \in Questions, Enqueue(r, q) PROVE Known'
  BY <1>18 DEF Enqueue, Goto, books, entry, local, delivery, sync
<1>19. ASSUME NEW r \in Runs, InsertItem(r) PROVE Known'
  BY <1>19 DEF InsertItem, Insert, Goto, books, entry, local, delivery, sync
<1>20. ASSUME NEW r \in Runs, SyncEnds(r) PROVE Known'
  BY <1>20 DEF SyncEnds, Goto, books, entry, local, delivery, sync
<1>21. ASSUME NEW r \in Runs, NEW i \in Items, Answer(r, i) PROVE Known'
  BY <1>21 DEF Answer, Leased, Goto, books, entry, local, delivery, sync
<1>22. ASSUME NEW r \in Runs, NEW i \in Items, Defer(r, i) PROVE Known'
  BY <1>22 DEF Defer, HandBack, Leased, Spent, books, entry, local, delivery, sync
<1>23. ASSUME NEW r \in Runs, Finished(r) PROVE Known'
  BY <1>23 DEF Finished, Goto, books, entry, local, delivery, sync
<1>24. ASSUME NEW r \in Runs, NEW i \in Items, Release(r, i) PROVE Known'
  BY <1>24 DEF Release, HandBack, Leased, Spent, books, entry, local, delivery, sync
<1>25. ASSUME NEW r \in Runs, Released(r) PROVE Known'
  BY <1>25 DEF Released, Goto, books, entry, local, delivery, sync
<1>26. ASSUME NEW r \in Runs, Crash(r) PROVE Known'
  BY <1>26 DEF Crash, Goto, books, entry, local, delivery, sync
<1>27. ASSUME NEW i \in Items, Expire(i) PROVE Known'
  BY <1>27 DEF Expire, books, entry, local, delivery, sync
<1>28. ASSUME NEW i \in Items, CoolOff(i) PROVE Known'
  BY <1>28 DEF CoolOff, books, entry, local, delivery, sync
<1>29. CASE UNCHANGED vars
  BY <1>29 DEF vars, books, entry, local, delivery, sync
<1> QED
  BY <1>1, <1>2, <1>3, <1>4, <1>5, <1>6, <1>7, <1>8, <1>9, <1>10, <1>11,
     <1>12, <1>13, <1>14, <1>15, <1>16, <1>17, <1>18, <1>19, <1>20, <1>21,
     <1>22, <1>23, <1>24, <1>25, <1>26, <1>27, <1>28, <1>29 DEF Next, Advance,
     Deliver

\* Every step keeps the budget of attempts.
LEMMA BudgetStep ==
    ASSUME Inv, [Next]_vars
    PROVE  AttemptBudget'
<1> USE DEF Inv, AttemptBudget, TypeOK
<1>1. ASSUME NEW q \in Questions, Request(q) PROVE AttemptBudget'
  BY <1>1 DEF Request, Insert, books, entry, local, delivery, sync
<1>2. ASSUME NEW r \in Runs, Start(r) PROVE AttemptBudget'
  BY <1>2 DEF Start, Goto, books, entry, local, delivery, sync
<1>3. ASSUME NEW r \in Runs, NEW i \in Items, Publish(r, i) PROVE AttemptBudget'
  BY <1>3 DEF Publish, Goto, books, entry, local, delivery, sync
<1>4. ASSUME NEW r \in Runs, NEW i \in Items, Complete(r, i) PROVE AttemptBudget'
  BY <1>4 DEF Complete, Goto, books, entry, local, delivery, sync
<1>5. ASSUME NEW r \in Runs, Delivered(r) PROVE AttemptBudget'
  BY <1>5 DEF Delivered, Goto, books, entry, local, delivery, sync
<1>6. ASSUME NEW r \in Runs, DeliveryFails(r) PROVE AttemptBudget'
  BY <1>6 DEF DeliveryFails, Goto, books, entry, local, delivery, sync
<1>7. ASSUME NEW r \in Runs, NEW i \in Items, Reclaim(r, i) PROVE AttemptBudget'
  <2> SUFFICES ASSUME NEW j \in Items
               PROVE  /\ status'[j] \in {"none", "pending"} => attempts'[j] < MaxAttempts
                      /\ status'[j] = "failed" => attempts'[j] = MaxAttempts
    OBVIOUS
  <2>1. attempts' = attempts
    BY <1>7 DEF Reclaim, Spent, books, entry, local, delivery, sync
  <2>2. \/ status'[j] = status[j]
        \/ attempts[j] >= MaxAttempts /\ status'[j] = "failed"
        \/ ~(attempts[j] >= MaxAttempts) /\ status'[j] = "pending"
    BY <1>7 DEF Reclaim, Spent, books, entry, local, delivery, sync
  <2>3. attempts[j] \in 0 .. MaxAttempts /\ MaxAttempts \in Nat
    BY ResearchAssumption
  <2>4. /\ status[j] \in {"none", "pending"} => attempts[j] < MaxAttempts
        /\ status[j] = "failed" => attempts[j] = MaxAttempts
    OBVIOUS
  <2> HIDE DEF Inv
  <2> QED
    BY <2>1, <2>2, <2>3, <2>4
<1>8. ASSUME NEW r \in Runs, Reclaimed(r) PROVE AttemptBudget'
  BY <1>8 DEF Reclaimed, Goto, books, entry, local, delivery, sync
<1>9. ASSUME NEW r \in Runs, NEW i \in Items, Claim(r, i) PROVE AttemptBudget'
  BY <1>9 DEF Claim, Claimable, books, entry, local, delivery, sync
<1>10. ASSUME NEW r \in Runs, Claimed(r) PROVE AttemptBudget'
  BY <1>10 DEF Claimed, Goto, books, entry, local, delivery, sync
<1>11. ASSUME NEW r \in Runs, NEW i \in Items, Heartbeat(r, i) PROVE AttemptBudget'
  BY <1>11 DEF Heartbeat, Leased, books, entry, local, delivery, sync
<1>12. ASSUME NEW r \in Runs, Desk(r) PROVE AttemptBudget'
  BY <1>12 DEF Desk, Goto, books, entry, local, delivery, sync
<1>13. ASSUME NEW r \in Runs, NEW q \in Questions, Record(r, q) PROVE AttemptBudget'
  BY <1>13 DEF Record, Goto, books, entry, local, delivery, sync
<1>14. ASSUME NEW r \in Runs, InsertOpen(r) PROVE AttemptBudget'
  BY <1>14 DEF InsertOpen, Recorded, Goto, books, entry, local, delivery, sync
<1>15. ASSUME NEW r \in Runs, MarkReasked(r) PROVE AttemptBudget'
  BY <1>15 DEF MarkReasked, Recorded, Goto, books, entry, local, delivery, sync
<1>16. ASSUME NEW r \in Runs, RecordEnds(r) PROVE AttemptBudget'
  BY <1>16 DEF RecordEnds, Goto, books, entry, local, delivery, sync
<1>17. ASSUME NEW r \in Runs, Drop(r) PROVE AttemptBudget'
  BY <1>17 DEF Drop, Goto, books, entry, local, delivery, sync
<1>18. ASSUME NEW r \in Runs, NEW q \in Questions, Enqueue(r, q) PROVE AttemptBudget'
  BY <1>18 DEF Enqueue, Goto, books, entry, local, delivery, sync
<1>19. ASSUME NEW r \in Runs, InsertItem(r) PROVE AttemptBudget'
  BY <1>19 DEF InsertItem, Insert, Goto, books, entry, local, delivery, sync
<1>20. ASSUME NEW r \in Runs, SyncEnds(r) PROVE AttemptBudget'
  BY <1>20 DEF SyncEnds, Goto, books, entry, local, delivery, sync
<1>21. ASSUME NEW r \in Runs, NEW i \in Items, Answer(r, i) PROVE AttemptBudget'
  BY <1>21 DEF Answer, Leased, Goto, books, entry, local, delivery, sync
<1>22. ASSUME NEW r \in Runs, NEW i \in Items, Defer(r, i) PROVE AttemptBudget'
  <2> SUFFICES ASSUME NEW j \in Items
               PROVE  /\ status'[j] \in {"none", "pending"} => attempts'[j] < MaxAttempts
                      /\ status'[j] = "failed" => attempts'[j] = MaxAttempts
    OBVIOUS
  <2>1. attempts' = attempts
    BY <1>22 DEF Defer, HandBack, Leased, Spent, books, entry, local, delivery, sync
  <2>2. \/ status'[j] = status[j]
        \/ attempts[j] >= MaxAttempts /\ status'[j] = "failed"
        \/ ~(attempts[j] >= MaxAttempts) /\ status'[j] = "pending"
    BY <1>22 DEF Defer, HandBack, Leased, Spent, books, entry, local, delivery, sync
  <2>3. attempts[j] \in 0 .. MaxAttempts /\ MaxAttempts \in Nat
    BY ResearchAssumption
  <2>4. /\ status[j] \in {"none", "pending"} => attempts[j] < MaxAttempts
        /\ status[j] = "failed" => attempts[j] = MaxAttempts
    OBVIOUS
  <2> HIDE DEF Inv
  <2> QED
    BY <2>1, <2>2, <2>3, <2>4
<1>23. ASSUME NEW r \in Runs, Finished(r) PROVE AttemptBudget'
  BY <1>23 DEF Finished, Goto, books, entry, local, delivery, sync
<1>24. ASSUME NEW r \in Runs, NEW i \in Items, Release(r, i) PROVE AttemptBudget'
  <2> SUFFICES ASSUME NEW j \in Items
               PROVE  /\ status'[j] \in {"none", "pending"} => attempts'[j] < MaxAttempts
                      /\ status'[j] = "failed" => attempts'[j] = MaxAttempts
    OBVIOUS
  <2>1. attempts' = attempts
    BY <1>24 DEF Release, HandBack, Leased, Spent, books, entry, local, delivery, sync
  <2>2. \/ status'[j] = status[j]
        \/ attempts[j] >= MaxAttempts /\ status'[j] = "failed"
        \/ ~(attempts[j] >= MaxAttempts) /\ status'[j] = "pending"
    BY <1>24 DEF Release, HandBack, Leased, Spent, books, entry, local, delivery, sync
  <2>3. attempts[j] \in 0 .. MaxAttempts /\ MaxAttempts \in Nat
    BY ResearchAssumption
  <2>4. /\ status[j] \in {"none", "pending"} => attempts[j] < MaxAttempts
        /\ status[j] = "failed" => attempts[j] = MaxAttempts
    OBVIOUS
  <2> HIDE DEF Inv
  <2> QED
    BY <2>1, <2>2, <2>3, <2>4
<1>25. ASSUME NEW r \in Runs, Released(r) PROVE AttemptBudget'
  BY <1>25 DEF Released, Goto, books, entry, local, delivery, sync
<1>26. ASSUME NEW r \in Runs, Crash(r) PROVE AttemptBudget'
  BY <1>26 DEF Crash, Goto, books, entry, local, delivery, sync
<1>27. ASSUME NEW i \in Items, Expire(i) PROVE AttemptBudget'
  BY <1>27 DEF Expire, books, entry, local, delivery, sync
<1>28. ASSUME NEW i \in Items, CoolOff(i) PROVE AttemptBudget'
  BY <1>28 DEF CoolOff, books, entry, local, delivery, sync
<1>29. CASE UNCHANGED vars
  BY <1>29 DEF vars, books, entry, local, delivery, sync
<1> QED
  BY <1>1, <1>2, <1>3, <1>4, <1>5, <1>6, <1>7, <1>8, <1>9, <1>10, <1>11,
     <1>12, <1>13, <1>14, <1>15, <1>16, <1>17, <1>18, <1>19, <1>20, <1>21,
     <1>22, <1>23, <1>24, <1>25, <1>26, <1>27, <1>28, <1>29 DEF Next, Advance,
     Deliver

\* What a run is about to complete has been published.
LEMMA PublishedStep ==
    ASSUME Inv, [Next]_vars
    PROVE  Published'
<1> USE DEF Inv, Published, Known, TypeOK, Open
<1>1. ASSUME NEW q \in Questions, Request(q) PROVE Published'
  BY <1>1 DEF Request, Insert, books, entry, local, delivery, sync
<1>2. ASSUME NEW r \in Runs, Start(r) PROVE Published'
  BY <1>2 DEF Start, Goto, books, entry, local, delivery, sync
<1>3. ASSUME NEW r \in Runs, NEW i \in Items, Publish(r, i) PROVE Published'
  BY <1>3 DEF Publish, Goto, books, entry, local, delivery, sync
<1>4. ASSUME NEW r \in Runs, NEW i \in Items, Complete(r, i) PROVE Published'
  BY <1>4 DEF Complete, Goto, books, entry, local, delivery, sync
<1>5. ASSUME NEW r \in Runs, Delivered(r) PROVE Published'
  BY <1>5 DEF Delivered, Goto, books, entry, local, delivery, sync
<1>6. ASSUME NEW r \in Runs, DeliveryFails(r) PROVE Published'
  BY <1>6 DEF DeliveryFails, Goto, books, entry, local, delivery, sync
<1>7. ASSUME NEW r \in Runs, NEW i \in Items, Reclaim(r, i) PROVE Published'
  BY <1>7 DEF Reclaim, Spent, books, entry, local, delivery, sync
<1>8. ASSUME NEW r \in Runs, Reclaimed(r) PROVE Published'
  BY <1>8 DEF Reclaimed, Goto, books, entry, local, delivery, sync
<1>9. ASSUME NEW r \in Runs, NEW i \in Items, Claim(r, i) PROVE Published'
  BY <1>9 DEF Claim, Claimable, books, entry, local, delivery, sync
<1>10. ASSUME NEW r \in Runs, Claimed(r) PROVE Published'
  BY <1>10 DEF Claimed, Goto, books, entry, local, delivery, sync
<1>11. ASSUME NEW r \in Runs, NEW i \in Items, Heartbeat(r, i) PROVE Published'
  BY <1>11 DEF Heartbeat, Leased, books, entry, local, delivery, sync
<1>12. ASSUME NEW r \in Runs, Desk(r) PROVE Published'
  BY <1>12 DEF Desk, Goto, books, entry, local, delivery, sync
<1>13. ASSUME NEW r \in Runs, NEW q \in Questions, Record(r, q) PROVE Published'
  BY <1>13 DEF Record, Goto, books, entry, local, delivery, sync
<1>14. ASSUME NEW r \in Runs, InsertOpen(r) PROVE Published'
  BY <1>14 DEF InsertOpen, Recorded, Goto, books, entry, local, delivery, sync
<1>15. ASSUME NEW r \in Runs, MarkReasked(r) PROVE Published'
  BY <1>15 DEF MarkReasked, Recorded, Goto, books, entry, local, delivery, sync
<1>16. ASSUME NEW r \in Runs, RecordEnds(r) PROVE Published'
  BY <1>16 DEF RecordEnds, Goto, books, entry, local, delivery, sync
<1>17. ASSUME NEW r \in Runs, Drop(r) PROVE Published'
  BY <1>17 DEF Drop, Goto, books, entry, local, delivery, sync
<1>18. ASSUME NEW r \in Runs, NEW q \in Questions, Enqueue(r, q) PROVE Published'
  BY <1>18 DEF Enqueue, Goto, books, entry, local, delivery, sync
<1>19. ASSUME NEW r \in Runs, InsertItem(r) PROVE Published'
  BY <1>19 DEF InsertItem, Insert, Goto, books, entry, local, delivery, sync
<1>20. ASSUME NEW r \in Runs, SyncEnds(r) PROVE Published'
  BY <1>20 DEF SyncEnds, Goto, books, entry, local, delivery, sync
<1>21. ASSUME NEW r \in Runs, NEW i \in Items, Answer(r, i) PROVE Published'
  BY <1>21 DEF Answer, Leased, Goto, books, entry, local, delivery, sync
<1>22. ASSUME NEW r \in Runs, NEW i \in Items, Defer(r, i) PROVE Published'
  BY <1>22 DEF Defer, HandBack, Leased, Spent, books, entry, local, delivery, sync
<1>23. ASSUME NEW r \in Runs, Finished(r) PROVE Published'
  BY <1>23 DEF Finished, Goto, books, entry, local, delivery, sync
<1>24. ASSUME NEW r \in Runs, NEW i \in Items, Release(r, i) PROVE Published'
  BY <1>24 DEF Release, HandBack, Leased, Spent, books, entry, local, delivery, sync
<1>25. ASSUME NEW r \in Runs, Released(r) PROVE Published'
  BY <1>25 DEF Released, Goto, books, entry, local, delivery, sync
<1>26. ASSUME NEW r \in Runs, Crash(r) PROVE Published'
  BY <1>26 DEF Crash, Goto, books, entry, local, delivery, sync
<1>27. ASSUME NEW i \in Items, Expire(i) PROVE Published'
  BY <1>27 DEF Expire, books, entry, local, delivery, sync
<1>28. ASSUME NEW i \in Items, CoolOff(i) PROVE Published'
  BY <1>28 DEF CoolOff, books, entry, local, delivery, sync
<1>29. CASE UNCHANGED vars
  BY <1>29 DEF vars, books, entry, local, delivery, sync
<1> QED
  BY <1>1, <1>2, <1>3, <1>4, <1>5, <1>6, <1>7, <1>8, <1>9, <1>10, <1>11,
     <1>12, <1>13, <1>14, <1>15, <1>16, <1>17, <1>18, <1>19, <1>20, <1>21,
     <1>22, <1>23, <1>24, <1>25, <1>26, <1>27, <1>28, <1>29 DEF Next, Advance,
     Deliver

\* Completed entries are answered, and stay so.
LEMMA CompletedStep ==
    ASSUME Inv, [Next]_vars
    PROVE  CompletedIsAnswered'
<1> USE DEF Inv, CompletedIsAnswered, Published, Known, TypeOK, Open
<1>1. ASSUME NEW q \in Questions, Request(q) PROVE CompletedIsAnswered'
  BY <1>1 DEF Request, Insert, books, entry, local, delivery, sync
<1>2. ASSUME NEW r \in Runs, Start(r) PROVE CompletedIsAnswered'
  BY <1>2 DEF Start, Goto, books, entry, local, delivery, sync
<1>3. ASSUME NEW r \in Runs, NEW i \in Items, Publish(r, i) PROVE CompletedIsAnswered'
  BY <1>3 DEF Publish, Goto, books, entry, local, delivery, sync
<1>4. ASSUME NEW r \in Runs, NEW i \in Items, Complete(r, i) PROVE CompletedIsAnswered'
  BY <1>4 DEF Complete, Goto, books, entry, local, delivery, sync
<1>5. ASSUME NEW r \in Runs, Delivered(r) PROVE CompletedIsAnswered'
  BY <1>5 DEF Delivered, Goto, books, entry, local, delivery, sync
<1>6. ASSUME NEW r \in Runs, DeliveryFails(r) PROVE CompletedIsAnswered'
  BY <1>6 DEF DeliveryFails, Goto, books, entry, local, delivery, sync
<1>7. ASSUME NEW r \in Runs, NEW i \in Items, Reclaim(r, i) PROVE CompletedIsAnswered'
  BY <1>7 DEF Reclaim, Spent, books, entry, local, delivery, sync
<1>8. ASSUME NEW r \in Runs, Reclaimed(r) PROVE CompletedIsAnswered'
  BY <1>8 DEF Reclaimed, Goto, books, entry, local, delivery, sync
<1>9. ASSUME NEW r \in Runs, NEW i \in Items, Claim(r, i) PROVE CompletedIsAnswered'
  BY <1>9 DEF Claim, Claimable, books, entry, local, delivery, sync
<1>10. ASSUME NEW r \in Runs, Claimed(r) PROVE CompletedIsAnswered'
  BY <1>10 DEF Claimed, Goto, books, entry, local, delivery, sync
<1>11. ASSUME NEW r \in Runs, NEW i \in Items, Heartbeat(r, i) PROVE CompletedIsAnswered'
  BY <1>11 DEF Heartbeat, Leased, books, entry, local, delivery, sync
<1>12. ASSUME NEW r \in Runs, Desk(r) PROVE CompletedIsAnswered'
  BY <1>12 DEF Desk, Goto, books, entry, local, delivery, sync
<1>13. ASSUME NEW r \in Runs, NEW q \in Questions, Record(r, q) PROVE CompletedIsAnswered'
  BY <1>13 DEF Record, Goto, books, entry, local, delivery, sync
<1>14. ASSUME NEW r \in Runs, InsertOpen(r) PROVE CompletedIsAnswered'
  BY <1>14 DEF InsertOpen, Recorded, Goto, books, entry, local, delivery, sync
<1>15. ASSUME NEW r \in Runs, MarkReasked(r) PROVE CompletedIsAnswered'
  BY <1>15 DEF MarkReasked, Recorded, Goto, books, entry, local, delivery, sync
<1>16. ASSUME NEW r \in Runs, RecordEnds(r) PROVE CompletedIsAnswered'
  BY <1>16 DEF RecordEnds, Goto, books, entry, local, delivery, sync
<1>17. ASSUME NEW r \in Runs, Drop(r) PROVE CompletedIsAnswered'
  BY <1>17 DEF Drop, Goto, books, entry, local, delivery, sync
<1>18. ASSUME NEW r \in Runs, NEW q \in Questions, Enqueue(r, q) PROVE CompletedIsAnswered'
  BY <1>18 DEF Enqueue, Goto, books, entry, local, delivery, sync
<1>19. ASSUME NEW r \in Runs, InsertItem(r) PROVE CompletedIsAnswered'
  BY <1>19 DEF InsertItem, Insert, Goto, books, entry, local, delivery, sync
<1>20. ASSUME NEW r \in Runs, SyncEnds(r) PROVE CompletedIsAnswered'
  BY <1>20 DEF SyncEnds, Goto, books, entry, local, delivery, sync
<1>21. ASSUME NEW r \in Runs, NEW i \in Items, Answer(r, i) PROVE CompletedIsAnswered'
  BY <1>21 DEF Answer, Leased, Goto, books, entry, local, delivery, sync
<1>22. ASSUME NEW r \in Runs, NEW i \in Items, Defer(r, i) PROVE CompletedIsAnswered'
  BY <1>22 DEF Defer, HandBack, Leased, Spent, books, entry, local, delivery, sync
<1>23. ASSUME NEW r \in Runs, Finished(r) PROVE CompletedIsAnswered'
  BY <1>23 DEF Finished, Goto, books, entry, local, delivery, sync
<1>24. ASSUME NEW r \in Runs, NEW i \in Items, Release(r, i) PROVE CompletedIsAnswered'
  BY <1>24 DEF Release, HandBack, Leased, Spent, books, entry, local, delivery, sync
<1>25. ASSUME NEW r \in Runs, Released(r) PROVE CompletedIsAnswered'
  BY <1>25 DEF Released, Goto, books, entry, local, delivery, sync
<1>26. ASSUME NEW r \in Runs, Crash(r) PROVE CompletedIsAnswered'
  BY <1>26 DEF Crash, Goto, books, entry, local, delivery, sync
<1>27. ASSUME NEW i \in Items, Expire(i) PROVE CompletedIsAnswered'
  BY <1>27 DEF Expire, books, entry, local, delivery, sync
<1>28. ASSUME NEW i \in Items, CoolOff(i) PROVE CompletedIsAnswered'
  BY <1>28 DEF CoolOff, books, entry, local, delivery, sync
<1>29. CASE UNCHANGED vars
  BY <1>29 DEF vars, books, entry, local, delivery, sync
<1> QED
  BY <1>1, <1>2, <1>3, <1>4, <1>5, <1>6, <1>7, <1>8, <1>9, <1>10, <1>11,
     <1>12, <1>13, <1>14, <1>15, <1>16, <1>17, <1>18, <1>19, <1>20, <1>21,
     <1>22, <1>23, <1>24, <1>25, <1>26, <1>27, <1>28, <1>29 DEF Next, Advance,
     Deliver

-----------------------------------------------------------------------------
LEMMA Invariance == Spec => []Inv
<1>1. Inv /\ [Next]_vars => Inv'
  BY TypeStep, KnownStep, BudgetStep, PublishedStep, CompletedStep DEF Inv
<1> QED
  BY InitInv, <1>1, PTL DEF Spec

-----------------------------------------------------------------------------
\* Every reachable state of the queue, the ledger and the runs is well typed.
THEOREM TypeCorrect == Spec => []TypeOK
BY Invariance, PTL DEF Inv

\* A completed entry has its answer in the ledger (deliver_ready_answers).
THEOREM CompletionIsAnswered == Spec => []CompletedIsAnswered
BY Invariance, PTL DEF Inv

\* No entry is tried more often than MAX_ATTEMPTS, nor given up before
\* (reclaim_stale, finish_claim).
THEOREM AttemptsCounted == Spec => []AttemptBudget
BY Invariance, PTL DEF Inv

-----------------------------------------------------------------------------
AnswersKept == \A q \in Questions : ledger[q] = "answered" => ledger'[q] = "answered"

\* A delivered answer is never taken back by a step.
LEMMA AnswerStep ==
    ASSUME Inv, [Next]_vars
    PROVE  AnswersKept
<1> USE DEF Inv, AnswersKept, TypeOK, Open
<1>1. ASSUME NEW q \in Questions, Request(q) PROVE AnswersKept
  BY <1>1 DEF Request, Insert, books, entry, local, delivery, sync
<1>2. ASSUME NEW r \in Runs, Start(r) PROVE AnswersKept
  BY <1>2 DEF Start, Goto, books, entry, local, delivery, sync
<1>3. ASSUME NEW r \in Runs, NEW i \in Items, Publish(r, i) PROVE AnswersKept
  BY <1>3 DEF Publish, Goto, books, entry, local, delivery, sync
<1>4. ASSUME NEW r \in Runs, NEW i \in Items, Complete(r, i) PROVE AnswersKept
  BY <1>4 DEF Complete, Goto, books, entry, local, delivery, sync
<1>5. ASSUME NEW r \in Runs, Delivered(r) PROVE AnswersKept
  BY <1>5 DEF Delivered, Goto, books, entry, local, delivery, sync
<1>6. ASSUME NEW r \in Runs, DeliveryFails(r) PROVE AnswersKept
  BY <1>6 DEF DeliveryFails, Goto, books, entry, local, delivery, sync
<1>7. ASSUME NEW r \in Runs, NEW i \in Items, Reclaim(r, i) PROVE AnswersKept
  BY <1>7 DEF Reclaim, Spent, books, entry, local, delivery, sync
<1>8. ASSUME NEW r \in Runs, Reclaimed(r) PROVE AnswersKept
  BY <1>8 DEF Reclaimed, Goto, books, entry, local, delivery, sync
<1>9. ASSUME NEW r \in Runs, NEW i \in Items, Claim(r, i) PROVE AnswersKept
  BY <1>9 DEF Claim, Claimable, books, entry, local, delivery, sync
<1>10. ASSUME NEW r \in Runs, Claimed(r) PROVE AnswersKept
  BY <1>10 DEF Claimed, Goto, books, entry, local, delivery, sync
<1>11. ASSUME NEW r \in Runs, NEW i \in Items, Heartbeat(r, i) PROVE AnswersKept
  BY <1>11 DEF Heartbeat, Leased, books, entry, local, delivery, sync
<1>12. ASSUME NEW r \in Runs, Desk(r) PROVE AnswersKept
  BY <1>12 DEF Desk, Goto, books, entry, local, delivery, sync
<1>13. ASSUME NEW r \in Runs, NEW q \in Questions, Record(r, q) PROVE AnswersKept
  BY <1>13 DEF Record, Goto, books, entry, local, delivery, sync
<1>14. ASSUME NEW r \in Runs, InsertOpen(r) PROVE AnswersKept
  BY <1>14 DEF InsertOpen, Recorded, Goto, books, entry, local, delivery, sync
<1>15. ASSUME NEW r \in Runs, MarkReasked(r) PROVE AnswersKept
  BY <1>15 DEF MarkReasked, Recorded, Goto, books, entry, local, delivery, sync
<1>16. ASSUME NEW r \in Runs, RecordEnds(r) PROVE AnswersKept
  BY <1>16 DEF RecordEnds, Goto, books, entry, local, delivery, sync
<1>17. ASSUME NEW r \in Runs, Drop(r) PROVE AnswersKept
  BY <1>17 DEF Drop, Goto, books, entry, local, delivery, sync
<1>18. ASSUME NEW r \in Runs, NEW q \in Questions, Enqueue(r, q) PROVE AnswersKept
  BY <1>18 DEF Enqueue, Goto, books, entry, local, delivery, sync
<1>19. ASSUME NEW r \in Runs, InsertItem(r) PROVE AnswersKept
  BY <1>19 DEF InsertItem, Insert, Goto, books, entry, local, delivery, sync
<1>20. ASSUME NEW r \in Runs, SyncEnds(r) PROVE AnswersKept
  BY <1>20 DEF SyncEnds, Goto, books, entry, local, delivery, sync
<1>21. ASSUME NEW r \in Runs, NEW i \in Items, Answer(r, i) PROVE AnswersKept
  BY <1>21 DEF Answer, Leased, Goto, books, entry, local, delivery, sync
<1>22. ASSUME NEW r \in Runs, NEW i \in Items, Defer(r, i) PROVE AnswersKept
  BY <1>22 DEF Defer, HandBack, Leased, Spent, books, entry, local, delivery, sync
<1>23. ASSUME NEW r \in Runs, Finished(r) PROVE AnswersKept
  BY <1>23 DEF Finished, Goto, books, entry, local, delivery, sync
<1>24. ASSUME NEW r \in Runs, NEW i \in Items, Release(r, i) PROVE AnswersKept
  BY <1>24 DEF Release, HandBack, Leased, Spent, books, entry, local, delivery, sync
<1>25. ASSUME NEW r \in Runs, Released(r) PROVE AnswersKept
  BY <1>25 DEF Released, Goto, books, entry, local, delivery, sync
<1>26. ASSUME NEW r \in Runs, Crash(r) PROVE AnswersKept
  BY <1>26 DEF Crash, Goto, books, entry, local, delivery, sync
<1>27. ASSUME NEW i \in Items, Expire(i) PROVE AnswersKept
  BY <1>27 DEF Expire, books, entry, local, delivery, sync
<1>28. ASSUME NEW i \in Items, CoolOff(i) PROVE AnswersKept
  BY <1>28 DEF CoolOff, books, entry, local, delivery, sync
<1>29. CASE UNCHANGED vars
  BY <1>29 DEF vars, books, entry, local, delivery, sync
<1> QED
  BY <1>1, <1>2, <1>3, <1>4, <1>5, <1>6, <1>7, <1>8, <1>9, <1>10, <1>11,
     <1>12, <1>13, <1>14, <1>15, <1>16, <1>17, <1>18, <1>19, <1>20, <1>21,
     <1>22, <1>23, <1>24, <1>25, <1>26, <1>27, <1>28, <1>29 DEF Next, Advance,
     Deliver

\* An answer that was delivered is never taken back (record_asked,
\* mark_not_reasked).
THEOREM AnswersAreFinal == Spec => AnswerIsFinal
<1>1. ASSUME Inv, [Next]_vars PROVE [AnswersKept]_vars
  BY <1>1, AnswerStep
<1> QED
  BY <1>1, Invariance, PTL DEF Spec, AnswerIsFinal, AnswersKept
=============================================================================
