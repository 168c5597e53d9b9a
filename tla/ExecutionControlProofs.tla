----------------------- MODULE ExecutionControlProofs -----------------------
(* Theorems about ExecutionControl, for any requests, keys, orders, prices *)
(* and times to live, and about the gate behind its Evaluate, for every    *)
(* book, quote, snapshot and proposal.                                     *)
EXTENDS ExecutionControl, PolicyGate, SumTheorems

-----------------------------------------------------------------------------
(* The inductive invariant.                                                *)

\* Before its admission a request has stored no intent.
NotYetStored ==
    \A r \in Requests : pc[r] \in {"submit", "evaluate", "admit"} => status[r] = "NONE"

\* Idempotency keys are unique among stored intents.
UniqueKey ==
    \A i, j \in Requests :
        status[i] # "NONE" /\ status[j] # "NONE" /\ key[i] = key[j] => i = j

\* A request only ever executes an intent stored under its own key.
TargetIsOwn ==
    \A r \in Requests :
        /\ key[target[r]] = key[r]
        /\ pc[r] \in {"preflight", "execute", "confirm"} => status[target[r]] # "NONE"

\* What the sweep is about to expire is stored and past its expiry.
DueIsPast == \A i \in due : status[i] # "NONE" /\ ttl[i] = -1

\* An intent that can still be executed holds the slot of its ticker.
LiveHoldsSlot ==
    \A i \in Requests : Live(i) => slot[Ticker(i)] = [status |-> "ACTIVE", owner |-> i]

\* Up to its admission a request's target is its own intent.
AdmitTarget ==
    \A r \in Requests : pc[r] \in {"submit", "evaluate", "admit"} => target[r] = r

\* The terms of a BUY: an amount the policy approved.
BuyTerms ==
    \A r \in Requests :
        (pc[r] = "admit" \/ status[r] # "NONE") /\ IsBuy(r) => notional[r] \in Notionals

\* The shares a SELL read before its transaction are the whole position for
\* as long as its intent can be executed.
SellsWhole ==
    \A r \in Requests :
        pc[r] = "execute" /\ ~IsBuy(target[r]) =>
            /\ qty[r] > 0
            /\ Live(target[r]) => qty[r] = pos[Ticker(target[r])]

\* A COMMITTED reply belongs to the one request whose transaction filled.
CommittedOnce ==
    /\ \A r \in Requests : reply[r].status = "COMMITTED" =>
                               pc[r] = "done" /\ target[r] \in fills
    /\ \A r, s \in Requests :
         /\ reply[r].status = "COMMITTED" /\ reply[s].status = "COMMITTED"
         /\ target[r] = target[s]
         => r = s

StoreInv == /\ NotYetStored
            /\ UniqueKey
            /\ DueIsPast
            /\ BuyTerms
            /\ ConsumedIsSettled
            /\ NoStrandedReservation
            /\ LiveHoldsSlot

CallerInv == /\ AdmitTarget
             /\ TargetIsOwn
             /\ SellsWhole
             /\ CommittedOnce
             /\ HonestSuccess

IInv == TypeOK /\ StoreInv /\ CallerInv /\ NoOverdraft

-----------------------------------------------------------------------------
(* Steps, sorted by what they write.                                       *)

\* Neither the account nor the control plane changes.
Quiet == UNCHANGED <<account, control, terms, key, sweeper>>

\* The steps of a request that only move the request.
QuietRequest(r) ==
    \/ Submit(r) \/ AdmitDuplicate(r) \/ AdmitAborted(r) \/ Lookup(r)
    \/ Preflight(r) \/ ExecuteReject(r) \/ ExecuteAbort(r) \/ Confirm(r) \/ Crash(r)

\* They leave everything else alone.
LEMMA QuietRequestIsQuiet == ASSUME NEW r \in Requests, QuietRequest(r) PROVE Quiet
BY DEF QuietRequest, Quiet, Submit, AdmitDuplicate, AdmitAborted, Lookup, Preflight,
       ExecuteReject, ExecuteAbort, Confirm, Crash

\* No quiet step takes a request back to admission.
LEMMA QuietMovesOn ==
    ASSUME TypeOK, NEW r \in Requests, QuietRequest(r)
    PROVE  \A q \in Requests :
             /\ pc'[q] \in {"submit", "evaluate", "admit"} =>
                    pc[q] \in {"submit", "evaluate", "admit"}
             /\ pc'[q] = "admit" => pc[q] = "admit"
BY DEF TypeOK, QuietRequest, Submit, AdmitDuplicate, AdmitAborted, Lookup, Preflight,
       ExecuteReject, ExecuteAbort, Confirm, Crash, Answer, Goto

\* Every step is a quiet one, or one of those that write.
LEMMA StepCases ==
    ASSUME [Next]_vars
    PROVE  \/ \E r \in Requests : QuietRequest(r)
           \/ \E r \in Requests : Evaluate(r)
           \/ \E r \in Requests : AdmitNew(r)
           \/ \E r \in Requests : ExecuteCommit(r)
           \/ SweepIntents \/ SweepReservations \/ SweepSlots \/ SweepCrash
           \/ Tick
           \/ UNCHANGED vars
BY DEF Next, Request, Sweep, QuietRequest

-----------------------------------------------------------------------------
(* Preservation.                                                           *)

\* The ranges of the amounts.
LEMMA AmountTypes ==
    /\ \A n \in Notionals : n \in Nat
    /\ \A n \in Lots : n \in Nat
    /\ \A n \in Holdings : n \in Nat
    /\ Cash \in Nat /\ Fee \in Nat
    /\ \A p \in Prices : p \in Nat /\ p >= Fee
BY AmountAssumption

\* A reserved amount is a natural number.
LEMMA ReservedType == \A n \in Notionals \cup {0} : n \in Nat
BY AmountTypes

\* The initial states satisfy the inductive invariant.
LEMMA InitIInv == Init => IInv
<1> SUFFICES ASSUME Init PROVE IInv
  OBVIOUS
<1>1. TypeOK
  <2>1. cash \in Int /\ pos \in [Tickers -> Nat] /\ lots \in [Tickers -> Nat]
    <3>1. pos \in [Tickers -> Nat] /\ cash \in Int
      BY AmountTypes DEF Init
    <3>2. lots \in [Tickers -> Holdings]
      BY DEF Init
    <3>3. lots \in [Tickers -> Nat]
      BY <3>2, AmountTypes
    <3> QED
      BY <3>1, <3>3
  <2>2. /\ status \in [Requests -> IntentStatuses]
        /\ resv \in [Requests -> ReservationStatuses]
        /\ notional \in [Requests -> Notionals \cup {0}]
    BY DEF Init, IntentStatuses, ReservationStatuses
  <2>3. ttl \in [Requests -> -1 .. TTL]
    BY TimeAssumption DEF Init
  <2>4. /\ slot \in [Tickers -> [status : SlotStatuses, owner : Requests \cup {NoIntent}]]
        /\ \A t \in Tickers : slot[t].owner = NoIntent => slot[t].status = "NONE"
    BY DEF Init, SlotStatuses
  <2>5. /\ pc \in [Requests -> Steps] /\ target \in [Requests -> Requests]
        /\ qty \in [Requests -> Nat]
    BY DEF Init, Steps
  <2>6. reply \in [Requests -> [status : ResultStatuses, traded : BOOLEAN]]
    BY DEF Init, ResultStatuses
  <2> QED
    BY <2>1, <2>2, <2>3, <2>4, <2>5, <2>6 DEF Init, TypeOK
<1>2. StoreInv
  BY DEF Init, StoreInv, NotYetStored, UniqueKey, DueIsPast, BuyTerms, ConsumedIsSettled,
         NoStrandedReservation, LiveHoldsSlot, Live
<1>3. CallerInv
  BY DEF Init, CallerInv, AdmitTarget, TargetIsOwn, SellsWhole, CommittedOnce, HonestSuccess
<1>4. NoOverdraft
  BY AmountAssumption DEF Init, NoOverdraft
<1> QED
  BY <1>1, <1>2, <1>3, <1>4 DEF IInv

\* The types of what only requests move.
CallerTypeOK ==
    /\ pc \in [Requests -> Steps]
    /\ target \in [Requests -> Requests]
    /\ qty \in [Requests -> Nat]
    /\ reply \in [Requests -> [status : ResultStatuses, traded : BOOLEAN]]

\* An answer keeps them.
LEMMA AnswerType ==
    ASSUME CallerTypeOK, NEW r \in Requests, NEW s \in ResultStatuses, NEW b \in BOOLEAN,
           Answer(r, s, b)
    PROVE  CallerTypeOK'
BY DEF CallerTypeOK, Answer, Steps

\* Moving to another step keeps them.
LEMMA GotoType ==
    ASSUME CallerTypeOK, NEW r \in Requests, NEW step \in Steps, Goto(r, step)
    PROVE  CallerTypeOK'
BY DEF CallerTypeOK, Goto

\* Every quiet step keeps them.
LEMMA QuietType ==
    ASSUME TypeOK, NEW r \in Requests, QuietRequest(r)
    PROVE  CallerTypeOK'
<1> CallerTypeOK
  BY DEF TypeOK, CallerTypeOK
<1> USE AnswerType, GotoType DEF ResultStatuses, Steps
<1>1. CASE Submit(r)
  BY <1>1 DEF Submit
<1>2. CASE AdmitDuplicate(r)
  <2>1. CASE \E i \in Requests : pc' = [pc EXCEPT ![r] = "preflight"]
                                 /\ target' = [target EXCEPT ![r] = i]
                                 /\ UNCHANGED <<qty, reply>>
    BY <2>1 DEF CallerTypeOK
  <2> QED
    BY <1>2, <2>1 DEF AdmitDuplicate, IntentsWithKey
<1>3. CASE AdmitAborted(r)
  BY <1>3 DEF AdmitAborted
<1>4. CASE Lookup(r)
  BY <1>4 DEF Lookup
<1>5. CASE Preflight(r)
  <2>1. CASE pc' = [pc EXCEPT ![r] = "execute"]
             /\ (UNCHANGED qty \/ qty' = [qty EXCEPT ![r] = pos[Ticker(target[r])]])
             /\ UNCHANGED <<target, reply>>
    <3>1. pos[Ticker(target[r])] \in Nat
      BY OrderAssumption DEF TypeOK, Ticker
    <3> QED
      BY <2>1, <3>1 DEF CallerTypeOK
  <2>2. (target[r] \in fills) \in BOOLEAN
    OBVIOUS
  <2>3. CASE Answer(r, "ALREADY_PROCESSED", target[r] \in fills)
    BY <2>2, <2>3
  <2>4. CASE Answer(r, "NOT_EXECUTED", FALSE)
    BY <2>4
  <2> QED
    BY <1>5, <2>1, <2>3, <2>4 DEF Preflight
<1>6. CASE ExecuteReject(r)
  <2>1. (target[r] \in fills) \in BOOLEAN
    OBVIOUS
  <2>2. CASE Answer(r, "ALREADY_PROCESSED", target[r] \in fills)
    BY <2>1, <2>2
  <2>3. CASE Answer(r, "NOT_EXECUTED", FALSE)
    BY <2>3
  <2> QED
    BY <1>6, <2>2, <2>3 DEF ExecuteReject
<1>7. CASE ExecuteAbort(r)
  BY <1>7 DEF ExecuteAbort
<1>8. CASE Confirm(r)
  BY <1>8 DEF Confirm
<1>9. CASE Crash(r)
  BY <1>9 DEF Crash
<1> QED
  BY <1>1, <1>2, <1>3, <1>4, <1>5, <1>6, <1>7, <1>8, <1>9 DEF QuietRequest

\* Every step preserves the types.
LEMMA TypeStep == TypeOK /\ StoreInv /\ [Next]_vars => TypeOK'
<1> SUFFICES ASSUME TypeOK, StoreInv, [Next]_vars PROVE TypeOK'
  OBVIOUS
<1> USE OrderAssumption, AmountAssumption, NoIntentAssumption, TimeAssumption
<1>0. CallerTypeOK
  BY DEF TypeOK, CallerTypeOK
<1>1. CASE \E r \in Requests : QuietRequest(r)
  BY <1>1, QuietType, QuietRequestIsQuiet
  DEF Quiet, TypeOK, CallerTypeOK, account, control, terms, sweeper
<1>2. CASE \E r \in Requests : Evaluate(r)
  <2>1. PICK r \in Requests : Evaluate(r)
    BY <1>2
  <2>2. CallerTypeOK'
    BY <1>0, <2>1, AnswerType, GotoType DEF Evaluate, ResultStatuses, Steps
  <2>3. notional' \in [Requests -> Notionals \cup {0}] /\ ttl' \in [Requests -> -1 .. TTL]
    <3>1. CASE UNCHANGED terms
      BY <3>1 DEF TypeOK, terms
    <3>2. CASE /\ \E n \in Notionals \cup {0} : notional' = [notional EXCEPT ![r] = n]
               /\ ttl' = [ttl EXCEPT ![r] = TTL]
      BY <3>2 DEF TypeOK
    <3> QED
      BY <2>1, <3>1, <3>2 DEF Evaluate
  <2> QED
    BY <2>1, <2>2, <2>3 DEF Evaluate, TypeOK, CallerTypeOK, account, control, sweeper
<1>3. CASE \E r \in Requests : AdmitNew(r)
  <2>1. PICK r \in Requests : AdmitNew(r)
    BY <1>3
  <2>2. CallerTypeOK'
    BY <1>0, <2>1, GotoType DEF AdmitNew, Steps
  <2>3. status' \in [Requests -> IntentStatuses] /\ resv' \in [Requests -> ReservationStatuses]
    BY <2>1 DEF AdmitNew, ReleasedFor, TypeOK, IntentStatuses, ReservationStatuses
  <2>4. /\ slot' \in [Tickers -> [status : SlotStatuses, owner : Requests \cup {NoIntent}]]
        /\ \A t \in Tickers : slot'[t].owner = NoIntent => slot'[t].status = "NONE"
    BY <2>1 DEF AdmitNew, TypeOK, SlotStatuses
  <2> QED
    BY <2>1, <2>2, <2>3, <2>4 DEF AdmitNew, TypeOK, CallerTypeOK, account, terms, sweeper
<1>4. CASE \E r \in Requests : ExecuteCommit(r)
  <2>1. PICK r \in Requests : ExecuteCommit(r)
    BY <1>4
  <2> DEFINE i == target[r]
  <2>2. i \in Requests /\ Ticker(i) \in Tickers /\ qty[r] \in Nat
    BY DEF TypeOK, Ticker
  <2>3. CallerTypeOK'
    BY <1>0, <2>1, AnswerType, GotoType DEF ExecuteCommit, ResultStatuses, Steps
  <2>4. /\ status' \in [Requests -> IntentStatuses] /\ resv' \in [Requests -> ReservationStatuses]
        /\ fills' \subseteq Requests /\ outbox' \subseteq Requests
    BY <2>1, <2>2 DEF ExecuteCommit, TypeOK, IntentStatuses, ReservationStatuses
  <2>5. /\ slot' \in [Tickers -> [status : SlotStatuses, owner : Requests \cup {NoIntent}]]
        /\ \A t \in Tickers : slot'[t].owner = NoIntent => slot'[t].status = "NONE"
    BY <2>1, <2>2 DEF ExecuteCommit, Authorised, TypeOK, SlotStatuses
  <2>6. cash' \in Int /\ pos' \in [Tickers -> Nat] /\ lots' \in [Tickers -> Nat]
    <3>1. CASE IsBuy(i)
      <4>1. BookBuy(i)
        BY <2>1, <3>1 DEF ExecuteCommit
      <4>2. PICK q \in Lots :
               /\ cash' = cash - (notional[i] + Fee)
               /\ pos' = [pos EXCEPT ![Ticker(i)] = @ + q]
               /\ lots' = [lots EXCEPT ![Ticker(i)] = @ + q]
        BY <4>1 DEF BookBuy
      <4>3. q \in Nat /\ notional[i] \in Nat
        <5>1. notional[i] \in Notionals \cup {0}
          BY <2>2 DEF TypeOK
        <5>2. notional[i] \in Nat
          BY <5>1, ReservedType
        <5>3. q \in Nat
          BY AmountTypes
        <5> QED
          BY <5>2, <5>3
      <4>4. cash' \in Int
        BY <4>2, <4>3 DEF TypeOK
      <4>5. pos' \in [Tickers -> Nat] /\ lots' \in [Tickers -> Nat]
        BY <2>2, <4>2, <4>3 DEF TypeOK
      <4> QED
        BY <4>4, <4>5
    <3>2. CASE ~IsBuy(i)
      <4>1. qty[r] <= pos[Ticker(i)] /\ qty[r] <= lots[Ticker(i)]
        BY <2>1, <3>2 DEF ExecuteCommit, Funded
      <4>2. BookSell(i, qty[r])
        BY <2>1, <3>2 DEF ExecuteCommit
      <4>3. pos' \in [Tickers -> Nat] /\ lots' \in [Tickers -> Nat]
        BY <2>2, <4>1, <4>2 DEF BookSell, TypeOK
      <4>4. cash' \in Int
        BY <2>2, <4>2 DEF BookSell, TypeOK
      <4> QED
        BY <4>3, <4>4
    <3> QED
      BY <3>1, <3>2
  <2> QED
    BY <2>1, <2>3, <2>4, <2>5, <2>6 DEF ExecuteCommit, TypeOK, CallerTypeOK, terms, sweeper
<1>5. CASE SweepIntents
  BY <1>5 DEF SweepIntents, TypeOK, account, terms, caller, IntentStatuses
<1>6. CASE SweepReservations
  BY <1>6 DEF SweepReservations, TypeOK, account, terms, caller, ReservationStatuses
<1>7. CASE SweepSlots
  <2>1. /\ slot' \in [Tickers -> [status : SlotStatuses, owner : Requests \cup {NoIntent}]]
        /\ \A t \in Tickers : slot'[t].owner = NoIntent => slot'[t].status = "NONE"
    <3>1. ASSUME NEW t \in Tickers
          PROVE  /\ slot'[t] \in [status : SlotStatuses, owner : Requests \cup {NoIntent}]
                 /\ slot'[t].owner = NoIntent => slot'[t].status = "NONE"
      <4>1. CASE slot'[t] = slot[t]
        BY <4>1 DEF TypeOK
      <4>2. CASE slot[t].owner \in due /\ slot'[t] = [slot[t] EXCEPT !.status = "EXPIRED"]
        BY <4>2 DEF TypeOK, SlotStatuses
      <4> QED
        BY <1>7, <4>1, <4>2 DEF SweepSlots
    <3>2. DOMAIN slot' = Tickers /\ slot' = [t \in Tickers |-> slot'[t]]
      BY <1>7 DEF SweepSlots
    <3> QED
      BY <3>1, <3>2
  <2> QED
    BY <1>7, <2>1 DEF SweepSlots, TypeOK, account, terms, caller
<1>8. CASE SweepCrash
  BY <1>8 DEF SweepCrash, TypeOK, account, control, terms, caller
<1>9. CASE Tick
  BY <1>9 DEF Tick, TypeOK, account, control, caller, sweeper
<1>10. CASE UNCHANGED vars
  BY <1>10 DEF vars, TypeOK, account, control, terms, caller, sweeper
<1> QED
  BY <1>1, <1>2, <1>3, <1>4, <1>5, <1>6, <1>7, <1>8, <1>9, <1>10, StepCases

\* What the admission transaction writes.
LEMMA AdmitWrites ==
    ASSUME TypeOK, NEW r \in Requests, AdmitNew(r)
    PROVE  /\ pc[r] = "admit" /\ status[r] = "NONE"
           /\ \A i \in Requests : status[i] # "NONE" => key[i] # key[r]
           /\ status'[r] = "CREATED" /\ resv'[r] = "ACTIVE"
           /\ \A i \in Requests \ {r} :
                /\ status'[i] = IF i \in Superseded(r) /\ status[i] = "CREATED"
                                THEN "SUPERSEDED" ELSE status[i]
                /\ resv'[i] = IF i \in Superseded(r) /\ resv[i] = "ACTIVE"
                              THEN "RELEASED" ELSE resv[i]
           /\ slot' = [slot EXCEPT ![Ticker(r)] = [status |-> "ACTIVE", owner |-> r]]
           /\ \A q \in Requests : q # r => pc'[q] = pc[q]
           /\ pc'[r] \in {"preflight", "lookup"}
           /\ UNCHANGED <<account, terms, key, sweeper, target, qty, reply>>
BY DEF AdmitNew, IntentsWithKey, ReleasedFor, Goto, TypeOK

\* What the execution transaction writes, apart from the account.
LEMMA CommitWrites ==
    ASSUME TypeOK, NEW r \in Requests, ExecuteCommit(r)
    PROVE  /\ pc[r] = "execute" /\ target[r] \in Requests
           /\ Live(target[r]) /\ Authorised(target[r]) /\ Funded(target[r], qty[r])
           /\ status' = [status EXCEPT ![target[r]] = "CONSUMED"]
           /\ resv' = [resv EXCEPT ![target[r]] = "CONSUMED"]
           /\ slot' = [slot EXCEPT ![Ticker(target[r])].status = "CONSUMED"]
           /\ fills' = fills \cup {target[r]}
           /\ outbox' = outbox \cup {target[r]}
           /\ \A q \in Requests : q # r => pc'[q] = pc[q] /\ reply'[q] = reply[q]
           /\ \/ pc'[r] = "done" /\ reply'[r] = [status |-> "COMMITTED", traded |-> TRUE]
              \/ pc'[r] = "confirm" /\ reply'[r] = reply[r]
           /\ UNCHANGED <<terms, key, sweeper, target, qty>>
BY DEF ExecuteCommit, Answer, Goto, TypeOK

\* What evaluation writes.
LEMMA EvaluateWrites ==
    ASSUME TypeOK, NEW r \in Requests, Evaluate(r)
    PROVE  /\ pc[r] = "evaluate"
           /\ \A i \in Requests \ {r} :
                /\ pc'[i] = pc[i] /\ reply'[i] = reply[i]
                /\ ttl'[i] = ttl[i] /\ notional'[i] = notional[i]
           /\ \/ pc'[r] = "done" /\ UNCHANGED terms
              \/ pc'[r] = "admit" /\ (IsBuy(r) => notional'[r] \in Notionals)
           /\ reply'[r] # reply[r] => reply'[r] = [status |-> "NOT_EXECUTED", traded |-> FALSE]
           /\ UNCHANGED <<account, control, key, sweeper, target, qty>>
<1>1. CASE Answer(r, "NOT_EXECUTED", FALSE) /\ UNCHANGED terms
  BY <1>1 DEF Evaluate, Answer, TypeOK, terms
<1>2. CASE /\ \E n \in Notionals \cup {0} :
                /\ IF IsBuy(r) THEN n \in Notionals /\ n <= cash
                               ELSE n = 0 /\ pos[Ticker(r)] > 0
                /\ notional' = [notional EXCEPT ![r] = n]
           /\ ttl' = [ttl EXCEPT ![r] = TTL]
           /\ Goto(r, "admit")
  BY <1>2 DEF Evaluate, Goto, TypeOK
<1> QED
  BY <1>1, <1>2 DEF Evaluate

\* Every step preserves that intents are stored by admission only.
LEMMA NotYetStoredStep == TypeOK /\ StoreInv /\ [Next]_vars => NotYetStored'
<1> SUFFICES ASSUME TypeOK, StoreInv, [Next]_vars PROVE NotYetStored'
  OBVIOUS
<1> USE DEF StoreInv, NotYetStored
<1>1. CASE \E r \in Requests : QuietRequest(r)
  BY <1>1, QuietRequestIsQuiet, QuietMovesOn DEF Quiet, control
<1>2. CASE \E r \in Requests : Evaluate(r)
  BY <1>2, EvaluateWrites DEF control
<1>3. CASE \E r \in Requests : AdmitNew(r)
  BY <1>3, AdmitWrites
<1>4. CASE \E r \in Requests : ExecuteCommit(r)
  <2>1. PICK r \in Requests : ExecuteCommit(r)
    BY <1>4
  <2>2. status[target[r]] = "CREATED"
    BY <2>1, CommitWrites DEF Live
  <2> QED
    BY <2>1, <2>2, CommitWrites DEF TypeOK
<1>5. CASE SweepIntents
  BY <1>5 DEF SweepIntents, caller
<1>6. CASE SweepReservations \/ SweepSlots \/ SweepCrash \/ Tick \/ UNCHANGED vars
  BY <1>6 DEF SweepReservations, SweepSlots, SweepCrash, Tick, vars, control, caller
<1> QED
  BY <1>1, <1>2, <1>3, <1>4, <1>5, <1>6, StepCases

\* Every step preserves the uniqueness of stored keys.
LEMMA UniqueKeyStep == TypeOK /\ StoreInv /\ [Next]_vars => UniqueKey'
<1> SUFFICES ASSUME TypeOK, StoreInv, [Next]_vars PROVE UniqueKey'
  OBVIOUS
<1> USE DEF StoreInv, UniqueKey
<1>1. CASE \E r \in Requests : QuietRequest(r)
  BY <1>1, QuietRequestIsQuiet DEF Quiet, control
<1>2. CASE \E r \in Requests : Evaluate(r)
  BY <1>2, EvaluateWrites DEF control
<1>3. CASE \E r \in Requests : AdmitNew(r)
  BY <1>3, AdmitWrites
<1>4. CASE \E r \in Requests : ExecuteCommit(r)
  BY <1>4, CommitWrites DEF TypeOK, Live
<1>5. CASE SweepIntents
  BY <1>5 DEF SweepIntents
<1>6. CASE SweepReservations \/ SweepSlots \/ SweepCrash \/ Tick \/ UNCHANGED vars
  BY <1>6 DEF SweepReservations, SweepSlots, SweepCrash, Tick, vars, control
<1> QED
  BY <1>1, <1>2, <1>3, <1>4, <1>5, <1>6, StepCases

\* Every step preserves that the sweep only follows stored, expired intents.
LEMMA DueStep == TypeOK /\ StoreInv /\ [Next]_vars => DueIsPast'
<1> SUFFICES ASSUME TypeOK, StoreInv, [Next]_vars PROVE DueIsPast'
  OBVIOUS
<1> USE DEF StoreInv, DueIsPast
<1>0. due \subseteq Requests
  BY DEF TypeOK
<1>1. CASE \E r \in Requests : QuietRequest(r)
  BY <1>1, QuietRequestIsQuiet DEF Quiet, control, terms, sweeper
<1>2. CASE \E r \in Requests : Evaluate(r)
  BY <1>0, <1>2, EvaluateWrites DEF control, sweeper, NotYetStored
<1>3. CASE \E r \in Requests : AdmitNew(r)
  BY <1>0, <1>3, AdmitWrites DEF terms, sweeper
<1>4. CASE \E r \in Requests : ExecuteCommit(r)
  BY <1>0, <1>4, CommitWrites DEF TypeOK, terms, sweeper
<1>5. CASE SweepIntents
  BY <1>5, TimeAssumption DEF SweepIntents, terms, TypeOK
<1>6. CASE SweepReservations \/ SweepSlots \/ SweepCrash \/ UNCHANGED vars
  BY <1>6 DEF SweepReservations, SweepSlots, SweepCrash, vars, control, terms, sweeper
<1>7. CASE Tick
  BY <1>0, <1>7 DEF Tick, control, sweeper
<1> QED
  BY <1>1, <1>2, <1>3, <1>4, <1>5, <1>6, <1>7, StepCases

\* Every step preserves the approved terms of stored BUY intents.
LEMMA TermsStep == TypeOK /\ StoreInv /\ [Next]_vars => BuyTerms'
<1> SUFFICES ASSUME TypeOK, StoreInv, [Next]_vars PROVE BuyTerms'
  OBVIOUS
<1> USE DEF StoreInv, BuyTerms, IsBuy
<1>1. CASE \E r \in Requests : QuietRequest(r)
  BY <1>1, QuietRequestIsQuiet, QuietMovesOn DEF Quiet, control, terms
<1>2. CASE \E r \in Requests : Evaluate(r)
  BY <1>2, EvaluateWrites DEF control, NotYetStored, terms
<1>3. CASE \E r \in Requests : AdmitNew(r)
  BY <1>3, AdmitWrites DEF terms
<1>4. CASE \E r \in Requests : ExecuteCommit(r)
  BY <1>4, CommitWrites DEF TypeOK, Live, terms
<1>5. CASE SweepIntents
  BY <1>5 DEF SweepIntents, terms, caller
<1>6. CASE SweepReservations \/ SweepSlots \/ SweepCrash \/ Tick \/ UNCHANGED vars
  BY <1>6 DEF SweepReservations, SweepSlots, SweepCrash, Tick, vars, control, terms, caller
<1> QED
  BY <1>1, <1>2, <1>3, <1>4, <1>5, <1>6, StepCases

\* Every step preserves that consumption, settlement and the outbox agree.
LEMMA SettledStep == TypeOK /\ StoreInv /\ [Next]_vars => ConsumedIsSettled'
<1> SUFFICES ASSUME TypeOK, StoreInv, [Next]_vars PROVE ConsumedIsSettled'
  OBVIOUS
<1> USE DEF StoreInv, ConsumedIsSettled
<1>1. CASE \E r \in Requests : QuietRequest(r)
  BY <1>1, QuietRequestIsQuiet DEF Quiet, control, account
<1>2. CASE \E r \in Requests : Evaluate(r)
  BY <1>2, EvaluateWrites DEF control, account
<1>3. CASE \E r \in Requests : AdmitNew(r)
  BY <1>3, AdmitWrites DEF account
<1>4. CASE \E r \in Requests : ExecuteCommit(r)
  BY <1>4, CommitWrites DEF TypeOK
<1>5. CASE SweepIntents
  BY <1>5 DEF SweepIntents, account
<1>6. CASE SweepReservations
  BY <1>6 DEF SweepReservations, account
<1>7. CASE SweepSlots \/ SweepCrash \/ Tick \/ UNCHANGED vars
  BY <1>7 DEF SweepSlots, SweepCrash, Tick, vars, control, account
<1> QED
  BY <1>1, <1>2, <1>3, <1>4, <1>5, <1>6, <1>7, StepCases

\* Every step preserves that no reservation is stranded.
LEMMA StrandedStep == TypeOK /\ StoreInv /\ [Next]_vars => NoStrandedReservation'
<1> SUFFICES ASSUME TypeOK, StoreInv, [Next]_vars PROVE NoStrandedReservation'
  OBVIOUS
<1> USE DEF StoreInv, NoStrandedReservation
<1>1. CASE \E r \in Requests : QuietRequest(r)
  BY <1>1, QuietRequestIsQuiet DEF Quiet, control, terms
<1>2. CASE \E r \in Requests : Evaluate(r)
  BY <1>2, EvaluateWrites DEF control, NotYetStored
<1>3. CASE \E r \in Requests : AdmitNew(r)
  BY <1>3, AdmitWrites DEF terms
<1>4. CASE \E r \in Requests : ExecuteCommit(r)
  BY <1>4, CommitWrites DEF TypeOK, terms
<1>5. CASE SweepIntents
  BY <1>5 DEF SweepIntents, terms
<1>6. CASE SweepReservations
  BY <1>6 DEF SweepReservations, terms
<1>7. CASE SweepSlots \/ SweepCrash \/ UNCHANGED vars
  BY <1>7 DEF SweepSlots, SweepCrash, vars, control, terms
<1>8. CASE Tick
  BY <1>8 DEF Tick, control, TypeOK
<1> QED
  BY <1>1, <1>2, <1>3, <1>4, <1>5, <1>6, <1>7, <1>8, StepCases

\* Every step preserves that a live intent holds the slot of its ticker.
LEMMA SlotStep == TypeOK /\ StoreInv /\ [Next]_vars => LiveHoldsSlot'
<1> SUFFICES ASSUME TypeOK, StoreInv, [Next]_vars, NEW i \in Requests, Live(i)'
             PROVE  slot'[Ticker(i)'] = [status |-> "ACTIVE", owner |-> i]
  BY DEF LiveHoldsSlot
<1>a. status'[i] = "CREATED" /\ ttl'[i] > 0
  BY DEF Live
<1>b. /\ \A j \in Requests : Live(j) => slot[Ticker(j)] = [status |-> "ACTIVE", owner |-> j]
      /\ \A j \in Requests : Ticker(j) \in Tickers
  BY OrderAssumption DEF TypeOK, StoreInv, LiveHoldsSlot, Ticker
<1>c. UNCHANGED key => Ticker(i)' = Ticker(i)
  BY DEF Ticker
<1>1. CASE \E r \in Requests : QuietRequest(r)
  BY <1>1, <1>a, <1>b, <1>c, QuietRequestIsQuiet DEF Quiet, control, terms, Live
<1>2. CASE \E r \in Requests : Evaluate(r)
  BY <1>2, <1>a, <1>b, <1>c, EvaluateWrites DEF control, StoreInv, NotYetStored, Live
<1>3. CASE \E r \in Requests : AdmitNew(r)
  <2>1. PICK r \in Requests : AdmitNew(r)
    BY <1>3
  <2>2. UNCHANGED <<ttl, key>>
    BY <2>1, AdmitWrites DEF terms
  <2>3. slot' = [slot EXCEPT ![Ticker(r)] = [status |-> "ACTIVE", owner |-> r]]
    BY <2>1, AdmitWrites
  <2>4. CASE i = r
    BY <1>b, <1>c, <2>2, <2>3, <2>4 DEF TypeOK
  <2>5. CASE i # r
    <3>1. status[i] = "CREATED" /\ i \notin Superseded(r)
      BY <1>a, <2>1, <2>5, AdmitWrites
    <3>2. Live(i)
      BY <1>a, <2>2, <3>1 DEF Live
    <3>3. Ticker(i) # Ticker(r)
      <4>1. slot[Ticker(i)].status = "ACTIVE" /\ slot[Ticker(i)].owner = i
        <5>1. slot[Ticker(i)] = [status |-> "ACTIVE", owner |-> i]
          BY <1>b, <3>2
        <5> QED
          BY <5>1
      <4>2. ttl[i] > 0
        BY <3>2 DEF Live
      <4> QED
        BY <3>1, <4>1, <4>2 DEF Superseded, SlotHeld
    <3> QED
      BY <1>b, <1>c, <2>2, <2>3, <3>2, <3>3 DEF TypeOK
  <2> QED
    BY <2>4, <2>5
<1>4. CASE \E r \in Requests : ExecuteCommit(r)
  <2>1. PICK r \in Requests : ExecuteCommit(r)
    BY <1>4
  <2>2. UNCHANGED <<ttl, key>>
    BY <2>1, CommitWrites DEF terms
  <2>3. /\ status' = [status EXCEPT ![target[r]] = "CONSUMED"]
        /\ slot' = [slot EXCEPT ![Ticker(target[r])].status = "CONSUMED"]
        /\ slot[Ticker(target[r])] = [status |-> "ACTIVE", owner |-> target[r]]
    BY <2>1, CommitWrites DEF Authorised
  <2>4. i # target[r] /\ Live(i)
    BY <1>a, <2>2, <2>3 DEF TypeOK, Live
  <2>5. Ticker(i) # Ticker(target[r])
    <3>1. slot[Ticker(i)] = [status |-> "ACTIVE", owner |-> i]
      BY <1>b, <2>4
    <3>2. slot[Ticker(i)].owner = i
      BY <3>1
    <3>3. slot[Ticker(target[r])].owner = target[r]
      BY <2>3
    <3> QED
      BY <2>4, <3>2, <3>3
  <2> QED
    BY <1>b, <1>c, <2>2, <2>3, <2>4, <2>5 DEF TypeOK
<1>5. CASE SweepIntents
  BY <1>5, <1>a, <1>b, <1>c DEF SweepIntents, terms, Live
<1>6. CASE SweepSlots
  <2>1. Live(i) /\ i \notin due
    BY <1>6, <1>a DEF SweepSlots, terms, Live, StoreInv, DueIsPast
  <2> QED
    BY <1>6, <1>b, <1>c, <2>1 DEF SweepSlots
<1>7. CASE SweepReservations \/ SweepCrash \/ UNCHANGED vars
  BY <1>7, <1>a, <1>b, <1>c DEF SweepReservations, SweepCrash, vars, control, terms, Live
<1>8. CASE Tick
  <2>1. ttl[i] \in Int /\ UNCHANGED <<status, slot, key>>
    BY <1>8 DEF Tick, control, TypeOK
  <2>2. ttl[i] > 0
    BY <1>8, <1>a, <2>1 DEF Tick
  <2> QED
    BY <1>a, <1>b, <1>c, <2>1, <2>2 DEF Live
<1> QED
  BY <1>1, <1>2, <1>3, <1>4, <1>5, <1>6, <1>7, <1>8, StepCases

\* Every step preserves what the stored documents promise each other.
LEMMA StoreStep == TypeOK /\ StoreInv /\ [Next]_vars => StoreInv'
BY NotYetStoredStep, UniqueKeyStep, DueStep, TermsStep, SettledStep, StrandedStep, SlotStep
DEF StoreInv

\* A quiet request keeps its key's intent as its target.
LEMMA QuietTarget ==
    ASSUME TypeOK, NEW r \in Requests, QuietRequest(r), TargetIsOwn
    PROVE  /\ \A q \in Requests \ {r} : pc'[q] = pc[q] /\ target'[q] = target[q]
                                       /\ qty'[q] = qty[q] /\ reply'[q] = reply[q]
           /\ key[target'[r]] = key[r]
           /\ pc'[r] \in {"preflight", "execute", "confirm"} => status[target'[r]] # "NONE"
           /\ pc'[r] = "execute" => target'[r] = target[r]
<1>1. CASE Submit(r)
  BY <1>1 DEF Submit, Answer, Goto, TypeOK, TargetIsOwn
<1>2. CASE AdmitDuplicate(r)
  BY <1>2 DEF AdmitDuplicate, IntentsWithKey, Answer, TypeOK, TargetIsOwn
<1>3. CASE AdmitAborted(r) \/ Lookup(r) \/ Confirm(r) \/ Crash(r)
  BY <1>3 DEF AdmitAborted, Lookup, Confirm, Crash, Answer, Goto, TypeOK, TargetIsOwn
<1>4. CASE Preflight(r)
  BY <1>4 DEF Preflight, Answer, TypeOK, TargetIsOwn
<1>5. CASE ExecuteReject(r) \/ ExecuteAbort(r)
  BY <1>5 DEF ExecuteReject, ExecuteAbort, Answer, Goto, TypeOK, TargetIsOwn
<1> QED
  BY <1>1, <1>2, <1>3, <1>4, <1>5 DEF QuietRequest

\* What an answer answers.
LEMMA AnswerReplies ==
    ASSUME TypeOK, NEW r \in Requests, NEW s, NEW b, Answer(r, s, b)
    PROVE  reply'[r] = [status |-> s, traded |-> b]
BY DEF Answer, TypeOK

\* An answer that promises a trade only if the target has one.
LEMMA AnswerOnFill ==
    ASSUME TypeOK, NEW r \in Requests, NEW s, s # "COMMITTED", NEW P \in BOOLEAN,
           Answer(r, s, P)
    PROVE  reply'[r].status # "COMMITTED" /\ (reply'[r].traded => P)
<1>1. reply'[r] = [status |-> s, traded |-> P]
  BY AnswerReplies
<1>2. reply'[r].status = s /\ reply'[r].traded = P
  BY <1>1
<1> QED
  BY <1>2

\* A quiet request promises a trade only if there is one under its key.
LEMMA QuietReply ==
    ASSUME TypeOK, StoreInv, CallerInv, NEW r \in Requests, QuietRequest(r)
    PROVE  /\ reply'[r] # reply[r] => reply'[r].status # "COMMITTED"
           /\ reply'[r] # reply[r] /\ reply'[r].traded => \E i \in fills : key[i] = key[r]
           /\ pc[r] # "done"
<1>0. \A i \in Requests : status[i] = "CONSUMED" <=> i \in fills
  BY DEF StoreInv, ConsumedIsSettled
<1>1. key[target[r]] = key[r] /\ target[r] \in Requests
  BY DEF CallerInv, TargetIsOwn, TypeOK
<1>deny. Answer(r, "NOT_EXECUTED", FALSE) =>
           reply'[r].status # "COMMITTED" /\ ~reply'[r].traded
  <2> SUFFICES ASSUME Answer(r, "NOT_EXECUTED", FALSE)
               PROVE  reply'[r].status # "COMMITTED" /\ ~reply'[r].traded
    OBVIOUS
  <2>1. reply'[r] = [status |-> "NOT_EXECUTED", traded |-> FALSE]
    BY AnswerReplies
  <2> QED
    BY <2>1
<1>fill. Answer(r, "ALREADY_PROCESSED", target[r] \in fills) =>
           /\ reply'[r].status # "COMMITTED"
           /\ reply'[r].traded => \E i \in fills : key[i] = key[r]
  <2> SUFFICES ASSUME Answer(r, "ALREADY_PROCESSED", target[r] \in fills)
               PROVE  /\ reply'[r].status # "COMMITTED"
                      /\ reply'[r].traded => \E i \in fills : key[i] = key[r]
    OBVIOUS
  <2>1. (target[r] \in fills) \in BOOLEAN
    OBVIOUS
  <2>2. reply'[r].status # "COMMITTED" /\ (reply'[r].traded => target[r] \in fills)
    BY <2>1, AnswerOnFill
  <2> QED
    BY <1>1, <2>2
<1>2. CASE Submit(r)
  BY <1>0, <1>2 DEF Submit, IntentsWithKey, Answer, Goto, TypeOK
<1>3. CASE AdmitDuplicate(r)
  BY <1>0, <1>3 DEF AdmitDuplicate, IntentsWithKey, Answer, TypeOK
<1>4. CASE Lookup(r)
  <2>1. pc[r] # "done"
    BY <1>4 DEF Lookup
  <2>2. CASE Answer(r, "NOT_EXECUTED", FALSE)
    BY <1>deny, <2>1, <2>2
  <2>3. CASE Answer(r, "ALREADY_PROCESSED", IntentsWithKey(key[r]) \cap fills # {})
    <3>1. (IntentsWithKey(key[r]) \cap fills # {}) \in BOOLEAN
      OBVIOUS
    <3>2. /\ reply'[r].status # "COMMITTED"
          /\ reply'[r].traded => IntentsWithKey(key[r]) \cap fills # {}
      BY <2>3, <3>1, AnswerOnFill
    <3>3. IntentsWithKey(key[r]) \cap fills # {} => \E i \in fills : key[i] = key[r]
      BY DEF IntentsWithKey
    <3> QED
      BY <2>1, <3>2, <3>3
  <2> QED
    BY <1>4, <2>2, <2>3 DEF Lookup
<1>5. CASE Preflight(r)
  <2>1. pc[r] # "done"
    BY <1>5 DEF Preflight
  <2>2. CASE Answer(r, "NOT_EXECUTED", FALSE)
    BY <1>deny, <2>1, <2>2
  <2>3. CASE Answer(r, "ALREADY_PROCESSED", target[r] \in fills)
    BY <1>fill, <2>1, <2>3
  <2>4. CASE UNCHANGED reply
    BY <2>1, <2>4
  <2> QED
    BY <1>5, <2>2, <2>3, <2>4 DEF Preflight
<1>6. CASE ExecuteReject(r)
  <2>1. pc[r] # "done"
    BY <1>6 DEF ExecuteReject
  <2>2. CASE Answer(r, "NOT_EXECUTED", FALSE)
    BY <1>deny, <2>1, <2>2
  <2>3. CASE Answer(r, "ALREADY_PROCESSED", target[r] \in fills)
    BY <1>fill, <2>1, <2>3
  <2> QED
    BY <1>6, <2>2, <2>3 DEF ExecuteReject
<1>7. CASE Confirm(r)
  BY <1>1, <1>7 DEF Confirm, Answer, TypeOK
<1>8. CASE AdmitAborted(r) \/ ExecuteAbort(r) \/ Crash(r)
  BY <1>8 DEF AdmitAborted, ExecuteAbort, Crash, Answer, Goto, TypeOK
<1> QED
  BY <1>2, <1>3, <1>4, <1>5, <1>6, <1>7, <1>8 DEF QuietRequest

\* Every step preserves that a request executes an intent of its own key.
LEMMA TargetStep == TypeOK /\ StoreInv /\ CallerInv /\ [Next]_vars => TargetIsOwn'
<1> SUFFICES ASSUME TypeOK, StoreInv, CallerInv, [Next]_vars PROVE TargetIsOwn'
  OBVIOUS
<1>0. TargetIsOwn
  BY DEF CallerInv
<1>1. CASE \E r \in Requests : QuietRequest(r)
  <2>1. PICK r \in Requests : QuietRequest(r)
    BY <1>1
  <2>2. UNCHANGED <<key, status>>
    BY <2>1, QuietRequestIsQuiet DEF Quiet, control
  <2> QED
    BY <1>0, <2>1, <2>2, QuietTarget DEF TargetIsOwn
<1>2. CASE \E r \in Requests : Evaluate(r)
  BY <1>0, <1>2, EvaluateWrites DEF control, TargetIsOwn
<1>3. CASE \E r \in Requests : AdmitNew(r)
  <2>1. PICK r \in Requests : AdmitNew(r)
    BY <1>3
  <2>2. /\ \A i \in Requests : status'[i] = "NONE" => status[i] = "NONE"
        /\ UNCHANGED <<key, target>>
    BY <2>1, AdmitWrites
  <2>3. \A q \in Requests \ {r} : pc'[q] = pc[q]
    BY <2>1, AdmitWrites
  <2>4. status'[target[r]] # "NONE"
    BY <2>1, AdmitWrites DEF CallerInv, AdmitTarget, TypeOK
  <2> QED
    BY <1>0, <2>2, <2>3, <2>4 DEF TargetIsOwn, TypeOK
<1>4. CASE \E r \in Requests : ExecuteCommit(r)
  BY <1>0, <1>4, CommitWrites DEF TypeOK, TargetIsOwn
<1>5. CASE SweepIntents
  BY <1>0, <1>5 DEF SweepIntents, caller, TargetIsOwn, TypeOK
<1>6. CASE SweepReservations \/ SweepSlots \/ SweepCrash \/ Tick \/ UNCHANGED vars
  BY <1>0, <1>6 DEF SweepReservations, SweepSlots, SweepCrash, Tick, vars, control, caller,
                    TargetIsOwn
<1> QED
  BY <1>1, <1>2, <1>3, <1>4, <1>5, <1>6, StepCases

\* Every step preserves that requests not yet admitted target themselves.
LEMMA AdmitTargetStep == TypeOK /\ CallerInv /\ [Next]_vars => AdmitTarget'
<1> SUFFICES ASSUME TypeOK, CallerInv, [Next]_vars PROVE AdmitTarget'
  OBVIOUS
<1>0. AdmitTarget /\ TargetIsOwn
  BY DEF CallerInv
<1>1. CASE \E r \in Requests : QuietRequest(r)
  <2>1. PICK r \in Requests : QuietRequest(r)
    BY <1>1
  <2>2. pc'[r] \in {"submit", "evaluate", "admit"} => target'[r] = target[r]
    <3>1. CASE Submit(r) \/ AdmitAborted(r) \/ Lookup(r) \/ Confirm(r) \/ Crash(r)
      BY <3>1 DEF Submit, AdmitAborted, Lookup, Confirm, Crash, Answer, Goto, TypeOK
    <3>2. CASE AdmitDuplicate(r)
      BY <3>2 DEF AdmitDuplicate, Answer, TypeOK
    <3>3. CASE Preflight(r) \/ ExecuteReject(r) \/ ExecuteAbort(r)
      BY <3>3 DEF Preflight, ExecuteReject, ExecuteAbort, Answer, Goto, TypeOK
    <3> QED
      BY <2>1, <3>1, <3>2, <3>3 DEF QuietRequest
  <2> QED
    BY <1>0, <2>1, <2>2, QuietTarget, QuietMovesOn DEF AdmitTarget
<1>2. CASE \E r \in Requests : Evaluate(r)
  BY <1>0, <1>2, EvaluateWrites DEF AdmitTarget
<1>3. CASE \E r \in Requests : AdmitNew(r)
  BY <1>0, <1>3, AdmitWrites DEF AdmitTarget
<1>4. CASE \E r \in Requests : ExecuteCommit(r)
  BY <1>0, <1>4, CommitWrites DEF AdmitTarget
<1>5. CASE SweepIntents \/ SweepReservations \/ SweepSlots \/ SweepCrash \/ Tick \/ UNCHANGED vars
  BY <1>0, <1>5 DEF SweepIntents, SweepReservations, SweepSlots, SweepCrash, Tick, vars,
                    caller, AdmitTarget
<1> QED
  BY <1>1, <1>2, <1>3, <1>4, <1>5, StepCases

\* Every step preserves that replies are honest, and COMMITTED given once.
LEMMA ReplyStep ==
    TypeOK /\ StoreInv /\ CallerInv /\ [Next]_vars => CommittedOnce' /\ HonestSuccess'
<1> SUFFICES ASSUME TypeOK, StoreInv, CallerInv, [Next]_vars
             PROVE  CommittedOnce' /\ HonestSuccess'
  OBVIOUS
<1>0. CommittedOnce /\ HonestSuccess
  BY DEF CallerInv
<1>1. CASE \E r \in Requests : QuietRequest(r)
  <2>1. PICK r \in Requests : QuietRequest(r)
    BY <1>1
  <2>2. UNCHANGED <<fills, key>>
    BY <2>1, QuietRequestIsQuiet DEF Quiet, account
  <2>3. \A q \in Requests \ {r} : pc'[q] = pc[q] /\ target'[q] = target[q] /\ reply'[q] = reply[q]
    BY <2>1, QuietTarget DEF CallerInv
  <2>4. /\ reply'[r] # reply[r] => reply'[r].status # "COMMITTED"
        /\ reply'[r] # reply[r] /\ reply'[r].traded => \E i \in fills : key[i] = key[r]
        /\ pc[r] # "done"
    BY <2>1, QuietReply
  <2>5. reply'[r].status # "COMMITTED"
    BY <1>0, <2>4 DEF CommittedOnce
  <2>6. CommittedOnce'
    BY <1>0, <2>2, <2>3, <2>5 DEF CommittedOnce
  <2>7. HonestSuccess'
    BY <1>0, <2>2, <2>3, <2>4 DEF HonestSuccess
  <2> QED
    BY <2>6, <2>7
<1>2. CASE \E r \in Requests : Evaluate(r)
  <2>1. PICK r \in Requests : Evaluate(r)
    BY <1>2
  <2>2. UNCHANGED <<fills, key, target>>
    BY <2>1, EvaluateWrites DEF account
  <2>3. \A q \in Requests \ {r} : pc'[q] = pc[q] /\ reply'[q] = reply[q]
    BY <2>1, EvaluateWrites
  <2>4. pc[r] # "done" /\ (reply'[r] # reply[r] =>
            reply'[r] = [status |-> "NOT_EXECUTED", traded |-> FALSE])
    BY <2>1, EvaluateWrites
  <2>5. reply'[r].status # "COMMITTED" /\ (reply'[r].traded => reply[r].traded)
    <3>1. CASE reply'[r] = reply[r]
      BY <1>0, <2>4, <3>1 DEF CommittedOnce
    <3>2. CASE reply'[r] = [status |-> "NOT_EXECUTED", traded |-> FALSE]
      BY <3>2
    <3> QED
      BY <2>4, <3>1, <3>2
  <2>6. CommittedOnce'
    BY <1>0, <2>2, <2>3, <2>5 DEF CommittedOnce
  <2>7. HonestSuccess'
    BY <1>0, <2>2, <2>3, <2>5 DEF HonestSuccess
  <2> QED
    BY <2>6, <2>7
<1>3. CASE \E r \in Requests : AdmitNew(r)
  <2>1. PICK r \in Requests : AdmitNew(r)
    BY <1>3
  <2>2. UNCHANGED <<fills, key, target, reply>>
    BY <2>1, AdmitWrites DEF account
  <2>3. pc[r] = "admit" /\ \A q \in Requests \ {r} : pc'[q] = pc[q]
    BY <2>1, AdmitWrites
  <2> QED
    BY <1>0, <2>2, <2>3 DEF CommittedOnce, HonestSuccess
<1>4. CASE \E r \in Requests : ExecuteCommit(r)
  <2>1. PICK r \in Requests : ExecuteCommit(r)
    BY <1>4
  <2>2. fills' = fills \cup {target[r]} /\ UNCHANGED <<key, target>>
    BY <2>1, CommitWrites
  <2>3. \A q \in Requests \ {r} : pc'[q] = pc[q] /\ reply'[q] = reply[q]
    BY <2>1, CommitWrites
  <2>4. target[r] \in Requests /\ key[target[r]] = key[r] /\ target[r] \notin fills
    BY <2>1, CommitWrites DEF Live, StoreInv, ConsumedIsSettled, CallerInv, TargetIsOwn
  <2>5. pc[r] = "execute"
    BY <2>1, CommitWrites
  <2>6. reply'[r].status = "COMMITTED" => pc'[r] = "done"
    <3>1. CASE reply'[r] = reply[r]
      BY <1>0, <2>5, <3>1 DEF CommittedOnce
    <3>2. CASE pc'[r] = "done"
      BY <3>2
    <3> QED
      BY <2>1, <3>1, <3>2, CommitWrites
  <2>7. CommittedOnce'
    BY <1>0, <2>2, <2>3, <2>4, <2>6 DEF CommittedOnce
  <2>8. HonestSuccess'
    BY <1>0, <2>2, <2>3, <2>4 DEF HonestSuccess
  <2> QED
    BY <2>7, <2>8
<1>5. CASE SweepIntents \/ SweepReservations \/ SweepSlots \/ SweepCrash \/ Tick \/ UNCHANGED vars
  BY <1>0, <1>5 DEF SweepIntents, SweepReservations, SweepSlots, SweepCrash, Tick, vars,
                    account, caller, CommittedOnce, HonestSuccess
<1> QED
  BY <1>1, <1>2, <1>3, <1>4, <1>5, StepCases

\* What the execution transaction does to the position.
LEMMA CommitPosition ==
    ASSUME TypeOK, NEW r \in Requests, ExecuteCommit(r)
    PROVE  \A t \in Tickers : t # Ticker(target[r]) => pos'[t] = pos[t]
<1>1. CASE IsBuy(target[r])
  BY <1>1 DEF ExecuteCommit, BookBuy, TypeOK
<1>2. CASE ~IsBuy(target[r])
  BY <1>2 DEF ExecuteCommit, BookSell, TypeOK
<1> QED
  BY <1>1, <1>2

\* A request arrives at execution with the position it is about to sell.
LEMMA QuietToExecute ==
    ASSUME TypeOK, NEW r \in Requests, QuietRequest(r), pc'[r] = "execute", ~IsBuy(target[r])
    PROVE  /\ qty'[r] = pos[Ticker(target[r])]
           /\ qty'[r] > 0
<1>1. CASE Submit(r) \/ AdmitAborted(r) \/ Lookup(r) \/ Confirm(r) \/ Crash(r)
  BY <1>1 DEF Submit, AdmitAborted, Lookup, Confirm, Crash, Answer, Goto, TypeOK
<1>2. CASE AdmitDuplicate(r)
  BY <1>2 DEF AdmitDuplicate, Answer, TypeOK
<1>3. CASE Preflight(r)
  BY <1>3 DEF Preflight, Answer, TypeOK
<1>4. CASE ExecuteReject(r) \/ ExecuteAbort(r)
  BY <1>4 DEF ExecuteReject, ExecuteAbort, Answer, Goto, TypeOK
<1> QED
  BY <1>1, <1>2, <1>3, <1>4 DEF QuietRequest

\* Two live intents on one ticker are the same intent.
LEMMA LiveIsAlone ==
    ASSUME TypeOK, StoreInv, NEW i \in Requests, NEW j \in Requests, Live(i), Live(j),
           Ticker(i) = Ticker(j)
    PROVE  i = j
<1>1. /\ slot[Ticker(i)] = [status |-> "ACTIVE", owner |-> i]
      /\ slot[Ticker(j)] = [status |-> "ACTIVE", owner |-> j]
  BY DEF StoreInv, LiveHoldsSlot
<1>2. slot[Ticker(i)].owner = i /\ slot[Ticker(j)].owner = j
  BY <1>1
<1> QED
  BY <1>2

\* Every step preserves that a SELL about to execute sells the position.
LEMMA SellStep == TypeOK /\ StoreInv /\ CallerInv /\ [Next]_vars => SellsWhole'
<1> SUFFICES ASSUME TypeOK, StoreInv, CallerInv, [Next]_vars,
                    NEW q \in Requests, pc'[q] = "execute", ~IsBuy(target[q])'
             PROVE  /\ qty'[q] > 0
                    /\ Live(target[q])' => qty'[q] = pos'[Ticker(target[q])']
  BY DEF SellsWhole
<1> DEFINE i == target[q]
<1>0. /\ pc[q] = "execute" /\ ~IsBuy(i) => qty[q] > 0 /\ (Live(i) => qty[q] = pos[Ticker(i)])
      /\ pc[q] = "execute" => status[i] # "NONE"
  BY DEF CallerInv, SellsWhole, TargetIsOwn
<1>t. i \in Requests /\ Ticker(i) \in Tickers
  BY OrderAssumption DEF TypeOK, Ticker
<1>s. ASSUME UNCHANGED <<key, target>>
      PROVE  ~IsBuy(i) /\ Ticker(target[q])' = Ticker(i)
  BY <1>s DEF IsBuy, Ticker
<1>k. ASSUME UNCHANGED <<key, target, qty, pos>>, pc[q] = "execute",
             status'[i] = "CREATED" => status[i] = "CREATED", ttl'[i] > 0 => ttl[i] > 0
      PROVE  qty'[q] > 0 /\ (Live(target[q])' => qty'[q] = pos'[Ticker(target[q])'])
  BY <1>0, <1>s, <1>k DEF Live
<1>1. CASE \E r \in Requests : QuietRequest(r)
  <2>1. PICK r \in Requests : QuietRequest(r)
    BY <1>1
  <2>2. UNCHANGED <<pos, status, ttl, key>>
    BY <2>1, QuietRequestIsQuiet DEF Quiet, account, control, terms
  <2>3. CASE q # r
    <3>1. pc[q] = "execute" /\ target'[q] = i /\ qty'[q] = qty[q]
      BY <2>1, <2>3, QuietTarget DEF CallerInv
    <3> QED
      BY <1>0, <2>2, <3>1 DEF IsBuy, Ticker, Live
  <2>4. CASE q = r
    <3>1. target'[q] = i
      BY <2>1, <2>4, QuietTarget DEF CallerInv
    <3>2. ~IsBuy(i) /\ Ticker(target[q])' = Ticker(i)
      BY <2>2, <3>1 DEF IsBuy, Ticker
    <3> QED
      BY <2>1, <2>2, <2>4, <3>2, QuietToExecute
  <2> QED
    BY <2>3, <2>4
<1>2. CASE \E r \in Requests : Evaluate(r)
  <2>1. PICK r \in Requests : Evaluate(r)
    BY <1>2
  <2>2. UNCHANGED <<pos, status, key, target, qty>>
    BY <2>1, EvaluateWrites DEF account, control
  <2>3. q # r /\ pc[q] = "execute"
    BY <2>1, EvaluateWrites
  <2>4. i # r
    BY <1>0, <2>1, <2>3, EvaluateWrites DEF StoreInv, NotYetStored
  <2>5. ttl'[i] = ttl[i]
    BY <1>t, <2>1, <2>4, EvaluateWrites
  <2> QED
    BY <1>k, <2>2, <2>3, <2>5
<1>3. CASE \E r \in Requests : AdmitNew(r)
  <2>1. PICK r \in Requests : AdmitNew(r)
    BY <1>3
  <2>2. UNCHANGED <<pos, ttl, key, target, qty>>
    BY <2>1, AdmitWrites DEF account, terms
  <2>3. q # r /\ pc[q] = "execute"
    BY <2>1, AdmitWrites
  <2>4. i # r
    BY <1>0, <2>1, <2>3, AdmitWrites
  <2>5. status'[i] = "CREATED" => status[i] = "CREATED"
    BY <1>t, <2>1, <2>4, AdmitWrites
  <2> QED
    BY <1>k, <2>2, <2>3, <2>5
<1>4. CASE \E r \in Requests : ExecuteCommit(r)
  <2>1. PICK r \in Requests : ExecuteCommit(r)
    BY <1>4
  <2>2. UNCHANGED <<ttl, key, target, qty>>
    BY <2>1, CommitWrites DEF terms
  <2>3. q # r /\ pc[q] = "execute"
    BY <2>1, CommitWrites
  <2>4. /\ status' = [status EXCEPT ![target[r]] = "CONSUMED"]
        /\ Live(target[r]) /\ target[r] \in Requests
    BY <2>1, CommitWrites
  <2>5. qty[q] > 0 /\ (Live(i) => qty[q] = pos[Ticker(i)])
    BY <1>0, <1>s, <2>2, <2>3
  <2>6. ASSUME Live(target[q])' PROVE pos'[Ticker(i)] = pos[Ticker(i)] /\ Live(i)
    <3>1. i # target[r] /\ Live(i)
      BY <1>t, <2>2, <2>4, <2>6 DEF Live, TypeOK
    <3>2. Ticker(i) # Ticker(target[r])
      BY <1>t, <2>4, <3>1, LiveIsAlone
    <3> QED
      BY <1>t, <2>1, <3>1, <3>2, CommitPosition
  <2> QED
    BY <1>s, <2>2, <2>5, <2>6
<1>5. CASE SweepIntents
  BY <1>5, <1>k, <1>t DEF SweepIntents, account, terms, caller
<1>6. CASE SweepReservations \/ SweepSlots \/ SweepCrash \/ UNCHANGED vars
  BY <1>6, <1>k DEF SweepReservations, SweepSlots, SweepCrash, vars, account, control, terms, caller
<1>7. CASE Tick
  <2>1. UNCHANGED <<key, target, qty, pos, pc, status>>
    BY <1>7 DEF Tick, account, control, caller
  <2>2. ttl'[i] > 0 => ttl[i] > 0
    BY <1>7, <1>t DEF Tick, TypeOK
  <2> QED
    BY <1>k, <2>1, <2>2
<1> QED
  BY <1>1, <1>2, <1>3, <1>4, <1>5, <1>6, <1>7, StepCases

\* A sale brings in at least one price per share sold.
LEMMA SaleCoversPrice ==
    ASSUME NEW q \in Nat, NEW p \in Nat, q > 0 PROVE q * p >= p
<1>1. q * p = (q - 1) * p + p
  OBVIOUS
<1>2. (q - 1) * p >= 0
  OBVIOUS
<1> QED
  BY <1>1, <1>2

\* Every step leaves the account with cash.
LEMMA CashStep == IInv /\ [Next]_vars => NoOverdraft'
<1> SUFFICES ASSUME IInv, [Next]_vars PROVE NoOverdraft'
  OBVIOUS
<1>0. TypeOK /\ cash >= 0 /\ cash \in Int /\ Fee \in Nat
  BY AmountTypes DEF IInv, NoOverdraft, TypeOK
<1>1. CASE \E r \in Requests : ExecuteCommit(r)
  <2>1. PICK r \in Requests : ExecuteCommit(r)
    BY <1>1
  <2>2. target[r] \in Requests /\ pc[r] = "execute" /\ Funded(target[r], qty[r])
    BY <1>0, <2>1, CommitWrites
  <2>3. CASE IsBuy(target[r])
    <3>1. notional[target[r]] \in Nat
      BY <1>0, <2>2, ReservedType DEF TypeOK
    <3>2. notional[target[r]] + Fee <= cash
      BY <2>2, <2>3 DEF Funded
    <3>3. cash' = cash - (notional[target[r]] + Fee)
      BY <2>1, <2>3 DEF ExecuteCommit, BookBuy
    <3> QED
      BY <1>0, <3>1, <3>2, <3>3 DEF NoOverdraft
  <2>4. CASE ~IsBuy(target[r])
    <3>1. qty[r] \in Nat /\ qty[r] > 0
      BY <1>0, <2>2, <2>4 DEF IInv, CallerInv, SellsWhole, TypeOK
    <3>2. PICK p \in Prices : cash' = cash + qty[r] * p - Fee
      BY <2>1, <2>4 DEF ExecuteCommit, BookSell
    <3>3. p \in Nat /\ p >= Fee
      BY AmountTypes
    <3>4. qty[r] * p >= p /\ qty[r] * p \in Int
      BY <3>1, <3>3, SaleCoversPrice
    <3> QED
      BY <1>0, <3>2, <3>3, <3>4 DEF NoOverdraft
  <2> QED
    BY <2>3, <2>4
<1>2. CASE \E r \in Requests : QuietRequest(r)
  BY <1>0, <1>2, QuietRequestIsQuiet DEF Quiet, account, NoOverdraft
<1>3. CASE \E r \in Requests : Evaluate(r) \/ AdmitNew(r)
  BY <1>0, <1>3 DEF Evaluate, AdmitNew, account, NoOverdraft
<1>4. CASE SweepIntents \/ SweepReservations \/ SweepSlots \/ SweepCrash \/ Tick \/ UNCHANGED vars
  BY <1>0, <1>4 DEF SweepIntents, SweepReservations, SweepSlots, SweepCrash, Tick, vars,
                    account, NoOverdraft
<1> QED
  BY <1>1, <1>2, <1>3, <1>4, StepCases

\* The inductive invariant holds in every reachable state.
THEOREM ControlInvariant == Spec => []IInv
<1>1. IInv /\ [Next]_vars => IInv'
  BY TypeStep, StoreStep, AdmitTargetStep, TargetStep, SellStep, ReplyStep, CashStep
  DEF IInv, CallerInv
<1> QED
  BY InitIInv, <1>1, PTL DEF Spec

-----------------------------------------------------------------------------
(* The reserved cash.  Stored intents are finitely many, however many      *)
(* requests there are, so what is reserved has a sum.                      *)

Stored == {i \in Requests : status[i] # "NONE"}

\* The reservations ReservedNotional counts, before and after a step.
Counted == {i \in Requests : resv[i] = "ACTIVE" /\ ttl[i] > 0}

\* A SELL has no amount.
SellTerms == \A r \in Requests : ~IsBuy(r) => notional[r] = 0

ReservedInv == IsFiniteSet(Stored) /\ SellTerms /\ ReservedWithinCash

\* What is counted is stored, has a sum, and so has every part of it.
LEMMA CountedType ==
    ASSUME IInv, ReservedInv, NEW S \in SUBSET Counted
    PROVE  /\ IsFiniteSet(S) /\ S \in SUBSET Requests
           /\ \A i \in S : notional[i] \in Nat
           /\ SumFunctionOnSet(notional, S) \in Nat
           /\ SumFunctionOnSet(notional, S) <= ReservedNotional(resv)
           /\ ReservedNotional(resv) \in Nat
<1>1. \A i \in Counted : i \in Stored
  BY DEF Counted, Stored, IInv, StoreInv, NoStrandedReservation
<1>2. IsFiniteSet(Counted) /\ IsFiniteSet(S)
  BY <1>1, FS_Subset DEF ReservedInv
<1>3. \A i \in Counted : notional[i] \in Nat
  BY ReservedType DEF Counted, IInv, TypeOK
<1> QED
  BY <1>2, <1>3, SumNat, SumSubset DEF ReservedNotional, Counted

\* The fills are finitely many, and what they cost in fees is an amount.
LEMMA FillsType ==
    ASSUME IInv, ReservedInv
    PROVE  /\ IsFiniteSet(fills) /\ Cardinality(fills) \in Nat
           /\ Fee * Cardinality(fills) \in Nat
<1>1. fills \subseteq Stored
  BY DEF Stored, IInv, TypeOK, StoreInv, ConsumedIsSettled
<1>2. IsFiniteSet(fills) /\ Cardinality(fills) \in Nat
  BY <1>1, FS_Subset, FS_CardinalityType DEF ReservedInv
<1> QED
  BY <1>2, AmountTypes

\* A step that reserves nothing and trades nothing keeps the bound.
LEMMA ReservedNoMore ==
    ASSUME IInv, ReservedInv, UNCHANGED <<cash, fills>>, Counted' \subseteq Counted,
           \A i \in Counted' : notional'[i] = notional[i]
    PROVE  ReservedWithinCash'
<1>1. ReservedNotional(resv)' = SumFunctionOnSet(notional', Counted')
  BY DEF ReservedNotional, Counted
<1>2. /\ IsFiniteSet(Counted') /\ \A i \in Counted' : notional[i] \in Nat
      /\ SumFunctionOnSet(notional, Counted') <= ReservedNotional(resv)
  BY CountedType
<1>3. SumFunctionOnSet(notional', Counted') = SumFunctionOnSet(notional, Counted')
  BY <1>2, SumSame
<1> DEFINE before == ReservedNotional(resv)
           after == SumFunctionOnSet(notional, Counted')
           paid == Fee * Cardinality(fills)
<1>4. before \in Nat /\ after \in Nat /\ after <= before
  BY CountedType
<1>5. paid \in Nat /\ cash \in Int /\ before <= cash + paid
  BY FillsType DEF ReservedInv, ReservedWithinCash, IInv, TypeOK
<1>6. after <= cash + paid
  <2> HIDE DEF before, after, paid
  <2> QED
    BY <1>4, <1>5
<1> QED
  BY <1>1, <1>3, <1>6 DEF ReservedWithinCash

\* Admission finds the cash for what it reserves.
LEMMA ReservedAdmit ==
    ASSUME IInv, ReservedInv, NEW r \in Requests, AdmitNew(r)
    PROVE  ReservedWithinCash'
<1> DEFINE R == {i \in Requests : ReleasedFor(r)[i] = "ACTIVE" /\ ttl[i] > 0}
           kept == SumFunctionOnSet(notional, R)
           due_fees == Fee * Cardinality(fills)
<1>0. TypeOK /\ pc[r] = "admit" /\ status[r] = "NONE" /\ resv[r] # "ACTIVE"
  BY AdmitWrites DEF IInv, StoreInv, NoStrandedReservation
<1>1. R \in SUBSET Counted /\ r \notin R
  BY <1>0 DEF ReleasedFor, Counted
<1>2. /\ IsFiniteSet(R) /\ \A i \in R : notional[i] \in Nat
      /\ kept \in Nat /\ kept <= ReservedNotional(resv) /\ ReservedNotional(resv) \in Nat
  BY <1>1, CountedType
<1>3. notional[r] \in Nat /\ cash \in Int /\ due_fees \in Nat
  BY <1>0, ReservedType, FillsType DEF TypeOK
<1>4. Counted' = R \/ Counted' = R \cup {r}
  <2>1. /\ \A i \in Requests \ {r} : resv'[i] = ReleasedFor(r)[i]
        /\ UNCHANGED ttl
    BY <1>0 DEF AdmitNew, ReleasedFor, terms
  <2> QED
    BY <1>1, <2>1 DEF Counted
<1>5. SumFunctionOnSet(notional, R \cup {r}) = kept + notional[r]
  BY <1>1, <1>2, <1>3, SumAdd
<1>6. ReservedNotional(resv)' = kept \/ ReservedNotional(resv)' = kept + notional[r]
  <2>1. ReservedNotional(resv)' = SumFunctionOnSet(notional, Counted')
    BY DEF ReservedNotional, Counted, AdmitNew, terms
  <2> QED
    BY <1>4, <1>5, <2>1
<1>7. kept + notional[r] <= cash + due_fees
  <2>1. CASE IsBuy(r)
    <3>1. notional[r] + kept <= cash
      BY <2>1 DEF AdmitNew, CashGranted, ReservedNotional
    <3> HIDE DEF kept, due_fees
    <3> QED
      BY <1>2, <1>3, <3>1
  <2>2. CASE ~IsBuy(r)
    <3>1. notional[r] = 0
      BY <2>2 DEF ReservedInv, SellTerms
    <3>2. ReservedNotional(resv) <= cash + due_fees
      BY DEF ReservedInv, ReservedWithinCash
    <3> HIDE DEF kept, due_fees
    <3> QED
      BY <1>2, <1>3, <3>1, <3>2
  <2> QED
    BY <2>1, <2>2
<1>8. UNCHANGED <<cash, fills>>
  BY DEF AdmitNew, account
<1> DEFINE after == ReservedNotional(resv)'
<1>9. after <= cash + due_fees
  <2>1. after = kept \/ after = kept + notional[r]
    BY <1>6
  <2> HIDE DEF after, kept, due_fees
  <2> QED
    BY <1>2, <1>3, <1>7, <2>1
<1> QED
  BY <1>8, <1>9 DEF ReservedWithinCash

\* The arithmetic of an execution: a leaves the reservations, a and a fee the cash.
LEMMA SpentAsReserved ==
    ASSUME NEW before \in Int, NEW after \in Int, NEW a \in Int, NEW c \in Int, NEW d \in Int,
           NEW fee \in Int, NEW f \in Int, NEW g \in Int,
           before = a + after, before <= c + f, d + fee >= c - a, g = f + fee
    PROVE  after <= d + g
OBVIOUS

\* Execution spends what it had reserved, and a fee.
LEMMA ReservedCommit ==
    ASSUME IInv, ReservedInv, NEW r \in Requests, ExecuteCommit(r)
    PROVE  ReservedWithinCash'
<1> DEFINE i == target[r]
           n == Cardinality(fills)
           before == ReservedNotional(resv)
           after == ReservedNotional(resv)'
<1>0. /\ TypeOK /\ i \in Requests /\ Live(i) /\ resv[i] = "ACTIVE" /\ pc[r] = "execute"
      /\ resv' = [resv EXCEPT ![i] = "CONSUMED"] /\ UNCHANGED <<terms>>
      /\ fills' = fills \cup {i}
  BY CommitWrites DEF IInv, Authorised
<1>1. i \in Counted /\ Counted' = Counted \ {i}
  BY <1>0 DEF Counted, Live, TypeOK, terms
<1>2. before = notional[i] + after
  <2>1. before = SumFunctionOnSet(notional, Counted) /\ after = SumFunctionOnSet(notional, Counted \ {i})
    BY <1>0, <1>1 DEF ReservedNotional, Counted, terms
  <2>2. IsFiniteSet(Counted) /\ \A j \in Counted : notional[j] \in Int
    BY CountedType
  <2> QED
    BY <1>1, <2>1, <2>2, SumRemove
<1>3. after \in Nat /\ notional[i] \in Nat
  <2>1. after = SumFunctionOnSet(notional, Counted \ {i})
    BY <1>0, <1>1 DEF ReservedNotional, Counted, terms
  <2> QED
    BY <1>1, <2>1, CountedType
<1>4. n \in Nat /\ Cardinality(fills') = n + 1
  <2>1. i \notin fills
    BY <1>0 DEF IInv, StoreInv, ConsumedIsSettled, Live
  <2> QED
    BY <1>0, <2>1, FillsType, FS_AddElement
<1>5. Fee \in Nat /\ cash \in Int /\ Fee * (n + 1) = Fee * n + Fee /\ Fee * n \in Nat
  <2>1. Fee \in Nat /\ cash \in Int /\ n \in Nat
    BY <1>0, <1>4, AmountTypes DEF TypeOK
  <2> HIDE DEF n
  <2> QED
    BY <2>1
<1>6. before <= cash + Fee * n
  BY DEF ReservedInv, ReservedWithinCash
<1>7. /\ cash' \in Int
      /\ cash' + Fee >= cash - notional[i]
  <2>1. CASE IsBuy(i)
    <3>1. cash' = cash - (notional[i] + Fee)
      BY <2>1 DEF ExecuteCommit, BookBuy
    <3> HIDE DEF i
    <3> QED
      BY <1>3, <1>5, <3>1
  <2>2. CASE ~IsBuy(i)
    <3>1. PICK p \in Prices : cash' = cash + qty[r] * p - Fee
      BY <2>2 DEF ExecuteCommit, BookSell
    <3>2. p \in Nat /\ qty[r] \in Nat
      BY <1>0, AmountTypes DEF TypeOK
    <3>3. qty[r] * p \in Nat
      BY <3>2
    <3> HIDE DEF i
    <3> QED
      BY <1>3, <1>5, <3>1, <3>3
  <2> QED
    BY <2>1, <2>2
<1>8. after <= cash' + Fee * (n + 1)
  <2> DEFINE f == Fee * n
             g == Fee * (n + 1)
             a == notional[i]
  <2>1. /\ f \in Int /\ g \in Int /\ a \in Int /\ Fee \in Int /\ cash \in Int /\ cash' \in Int
        /\ before \in Int /\ after \in Int
        /\ before = a + after /\ before <= cash + f /\ cash' + Fee >= cash - a
        /\ g = f + Fee
    <3>1. f \in Nat /\ a \in Nat /\ after \in Nat /\ g = f + Fee
      BY <1>3, <1>5
    <3> HIDE DEF f, g, a, before, after
    <3> QED
      BY <1>2, <1>3, <1>5, <1>6, <1>7, <3>1 DEF f, a, g
  <2> QED
    BY <2>1, SpentAsReserved
<1> QED
  BY <1>4, <1>8 DEF ReservedWithinCash

\* At most one intent is stored in a step.
LEMMA StoredStep == IInv /\ IsFiniteSet(Stored) /\ [Next]_vars => IsFiniteSet(Stored')
<1> SUFFICES ASSUME IInv, IsFiniteSet(Stored), [Next]_vars PROVE IsFiniteSet(Stored')
  OBVIOUS
<1>0. TypeOK
  BY DEF IInv
<1>1. ASSUME Stored' \subseteq Stored PROVE IsFiniteSet(Stored')
  BY <1>1, FS_Subset
<1>2. CASE \E r \in Requests : AdmitNew(r)
  <2>1. PICK r \in Requests : AdmitNew(r)
    BY <1>2
  <2>2. Stored' \subseteq Stored \cup {r}
    BY <1>0, <2>1, AdmitWrites DEF Stored
  <2>3. IsFiniteSet(Stored \cup {r})
    BY FS_AddElement
  <2> QED
    BY <2>2, <2>3, FS_Subset
<1>3. CASE \E r \in Requests : QuietRequest(r)
  BY <1>1, <1>3, QuietRequestIsQuiet DEF Quiet, control, Stored
<1>4. CASE \E r \in Requests : Evaluate(r)
  BY <1>1, <1>4 DEF Evaluate, control, Stored
<1>5. CASE \E r \in Requests : ExecuteCommit(r)
  <2>1. PICK r \in Requests : ExecuteCommit(r)
    BY <1>5
  <2>2. status[target[r]] # "NONE" /\ status' = [status EXCEPT ![target[r]] = "CONSUMED"]
    BY <1>0, <2>1, CommitWrites DEF Live
  <2> QED
    BY <1>0, <1>1, <2>2 DEF Stored, TypeOK
<1>6. CASE SweepIntents
  BY <1>1, <1>6 DEF SweepIntents, Stored
<1>7. CASE SweepReservations \/ SweepSlots \/ SweepCrash \/ Tick \/ UNCHANGED vars
  BY <1>1, <1>7 DEF SweepReservations, SweepSlots, SweepCrash, Tick, vars, control, Stored
<1> QED
  BY <1>2, <1>3, <1>4, <1>5, <1>6, <1>7, StepCases

\* Only the evaluation of a BUY sets an amount.
LEMMA SellTermsStep == IInv /\ SellTerms /\ [Next]_vars => SellTerms'
<1> SUFFICES ASSUME IInv, SellTerms, [Next]_vars PROVE SellTerms'
  OBVIOUS
<1>0. TypeOK
  BY DEF IInv
<1>1. ASSUME UNCHANGED <<key, notional>> PROVE SellTerms'
  BY <1>1 DEF SellTerms, IsBuy
<1>2. CASE \E r \in Requests : Evaluate(r)
  <2>1. PICK r \in Requests : Evaluate(r)
    BY <1>2
  <2>2. UNCHANGED key
    BY <2>1 DEF Evaluate
  <2>3. \A q \in Requests : notional'[q] = notional[q] \/ (q = r /\ (~IsBuy(r) => notional'[q] = 0))
    BY <1>0, <2>1 DEF Evaluate, TypeOK, terms
  <2> QED
    BY <2>2, <2>3 DEF SellTerms, IsBuy
<1>3. CASE \E r \in Requests : QuietRequest(r)
  BY <1>1, <1>3, QuietRequestIsQuiet DEF Quiet, terms
<1>4. CASE \E r \in Requests : AdmitNew(r) \/ ExecuteCommit(r)
  BY <1>1, <1>4 DEF AdmitNew, ExecuteCommit, terms
<1>5. CASE SweepIntents \/ SweepReservations \/ SweepSlots \/ SweepCrash \/ Tick \/ UNCHANGED vars
  BY <1>1, <1>5 DEF SweepIntents, SweepReservations, SweepSlots, SweepCrash, Tick, vars, terms
<1> QED
  BY <1>2, <1>3, <1>4, <1>5, StepCases

\* Every step keeps what is reserved within the cash.
LEMMA ReservedStep == IInv /\ ReservedInv /\ [Next]_vars => ReservedInv'
<1> SUFFICES ASSUME IInv, ReservedInv, [Next]_vars PROVE ReservedWithinCash'
  BY StoredStep, SellTermsStep DEF ReservedInv
<1>0. TypeOK
  BY DEF IInv
<1>1. CASE \E r \in Requests : QuietRequest(r)
  BY <1>1, QuietRequestIsQuiet, ReservedNoMore DEF Quiet, account, control, terms, Counted
<1>2. CASE \E r \in Requests : Evaluate(r)
  <2>1. PICK r \in Requests : Evaluate(r)
    BY <1>2
  <2>2. /\ pc[r] = "evaluate" /\ UNCHANGED <<account, control>>
        /\ \A i \in Requests \ {r} : ttl'[i] = ttl[i] /\ notional'[i] = notional[i]
    BY <1>0, <2>1, EvaluateWrites
  <2>3. resv[r] # "ACTIVE"
    BY <2>2 DEF IInv, StoreInv, NotYetStored, NoStrandedReservation
  <2>4. Counted' = Counted /\ r \notin Counted
    BY <2>2, <2>3 DEF Counted, control
  <2> QED
    BY <2>2, <2>4, ReservedNoMore DEF account, Counted
<1>3. CASE \E r \in Requests : AdmitNew(r)
  BY <1>3, ReservedAdmit
<1>4. CASE \E r \in Requests : ExecuteCommit(r)
  BY <1>4, ReservedCommit
<1>5. CASE SweepIntents
  BY <1>5, ReservedNoMore DEF SweepIntents, account, terms, Counted
<1>6. CASE SweepReservations
  <2>1. Counted' \subseteq Counted
    BY <1>6 DEF SweepReservations, terms, Counted
  <2> QED
    BY <1>6, <2>1, ReservedNoMore DEF SweepReservations, account, terms
<1>7. CASE SweepSlots \/ SweepCrash \/ UNCHANGED vars
  BY <1>7, ReservedNoMore DEF SweepSlots, SweepCrash, vars, account, control, terms, Counted
<1>8. CASE Tick
  <2>1. Counted' \subseteq Counted
    BY <1>0, <1>8 DEF Tick, control, Counted, TypeOK
  <2> QED
    BY <1>8, <2>1, ReservedNoMore DEF Tick, account
<1> QED
  BY <1>1, <1>2, <1>3, <1>4, <1>5, <1>6, <1>7, <1>8, StepCases

\* Nothing is stored or reserved at first.
LEMMA ReservedInit == Init => ReservedInv
<1> SUFFICES ASSUME Init PROVE ReservedInv
  OBVIOUS
<1>1. Stored = {} /\ Counted = {} /\ fills = {} /\ SellTerms
  BY DEF Init, Stored, Counted, SellTerms
<1>2. ReservedNotional(resv) = 0
  BY <1>1, SumEmpty DEF ReservedNotional, Counted
<1>3. Cardinality(fills) = 0 /\ cash \in Nat /\ Fee \in Nat
  BY <1>1, FS_EmptySet, AmountTypes DEF Init
<1>4. ReservedWithinCash
  BY <1>2, <1>3 DEF ReservedWithinCash
<1> QED
  BY <1>1, <1>4, FS_EmptySet DEF ReservedInv

-----------------------------------------------------------------------------
(* Theorems.                                                               *)

\* Active, unexpired reservations never promise more than the cash and the
\* fees already paid, whatever interleaves (get_active_reserved_notional).
THEOREM ReservationsAreCovered == Spec => []ReservedWithinCash
<1>1. ReservedInv => ReservedWithinCash
  BY DEF ReservedInv
<1> QED
  BY <1>1, ReservedInit, ReservedStep, ControlInvariant, PTL DEF Spec

\* Type correctness.
THEOREM TypeCorrect == Spec => []TypeOK
BY ControlInvariant, PTL DEF IInv

\* The account is never overdrawn.
THEOREM NeverOverdrawn == Spec => []NoOverdraft
BY ControlInvariant, PTL DEF IInv

\* An idempotency key trades at most once and is told COMMITTED at most once.
LEMMA AtMostOneTrade == Spec => []OneTradePerKey
<1>1. IInv => OneTradePerKey
  <2> SUFFICES ASSUME IInv PROVE OneTradePerKey
    OBVIOUS
  <2>1. fills \subseteq Requests /\ \A i \in fills : status[i] # "NONE"
    BY DEF IInv, TypeOK, StoreInv, ConsumedIsSettled
  <2>2. \A i, j \in fills : key[i] = key[j] => i = j
    BY <2>1 DEF IInv, StoreInv, UniqueKey
  <2>3. \A r \in Requests :
          reply[r].status = "COMMITTED" => target[r] \in fills /\ key[target[r]] = key[r]
    BY DEF IInv, CallerInv, CommittedOnce, TargetIsOwn
  <2>4. ASSUME NEW r \in Requests, NEW s \in Requests, key[r] = key[s],
               reply[r].status = "COMMITTED", reply[s].status = "COMMITTED"
        PROVE  r = s
    <3>1. target[r] = target[s]
      BY <2>2, <2>3, <2>4
    <3> QED
      BY <2>4, <3>1 DEF IInv, CallerInv, CommittedOnce
  <2> QED
    BY <2>2, <2>4 DEF OneTradePerKey
<1> QED
  BY ControlInvariant, <1>1, PTL

\* Consumption, fill, reservation and outbox event go together.
THEOREM SettlementIsAtomic == Spec => []SettledTogether
BY ControlInvariant, PTL DEF IInv, StoreInv, SettledTogether

\* No two intents of one ticker can both be executed.
THEOREM TickersAreExclusive == Spec => []OneLivePerTicker
<1>1. IInv => OneLivePerTicker
  BY LiveIsAlone DEF IInv, OneLivePerTicker
<1> QED
  BY ControlInvariant, <1>1, PTL

\* No caller is told of a trade that was not made.
THEOREM AnswersAreTrue == Spec => []AnswersMatchTrades
BY ControlInvariant, AtMostOneTrade, PTL DEF IInv, CallerInv, AnswersMatchTrades

\* Consumed, superseded and expired intents stay so.
THEOREM TerminalStatusIsFinal == Spec => TerminalIsFinal
<1> DEFINE Final ==
      \A i \in Requests :
          status[i] \in {"CONSUMED", "SUPERSEDED", "EXPIRED"} => status'[i] = status[i]
<1>1. TypeOK /\ [Next]_vars => [Final]_vars
  <2> SUFFICES ASSUME TypeOK, Next PROVE Final
    OBVIOUS
  <2>1. CASE \E r \in Requests : QuietRequest(r)
    BY <2>1, QuietRequestIsQuiet DEF Quiet, control
  <2>2. CASE \E r \in Requests : Evaluate(r)
    BY <2>2 DEF Evaluate, control
  <2>3. CASE \E r \in Requests : AdmitNew(r)
    BY <2>3, AdmitWrites
  <2>4. CASE \E r \in Requests : ExecuteCommit(r)
    BY <2>4, CommitWrites DEF Live, TypeOK
  <2>5. CASE SweepIntents
    BY <2>5 DEF SweepIntents
  <2>6. CASE SweepReservations \/ SweepSlots \/ SweepCrash \/ Tick \/ UNCHANGED vars
    BY <2>6 DEF SweepReservations, SweepSlots, SweepCrash, Tick, vars, control
  <2> QED
    BY <2>1, <2>2, <2>3, <2>4, <2>5, <2>6, StepCases
<1> QED
  BY TypeCorrect, <1>1, PTL DEF Spec, TerminalIsFinal

\* An execution is a step of the abstract ledger.
LEMMA CommitIsTrade ==
    ASSUME IInv, NEW r \in Requests, ExecuteCommit(r)
    PROVE  Ledger!Buy(key[target[r]]) \/ Ledger!Sell(key[target[r]])
<1> DEFINE i == target[r]
           k == key[target[r]]
           traded == {key[j] : j \in fills}
<1>0. TypeOK /\ StoreInv
  BY DEF IInv
<1>1. /\ i \in Requests /\ k \in Keys /\ pc[r] = "execute" /\ qty[r] \in Nat
      /\ Live(i) /\ Funded(i, qty[r])
      /\ fills' = fills \cup {i} /\ UNCHANGED key
  BY <1>0, CommitWrites DEF TypeOK
<1>2. status[i] = "CREATED" /\ Ticker(i) = Order[k].ticker /\ Ticker(i) \in Tickers
  BY <1>1, OrderAssumption DEF Live, Ticker
<1>3. k \notin traded
  BY <1>0, <1>1, <1>2 DEF TypeOK, StoreInv, UniqueKey, ConsumedIsSettled
<1>4. {key[j] : j \in fills}' = traded \cup {k}
  BY <1>1
<1>5. CASE IsBuy(i)
  <2>1. notional[i] \in Notionals
    BY <1>0, <1>1, <1>2, <1>5 DEF StoreInv, BuyTerms
  <2>2. notional[i] + Fee <= cash
    BY <1>1, <1>5 DEF Funded
  <2>3. PICK q \in Lots : /\ cash' = cash - (notional[i] + Fee)
                          /\ pos' = [pos EXCEPT ![Ticker(i)] = @ + q]
    BY <1>5 DEF ExecuteCommit, BookBuy
  <2>4. Order[k].side = "BUY"
    BY <1>5 DEF IsBuy
  <2> QED
    BY <1>2, <1>3, <1>4, <2>1, <2>2, <2>3, <2>4 DEF Ledger!Buy
<1>6. CASE ~IsBuy(i)
  <2>1. qty[r] > 0 /\ qty[r] = pos[Ticker(i)]
    BY <1>1, <1>6 DEF IInv, CallerInv, SellsWhole
  <2>2. PICK p \in Prices : /\ cash' = cash + qty[r] * p - Fee
                            /\ pos' = [pos EXCEPT ![Ticker(i)] = @ - qty[r]]
    BY <1>6 DEF ExecuteCommit, BookSell
  <2>3. pos' = [pos EXCEPT ![Ticker(i)] = 0]
    <3>1. pos[Ticker(i)] - qty[r] = 0
      BY <1>0, <1>1, <1>2, <2>1 DEF TypeOK
    <3> QED
      BY <2>2, <3>1
  <2>4. Order[k].side = "SELL"
    BY <1>1, <1>6, OrderAssumption DEF IsBuy, Sides
  <2> QED
    BY <1>2, <1>3, <1>4, <2>1, <2>2, <2>3, <2>4 DEF Ledger!Sell
<1> QED
  BY <1>5, <1>6

\* The control plane implements the at-most-once ledger.
THEOREM Refinement == Spec => ImplementsLedger
<1>1. Init => Ledger!Init
  BY DEF Init, Ledger!Init
<1>2. IInv /\ [Next]_vars => [Ledger!Next]_Ledger!vars
  <2> SUFFICES ASSUME IInv, [Next]_vars PROVE [Ledger!Next]_Ledger!vars
    OBVIOUS
  <2>1. CASE \E r \in Requests : ExecuteCommit(r)
    <3>1. PICK r \in Requests : ExecuteCommit(r)
      BY <2>1
    <3>2. key[target[r]] \in Keys
      BY DEF IInv, TypeOK
    <3>3. Ledger!Buy(key[target[r]]) \/ Ledger!Sell(key[target[r]])
      BY <3>1, CommitIsTrade
    <3>4. Ledger!Next
      BY <3>2, <3>3 DEF Ledger!Next, Ledger!Buy, Ledger!Sell
    <3> QED
      BY <3>4
  <2>u. UNCHANGED <<cash, pos, fills, key>> => UNCHANGED Ledger!vars
    BY DEF Ledger!vars
  <2>2. CASE \E r \in Requests : QuietRequest(r)
    BY <2>2, <2>u, QuietRequestIsQuiet DEF Quiet, account
  <2>3. CASE \E r \in Requests : Evaluate(r) \/ AdmitNew(r)
    BY <2>3, <2>u DEF Evaluate, AdmitNew, account
  <2>4. CASE SweepIntents \/ SweepReservations \/ SweepSlots \/ SweepCrash \/ Tick \/ UNCHANGED vars
    BY <2>4, <2>u DEF SweepIntents, SweepReservations, SweepSlots, SweepCrash, Tick, vars, account
  <2> QED
    BY <2>1, <2>2, <2>3, <2>4, StepCases
<1> QED
  BY ControlInvariant, <1>1, <1>2, PTL DEF Spec, ImplementsLedger, Ledger!Spec

-----------------------------------------------------------------------------
(* The policy gate.                                                        *)

\* A rounded amount is within half a unit of what was rounded.
LEMMA RoundedIsNear ==
    ASSUME NEW n \in Int, NEW d \in Int, NEW k \in Rounded(n, d)
    PROVE  2 * (k * d - n) <= d /\ 2 * (n - k * d) <= d
BY DEF Rounded

\* The arithmetic of the caps: what is left of an amount is within the cash,
\* and within the room when there is any.
LEMMA CapToBounds ==
    ASSUME NEW amount \in Int, NEW room \in Int, CapTo(amount, room) > 0
    PROVE  /\ CapTo(amount, room) \in Int
           /\ CapTo(amount, room) <= amount
           /\ CapTo(amount, room) <= room
BY DEF CapTo, AtLeast

\* What the capped amount of an approved BUY is bounded by.
LEMMA CappedBounds ==
    ASSUME NEW s \in Snapshots, NEW size \in Int, Capped(s, size) > 0
    PROVE  /\ Capped(s, size) \in Int
           /\ Capped(s, size) <= s.cash * Scale
           /\ Capped(s, size) + s.held * Scale <= 2 * s.equity * s.max_concentration
<1> DEFINE wanted == s.equity * size
           limit == 2 * s.equity * s.max_concentration
<1>1. /\ s.equity \in Int /\ s.cash \in Int /\ s.held \in Int
      /\ s.max_concentration \in Int
  BY DEF Snapshots
<1>2. wanted \in Int /\ limit \in Int /\ s.cash * Scale \in Int /\ s.held * Scale \in Int
  BY <1>1 DEF Scale
<1> HIDE DEF wanted, limit
<1>3. Affordable(s, size) = AtMost(wanted, s.cash * Scale)
  BY DEF Affordable, wanted
<1>4. Room(s) = limit - s.held * Scale
  BY DEF Room, limit
<1>5. Affordable(s, size) \in Int /\ Affordable(s, size) <= s.cash * Scale
  BY <1>2, <1>3 DEF AtMost
<1>6. Room(s) \in Int
  BY <1>2, <1>4
<1>7. /\ Capped(s, size) \in Int
      /\ Capped(s, size) <= Affordable(s, size)
      /\ Capped(s, size) <= Room(s)
  BY <1>5, <1>6, CapToBounds DEF Capped
<1>8. Capped(s, size) + s.held * Scale <= limit
  BY <1>2, <1>4, <1>7
<1> QED
  BY <1>2, <1>5, <1>7, <1>8 DEF limit

\* A size is a whole number of half basis points.
LEMMA SizesType ==
    ASSUME NEW a \in Proposals, NEW s \in Snapshots, NEW size \in Sizes(a, s)
    PROVE  size \in Int
<1> DEFINE n == s.max_position * a.confidence * Haircut(s.dissent) * Haircut(s.poor_data)
<1>1. n \in Int
  BY DEF Snapshots, Proposals, Haircut
<1> HIDE DEF n
<1>2. Sizes(a, s) = {(IF s.strategy_health = "REDUCE" THEN 1 ELSE 2) * bp : bp \in Rounded(n, 2500)}
  BY DEF Sizes, n
<1>3. Rounded(n, 2500) \subseteq Int
  BY <1>1 DEF Rounded
<1>4. PICK bp \in Rounded(n, 2500) : size = (IF s.strategy_health = "REDUCE" THEN 1 ELSE 2) * bp
  BY <1>2
<1> QED
  BY <1>3, <1>4

\* Only a BUY that no gate stops is sized, and a SELL never is.
LEMMA IntentCases ==
    ASSUME NEW a, NEW s, NEW v \in Verdicts(a, s), v.side # "NONE"
    PROVE  /\ ~Rejected(a, s)
           /\ ~Blocked(a, s)
           /\ a.entry_mode # "enter_on_condition"
           /\ \/ /\ Action(a) = "SELL"
                 /\ v = [disposition |-> "APPROVE", side |-> "SELL", notional |-> 0]
              \/ /\ Action(a) = "BUY"
                 /\ \E size \in Sizes(a, s) : v \in BuyVerdicts(s, size)
<1>1. Gate(a, s) = "PASS"
  <2> SUFFICES ASSUME Gate(a, s) # "PASS" PROVE FALSE
    OBVIOUS
  <2>1. v = Refusal(Gate(a, s))
    BY DEF Verdicts
  <2> QED
    BY <2>1 DEF Refusal
<1>2. /\ ~Rejected(a, s) /\ ~Blocked(a, s)
      /\ Action(a) # "HOLD" /\ a.entry_mode # "enter_on_condition"
  BY <1>1 DEF Gate
<1>3. Action(a) \in {"BUY", "SELL"}
  BY <1>2 DEF Action
<1> QED
  BY <1>1, <1>2, <1>3 DEF Verdicts
-----------------------------------------------------------------------------
\* The amount an approved BUY was rounded from.
LEMMA ApprovedAmount ==
    ASSUME NEW a \in Proposals, NEW s \in Snapshots, NEW v \in Verdicts(a, s),
           v.side = "BUY"
    PROVE  \E capped \in Int :
              /\ v.notional \in Int
              /\ 2 * (v.notional * (Grain * Scale) - capped) <= Grain * Scale
              /\ 2 * (capped - v.notional * (Grain * Scale)) <= Grain * Scale
              /\ capped >= Dollar * Scale
              /\ capped <= s.cash * Scale
              /\ capped + s.held * Scale <= 2 * s.equity * s.max_concentration
<1>1. PICK size \in Sizes(a, s) : v \in BuyVerdicts(s, size)
  BY IntentCases
<1>2. size \in Int
  BY <1>1, SizesType
<1>3. ~TooSmall(s, size)
  BY <1>1 DEF BuyVerdicts, Refusal
<1>4. v.notional \in Rounded(Capped(s, size), Grain * Scale)
  BY <1>1, <1>3 DEF BuyVerdicts
<1>5. /\ s.cash \in Int /\ s.held \in Int /\ s.equity \in Int
      /\ s.max_concentration \in Int /\ Grain \in Int /\ Grain > 0
  BY GrainAssumption DEF Snapshots
<1>6. Capped(s, size) \in Int
  <2>1. /\ s.equity * size \in Int /\ s.cash * Scale \in Int /\ s.held * Scale \in Int
        /\ 2 * s.equity * s.max_concentration \in Int
    BY <1>2, <1>5 DEF Scale
  <2>2. Affordable(s, size) \in Int
    BY <2>1 DEF Affordable, AtMost
  <2>3. Room(s) \in Int
    BY <2>1 DEF Room
  <2> QED
    BY <2>2, <2>3 DEF Capped, CapTo, AtLeast
<1>7. Capped(s, size) >= Dollar * Scale
  BY <1>3, <1>5, <1>6 DEF TooSmall, Dollar, Scale
<1>8. /\ Capped(s, size) <= s.cash * Scale
      /\ Capped(s, size) + s.held * Scale <= 2 * s.equity * s.max_concentration
  <2>1. Capped(s, size) > 0
    BY <1>5, <1>6, <1>7 DEF Dollar, Scale
  <2> QED
    BY <1>2, <2>1, CappedBounds
<1>9. v.notional \in Int
  BY <1>4, <1>5, <1>6 DEF Rounded, Scale
<1>10. /\ 2 * (v.notional * (Grain * Scale) - Capped(s, size)) <= Grain * Scale
       /\ 2 * (Capped(s, size) - v.notional * (Grain * Scale)) <= Grain * Scale
  BY <1>4, <1>5, <1>6, RoundedIsNear DEF Scale
<1> QED
  BY <1>6, <1>7, <1>8, <1>9, <1>10

-----------------------------------------------------------------------------
\* An approved BUY is within the limits of the account: its notional is a
\* dollar or more and, to half a cent, within the cash, and leaves the holding
\* within the concentration limit, whatever size the proposal asked for.
THEOREM BuyWithinLimits ==
    ASSUME NEW a \in Proposals, NEW s \in Snapshots, NEW v \in Verdicts(a, s),
           v.side = "BUY"
    PROVE  /\ v.notional \in Int /\ v.notional >= 100
           /\ 2 * v.notional * Grain <= 2 * s.cash + Grain
           /\ 2 * (v.notional * Grain + s.held) * Scale
                 <= 4 * s.equity * s.max_concentration + Grain * Scale
<1> DEFINE limit == s.equity * s.max_concentration
           n == v.notional
           paid == n * Grain
<1>1. /\ s.cash \in Int /\ s.held \in Int /\ s.equity \in Int
      /\ s.max_concentration \in Int /\ Grain \in Int /\ Grain > 0
  BY GrainAssumption DEF Snapshots
<1>2. PICK capped \in Int :
        /\ n \in Int
        /\ 2 * (n * (Grain * Scale) - capped) <= Grain * Scale
        /\ 2 * (capped - n * (Grain * Scale)) <= Grain * Scale
        /\ capped >= Dollar * Scale
        /\ capped <= s.cash * Scale
        /\ capped + s.held * Scale <= 2 * s.equity * s.max_concentration
  BY ApprovedAmount
<1>3. /\ limit \in Int /\ paid \in Int
      /\ n * (Grain * Scale) = paid * Scale
      /\ 2 * n * Grain = 2 * paid
      /\ 2 * s.equity * s.max_concentration = 2 * limit
      /\ 4 * s.equity * s.max_concentration = 4 * limit
  BY <1>1, <1>2 DEF Scale
<1>4. n >= 100
  <2>1. 2 * paid >= 199 * Grain
    <3> HIDE DEF paid
    <3> QED
      BY <1>1, <1>2, <1>3 DEF Scale, Dollar
  <2>2. ASSUME n <= 99 PROVE paid <= 99 * Grain
    BY <1>1, <1>2, <2>2
  <2> HIDE DEF paid
  <2> QED
    BY <1>1, <1>2, <1>3, <2>1, <2>2
<1> HIDE DEF limit, paid, n
<1>5. 2 * paid <= 2 * s.cash + Grain
  BY <1>1, <1>2, <1>3 DEF Scale
<1>6. 2 * (paid + s.held) * Scale <= 4 * limit + Grain * Scale
  BY <1>1, <1>2, <1>3 DEF Scale
<1> QED
  BY <1>2, <1>3, <1>4, <1>5, <1>6 DEF n, paid

\* Where balances are whole cents, what is approved is an amount
\* ExecutionControl!Evaluate may choose: positive, and within the cash.
THEOREM BuyWithinCash ==
    ASSUME Grain = 1,
           NEW a \in Proposals, NEW s \in Snapshots, NEW v \in Verdicts(a, s),
           v.side = "BUY"
    PROVE  v.notional \in Nat \ {0} /\ v.notional <= s.cash
<1>1. v.notional \in Int /\ v.notional >= 100 /\ 2 * v.notional * Grain <= 2 * s.cash + Grain
  BY BuyWithinLimits
<1>2. s.cash \in Int
  BY DEF Snapshots
<1> QED
  BY <1>1, <1>2

\* An intent is made exactly for an approval, and only past the gates: a BUY
\* at 50 of confidence or more, on data that are not degraded, a SELL of
\* something held.
THEOREM IntentPassedGates ==
    ASSUME NEW a \in Proposals, NEW s \in Snapshots, NEW v \in Verdicts(a, s)
    PROVE  /\ v.side # "NONE" <=> v.disposition \in {"APPROVE", "APPROVE_WITH_CAP"}
           /\ v.side # "NONE" => v.side = a.action /\ s.quote_age <= MAX_QUOTE_AGE_HOURS
           /\ v.side = "SELL" => s.held > 0
           /\ v.side = "BUY" => a.confidence >= MIN_CONFIDENCE_THRESHOLD /\ ~s.is_degraded
                                /\ ~s.drawdown_breaker_active /\ s.strategy_health # "CUT"
<1>1. CASE v.side = "NONE"
  <2>1. \A size : \A w \in BuyVerdicts(s, size) : w.side = "NONE" => w = Refusal("BLOCK")
    BY DEF BuyVerdicts
  <2>2. v = Refusal(Gate(a, s)) \/ v = Refusal("BLOCK")
    BY <1>1, <2>1 DEF Verdicts
  <2>3. Gate(a, s) \notin {"APPROVE", "APPROVE_WITH_CAP"}
    BY DEF Gate
  <2> QED
    BY <1>1, <2>2, <2>3 DEF Refusal
<1>2. CASE v.side # "NONE"
  <2>1. /\ ~Rejected(a, s) /\ ~Blocked(a, s)
        /\ \/ /\ Action(a) = "SELL"
              /\ v = [disposition |-> "APPROVE", side |-> "SELL", notional |-> 0]
           \/ /\ Action(a) = "BUY"
              /\ \E size \in Sizes(a, s) : v \in BuyVerdicts(s, size)
    BY <1>2, IntentCases
  <2>2. /\ s.quote_age \in Int /\ s.held \in Nat /\ a.confidence \in Int
    BY DEF Snapshots, Proposals
  <2>3. \A size : \A w \in BuyVerdicts(s, size) :
            w.side # "NONE" => w.side = "BUY" /\ w.disposition \in {"APPROVE", "APPROVE_WITH_CAP"}
    BY DEF BuyVerdicts, Refusal
  <2>4. s.quote_age <= MAX_QUOTE_AGE_HOURS
    BY <2>1, <2>2 DEF Rejected, MAX_QUOTE_AGE_HOURS
  <2>5. CASE Action(a) = "SELL"
    BY <1>2, <2>1, <2>2, <2>4, <2>5 DEF Blocked, Action
  <2>6. CASE Action(a) = "BUY"
    <3>1. v.side = "BUY" /\ v.disposition \in {"APPROVE", "APPROVE_WITH_CAP"}
      BY <1>2, <2>1, <2>3, <2>6
    <3>2. a.confidence >= MIN_CONFIDENCE_THRESHOLD /\ ~s.is_degraded
      BY <2>1, <2>2, <2>6 DEF Blocked, Rejected, MIN_CONFIDENCE_THRESHOLD
    <3>3. ~s.drawdown_breaker_active /\ s.strategy_health # "CUT" /\ a.action = "BUY"
      BY <2>1, <2>6 DEF Blocked, Action
    <3> QED
      BY <2>4, <3>1, <3>2, <3>3
  <2> QED
    BY <2>1, <2>5, <2>6
<1> QED
  BY <1>1, <1>2

\* The value of the positions is an amount.
LEMMA PositionsValueType ==
    ASSUME NEW b \in Books, NEW t \in Symbols, NEW q \in [price : Nat \ {0}, age : Nat]
    PROVE  PositionsValue(b, t, q) \in Nat
<1> DEFINE value == [x \in Symbols |-> b.qty[x] * Mark(b, t, q, x)]
<1>1. ASSUME NEW x \in Symbols PROVE value[x] \in Nat
  <2>1. /\ b.qty[x] \in Nat /\ b.price[x] \in Nat /\ b.entry[x] \in Nat /\ q.price \in Nat
    BY DEF Books
  <2>2. Mark(b, t, q, x) \in Nat
    BY <2>1 DEF Mark
  <2> QED
    BY <2>1, <2>2
<1>2. IsFiniteSet(Held(b)) /\ Held(b) \subseteq Symbols
  BY SymbolAssumption, FS_Subset DEF Held
<1> HIDE DEF value
<1>3. SumFunctionOnSet(value, Held(b)) \in Nat
  BY <1>1, <1>2, SumNat
<1> QED
  BY <1>3 DEF PositionsValue, value

\* A snapshot of a book is one the theorems above are about, for a price that
\* exists.
LEMMA SnapshotType ==
    ASSUME NEW b \in Books, NEW t \in Symbols, NEW q \in [price : Nat \ {0}, age : Nat]
    PROVE  Snapshot(b, t, q) \in Snapshots
<1>1. /\ b.cash \in Int /\ b.qty[t] \in Nat /\ b.starting \in Nat
      /\ q.price \in Nat /\ q.age \in Nat /\ Dollar \in Nat
  BY GrainAssumption DEF Books, Dollar
<1>2. AtLeast(b.cash + PositionsValue(b, t, q), Dollar) \in Nat
  BY <1>1, PositionsValueType DEF AtLeast
<1>3. b.qty[t] * q.price \in Nat
  BY <1>1
<1> QED
  BY <1>1, <1>2, <1>3, PositionsValueType DEF Snapshot, Snapshots

\* Submitting a BUY therefore spends no more than the cash, to half a cent.
THEOREM SubmittedBuyWithinCash ==
    ASSUME NEW b \in Books, NEW t \in Symbols, NEW given \in Nat, NEW a \in Proposals,
           NEW v \in SubmittedVerdicts(b, t, given, a), v.side = "BUY"
    PROVE  2 * v.notional * Grain <= 2 * b.cash + Grain
<1> DEFINE q == Quote(b, t, given)
<1>1. v \in Verdicts(a, Snapshot(b, t, q)) /\ q.price # 0
  BY DEF SubmittedVerdicts
<1>2. q \in [price : Nat \ {0}, age : Nat]
  BY <1>1 DEF Quote, Books, Ages, AgeOr, NoAge
<1>3. Snapshot(b, t, q) \in Snapshots
  BY <1>2, SnapshotType
<1>4. Snapshot(b, t, q).cash = b.cash
  BY DEF Snapshot
<1> QED
  BY <1>1, <1>3, <1>4, BuyWithinLimits

\* No BUY is approved on a book the snapshot cannot value: every other holding
\* has a stored price of known age, at most 24 hours, the price of the ticker
\* is at most 12 hours old as far as its age is known, and every pending order
\* could be priced.
THEOREM BuyOnFreshMarks ==
    ASSUME NEW b \in Books, NEW t \in Symbols, NEW given \in Nat, NEW a \in Proposals,
           NEW v \in SubmittedVerdicts(b, t, given, a), v.side = "BUY"
    PROVE  /\ b.reservable
           /\ given = 0 /\ b.age[t] # NoAge => b.age[t] <= 12
           /\ \A x \in Symbols \ {t} :
                 b.qty[x] > 0 => b.price[x] > 0 /\ b.age[x] \in 0 .. 24
<1> DEFINE q == Quote(b, t, given)
           s == Snapshot(b, t, q)
<1>1. v \in Verdicts(a, s)
  BY DEF SubmittedVerdicts
<1>2. Action(a) = "BUY" /\ ~Rejected(a, s)
  BY <1>1, IntentCases
<1>3. ~s.is_degraded
  BY <1>2 DEF Rejected
<1>4. /\ ~(q.age > 12)
      /\ \A x \in Held(b) : MarkIsFresh(b, t, q, x)
      /\ b.reservable
  BY <1>3 DEF Snapshot
<1>5. \A x \in Symbols : b.age[x] \in Nat \cup {NoAge}
  BY DEF Books, Ages
<1>6. given = 0 /\ b.age[t] # NoAge => b.age[t] <= 12
  BY <1>4, <1>5 DEF Quote, AgeOr, NoAge
<1>7. ASSUME NEW x \in Symbols \ {t}, b.qty[x] > 0
      PROVE  b.price[x] > 0 /\ b.age[x] \in 0 .. 24
  <2>1. MarkIsFresh(b, t, q, x)
    BY <1>4, <1>7 DEF Held
  <2> QED
    BY <1>5, <2>1, <1>7 DEF MarkIsFresh, AgeOr, NoAge
<1> QED
  BY <1>4, <1>6, <1>7

\* The drawdown the snapshot reports decides nothing: the gate for it reads
\* drawdown_breaker_active, which the snapshot service never sets, so a BUY
\* in a drawdown of 25 % or more is judged like any other.
THEOREM DrawdownIsIgnored ==
    ASSUME NEW a \in Proposals, NEW s \in Snapshots, NEW x \in BOOLEAN
    PROVE  Verdicts(a, [s EXCEPT !.circuit_breaker_active = x]) = Verdicts(a, s)
<1> DEFINE d == [s EXCEPT !.circuit_breaker_active = x]
<1>1. /\ d.equity = s.equity /\ d.cash = s.cash /\ d.held = s.held
      /\ d.quote_age = s.quote_age /\ d.is_degraded = s.is_degraded
      /\ d.max_concentration = s.max_concentration /\ d.max_position = s.max_position
      /\ d.drawdown_breaker_active = s.drawdown_breaker_active
      /\ d.strategy_health = s.strategy_health
      /\ d.dissent = s.dissent /\ d.poor_data = s.poor_data
  BY DEF Snapshots
<1> HIDE DEF d
<1>2. Gate(a, d) = Gate(a, s)
  BY <1>1 DEF Gate, Rejected, Blocked
<1>3. Sizes(a, d) = Sizes(a, s)
  BY <1>1 DEF Sizes
<1>4. \A size : BuyVerdicts(d, size) = BuyVerdicts(s, size)
  BY <1>1 DEF BuyVerdicts, TooSmall, Capped, Affordable, Room
<1> QED
  BY <1>2, <1>3, <1>4 DEF Verdicts, d

\* The mode fails closed: a trade runs in OBSERVE only where the first source
\* that says anything says so, and never when that source is not a mode or the
\* account's document cannot be read.
THEOREM ModeFailsClosed ==
    ASSUME NEW c \in Configurations
    PROVE  /\ ResolvedMode(c) \in Modes \cup {"ERROR"}
           /\ c.named /\ c.database # "unset" =>
                 ResolvedMode(c) = IF c.database = "invalid" THEN "ERROR" ELSE c.database
           /\ c.named /\ c.database = "unset" /\ c.own \notin {"OBSERVE", "unset"} =>
                 ResolvedMode(c) # "OBSERVE"
           /\ (c.named => c.database = "unset" /\ c.own = "unset")
              /\ c.global \notin {"OBSERVE", "unset"} => ResolvedMode(c) # "OBSERVE"
<1>1. /\ c.database \in Sayings /\ c.own \in Sayings /\ c.global \in Sayings
      /\ c.setting \in Sayings \ {"unset"} /\ c.named \in BOOLEAN
  BY DEF Configurations
<1> QED
  BY <1>1 DEF ResolvedMode, Chosen, Modes, Sayings

\* Whatever the gate answers for a book in whole cents is a choice of Evaluate:
\* a positive amount within the cash for a BUY, none for a SELL of something
\* held, and no intent otherwise.
THEOREM GateWithinChoices ==
    ASSUME Grain = 1,
           NEW b \in Books, NEW t \in Symbols, NEW given \in Nat, NEW a \in Proposals,
           NEW v \in SubmittedVerdicts(b, t, given, a)
    PROVE  \/ v.side = "NONE" /\ v.notional = 0
           \/ v.side = "BUY" /\ v.notional \in Nat \ {0} /\ v.notional <= b.cash
           \/ v.side = "SELL" /\ v.notional = 0 /\ b.qty[t] > 0
<1> DEFINE q == Quote(b, t, given)
           s == Snapshot(b, t, q)
<1>1. v \in Verdicts(a, s) /\ q.price # 0
  BY DEF SubmittedVerdicts
<1>2. q \in [price : Nat \ {0}, age : Nat]
  BY <1>1 DEF Quote, Books, Ages, AgeOr, NoAge
<1>3. s \in Snapshots /\ s.cash = b.cash
  BY <1>2, SnapshotType DEF Snapshot
<1>4. s.held > 0 => b.qty[t] > 0
  BY DEF Snapshot, Books
<1> HIDE DEF q, s
<1>5. CASE v.side = "NONE"
  <2>1. \A size : \A w \in BuyVerdicts(s, size) : w.side = "NONE" => w.notional = 0
    BY DEF BuyVerdicts, Refusal
  <2> QED
    BY <1>1, <1>5, <2>1 DEF Verdicts, Refusal
<1>6. CASE v.side # "NONE"
  <2>1. CASE v.side = "BUY"
    BY <1>1, <1>3, <2>1, BuyWithinCash
  <2>2. CASE v = [disposition |-> "APPROVE", side |-> "SELL", notional |-> 0]
    BY <1>1, <1>3, <1>4, <2>2, IntentPassedGates
  <2>3. \A size : \A w \in BuyVerdicts(s, size) : w.side # "NONE" => w.side = "BUY"
    BY DEF BuyVerdicts, Refusal
  <2> QED
    BY <1>1, <1>6, <2>1, <2>2, <2>3, IntentCases
<1> QED
  BY <1>5, <1>6
=============================================================================
