-------------------------- MODULE ExecutionControl --------------------------
(***************************************************************************)
(* The ENFORCE path of the trade control plane, for one account (bot):     *)
(* TradeFacade.submit_trade, admit_execution_intent, execute_intent and    *)
(* the expiry sweep of the outcome worker, over the collections they share *)
(* in MongoDB.                                                             *)
(*                                                                         *)
(* A request is one call of submit_trade, running in any process of the    *)
(* service.  The steps of a request are its database operations; a         *)
(* multi-document transaction is one step, because every document a        *)
(* transaction relies on is also written by it or by the transactions it   *)
(* could conflict with (see README), and may abort on a write conflict.    *)
(*                                                                         *)
(* A request creates at most one intent, so an intent is named by the      *)
(* request that created it.  The intent, its reservation and its slot      *)
(* claim all carry the same expires_at; ttl[i] is how far that is in the   *)
(* future: positive when expires_at > now, 0 when equal, -1 when past.     *)
(***************************************************************************)
EXTENDS Integers, FiniteSets, Functions

CONSTANTS
    Requests,    \* calls of submit_trade
    Keys,        \* request idempotency keys
    Tickers,     \* symbols
    Order,       \* Order[k]: the [ticker, side, supersede] of a key's trade
    Notionals,   \* amounts the policy can approve for a BUY
    Lots,        \* share counts a BUY can fill
    Prices,      \* cash per share a SELL can fill at
    Fee,         \* fee of a fill
    Cash,        \* initial cash_balance
    Holdings,    \* initial share counts
    TTL,         \* ticks from evaluation to expires_at
    NoIntent     \* owner of a slot that was never claimed

Sides == {"BUY", "SELL"}

ASSUME OrderAssumption ==
    Order \in [Keys -> [ticker : Tickers, side : Sides, supersede : BOOLEAN]]

ASSUME AmountAssumption ==
    /\ Notionals \subseteq Nat \ {0}
    /\ Lots \subseteq Nat \ {0}
    /\ Holdings \subseteq Nat
    /\ Cash \in Nat
    /\ Fee \in Nat
    /\ Prices \subseteq {p \in Nat : p >= Fee}

ASSUME NoIntentAssumption == NoIntent \notin Requests

ASSUME TimeAssumption == TTL \in Nat \ {0}

VARIABLES
    \* the account
    cash,        \* bots.cash_balance
    pos,         \* pos[t]: positions.qty, 0 when there is no document
    lots,        \* lots[t]: total remaining_qty of the open tax lots
    fills,       \* intents with an order and a trade_fill
    outbox,      \* intents with a TRADE_EXECUTED event
    \* the control plane
    status,      \* status[i] of the execution intent, "NONE" before insertion
    notional,    \* notional[i]: approved_notional, 0 for a SELL
    ttl,         \* ttl[i]: time left to expires_at
    resv,        \* resv[i]: status of the intent's risk reservation
    slot,        \* slot[t]: the execution slot of the ticker
    \* the requests
    key,         \* key[r]: idempotency key of the request
    pc,          \* pc[r]: the next step of submit_trade
    target,      \* target[r]: the intent the request executes
    qty,         \* qty[r]: shares to sell, read before the transaction
    reply,       \* reply[r]: the result returned to the caller
    \* the expiry sweep
    sweep,       \* its next step
    due          \* intents expired when the sweep took its cutoff

account == <<cash, pos, lots, fills, outbox>>
control == <<status, resv, slot>>
terms == <<notional, ttl>>
caller == <<pc, target, qty, reply>>
sweeper == <<sweep, due>>
vars == <<account, control, terms, key, caller, sweeper>>

-----------------------------------------------------------------------------
\* IntentStatus, but for REVOKED, which nothing writes.
IntentStatuses == {"NONE", "CREATED", "CONSUMED", "SUPERSEDED", "EXPIRED"}
ReservationStatuses == {"NONE", "ACTIVE", "CONSUMED", "RELEASED", "EXPIRED"}
SlotStatuses == {"NONE", "ACTIVE", "CONSUMED", "EXPIRED"}
Steps == {"submit", "evaluate", "admit", "lookup", "preflight", "execute",
          "confirm", "done"}

\* TradeResultStatus; NOT_EXECUTED stands for POLICY_DENIED, SUPERSEDED,
\* EXPIRED, RETRYABLE_ERROR and RECOVERY_REQUIRED, and NONE for no reply.
ResultStatuses == {"NONE", "COMMITTED", "ALREADY_PROCESSED", "NOT_EXECUTED"}

TypeOK ==
    /\ cash \in Int
    /\ pos \in [Tickers -> Nat]
    /\ lots \in [Tickers -> Nat]
    /\ fills \subseteq Requests
    /\ outbox \subseteq Requests
    /\ status \in [Requests -> IntentStatuses]
    /\ notional \in [Requests -> Notionals \cup {0}]
    /\ ttl \in [Requests -> -1 .. TTL]
    /\ resv \in [Requests -> ReservationStatuses]
    /\ slot \in [Tickers -> [status : SlotStatuses, owner : Requests \cup {NoIntent}]]
    /\ \A t \in Tickers : slot[t].owner = NoIntent => slot[t].status = "NONE"
    /\ key \in [Requests -> Keys]
    /\ pc \in [Requests -> Steps]
    /\ target \in [Requests -> Requests]
    /\ qty \in [Requests -> Nat]
    /\ reply \in [Requests -> [status : ResultStatuses, traded : BOOLEAN]]
    /\ sweep \in {"intents", "reservations", "slots"}
    /\ due \subseteq Requests

Init ==
    /\ cash = Cash
    /\ pos \in [Tickers -> Holdings]
    /\ lots \in {f \in [Tickers -> Holdings] : \A t \in Tickers : f[t] <= pos[t]}
    /\ fills = {}
    /\ outbox = {}
    /\ status = [i \in Requests |-> "NONE"]
    /\ notional = [i \in Requests |-> 0]
    /\ ttl = [i \in Requests |-> -1]
    /\ resv = [i \in Requests |-> "NONE"]
    /\ slot = [t \in Tickers |-> [status |-> "NONE", owner |-> NoIntent]]
    /\ key \in [Requests -> Keys]
    /\ pc = [r \in Requests |-> "submit"]
    /\ target = [r \in Requests |-> r]
    /\ qty = [r \in Requests |-> 0]
    /\ reply = [r \in Requests |-> [status |-> "NONE", traded |-> FALSE]]
    /\ sweep = "intents"
    /\ due = {}

-----------------------------------------------------------------------------
(* Documents and queries.                                                  *)

Ticker(i) == Order[key[i]].ticker
IsBuy(i) == Order[key[i]].side = "BUY"

\* Mutant: the duplicate check sees only intents that are still pending.
PendingWithKey(k) == {i \in Requests : key[i] = k /\ status[i] = "CREATED"}

\* The stored intent with idempotency key k, if any (unique index).
IntentsWithKey(k) == {i \in Requests : key[i] = k /\ status[i] # "NONE"}

\* status CREATED and expires_at > now: what consumption requires.
Live(i) == status[i] = "CREATED" /\ ttl[i] > 0

\* get_active_reserved_notional, over the reservation statuses rs.
ReservedNotional(rs) ==
    SumFunctionOnSet(notional, {i \in Requests : rs[i] = "ACTIVE" /\ ttl[i] > 0})

\* submit_trade returns status s and trade_executed b.
Answer(r, s, b) ==
    /\ pc' = [pc EXCEPT ![r] = "done"]
    /\ reply' = [reply EXCEPT ![r] = [status |-> s, traded |-> b]]
    /\ UNCHANGED <<target, qty>>

Goto(r, step) ==
    /\ pc' = [pc EXCEPT ![r] = step]
    /\ UNCHANGED <<target, qty, reply>>

-----------------------------------------------------------------------------
(* submit_trade up to admission.                                           *)

\* The idempotency replay check.
Submit(r) ==
    /\ pc[r] = "submit"
    /\ \/ \E i \in IntentsWithKey(key[r]) :
            \/ status[i] = "CONSUMED" /\ Answer(r, "ALREADY_PROCESSED", TRUE)
            \/ status[i] \in {"SUPERSEDED", "EXPIRED"} /\ Answer(r, "NOT_EXECUTED", FALSE)
       \/ /\ \A i \in IntentsWithKey(key[r]) : status[i] = "CREATED"
          /\ Goto(r, "evaluate")
    /\ UNCHANGED <<account, control, terms, key, sweeper>>

\* Quote, snapshot and PolicyTranslator.evaluate.  A choice among what
\* PolicyGate answers: its cash caps a BUY and an unheld SELL is blocked.
Evaluate(r) ==
    /\ pc[r] = "evaluate"
    /\ \/ Answer(r, "NOT_EXECUTED", FALSE) /\ UNCHANGED terms
       \/ /\ \E n \in Notionals \cup {0} :
               /\ IF IsBuy(r) THEN n \in Notionals /\ n <= cash
                              ELSE n = 0 /\ pos[Ticker(r)] > 0
               /\ notional' = [notional EXCEPT ![r] = n]
          /\ ttl' = [ttl EXCEPT ![r] = TTL]
          /\ Goto(r, "admit")
    /\ UNCHANGED <<account, control, key, sweeper>>

-----------------------------------------------------------------------------
(* admit_execution_intent: one transaction.                                *)

\* A stored intent with the same key: nothing is written; an unexpired one is
\* resumed by this request.
AdmitDuplicate(r) ==
    /\ pc[r] = "admit"
    /\ \E i \in IntentsWithKey(key[r]) :
         \/ status[i] = "CONSUMED" /\ Answer(r, "ALREADY_PROCESSED", TRUE)
         \/ /\ Live(i)
            /\ pc' = [pc EXCEPT ![r] = "preflight"]
            /\ target' = [target EXCEPT ![r] = i]
            /\ UNCHANGED <<qty, reply>>
         \/ status[i] # "CONSUMED" /\ ~Live(i) /\ Answer(r, "NOT_EXECUTED", FALSE)
    /\ UNCHANGED <<account, control, terms, key, sweeper>>

\* The slot is held by a claim that has not expired.
SlotHeld(t) == slot[t].status = "ACTIVE" /\ ttl[slot[t].owner] > 0

\* A held slot is taken over only if the caller allows it and the holder's
\* intent has not executed.
SlotGranted(r) ==
    SlotHeld(Ticker(r)) => /\ Order[key[r]].supersede
                           /\ status[slot[Ticker(r)].owner] # "CONSUMED"

\* Mutant: the slot is taken over and the holder's intent left pending.
SupersedeNothing(r) == {}

\* The intents this admission supersedes: the holder of a held slot.
Superseded(r) == {i \in {slot[Ticker(r)].owner} : SlotHeld(Ticker(r))}

\* Mutant: the superseded intent keeps its reservation.
ReleaseNothing(r) == resv

\* Reservations after the superseded intent's have been released.
ReleasedFor(r) ==
    [i \in Requests |->
        IF i \in Superseded(r) /\ resv[i] = "ACTIVE" THEN "RELEASED" ELSE resv[i]]

\* Mutant: other reservations are not subtracted from the cash.
CashGrantedAlone(r) == IsBuy(r) => notional[r] <= cash

\* Free cash covers a BUY once the superseded reservation is released.
CashGranted(r) == IsBuy(r) => notional[r] + ReservedNotional(ReleasedFor(r)) <= cash

\* The transaction commits.  Its acknowledgement may be lost, which the caller
\* sees as a PyMongoError and follows with the lookup.
AdmitNew(r) ==
    /\ pc[r] = "admit"
    /\ IntentsWithKey(key[r]) = {}
    /\ SlotGranted(r)
    /\ CashGranted(r)
    /\ status' = [i \in Requests |->
                    CASE i = r -> "CREATED"
                      [] i # r /\ i \in Superseded(r) /\ status[i] = "CREATED" -> "SUPERSEDED"
                      [] OTHER -> status[i]]
    /\ resv' = [ReleasedFor(r) EXCEPT ![r] = "ACTIVE"]
    /\ slot' = [slot EXCEPT ![Ticker(r)] = [status |-> "ACTIVE", owner |-> r]]
    /\ \E step \in {"preflight", "lookup"} : Goto(r, step)
    /\ UNCHANGED <<account, terms, key, sweeper>>

\* SlotConflictError, IntentSupersessionError, InsufficientCashReservationError
\* or a write conflict: the transaction aborts.
AdmitAborted(r) ==
    /\ pc[r] = "admit"
    /\ Goto(r, "lookup")
    /\ UNCHANGED <<account, control, terms, key, sweeper>>

\* After a failed admission: did someone store an intent under this key?
Lookup(r) ==
    /\ pc[r] = "lookup"
    /\ IF IntentsWithKey(key[r]) = {}
         THEN Answer(r, "NOT_EXECUTED", FALSE)
         ELSE Answer(r, "ALREADY_PROCESSED", IntentsWithKey(key[r]) \cap fills # {})
    /\ UNCHANGED <<account, control, terms, key, sweeper>>

-----------------------------------------------------------------------------
(* execute_intent.                                                         *)

\* Checks made before the transaction.  A quote that is missing or stale
\* rejects a CREATED intent at any time; the shares to sell are read here.
\* After INTENT_NOT_CREATED the facade looks for a fill; it finds the one the
\* rejection implies, for such an intent never changes again.
Preflight(r) ==
    LET i == target[r] IN
    /\ pc[r] = "preflight"
    /\ \/ status[i] # "CREATED" /\ Answer(r, "ALREADY_PROCESSED", i \in fills)
       \/ status[i] = "CREATED" /\ Answer(r, "NOT_EXECUTED", FALSE)
       \/ /\ status[i] = "CREATED" /\ ttl[i] >= 0
          /\ IF IsBuy(i) THEN UNCHANGED qty
                         ELSE /\ pos[Ticker(i)] > 0
                              /\ qty' = [qty EXCEPT ![r] = pos[Ticker(i)]]
          /\ pc' = [pc EXCEPT ![r] = "execute"]
          /\ UNCHANGED <<target, reply>>
    /\ UNCHANGED <<account, control, terms, key, sweeper>>

\* The reservation and the slot the execution transaction insists on.
Authorised(i) == /\ resv[i] = "ACTIVE"
                 /\ slot[Ticker(i)] = [status |-> "ACTIVE", owner |-> i]

\* What the account must hold.
Funded(i, q) == IF IsBuy(i) THEN notional[i] + Fee <= cash
                            ELSE q <= pos[Ticker(i)] /\ q <= lots[Ticker(i)]

\* Mutant: a BUY closes lots instead of opening one.
BookBuyAsSell(i) ==
    \E q \in Lots :
       /\ cash' = cash - (notional[i] + Fee)
       /\ pos' = [pos EXCEPT ![Ticker(i)] = @ + q]
       /\ lots' = [lots EXCEPT ![Ticker(i)] = @ - q]

\* Mutant: the fill is recorded and the cash is not charged.
BookBuyFree(i) ==
    \E q \in Lots :
       /\ pos' = [pos EXCEPT ![Ticker(i)] = @ + q]
       /\ lots' = [lots EXCEPT ![Ticker(i)] = @ + q]
       /\ UNCHANGED cash

\* A BUY's effect on cash, positions and lots.
BookBuy(i) ==
    \E q \in Lots :
       /\ cash' = cash - (notional[i] + Fee)
       /\ pos' = [pos EXCEPT ![Ticker(i)] = @ + q]
       /\ lots' = [lots EXCEPT ![Ticker(i)] = @ + q]

\* A SELL of q shares: the FIFO closures take q from the open lots in total.
BookSell(i, q) ==
    /\ \E p \in Prices : cash' = cash + q * p - Fee
    /\ pos' = [pos EXCEPT ![Ticker(i)] = @ - q]
    /\ lots' = [lots EXCEPT ![Ticker(i)] = @ - q]

\* The transaction commits; the acknowledgement may be lost.
ExecuteCommit(r) ==
    LET i == target[r] IN
    /\ pc[r] = "execute"
    /\ Live(i) /\ Authorised(i) /\ Funded(i, qty[r])
    /\ status' = [status EXCEPT ![i] = "CONSUMED"]
    /\ resv' = [resv EXCEPT ![i] = "CONSUMED"]
    /\ slot' = [slot EXCEPT ![Ticker(i)].status = "CONSUMED"]
    /\ IF IsBuy(i) THEN BookBuy(i) ELSE BookSell(i, qty[r])
    /\ fills' = fills \cup {i}
    /\ outbox' = outbox \cup {i}
    /\ Answer(r, "COMMITTED", TRUE) \/ Goto(r, "confirm")
    /\ UNCHANGED <<terms, key, sweeper>>

\* IntentExecutionRejected: the transaction aborts with nothing written.  After
\* INTENT_ALREADY_CONSUMED the facade looks for the fill of the other execution.
ExecuteReject(r) ==
    LET i == target[r] IN
    /\ pc[r] = "execute"
    /\ \/ ~Live(i) /\ Answer(r, "ALREADY_PROCESSED", i \in fills)
       \/ /\ Live(i) /\ ~(Authorised(i) /\ Funded(i, qty[r]))
          /\ Answer(r, "NOT_EXECUTED", FALSE)
    /\ UNCHANGED <<account, control, terms, key, sweeper>>

\* A write conflict (PyMongoError) or an unexpected exception aborts.
ExecuteAbort(r) ==
    /\ pc[r] = "execute"
    /\ Goto(r, "confirm") \/ Answer(r, "NOT_EXECUTED", FALSE)
    /\ UNCHANGED <<account, control, terms, key, sweeper>>

\* After a PyMongoError in execution: did the intent fill after all?
Confirm(r) ==
    /\ pc[r] = "confirm"
    /\ IF target[r] \in fills THEN Answer(r, "ALREADY_PROCESSED", TRUE)
                              ELSE Answer(r, "NOT_EXECUTED", FALSE)
    /\ UNCHANGED <<account, control, terms, key, sweeper>>

\* The process running the request dies; the caller gets no reply.
Crash(r) ==
    /\ pc[r] # "done"
    /\ Goto(r, "done")
    /\ UNCHANGED <<account, control, terms, key, sweeper>>

-----------------------------------------------------------------------------
(* expire_stale_intents_and_reservations: three update_many calls outside  *)
(* any transaction, with one cutoff time taken at the start.               *)

\* Mutant: every intent past its expiry is marked, whatever its status.
SweepAnyIntent ==
    /\ sweep = "intents"
    /\ due' = {i \in Requests : status[i] # "NONE" /\ ttl[i] < 0}
    /\ status' = [i \in Requests |-> IF i \in due' THEN "EXPIRED" ELSE status[i]]
    /\ sweep' = "reservations"
    /\ UNCHANGED <<account, resv, slot, terms, key, caller>>

\* Mutant: the later calls only follow the intents this sweep has expired.
SweepNewlyExpired ==
    /\ sweep = "intents"
    /\ due' = {i \in Requests : status[i] = "CREATED" /\ ttl[i] < 0}
    /\ status' = [i \in Requests |-> IF i \in due' THEN "EXPIRED" ELSE status[i]]
    /\ sweep' = "reservations"
    /\ UNCHANGED <<account, resv, slot, terms, key, caller>>

SweepIntents ==
    /\ sweep = "intents"
    /\ due' = {i \in Requests : status[i] # "NONE" /\ ttl[i] < 0}
    /\ status' = [i \in Requests |->
                     IF i \in due' /\ status[i] = "CREATED" THEN "EXPIRED" ELSE status[i]]
    /\ sweep' = "reservations"
    /\ UNCHANGED <<account, resv, slot, terms, key, caller>>

SweepReservations ==
    /\ sweep = "reservations"
    /\ resv' = [i \in Requests |->
                   IF i \in due /\ resv[i] = "ACTIVE" THEN "EXPIRED" ELSE resv[i]]
    /\ sweep' = "slots"
    /\ UNCHANGED <<account, status, slot, terms, key, caller, due>>

SweepSlots ==
    /\ sweep = "slots"
    /\ slot' = [t \in Tickers |->
                   IF slot[t].owner \in due /\ slot[t].status = "ACTIVE"
                   THEN [slot[t] EXCEPT !.status = "EXPIRED"] ELSE slot[t]]
    /\ sweep' = "intents"
    /\ due' = {}
    /\ UNCHANGED <<account, status, resv, terms, key, caller>>

\* The worker dies, or one of the calls raises: the rest is not done, and the
\* next iteration starts over.
SweepCrash ==
    /\ sweep # "intents"
    /\ sweep' = "intents"
    /\ due' = {}
    /\ UNCHANGED <<account, control, terms, key, caller>>

\* Time passes.
Tick ==
    /\ \E i \in Requests : ttl[i] > -1
    /\ ttl' = [i \in Requests |-> IF ttl[i] > -1 THEN ttl[i] - 1 ELSE -1]
    /\ UNCHANGED <<account, control, notional, key, caller, sweeper>>

-----------------------------------------------------------------------------
Request(r) ==
    \/ Submit(r) \/ Evaluate(r)
    \/ AdmitDuplicate(r) \/ AdmitNew(r) \/ AdmitAborted(r) \/ Lookup(r)
    \/ Preflight(r) \/ ExecuteCommit(r) \/ ExecuteReject(r) \/ ExecuteAbort(r)
    \/ Confirm(r) \/ Crash(r)

Sweep == SweepIntents \/ SweepReservations \/ SweepSlots

Next == (\E r \in Requests : Request(r)) \/ Sweep \/ SweepCrash \/ Tick

Spec == Init /\ [][Next]_vars

\* Time goes on, the outcome worker's endless loop keeps starting sweeps, and
\* they do not fail at the same call for ever.  Nothing is assumed of requests.
FairSpec ==
    /\ Spec
    /\ WF_vars(Tick)
    /\ WF_vars(SweepIntents)
    /\ SF_vars(SweepReservations)
    /\ SF_vars(SweepSlots)

-----------------------------------------------------------------------------
(* Properties.                                                             *)

\* Active, unexpired reservations never promise more cash than the account
\* has, but for the fees of the fills, which they do not include, whatever
\* admissions, executions, supersessions and expirations interleave
\* (repository.py:770-795, executor.py:166-177).
ReservedWithinCash == ReservedNotional(resv) <= cash + Fee * Cardinality(fills)

\* The account is never overdrawn (executor.py:399-412).
NoOverdraft == cash >= 0

\* However many requests share a key, at most one of its intents ever trades,
\* and at most one of the requests is told COMMITTED.
OneTradePerKey ==
    /\ \A i, j \in fills : key[i] = key[j] => i = j
    /\ \A r, s \in Requests :
         reply[r].status = "COMMITTED" /\ reply[s].status = "COMMITTED" /\ key[r] = key[s]
            => r = s

\* An intent is CONSUMED exactly when it has a fill, a consumed reservation
\* and an outbox event: neither the sweep, nor a supersession, nor a rejected
\* execution leaves one without the others (executor.py:343-662).
ConsumedIsSettled ==
    \A i \in Requests :
        /\ status[i] = "CONSUMED" <=> i \in fills
        /\ status[i] = "CONSUMED" <=> resv[i] = "CONSUMED"
        /\ status[i] = "CONSUMED" <=> i \in outbox

\* At any time at most one intent per ticker can still be executed: a new
\* admission leaves no second live BUY or SELL behind (repository.py:674-768).
OneLivePerTicker ==
    \A i, j \in Requests : Live(i) /\ Live(j) /\ Ticker(i) = Ticker(j) => i = j

\* A reservation is ACTIVE only while its intent is CREATED, or for the time
\* the expiry sweep needs to reach it: it is never stranded by execution or
\* supersession (repository.py:705, 872-899, executor.py:377).
NoStrandedReservation ==
    \A i \in Requests :
        resv[i] = "ACTIVE" => \/ status[i] = "CREATED"
                              \/ status[i] = "EXPIRED" /\ ttl[i] < 0

\* Intents and reservations end together: what is consumed is settled in full
\* and what is not reserves nothing, between any two steps of executions,
\* supersessions and the sweep.
SettledTogether == ConsumedIsSettled /\ NoStrandedReservation

\* No false success: a caller told that the trade was executed has a fill
\* under its own key (facade.py:377-390, 420-461).
HonestSuccess ==
    \A r \in Requests : reply[r].traded => \E i \in fills : key[i] = key[r]

\* What callers are told is what happened: a key trades once, and success is
\* reported only for a key that traded (facade.py:114-174, 351-461,
\* repository.py:651-672).
AnswersMatchTrades == OneTradePerKey /\ HonestSuccess

\* A superseded, expired or consumed intent never changes status again, so a
\* stale sweep or a late request cannot resurrect or re-label it
\* (repository.py:298-324, 517-537, 878-881).
TerminalIsFinal ==
    [][\A i \in Requests :
          status[i] \in {"CONSUMED", "SUPERSEDED", "EXPIRED"} => status'[i] = status[i]]_vars

\* Reserved purchasing power always comes back: an ACTIVE reservation is
\* eventually consumed, released or expired, even if its request crashed and
\* the sweep failed half way (repository.py:872-899, worker.py:795-803).
ReservationDrains ==
    \A i \in Requests : resv[i] = "ACTIVE" ~> resv[i] # "ACTIVE"

\* The control plane implements the at-most-once ledger of TradeLedger.
Ledger == INSTANCE TradeLedger WITH traded <- {key[i] : i \in fills}
ImplementsLedger == Ledger!Spec
=============================================================================
