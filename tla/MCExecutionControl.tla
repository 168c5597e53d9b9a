------------------------ MODULE MCExecutionControl ------------------------
(* Instances of ExecutionControl for TLC, and the policy gate that stands  *)
(* behind its Evaluate, compared with it on small books.                   *)
EXTENDS ExecutionControl, PolicyGate

CONSTANTS r1, r2, buyA, buyB, sellA, A, B

\* The trade each idempotency key stands for.  Buyers supersede a pending
\* intent, as every caller in the service allows; the seller does not.
MCOrder == [k \in Keys |->
    [ticker |-> IF k = buyB THEN B ELSE A,
     side |-> IF k = sellA THEN "SELL" ELSE "BUY",
     supersede |-> k # sellA]]

-----------------------------------------------------------------------------
\* Books in cents: less than a dollar, less than a tenth of the equity, cash that
\* runs into the concentration limit, cash that does not; prices and ages on
\* both sides of the thresholds of 12 and 24 hours.
SomeBooks == [
    cash : {99, 500, 20000, 40000}, starting : {60000},
    qty : [Symbols -> {0, 1}], entry : {[x \in Symbols |-> 5000]},
    price : [Symbols -> {0, 6000}], age : [Symbols -> {NoAge, 12, 13, 24, 25}],
    reservable : BOOLEAN]

FreshBooks == {b \in SomeBooks :
    b.reservable /\ \A x \in Symbols : b.price[x] = 6000 /\ b.age[x] \in {12, 25}}

SomeProposals == [action : {"BUY", "SELL", "OTHER"}, entry_mode : {"enter_now", "enter_on_condition"},
                  confidence : {49, 50, 87, 100}]

Outcomes(books, proposals) ==
    UNION {SubmittedVerdicts(b, t, given, a) :
              b \in books, t \in Symbols, given \in {0, 6001}, a \in proposals}

\* What Evaluate may choose for a trade of that side with that book.
EvaluateAllows(b, t, v) ==
    \/ v.side = "NONE" /\ v.notional = 0
    \/ v.side = "BUY" /\ v.notional \in Nat \ {0} /\ v.notional <= b.cash
    \/ v.side = "SELL" /\ v.notional = 0 /\ b.qty[t] > 0

\* A BUY leaves the ticker at a quarter of the equity at most, to half a cent.
ConcentrationKept(b, t, given, v) ==
    LET q == Quote(b, t, given)
    IN v.side = "BUY" =>
          4 * (v.notional + b.qty[t] * q.price) <= b.cash + PositionsValue(b, t, q) + 2

\* Every verdict of the gate is one of Evaluate's choices, within the limit.
ASSUME GateWithinEvaluate ==
    \A b \in FreshBooks, t \in Symbols, given \in {0, 6001}, a \in SomeProposals :
        \A v \in SubmittedVerdicts(b, t, given, a) :
            EvaluateAllows(b, t, v) /\ ConcentrationKept(b, t, given, v)

\* The gate reaches every disposition, and cents are rounded in both directions.
ASSUME GateIsExercised ==
    /\ {v.disposition : v \in Outcomes(FreshBooks, SomeProposals)} =
          {"REJECT", "CONVERT_TO_WATCH", "QUEUE_RESEARCH", "BLOCK", "APPROVE", "APPROVE_WITH_CAP"}
    /\ {v.side : v \in Outcomes(FreshBooks, SomeProposals)} = {"NONE", "BUY", "SELL"}
    /\ {n \in 0 .. 9 : 4 \in Rounded(n, 2)} = 7 .. 9

\* A BUY of full confidence is approved on fresh marks only, and the value of
\* the positions is an amount.
ASSUME FreshMarksOnly ==
    \A b \in SomeBooks, t \in Symbols :
        /\ PositionsValue(b, t, Quote(b, t, 0)) \in Nat
        /\ \A v \in SubmittedVerdicts(b, t, 0, [action |-> "BUY", entry_mode |-> "enter_now",
                                                confidence |-> 100]) :
              v.side = "BUY" =>
                 /\ b.reservable
                 /\ b.age[t] <= 12
                 /\ \A x \in Held(b) \ {t} : b.price[x] > 0 /\ b.age[x] \in 0 .. 24
=============================================================================
