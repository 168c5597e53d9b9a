----------------------------- MODULE PolicyGate -----------------------------
(***************************************************************************)
(* What the facade asks of the policy before it admits a BUY or a SELL:    *)
(* the quote and the snapshot it takes of the account's book, the gates    *)
(* and the size of PolicyTranslator.evaluate, and the rollout mode.  All   *)
(* of it is a function of what was read; the verdict is a set because a    *)
(* tie may be rounded either way.                                          *)
(*                                                                         *)
(* Money is counted in grains, Grain of them to a cent, for balances and   *)
(* marks are floats; 1/Scale is half a basis point; ages are in hours.     *)
(***************************************************************************)
EXTENDS Integers, FiniteSets, Functions

CONSTANTS
    Symbols,  \* tickers
    Grain     \* grains of money in a cent

ASSUME GrainAssumption == Grain \in Nat \ {0}

ASSUME SymbolAssumption == IsFiniteSet(Symbols)

NoAge == -1        \* the age of a price whose bar has no readable date
Ages == Nat \cup {NoAge}
AgeOr(age, default) == IF age = NoAge THEN default ELSE age

Scale == 20000
Dollar == 100 * Grain

MAX_QUOTE_AGE_HOURS == 24
MIN_CONFIDENCE_THRESHOLD == 50

-----------------------------------------------------------------------------
(* The account's book, and what is known of the market.                    *)

Books == [
    cash : Int,
    starting : Nat,
    qty : [Symbols -> Nat],
    entry : [Symbols -> Nat],    \* avg_entry_price
    price : [Symbols -> Nat],    \* the stored price, 0 when there is none
    age : [Symbols -> Ages],     \* and its age
    reservable : BOOLEAN]        \* pending_capacity can price every order

\* The quote submit_trade judges by: the caller's price, taken as new, or the
\* stored one, whose unknown age becomes 0 as well.
Quote(b, t, given) ==
    IF given > 0 THEN [price |-> given, age |-> 0]
                 ELSE [price |-> b.price[t], age |-> AgeOr(b.age[t], 0)]

Held(b) == {t \in Symbols : b.qty[t] > 0}

\* The price that values a holding of x in a snapshot for a trade of t at q.
Mark(b, t, q, x) ==
    IF x = t THEN q.price
    ELSE IF b.price[x] > 0 THEN b.price[x] ELSE b.entry[x]

MarkIsFresh(b, t, q, x) ==
    IF x = t THEN q.age <= 12
    ELSE b.price[x] > 0 /\ AgeOr(b.age[x], 999) <= 24

\* total_positions_val, marked to market.
PositionsValue(b, t, q) ==
    SumFunctionOnSet([x \in Symbols |-> b.qty[x] * Mark(b, t, q, x)], Held(b))

AtLeast(x, least) == IF x < least THEN least ELSE x
AtMost(x, most) == IF x > most THEN most ELSE x

\* build_policy_snapshot.  The drawdown is reported in circuit_breaker_active;
\* the fields from max_concentration on keep their defaults.
Snapshot(b, t, q) ==
    LET equity == AtLeast(b.cash + PositionsValue(b, t, q), Dollar)
    IN [equity |-> equity,
        cash |-> b.cash,
        held |-> IF b.qty[t] > 0 THEN b.qty[t] * q.price ELSE 0,
        quote_age |-> q.age,
        is_degraded |->
            \/ q.age > 12
            \/ \E x \in Held(b) : ~MarkIsFresh(b, t, q, x)
            \/ ~b.reservable,
        circuit_breaker_active |-> 4 * (b.starting - equity) >= b.starting /\ b.starting > 0,
        max_concentration |-> 2500,
        max_position |-> 1000,
        drawdown_breaker_active |-> FALSE,
        strategy_health |-> "OK",
        dissent |-> FALSE,
        poor_data |-> FALSE]

\* What PolicyTranslator.evaluate may be given: fractions in basis points, and
\* whether a consensus below 70 and a data quality below 0.8 were reported.
Snapshots == [
    equity : Nat, cash : Int, held : Nat, quote_age : Nat, is_degraded : BOOLEAN,
    circuit_breaker_active : BOOLEAN, max_concentration : Nat, max_position : Nat,
    drawdown_breaker_active : BOOLEAN, strategy_health : {"OK", "REDUCE", "CUT"},
    dissent : BOOLEAN, poor_data : BOOLEAN]

-----------------------------------------------------------------------------
(* PolicyTranslator.evaluate.                                              *)

\* A DecisionArtifact: the action once trimmed and in capitals.
Proposals == [action : {"BUY", "SELL", "HOLD", "OTHER"},
              entry_mode : {"enter_now", "enter_on_condition", "watch_only"},
              confidence : 0 .. 100]

Action(a) == IF a.action \in {"BUY", "SELL"} THEN a.action ELSE "HOLD"

\* A decision without an execution intent.
Refusal(disposition) == [disposition |-> disposition, side |-> "NONE", notional |-> 0]

\* Degraded data stop a BUY, a stale quote stops everything.
Rejected(a, s) ==
    \/ s.is_degraded /\ Action(a) = "BUY"
    \/ s.quote_age > MAX_QUOTE_AGE_HOURS

\* The entry gates of a BUY (a degraded snapshot was rejected above), and the
\* position of a SELL.
Blocked(a, s) ==
    \/ Action(a) = "SELL" /\ s.held = 0
    \/ /\ Action(a) = "BUY"
       /\ \/ a.confidence < MIN_CONFIDENCE_THRESHOLD
          \/ s.drawdown_breaker_active
          \/ s.strategy_health = "CUT"

\* round(n / d): the nearest whole number, either one of two.
Rounded(n, d) == {k \in {n \div d, n \div d + 1} : 2 * (k * d - n) <= d /\ 2 * (n - k * d) <= d}

Haircut(b) == IF b THEN 4 ELSE 5

\* resolve_policy_size_pct, halved for a strategy in poor health.
Sizes(a, s) ==
    {(IF s.strategy_health = "REDUCE" THEN 1 ELSE 2) * bp : bp \in
        Rounded(s.max_position * a.confidence * Haircut(s.dissent) * Haircut(s.poor_data), 2500)}

\* The amount, in grains / Scale, that the cash covers and the room under the
\* concentration limit.
Affordable(s, size) == AtMost(s.equity * size, s.cash * Scale)
Room(s) == 2 * s.equity * s.max_concentration - s.held * Scale
CapTo(amount, room) == IF amount > room THEN AtLeast(room, 0) ELSE amount
Capped(s, size) == CapTo(Affordable(s, size), Room(s))

TooSmall(s, size) == Capped(s, size) < Dollar * Scale \/ s.cash < Dollar

\* The approved BUY: what is approved is rounded to the cent, its size to the
\* basis point.
BuyVerdicts(s, size) ==
    IF TooSmall(s, size) THEN {Refusal("BLOCK")}
    ELSE {[disposition |-> IF Affordable(s, size) > Room(s) \/ 2 * bp < size
                           THEN "APPROVE_WITH_CAP" ELSE "APPROVE",
           side |-> "BUY",
           notional |-> n] :
             n \in Rounded(Capped(s, size), Grain * Scale),
             bp \in Rounded(Capped(s, size), 2 * AtLeast(s.equity, Dollar))}

\* The first thing that stops the proposal, PASS if nothing does.
Gate(a, s) ==
    IF Rejected(a, s) THEN "REJECT"
    ELSE IF Action(a) = "HOLD" THEN "CONVERT_TO_WATCH"
    ELSE IF a.entry_mode = "enter_on_condition" THEN "QUEUE_RESEARCH"
    ELSE IF Blocked(a, s) THEN "BLOCK"
    ELSE "PASS"

\* A SELL is of the whole position.
Verdicts(a, s) ==
    IF Gate(a, s) # "PASS" THEN {Refusal(Gate(a, s))}
    ELSE IF Action(a) = "SELL"
    THEN {[disposition |-> "APPROVE", side |-> "SELL", notional |-> 0]}
    ELSE UNION {BuyVerdicts(s, size) : size \in Sizes(a, s)}

\* The verdicts of submit_trade for a proposal on t; without a price it returns
\* RETRYABLE_ERROR and evaluates nothing.
SubmittedVerdicts(b, t, given, a) ==
    LET q == Quote(b, t, given)
    IN IF q.price = 0 THEN {} ELSE Verdicts(a, Snapshot(b, t, q))

-----------------------------------------------------------------------------
(* resolve_control_plane_mode.                                             *)

Modes == {"OBSERVE", "SHADOW", "ENFORCE"}

\* What a source says: nothing, a mode, or anything else (an unknown word, a
\* database that cannot be asked).
Sayings == Modes \cup {"unset", "invalid"}

Configurations == [named : BOOLEAN, database : Sayings, own : Sayings,
                   global : Sayings, setting : Sayings \ {"unset"}]

\* The first source that says something: for a named account its document and
\* its own environment variable, then the global variable, then the setting.
Chosen(c) ==
    IF c.named /\ c.database # "unset" THEN c.database
    ELSE IF c.named /\ c.own # "unset" THEN c.own
    ELSE IF c.global # "unset" THEN c.global
    ELSE c.setting

\* A ControlPlaneConfigurationError unless that is a mode.
ResolvedMode(c) == IF Chosen(c) \in Modes THEN Chosen(c) ELSE "ERROR"
=============================================================================
