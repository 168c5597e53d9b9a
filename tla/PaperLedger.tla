----------------------------- MODULE PaperLedger -----------------------------
(***************************************************************************)
(* The legacy paper book of one bot, which trades in the control plane's   *)
(* default mode OBSERVE, and its migration to ENFORCE.  A request passes   *)
(* TradeFacade.submit_trade, whose policy is advisory here, and is carried *)
(* out by paper_trader.buy or sell: first the reads and checks of the call *)
(* (Submit), then one database transaction (Bought, Sold) that moves the   *)
(* cash, the position and its tax lots together.  In the trading process   *)
(* nothing is awaited between the two; the operator who reconciles the     *)
(* lots and promotes the bot to ENFORCE works from another process and may *)
(* come in between.                                                        *)
(*                                                                         *)
(* A position's average entry price is kept as its product with the        *)
(* quantity, the basis, so that buys add it up exactly.  Fill prices       *)
(* include the execution cost, and the refusals of a BUY that only look at *)
(* market data (sanity gate, drawdown breaker, caps) are left out: a       *)
(* refused BUY changes nothing.                                            *)
(***************************************************************************)
EXTENDS Integers, Sequences, FiniteSets, Functions

CONSTANTS
    Tickers, Cycles,   \* pipeline cycles and minutes of the background sweep
    NoCycle,           \* the cycle of a tool call or an emergency exit
    Prices, Sizes,     \* fill prices and shares a request may have
    Cash,              \* the bot's starting cash
    Legacy,            \* [Tickers -> [qty, basis]]: positions older than the lots
    StopPct, TakePct,  \* the stop-loss and take-profit of every position
    MaxTrades          \* bound: trades of the bot

ASSUME PaperAssumption ==
    /\ IsFiniteSet(Tickers)
    /\ NoCycle \notin Cycles
    /\ Prices \subseteq Nat \ {0} /\ Sizes \subseteq Nat \ {0}
    /\ Cash \in Nat /\ StopPct \in 0 .. 100 /\ TakePct \in Nat
    /\ Legacy \in [Tickers -> [qty : Nat, basis : Nat]]
    /\ MaxTrades \in Nat

VARIABLES
    mode,       \* bots.control_plane_mode
    cash, pnl,  \* bots.cash_balance, bots.total_pnl
    position,   \* positions, by ticker: [qty, basis], no shares: no document
    lots,       \* position_lots not closed, by ticker, oldest first: [qty, price]
    migrated,   \* tickers for which a lot-mig-..-rem document exists
    fills,      \* trade_fills, as the duplicate-order guard sees them
    trades,     \* bots.total_trades
    call,       \* the trader's call between its reads and its transaction
    answer,     \* what the last finished call was answered
    promoting   \* the operator has verified the books and will promote

vars == <<mode, cash, pnl, position, lots, migrated, fills, trades, call, answer, promoting>>

Idle == [side |-> "none"]
None == [side |-> "none", executed |-> FALSE]

\* An open lot.
Lots == [qty : Nat \ {0}, price : Nat]

Calls ==
    [side : {"BUY", "SELL"}, ticker : Tickers, qty : Nat, price : Prices,
     cycle : Cycles \cup {NoCycle}, proposed : BOOLEAN, held : Nat, basis : Nat]

TypeOK ==
    /\ mode \in {"OBSERVE", "ENFORCE"}
    /\ cash \in Int /\ pnl \in Int
    /\ position \in [Tickers -> [qty : Nat, basis : Nat]]
    /\ lots \in [Tickers -> Seq(Lots)]
    /\ migrated \subseteq Tickers
    /\ fills \subseteq (Cycles \cup {NoCycle}) \X Tickers \X {"BUY", "SELL"}
    /\ trades \in Nat
    /\ call \in Calls \cup {Idle}
    /\ answer \in [side : {"none", "BUY", "SELL"}, executed : BOOLEAN]
    /\ promoting \in BOOLEAN

Init ==
    /\ mode = "OBSERVE"
    /\ cash = Cash /\ pnl = 0
    /\ position = Legacy
    /\ lots = [t \in Tickers |-> << >>]
    /\ migrated = {}
    /\ fills = {}
    /\ trades = 0
    /\ call = Idle
    /\ answer = None
    /\ promoting = FALSE

-----------------------------------------------------------------------------
(* Lots: their shares and cost, and the FIFO walk of a sell.               *)

Quantities(s) == [i \in DOMAIN s |-> s[i].qty]

Shares(s) == SumFunctionOnSet(Quantities(s), DOMAIN s)
Cost(s) == SumFunctionOnSet([i \in DOMAIN s |-> s[i].qty * s[i].price], DOMAIN s)

\* Mutant of Closed: the walk ends after the oldest lot.
ClosedOfOldest(s, i, n) == IF i > 1 THEN 0 ELSE IF n < s[i].qty THEN n ELSE s[i].qty

\* How many shares of lot i a sell of n shares closes: the older lots first.
Closed(s, i, n) ==
    LET rest == n - SumFunctionOnSet(Quantities(s), 1 .. (i - 1))
    IN  IF rest <= 0 THEN 0 ELSE IF rest < s[i].qty THEN rest ELSE s[i].qty

\* Mutant of Left: a lot that is used up stays open.
LeftOpen(s, n) == [i \in DOMAIN s |-> [s[i] EXCEPT !.qty = @ - Closed(s, i, n)]]

\* How many lots a sell of n shares uses up: the oldest ones.
UsedUp(s, n) == Cardinality({i \in DOMAIN s : Closed(s, i, n) = s[i].qty})

\* The lots still open after a sell of n shares.
Left(s, n) ==
    [i \in 1 .. (Len(s) - UsedUp(s, n)) |->
        LET j == i + UsedUp(s, n)
        IN  [s[j] EXCEPT !.qty = @ - Closed(s, j, n)]]

Unmatched(s, n) == IF n > Shares(s) THEN n - Shares(s) ELSE 0

\* What the shares sold had cost: their lots' price, and for shares without a
\* lot the position's average.
CostOfSold(s, n, held, basis) == Cost(s) - Cost(Left(s, n)) + (Unmatched(s, n) * basis) \div held

\* Mutant of BasisAfter: a partial sell leaves the average as it was.
BasisAfterAverage(s, n, held, basis) == (basis * (held - n)) \div held

\* A partial sell takes the average of the lots that are left, or leaves the
\* average as it was when no lot is.
BasisAfter(s, n, held, basis) ==
    LET left == Left(s, n)
    IN  IF Shares(left) = 0 THEN (basis * (held - n)) \div held
                            ELSE (Cost(left) * (held - n)) \div Shares(left)

-----------------------------------------------------------------------------
(* The trader.                                                             *)

\* The policy has no say in OBSERVE, but an approval comes with an execution
\* intent, which this mode never saves.  The evaluation may approve, deny, or
\* fail; a SELL of a held ticker and a BUY alike.
Proposals == BOOLEAN

Repeated(cycle, t, side) == cycle # NoCycle /\ <<cycle, t, side>> \in fills

Submit(side, t, n, p, c, proposed) ==
    /\ mode = "OBSERVE" /\ call = Idle
    /\ ~Repeated(c, t, side)
    /\ call' = [side |-> side, ticker |-> t, qty |-> n, price |-> p, cycle |-> c,
                proposed |-> proposed, held |-> position[t].qty, basis |-> position[t].basis]
    /\ UNCHANGED <<mode, cash, pnl, position, lots, migrated, fills, trades, answer, promoting>>

\* A BUY of the pipeline or of the tool buy_stock.
SubmitBuy(t) ==
    \E n \in Sizes, p \in Prices, c \in Cycles \cup {NoCycle}, proposed \in Proposals :
        /\ trades < MaxTrades
        /\ n * p <= cash
        /\ Submit("BUY", t, n, p, c, proposed)

\* A SELL of the pipeline, of the tool sell_stock or of an emergency exit: all
\* of the position or a part of it.
SubmitSell(t) ==
    \E n \in Sizes, p \in Prices, c \in Cycles \cup {NoCycle}, proposed \in Proposals :
        /\ trades < MaxTrades
        /\ n <= position[t].qty
        /\ Submit("SELL", t, n, p, c, proposed)

Breached(t, p) ==
    \/ 100 * p * position[t].qty <= (100 - StopPct) * position[t].basis
    \/ 100 * p * position[t].qty >= (100 + TakePct) * position[t].basis

\* The background sweep sells a position whose stop or target is reached.
SubmitExit(t) ==
    \E p \in Prices, c \in Cycles, proposed \in Proposals :
        /\ trades < MaxTrades
        /\ position[t].qty > 0 /\ Breached(t, p)
        /\ Submit("SELL", t, position[t].qty, p, c, proposed)

\* The transaction starts by consuming the proposed intent, which is not there.
Refuse ==
    /\ call # Idle /\ call.proposed
    /\ answer' = [side |-> call.side, executed |-> FALSE]
    /\ call' = Idle
    /\ UNCHANGED <<mode, cash, pnl, position, lots, migrated, fills, trades, promoting>>

Executed ==
    /\ fills' = fills \cup {<<call.cycle, call.ticker, call.side>>}
    /\ trades' = trades + 1
    /\ answer' = [side |-> call.side, executed |-> TRUE]
    /\ call' = Idle
    /\ UNCHANGED <<mode, migrated, promoting>>

Bought ==
    LET t == call.ticker
    IN  /\ call # Idle /\ call.side = "BUY" /\ ~call.proposed
        /\ position' = [position EXCEPT ![t] = [qty |-> @.qty + call.qty,
                                               basis |-> @.basis + call.qty * call.price]]
        /\ lots' = [lots EXCEPT ![t] = Append(@, [qty |-> call.qty, price |-> call.price])]
        /\ cash' = cash - call.qty * call.price
        /\ UNCHANGED pnl
        /\ Executed

\* The position is written from what the call read, the lots are read anew.
Sold ==
    LET t == call.ticker
        n == call.qty
    IN  /\ call # Idle /\ call.side = "SELL" /\ ~call.proposed
        /\ lots' = [lots EXCEPT ![t] = Left(@, n)]
        /\ position' = [position EXCEPT ![t] =
               IF n >= call.held THEN [qty |-> 0, basis |-> 0]
               ELSE [qty |-> call.held - n, basis |-> BasisAfter(lots[t], n, call.held, call.basis)]]
        /\ cash' = cash + n * call.price
        /\ pnl' = pnl + n * call.price - CostOfSold(lots[t], n, call.held, call.basis)
        /\ Executed

-----------------------------------------------------------------------------
(* The operator's migration.                                               *)

Missing(t) == position[t].qty - Shares(lots[t])

\* Every position gets a lot for the shares that have none.  It replays the
\* fills first, but those of the legacy trader carry fill_qty and fill_price,
\* not the qty and price the replay reads, and give no lot; the lot is priced
\* at the average and, as positions carry no created_at, opened now: it is the
\* newest.
Reconcile ==
    LET need == {t \in Tickers : Missing(t) > 0 /\ t \notin migrated}
    IN  /\ lots' = [t \in Tickers |->
               IF t \in need
               THEN Append(lots[t], [qty |-> Missing(t), price |-> position[t].basis \div position[t].qty])
               ELSE lots[t]]
        /\ migrated' = migrated \cup need
        /\ UNCHANGED <<mode, cash, pnl, position, fills, trades, call, answer, promoting>>

\* Mutant of Matches: the cost basis is not compared.
MatchesQuantity(t) == Missing(t) = 0

\* verify_bot_position_lot_integrity: quantity and cost basis, per ticker.
Matches(t) == Missing(t) = 0 /\ Cost(lots[t]) = position[t].basis

Verify ==
    /\ mode = "OBSERVE" /\ ~promoting
    /\ \A t \in Tickers : Matches(t)
    /\ promoting' = TRUE
    /\ UNCHANGED <<mode, cash, pnl, position, lots, migrated, fills, trades, call, answer>>

Promote ==
    /\ promoting
    /\ mode' = "ENFORCE" /\ promoting' = FALSE
    /\ UNCHANGED <<cash, pnl, position, lots, migrated, fills, trades, call, answer>>

Next ==
    \/ \E t \in Tickers : SubmitBuy(t) \/ SubmitSell(t) \/ SubmitExit(t)
    \/ Refuse \/ Bought \/ Sold
    \/ Reconcile \/ Verify \/ Promote

Spec == Init /\ [][Next]_vars

-----------------------------------------------------------------------------
(* Properties.                                                             *)

\* No position has more shares in its lots than it holds, whatever the order of
\* buys, partial sells, exits and migrations: there are no orphan lots, and a
\* migration never finds LOT_OVERALLOCATION_EXCEEDS_POSITION.
LotsWithinPosition == \A t \in Tickers : Missing(t) >= 0

\* A bot in ENFORCE has books in which every position agrees with its lots in
\* quantity and cost, though a trade that was under way when the operator
\* verified them commits after the promotion.
PromotedBooksMatch ==
    mode = "ENFORCE" => \A t \in Tickers : Missing(t) = 0 /\ Cost(lots[t]) = position[t].basis

Basis == SumFunctionOnSet([t \in Tickers |-> position[t].basis], Tickers)

\* Once the lots of every position agree with it, no trade creates or destroys
\* money: cash and the cost of what is held grow together by the realized P&L.
WorthConserved ==
    [][(\A t \in Tickers : Missing(t) = 0 /\ Cost(lots[t]) = position[t].basis)
           => cash' + Basis' - pnl' = cash + Basis - pnl]_vars

\* In OBSERVE the policy is advisory: a trade the legacy trader's own checks let
\* pass is executed, whatever the policy made of it.
PolicyIsAdvisory == answer.side # "none" => answer.executed
=============================================================================
