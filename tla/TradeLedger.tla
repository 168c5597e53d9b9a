---------------------------- MODULE TradeLedger ----------------------------
(***************************************************************************)
(* What the ENFORCE control plane promises a caller of TradeFacade:        *)
(* however many requests, retries, crashes and expirations there are, an   *)
(* idempotency key trades at most once; a buy never spends cash the        *)
(* account does not have; a sell liquidates the whole holding.             *)
(***************************************************************************)
EXTENDS Integers

CONSTANTS
    Keys,        \* idempotency keys
    Tickers,     \* tradable symbols
    Order,       \* Order[k]: the ticker and side a key stands for
    Notionals,   \* cash amounts a buy can be approved for
    Lots,        \* share counts a buy can receive
    Prices,      \* cash per share a sell can receive
    Fee,         \* fee of a fill
    Cash,        \* initial cash
    Holdings     \* initial share counts

VARIABLES
    cash,        \* cash balance of the account
    pos,         \* pos[t]: shares held
    traded       \* keys whose trade has been made

vars == <<cash, pos, traded>>

Init ==
    /\ cash = Cash
    /\ pos \in [Tickers -> Holdings]
    /\ traded = {}

Buy(k) ==
    /\ k \notin traded
    /\ Order[k].side = "BUY"
    /\ \E n \in Notionals, q \in Lots :
         /\ n + Fee <= cash
         /\ cash' = cash - (n + Fee)
         /\ pos' = [pos EXCEPT ![Order[k].ticker] = @ + q]
    /\ traded' = traded \cup {k}

Sell(k) ==
    /\ k \notin traded
    /\ Order[k].side = "SELL"
    /\ pos[Order[k].ticker] > 0
    /\ \E p \in Prices : cash' = cash + pos[Order[k].ticker] * p - Fee
    /\ pos' = [pos EXCEPT ![Order[k].ticker] = 0]
    /\ traded' = traded \cup {k}

Next == \E k \in Keys : Buy(k) \/ Sell(k)

Spec == Init /\ [][Next]_vars
=============================================================================
