SPECIFICATION FairSpec
CONSTANTS
    r1 = r1  r2 = r2
    buyA = buyA  buyB = buyB  sellA = sellA
    A = A  B = B
    Requests = {r1, r2}
    Keys = {buyA, buyB, sellA}
    Tickers = {A, B}
    Order <- MCOrder
    Notionals = {1, 3}
    Lots = {1}
    Prices = {2}
    Holdings = {1}
    Fee = 1
    Cash = 4
    TTL = 1
    NoIntent = NoIntent
    Symbols = {A, B}
    Grain = 1
INVARIANTS
    TypeOK
    AnswersMatchTrades
    SettledTogether
    OneLivePerTicker
    ReservedWithinCash
PROPERTIES
    ImplementsLedger
    TerminalIsFinal
    ReservationDrains
