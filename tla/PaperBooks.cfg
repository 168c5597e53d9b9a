SPECIFICATION Spec
CONSTANTS
    A = A  B = B  c1 = c1  bg = bg
    Tickers = {A}
    Cycles = {bg}
    NoCycle = NoCycle
    Prices = {12, 24}
    Sizes = {1, 2}
    Cash = 60
    Legacy <- MCLegacy
    StopPct = 25
    TakePct = 50
    MaxTrades = 4
INVARIANTS
    TypeOK
    LotsWithinPosition
    PromotedBooksMatch
PROPERTIES
    WorthConserved
