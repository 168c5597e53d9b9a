SPECIFICATION Spec
CONSTANTS
    A = A  B = B  c1 = c1  bg = bg
    Tickers = {A}
    Cycles = {c1, bg}
    NoCycle = NoCycle
    Prices = {12, 24}
    Sizes = {1, 2}
    Cash = 60
    Legacy <- MCNoLegacy
    StopPct = 25
    TakePct = 50
    MaxTrades = 2
INVARIANTS
    PolicyIsAdvisory
