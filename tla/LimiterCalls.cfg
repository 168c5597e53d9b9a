SPECIFICATION FairSpec
CONSTANTS
    dgx1 = dgx1  dgx2 = dgx2  big1 = big1  big2 = big2  urgent = urgent
    Callers = {dgx1, dgx2, big1, big2, urgent}
    Home <- MCHome
    Tokens <- MCTokens
    Urgent = {urgent}
    MaxCalls = 1
    Slots <- MCSlots
    Readings <- MCReadings
    MinConcurrency = 1
    MaxConcurrency = 2
    MaxRunningPerBox = 1
    MaxTokenBudget = 4
    HeavyTokens = 2
    NoBox = NoBox
    Unpolled = Unpolled
INVARIANTS
    TypeOK
    SlotsAccounted
    WithinCeilings
    HeavyWithinBudget
PROPERTIES
    WaiterServed
