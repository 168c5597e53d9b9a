SPECIFICATION FairSpec
CONSTANTS
    q1 = q1  i1 = i1  r1 = r1  r2 = r2
    Questions = {q1}
    Items = {i1}
    Runs = {r1, r2}
    ClaimLimit = 1
    MaxAttempts = 3
    DeskQuestions = 1
    Nobody = Nobody
    NoItem = NoItem
    NoQuestion = NoQuestion
INVARIANTS
    TypeOK
    CompletedIsAnswered
    AttemptBudget
PROPERTIES
    ClaimSettles
