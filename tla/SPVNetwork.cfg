SPECIFICATION LiveSpec
CONSTANTS
    Caller = {tip, user}
    Tip = tip
    Session = {s1, s2}
    None = None
    Concurrency = 1
    TipCapacity = 1
    WireCapacity = 1
    MaxRequests = 2
    Budgets <- MCBudgets
CHECK_DEADLOCK FALSE
INVARIANTS AnswerMatches SessionSound
PROPERTIES WaitsEnd
