CONSTANTS
    c1 = c1
    c2 = c2
    ch = ch
    s1 = s1
    s2 = s2
    u = u
    cb = cb
    NoCall = NoCall
    NoTx = NoTx
    Calls <- MCCalls
    Tx <- MCTx
    ChannelOf <- MCChannelOf
    Chains <- MCChains
    KnownHeaders = 3
    Scenarios <- MCScenarios
    Capacity = 3
    FetchBatchSize = 2
    ResolveBatchSize = 1
    MaxQuirks = 1
SPECIFICATION ResolveSpec
INVARIANTS AnswersMatch VerifiedIsOnChain FailuresContained
