SPECIFICATION Spec
CONSTANTS
    Request = {r1, r2}
    Coin = {1, 2, 3}
    Claim = {claim}
    Pool <- MCPool
    Strategy = {"standard", "prefer_confirmed", "only_confirmed", "sqlite"}
    Amount = {1, 3}
    BaseFee = 1
    InputFee = 2
    OutputFee = 1
    TransactionDust = 1
    TransactionBalancePasses = 5
    BatchSize = 1
    NoRequest = NoRequest
    MaximumTries = 32
    Multiplier = 2
    FloorDivisor = 2
    MaxInt = 1000
CONSTRAINTS Solo Supplied
SYMMETRY MCSymmetry
CHECK_DEADLOCK FALSE
INVARIANTS FundingSound
PROPERTIES AcceptedNotReoffered SelectionMatchesReference
