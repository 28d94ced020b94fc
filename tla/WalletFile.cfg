SPECIFICATION Spec
CONSTANTS
    Accounts = {"a1", "a2"}
    FreshAccount = "a1"
    Passwords = {"p", "q"}
    Values = {"x", "y"}
    OnDisk <- MCOnDisk
    Remotes <- MCRemotes
    Delivered <- MCDelivered
    Missing = Missing
    Torn = Torn
    NoEntry = NoEntry
    MaxEvents = 3
    MaxFaults = 1
CONSTRAINT Explored
CHECK_DEADLOCK FALSE
INVARIANTS SavedMatchesMemory SecretsGuarded SyncConverges
PROPERTIES AtomicStore
