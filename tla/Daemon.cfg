SPECIFICATION LiveSpec
CONSTANTS
    MaxFaults = 1
    Configs <- MCConfigs
CHECK_DEADLOCK FALSE
INVARIANTS OrderlyShutdown OngoingExact
PROPERTIES RunReturns
