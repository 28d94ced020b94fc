\* Two connections, so that a reconnection meets the cycle of the first, or one
\* connection and a history that changes around its subscription.
CONSTANTS
    MaxAddress = 2
    Gap = 1
    Tx = {t1}
    MaxEvents = 2
SPECIFICATION Spec
INVARIANTS NoLostWakeup ReadinessSound RestIsSynced
CHECK_DEADLOCK FALSE
