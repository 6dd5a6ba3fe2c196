SPECIFICATION Spec
CONSTANTS
    MaxTroubles = 2
    MaxLosses = 1
    MaxRefreshes = 2
    MaxTokenFailures = 0
INVARIANT
    SingleConnection
CHECK_DEADLOCK FALSE
