SPECIFICATION FairSpec
CONSTANTS
    MaxTroubles = 2
    MaxLosses = 1
    MaxRefreshes = 2
    MaxTokenFailures = 1
PROPERTY
    EventuallyConnected
CHECK_DEADLOCK FALSE
