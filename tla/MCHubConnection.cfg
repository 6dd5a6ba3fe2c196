SPECIFICATION FairSpec
CONSTANTS
    MaxTroubles = 2
    MaxLosses = 1
    MaxRefreshes = 2
    MaxTokenFailures = 1
INVARIANTS
    TypeOK
    NeverStranded
    OnlyFieldIsLive
PROPERTY
    ReconnectsIfTokensGranted
CHECK_DEADLOCK FALSE
