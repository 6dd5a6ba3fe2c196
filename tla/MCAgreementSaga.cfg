SPECIFICATION FairSpec
CONSTANTS
    o1 = o1
    r1 = r1
    r2 = r2
    Agreements <- MCAgreements
    OnlineAgreements <- MCOnlineAgreements
    MaxPosts = 2
INVARIANTS
    TypeOK
    CompletesOnceAfterDispatch
    OpenSagaIsDriven
PROPERTY
    EveryAgreementEnds
CHECK_DEADLOCK FALSE
