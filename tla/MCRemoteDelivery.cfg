SPECIFICATION FairSpec
CONSTANTS
    a1 = a1
    c1 = c1
    Broker = b1
    b1 = b1
    NoConnection = NoConnection
    Agreements = {a1}
    ConnectionIds = {c1}
    BackOffice = {"inserted", "refused", "throws"}
    MaxAttempts = 2
    MaxRetries = 1
    MaxFaults = 1
    MaxDeliveries = 2
    MaxCrashes = 1
    MaxPosts = 2
INVARIANT
    NothingForgotten
PROPERTIES
    ImplementsHub
    ImplementsSaga
    CompletesAfterAttempt
    EveryAgreementSettles
CHECK_DEADLOCK FALSE
