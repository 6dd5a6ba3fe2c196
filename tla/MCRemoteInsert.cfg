SPECIFICATION FairSpec
CONSTANTS
    i1 = i1
    i2 = i2
    Ids <- MCIds
    BackOffice = {"inserted", "refused", "throws"}
    MaxAttempts = 2
    MaxDeliveries = 3
    MaxCrashes = 1
INVARIANTS
    TypeOK
    AtMostOnceInsert
    RecordedIsAccountedFor
PROPERTIES
    ImplementsSingleAttempt
    EveryDeliveryAnswered
CHECK_DEADLOCK FALSE
