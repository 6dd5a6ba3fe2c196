SPECIFICATION Spec
CONSTANTS
    i1 = i1
    i2 = i2
    Ids <- MCIds
    BackOffice = {"inserted", "refused", "throws"}
    MaxAttempts = 2
    MaxDeliveries = 1
    MaxCrashes = 1
INVARIANT
    SuccessMeansInserted
CHECK_DEADLOCK FALSE
