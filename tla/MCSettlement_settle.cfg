\* Two images of two attempts, two disruptions; the bills may exceed the hold.
SPECIFICATION FairSpec
CONSTANTS
    Items = {i1, i2}
    MaxAttempts = 2
    Cost <- TieredCost
    Estimated = 2
    Frozen = 4
    SettleMaxAttempts = 2
    MaxDisruptions = 2
    NULL = NULL
INVARIANTS
    TypeOK
    HoldTracksBilled
    DeliveredIsPaid
    NeverOvercharged
    AtMostOneAlert
PROPERTIES
    EveryBatchCloses
    AllAttemptsCounted
    ClosedBooksStayClosed
CHECK_DEADLOCK FALSE
