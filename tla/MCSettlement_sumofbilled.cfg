\* A failed booking leaves actual_cost above the sum of the rows.
SPECIFICATION Spec
CONSTANTS
    Items = {i1, i2}
    MaxAttempts = 2
    Cost <- TieredCost
    Estimated = 2
    Frozen = 4
    SettleMaxAttempts = 2
    MaxDisruptions = 1
    NULL = NULL
INVARIANT
    ActualIsSumOfBilled
CHECK_DEADLOCK FALSE
