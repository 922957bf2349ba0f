\* Without a worker pool there is no reaper either.
SPECIFICATION FairSpec
CONSTANTS
    Items = {i1, i2}
    MaxAttempts = 2
    Cost <- TieredCost
    Estimated = 2
    Frozen = 4
    SettleMaxAttempts = 2
    MaxDisruptions = 1
    NULL = NULL
PROPERTY
    ReaperCoversMissingPool
CHECK_DEADLOCK FALSE
