\* An abandoned submission still generates.
SPECIFICATION Spec
CONSTANTS
    Jobs = {j1}
    Items = {i1}
    Workers = {w1}
    JobOf <- OneBatch
    MaxAttempts = 2
    MaxDisruptions = 0
    MaxSubmitFaults = 1
    NoItem = NoItem
    NoWorker = NoWorker
INVARIANT
    AbandonedBatchNeverGenerates
CHECK_DEADLOCK FALSE
