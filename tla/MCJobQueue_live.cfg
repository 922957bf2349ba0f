\* One image, one worker, two disruptions, two failing statements of the submission, all fairness; no symmetry.
SPECIFICATION FairSpec
CONSTANTS
    Jobs = {j1}
    Items = {i1}
    Workers = {w1}
    JobOf <- OneBatch
    MaxAttempts = 2
    MaxDisruptions = 2
    MaxSubmitFaults = 2
    NoItem = NoItem
    NoWorker = NoWorker
PROPERTIES
    EveryBatchEnds
CHECK_DEADLOCK FALSE
