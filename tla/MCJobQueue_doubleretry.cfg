\* A second retry takes a running image away from its worker.
SPECIFICATION Spec
CONSTANTS
    Jobs = {j1}
    Items = {i1}
    Workers = {w1}
    JobOf <- OneBatch
    MaxAttempts = 2
    MaxDisruptions = 0
    MaxSubmitFaults = 0
    NoItem = NoItem
    NoWorker = NoWorker
PROPERTY
    RunningRequeuedOnlyByItsWorker
CHECK_DEADLOCK FALSE
