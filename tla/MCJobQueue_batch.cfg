\* One batch of two images, two workers, two attempts each.
SPECIFICATION Spec
CONSTANTS
    Jobs = {j1}
    Items = {i1, i2}
    Workers = {w1, w2}
    JobOf <- OneBatch
    MaxAttempts = 2
    MaxDisruptions = 1
    MaxSubmitFaults = 0
    NoItem = NoItem
    NoWorker = NoWorker
SYMMETRY Interchangeable
INVARIANTS
    TypeOK
    CountersMatchItems
    NoDeadPending
    FinishedBatchIsQuiet
    SettledStatusMatchesItems
    HoldOpenIffUnfinished
PROPERTIES
    TerminalIsForever
CHECK_DEADLOCK FALSE
