\* One image, two workers, two disruptions and a faulty submission: leases and attempts.
SPECIFICATION Spec
CONSTANTS
    Jobs = {j1}
    Items = {i1}
    Workers = {w1, w2}
    JobOf <- OneBatch
    MaxAttempts = 2
    MaxDisruptions = 2
    MaxSubmitFaults = 2
    NoItem = NoItem
    NoWorker = NoWorker
SYMMETRY Interchangeable
INVARIANTS
    GuardImpliesLatestAttempt
    FreshBillingId
    CallsWithinBudget
PROPERTIES
    KeepsItsPromise
CHECK_DEADLOCK FALSE
