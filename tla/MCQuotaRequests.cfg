\* Two users, three requests, two administrators and four disruptions.
SPECIFICATION Spec
CONSTANTS
    Requests = {"r1", "r2", "r3"}
    Users = {"u1", "u2"}
    UserOf <- TwoOfOneUser
    Admins = {a1, a2}
    MaxDisruptions = 4
    NoRequest = NoRequest
SYMMETRY Interchangeable
INVARIANTS
    NeverPaidTwice
    HandledIsPaidOrReported
    OpenPaidOnlyByLostAnswers
    OnePendingPerUser
CHECK_DEADLOCK FALSE
