\* A double submit and two retries of a user whose balance covers two images.
SPECIFICATION Spec
CONSTANTS
    Submissions = {s1, s2}
    Retries = {t1, t2}
    Key <- OneKey
    Price <- UnitPrice
    Deposit = 2
    MaxFaults = 2
    NULL = NULL
INVARIANTS
    TypeOK
    NeverOverdrawn
    OneBatchPerKey
    HoldIffUnfinished
SYMMETRY Interchangeable
CHECK_DEADLOCK FALSE
