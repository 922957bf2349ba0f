\* Two assets and one result image; the first asset and the result image cannot be deleted;
\* pages of one row, so that an undeletable row fills one; three disruptions.
SPECIFICATION FairSpec
CONSTANTS
    Assets = {1, 2}
    Stock = {1}
    Batches = {11}
    BatchLimit = 1
    Stuck = {1, 11}
    MaxDisruptions = 3
    NULL = NULL
INVARIANTS
    TypeOK
    BusyKeepsOriginals
    NoOrphanFiles
    RowsHaveFiles
PROPERTIES
    ExpiredGoesAway
CHECK_DEADLOCK FALSE
