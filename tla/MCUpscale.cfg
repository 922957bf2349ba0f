\* Two images, three tasks, two requests, a channel of one, three disruptions.
SPECIFICATION FairSpec
CONSTANTS
    Images = {x1, x2}
    Requests = {r1, r2}
    QueueCap = 1
    RecoverLimit = 1
    MaxTasks = 3
    MaxDisruptions = 3
    NULL = NULL
INVARIANTS
    TypeOK
    OneLiveTaskPerImage
    SendNeverBlocks
    OncePerProcess
    NothingStranded
    FirstComeFirstServed
PROPERTIES
    TasksEnd
CHECK_DEADLOCK FALSE
