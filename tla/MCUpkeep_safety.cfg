SPECIFICATION UpkeepSpec
CONSTANTS
    Requests = {q1}
    Ingest = ingest
    NoProc = nobody
    MaxVersion = 2
    MaxCaches = 4
    MaxMoves = 1
    MaxStarts = 2
    MaxBindFaults = 1
    b1 = b1
    b2 = b2
    b3 = b3
    Books = {b1, b2, b3}
    Shelf <- MCShelf
    MaxUploads = 2
    MaxLives = 2
    MaxErrors = 1
    MaxOrders = 3
    MaxTicks = 2
INVARIANTS
    UpkeepTypeOK
    BoundCacheOpen
    RunningIsWorked
PROPERTIES
    Converges
    ParsesEnd
    LowDiskPauses
    ImplementsParseLedger
\* the bounds on server starts, orders and ticks stop the system for good
CHECK_DEADLOCK FALSE
