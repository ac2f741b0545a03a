SPECIFICATION UpkeepSpec
CONSTANTS
    Requests = {q1}
    Ingest = ingest
    NoProc = nobody
    MaxVersion = 1
    MaxCaches = 1
    MaxMoves = 0
    MaxStarts = 0
    MaxBindFaults = 0
    b1 = b1
    b2 = b2
    b3 = b3
    Books = {b1, b2, b3}
    Shelf <- MCShelf
    MaxUploads = 2
    MaxLives = 1
    MaxErrors = 0
    MaxOrders = 0
    MaxTicks = 0
INVARIANTS
    OneParsePerNotebook
\* the bounds on server starts, orders and ticks stop the system for good
CHECK_DEADLOCK FALSE
