SPECIFICATION BindSpec
CONSTANTS
    Requests = {q1}
    Ingest = ingest
    NoProc = nobody
    MaxVersion = 2
    MaxCaches = 4
    MaxMoves = 1
    MaxStarts = 1
    MaxBindFaults = 0
INVARIANTS
    StampIsSource
\* a server that has crashed for the last time stops the system
CHECK_DEADLOCK FALSE
