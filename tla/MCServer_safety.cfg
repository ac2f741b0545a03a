SPECIFICATION ServerSpec
CONSTANTS
    Requests = {q1, q2}
    Ingest = ingest
    NoProc = nobody
    MaxVersion = 2
    MaxCaches = 3
    MaxMoves = 2
    MaxStarts = 1
    MaxBindFaults = 0
    Slugs = {s1, s2}
    Reqs = {h1}
    MaxRun = 3
    MaxBoots = 1
    Askers = {q1, q2}
    t1 = t1
    t2 = t2
    Texts = {t1, t2}
    Closest <- MCClosest
    Questions <- MCQuestions
    Widths = {1, 2}
    Salts = {v1, v2}
    Notebook = notebook
    NoSalt = nosalt
    Cap = 1
    Ring = 1
    TopK = 2
    TtlExact = 1
    TtlNear = 0
    MaxAsks = 2
    MaxGens = 2
    MaxClock = 2
    MaxFaults = 0
SYMMETRY ServerSymmetry
INVARIANTS
    ServerTypeOK
    HitAnswers
    KeyedByContent
    OneSubprocess
    NoLostRun
PROPERTIES
    OneRebindPerBump
\* a daemon that has crashed for the last time stops the system
CHECK_DEADLOCK FALSE
