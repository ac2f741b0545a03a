SPECIFICATION Spec
CONSTANTS
    Sessions = {c1, c2, c3}
    Capped = {"get_chunk"}
    Batched = {"get_chunk"}
    Uncapped = {"list_papers"}
    Limit <- MCLimit
    MaxUnits = 2
    MaxCalls = 2
    Window = 1
    MaxRegistry = 2
    MaxTime = 2
    Openers = {o1, o2}
    Nobody = nobody
    Released = {0, 1, 2, 3, 4, 5, 6}
    SoleCreator = TRUE
    MaxOpens = 3
    Callers = {c1, c2, c3}
    Keys = {k1, k2}
    None = none
    MaxReranks = 2
    MaxTasks = 3
    Calls = {c1, c2, c3}
    Nil = nil
    MaxGen = 2
    Slugbooks = {n1, n2}
    Searchers = {r1, r2}
    Slots = 1
    MaxDirs = 1
    MaxNumber = 2
    Operations = {t1, t2}
    MaxCorpora = 3
    MaxReports = 2
    MaxNumbers = 2
    MaxSlips = 1
    MaxSets = 2
    Pages = 2
    MaxDay = 3
    MaxCrashes = 1
    MaxLapses = 1
    MaxOrders = 1
    Works = {w1, w2}
    MaxBumps = 1
    MaxActivations = 1
    MaxMishaps = 2
    AcrossEmbedders = FALSE
    RowIds = {i1, i2}
    MaxVersions = 6
    MaxFailures = 2
    MaxReconciles = 2
SYMMETRY BookSymmetry
INVARIANTS
    TypeOK
    BudgetHolds
    HourlyWindow
    ServesWhole
    OneFlightPerKey
    WireAccounted
    OwnUntilLost
    EnvBinds
    LiveIsCurrent
    FreshAfterIngest
    ActiveServed
    FedOrForfeit
    StampTellsSpace
    CompleteIsWhole
    CountsItsVersion
PROPERTIES
    RowsKept
    ImplementsSharedWork
    ImplementsSwitch
\* the bounds on time, opens, passes, calls and mishaps stop the system for good
CHECK_DEADLOCK FALSE
