SPECIFICATION FairSpec
CONSTANTS
    Slugs = {s1}
    Reqs = {q1, q2}
    MaxRun = 2
    MaxBoots = 2
    MaxFaults = 1
INVARIANTS
    TypeOK
    OutcomeHonest
PROPERTIES
    SettledOnce
    ImplementsLedger
    RunsSettle
\* the bound on daemon starts stops the system for good
CHECK_DEADLOCK FALSE
