SPECIFICATION DeltaSpec
CONSTANTS
    MaxSets = 2
    Pages = 2
    MaxDay = 4
    MaxCrashes = 1
    MaxLapses = 0
    MaxOrders = 0
INVARIANTS
    ResumeRecovers
\* the days end
CHECK_DEADLOCK FALSE
