SPECIFICATION ReSpec
CONSTANTS
    Works = {w1, w2}
    MaxBumps = 1
    MaxActivations = 1
    MaxMishaps = 0
    AcrossEmbedders = TRUE
INVARIANTS
    StampTellsSpace
\* the bounds on bumps and cutovers stop the system for good
CHECK_DEADLOCK FALSE
