SPECIFICATION MigSpec
CONSTANTS
    Openers = {o1}
    Nobody = nobody
    Released = {0, 1, 2, 3, 4, 5, 6}
    SoleCreator = TRUE
    MaxOpens = 2
INVARIANTS
    Reopens
\* the bound on opens stops the system for good
CHECK_DEADLOCK FALSE
