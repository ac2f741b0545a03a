SPECIFICATION FairShellSpec
CONSTANTS
    MaxSups = 2
    MaxKills = 1
    MaxStuck = 1
INVARIANTS
    ShellTypeOK
    SpawnsAlone
PROPERTIES
    LadderClears
    Settles
\* every supervisor may have been closed
CHECK_DEADLOCK FALSE
