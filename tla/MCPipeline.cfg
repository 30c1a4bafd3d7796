CONSTANTS
    Threads = 2
    Capacity = 2
    Modes = {TRUE, FALSE}
    Bits = {0, 1}
    Mix <- MCMix
    MaxPackets = 5
SPECIFICATION FairSpec
INVARIANTS
    TypeOK
    Accounting
    BreakIsLast
    CleanStop
PROPERTIES
    StopCompletes
    FileCompletes
CHECK_DEADLOCK FALSE
