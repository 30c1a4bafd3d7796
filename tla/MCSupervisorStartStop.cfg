CONSTANTS
    Pids = {1, 2}
    Commands = {"start", "stop"}
    CtrlC = FALSE
    MaxCommands = 3
    MaxCrashes = 2
SPECIFICATION FairSpec
INVARIANTS
    TypeOK
    ChildrenKnown
PROPERTIES
    StoppedStays
    CrashRecovered
    BusEventuallyFree
CHECK_DEADLOCK FALSE
