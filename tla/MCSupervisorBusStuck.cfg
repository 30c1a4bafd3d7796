CONSTANTS
    Pids = {1, 2}
    Commands = {"update"}
    CtrlC = FALSE
    MaxCommands = 1
    MaxCrashes = 1
SPECIFICATION FairSpec
PROPERTIES
    BusEventuallyFree
CHECK_DEADLOCK FALSE
