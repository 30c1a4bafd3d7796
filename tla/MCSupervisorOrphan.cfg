CONSTANTS
    Pids = {1, 2}
    Commands = {"stop"}
    CtrlC = TRUE
    MaxCommands = 1
    MaxCrashes = 0
SPECIFICATION FairSpec
PROPERTIES
    MonitorExits
CHECK_DEADLOCK FALSE
