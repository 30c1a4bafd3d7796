CONSTANTS
    Pids = {1, 2}
    Commands = {"start", "stop", "update"}
    CtrlC = TRUE
    MaxCommands = 2
    MaxCrashes = 1
SPECIFICATION FairSpec
INVARIANTS
    NeverAborts
PROPERTIES
    StopEndsProcess
    UpdateTakesEffect
    AllStopExits
CHECK_DEADLOCK FALSE
