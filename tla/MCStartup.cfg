SPECIFICATION Spec
CONSTANTS
    Numbers <- MCNumbers
    Lists <- MCLists
    Lengths <- MCLengths
    Slashed <- MCSlashed
    Launches <- MCLaunches
    Messages <- MCMessages
    Macs <- MCMacs
    ParamSize = 30
    NbIdentities = 2
    MaxUpdates = 2
    MaxPackets = 1
    MaxTime = 6
    MaxStep = 3
    MaxTeids = 2
    U8 = 256
INVARIANTS RunsAsConfigured PeriodsKept
CHECK_DEADLOCK FALSE
