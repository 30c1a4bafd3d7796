CONSTANTS
    Threads = 1
    Capacity = 2
    Modes = {TRUE}
    Bits = {0, 1}
    Mix <- MCMix
    MaxPackets = 4
SPECIFICATION Spec
INVARIANT DropsReported
CHECK_DEADLOCK FALSE
