SPECIFICATION Spec
CONSTANTS
    Readers <- MCReaders
    NbWorkers = 2
    RingSize = 2
    RxDescriptors = 3
    ReaderBurst = 2
    DrainThresh = 3
    WorkerBurst = 2
    PointerSize = 2
    StatPeriod = 1
    MaxArrivals = 3
    MaxTime = 1
INVARIANTS DpdkAccounting
PROPERTIES DpdkStops
CHECK_DEADLOCK FALSE
