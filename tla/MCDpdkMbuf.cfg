SPECIFICATION Spec
CONSTANTS
    Readers <- MCReaders
    NbWorkers = 2
    RingSize = 2
    RxDescriptors = 3
    ReaderBurst = 2
    DrainThresh = 3
    WorkerBurst = 2
    PointerSize = 8
    StatPeriod = 1
    MaxArrivals = 3
    MaxTime = 1
INVARIANT EveryMbufFreedOnce
CHECK_DEADLOCK FALSE
