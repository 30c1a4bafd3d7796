SPECIFICATION Spec
CONSTANTS
    Outputs <- MCOutputs
    Clients <- MCOutputs
    ChannelConfs <- MCChannelConfs
    RedisThreads <- MCRedisThreads
    MaxBreaks = 1
    Retained = 1
    MaxFiles = 4
    MaxMessages = 1
    MaxFaults = 1
    CacheMax = 2
    KafkaMax = 1
    SocketType <- MCSocketType
    MaxRefused = 1
    ReportPeriod = 1
    FlushPeriod = 1
    TimerWrap = 2
    MaxReports = 2
    MaxCrashes = 1
    MaxTrouble = 1
INVARIANTS TypeOK DirectoryConsistent MongoOnce ExitClean OwnReply
PROPERTIES KeepsNewest ChannelOrder ShutdownCompletes CommandReturns
CHECK_DEADLOCK FALSE
