SPECIFICATION Spec
CONSTANTS
    Confs <- MCConfs
    Sessions <- MCSessions
    HttpSessions <- MCSessions
    Apps <- MCApps
    Sizes <- MCSizes
    ByteThreshold = 1
    PacketThreshold = 1
    ReportBytes = 4
    ReportPackets = 2
    ReportFlows = 1
    TcpHeaders <- MCTcpHeaders
    RtpValues <- MCRtpValues
    Teids <- MCTeids
    MaxPackets = 4
    MaxTcpPackets = 3
    MaxArp = 2
    MaxPeriods = 1
    MaxTeids = 2
    U8 = 2
    SeqSpace = 4
    Uris = {u1}
    MaxHttp = 6
    MaxHttpFaults = 1
    Frequency = 2
    Jitter = 1
    MaxTime = 6
    MaxDumps = 4
    MaxDumpFaults = 1
    IgnoreRemainFlow = TRUE
    DefaultAction = "FORWARD"
    Targets <- MCTargets
    NbCopies = 1
    Dpdk = FALSE
    Encapsulation = 2
    MessageRoom = 1
    Paths <- MCPaths
    MaxSecured = 3
    MaxVerdicts = 2
    RadiusCode = 1
    Ues <- MCUes
    MaxAttributes = 4
INVARIANTS TypeOK TrafficOnce RttSorted HttpOnce ForwardedIntact DumpNoOverwrite
CHECK_DEADLOCK FALSE
