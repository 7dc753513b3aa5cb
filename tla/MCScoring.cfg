SPECIFICATION PartsSpec
CONSTANTS
    RunsAsRoot = TRUE
    Pids <- MCPids
    Ppids <- MCPpids
    Entropies <- MCEntropies
    ScanPids <- MCScanPids
    BufferSize = 2
    CpuThreads = {monitor, netlink}
    CpuPids <- MCCpuPids
    Ticks <- MCTicks
    MaxLives <- MCMaxLives
    Word = 1000000
    Slots = 65536
    UtimeBase = 65536
    StimeBase = 0
    Junk <- MCJunk
    MapLines <- MCMapLines
    LogThreads = {monitor, netlink}
    Hour = 2
    MaxClock = 2
    MaxAlerts = 3
    MaxDays = 2
    WatchedFiles <- MCWatchedFiles
    QueueLimit = 3
    ReadLimit = 2
    DaemonPids <- MCDaemonPids
    Words <- MCWords
    KernelTypes <- MCKernelTypes
INVARIANTS
    PathsAgree
    ReportOnlyOnOneWeakSignal
    TableTypeOK
    StayersListedOnce
    FieldsOfNearestReadable
    CpuTypeOK
    MemoryTypeOK
    WorstRegionDecides
    OneRegionCondemns
    LogTypeOK
    AlertsKept
    TornStampsHaveCause
    WatchTypeOK
    QueuedChangesReported
    KernelTypeOK
    NoProbeWithoutModule
PROPERTIES
    FalseAlarmsHaveCause
    MissesHaveCause
    OverlooksForCause
CHECK_DEADLOCK FALSE
