SPECIFICATION FairSpec
CONSTANTS
    RunsAsRoot = TRUE
    Pids <- Pids3
    Self = 10
    Images <- MinerCalmBusy
    UnderSystemd = FALSE
    PidReuse = "late"
    Failures = {"inotify"}
    Unavailable = {"netlink"}
    ModuleLoaded = {TRUE}
    UnitActive = {TRUE, FALSE}
    QueueCap = 1
    MaxForeign = 1
PROPERTIES
    GuiltyAreSuspended
    WatchdogKeepsChecking
    ShutdownCompletes
CHECK_DEADLOCK FALSE
