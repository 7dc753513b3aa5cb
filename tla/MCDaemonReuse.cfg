SPECIFICATION Spec
CONSTANTS
    RunsAsRoot = TRUE
    Pids <- Pids3
    Self = 10
    Images <- StrayOrphanNameless
    UnderSystemd = TRUE
    PidReuse = "early"
    Failures = {"opendir", "iptables", "fork"}
    Unavailable = {"inotify", "netlink"}
    ModuleLoaded = {}
    UnitActive = {TRUE}
    QueueCap = 1
    MaxForeign = 1
INVARIANT
    SuspendedForCause
CHECK_DEADLOCK FALSE
