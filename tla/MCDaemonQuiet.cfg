SPECIFICATION ScheduledSpec
CONSTANTS
    RunsAsRoot = TRUE
    Pids <- Pids4
    Self = 10
    Images <- Nobody
    UnderSystemd = FALSE
    PidReuse = "late"
    Failures = {}
    Unavailable = {"netlink"}
    ModuleLoaded = {TRUE}
    UnitActive = {TRUE}
    QueueCap = 1
    MaxForeign = 1
PROPERTY
    ShutdownCompletes
CHECK_DEADLOCK FALSE
