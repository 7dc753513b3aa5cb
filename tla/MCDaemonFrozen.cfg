SPECIFICATION FairSpec
CONSTANTS
    RunsAsRoot = TRUE
    Pids <- Pids4
    Self = 10
    Images <- Nobody
    UnderSystemd = TRUE
    PidReuse = "late"
    Failures = {}
    Unavailable = {}
    ModuleLoaded = {TRUE}
    UnitActive = {TRUE}
    QueueCap = 1
    MaxForeign = 1
PROPERTY
    WatchdogKeepsChecking
CHECK_DEADLOCK FALSE
