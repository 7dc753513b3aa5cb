SPECIFICATION Spec
CONSTANTS
    RunsAsRoot = TRUE
    Pids <- Pids4
    Self = 10
    Images <- StrayAndOrphan
    UnderSystemd = FALSE
    PidReuse = "never"
    Failures = {"opendir", "netlink", "inotify"}
    Unavailable = {}
    ModuleLoaded = {}
    UnitActive = {TRUE}
    QueueCap = 1
    MaxForeign = 1
PROPERTIES
    ExecsAreAnalysed
    ImplementsResponse
INVARIANTS
    TypeOK
    SuspendedForCause
    SuspendedWasReported
    QuarantinedIsStopped
    LeavesNothingBehind
CHECK_DEADLOCK FALSE
