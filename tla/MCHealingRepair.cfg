SPECIFICATION Spec
CONSTANTS
    Builds <- OneBuild
    Changed = "changed"
    Requests <- Repairing
    CleanCopy = TRUE
PROPERTIES
    RestoreRepairs
CHECK_DEADLOCK FALSE
