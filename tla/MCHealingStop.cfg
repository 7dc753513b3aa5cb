SPECIFICATION Spec
CONSTANTS
    Builds <- OneBuild
    Changed = "changed"
    Requests <- StopOnly
    CleanCopy = FALSE
PROPERTIES
    StopIsObeyed
CHECK_DEADLOCK FALSE
