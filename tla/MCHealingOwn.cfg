SPECIFICATION FairSpec
CONSTANTS
    Builds <- OneBuild
    Changed = "changed"
    Requests <- ByService
    CleanCopy = FALSE
PROPERTIES
    RecoveryRestores
CHECK_DEADLOCK FALSE
