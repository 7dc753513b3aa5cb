SPECIFICATION FairSpec
CONSTANTS
    Builds <- OneBuild
    Changed = "changed"
    Requests <- Anything
    CleanCopy = FALSE
PROPERTIES
    WantedRuns
    TamperedDaemonEnds
    UninstallIsFinal
    StoppedStaysDown
    UninstalledStaysDown
CHECK_DEADLOCK FALSE
