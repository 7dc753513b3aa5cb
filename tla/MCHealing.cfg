SPECIFICATION Spec
CONSTANTS
    Builds <- TwoBuilds
    Changed = "changed"
    Requests <- Ordinary
    CleanCopy = FALSE
INVARIANTS
    TypeOK
    UnitHasProcess
    ImageIsAttested
CHECK_DEADLOCK FALSE
