SPECIFICATION Spec
CONSTANTS
    RunsAsRoot = TRUE
    Pids = {1, 2, 7}
    Ppids = {0, 1, 2, 7}
    Entropies = {0, 701, 751, 1000}
INVARIANTS
    HighIsQuarantined
