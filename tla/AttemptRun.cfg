CONSTANTS
    w1 = w1
    t1 = t1
    t2 = t2
    NoBytes = NoBytes
    Workspace = {w1}
    Thread = {t1, t2}
    Content = {1, 2}
    LegacyReset = TRUE
    Faults = TRUE
    MaxAttempts = 2
    MaxCrashes = 2
SPECIFICATION Spec
INVARIANTS
    HeadIsWinner
    LedgerKeepsItsRows
PROPERTIES
    RunsTheApprovedTree
    ShutdownCutsNoRun
    WorkspacesComeFree
CHECK_DEADLOCK TRUE
