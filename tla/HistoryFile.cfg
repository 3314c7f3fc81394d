CONSTANTS
    t1 = t1
    t2 = t2
    Thread = {t1, t2}
    Main = t1
    MaxVersion = 3
    MaxClock = 2
    MaxCrashes = 2
SPECIFICATION Spec
INVARIANTS
    DeathLeavesATrace
    QuietFileIsCurrent
PROPERTIES
    FileNeverGoesBack
    WritesReachTheFile
CHECK_DEADLOCK FALSE
