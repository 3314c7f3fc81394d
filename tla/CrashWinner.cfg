CONSTANTS
    w1 = w1
    t1 = t1
    t2 = t2
    NoBytes = NoBytes
    Workspace = {w1}
    Thread = {t1, t2}
    Content = {1, 2}
    LegacyReset = FALSE
    Faults = FALSE
    MaxAttempts = 2
    MaxCrashes = 1
SPECIFICATION Spec
PROPERTIES
    KeptSurvives
CHECK_DEADLOCK TRUE
