SPECIFICATION Spec
CONSTANTS
    a1 = a1
    a2 = a2
    malformed = malformed
    None = None
    Artifacts <- MCArtifacts
    WellFormed <- MCWellFormed
INVARIANTS
    IInv
    RefusedOnlyForItsDecision
PROPERTIES
    VerifiedRunIsFrozen
CHECK_DEADLOCK FALSE
