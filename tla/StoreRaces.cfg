CONSTANTS
    c1 = c1
    c2 = c2
    k1 = k1
    k2 = k2
    NoScore = NoScore
    Campaign = {c1, c2}
    Client = {k1, k2}
    Payload = {1}
    Score = {1}
    PolicyOf <- RacingPolicyOf
    ThresholdOf <- RacingThresholdOf
    ManualStatus = {"cancelled"}
    MaxAttempts = 2
    MaxProposals = 2
SYMMETRY RacingSymmetry
SPECIFICATION Spec
INVARIANTS
    IInv
    OneRunningAttempt
    AttemptsSpendTheirLease
    LeaseIsIdempotent
PROPERTIES
    LeasesBindTheCurrentHistory
    VerdictIsFinal
    ImplementsOneShotLease
CHECK_DEADLOCK FALSE
