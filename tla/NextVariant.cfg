CONSTANTS
    c1 = c1
    k1 = k1
    k2 = k2
    NoScore = NoScore
    NoEvidence = 0
    Campaign = {c1}
    Client = {k1, k2}
    Payload = {0, 1, 2}
    Score = {1}
    PolicyOf <- SmallPolicyOf
    ThresholdOf <- SmallThresholdOf
    ManualStatus = {}
    MaxAttempts = 2
    MaxProposals = 4
SPECIFICATION NextVariantSpec
INVARIANTS
    ReturnedLeasePays
CHECK_DEADLOCK FALSE
