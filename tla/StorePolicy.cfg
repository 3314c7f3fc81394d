CONSTANTS
    c1 = c1
    c2 = c2
    k1 = k1
    k2 = k2
    NoScore = NoScore
    Campaign = {c1}
    Client = {k1}
    Payload = {1}
    Score = {1, 2, 3}
    PolicyOf <- LongPolicyOf
    ThresholdOf <- LongThresholdOf
    ManualStatus = {"active", "cancelled"}
    MaxAttempts = 3
    MaxProposals = 3
SPECIFICATION Spec
INVARIANTS
    BestIsTheWinner
    StopPolicyHonoured
CHECK_DEADLOCK FALSE
