CONSTANTS
    c1 = c1
    c2 = c2
    k1 = k1
    k2 = k2
    NoScore = NoScore
    Campaign = {c1}
    Client = {k1, k2}
    Payload = {1}
    Score = {1}
    PolicyOf <- LongPolicyOf
    ThresholdOf <- LongThresholdOf
    ManualStatus = {"cancelled"}
    MaxAttempts = 1
    MaxProposals = 1
SPECIFICATION Spec
PROPERTIES
    StatusFrozenWhileRunning
CHECK_DEADLOCK FALSE
