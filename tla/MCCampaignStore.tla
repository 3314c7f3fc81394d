--------------------------- MODULE MCCampaignStore ---------------------------
(* Small instances of CampaignStore for TLC.                               *)
EXTENDS CampaignStore, TLC

CONSTANTS c1, c2, k1, k2

\* Races: two connections over two campaigns under the same policy.  The first
\* attempt of a campaign may be free, the next needs a verified analysis.
RacingPolicyOf == [c \in {c1, c2} |->
    [direction |-> "minimize", minDelta |-> 0, target |-> NoScore,
     maxFailures |-> 2, maxAttempts |-> 0, patience |-> 0]]
RacingThresholdOf == [c \in {c1, c2} |-> 2]
RacingSymmetry == Permutations({c1, c2}) \cup Permutations({k1, k2})

\* Policies: one campaign that runs several attempts under every rule.
LongPolicyOf == [c \in {c1} |->
    [direction |-> "maximize", minDelta |-> 1, target |-> 3,
     maxFailures |-> 2, maxAttempts |-> 3, patience |-> 2]]
LongThresholdOf == [c \in {c1} |-> 2]
=============================================================================
