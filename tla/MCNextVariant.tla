---------------------------- MODULE MCNextVariant -----------------------------
(* A small instance of NextVariant for TLC: the first attempt of a campaign  *)
(* is free, the next one needs a verified analysis.                          *)
EXTENDS NextVariant

CONSTANTS c1, k1, k2

SmallPolicyOf == [c \in {c1} |->
    [direction |-> "minimize", minDelta |-> 0, target |-> NoScore,
     maxFailures |-> 0, maxAttempts |-> 0, patience |-> 0]]
SmallThresholdOf == [c \in {c1} |-> 2]
=============================================================================
