----------------------------- MODULE MCAttemptRun -----------------------------
(* Small instances of AttemptRun for TLC.                                  *)
EXTENDS AttemptRun

CONSTANTS w1, t1, t2
=============================================================================
