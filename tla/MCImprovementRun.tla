-------------------------- MODULE MCImprovementRun --------------------------
(* Two well-formed artifacts, so that a candidate can be replaced, and one   *)
(* whose id is refused.                                                      *)
EXTENDS ImprovementRun

CONSTANTS a1, a2, malformed

MCArtifacts == {a1, a2, malformed}
MCWellFormed == {a1, a2}
=============================================================================
