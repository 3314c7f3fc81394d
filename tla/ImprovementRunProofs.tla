------------------------ MODULE ImprovementRunProofs ------------------------
(***************************************************************************)
(* Theorems about ImprovementRun, for any set of artifacts.                *)
(*                                                                         *)
(* RefusedOnlyForItsDecision is no invariant by itself: that a promoted    *)
(* run lacks nothing but a decision rests on what its earlier statuses     *)
(* demanded, which IInv carries forward.                                   *)
(***************************************************************************)
EXTENDS ImprovementRun, TLAPS

\* A run starts with nothing but its baseline.
LEMMA InitHolds == Init => IInv
  BY ArtifactAssumption
     DEF Init, IInv, TypeOK, Statuses, CandidateOn, MeasuredOn, Terminal

\* Every call keeps what a status implies about the record.
LEMMA StepHolds == IInv /\ [Next]_vars => IInv'
<1> SUFFICES ASSUME IInv, [Next]_vars PROVE IInv'
  OBVIOUS
<1> USE ArtifactAssumption
<1>1. ASSUME NEW artifact \in Artifacts, SetCandidate(artifact) PROVE IInv'
  BY <1>1 DEF SetCandidate, ValidArtifact, TakesCandidate, IInv, TypeOK, Statuses, Terminal,
              CandidateOn, MeasuredOn, Measured, Evaluations
<1>2. ASSUME NEW artifact \in Artifacts, SetRollback(artifact) PROVE IInv'
  BY <1>2 DEF SetRollback, ValidArtifact, IInv, TypeOK, Statuses, Terminal, CandidateOn,
              MeasuredOn, Measured
<1>3. ASSUME NEW evidenced \in BOOLEAN, NEW verdict \in {"passed", "failed"},
             SetEvaluation(evidenced, verdict)
      PROVE  IInv'
  <2>1. evaluation' \in Evaluations /\ evaluation' # None
    BY <1>3 DEF SetEvaluation, IInv, TypeOK, Evaluations
  <2>2. guardrails' \in {"passed", "failed"} /\ guardrails' # None
    BY <1>3 DEF SetEvaluation
  <2> QED
    BY <1>3, <2>1, <2>2
       DEF SetEvaluation, IInv, TypeOK, Statuses, Terminal, CandidateOn,
           MeasuredOn
<1>4. ASSUME NEW action \in Decisions, SetDecision(action) PROVE IInv'
  BY <1>4 DEF SetDecision, IInv, TypeOK, Statuses, Terminal, CandidateOn,
              MeasuredOn, Measured, Decisions
<1>5. ASSUME NEW next \in Statuses, TransitionTo(next) PROVE IInv'
  <2>1. /\ next \in {"candidate"} => candidate # None
        /\ next = "verified" => Measured
        /\ next = "promoted" => rollback # None
        /\ next = "rejected" => decision = "reject"
        /\ next = "rolled_back" => rollback # None /\ decision = "rollback"
    BY <1>5 DEF TransitionTo, Demands
  <2>2. /\ next \in {"approved", "canary", "promoted", "rolled_back"} =>
              status \in MeasuredOn
        /\ next \in {"verified", "rejected"} => status \in CandidateOn
        /\ next \in {"draft", "baseline"} => status = "draft"
    BY <1>5 DEF TransitionTo, Allowed, MeasuredOn, CandidateOn
  <2> QED
    BY <1>5, <2>1, <2>2
       DEF TransitionTo, IInv, TypeOK, Statuses, Terminal, CandidateOn,
           MeasuredOn, Measured
<1>6. CASE UNCHANGED vars
  BY <1>6 DEF vars, IInv, TypeOK, Measured
<1> QED
  BY <1>1, <1>2, <1>3, <1>4, <1>5, <1>6 DEF Next

\* In every run: types, what a status implies about the record, and that the evaluation
\* is the candidate's unless set_candidate replaced it in status candidate.
THEOREM RunInvariant == Spec => []IInv
  BY InitHolds, StepHolds, PTL DEF Spec

\* What IInv leaves open of validate is the decision of an approved run.
LEMMA OnlyTheDecision == IInv => RefusedOnlyForItsDecision
  BY ArtifactAssumption
     DEF IInv, TypeOK, RefusedOnlyForItsDecision, Validate, ValidArtifact, CandidateOn,
         MeasuredOn, DecidedOn, Terminal, Statuses

\* A run that validate refuses is an approved one without its decision.
THEOREM OnlyDecisionsAreRefused == Spec => []RefusedOnlyForItsDecision
  BY RunInvariant, OnlyTheDecision, PTL

\* From verification on, no call touches the candidate or its evidence.
LEMMA FrozenStep ==
    [Next]_vars =>
       [(status \in MeasuredOn \union Terminal) =>
          UNCHANGED <<candidate, evaluation, guardrails>>]_vars
  BY DEF Next, vars, SetCandidate, SetEvaluation, SetDecision, SetRollback,
         TransitionTo, TakesCandidate, MeasuredOn, Terminal

\* What was measured is what is approved, tried and promoted.
THEOREM VerifiedRunsAreFrozen == Spec => VerifiedRunIsFrozen
  BY FrozenStep, PTL DEF Spec, VerifiedRunIsFrozen
=============================================================================
