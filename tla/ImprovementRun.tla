--------------------------- MODULE ImprovementRun ---------------------------
(***************************************************************************)
(* The lifecycle of an improvement run, the record that Learning and       *)
(* Research share (crates/core/improvement-contracts).  A call that the    *)
(* code answers with an error changes nothing and is no step here.  An     *)
(* artifact is a reference by id; of an evaluation it matters whether it   *)
(* has metrics and evidence.                                               *)
(***************************************************************************)
EXTENDS Integers

CONSTANTS
    Artifacts,          \* references to artifact versions
    WellFormed,         \* those whose id validate_id accepts
    None                \* an absent option

ASSUME ArtifactAssumption ==
    /\ WellFormed \subseteq Artifacts
    /\ None \notin Artifacts
    /\ None \notin {"promote", "reject", "rollback", "passed", "failed"}
    /\ None \notin [evidenced : BOOLEAN]

VARIABLES
    status,             \* where the run stands
    candidate,          \* the artifact that is to replace the baseline
    evaluation,         \* the last one recorded
    guardrails,         \* the verdict of the guardrails
    decision,           \* the last decision recorded
    rollback,           \* the artifact to go back to
    assessed,           \* history variable: the candidate that was last evaluated
    swapped             \* history variable: in status candidate, another one was named
                        \* after the evaluation, which the code keeps

vars == <<status, candidate, evaluation, guardrails, decision, rollback, assessed,
          swapped>>

Statuses == {"draft", "baseline", "candidate", "verified", "approved",
             "canary", "promoted", "rejected", "rolled_back"}

Terminal == {"rejected", "rolled_back"}

Decisions == {"promote", "reject", "rollback"}

Evaluations == [evidenced : BOOLEAN]

\* The types of an ImprovementRun's fields.
TypeOK ==
    /\ status \in Statuses
    /\ candidate \in WellFormed \union {None}
    /\ evaluation \in Evaluations \union {None}
    /\ guardrails \in {"passed", "failed", None}
    /\ decision \in Decisions \union {None}
    /\ {rollback, assessed} \subseteq WellFormed \union {None}
    /\ swapped \in BOOLEAN

(***************************************************************************)
(* ImprovementRun::new, once its id, objective and baseline are accepted.  *)
(***************************************************************************)
Init ==
    /\ status = "draft"
    /\ candidate = None
    /\ evaluation = None
    /\ guardrails = None
    /\ decision = None
    /\ rollback = None
    /\ assessed = None
    /\ swapped = FALSE

\* validate_artifact: a reference by an id of the right form.
ValidArtifact(artifact) == artifact \in WellFormed

(***************************************************************************)
(* The setters.                                                            *)
(***************************************************************************)
\* A bug in the guard of set_candidate: it also takes a verified run.
TakesCandidateMutant == {"draft", "baseline", "candidate", "verified"}

TakesCandidate == {"draft", "baseline", "candidate"}

SetCandidate(artifact) ==
    /\ ValidArtifact(artifact)
    /\ status \in TakesCandidate
    /\ candidate' = artifact
    /\ swapped' = (swapped \/ (status = "candidate" /\ evaluation # None))
    /\ UNCHANGED <<status, evaluation, guardrails, decision, rollback, assessed>>

SetEvaluation(evidenced, verdict) ==
    /\ candidate # None
    /\ status = "candidate"
    /\ evaluation' = [evidenced |-> evidenced]
    /\ guardrails' = verdict
    /\ assessed' = candidate
    /\ swapped' = FALSE
    /\ UNCHANGED <<status, candidate, decision, rollback>>

SetDecision(action) ==
    /\ status \notin Terminal
    /\ decision' = action
    /\ UNCHANGED <<status, candidate, evaluation, guardrails, rollback, assessed, swapped>>

SetRollback(artifact) ==
    /\ ValidArtifact(artifact)
    /\ status \in {"approved", "canary", "promoted"}
    /\ rollback' = artifact
    /\ UNCHANGED <<status, candidate, evaluation, guardrails, decision, assessed, swapped>>

(***************************************************************************)
(* transition_to: the edges, and what each target demands.                 *)
(***************************************************************************)
Allowed ==
    {<<"draft", "baseline">>, <<"baseline", "candidate">>,
     <<"candidate", "verified">>, <<"candidate", "rejected">>,
     <<"verified", "approved">>, <<"verified", "rejected">>,
     <<"approved", "canary">>, <<"approved", "rejected">>,
     <<"canary", "promoted">>, <<"canary", "rejected">>,
     <<"promoted", "rolled_back">>}

Measured == evaluation # None /\ evaluation.evidenced /\ guardrails = "passed"

\* A bug in transition_to: a verified run needs an evaluation, of any content.
DemandsMutant(next) ==
    /\ next \in {"candidate", "approved", "canary"} => candidate # None
    /\ next = "verified" => evaluation # None
    /\ next = "promoted" => rollback # None /\ decision = "promote"
    /\ next = "rejected" => decision = "reject"
    /\ next = "rolled_back" => rollback # None /\ decision = "rollback"

Demands(next) ==
    /\ next \in {"candidate", "approved", "canary"} => candidate # None
    /\ next = "verified" => Measured
    /\ next = "promoted" => rollback # None /\ decision = "promote"
    /\ next = "rejected" => decision = "reject"
    /\ next = "rolled_back" => rollback # None /\ decision = "rollback"

TransitionTo(next) ==
    /\ <<status, next>> \in Allowed
    /\ Demands(next)
    /\ status' = next
    /\ UNCHANGED <<candidate, evaluation, guardrails, decision, rollback, assessed, swapped>>

Next ==
    \/ \E artifact \in Artifacts : SetCandidate(artifact) \/ SetRollback(artifact)
    \/ \E evidenced \in BOOLEAN, verdict \in {"passed", "failed"} :
          SetEvaluation(evidenced, verdict)
    \/ \E action \in Decisions : SetDecision(action)
    \/ \E next \in Statuses : TransitionTo(next)

Spec == Init /\ [][Next]_vars

(***************************************************************************)
(* validate: what a reader of the stored projection accepts.               *)
(***************************************************************************)
CandidateOn == {"candidate", "verified", "approved", "canary", "promoted"}

MeasuredOn == {"verified", "approved", "canary", "promoted"}

DecidedOn == {"approved", "canary", "promoted"}

Validate ==
    /\ candidate # None => ValidArtifact(candidate)
    /\ rollback # None => ValidArtifact(rollback)
    /\ status \in CandidateOn => candidate # None
    /\ status \in MeasuredOn => Measured
    /\ status \in DecidedOn => decision = "promote"
    /\ status = "rejected" => decision = "reject"
    /\ status = "promoted" => rollback # None /\ decision = "promote"
    /\ status = "rolled_back" => rollback # None /\ decision = "rollback"

-----------------------------------------------------------------------------
(***************************************************************************)
(* Properties                                                              *)
(***************************************************************************)

\* transition_to and validate each have a table of what a status demands.  A
\* legal sequence of calls reaches a run that validate refuses only where the
\* tables differ: approval and canary ask for no decision, and a decision may
\* be replaced while it counts.
RefusedOnlyForItsDecision ==
    Validate \/ (status \in DecidedOn /\ decision # "promote")

\* What passed verification is what is approved, tried and promoted: from then
\* on, and when a run is closed, no call changes the candidate or its evidence
\* (set_candidate, set_evaluation, transition_to).
VerifiedRunIsFrozen ==
    [][(status \in MeasuredOn \union Terminal) =>
          UNCHANGED <<candidate, evaluation, guardrails>>]_vars

\* A run that went live carries metrics, evidence and passed guardrails, and they are of
\* the very artifact that went live, with one named exception: set_candidate, called in
\* status candidate after set_evaluation, leaves the old evaluation in place (swapped),
\* and what goes live was then never measured.  There is an artifact to go back to, and
\* a closed run says why it was closed.
IInv ==
    /\ TypeOK
    /\ status \in CandidateOn \union Terminal => candidate # None
    /\ evaluation # None <=> guardrails # None
    /\ evaluation # None => status \notin {"draft", "baseline"}
    /\ status \in MeasuredOn \union {"rolled_back"} => Measured
    /\ evaluation # None /\ ~swapped => assessed = candidate
    /\ status \in {"promoted", "rolled_back"} => rollback # None
    /\ status = "rejected" => decision = "reject"
    /\ status = "rolled_back" => decision = "rollback"
=============================================================================
