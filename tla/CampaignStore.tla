---------------------------- MODULE CampaignStore ----------------------------
(***************************************************************************)
(* The campaign store of the Python engine: sidecar/ryu_research/          *)
(* campaigns.py over one SQLite database in WAL mode, with the stop policy *)
(* of experiments.py.                                                      *)
(*                                                                         *)
(* A Client is one connection, in any engine process: HTTP handler threads *)
(* of one engine, and the connections of a second engine that a losing     *)
(* bind race leaves alive for a moment.  Nothing here relies on the locks  *)
(* of workspaces.py (AttemptRun models those): what this module shows, the *)
(* store's own transactions guarantee.                                     *)
(*                                                                         *)
(* A write that needs the history digest computes it BEFORE it takes the   *)
(* write lock, and recomputes it under the lock when PRAGMA data_version   *)
(* says that another connection committed in between (_begin_with_history).*)
(* Such a call is therefore two steps, Begin and the commit.  So is        *)
(* set_campaign_status, whose SELECT runs outside any transaction.         *)
(* Every other call is one transaction and one action.                     *)
(***************************************************************************)
EXTENDS Integers, Sequences, FiniteSets

CONSTANTS
    Campaign,      \* campaign ids (fresh uuid4 values: never reused)
    Client,        \* connections
    Score,         \* finite metric values, as integers
    NoScore,       \* SQL NULL: no finite metric
    Payload,       \* the texts of a proposal: query, reasoning, recommendation...
    PolicyOf,      \* the policy snapshot stored with a campaign at its creation
    ThresholdOf,   \* reasoning_threshold_chars, counted in history records
    ManualStatus,  \* statuses an operator sets; a terminal one stands for any
    MaxAttempts,   \* bound: attempts in the store
    MaxProposals   \* bound: rows of the analyses table

Terminal == {"completed", "failed", "cancelled"}
Directions == {"minimize", "maximize"}
Policy == [direction : Directions, minDelta : Nat, target : Int \cup {NoScore},
           maxFailures : Nat, maxAttempts : Nat, patience : Nat]

ASSUME StoreAssumption ==
    /\ Score \subseteq Int
    /\ NoScore \notin Score
    /\ PolicyOf \in [Campaign -> Policy]
    /\ ThresholdOf \in [Campaign -> Nat \ {0}]
    /\ ManualStatus \subseteq Terminal \cup {"active"}
    /\ MaxAttempts \in Nat
    /\ MaxProposals \in Nat

VARIABLES
    campaigns,     \* table campaigns: a row per id, "absent" before its INSERT
    attempts,      \* table attempts, by AUTOINCREMENT id
    proposals,     \* table analyses, by AUTOINCREMENT id
    op,            \* what each connection is in the middle of
    reopened       \* history variable: an operator set this campaign's status
                   \* since its policy was last evaluated

vars == <<campaigns, attempts, proposals, op, reopened>>

StopReasons == {"none", "target_reached", "max_failures", "max_attempts",
                "patience_exhausted", "manual"}
Kinds == {"freeform", "rlm_verified"}
AttemptId == 1..MaxAttempts

CampaignRow == [status : {"absent", "active", "running"} \cup Terminal,
                current : {0} \cup AttemptId,       \* 0 is SQL NULL
                best : {0} \cup AttemptId,
                bestScore : Score \cup {NoScore},
                stopReason : StopReasons]

\* blank: the description is empty and a commit sha names the attempt, so that
\* update_attempt_description may still fill it.
AttemptRow == [campaign : Campaign, ordinal : AttemptId,
               status : {"running", "ok", "crash", "interrupted"},
               decision : {"pending", "kept", "rejected"},
               score : Score \cup {NoScore},
               blank : BOOLEAN,
               proposal : 1..MaxProposals]

-----------------------------------------------------------------------------
(* The history of a campaign.                                              *)

AttemptsOf(rows, c) == {a \in DOMAIN rows : rows[a].campaign = c}

\* The fields of an attempt that enter the digest; the proposal it consumed does not.
Canonical(row) == [ordinal |-> row.ordinal, status |-> row.status,
                   decision |-> row.decision, score |-> row.score, blank |-> row.blank]

\* sha256 over the canonical JSON lines, modelled by the lines themselves.  The
\* campaign's own line never changes after creation and does not hold its id.
Digest(rows, c) == [a \in AttemptsOf(rows, c) |-> Canonical(rows[a])]

CanonicalRow == [ordinal : AttemptId, status : {"running", "ok", "crash", "interrupted"},
                 decision : {"pending", "kept", "rejected"},
                 score : Score \cup {NoScore}, blank : BOOLEAN]
DigestValue == UNION {[ids -> CanonicalRow] : ids \in SUBSET AttemptId}

\* The history grows by a record per attempt; from the threshold on, only a
\* verified recursive analysis may license the next attempt.
RequiredKind(rows, c) ==
    IF Cardinality(AttemptsOf(rows, c)) + 1 >= ThresholdOf[c]
    THEN "rlm_verified" ELSE "freeform"

HistoryState(rows, c) == [digest |-> Digest(rows, c),
                          count |-> Cardinality(AttemptsOf(rows, c)),
                          kind |-> RequiredKind(rows, c)]

HistoryValue == [digest : DigestValue, count : 0..MaxAttempts, kind : Kinds]

ProposalRow == [campaign : Campaign, kind : Kinds \cup {"legacy_unverified"},
                after : 0..MaxAttempts, digest : DigestValue,
                payload : Payload, consumedBy : {0} \cup AttemptId]

Idle == [step |-> "idle"]
Calls == {"propose", "analyze", "start"}
Begun == [step : {"begun"}, call : Calls, campaign : Campaign,
          seen : HistoryValue, moved : BOOLEAN]
InRun == [step : {"running"}, attempt : AttemptId]
Checked == [step : {"checked"}, campaign : Campaign, status : ManualStatus]
OpValue == {Idle} \cup Begun \cup InRun \cup Checked

-----------------------------------------------------------------------------
(* The policy of experiments.py, pure functions of the stored rows.        *)

\* The code adds 1e-12 to min_delta against float noise; integers have none.
Improves(candidate, incumbent, policy) ==
    /\ candidate # NoScore
    /\ \/ incumbent = NoScore
       \/ /\ policy.direction = "minimize"
          /\ incumbent - candidate > policy.minDelta
       \/ /\ policy.direction = "maximize"
          /\ candidate - incumbent > policy.minDelta

TargetReached(best, policy) ==
    /\ best # NoScore
    /\ policy.target # NoScore
    /\ \/ policy.direction = "minimize" /\ best <= policy.target
       \/ policy.direction = "maximize" /\ best >= policy.target

\* How many of ids come after the last of marks: the two reversed() loops.
TrailingAfter(ids, marks) == Cardinality({a \in ids : \A m \in marks : m < a})

StopReason(rows, c, best) ==
    LET policy == PolicyOf[c]
        ids == AttemptsOf(rows, c)
        failures == TrailingAfter(ids, {a \in ids : rows[a].status = "ok"})
        losers == TrailingAfter(ids, {a \in ids : rows[a].decision = "kept"})
    IN  IF TargetReached(best, policy) THEN "target_reached"
        ELSE IF policy.maxFailures > 0 /\ failures >= policy.maxFailures
        THEN "max_failures"
        ELSE IF policy.maxAttempts > 0 /\ Cardinality(ids) >= policy.maxAttempts
        THEN "max_attempts"
        ELSE IF policy.patience > 0 /\ losers >= policy.patience
        THEN "patience_exhausted"
        ELSE "none"

\* Failure exhaustion is reported as failed, every other stop as completed.
StatusAfterMutant(reason) ==   \* mutant: patience is evaluated but stops nothing
    IF reason \in {"none", "patience_exhausted"} THEN "active" ELSE "completed"
StatusAfter(reason) ==
    IF reason = "none" THEN "active"
    ELSE IF reason = "max_failures" THEN "failed" ELSE "completed"

-----------------------------------------------------------------------------
Init ==
    /\ campaigns = [c \in Campaign |->
           [status |-> "absent", current |-> 0, best |-> 0,
            bestScore |-> NoScore, stopReason |-> "none"]]
    /\ attempts = <<>>
    /\ proposals = <<>>
    /\ op = [k \in Client |-> Idle]
    /\ reopened = [c \in Campaign |-> FALSE]

Exists(c) == campaigns[c].status # "absent"

\* A commit moves PRAGMA data_version for every other open connection.
MovedMutant(o) == o            \* mutant: the data_version check is dropped
Moved(o) == IF o.step = "begun" THEN [o EXCEPT !.moved = TRUE] ELSE o
CommittedBy(k, next) == [j \in Client |-> IF j = k THEN next ELSE Moved(op[j])]
CommittedElsewhere == [j \in Client |-> Moved(op[j])]

\* The state a write acts on: its snapshot, or a new one when the version moved.
SeenNowMutant(k) == op[k].seen \* mutant: the snapshot is not recomputed under the lock
SeenNow(k) ==
    IF op[k].moved THEN HistoryState(attempts, op[k].campaign) ELSE op[k].seen

Create(c) ==
    /\ ~Exists(c)
    /\ campaigns' = [campaigns EXCEPT ![c].status = "active"]
    /\ op' = CommittedElsewhere
    /\ UNCHANGED <<attempts, proposals, reopened>>

\* The first half of _begin_with_history: the snapshot, outside any lock.  The
\* author of a proposal read the same state, no later: seen.digest also stands
\* for the history_digest the request supplies.
Begin(k, call, c) ==
    /\ op[k] = Idle
    /\ Exists(c)
    /\ op' = [op EXCEPT ![k] =
                 [step |-> "begun", call |-> call, campaign |-> c,
                  seen |-> HistoryState(attempts, c), moved |-> FALSE]]
    /\ UNCHANGED <<campaigns, attempts, proposals, reopened>>

Row(c, kind, h, payload) ==
    [campaign |-> c, kind |-> kind, after |-> h.count, digest |-> h.digest,
     payload |-> payload, consumedBy |-> 0]

\* The rows an identical proposal would repeat; consumed or not.
SameLeaseMutant(c, kind, h, payload) == {}   \* mutant: no lookup before the INSERT
SameLease(c, kind, h, payload) ==
    {p \in DOMAIN proposals :
        /\ proposals[p].campaign = c
        /\ proposals[p].kind = kind
        /\ proposals[p].after = h.count
        /\ proposals[p].digest = h.digest
        /\ proposals[p].payload = payload}

SuppliedDigest(k) == op[k].seen.digest

\* create_proposal under the write lock: refused unless the digest its author
\* read is still the campaign's, an identical lease is returned and not repeated.
\* It does not look at the required kind: start_attempt does.
CreateProposal(k, kind, payload) ==
    LET c == op[k].campaign
        h == SeenNow(k)
    IN  /\ op[k].step = "begun"
        /\ op[k].call = "propose"
        /\ SuppliedDigest(k) = h.digest
        /\ IF SameLease(c, kind, h, payload) # {}
           THEN /\ op' = [op EXCEPT ![k] = Idle]
                /\ UNCHANGED proposals
           ELSE /\ Len(proposals) < MaxProposals
                /\ proposals' = Append(proposals, Row(c, kind, h, payload))
                /\ op' = CommittedBy(k, Idle)
        /\ UNCHANGED <<campaigns, attempts, reopened>>

\* POST /campaigns/:id/analyses: recorded, never a lease.
RecordAnalysis(k, payload) ==
    /\ op[k].step = "begun"
    /\ op[k].call = "analyze"
    /\ Len(proposals) < MaxProposals
    /\ proposals' = Append(proposals,
           Row(op[k].campaign, "legacy_unverified", SeenNow(k), payload))
    /\ op' = CommittedBy(k, Idle)
    /\ UNCHANGED <<campaigns, attempts, reopened>>

SomeRunningMutant ==           \* mutant: the campaign rows are asked instead
    \E c \in Campaign : campaigns[c].status = "running"
NoneRunningMutant == FALSE     \* mutant: the check is dropped
SomeRunning == \E a \in DOMAIN attempts : attempts[a].status = "running"

\* create_proposal stores a kind only with the evidence the kind needs, so what
\* is left of _proposal_is_valid is the kind and the consumption.
IsValid(p, kind) == proposals[p].kind = kind /\ proposals[p].consumedBy = 0

IsCurrentMutant(p, c, h) ==    \* mutant: the campaign of the lease is not compared
    /\ proposals[p].after = h.count
    /\ proposals[p].digest = h.digest
IsCurrent(p, c, h) ==
    /\ proposals[p].campaign = c
    /\ proposals[p].after = h.count
    /\ proposals[p].digest = h.digest

\* start_attempt under the write lock: the lease is consumed and the running
\* attempt inserted in one transaction.
StartAttempt(k, p) ==
    LET c == op[k].campaign
        h == SeenNow(k)
        new == Len(attempts) + 1
    IN  /\ op[k].step = "begun"
        /\ op[k].call = "start"
        /\ Len(attempts) < MaxAttempts
        /\ ~SomeRunning
        /\ campaigns[c].status \notin Terminal
        /\ IsCurrent(p, c, h)
        /\ IsValid(p, h.kind)
        /\ attempts' = Append(attempts,
               [campaign |-> c, ordinal |-> h.count + 1, status |-> "running",
                decision |-> "pending", score |-> NoScore, blank |-> FALSE,
                proposal |-> p])
        /\ proposals' = [proposals EXCEPT ![p].consumedBy = new]
        /\ campaigns' = [campaigns EXCEPT ![c] =
               [@ EXCEPT !.status = "running", !.current = new, !.stopReason = "none"]]
        /\ op' = CommittedBy(k, [step |-> "running", attempt |-> new])
        /\ UNCHANGED reopened

\* Only a running attempt takes a verdict: a run that outlived a restart finds its
\* attempt interrupted.
AwaitsVerdictMutant(a) == TRUE   \* mutant: finish_attempt trusts its caller
AwaitsVerdict(a) == attempts[a].status = "running"

ImprovedMutant(c, status, score) ==   \* mutant: compared with the last attempt's score
    LET ids == {a \in AttemptsOf(attempts, c) : attempts[a].status # "running"}
        last == {a \in ids : \A b \in ids : b <= a}
    IN  status = "ok" /\ \A a \in last : Improves(score, attempts[a].score, PolicyOf[c])
Improved(c, status, score) ==
    status = "ok" /\ Improves(score, campaigns[c].bestScore, PolicyOf[c])

\* finish_attempt: the verdict, the campaign's best and its stop policy, in one
\* transaction.  "crash" stands for the crash and timeout statuses, which the code
\* never tells apart; a run may exit 0 and still print no metric.
FinishAttempt(k, status, score, blank) ==
    LET a == op[k].attempt
        c == attempts[a].campaign
        improved == Improved(c, status, score)
        rows == [attempts EXCEPT ![a] =
                    [@ EXCEPT !.status = status,
                              !.decision = IF improved THEN "kept" ELSE "rejected",
                              !.score = score,
                              !.blank = blank]]
        best == IF improved THEN score ELSE campaigns[c].bestScore
        reason == StopReason(rows, c, best)
    IN  /\ op[k].step = "running"
        /\ AwaitsVerdict(a)
        /\ attempts' = rows
        /\ campaigns' = [campaigns EXCEPT ![c] =
               [@ EXCEPT !.status = StatusAfter(reason),
                         !.current = 0,
                         !.best = IF improved THEN a ELSE campaigns[c].best,
                         !.bestScore = best,
                         !.stopReason = reason]]
        /\ op' = CommittedBy(k, Idle)
        /\ reopened' = [reopened EXCEPT ![c] = FALSE]
        /\ UNCHANGED proposals

\* update_attempt_description: fills an empty description, and so moves the digest.
DescribeAttempt(a) ==
    /\ attempts[a].blank
    /\ attempts' = [attempts EXCEPT ![a] = [@ EXCEPT !.blank = FALSE]]
    /\ op' = CommittedElsewhere
    /\ UNCHANGED <<campaigns, proposals, reopened>>

\* set_campaign_status, its SELECT: nothing locks the row until the UPDATE.
CheckStatus(k, c, status) ==
    /\ op[k] = Idle
    /\ Exists(c)
    /\ campaigns[c].current = 0
    /\ op' = [op EXCEPT ![k] = [step |-> "checked", campaign |-> c, status |-> status]]
    /\ UNCHANGED <<campaigns, attempts, proposals, reopened>>

\* ... and its UPDATE.
SetStatus(k) ==
    LET c == op[k].campaign
        status == op[k].status
    IN  /\ op[k].step = "checked"
        /\ campaigns' = [campaigns EXCEPT ![c] =
               [@ EXCEPT !.status = status,
                         !.stopReason = IF status \in Terminal THEN "manual" ELSE "none"]]
        /\ op' = CommittedBy(k, Idle)
        /\ reopened' = [reopened EXCEPT ![c] = TRUE]
        /\ UNCHANGED <<attempts, proposals>>

\* The call is refused, fails and rolls back, or its process dies.
Abandon(k) ==
    /\ op[k] # Idle
    /\ op' = [op EXCEPT ![k] = Idle]
    /\ UNCHANGED <<campaigns, attempts, proposals, reopened>>

\* initialize_store of an engine that starts, the only one alive or not.
Startup ==
    /\ attempts' = [a \in DOMAIN attempts |->
           IF attempts[a].status = "running"
           THEN [attempts[a] EXCEPT !.status = "interrupted", !.decision = "rejected"]
           ELSE attempts[a]]
    /\ campaigns' = [c \in Campaign |->
           IF campaigns[c].status = "running"
           THEN [campaigns[c] EXCEPT !.status = "active", !.current = 0]
           ELSE campaigns[c]]
    /\ op' = CommittedElsewhere
    /\ UNCHANGED <<proposals, reopened>>

Next ==
    \/ \E c \in Campaign : Create(c)
    \/ \E k \in Client, call \in Calls, c \in Campaign : Begin(k, call, c)
    \/ \E k \in Client, kind \in Kinds, payload \in Payload : CreateProposal(k, kind, payload)
    \/ \E k \in Client, payload \in Payload : RecordAnalysis(k, payload)
    \/ \E k \in Client, p \in DOMAIN proposals : StartAttempt(k, p)
    \/ \E k \in Client, status \in {"ok", "crash"}, score \in Score \cup {NoScore},
          blank \in BOOLEAN : FinishAttempt(k, status, score, blank)
    \/ \E a \in DOMAIN attempts : DescribeAttempt(a)
    \/ \E k \in Client, c \in Campaign, status \in ManualStatus :
          CheckStatus(k, c, status)
    \/ \E k \in Client : SetStatus(k)
    \/ \E k \in Client : Abandon(k)
    \/ Startup

Spec == Init /\ [][Next]_vars

-----------------------------------------------------------------------------
(* Properties.                                                             *)

\* Every table row and every connection's private state has its declared shape.
TypeOK ==
    /\ campaigns \in [Campaign -> CampaignRow]
    /\ attempts \in Seq(AttemptRow)
    /\ Len(attempts) <= MaxAttempts
    /\ proposals \in Seq(ProposalRow)
    /\ Len(proposals) <= MaxProposals
    /\ op \in [Client -> OpValue]
    /\ reopened \in [Campaign -> BOOLEAN]

\* At most one attempt runs in the whole store, whatever the number of engines
\* writing to it, and the campaign it belongs to names it as its current attempt
\* (start_attempt's running check and its insert are one transaction).
OneRunningAttempt ==
    \A a \in DOMAIN attempts : attempts[a].status = "running" =>
        /\ campaigns[attempts[a].campaign].current = a
        /\ \A b \in DOMAIN attempts : attempts[b].status = "running" => b = a

AttemptsPaid ==
    \A a \in DOMAIN attempts :
        LET p == attempts[a].proposal
        IN  /\ p \in DOMAIN proposals
            /\ proposals[p].consumedBy = a
            /\ proposals[p].campaign = attempts[a].campaign
            /\ proposals[p].kind \in Kinds
            /\ proposals[p].after + 1 = attempts[a].ordinal
SpentOnAttempts ==
    \A p \in DOMAIN proposals : proposals[p].consumedBy # 0 =>
        /\ proposals[p].consumedBy \in DOMAIN attempts
        /\ attempts[proposals[p].consumedBy].proposal = p
Ordinals(rows, c) == {rows[a].ordinal : a \in AttemptsOf(rows, c)}
OrdinalsCount ==
    \A c \in Campaign :
        Ordinals(attempts, c) = 1..Cardinality(AttemptsOf(attempts, c))

\* Attempts and consumed leases pair off one to one, inside a campaign; the n-th
\* attempt of a campaign spent a lease issued after exactly n-1 attempts; ordinals
\* have no gap and no repetition (UNIQUE(campaign_id, ordinal) never fires).
AttemptsSpendTheirLease ==
    /\ AttemptsPaid
    /\ SpentOnAttempts
    /\ OrdinalsCount

\* A snapshot that the version pragma does not report as moved IS the history, so
\* the recheck of _begin_with_history is enough for the digest to be computed with
\* no lock held.
SnapshotsAreCurrent ==
    \A k \in Client : op[k].step = "begun" =>
        /\ Exists(op[k].campaign)
        /\ ~op[k].moved => op[k].seen = HistoryState(attempts, op[k].campaign)

\* Retrying POST /proposals, also concurrently, never issues a second lease for
\* the same reasoning over the same history (create_proposal's idempotency).
LeaseIsIdempotent ==
    \A p, q \in DOMAIN proposals :
        /\ proposals[p].kind \in Kinds
        /\ [proposals[p] EXCEPT !.consumedBy = 0] = [proposals[q] EXCEPT !.consumedBy = 0]
        => p = q

\* The campaign's best is its last kept attempt, and no successful attempt ever
\* made beats it by more than min_delta: no winner was rejected and no kept
\* score was lost, through crashes and restarts of the engine.
BestIsTheWinner ==
    \A c \in Campaign :
        LET row == campaigns[c]
            ids == AttemptsOf(attempts, c)
        IN  /\ row.best = 0 => row.bestScore = NoScore
            /\ row.best # 0 =>
                 /\ row.best \in ids
                 /\ attempts[row.best].decision = "kept"
                 /\ attempts[row.best].score = row.bestScore
                 /\ row.bestScore # NoScore
            /\ \A a \in ids :
                 /\ attempts[a].decision = "kept" =>
                       a <= row.best /\ attempts[a].status = "ok"
                 /\ attempts[a].status = "ok" =>
                       ~Improves(attempts[a].score, row.bestScore, PolicyOf[c])

\* A campaign that is active after a finished attempt is one its stop policy lets
\* go on, unless an operator set its status since (finish_attempt evaluates the
\* policy in the transaction that gives the verdict).  An attempt interrupted by
\* a restart is not evaluated: Startup leaves the campaign active.
StopPolicyHonoured ==
    \A c \in Campaign :
        LET ids == AttemptsOf(attempts, c)
        IN  /\ campaigns[c].status = "active"
            /\ ~reopened[c]
            /\ ids # {}
            /\ \A a \in ids : (\A b \in ids : b <= a) =>
                   attempts[a].status \in {"ok", "crash"}
            => StopReason(attempts, c, campaigns[c].bestScore) = "none"

\* A lease is issued for, and spent on, exactly the history its campaign has at
\* that moment, and a proposal's author read exactly that history: "a writer never
\* acts on a stale digest" (_begin_with_history), though it is computed unlocked.
LeasesBindTheCurrentHistory ==
    [][/\ \A p \in DOMAIN proposals' \ DOMAIN proposals :
            LET c == proposals'[p].campaign
            IN  /\ proposals'[p].digest = Digest(attempts, c)
                /\ proposals'[p].after = Cardinality(AttemptsOf(attempts, c))
                /\ proposals'[p].kind \in Kinds => \E k \in Client :
                      op[k].step = "begun" /\ op[k].call = "propose" /\ SuppliedDigest(k) = Digest(attempts, c)
       /\ \A p \in DOMAIN proposals :
            LET c == proposals[p].campaign
            IN  proposals[p].consumedBy # proposals'[p].consumedBy =>
                  /\ proposals[p].digest = Digest(attempts, c)
                  /\ proposals[p].kind = RequiredKind(attempts, c)
      ]_vars

\* A verdict is final: no later call, late answer or restart revises it.
VerdictIsFinal ==
    [][\A a \in DOMAIN attempts : attempts[a].decision # "pending" =>
           [attempts'[a] EXCEPT !.blank = FALSE] = [attempts[a] EXCEPT !.blank = FALSE]]_vars

\* The store keeps the promise of OneShotLease: analyses rows are its leases (a
\* compatibility analysis is one that is never spent), attempts its verdicts.
Lease == INSTANCE OneShotLease WITH
    spent <- [p \in DOMAIN proposals |-> proposals[p].consumedBy],
    verdict <- [a \in DOMAIN attempts |-> attempts[a].decision]

ImplementsOneShotLease == Lease!Spec

RunsHoldAttempts ==
    \A k \in Client : op[k].step = "running" => op[k].attempt \in DOMAIN attempts
PendingIsRunning ==
    \A a \in DOMAIN attempts :
        attempts[a].decision = "pending" <=> attempts[a].status = "running"

\* The inductive invariant behind the safety properties: besides them, a
\* connection in a run holds an attempt that exists, and only a running attempt
\* waits for its verdict.
IInv ==
    /\ TypeOK
    /\ SnapshotsAreCurrent
    /\ OneRunningAttempt
    /\ AttemptsSpendTheirLease
    /\ RunsHoldAttempts
    /\ PendingIsRunning

\* "cannot change status while an attempt is running" (campaigns.py, the refusal
\* of set_campaign_status): a campaign's status is left alone from the start of an
\* attempt to its verdict.
StatusFrozenWhileRunning ==
    [][\A a \in DOMAIN attempts :
          LET c == attempts[a].campaign
          IN  attempts[a].status = "running" /\ attempts'[a].status = "running" =>
                  campaigns'[c].status = campaigns[c].status]_vars
=============================================================================
