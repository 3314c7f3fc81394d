-------------------------- MODULE CampaignStoreProofs --------------------------
(***************************************************************************)
(* What TLAPS proves of CampaignStore, for every set of campaigns,         *)
(* connections, scores and policies and every bound, and of NextVariant,   *)
(* that it does nothing the store does not allow.                          *)
(***************************************************************************)
EXTENDS NextVariant, FiniteSetTheorems, SequenceTheorems, NaturalsInduction,
        WellFoundedInduction, TLAPS

-----------------------------------------------------------------------------
(* The history of a campaign.                                              *)

\* The attempts of a campaign are finitely many, no more than the table has rows,
\* and their history state has its type.
LEMMA HistoryTyped ==
    ASSUME NEW rows \in Seq(AttemptRow), Len(rows) <= MaxAttempts, NEW c \in Campaign
    PROVE  /\ IsFiniteSet(AttemptsOf(rows, c))
           /\ Cardinality(AttemptsOf(rows, c)) \in 0..Len(rows)
           /\ HistoryState(rows, c) \in HistoryValue
<1>1. /\ AttemptsOf(rows, c) \in SUBSET (1..Len(rows))
      /\ Len(rows) \in Nat
      /\ MaxAttempts \in Nat
    BY LenProperties, StoreAssumption DEF AttemptsOf
<1>2. /\ IsFiniteSet(1..Len(rows))
      /\ Cardinality(1..Len(rows)) = Len(rows)
    <2>1. 1 \in Int /\ Len(rows) \in Int
        BY <1>1
    <2>2. /\ IsFiniteSet(1..Len(rows))
          /\ Cardinality(1..Len(rows)) = IF 1 > Len(rows) THEN 0 ELSE Len(rows) - 1 + 1
        BY ONLY <2>1, FS_Interval, Zenon
    <2>3. QED
        BY <1>1, <2>2
<1>3. /\ IsFiniteSet(AttemptsOf(rows, c))
      /\ Cardinality(AttemptsOf(rows, c)) <= Len(rows)
    BY <1>1, <1>2, FS_Subset
<1>4. Cardinality(AttemptsOf(rows, c)) \in Nat
    BY <1>3, FS_CardinalityType
<1>5. \A a \in AttemptsOf(rows, c) : Canonical(rows[a]) \in CanonicalRow
    <2>1. TAKE a \in AttemptsOf(rows, c)
    <2>2. rows[a] \in AttemptRow
        BY <1>1, <2>1, ElementOfSeq
    <2>3. QED
        BY <2>2 DEF AttemptRow, Canonical, CanonicalRow
<1>6. Digest(rows, c) \in [AttemptsOf(rows, c) -> CanonicalRow]
    BY <1>5 DEF Digest
<1>7. AttemptsOf(rows, c) \in SUBSET AttemptId
    BY <1>1 DEF AttemptId
<1>8. Digest(rows, c) \in DigestValue
    BY <1>6, <1>7 DEF DigestValue
<1>9. RequiredKind(rows, c) \in Kinds
    BY DEF RequiredKind, Kinds
<1>10. QED
    BY <1>1, <1>3, <1>4, <1>8, <1>9 DEF HistoryState, HistoryValue

\* A row appended to the table extends its own campaign's attempts by its id and
\* leaves every other campaign's alone.
LEMMA AppendedAttempt ==
    ASSUME NEW rows \in Seq(AttemptRow), Len(rows) <= MaxAttempts,
           NEW row \in AttemptRow, NEW c \in Campaign
    PROVE  LET longer == Append(rows, row)
           IN  /\ AttemptsOf(longer, c) = IF row.campaign = c
                      THEN AttemptsOf(rows, c) \cup {Len(rows) + 1}
                      ELSE AttemptsOf(rows, c)
               /\ Cardinality(AttemptsOf(longer, c)) = Cardinality(AttemptsOf(rows, c))
                      + IF row.campaign = c THEN 1 ELSE 0
<1> DEFINE longer == Append(rows, row)
<1>1. /\ longer \in Seq(AttemptRow)
      /\ Len(longer) = Len(rows) + 1
      /\ \A a \in 1..Len(rows) : longer[a] = rows[a]
      /\ longer[Len(rows) + 1] = row
    BY AppendProperties
<1>2. /\ DOMAIN rows = 1..Len(rows)
      /\ DOMAIN longer = 1..(Len(rows) + 1)
      /\ Len(rows) \in Nat
    BY <1>1, LenProperties
<1>3. AttemptsOf(longer, c) = IF row.campaign = c
          THEN AttemptsOf(rows, c) \cup {Len(rows) + 1} ELSE AttemptsOf(rows, c)
    <2> HIDE DEF longer
    <2>1. QED BY <1>1, <1>2 DEF AttemptsOf
<1>4. IsFiniteSet(AttemptsOf(rows, c)) /\ Cardinality(AttemptsOf(rows, c)) \in Nat
    BY HistoryTyped, FS_CardinalityType
<1>5. Len(rows) + 1 \notin AttemptsOf(rows, c)
    BY <1>2 DEF AttemptsOf
<1>6. Cardinality(AttemptsOf(rows, c) \cup {Len(rows) + 1})
          = Cardinality(AttemptsOf(rows, c)) + 1
    BY <1>4, <1>5, FS_AddElement
<1>7. QED
    BY <1>3, <1>4, <1>6

-----------------------------------------------------------------------------
(* Connections.                                                            *)

\* The step of a connection tells the shape of the rest of its state.
LEMMA OpShape ==
    ASSUME NEW o \in OpValue
    PROVE  /\ o.step \in {"idle", "begun", "running", "checked"}
           /\ o.step = "idle" <=> o = Idle
           /\ o.step = "begun" <=> o \in Begun
           /\ o.step = "running" <=> o \in InRun
           /\ o.step = "checked" <=> o \in Checked
    BY DEF OpValue, Idle, Begun, InRun, Checked

\* A commit marks every snapshot held by another connection as moved and changes
\* nothing else of theirs.
LEMMA MovedShape ==
    ASSUME NEW o \in OpValue
    PROVE  /\ Moved(o) \in OpValue
           /\ o.step # "begun" => Moved(o) = o
           /\ o.step = "begun" =>
                 /\ Moved(o).step = "begun"
                 /\ Moved(o).moved
                 /\ Moved(o).campaign = o.campaign
<1>1. CASE o.step # "begun"
    BY <1>1 DEF Moved
<1>2. CASE o.step = "begun"
    <2>1. o \in Begun
        BY <1>2, OpShape
    <2>2. /\ Moved(o) \in Begun
          /\ Moved(o).step = "begun"
          /\ Moved(o).moved
          /\ Moved(o).campaign = o.campaign
        BY <1>2, <2>1 DEF Moved, Begun
    <2>3. QED
        BY <1>2, <2>2 DEF OpValue
<1>3. QED
    BY <1>1, <1>2

\* What a commit does to the connections, when its own one is left outside a
\* digest computation.
LEMMA CommittedOps ==
    ASSUME TypeOK, NEW next \in OpValue, next.step # "begun",
           (\E k \in Client : op' = CommittedBy(k, next)) \/ op' = CommittedElsewhere
    PROVE  /\ op' \in [Client -> OpValue]
           /\ \A j \in Client :
                /\ op'[j].step = "begun" =>
                      /\ op[j].step = "begun"
                      /\ op'[j].moved
                      /\ op'[j].campaign = op[j].campaign
                /\ op'[j].step = "running" => op'[j] = next \/ op'[j] = op[j]
<1>1. \A j \in Client :
        /\ op[j] \in OpValue
        /\ Moved(op[j]) \in OpValue
        /\ op[j].step # "begun" => Moved(op[j]) = op[j]
        /\ op[j].step = "begun" =>
              /\ Moved(op[j]).step = "begun"
              /\ Moved(op[j]).moved
              /\ Moved(op[j]).campaign = op[j].campaign
    BY MovedShape DEF TypeOK
<1>2. CASE \E k \in Client : op' = CommittedBy(k, next)
    BY <1>1, <1>2 DEF CommittedBy
<1>3. CASE op' = CommittedElsewhere
    BY <1>1, <1>3 DEF CommittedElsewhere
<1>4. QED
    BY <1>2, <1>3

\* The state a write acts on is the history its campaign has at that moment.
LEMMA SeenIsCurrent ==
    ASSUME IInv, NEW k \in Client, op[k].step = "begun"
    PROVE  /\ op[k].campaign \in Campaign
           /\ Exists(op[k].campaign)
           /\ SeenNow(k) = HistoryState(attempts, op[k].campaign)
           /\ SeenNow(k) \in HistoryValue
<1>1. op[k] \in Begun
    BY OpShape DEF IInv, TypeOK
<1>2. op[k].campaign \in Campaign /\ op[k].moved \in BOOLEAN
    BY <1>1 DEF Begun
<1>3. /\ Exists(op[k].campaign)
      /\ SeenNow(k) = HistoryState(attempts, op[k].campaign)
    BY <1>2 DEF IInv, SnapshotsAreCurrent, SeenNow
<1>4. HistoryState(attempts, op[k].campaign) \in HistoryValue
    BY <1>2, HistoryTyped DEF IInv, TypeOK
<1>5. QED
    BY <1>2, <1>3, <1>4

\* When no campaign disappears, a commit keeps every snapshot current.
LEMMA CommitKeepsSnapshots ==
    ASSUME IInv, NEW next \in OpValue, next.step # "begun",
           (\E k \in Client : op' = CommittedBy(k, next)) \/ op' = CommittedElsewhere,
           \A c \in Campaign : Exists(c) => Exists(c)'
    PROVE  SnapshotsAreCurrent'
<1>1. \A j \in Client : op'[j].step = "begun" =>
          /\ op[j].step = "begun"
          /\ op'[j].moved
          /\ op'[j].campaign = op[j].campaign
    BY CommittedOps DEF IInv
<1>2. QED
    BY <1>1, SeenIsCurrent DEF SnapshotsAreCurrent, Exists

-----------------------------------------------------------------------------
(* Every action preserves the inductive invariant.                         *)

\* The parts of IInv that speak of the two tables alone.
RowsInv ==
    /\ attempts \in Seq(AttemptRow)
    /\ Len(attempts) <= MaxAttempts
    /\ proposals \in Seq(ProposalRow)
    /\ Len(proposals) <= MaxProposals
    /\ AttemptsSpendTheirLease
    /\ PendingIsRunning

\* A call that writes neither table keeps what holds of them.
LEMMA RowsUntouched ==
    ASSUME IInv, UNCHANGED <<attempts, proposals>>
    PROVE  RowsInv'
<1>1. attempts' = attempts /\ proposals' = proposals
    OBVIOUS
<1>2. AttemptsPaid' /\ SpentOnAttempts'
    BY <1>1 DEF IInv, AttemptsSpendTheirLease, AttemptsPaid, SpentOnAttempts
<1>3. OrdinalsCount'
    BY <1>1, Zenon DEF IInv, AttemptsSpendTheirLease, OrdinalsCount
<1>4. PendingIsRunning'
    BY <1>1 DEF IInv, PendingIsRunning
<1>5. QED
    BY <1>1, <1>2, <1>3, <1>4 DEF IInv, TypeOK, RowsInv, AttemptsSpendTheirLease

\* A campaign created: no attempt, no lease and no snapshot concerns it yet.
LEMMA CreateStep ==
    ASSUME IInv, NEW c \in Campaign, Create(c)
    PROVE  IInv'
<1>1. /\ campaigns' \in [Campaign -> CampaignRow]
      /\ \A d \in Campaign : Exists(d) => Exists(d)'
      /\ \A d \in Campaign : campaigns'[d].current = campaigns[d].current
    BY DEF Create, IInv, TypeOK, CampaignRow, Exists
<1>2. RowsInv'
    BY RowsUntouched DEF Create
<1>3. Idle \in OpValue /\ Idle.step # "begun" /\ Idle.step # "running"
    BY DEF OpValue, Idle
<1>4. op' = CommittedElsewhere
    BY DEF Create
<1>5. op' \in [Client -> OpValue] /\ SnapshotsAreCurrent'
    BY <1>1, <1>3, <1>4, CommittedOps, CommitKeepsSnapshots DEF IInv
<1>6. RunsHoldAttempts'
    BY <1>3, <1>4, CommittedOps DEF Create, IInv, RunsHoldAttempts
<1>7. OneRunningAttempt'
    BY <1>1 DEF Create, IInv, TypeOK, OneRunningAttempt, AttemptRow
<1>8. QED
    BY <1>1, <1>2, <1>5, <1>6, <1>7 DEF Create, IInv, TypeOK, RowsInv

\* A snapshot is taken, or a status is checked: the connection is in the middle of
\* a call, and nothing is written.
LEMMA BeginStep ==
    ASSUME IInv, NEW k \in Client, NEW call \in Calls, NEW c \in Campaign, Begin(k, call, c)
    PROVE  IInv'
<1> DEFINE h == HistoryState(attempts, c)
           begun == [step |-> "begun", call |-> call, campaign |-> c,
                     seen |-> h, moved |-> FALSE]
<1>1. h \in HistoryValue
    BY HistoryTyped DEF IInv, TypeOK
<1>2. begun \in Begun /\ begun \in OpValue
    <2> HIDE DEF h
    <2>1. QED
        BY <1>1 DEF Begun, OpValue
<1>3. /\ op' = [op EXCEPT ![k] = begun]
      /\ Exists(c)
      /\ UNCHANGED <<campaigns, attempts, proposals, reopened>>
    BY DEF Begin
<1>4. RowsInv'
    BY <1>3, RowsUntouched
<1>5. op' \in [Client -> OpValue]
    <2> HIDE DEF begun
    <2>1. QED
        BY <1>2, <1>3 DEF IInv, TypeOK
<1>6. SnapshotsAreCurrent'
    <2>1. \A j \in Client : op'[j] = IF j = k THEN begun ELSE op[j]
        BY <1>3 DEF IInv, TypeOK
    <2>2. attempts' = attempts /\ campaigns' = campaigns
        BY <1>3
    <2>3. SUFFICES ASSUME NEW j \in Client, op'[j].step = "begun"
                   PROVE  /\ campaigns'[op'[j].campaign].status # "absent"
                          /\ ~op'[j].moved => op'[j].seen = HistoryState(attempts', op'[j].campaign)
        BY DEF SnapshotsAreCurrent, Exists
    <2>4. CASE j = k
        BY <1>3, <2>1, <2>2, <2>4 DEF Exists
    <2>5. CASE j # k
        BY <2>1, <2>2, <2>3, <2>5 DEF IInv, SnapshotsAreCurrent, Exists
    <2>6. QED
        BY <2>4, <2>5
<1>7. RunsHoldAttempts'
    BY <1>3 DEF IInv, TypeOK, RunsHoldAttempts
<1>8. OneRunningAttempt'
    BY <1>3 DEF IInv, OneRunningAttempt
<1>9. QED
    BY <1>3, <1>4, <1>5, <1>6, <1>7, <1>8 DEF IInv, TypeOK, RowsInv

\* An Abandon or a CheckStatus: the connection alone changes, and not to a snapshot.
LEMMA LocalStep ==
    ASSUME IInv, NEW k \in Client, NEW next \in OpValue,
           next.step \notin {"begun", "running"},
           op' = [op EXCEPT ![k] = next],
           UNCHANGED <<campaigns, attempts, proposals, reopened>>
    PROVE  IInv'
<1>1. attempts' = attempts /\ campaigns' = campaigns /\ proposals' = proposals
    OBVIOUS
<1>2. RowsInv'
    BY RowsUntouched
<1>3. op' \in [Client -> OpValue] /\ \A j \in Client : op'[j] = next \/ op'[j] = op[j]
    BY DEF IInv, TypeOK
<1>4. SnapshotsAreCurrent'
    <2>1. SUFFICES ASSUME NEW j \in Client, op'[j].step = "begun"
                   PROVE  /\ campaigns'[op'[j].campaign].status # "absent"
                          /\ ~op'[j].moved => op'[j].seen = HistoryState(attempts', op'[j].campaign)
        BY DEF SnapshotsAreCurrent, Exists
    <2>2. op'[j] = op[j]
        BY <1>3, <2>1
    <2>3. QED
        BY <1>1, <2>1, <2>2 DEF IInv, SnapshotsAreCurrent, Exists
<1>5. RunsHoldAttempts'
    BY <1>1, <1>3 DEF IInv, RunsHoldAttempts
<1>6. OneRunningAttempt'
    BY <1>1 DEF IInv, OneRunningAttempt
<1>7. QED
    BY <1>1, <1>2, <1>3, <1>4, <1>5, <1>6 DEF IInv, TypeOK, RowsInv

\* The SELECT of set_campaign_status writes nothing.
LEMMA CheckStatusStep ==
    ASSUME IInv, NEW k \in Client, NEW c \in Campaign, NEW status \in ManualStatus,
           CheckStatus(k, c, status)
    PROVE  IInv'
<1> DEFINE next == [step |-> "checked", campaign |-> c, status |-> status]
<1>1. next \in OpValue /\ next.step \notin {"begun", "running"}
    BY DEF OpValue, Checked
<1>2. QED
    BY <1>1, LocalStep DEF CheckStatus

\* A call given up writes nothing.
LEMMA AbandonStep ==
    ASSUME IInv, NEW k \in Client, Abandon(k)
    PROVE  IInv'
<1>1. Idle \in OpValue /\ Idle.step \notin {"begun", "running"}
    BY DEF OpValue, Idle
<1>2. QED
    BY <1>1, LocalStep DEF Abandon

\* The UPDATE of set_campaign_status leaves the campaign's current attempt alone.
LEMMA SetStatusStep ==
    ASSUME IInv, NEW k \in Client, SetStatus(k)
    PROVE  IInv'
<1>1. op[k] \in Checked
    BY OpShape DEF SetStatus, IInv, TypeOK
<1>2. op[k].campaign \in Campaign /\ op[k].status \in Terminal \cup {"active"}
    BY <1>1, StoreAssumption DEF Checked
<1>3. /\ campaigns' \in [Campaign -> CampaignRow]
      /\ \A d \in Campaign : Exists(d) => Exists(d)'
      /\ \A d \in Campaign : campaigns'[d].current = campaigns[d].current
    <2> DEFINE c == op[k].campaign
               row == [campaigns[c] EXCEPT !.status = op[k].status,
                          !.stopReason = IF op[k].status \in Terminal THEN "manual" ELSE "none"]
    <2>1. campaigns[c] \in CampaignRow
        BY <1>2 DEF IInv, TypeOK
    <2>2. row \in CampaignRow /\ row.status # "absent" /\ row.current = campaigns[c].current
        BY <1>2, <2>1 DEF CampaignRow, StopReasons, Terminal
    <2>3. campaigns' = [campaigns EXCEPT ![c] = row]
        BY DEF SetStatus
    <2>4. QED
        <3> HIDE DEF row
        <3>1. QED
            BY <1>2, <2>2, <2>3 DEF IInv, TypeOK, Exists
<1>4. RowsInv'
    BY RowsUntouched DEF SetStatus
<1>5. Idle \in OpValue /\ Idle.step # "begun" /\ Idle.step # "running"
    BY DEF OpValue, Idle
<1>6. op' = CommittedBy(k, Idle)
    BY DEF SetStatus
<1>7. op' \in [Client -> OpValue] /\ SnapshotsAreCurrent'
    BY <1>3, <1>5, <1>6, CommittedOps, CommitKeepsSnapshots DEF IInv
<1>8. RunsHoldAttempts'
    BY <1>5, <1>6, CommittedOps DEF SetStatus, IInv, RunsHoldAttempts
<1>9. OneRunningAttempt'
    BY <1>3 DEF SetStatus, IInv, TypeOK, OneRunningAttempt, AttemptRow
<1>10. reopened' \in [Campaign -> BOOLEAN]
    BY DEF SetStatus, IInv, TypeOK
<1>11. QED
    BY <1>3, <1>4, <1>7, <1>8, <1>9, <1>10 DEF IInv, TypeOK, RowsInv

\* A row appended to the analyses table, unspent, disturbs no lease and no attempt.
LEMMA IssueStep ==
    ASSUME IInv, NEW k \in Client, NEW row \in ProposalRow, row.consumedBy = 0,
           Len(proposals) < MaxProposals,
           proposals' = Append(proposals, row),
           op' = CommittedBy(k, Idle),
           UNCHANGED <<campaigns, attempts, reopened>>
    PROVE  IInv'
<1>1. attempts' = attempts /\ campaigns' = campaigns /\ reopened' = reopened
    OBVIOUS
<1>2. /\ proposals' \in Seq(ProposalRow)
      /\ Len(proposals') = Len(proposals) + 1
      /\ \A p \in 1..Len(proposals) : proposals'[p] = proposals[p]
      /\ proposals'[Len(proposals) + 1] = row
    BY AppendProperties DEF IInv, TypeOK
<1>3. /\ DOMAIN proposals = 1..Len(proposals)
      /\ DOMAIN proposals' = 1..(Len(proposals) + 1)
      /\ Len(proposals) \in Nat
      /\ MaxProposals \in Nat
    BY <1>2, LenProperties, StoreAssumption DEF IInv, TypeOK
<1>4. /\ \A p \in DOMAIN proposals : p \in DOMAIN proposals' /\ proposals'[p] = proposals[p]
      /\ \A p \in DOMAIN proposals' : p \in DOMAIN proposals \/ proposals'[p].consumedBy = 0
    BY <1>2, <1>3
<1>5. AttemptsPaid'
    BY <1>1, <1>4 DEF IInv, AttemptsSpendTheirLease, AttemptsPaid
<1>6. SpentOnAttempts'
    BY <1>1, <1>4 DEF IInv, AttemptsSpendTheirLease, SpentOnAttempts
<1>7. OrdinalsCount' /\ PendingIsRunning' /\ OneRunningAttempt'
    <2>1. OrdinalsCount'
        BY <1>1, Zenon DEF IInv, AttemptsSpendTheirLease, OrdinalsCount
    <2>2. PendingIsRunning' /\ OneRunningAttempt'
        BY <1>1 DEF IInv, PendingIsRunning, OneRunningAttempt
    <2>3. QED
        BY <2>1, <2>2
<1>8. Idle \in OpValue /\ Idle.step # "begun" /\ Idle.step # "running"
    BY DEF OpValue, Idle
<1>9. \A c \in Campaign : Exists(c) => Exists(c)'
    BY <1>1 DEF Exists
<1>10. op' \in [Client -> OpValue] /\ SnapshotsAreCurrent'
    BY <1>8, <1>9, CommittedOps, CommitKeepsSnapshots DEF IInv
<1>11. RunsHoldAttempts'
    BY <1>1, <1>8, CommittedOps DEF IInv, RunsHoldAttempts
<1>12. Len(proposals') <= MaxProposals
    BY <1>2, <1>3
<1>13. QED
    BY <1>1, <1>2, <1>5, <1>6, <1>7, <1>10, <1>11, <1>12
       DEF IInv, TypeOK, AttemptsSpendTheirLease

\* What create_proposal and record_analysis write is a row of the table.
LEMMA RowTyped ==
    ASSUME NEW c \in Campaign, NEW h \in HistoryValue, NEW payload \in Payload,
           NEW kind \in Kinds \cup {"legacy_unverified"}
    PROVE  Row(c, kind, h, payload) \in ProposalRow /\ Row(c, kind, h, payload).consumedBy = 0
    BY DEF Row, ProposalRow, HistoryValue

\* create_proposal repeats nothing or appends an unspent lease.
LEMMA CreateProposalStep ==
    ASSUME IInv, NEW k \in Client, NEW kind \in Kinds, NEW payload \in Payload,
           CreateProposal(k, kind, payload)
    PROVE  IInv'
<1> DEFINE c == op[k].campaign
           h == SeenNow(k)
<1>1. /\ c \in Campaign
      /\ h \in HistoryValue
    BY SeenIsCurrent DEF CreateProposal
<1>2. CASE SameLease(c, kind, h, payload) # {}
    <2>1. Idle \in OpValue /\ Idle.step \notin {"begun", "running"}
        BY DEF OpValue, Idle
    <2>2. QED
        BY <1>2, <2>1, LocalStep DEF CreateProposal
<1>3. CASE SameLease(c, kind, h, payload) = {}
    BY <1>1, <1>3, RowTyped, IssueStep DEF CreateProposal
<1>4. QED
    BY <1>2, <1>3

\* record_analysis appends a row that no attempt can spend.
LEMMA RecordAnalysisStep ==
    ASSUME IInv, NEW k \in Client, NEW payload \in Payload, RecordAnalysis(k, payload)
    PROVE  IInv'
<1>1. op[k].campaign \in Campaign /\ SeenNow(k) \in HistoryValue
    BY SeenIsCurrent DEF RecordAnalysis
<1>2. QED
    BY <1>1, RowTyped, IssueStep DEF RecordAnalysis

\* An update of attempt rows that keeps their campaign, ordinal and proposal keeps
\* every attempt paid for.
LEMMA VerdictsKeepLeases ==
    ASSUME IInv, proposals' = proposals,
           attempts' \in Seq(AttemptRow), DOMAIN attempts' = DOMAIN attempts,
           \A a \in DOMAIN attempts :
               /\ attempts'[a].campaign = attempts[a].campaign
               /\ attempts'[a].ordinal = attempts[a].ordinal
               /\ attempts'[a].proposal = attempts[a].proposal
    PROVE  AttemptsSpendTheirLease'
<1>1. AttemptsPaid'
    BY DEF IInv, AttemptsSpendTheirLease, AttemptsPaid
<1>2. SpentOnAttempts'
    BY DEF IInv, AttemptsSpendTheirLease, SpentOnAttempts
<1>3. OrdinalsCount'
    <2>1. SUFFICES ASSUME NEW c \in Campaign
                   PROVE  Ordinals(attempts', c) = 1..Cardinality(AttemptsOf(attempts', c))
        BY DEF OrdinalsCount
    <2>2. AttemptsOf(attempts', c) = AttemptsOf(attempts, c)
        BY DEF AttemptsOf
    <2>3. \A a \in AttemptsOf(attempts, c) : attempts'[a].ordinal = attempts[a].ordinal
        BY DEF AttemptsOf
    <2>4. Ordinals(attempts', c) = Ordinals(attempts, c)
        BY <2>2, <2>3 DEF Ordinals
    <2>5. QED
        BY <2>2, <2>4, Zenon DEF IInv, AttemptsSpendTheirLease, OrdinalsCount
<1>4. QED
    BY <1>1, <1>2, <1>3 DEF AttemptsSpendTheirLease

\* A description filled in changes no status, no ordinal and no lease.
LEMMA DescribeAttemptStep ==
    ASSUME IInv, NEW a \in DOMAIN attempts, DescribeAttempt(a)
    PROVE  IInv'
<1> DEFINE row == [attempts[a] EXCEPT !.blank = FALSE]
<1>1. DOMAIN attempts = 1..Len(attempts) /\ attempts[a] \in AttemptRow
    BY LenProperties, ElementOfSeq DEF IInv, TypeOK
<1>2. /\ row \in AttemptRow
      /\ row.campaign = attempts[a].campaign /\ row.ordinal = attempts[a].ordinal
      /\ row.proposal = attempts[a].proposal /\ row.status = attempts[a].status
      /\ row.decision = attempts[a].decision
    BY <1>1 DEF AttemptRow
<1>3. /\ attempts' = [attempts EXCEPT ![a] = row]
      /\ op' = CommittedElsewhere
      /\ campaigns' = campaigns /\ proposals' = proposals /\ reopened' = reopened
    BY DEF DescribeAttempt
<1> HIDE DEF row
<1>4. /\ attempts' \in Seq(AttemptRow)
      /\ Len(attempts') = Len(attempts)
      /\ DOMAIN attempts' = DOMAIN attempts
      /\ \A b \in DOMAIN attempts : attempts'[b] = IF b = a THEN row ELSE attempts[b]
    BY <1>1, <1>2, <1>3, ExceptSeq DEF IInv, TypeOK
<1>5. AttemptsSpendTheirLease'
    BY <1>2, <1>3, <1>4, VerdictsKeepLeases
<1>6. PendingIsRunning' /\ OneRunningAttempt'
    <2>1. \A b \in DOMAIN attempts :
            /\ attempts'[b].status = attempts[b].status
            /\ attempts'[b].decision = attempts[b].decision
            /\ attempts'[b].campaign = attempts[b].campaign
        BY <1>2, <1>4
    <2>2. PendingIsRunning'
        BY <1>4, <2>1 DEF IInv, PendingIsRunning
    <2>3. OneRunningAttempt'
        BY <1>3, <1>4, <2>1 DEF IInv, OneRunningAttempt
    <2>4. QED
        BY <2>2, <2>3
<1>7. Idle \in OpValue /\ Idle.step # "begun" /\ Idle.step # "running"
    BY DEF OpValue, Idle
<1>8. op' \in [Client -> OpValue] /\ SnapshotsAreCurrent'
    BY <1>3, <1>7, CommittedOps, CommitKeepsSnapshots DEF IInv, Exists
<1>9. RunsHoldAttempts'
    BY <1>3, <1>4, <1>7, CommittedOps DEF IInv, RunsHoldAttempts
<1>10. QED
    BY <1>3, <1>4, <1>5, <1>6, <1>8, <1>9 DEF IInv, TypeOK

\* The values that finish_attempt writes in the campaign's row.
LEMMA VerdictTyped ==
    ASSUME NEW rows, NEW c \in Campaign, NEW best
    PROVE  /\ StopReason(rows, c, best) \in StopReasons
           /\ StatusAfter(StopReason(rows, c, best)) \in {"active"} \cup Terminal
<1>1. StopReason(rows, c, best) \in StopReasons
    BY Zenon DEF StopReason, StopReasons
<1>2. QED
    BY <1>1 DEF StatusAfter, Terminal

\* finish_attempt frees the campaign of the attempt it decides.
LEMMA FinishAttemptStep ==
    ASSUME IInv, NEW k \in Client, NEW status \in {"ok", "crash"},
           NEW score \in Score \cup {NoScore}, NEW blank \in BOOLEAN,
           FinishAttempt(k, status, score, blank)
    PROVE  IInv'
<1> DEFINE a == op[k].attempt
           c == attempts[a].campaign
           improved == Improved(c, status, score)
           decision == IF improved THEN "kept" ELSE "rejected"
           row == [attempts[a] EXCEPT !.status = status, !.decision = decision,
                                      !.score = score, !.blank = blank]
           rows == [attempts EXCEPT ![a] = row]
           best == IF improved THEN score ELSE campaigns[c].bestScore
           reason == StopReason(rows, c, best)
           line == [campaigns[c] EXCEPT !.status = StatusAfter(reason), !.current = 0,
                       !.best = IF improved THEN a ELSE campaigns[c].best,
                       !.bestScore = best, !.stopReason = reason]
<1>1. /\ a \in DOMAIN attempts
      /\ DOMAIN attempts = 1..Len(attempts)
      /\ attempts[a] \in AttemptRow
      /\ attempts[a].status = "running"
      /\ a \in AttemptId
    <2>1. a \in DOMAIN attempts /\ attempts[a].status = "running"
        BY DEF FinishAttempt, AwaitsVerdict, IInv, RunsHoldAttempts
    <2>2. DOMAIN attempts = 1..Len(attempts) /\ Len(attempts) \in Nat
        BY LenProperties DEF IInv, TypeOK
    <2>3. QED
        BY <2>1, <2>2, ElementOfSeq, StoreAssumption DEF IInv, TypeOK, AttemptId
<1>2. c \in Campaign /\ campaigns[c] \in CampaignRow
    BY <1>1 DEF AttemptRow, IInv, TypeOK
<1>3. /\ row \in AttemptRow
      /\ row.campaign = c /\ row.ordinal = attempts[a].ordinal
      /\ row.proposal = attempts[a].proposal
      /\ row.status # "running" /\ row.decision # "pending"
    <2> HIDE DEF improved
    <2>1. QED
        BY <1>1 DEF AttemptRow
<1>4. line \in CampaignRow /\ line.status # "absent"
    <2>1. reason \in StopReasons /\ StatusAfter(reason) \in {"active"} \cup Terminal
        BY <1>2, VerdictTyped
    <2> HIDE DEF improved, reason
    <2>2. best \in Score \cup {NoScore}
        BY <1>2 DEF CampaignRow
    <2>3. QED
        BY <1>1, <1>2, <2>1, <2>2 DEF CampaignRow, Terminal
<1>5. /\ attempts' = rows
      /\ campaigns' = [campaigns EXCEPT ![c] = line]
      /\ op' = CommittedBy(k, Idle)
      /\ reopened' = [reopened EXCEPT ![c] = FALSE]
      /\ proposals' = proposals
    <2>1. attempts' = rows
        BY DEF FinishAttempt
    <2>2. campaigns' = [campaigns EXCEPT ![c] = line]
        BY Zenon DEF FinishAttempt
    <2>3. op' = CommittedBy(k, Idle) /\ proposals' = proposals
        BY DEF FinishAttempt
    <2>4. reopened' = [reopened EXCEPT ![c] = FALSE]
        BY DEF FinishAttempt
    <2>5. QED
        BY <2>1, <2>2, <2>3, <2>4
<1> HIDE DEF a, c, improved, decision, best, reason, row, line
<1>6. /\ attempts' \in Seq(AttemptRow)
      /\ Len(attempts') = Len(attempts)
      /\ DOMAIN attempts' = DOMAIN attempts
      /\ \A b \in DOMAIN attempts : attempts'[b] = IF b = a THEN row ELSE attempts[b]
    BY <1>1, <1>3, <1>5, ExceptSeq DEF IInv, TypeOK
<1>7. AttemptsSpendTheirLease'
    BY <1>3, <1>5, <1>6, VerdictsKeepLeases DEF c
<1>8. PendingIsRunning'
    BY <1>3, <1>6 DEF IInv, PendingIsRunning
<1>9. OneRunningAttempt'
    <2>1. \A b \in DOMAIN attempts : b # a => attempts[b].status # "running"
        BY <1>1 DEF IInv, OneRunningAttempt
    <2>2. QED
        BY <1>3, <1>6, <2>1 DEF OneRunningAttempt
<1>10. /\ campaigns' \in [Campaign -> CampaignRow]
       /\ \A d \in Campaign : Exists(d) => Exists(d)'
       /\ reopened' \in [Campaign -> BOOLEAN]
    BY <1>2, <1>4, <1>5 DEF IInv, TypeOK, Exists
<1>11. Idle \in OpValue /\ Idle.step # "begun" /\ Idle.step # "running"
    BY DEF OpValue, Idle
<1>12. op' \in [Client -> OpValue] /\ SnapshotsAreCurrent'
    BY <1>5, <1>10, <1>11, CommittedOps, CommitKeepsSnapshots DEF IInv
<1>13. RunsHoldAttempts'
    BY <1>5, <1>6, <1>11, CommittedOps DEF IInv, RunsHoldAttempts
<1>14. QED
    BY <1>5, <1>6, <1>7, <1>8, <1>9, <1>10, <1>12, <1>13 DEF IInv, TypeOK

\* After initialize_store no attempt runs.
LEMMA StartupStep ==
    ASSUME IInv, Startup
    PROVE  IInv'
<1> DEFINE row(a) == IF attempts[a].status = "running"
                     THEN [attempts[a] EXCEPT !.status = "interrupted", !.decision = "rejected"]
                     ELSE attempts[a]
<1>1. /\ DOMAIN attempts = 1..Len(attempts)
      /\ Len(attempts) \in Nat
      /\ \A a \in DOMAIN attempts : attempts[a] \in AttemptRow
    BY LenProperties, ElementOfSeq DEF IInv, TypeOK
<1>2. \A a \in DOMAIN attempts :
        /\ row(a) \in AttemptRow
        /\ row(a).campaign = attempts[a].campaign /\ row(a).ordinal = attempts[a].ordinal
        /\ row(a).proposal = attempts[a].proposal
        /\ row(a).status # "running" /\ row(a).decision # "pending"
    BY <1>1 DEF AttemptRow, IInv, PendingIsRunning
<1>3. /\ attempts' = [a \in DOMAIN attempts |-> row(a)]
      /\ proposals' = proposals /\ reopened' = reopened
      /\ op' = CommittedElsewhere
    BY DEF Startup
<1> HIDE DEF row
<1>4. /\ DOMAIN attempts' = DOMAIN attempts
      /\ \A a \in DOMAIN attempts : attempts'[a] = row(a)
    BY <1>3
<1>5. attempts' \in [1..Len(attempts) -> AttemptRow]
    BY <1>1, <1>2, <1>3
<1>6. attempts' \in Seq(AttemptRow) /\ Len(attempts') = Len(attempts)
    BY <1>1, <1>5
<1>7. AttemptsSpendTheirLease'
    BY <1>2, <1>3, <1>4, <1>6, VerdictsKeepLeases
<1>8. PendingIsRunning' /\ OneRunningAttempt'
    BY <1>2, <1>4 DEF PendingIsRunning, OneRunningAttempt
<1>9. /\ campaigns' \in [Campaign -> CampaignRow]
      /\ \A d \in Campaign : Exists(d) => Exists(d)'
    BY DEF Startup, IInv, TypeOK, CampaignRow, Exists
<1>10. Idle \in OpValue /\ Idle.step # "begun" /\ Idle.step # "running"
    BY DEF OpValue, Idle
<1>11. op' \in [Client -> OpValue] /\ SnapshotsAreCurrent'
    BY <1>3, <1>9, <1>10, CommittedOps, CommitKeepsSnapshots DEF IInv
<1>12. RunsHoldAttempts'
    BY <1>3, <1>4, <1>10, CommittedOps DEF IInv, RunsHoldAttempts
<1>13. QED
    BY <1>3, <1>6, <1>7, <1>8, <1>9, <1>11, <1>12 DEF IInv, TypeOK

\* start_attempt appends the only running attempt and spends its lease on it.
LEMMA StartAttemptStep ==
    ASSUME IInv, NEW k \in Client, NEW p \in DOMAIN proposals, StartAttempt(k, p)
    PROVE  IInv'
<1> DEFINE c == op[k].campaign
           h == SeenNow(k)
           new == Len(attempts) + 1
           count == Cardinality(AttemptsOf(attempts, c))
           row == [campaign |-> c, ordinal |-> h.count + 1, status |-> "running",
                   decision |-> "pending", score |-> NoScore, blank |-> FALSE,
                   proposal |-> p]
           lease == [proposals[p] EXCEPT !.consumedBy = new]
           line == [campaigns[c] EXCEPT !.status = "running", !.current = new,
                                        !.stopReason = "none"]
           next == [step |-> "running", attempt |-> new]
<1>1. /\ c \in Campaign
      /\ Exists(c)
      /\ h.count = count
      /\ h.kind \in Kinds
    BY SeenIsCurrent DEF StartAttempt, HistoryState, HistoryValue
<1>2. /\ DOMAIN attempts = 1..Len(attempts)
      /\ DOMAIN proposals = 1..Len(proposals)
      /\ Len(attempts) \in Nat /\ Len(proposals) \in Nat
      /\ MaxAttempts \in Nat /\ MaxProposals \in Nat
      /\ Len(attempts) < MaxAttempts
      /\ Len(proposals) <= MaxProposals
    BY LenProperties, StoreAssumption DEF IInv, TypeOK, StartAttempt
<1>3. new \in AttemptId /\ p \in 1..MaxProposals /\ new # 0
    BY <1>2 DEF AttemptId
<1>4. count \in 0..Len(attempts)
    BY <1>1, HistoryTyped DEF IInv, TypeOK
<1>5. /\ proposals[p] \in ProposalRow
      /\ proposals[p].campaign = c
      /\ proposals[p].after = count
      /\ proposals[p].kind \in Kinds
      /\ proposals[p].consumedBy = 0
    BY <1>1, <1>2, ElementOfSeq DEF StartAttempt, IsCurrent, IsValid, IInv, TypeOK
<1>6. row \in AttemptRow
    BY <1>1, <1>2, <1>3, <1>4 DEF AttemptRow, AttemptId
<1>7. /\ lease \in ProposalRow
      /\ lease.campaign = c /\ lease.after = count /\ lease.kind \in Kinds
      /\ lease.consumedBy = new
    BY <1>3, <1>5 DEF ProposalRow
<1>8. /\ line \in CampaignRow /\ line.status # "absent" /\ line.current = new
      /\ next \in OpValue /\ next.step = "running" /\ next.attempt = new
    <2>1. campaigns[c] \in CampaignRow
        BY <1>1 DEF IInv, TypeOK
    <2>2. line \in CampaignRow /\ line.status # "absent" /\ line.current = new
        BY <1>3, <2>1 DEF CampaignRow, StopReasons
    <2>3. next \in OpValue /\ next.step = "running" /\ next.attempt = new
        BY <1>3 DEF OpValue, InRun
    <2>4. QED
        BY <2>2, <2>3
<1>9. /\ attempts' = Append(attempts, row)
      /\ proposals' = [proposals EXCEPT ![p] = lease]
      /\ campaigns' = [campaigns EXCEPT ![c] = line]
      /\ op' = CommittedBy(k, next)
      /\ reopened' = reopened
      /\ ~SomeRunning
    <2>1. attempts' = Append(attempts, row)
        BY DEF StartAttempt
    <2>2. proposals' = [proposals EXCEPT ![p] = lease]
        BY DEF StartAttempt
    <2>3. campaigns' = [campaigns EXCEPT ![c] = line] /\ reopened' = reopened
        BY DEF StartAttempt
    <2>4. op' = CommittedBy(k, next) /\ ~SomeRunning
        BY DEF StartAttempt
    <2>5. QED
        BY <2>1, <2>2, <2>3, <2>4
<1>10. row.campaign = c /\ row.ordinal = count + 1 /\ row.status = "running"
       /\ row.decision = "pending" /\ row.proposal = p
    BY <1>1
<1> HIDE DEF c, h, row, lease, line, next, count
<1>11. \A d \in Campaign :
          /\ AttemptsOf(attempts', d) = IF c = d THEN AttemptsOf(attempts, d) \cup {new}
                                                 ELSE AttemptsOf(attempts, d)
          /\ Cardinality(AttemptsOf(attempts', d)) =
                Cardinality(AttemptsOf(attempts, d)) + IF c = d THEN 1 ELSE 0
    BY <1>6, <1>9, <1>10, AppendedAttempt DEF IInv, TypeOK
<1>12. /\ attempts' \in Seq(AttemptRow)
       /\ Len(attempts') = new
       /\ DOMAIN attempts' = DOMAIN attempts \cup {new}
       /\ new \notin DOMAIN attempts
       /\ \A a \in DOMAIN attempts : attempts'[a] = attempts[a]
       /\ attempts'[new] = row
    <2>1. /\ attempts' \in Seq(AttemptRow)
          /\ Len(attempts') = new
          /\ \A a \in 1..Len(attempts) : attempts'[a] = attempts[a]
          /\ attempts'[new] = row
        BY <1>6, <1>9, AppendProperties DEF IInv, TypeOK
    <2>2. DOMAIN attempts' = 1..new
        BY <2>1, LenProperties
    <2>3. QED
        BY <1>2, <2>1, <2>2
<1>13. /\ proposals' \in Seq(ProposalRow)
       /\ Len(proposals') = Len(proposals)
       /\ DOMAIN proposals' = DOMAIN proposals
       /\ \A q \in DOMAIN proposals : proposals'[q] = IF q = p THEN lease ELSE proposals[q]
    BY <1>2, <1>7, <1>9, ExceptSeq DEF IInv, TypeOK
<1>14. AttemptsPaid'
    <2>1. SUFFICES ASSUME NEW a \in DOMAIN attempts'
                   PROVE  LET q == attempts'[a].proposal
                          IN  /\ q \in DOMAIN proposals'
                              /\ proposals'[q].consumedBy = a
                              /\ proposals'[q].campaign = attempts'[a].campaign
                              /\ proposals'[q].kind \in Kinds
                              /\ proposals'[q].after + 1 = attempts'[a].ordinal
        BY DEF AttemptsPaid
    <2>2. CASE a = new
        BY <1>7, <1>10, <1>12, <1>13, <2>2
    <2>3. CASE a \in DOMAIN attempts
        <3>1. /\ attempts[a].proposal \in DOMAIN proposals
              /\ proposals[attempts[a].proposal].consumedBy = a
            BY <2>3 DEF IInv, AttemptsSpendTheirLease, AttemptsPaid
        <3>2. attempts[a].proposal # p
            BY <1>2, <1>5, <2>3, <3>1
        <3>3. QED
            BY <1>12, <1>13, <2>3, <3>1, <3>2 DEF IInv, AttemptsSpendTheirLease, AttemptsPaid
    <2>4. QED
        BY <1>12, <2>2, <2>3
<1>15. SpentOnAttempts'
    <2>1. SUFFICES ASSUME NEW q \in DOMAIN proposals', proposals'[q].consumedBy # 0
                   PROVE  /\ proposals'[q].consumedBy \in DOMAIN attempts'
                          /\ attempts'[proposals'[q].consumedBy].proposal = q
        BY DEF SpentOnAttempts
    <2>2. CASE q = p
        BY <1>7, <1>10, <1>12, <1>13, <2>2
    <2>3. CASE q # p
        BY <1>12, <1>13, <2>1, <2>3 DEF IInv, AttemptsSpendTheirLease, SpentOnAttempts
    <2>4. QED
        BY <2>2, <2>3
<1>16. OrdinalsCount'
    <2>1. SUFFICES ASSUME NEW d \in Campaign
                   PROVE  Ordinals(attempts', d) = 1..Cardinality(AttemptsOf(attempts', d))
        BY DEF OrdinalsCount
    <2>2. Ordinals(attempts, d) = 1..Cardinality(AttemptsOf(attempts, d))
        BY Zenon DEF IInv, AttemptsSpendTheirLease, OrdinalsCount
    <2>3. \A a \in AttemptsOf(attempts, d) : attempts'[a].ordinal = attempts[a].ordinal
        BY <1>12 DEF AttemptsOf
    <2>4. CASE d = c
        <3>1. AttemptsOf(attempts', d) = AttemptsOf(attempts, d) \cup {new}
            BY <1>11, <2>4
        <3>2. Ordinals(attempts', d) = Ordinals(attempts, d) \cup {count + 1}
            BY <1>10, <1>12, <2>3, <3>1 DEF Ordinals
        <3>3. Cardinality(AttemptsOf(attempts', d)) = count + 1
            BY <1>11, <2>4 DEF count
        <3>4. Ordinals(attempts, d) = 1..count
            BY <2>2, <2>4 DEF count
        <3>5. QED
            BY <1>4, <3>2, <3>3, <3>4
    <2>5. CASE d # c
        <3>1. /\ AttemptsOf(attempts', d) = AttemptsOf(attempts, d)
              /\ Cardinality(AttemptsOf(attempts, d)) \in 0..Len(attempts)
            BY <1>11, <2>5, HistoryTyped DEF IInv, TypeOK
        <3>2. Ordinals(attempts', d) = Ordinals(attempts, d)
            BY <2>3, <3>1 DEF Ordinals
        <3>3. QED
            BY <2>2, <3>1, <3>2
    <2>6. QED
        BY <2>4, <2>5
<1>17. PendingIsRunning'
    BY <1>10, <1>12 DEF IInv, PendingIsRunning
<1>18. OneRunningAttempt'
    <2>1. \A a \in DOMAIN attempts : attempts[a].status # "running"
        BY <1>9 DEF SomeRunning
    <2>2. campaigns'[c].current = new
        BY <1>1, <1>8, <1>9 DEF IInv, TypeOK
    <2>3. QED
        BY <1>10, <1>12, <2>1, <2>2 DEF OneRunningAttempt
<1>19. /\ campaigns' \in [Campaign -> CampaignRow]
       /\ \A d \in Campaign : Exists(d) => Exists(d)'
    BY <1>1, <1>8, <1>9 DEF IInv, TypeOK, Exists
<1>20. op' \in [Client -> OpValue] /\ SnapshotsAreCurrent'
    BY <1>8, <1>9, <1>19, CommittedOps, CommitKeepsSnapshots DEF IInv
<1>21. RunsHoldAttempts'
    BY <1>8, <1>9, <1>12, CommittedOps DEF IInv, RunsHoldAttempts
<1>22. Len(attempts') <= MaxAttempts
    BY <1>2, <1>12
<1>23. QED
    BY <1>9, <1>12, <1>13, <1>14, <1>15, <1>16, <1>17, <1>18, <1>19, <1>20, <1>21, <1>22
       DEF IInv, TypeOK, AttemptsSpendTheirLease

-----------------------------------------------------------------------------
(* The invariant.                                                          *)

\* The empty store satisfies the invariant.
LEMMA InitIInv == Init => IInv
<1>1. SUFFICES ASSUME Init PROVE IInv
    OBVIOUS
<1>2. /\ attempts = <<>> /\ proposals = <<>>
      /\ DOMAIN attempts = {} /\ DOMAIN proposals = {}
      /\ Len(attempts) = 0 /\ Len(proposals) = 0
      /\ attempts \in Seq(AttemptRow) /\ proposals \in Seq(ProposalRow)
    BY <1>1, EmptySeq DEF Init
<1>3. \A c \in Campaign : AttemptsOf(attempts, c) = {} /\ Ordinals(attempts, c) = {}
    BY <1>2 DEF AttemptsOf, Ordinals
<1>4. AttemptsSpendTheirLease
    <2>1. OrdinalsCount
        <3>1. Cardinality({}) = 0
            BY FS_EmptySet
        <3>2. 1..0 = {}
            OBVIOUS
        <3>3. QED
            BY <1>3, <3>1, <3>2 DEF OrdinalsCount
    <2>2. AttemptsPaid /\ SpentOnAttempts
        BY <1>2 DEF AttemptsPaid, SpentOnAttempts
    <2>3. QED
        BY <2>1, <2>2 DEF AttemptsSpendTheirLease
<1>5. /\ op = [k \in Client |-> Idle]
      /\ Idle \in OpValue /\ Idle.step = "idle"
    BY <1>1 DEF Init, OpValue, Idle
<1>6. SnapshotsAreCurrent /\ RunsHoldAttempts
    BY <1>5 DEF SnapshotsAreCurrent, RunsHoldAttempts
<1>7. OneRunningAttempt /\ PendingIsRunning
    BY <1>2 DEF OneRunningAttempt, PendingIsRunning
<1>8. campaigns \in [Campaign -> CampaignRow] /\ reopened \in [Campaign -> BOOLEAN]
    BY <1>1 DEF Init, CampaignRow, StopReasons
<1>9. QED
    BY <1>2, <1>4, <1>5, <1>6, <1>7, <1>8, StoreAssumption DEF IInv, TypeOK

\* The invariant is inductive: the step lemmas, one per action, put together.
LEMMA NextIInv == IInv /\ [Next]_vars => IInv'
<1>1. SUFFICES ASSUME IInv, [Next]_vars PROVE IInv'
    OBVIOUS
<1>2. CASE UNCHANGED vars
    <2>1. /\ campaigns' = campaigns /\ attempts' = attempts /\ proposals' = proposals
          /\ op' = op /\ reopened' = reopened
        BY <1>2 DEF vars
    <2>2. RowsInv'
        BY <1>1, <2>1, RowsUntouched
    <2>3. SnapshotsAreCurrent'
        BY <1>1, <2>1 DEF IInv, SnapshotsAreCurrent, Exists
    <2>4. OneRunningAttempt' /\ RunsHoldAttempts'
        BY <1>1, <2>1 DEF IInv, OneRunningAttempt, RunsHoldAttempts
    <2>5. QED
        BY <1>1, <2>1, <2>2, <2>3, <2>4 DEF IInv, TypeOK, RowsInv
<1>3. CASE \E c \in Campaign : Create(c)
    BY <1>1, <1>3, CreateStep
<1>4. CASE \E k \in Client, call \in Calls, c \in Campaign : Begin(k, call, c)
    BY <1>1, <1>4, BeginStep
<1>5. CASE \E k \in Client, kind \in Kinds, payload \in Payload :
              CreateProposal(k, kind, payload)
    BY <1>1, <1>5, CreateProposalStep
<1>6. CASE \E k \in Client, payload \in Payload : RecordAnalysis(k, payload)
    BY <1>1, <1>6, RecordAnalysisStep
<1>7. CASE \E k \in Client, p \in DOMAIN proposals : StartAttempt(k, p)
    BY <1>1, <1>7, StartAttemptStep
<1>8. CASE \E k \in Client, status \in {"ok", "crash"}, score \in Score \cup {NoScore},
              blank \in BOOLEAN : FinishAttempt(k, status, score, blank)
    BY <1>1, <1>8, FinishAttemptStep
<1>9. CASE \E a \in DOMAIN attempts : DescribeAttempt(a)
    BY <1>1, <1>9, DescribeAttemptStep
<1>10. CASE \E k \in Client, c \in Campaign, status \in ManualStatus :
               CheckStatus(k, c, status)
    BY <1>1, <1>10, CheckStatusStep
<1>11. CASE \E k \in Client : SetStatus(k)
    BY <1>1, <1>11, SetStatusStep
<1>12. CASE \E k \in Client : Abandon(k)
    BY <1>1, <1>12, AbandonStep
<1>13. CASE Startup
    BY <1>1, <1>13, StartupStep
<1>14. QED
    BY <1>1, <1>2, <1>3, <1>4, <1>5, <1>6, <1>7, <1>8, <1>9, <1>10, <1>11, <1>12, <1>13
       DEF Next

\* Whatever the number of connections and campaigns, the store's rows and the
\* snapshots its calls hold stay consistent with each other.
THEOREM StoreInvariant == Spec => []IInv
<1>1. QED
    BY InitIInv, NextIInv, PTL DEF Spec

\* Type correctness.
THEOREM StoreTypes == Spec => []TypeOK
<1>1. IInv => TypeOK
    BY DEF IInv
<1>2. QED
    BY <1>1, StoreInvariant, PTL

\* At most one attempt runs in the whole store.
THEOREM OneRuns == Spec => []OneRunningAttempt
<1>1. IInv => OneRunningAttempt
    BY DEF IInv
<1>2. QED
    BY <1>1, StoreInvariant, PTL

\* Every attempt spent a lease of its own, in its campaign and at its ordinal.
THEOREM LeasesSpentOnce == Spec => []AttemptsSpendTheirLease
<1>1. IInv => AttemptsSpendTheirLease
    BY DEF IInv
<1>2. QED
    BY <1>1, StoreInvariant, PTL

-----------------------------------------------------------------------------
(* Action properties.                                                      *)

\* What a step may do to an attempt that exists.
LEMMA VerdictKept ==
    ASSUME IInv, [Next]_vars, NEW a \in DOMAIN attempts, attempts[a].decision # "pending"
    PROVE  attempts'[a] = attempts[a] \/ attempts'[a] = [attempts[a] EXCEPT !.blank = FALSE]
<1>1. /\ DOMAIN attempts = 1..Len(attempts)
      /\ attempts \in Seq(AttemptRow)
      /\ attempts[a].status # "running"
    BY LenProperties DEF IInv, TypeOK, PendingIsRunning
<1>2. CASE UNCHANGED attempts
    BY <1>2
<1>3. CASE \E k \in Client, p \in DOMAIN proposals : StartAttempt(k, p)
    <2>1. PICK k \in Client, p \in DOMAIN proposals : StartAttempt(k, p)
        BY <1>3
    <2>2. attempts'[a] = attempts[a]
        <3> DEFINE row == [campaign |-> op[k].campaign, ordinal |-> SeenNow(k).count + 1,
                           status |-> "running", decision |-> "pending",
                           score |-> NoScore, blank |-> FALSE, proposal |-> p]
        <3>1. attempts' = Append(attempts, row)
            BY <2>1 DEF StartAttempt
        <3> HIDE DEF row
        <3>2. attempts \in Seq(AttemptRow \cup {row}) /\ row \in AttemptRow \cup {row}
            BY <1>1
        <3>3. QED
            BY <1>1, <3>1, <3>2, AppendProperties
    <2>3. QED
        BY <2>2
<1>4. CASE \E k \in Client, status \in {"ok", "crash"}, score \in Score \cup {NoScore},
              blank \in BOOLEAN : FinishAttempt(k, status, score, blank)
    <2>1. PICK k \in Client, status \in {"ok", "crash"}, score \in Score \cup {NoScore},
               blank \in BOOLEAN : FinishAttempt(k, status, score, blank)
        BY <1>4
    <2>2. op[k].attempt # a
        BY <1>1, <2>1 DEF FinishAttempt, AwaitsVerdict
    <2>3. QED
        BY <1>1, <2>1, <2>2 DEF FinishAttempt
<1>5. CASE \E b \in DOMAIN attempts : DescribeAttempt(b)
    BY <1>1, <1>5 DEF DescribeAttempt
<1>6. CASE Startup
    BY <1>1, <1>6 DEF Startup
<1>7. QED
    BY <1>2, <1>3, <1>4, <1>5, <1>6
       DEF Next, vars, Create, Begin, CreateProposal, RecordAnalysis, CheckStatus,
           SetStatus, Abandon

\* A verdict is final: no late answer, retry or restart revises it.
THEOREM VerdictsAreFinal == Spec => VerdictIsFinal
<1>1. IInv /\ [Next]_vars =>
        [\A a \in DOMAIN attempts : attempts[a].decision # "pending" =>
            [attempts'[a] EXCEPT !.blank = FALSE] = [attempts[a] EXCEPT !.blank = FALSE]]_vars
    <2>1. SUFFICES ASSUME IInv, [Next]_vars,
                          NEW a \in DOMAIN attempts, attempts[a].decision # "pending"
                   PROVE  [attempts'[a] EXCEPT !.blank = FALSE]
                              = [attempts[a] EXCEPT !.blank = FALSE]
        OBVIOUS
    <2>2. attempts[a] \in AttemptRow
        BY <2>1, LenProperties, ElementOfSeq DEF IInv, TypeOK
    <2>3. QED
        BY <2>1, <2>2, VerdictKept DEF AttemptRow
<1>2. QED
    BY <1>1, StoreInvariant, PTL DEF Spec, VerdictIsFinal

\* The three calls that write the analyses table.
LEMMA LeaseWriters ==
    ASSUME [Next]_vars, proposals' # proposals
    PROVE  \/ \E k \in Client, kind \in Kinds, payload \in Payload :
                CreateProposal(k, kind, payload)
           \/ \E k \in Client, payload \in Payload : RecordAnalysis(k, payload)
           \/ \E k \in Client, p \in DOMAIN proposals : StartAttempt(k, p)
<1>1. \A c \in Campaign : Create(c) => proposals' = proposals
    BY DEF Create
<1>2. \A k \in Client, call \in Calls, c \in Campaign :
        Begin(k, call, c) => proposals' = proposals
    BY DEF Begin
<1>3. \A k \in Client, status \in {"ok", "crash"}, score \in Score \cup {NoScore},
        blank \in BOOLEAN : FinishAttempt(k, status, score, blank) => proposals' = proposals
    BY DEF FinishAttempt
<1>4. \A a \in DOMAIN attempts : DescribeAttempt(a) => proposals' = proposals
    BY DEF DescribeAttempt
<1>5. \A k \in Client, c \in Campaign, status \in ManualStatus :
        CheckStatus(k, c, status) => proposals' = proposals
    BY DEF CheckStatus
<1>6. \A k \in Client : SetStatus(k) \/ Abandon(k) => proposals' = proposals
    BY DEF SetStatus, Abandon
<1>7. Startup \/ UNCHANGED vars => proposals' = proposals
    BY DEF Startup, vars
<1>8. QED
    BY <1>1, <1>2, <1>3, <1>4, <1>5, <1>6, <1>7 DEF Next

\* A lease that is spent is spent on the history it was issued for, and one that
\* is issued is issued for the history of that moment.
THEOREM LeasesBind == Spec => LeasesBindTheCurrentHistory
<1> DEFINE Issued ==
        \A p \in DOMAIN proposals' \ DOMAIN proposals :
            LET c == proposals'[p].campaign
            IN  /\ proposals'[p].digest = Digest(attempts, c)
                /\ proposals'[p].after = Cardinality(AttemptsOf(attempts, c))
                /\ proposals'[p].kind \in Kinds => \E k \in Client :
                      op[k].step = "begun" /\ op[k].call = "propose" /\ SuppliedDigest(k) = Digest(attempts, c)
           Spent ==
        \A p \in DOMAIN proposals :
            LET c == proposals[p].campaign
            IN  proposals[p].consumedBy # proposals'[p].consumedBy =>
                  /\ proposals[p].digest = Digest(attempts, c)
                  /\ proposals[p].kind = RequiredKind(attempts, c)
<1>1. ASSUME IInv, [Next]_vars
      PROVE  Issued /\ Spent
    <2>1. proposals \in Seq(ProposalRow) /\ DOMAIN proposals = 1..Len(proposals)
        BY <1>1, LenProperties DEF IInv, TypeOK
    <2>2. ASSUME NEW k \in Client, NEW kind \in Kinds \cup {"legacy_unverified"},
                 NEW payload \in Payload, op[k].step = "begun",
                 kind \in Kinds => op[k].call = "propose" /\ SuppliedDigest(k) = SeenNow(k).digest,
                 proposals' = Append(proposals, Row(op[k].campaign, kind, SeenNow(k), payload))
          PROVE  Issued /\ Spent
        <3> DEFINE c == op[k].campaign
                   row == Row(c, kind, SeenNow(k), payload)
        <3>1. SeenNow(k) = HistoryState(attempts, c)
            BY <1>1, <2>2, SeenIsCurrent
        <3>2. /\ row.campaign = c /\ row.kind = kind
              /\ row.digest = Digest(attempts, c)
              /\ row.after = Cardinality(AttemptsOf(attempts, c))
              /\ SeenNow(k).digest = Digest(attempts, c)
            BY <3>1 DEF Row, HistoryState
        <3>3. /\ DOMAIN proposals' = 1..(Len(proposals) + 1)
              /\ \A p \in DOMAIN proposals : proposals'[p] = proposals[p]
              /\ proposals'[Len(proposals) + 1] = row
            <4> DEFINE S == ProposalRow \cup {row}
            <4>1. proposals \in Seq(S) /\ row \in S
                BY <2>1
            <4>2. proposals' = Append(proposals, row)
                BY <2>2
            <4> HIDE DEF S, row
            <4>3. QED
                BY <2>1, <4>1, <4>2, AppendProperties, LenProperties
        <3> HIDE DEF row
        <3>4. Issued
            <4>1. SUFFICES ASSUME NEW p \in DOMAIN proposals' \ DOMAIN proposals
                           PROVE  LET d == proposals'[p].campaign
                                  IN  /\ proposals'[p].digest = Digest(attempts, d)
                                      /\ proposals'[p].after = Cardinality(AttemptsOf(attempts, d))
                                      /\ proposals'[p].kind \in Kinds => \E j \in Client :
                                            /\ op[j].step = "begun" /\ op[j].call = "propose"
                                            /\ SuppliedDigest(j) = Digest(attempts, d)
                OBVIOUS
            <4>2. p = Len(proposals) + 1
                BY <2>1, <3>3, <4>1, LenProperties
            <4>3. QED
                BY <2>2, <3>2, <3>3, <4>2
        <3>5. Spent
            BY <3>3
        <3>6. QED
            BY <3>4, <3>5
    <2>3. CASE \E k \in Client, kind \in Kinds, payload \in Payload :
                   CreateProposal(k, kind, payload)
        <3>1. PICK k \in Client, kind \in Kinds, payload \in Payload :
                   CreateProposal(k, kind, payload)
            BY <2>3
        <3>2. CASE proposals' = proposals
            BY <3>2
        <3>3. CASE proposals' # proposals
            BY <2>2, <3>1, <3>3 DEF CreateProposal
        <3>4. QED
            BY <3>2, <3>3
    <2>4. CASE \E k \in Client, payload \in Payload : RecordAnalysis(k, payload)
        <3>1. "legacy_unverified" \notin Kinds
            BY DEF Kinds
        <3>2. PICK k \in Client, payload \in Payload : RecordAnalysis(k, payload)
            BY <2>4
        <3>3. /\ op[k].step = "begun"
              /\ proposals' = Append(proposals,
                     Row(op[k].campaign, "legacy_unverified", SeenNow(k), payload))
            BY <3>2 DEF RecordAnalysis
        <3>4. "legacy_unverified" \in Kinds \cup {"legacy_unverified"}
            OBVIOUS
        <3>5. QED
            <4> HIDE DEF Issued, Spent
            <4>1. QED
                BY <2>2, <3>1, <3>3, <3>4, Zenon
    <2>5. CASE \E k \in Client, p \in DOMAIN proposals : StartAttempt(k, p)
        <3>1. PICK k \in Client, p \in DOMAIN proposals : StartAttempt(k, p)
            BY <2>5
        <3>2. SeenNow(k) = HistoryState(attempts, op[k].campaign)
            BY <1>1, <3>1, SeenIsCurrent DEF StartAttempt
        <3>3. /\ proposals[p].campaign = op[k].campaign
              /\ proposals[p].digest = Digest(attempts, op[k].campaign)
              /\ proposals[p].kind = RequiredKind(attempts, op[k].campaign)
            BY <3>1, <3>2 DEF StartAttempt, IsCurrent, IsValid, HistoryState
        <3>4. /\ DOMAIN proposals' = DOMAIN proposals
              /\ \A q \in DOMAIN proposals : q # p => proposals'[q] = proposals[q]
            BY <3>1 DEF StartAttempt
        <3>5. QED
            BY <3>3, <3>4
    <2>6. CASE UNCHANGED proposals
        BY <2>6
    <2>7. QED
        <3> HIDE DEF Issued, Spent
        <3>1. QED
            BY <1>1, <2>3, <2>4, <2>5, <2>6, LeaseWriters
<1>2. IInv /\ [Next]_vars => [Issued /\ Spent]_vars
    BY <1>1
<1>3. QED
    BY <1>2, StoreInvariant, PTL DEF Spec, LeasesBindTheCurrentHistory

\* A repeated POST /proposals never issues a second lease.
THEOREM LeasesAreIdempotent == Spec => []LeaseIsIdempotent
<1> DEFINE Same(p, q) == [p EXCEPT !.consumedBy = 0] = [q EXCEPT !.consumedBy = 0]
<1>1. Init => LeaseIsIdempotent
    BY DEF Init, LeaseIsIdempotent
<1>2. ASSUME IInv, LeaseIsIdempotent, [Next]_vars
      PROVE  LeaseIsIdempotent'
    <2>1. /\ proposals \in Seq(ProposalRow)
          /\ DOMAIN proposals = 1..Len(proposals)
          /\ Len(proposals) \in Nat
          /\ \A p \in DOMAIN proposals : proposals[p] \in ProposalRow
        BY <1>2, LenProperties, ElementOfSeq DEF IInv, TypeOK
    <2>2. ASSUME NEW k \in Client, NEW kind \in Kinds \cup {"legacy_unverified"},
                 NEW payload \in Payload, op[k].step = "begun",
                 kind \in Kinds => SameLease(op[k].campaign, kind, SeenNow(k), payload) = {},
                 proposals' = Append(proposals, Row(op[k].campaign, kind, SeenNow(k), payload))
          PROVE  LeaseIsIdempotent'
        <3> DEFINE c == op[k].campaign
                   h == SeenNow(k)
                   row == Row(c, kind, h, payload)
                   new == Len(proposals) + 1
        <3>1. c \in Campaign /\ h \in HistoryValue
            BY <1>2, <2>2, SeenIsCurrent
        <3>2. row \in ProposalRow
            BY <3>1, RowTyped
        <3>3. /\ row.campaign = c /\ row.kind = kind /\ row.after = h.count
              /\ row.digest = h.digest /\ row.payload = payload
            BY DEF Row
        <3> HIDE DEF row
        <3>4. /\ DOMAIN proposals' = DOMAIN proposals \cup {new}
              /\ \A p \in DOMAIN proposals : proposals'[p] = proposals[p]
              /\ proposals'[new] = row
            BY <2>1, <2>2, <3>2, AppendProperties, LenProperties DEF row
        <3>5. \A p \in DOMAIN proposals : row.kind \in Kinds => ~Same(proposals[p], row)
            <4>1. SUFFICES ASSUME NEW p \in DOMAIN proposals, row.kind \in Kinds,
                                  Same(proposals[p], row)
                           PROVE  FALSE
                OBVIOUS
            <4>2. /\ proposals[p].campaign = c /\ proposals[p].kind = kind
                  /\ proposals[p].after = h.count /\ proposals[p].digest = h.digest
                  /\ proposals[p].payload = payload
                BY <2>1, <3>2, <3>3, <4>1 DEF ProposalRow
            <4>3. QED
                BY <2>2, <3>3, <4>1, <4>2 DEF SameLease
        <3>6. SUFFICES ASSUME NEW p \in DOMAIN proposals', NEW q \in DOMAIN proposals',
                              proposals'[p].kind \in Kinds,
                              Same(proposals'[p], proposals'[q])
                       PROVE  p = q
            BY DEF LeaseIsIdempotent
        <3>7. proposals'[q].kind = proposals'[p].kind
            BY <2>1, <3>2, <3>4, <3>6 DEF ProposalRow
        <3>8. CASE p \in DOMAIN proposals /\ q \in DOMAIN proposals
            BY <1>2, <3>4, <3>6, <3>8 DEF LeaseIsIdempotent
        <3>9. CASE p = new /\ q \in DOMAIN proposals
            BY <3>4, <3>5, <3>6, <3>9
        <3>10. CASE q = new /\ p \in DOMAIN proposals
            BY <3>4, <3>5, <3>6, <3>7, <3>10
        <3>11. QED
            BY <3>4, <3>6, <3>8, <3>9, <3>10
    <2>3. CASE \E k \in Client, kind \in Kinds, payload \in Payload :
                   CreateProposal(k, kind, payload)
        <3>1. PICK k \in Client, kind \in Kinds, payload \in Payload :
                   CreateProposal(k, kind, payload)
            BY <2>3
        <3>2. CASE proposals' = proposals
            BY <1>2, <3>2 DEF LeaseIsIdempotent
        <3>3. CASE proposals' # proposals
            BY <2>2, <3>1, <3>3 DEF CreateProposal
        <3>4. QED
            BY <3>2, <3>3
    <2>4. CASE \E k \in Client, payload \in Payload : RecordAnalysis(k, payload)
        <3>1. "legacy_unverified" \notin Kinds
            BY DEF Kinds
        <3>2. PICK k \in Client, payload \in Payload : RecordAnalysis(k, payload)
            BY <2>4
        <3>3. /\ op[k].step = "begun"
              /\ proposals' = Append(proposals,
                     Row(op[k].campaign, "legacy_unverified", SeenNow(k), payload))
            BY <3>2 DEF RecordAnalysis
        <3>4. "legacy_unverified" \in Kinds \cup {"legacy_unverified"}
            OBVIOUS
        <3>5. QED
            BY <2>2, <3>1, <3>3, <3>4, Zenon
    <2>5. CASE \E k \in Client, p \in DOMAIN proposals : StartAttempt(k, p)
        <3>1. PICK k \in Client, p \in DOMAIN proposals : StartAttempt(k, p)
            BY <2>5
        <3>2. proposals' = [proposals EXCEPT ![p].consumedBy = Len(attempts) + 1]
            BY <3>1 DEF StartAttempt
        <3>3. \A q \in DOMAIN proposals :
                /\ [proposals'[q] EXCEPT !.consumedBy = 0] = [proposals[q] EXCEPT !.consumedBy = 0]
                /\ proposals'[q].kind = proposals[q].kind
            BY <2>1, <3>2 DEF ProposalRow
        <3>4. DOMAIN proposals' = DOMAIN proposals
            BY <3>2
        <3>5. QED
            BY <1>2, <3>3, <3>4 DEF LeaseIsIdempotent
    <2>6. CASE UNCHANGED proposals
        BY <1>2, <2>6 DEF LeaseIsIdempotent
    <2>7. QED
        BY <1>2, <2>3, <2>4, <2>5, <2>6, LeaseWriters
<1>3. QED
    BY <1>1, <1>2, StoreInvariant, PTL DEF Spec

-----------------------------------------------------------------------------
(* The store implements OneShotLease.                                      *)

\* The two mapped variables of OneShotLease, as functions of the tables.
SpentOf(ps) == [p \in DOMAIN ps |-> ps[p].consumedBy]
VerdictOf(rows) == [a \in DOMAIN rows |-> rows[a].decision]

\* The mapping commutes with Append.
LEMMA MappedAppend ==
    /\ \A ps \in Seq(ProposalRow), row \in ProposalRow :
          SpentOf(Append(ps, row)) = Append(SpentOf(ps), row.consumedBy)
    /\ \A rows \in Seq(AttemptRow), row \in AttemptRow :
          VerdictOf(Append(rows, row)) = Append(VerdictOf(rows), row.decision)
<1>1. ASSUME NEW ps \in Seq(ProposalRow), NEW row \in ProposalRow
      PROVE  SpentOf(Append(ps, row)) = Append(SpentOf(ps), row.consumedBy)
    <2>1. /\ Append(ps, row) \in Seq(ProposalRow)
          /\ DOMAIN ps = 1..Len(ps) /\ Len(ps) \in Nat
          /\ DOMAIN Append(ps, row) = 1..(Len(ps) + 1)
          /\ \A p \in 1..Len(ps) : Append(ps, row)[p] = ps[p]
          /\ Append(ps, row)[Len(ps) + 1] = row
        BY AppendProperties, LenProperties
    <2> DEFINE ids == {0} \cup AttemptId
    <2>2. /\ \A p \in 1..Len(ps) : ps[p].consumedBy \in ids
          /\ row.consumedBy \in ids
        <3>1. \A p \in 1..Len(ps) : ps[p] \in ProposalRow
            BY ElementOfSeq
        <3>2. QED
            BY <3>1 DEF ProposalRow
    <2> HIDE DEF ids
    <2>3. /\ SpentOf(ps) \in Seq(ids)
          /\ Len(SpentOf(ps)) = Len(ps)
        BY <2>1, <2>2 DEF SpentOf
    <2>4. /\ Append(SpentOf(ps), row.consumedBy) \in Seq(ids)
          /\ Len(Append(SpentOf(ps), row.consumedBy)) = Len(ps) + 1
          /\ \A p \in 1..Len(ps) : Append(SpentOf(ps), row.consumedBy)[p] = SpentOf(ps)[p]
          /\ Append(SpentOf(ps), row.consumedBy)[Len(ps) + 1] = row.consumedBy
        BY <2>2, <2>3, AppendProperties
    <2>5. /\ SpentOf(Append(ps, row)) \in Seq(ids)
          /\ Len(SpentOf(Append(ps, row))) = Len(ps) + 1
          /\ \A p \in 1..(Len(ps) + 1) : SpentOf(Append(ps, row))[p] = Append(ps, row)[p].consumedBy
        BY <2>1, <2>2 DEF SpentOf
    <2>6. \A p \in 1..(Len(ps) + 1) :
            SpentOf(Append(ps, row))[p] = Append(SpentOf(ps), row.consumedBy)[p]
        BY <2>1, <2>4, <2>5 DEF SpentOf
    <2>7. QED
        BY <2>4, <2>5, <2>6, SeqEqual
<1>2. ASSUME NEW rows \in Seq(AttemptRow), NEW row \in AttemptRow
      PROVE  VerdictOf(Append(rows, row)) = Append(VerdictOf(rows), row.decision)
    <2>1. /\ Append(rows, row) \in Seq(AttemptRow)
          /\ DOMAIN rows = 1..Len(rows) /\ Len(rows) \in Nat
          /\ DOMAIN Append(rows, row) = 1..(Len(rows) + 1)
          /\ \A a \in 1..Len(rows) : Append(rows, row)[a] = rows[a]
          /\ Append(rows, row)[Len(rows) + 1] = row
        BY AppendProperties, LenProperties
    <2> DEFINE decisions == {"pending", "kept", "rejected"}
    <2>2. /\ \A a \in 1..Len(rows) : rows[a].decision \in decisions
          /\ row.decision \in decisions
        <3>1. \A a \in 1..Len(rows) : rows[a] \in AttemptRow
            BY ElementOfSeq
        <3>2. QED
            BY <3>1 DEF AttemptRow
    <2> HIDE DEF decisions
    <2>3. /\ VerdictOf(rows) \in Seq(decisions)
          /\ Len(VerdictOf(rows)) = Len(rows)
        BY <2>1, <2>2 DEF VerdictOf
    <2>4. /\ Append(VerdictOf(rows), row.decision) \in Seq(decisions)
          /\ Len(Append(VerdictOf(rows), row.decision)) = Len(rows) + 1
          /\ \A a \in 1..Len(rows) : Append(VerdictOf(rows), row.decision)[a] = VerdictOf(rows)[a]
          /\ Append(VerdictOf(rows), row.decision)[Len(rows) + 1] = row.decision
        BY <2>2, <2>3, AppendProperties
    <2>5. /\ VerdictOf(Append(rows, row)) \in Seq(decisions)
          /\ Len(VerdictOf(Append(rows, row))) = Len(rows) + 1
          /\ \A a \in 1..(Len(rows) + 1) :
                VerdictOf(Append(rows, row))[a] = Append(rows, row)[a].decision
        BY <2>1, <2>2 DEF VerdictOf
    <2>6. \A a \in 1..(Len(rows) + 1) :
            VerdictOf(Append(rows, row))[a] = Append(VerdictOf(rows), row.decision)[a]
        BY <2>1, <2>4, <2>5 DEF VerdictOf
    <2>7. QED
        BY <2>4, <2>5, <2>6, SeqEqual
<1>3. QED
    BY <1>1, <1>2

\* The attempts that OneShotLease calls undecided are the running ones.
LEMMA UndecidedRuns ==
    ASSUME IInv
    PROVE  Lease!Undecided = {} <=> ~SomeRunning
BY DEF IInv, PendingIsRunning, SomeRunning, Lease!Undecided

\* Each step of the store is a step of OneShotLease or leaves its variables alone.
LEMMA StepRefines ==
    ASSUME IInv, [Next]_vars
    PROVE  [Lease!Next]_(Lease!lease)
<1> DEFINE spent == SpentOf(proposals)
           verdict == VerdictOf(attempts)
           spentNext == SpentOf(proposals')
           verdictNext == VerdictOf(attempts')
<1> USE DEF SpentOf, VerdictOf
<1>1. /\ proposals \in Seq(ProposalRow) /\ attempts \in Seq(AttemptRow)
      /\ DOMAIN attempts = 1..Len(attempts) /\ Len(attempts) \in Nat
      /\ DOMAIN spent = DOMAIN proposals /\ DOMAIN verdict = DOMAIN attempts
      /\ verdict \in [1..Len(attempts) -> {"pending", "kept", "rejected"}]
    <2>1. \A a \in 1..Len(attempts) : attempts[a] \in AttemptRow
        BY ElementOfSeq DEF IInv, TypeOK
    <2>2. QED
        BY <2>1, LenProperties DEF IInv, TypeOK, AttemptRow
<1>2. Len(verdict) = Len(attempts)
    BY <1>1
<1>3. CASE spentNext = spent /\ verdictNext = verdict
    BY <1>3 DEF Lease!lease
<1>4. ASSUME NEW k \in Client, NEW kind \in Kinds \cup {"legacy_unverified"},
             NEW payload \in Payload, op[k].step = "begun", attempts' = attempts,
             proposals' = Append(proposals, Row(op[k].campaign, kind, SeenNow(k), payload))
      PROVE  Lease!Issue
    <2> DEFINE row == Row(op[k].campaign, kind, SeenNow(k), payload)
    <2>1. row \in ProposalRow /\ row.consumedBy = 0
        BY <1>4, SeenIsCurrent, RowTyped
    <2> HIDE DEF row
    <2>2. SpentOf(proposals') = Append(SpentOf(proposals), 0)
        <3> USE DEF row
        <3> HIDE DEF SpentOf, VerdictOf
        <3>1. QED
            BY <1>1, <1>4, <2>1, MappedAppend
    <2>3. QED
        BY <1>4, <2>2 DEF Lease!Issue
<1>5. CASE \E k \in Client, kind \in Kinds, payload \in Payload :
               CreateProposal(k, kind, payload)
    <2>1. PICK k \in Client, kind \in Kinds, payload \in Payload :
               CreateProposal(k, kind, payload)
        BY <1>5
    <2>2. CASE proposals' = proposals
        BY <1>3, <2>1, <2>2 DEF CreateProposal
    <2>3. CASE proposals' # proposals
        <3>1. /\ op[k].step = "begun" /\ attempts' = attempts
              /\ proposals' = Append(proposals, Row(op[k].campaign, kind, SeenNow(k), payload))
            BY <2>1, <2>3 DEF CreateProposal
        <3>2. QED
            BY <1>4, <3>1 DEF Lease!Next
    <2>4. QED
        BY <2>2, <2>3
<1>6. CASE \E k \in Client, payload \in Payload : RecordAnalysis(k, payload)
    <2>1. PICK k \in Client, payload \in Payload : RecordAnalysis(k, payload)
        BY <1>6
    <2>2. /\ op[k].step = "begun" /\ attempts' = attempts
          /\ proposals' = Append(proposals,
                 Row(op[k].campaign, "legacy_unverified", SeenNow(k), payload))
        BY <2>1 DEF RecordAnalysis
    <2>3. QED
        BY <1>4, <2>2 DEF Lease!Next
<1>7. CASE \E k \in Client, p \in DOMAIN proposals : StartAttempt(k, p)
    <2>1. PICK k \in Client, p \in DOMAIN proposals : StartAttempt(k, p)
        BY <1>7
    <2> DEFINE row == [campaign |-> op[k].campaign, ordinal |-> SeenNow(k).count + 1,
                       status |-> "running", decision |-> "pending", score |-> NoScore,
                       blank |-> FALSE, proposal |-> p]
    <2>2. /\ attempts' = Append(attempts, row)
          /\ proposals' = [proposals EXCEPT ![p].consumedBy = Len(attempts) + 1]
          /\ proposals[p].consumedBy = 0
          /\ ~SomeRunning
        BY <2>1 DEF StartAttempt, IsValid
    <2>3. row \in AttemptRow /\ row.decision = "pending"
        <3>1. IInv'
            BY <2>1, StartAttemptStep
        <3>2. attempts' \in Seq(AttemptRow) /\ DOMAIN attempts' = 1..Len(attempts')
            BY <3>1, LenProperties DEF IInv, TypeOK
        <3> DEFINE S == AttemptRow \cup {row}
        <3>3. attempts \in Seq(S) /\ row \in S
            BY <1>1
        <3> HIDE DEF S, row
        <3>4. Len(attempts') = Len(attempts) + 1 /\ attempts'[Len(attempts) + 1] = row
            BY <2>2, <3>3, AppendProperties
        <3>5. row \in AttemptRow
            BY <1>1, <3>2, <3>4, ElementOfSeq
        <3>6. QED
            BY <3>5 DEF row
    <2> HIDE DEF row
    <2>4. VerdictOf(attempts') = Append(VerdictOf(attempts), "pending")
        <3> HIDE DEF SpentOf, VerdictOf
        <3>1. QED
            BY <1>1, <2>2, <2>3, MappedAppend
    <2>5. spentNext = [spent EXCEPT ![p] = Len(attempts) + 1]
        <3>1. proposals[p] \in ProposalRow
            BY <1>1, LenProperties, ElementOfSeq
        <3>2. /\ DOMAIN proposals' = DOMAIN proposals
              /\ proposals'[p].consumedBy = Len(attempts) + 1
              /\ \A q \in DOMAIN proposals : q # p => proposals'[q] = proposals[q]
            BY <2>2, <3>1 DEF ProposalRow
        <3>3. QED
            BY <3>2
    <2>6. Lease!Spend(p)
        BY <1>2, <2>2, <2>4, <2>5, UndecidedRuns DEF Lease!Spend
    <2>7. QED
        BY <2>1, <2>6, <1>1 DEF Lease!Next
<1>8. CASE \E k \in Client, status \in {"ok", "crash"}, score \in Score \cup {NoScore},
              blank \in BOOLEAN : FinishAttempt(k, status, score, blank)
    <2>1. PICK k \in Client, status \in {"ok", "crash"}, score \in Score \cup {NoScore},
               blank \in BOOLEAN : FinishAttempt(k, status, score, blank)
        BY <1>8
    <2>2. PICK a : a = op[k].attempt
        OBVIOUS
    <2>3. PICK v \in {"kept", "rejected"} :
             v = IF Improved(attempts[a].campaign, status, score) THEN "kept" ELSE "rejected"
        OBVIOUS
    <2>4. /\ a \in DOMAIN attempts /\ attempts[a].status = "running"
          /\ attempts[a] \in AttemptRow
          /\ attempts[a].decision = "pending"
        BY <1>1, <2>1, <2>2, ElementOfSeq
           DEF FinishAttempt, AwaitsVerdict, IInv, RunsHoldAttempts, PendingIsRunning
    <2>5. VerdictOf(attempts') = [VerdictOf(attempts) EXCEPT ![a] = v]
        <3> DEFINE decided == [attempts[a] EXCEPT !.status = status, !.decision = v,
                                                  !.score = score, !.blank = blank]
        <3>1. decided.decision = v
            BY <2>4 DEF AttemptRow
        <3>2. attempts' = [attempts EXCEPT ![a] = decided]
            BY <2>1, <2>2, <2>3 DEF FinishAttempt
        <3> HIDE DEF decided
        <3>3. QED
            BY <2>4, <3>1, <3>2
    <2>6. proposals' = proposals
        BY <2>1 DEF FinishAttempt
    <2>7. Lease!Decide(a, v)
        BY <2>4, <2>5, <2>6 DEF Lease!Decide
    <2>8. QED
        BY <1>1, <2>4, <2>7 DEF Lease!Next
<1>9. CASE \E a \in DOMAIN attempts : DescribeAttempt(a)
    <2>1. PICK a \in DOMAIN attempts : DescribeAttempt(a)
        BY <1>9
    <2>2. attempts' = [attempts EXCEPT ![a] = [@ EXCEPT !.blank = FALSE]] /\ proposals' = proposals
        BY <2>1 DEF DescribeAttempt
    <2>3. attempts[a] \in AttemptRow
        BY <1>1, ElementOfSeq
    <2>4. VerdictOf(attempts') = VerdictOf(attempts)
        <3> DEFINE described == [attempts[a] EXCEPT !.blank = FALSE]
        <3>1. described.decision = attempts[a].decision
            BY <2>3 DEF AttemptRow
        <3>2. attempts' = [attempts EXCEPT ![a] = described]
            BY <2>2
        <3> HIDE DEF described
        <3>3. QED
            BY <3>1, <3>2
    <2>5. QED
        BY <1>3, <2>2, <2>4
<1>10. CASE Startup
    <2>1. CASE ~SomeRunning
        <3>1. /\ DOMAIN attempts' = DOMAIN attempts
              /\ \A a \in DOMAIN attempts : attempts'[a] = attempts[a]
              /\ proposals' = proposals
            BY <1>10, <2>1 DEF Startup, SomeRunning
        <3>2. QED
            BY <1>3, <3>1
    <2>2. CASE SomeRunning
        <3>1. PICK a \in DOMAIN attempts : attempts[a].status = "running"
            BY <2>2 DEF SomeRunning
        <3>2. \A b \in DOMAIN attempts : b # a => attempts[b].status # "running"
            BY <3>1 DEF IInv, OneRunningAttempt
        <3>3. attempts[a].decision = "pending" /\ attempts[a] \in AttemptRow
            BY <1>1, <3>1, ElementOfSeq DEF IInv, PendingIsRunning
        <3>4. VerdictOf(attempts') = [VerdictOf(attempts) EXCEPT ![a] = "rejected"]
            BY <1>10, <3>1, <3>2, <3>3 DEF Startup, AttemptRow
        <3>5. Lease!Decide(a, "rejected")
            BY <1>10, <3>1, <3>3, <3>4 DEF Startup, Lease!Decide
        <3>6. QED
            BY <1>1, <3>1, <3>5 DEF Lease!Next
    <2>3. QED
        BY <2>1, <2>2
<1>11. CASE UNCHANGED <<attempts, proposals>>
    BY <1>3, <1>11
<1>12. QED
    BY <1>5, <1>6, <1>7, <1>8, <1>9, <1>10, <1>11
       DEF Next, vars, Create, Begin, CheckStatus, SetStatus, Abandon

\* The store keeps the promise of OneShotLease.
THEOREM StoreImplementsLease == Spec => ImplementsOneShotLease
<1>1. Init => Lease!Init
    BY DEF Init, Lease!Init
<1>2. IInv /\ [Next]_vars => [Lease!Next]_(Lease!lease)
    BY StepRefines
<1>3. QED
    BY <1>1, <1>2, StoreInvariant, PTL DEF Spec, ImplementsOneShotLease, Lease!Spec

-----------------------------------------------------------------------------
(* The winner and the stop policy.                                         *)

\* Only the last attempt of the table may be running; a campaign that runs has a
\* running attempt; and no attempt is of a campaign that was never created.
LastRuns == \A a \in DOMAIN attempts : attempts[a].status = "running" => a = Len(attempts)
RunningRuns ==
    \A c \in Campaign : campaigns[c].status = "running" =>
        \E a \in AttemptsOf(attempts, c) : attempts[a].status = "running"
AttemptsExist == \A a \in DOMAIN attempts : Exists(attempts[a].campaign)

BInv == /\ IInv
        /\ BestIsTheWinner
        /\ StopPolicyHonoured
        /\ LastRuns
        /\ RunningRuns
        /\ AttemptsExist

\* BestIsTheWinner of one campaign.
Winner(row, rows, c) ==
    LET ids == AttemptsOf(rows, c)
    IN  /\ row.best = 0 => row.bestScore = NoScore
        /\ row.best # 0 =>
             /\ row.best \in ids
             /\ rows[row.best].decision = "kept"
             /\ rows[row.best].score = row.bestScore
             /\ row.bestScore # NoScore
        /\ \A a \in ids :
             /\ rows[a].decision = "kept" => a <= row.best /\ rows[a].status = "ok"
             /\ rows[a].status = "ok" =>
                   ~Improves(rows[a].score, row.bestScore, PolicyOf[c])

\* StopPolicyHonoured of one campaign, unless it was reopened.
Honoured(row, rows, c) ==
    LET ids == AttemptsOf(rows, c)
    IN  /\ row.status = "active"
        /\ ids # {}
        /\ \A a \in ids : (\A b \in ids : b <= a) => rows[a].status \in {"ok", "crash"}
        => StopReason(rows, c, row.bestScore) = "none"

\* Two tables tell the same of a campaign.
SameStory(rows, others, c) ==
    /\ AttemptsOf(others, c) = AttemptsOf(rows, c)
    /\ \A a \in AttemptsOf(rows, c) :
           /\ others[a].status = rows[a].status
           /\ others[a].decision = rows[a].decision
           /\ others[a].score = rows[a].score

\* Both properties, campaign by campaign.
LEMMA ByCampaign ==
    /\ BestIsTheWinner <=> \A c \in Campaign : Winner(campaigns[c], attempts, c)
    /\ StopPolicyHonoured <=>
           \A c \in Campaign : ~reopened[c] => Honoured(campaigns[c], attempts, c)
BY DEF BestIsTheWinner, StopPolicyHonoured, Winner, Honoured

\* The stop reason is told by the story alone.
LEMMA SameReason ==
    ASSUME NEW rows, NEW others, NEW c, NEW best, SameStory(rows, others, c)
    PROVE  StopReason(others, c, best) = StopReason(rows, c, best)
<1>1. AttemptsOf(others, c) = AttemptsOf(rows, c)
    BY DEF SameStory
<1>2. {a \in AttemptsOf(rows, c) : others[a].status = "ok"}
          = {a \in AttemptsOf(rows, c) : rows[a].status = "ok"}
    BY DEF SameStory
<1>3. {a \in AttemptsOf(rows, c) : others[a].decision = "kept"}
          = {a \in AttemptsOf(rows, c) : rows[a].decision = "kept"}
    BY DEF SameStory
<1>4. QED
    BY <1>1, <1>2, <1>3, Zenon DEF StopReason

\* So are the winner, and whether the policy was honoured.
LEMMA SameWinner ==
    ASSUME NEW row, NEW next, NEW rows, NEW others, NEW c, SameStory(rows, others, c),
           next.best = row.best, next.bestScore = row.bestScore, Winner(row, rows, c)
    PROVE  Winner(next, others, c)
BY DEF Winner, SameStory

\* And a campaign left alone stays within its policy.
LEMMA SameHonour ==
    ASSUME NEW row, NEW next, NEW rows, NEW others, NEW c, SameStory(rows, others, c),
           next.status = row.status, next.bestScore = row.bestScore, Honoured(row, rows, c)
    PROVE  Honoured(next, others, c)
<1> SUFFICES ASSUME next.status = "active", AttemptsOf(others, c) # {},
                    \A a \in AttemptsOf(others, c) :
                        (\A b \in AttemptsOf(others, c) : b <= a) =>
                            others[a].status \in {"ok", "crash"}
             PROVE  StopReason(others, c, next.bestScore) = "none"
    BY DEF Honoured
<1>1. StopReason(others, c, next.bestScore) = StopReason(rows, c, row.bestScore)
    BY SameReason
<1>2. \A a \in AttemptsOf(rows, c) :
          (\A b \in AttemptsOf(rows, c) : b <= a) => rows[a].status \in {"ok", "crash"}
    BY DEF SameStory
<1>3. AttemptsOf(rows, c) # {}
    BY DEF SameStory
<1>4. QED
    BY <1>1, <1>2, <1>3 DEF Honoured

\* A score that beats the best leaves no other that beats the new best.
LEMMA Improving ==
    ASSUME NEW policy \in Policy, NEW best \in Score \cup {NoScore},
           NEW score \in Score \cup {NoScore}, Improves(score, best, policy)
    PROVE  /\ score # NoScore
           /\ ~Improves(score, score, policy)
           /\ \A other \in Score \cup {NoScore} :
                  ~Improves(other, best, policy) => ~Improves(other, score, policy)
<1>1. /\ policy.minDelta \in Nat /\ policy.direction \in {"minimize", "maximize"}
      /\ Score \subseteq Int /\ NoScore \notin Score
    BY StoreAssumption DEF Policy, Directions
<1>2. QED
    BY <1>1 DEF Improves

\* The rows of the tables.
LEMMA StoreRows ==
    ASSUME BInv
    PROVE  /\ DOMAIN attempts = 1..Len(attempts) /\ Len(attempts) \in Nat
           /\ \A a \in DOMAIN attempts :
                  attempts[a] \in AttemptRow /\ attempts[a].campaign \in Campaign
           /\ \A c \in Campaign : campaigns[c] \in CampaignRow
           /\ \A c \in Campaign : AttemptsOf(attempts, c) \subseteq DOMAIN attempts
<1>1. DOMAIN attempts = 1..Len(attempts) /\ Len(attempts) \in Nat
    BY LenProperties DEF BInv, IInv, TypeOK
<1>2. \A a \in DOMAIN attempts : attempts[a] \in AttemptRow
    BY <1>1, ElementOfSeq DEF BInv, IInv, TypeOK
<1>3. QED
    BY <1>1, <1>2 DEF BInv, IInv, TypeOK, AttemptRow, AttemptsOf

\* A step that tells the same story, makes no campaign active or running that was not,
\* or only such as have no attempts.
LEMMA StoryStays ==
    ASSUME BInv, IInv', DOMAIN attempts' = DOMAIN attempts, Len(attempts') = Len(attempts),
           \A a \in DOMAIN attempts :
               /\ attempts'[a].campaign = attempts[a].campaign
               /\ attempts'[a].status = attempts[a].status
               /\ attempts'[a].decision = attempts[a].decision
               /\ attempts'[a].score = attempts[a].score,
           \A c \in Campaign :
               /\ campaigns'[c].best = campaigns[c].best
               /\ campaigns'[c].bestScore = campaigns[c].bestScore
               /\ campaigns'[c].status = "running" => campaigns[c].status = "running"
               /\ Exists(c) => Exists(c)'
               /\ \/ reopened'[c]
                  \/ reopened'[c] = reopened[c] /\ campaigns'[c].status = campaigns[c].status
                  \/ ~Exists(c)
    PROVE  BInv'
<1>1. \A c \in Campaign : SameStory(attempts, attempts', c)
    BY DEF SameStory, AttemptsOf
<1>2. \A c \in Campaign : Winner(campaigns'[c], attempts', c)
    BY <1>1, SameWinner, ByCampaign DEF BInv
<1>3. ASSUME NEW c \in Campaign, ~reopened'[c] PROVE Honoured(campaigns'[c], attempts', c)
    <2>1. CASE ~Exists(c)
        <3>1. AttemptsOf(attempts', c) = {}
            BY <1>1, <2>1 DEF BInv, AttemptsExist, SameStory, AttemptsOf
        <3>2. QED
            BY <3>1 DEF Honoured
    <2>2. CASE Exists(c)
        BY <1>1, <1>3, <2>2, SameHonour, ByCampaign DEF BInv
    <2>3. QED
        BY <2>1, <2>2
<1>4. BestIsTheWinner' /\ StopPolicyHonoured'
    BY <1>2, <1>3 DEF BestIsTheWinner, StopPolicyHonoured, Winner, Honoured
<1>5. LastRuns'
    BY DEF BInv, LastRuns
<1>6. RunningRuns'
    BY <1>1 DEF BInv, RunningRuns, SameStory
<1>7. AttemptsExist'
    BY StoreRows DEF BInv, AttemptsExist
<1>8. QED
    BY <1>4, <1>5, <1>6, <1>7 DEF BInv

\* What a verdict does to the two tables.
LEMMA FinishFacts ==
    ASSUME BInv, NEW k \in Client, NEW status \in {"ok", "crash"},
           NEW score \in Score \cup {NoScore}, NEW blank \in BOOLEAN,
           FinishAttempt(k, status, score, blank)
    PROVE  \E a \in DOMAIN attempts, c \in Campaign, improved \in BOOLEAN :
               /\ attempts[a].status = "running" /\ attempts[a].campaign = c
               /\ improved <=> Improved(c, status, score)
               /\ DOMAIN attempts' = DOMAIN attempts /\ Len(attempts') = Len(attempts)
               /\ \A b \in DOMAIN attempts : b # a => attempts'[b] = attempts[b]
               /\ attempts'[a].campaign = c /\ attempts'[a].status = status
               /\ attempts'[a].decision = IF improved THEN "kept" ELSE "rejected"
               /\ attempts'[a].score = score
               /\ \A d \in Campaign : d # c => campaigns'[d] = campaigns[d]
               /\ campaigns'[c].best = IF improved THEN a ELSE campaigns[c].best
               /\ campaigns'[c].bestScore = IF improved THEN score ELSE campaigns[c].bestScore
               /\ campaigns'[c].status =
                      StatusAfter(StopReason(attempts', c, campaigns'[c].bestScore))
               /\ \A d \in Campaign : d # c => reopened'[d] = reopened[d]
<1> DEFINE a == op[k].attempt
           c == attempts[a].campaign
           improved == Improved(c, status, score)
           decision == IF improved THEN "kept" ELSE "rejected"
           row == [attempts[a] EXCEPT !.status = status, !.decision = decision,
                                      !.score = score, !.blank = blank]
           rows == [attempts EXCEPT ![a] = row]
           best == IF improved THEN score ELSE campaigns[c].bestScore
           reason == StopReason(rows, c, best)
           line == [campaigns[c] EXCEPT !.status = StatusAfter(reason), !.current = 0,
                       !.best = IF improved THEN a ELSE campaigns[c].best,
                       !.bestScore = best, !.stopReason = reason]
<1>1. a \in DOMAIN attempts /\ attempts[a].status = "running"
    BY DEF FinishAttempt, AwaitsVerdict, BInv, IInv, RunsHoldAttempts
<1>2. /\ attempts[a] \in AttemptRow /\ c \in Campaign /\ campaigns[c] \in CampaignRow
    BY <1>1, StoreRows
<1>3. /\ row.campaign = c /\ row.status = status /\ row.decision = decision
      /\ row.score = score
    <2> HIDE DEF decision
    <2>1. QED
        BY <1>2 DEF AttemptRow
<1>4. /\ line.status = StatusAfter(reason) /\ line.bestScore = best
      /\ line.best = IF improved THEN a ELSE campaigns[c].best
    <2> HIDE DEF improved, reason, best
    <2>1. QED
        BY <1>2 DEF CampaignRow
<1>5. /\ attempts' = rows
      /\ campaigns' = [campaigns EXCEPT ![c] = line]
      /\ reopened' = [reopened EXCEPT ![c] = FALSE]
    <2>1. attempts' = rows
        BY DEF FinishAttempt
    <2>2. campaigns' = [campaigns EXCEPT ![c] = line]
        BY Zenon DEF FinishAttempt
    <2>3. reopened' = [reopened EXCEPT ![c] = FALSE]
        BY DEF FinishAttempt
    <2>4. QED
        BY <2>1, <2>2, <2>3
<1>6. improved \in BOOLEAN
    BY DEF Improved
<1> DEFINE was == improved
<1>7. was <=> Improved(c, status, score)
    OBVIOUS
<1> HIDE DEF improved
<1>8. decision = IF improved THEN "kept" ELSE "rejected"
    OBVIOUS
<1>9. best = IF improved THEN score ELSE campaigns[c].bestScore
    OBVIOUS
<1>10. reason = StopReason(rows, c, best)
    OBVIOUS
<1> HIDE DEF row, line, decision, best, reason
<1>11. DOMAIN rows = DOMAIN attempts /\ rows[a] = row
       /\ \A b \in DOMAIN attempts : b # a => rows[b] = attempts[b]
    BY <1>1
<1>12. campaigns'[c] = line /\ \A d \in Campaign : d # c => campaigns'[d] = campaigns[d]
    BY <1>2, <1>5 DEF BInv, IInv, TypeOK
<1>13. \A d \in Campaign : d # c => reopened'[d] = reopened[d]
    BY <1>2, <1>5 DEF BInv, IInv, TypeOK
<1>14. Len(rows) = Len(attempts)
    <2>1. attempts \in Seq(AttemptRow \cup {row}) /\ row \in AttemptRow \cup {row}
        BY DEF BInv, IInv, TypeOK
    <2>2. QED
        BY <1>1, <2>1, StoreRows, ExceptSeq
<1>15. StatusAfter(reason) = StatusAfter(StopReason(attempts', c, campaigns'[c].bestScore))
    BY <1>4, <1>5, <1>10, <1>12
<1>16. attempts[a].campaign = c
    OBVIOUS
<1> HIDE DEF rows, c, a
<1>17. /\ attempts[a].status = "running" /\ attempts[a].campaign = c
       /\ improved <=> Improved(c, status, score)
       /\ DOMAIN attempts' = DOMAIN attempts /\ Len(attempts') = Len(attempts)
       /\ \A b \in DOMAIN attempts : b # a => attempts'[b] = attempts[b]
       /\ attempts'[a].campaign = c /\ attempts'[a].status = status
       /\ attempts'[a].decision = IF improved THEN "kept" ELSE "rejected"
       /\ attempts'[a].score = score
       /\ \A d \in Campaign : d # c => campaigns'[d] = campaigns[d]
       /\ campaigns'[c].best = IF improved THEN a ELSE campaigns[c].best
       /\ campaigns'[c].bestScore = IF improved THEN score ELSE campaigns[c].bestScore
       /\ campaigns'[c].status =
              StatusAfter(StopReason(attempts', c, campaigns'[c].bestScore))
       /\ \A d \in Campaign : d # c => reopened'[d] = reopened[d]
    <2>1. attempts[a].status = "running" /\ attempts[a].campaign = c
        BY <1>1, <1>16
    <2>2. improved <=> Improved(c, status, score)
        BY <1>7
    <2>3. /\ DOMAIN attempts' = DOMAIN attempts /\ Len(attempts') = Len(attempts)
          /\ \A b \in DOMAIN attempts : b # a => attempts'[b] = attempts[b]
        BY <1>5, <1>11, <1>14
    <2>4. /\ attempts'[a].campaign = c /\ attempts'[a].status = status
          /\ attempts'[a].decision = IF improved THEN "kept" ELSE "rejected"
          /\ attempts'[a].score = score
        BY <1>3, <1>5, <1>8, <1>11
    <2>5. /\ campaigns'[c].best = IF improved THEN a ELSE campaigns[c].best
          /\ campaigns'[c].bestScore = IF improved THEN score ELSE campaigns[c].bestScore
        BY <1>4, <1>9, <1>12
    <2>6. campaigns'[c].status =
              StatusAfter(StopReason(attempts', c, campaigns'[c].bestScore))
        BY <1>4, <1>12, <1>15
    <2>7. QED
        BY <1>12, <1>13, <2>1, <2>2, <2>3, <2>4, <2>5, <2>6
<1>18. QED
    BY <1>1, <1>2, <1>6, <1>17, Zenon

\* finish_attempt: the running attempt is the last of the table, so it is the last of
\* its campaign when it wins, and the policy was evaluated with it.
LEMMA FinishBInv ==
    ASSUME BInv, IInv', NEW k \in Client, NEW status \in {"ok", "crash"},
           NEW score \in Score \cup {NoScore}, NEW blank \in BOOLEAN,
           FinishAttempt(k, status, score, blank)
    PROVE  BInv'
<1>1. PICK a \in DOMAIN attempts, c \in Campaign, improved \in BOOLEAN :
               /\ attempts[a].status = "running" /\ attempts[a].campaign = c
               /\ improved <=> Improved(c, status, score)
               /\ DOMAIN attempts' = DOMAIN attempts /\ Len(attempts') = Len(attempts)
               /\ \A b \in DOMAIN attempts : b # a => attempts'[b] = attempts[b]
               /\ attempts'[a].campaign = c /\ attempts'[a].status = status
               /\ attempts'[a].decision = IF improved THEN "kept" ELSE "rejected"
               /\ attempts'[a].score = score
               /\ \A d \in Campaign : d # c => campaigns'[d] = campaigns[d]
               /\ campaigns'[c].best = IF improved THEN a ELSE campaigns[c].best
               /\ campaigns'[c].bestScore = IF improved THEN score ELSE campaigns[c].bestScore
               /\ campaigns'[c].status =
                      StatusAfter(StopReason(attempts', c, campaigns'[c].bestScore))
               /\ \A d \in Campaign : d # c => reopened'[d] = reopened[d]
    BY FinishFacts
<1>2. /\ a = Len(attempts) /\ DOMAIN attempts = 1..Len(attempts) /\ Len(attempts) \in Nat
      /\ \A b \in DOMAIN attempts : b # a => attempts[b].status # "running"
    BY <1>1, StoreRows DEF BInv, LastRuns
<1>3. /\ \A d \in Campaign : AttemptsOf(attempts', d) = AttemptsOf(attempts, d)
      /\ a \in AttemptsOf(attempts, c)
      /\ \A d \in Campaign : AttemptsOf(attempts, d) \subseteq DOMAIN attempts
    BY <1>1, StoreRows DEF AttemptsOf
<1>4. \A d \in Campaign \ {c} : a \notin AttemptsOf(attempts, d)
    BY <1>1 DEF AttemptsOf
<1>5. \A d \in Campaign \ {c} : SameStory(attempts, attempts', d)
    BY <1>1, <1>3, <1>4 DEF SameStory
<1>6. \A d \in Campaign \ {c} : Winner(campaigns'[d], attempts', d)
    BY <1>1, <1>5, SameWinner, ByCampaign DEF BInv
<1>7. \A d \in Campaign \ {c} : ~reopened'[d] => Honoured(campaigns'[d], attempts', d)
    BY <1>1, <1>5, SameHonour, ByCampaign DEF BInv
<1>8. Winner(campaigns'[c], attempts', c)
    <2>1. /\ Winner(campaigns[c], attempts, c) /\ campaigns[c] \in CampaignRow
          /\ PolicyOf[c] \in Policy
        BY StoreRows, ByCampaign, StoreAssumption DEF BInv
    <2>2. /\ campaigns[c].bestScore \in Score \cup {NoScore}
          /\ campaigns[c].best \in {0} \cup AttemptId
        BY <2>1 DEF CampaignRow
    <2>3. \A b \in AttemptsOf(attempts, c) : attempts[b].score \in Score \cup {NoScore}
        BY <1>3, StoreRows DEF AttemptRow
    <2>4. attempts[a].decision = "pending"
        BY <1>1 DEF BInv, IInv, PendingIsRunning
    <2>5. CASE improved
        <3>1. status = "ok" /\ Improves(score, campaigns[c].bestScore, PolicyOf[c])
            BY <1>1, <2>5 DEF Improved
        <3>2. /\ score # NoScore
              /\ ~Improves(score, score, PolicyOf[c])
              /\ \A other \in Score \cup {NoScore} :
                     ~Improves(other, campaigns[c].bestScore, PolicyOf[c]) =>
                         ~Improves(other, score, PolicyOf[c])
            BY <2>1, <2>2, <3>1, Improving
        <3>3. campaigns'[c].best = a /\ campaigns'[c].bestScore = score /\ a # 0
            BY <1>1, <1>2, <2>5
        <3>4. ASSUME NEW b \in AttemptsOf(attempts, c), b # a
              PROVE  /\ attempts'[b].decision = "kept" => b <= a /\ attempts'[b].status = "ok"
                     /\ attempts'[b].status = "ok" =>
                            ~Improves(attempts'[b].score, score, PolicyOf[c])
            <4>1. attempts'[b] = attempts[b] /\ b \in 1..Len(attempts)
                BY <1>1, <1>2, <1>3, <3>4
            <4>2. b <= a
                BY <1>2, <4>1
            <4>3. QED
                BY <2>1, <2>3, <3>2, <3>4, <4>1, <4>2 DEF Winner
        <3>5. a \in Int
            BY <1>2
        <3>6. QED
            BY <1>1, <1>3, <2>5, <3>1, <3>2, <3>3, <3>4, <3>5 DEF Winner
    <2>6. CASE ~improved
        <3>1. campaigns'[c].best = campaigns[c].best
              /\ campaigns'[c].bestScore = campaigns[c].bestScore
              /\ attempts'[a].decision = "rejected"
            BY <1>1, <2>6
        <3>2. status = "ok" => ~Improves(score, campaigns[c].bestScore, PolicyOf[c])
            BY <1>1, <2>6 DEF Improved
        <3>3. campaigns[c].best # 0 => campaigns[c].best # a
            BY <2>1, <2>4 DEF Winner
        <3>4. \A b \in AttemptsOf(attempts, c) : b # a => attempts'[b] = attempts[b]
            BY <1>1, <1>3
        <3>5. QED
            BY <1>1, <1>3, <2>1, <3>1, <3>2, <3>3, <3>4 DEF Winner
    <2>7. QED
        BY <2>5, <2>6
<1>9. Honoured(campaigns'[c], attempts', c)
    BY <1>1 DEF Honoured, StatusAfter
<1>10. BestIsTheWinner' /\ StopPolicyHonoured'
    <2>1. \A d \in Campaign : Winner(campaigns'[d], attempts', d)
        BY <1>6, <1>8
    <2>2. \A d \in Campaign : ~reopened'[d] => Honoured(campaigns'[d], attempts', d)
        BY <1>7, <1>9
    <2>3. QED
        BY <2>1, <2>2 DEF BestIsTheWinner, StopPolicyHonoured, Winner, Honoured
<1>11. LastRuns'
    BY <1>1, <1>2 DEF LastRuns
<1>12. RunningRuns'
    <2>1. campaigns'[c].status # "running"
        BY <1>1, VerdictTyped DEF Terminal
    <2>2. ASSUME NEW d \in Campaign \ {c}, campaigns'[d].status = "running" PROVE FALSE
        <3>1. PICK b \in AttemptsOf(attempts, d) : attempts[b].status = "running"
            BY <1>1, <2>2 DEF BInv, RunningRuns
        <3>2. QED
            BY <1>2, <1>3, <1>4, <3>1
    <2>3. QED
        BY <2>1, <2>2 DEF RunningRuns
<1>13. AttemptsExist'
    <2>1. Exists(c)'
        BY <1>1, VerdictTyped DEF Exists, Terminal
    <2>2. \A d \in Campaign : Exists(d) => Exists(d)'
        BY <1>1, <2>1 DEF Exists
    <2>3. \A b \in DOMAIN attempts : attempts'[b].campaign = attempts[b].campaign
        BY <1>1
    <2>4. QED
        BY <1>1, <2>2, <2>3, StoreRows DEF BInv, AttemptsExist
<1>14. QED
    BY <1>10, <1>11, <1>12, <1>13 DEF BInv

\* What a start does to the two tables.
LEMMA StartFacts ==
    ASSUME BInv, NEW k \in Client, NEW p \in DOMAIN proposals, StartAttempt(k, p)
    PROVE  /\ op[k].campaign \in Campaign
           /\ \A a \in DOMAIN attempts : attempts[a].status # "running"
           /\ \A d \in Campaign : AttemptsOf(attempts', d) =
                  IF op[k].campaign = d THEN AttemptsOf(attempts, d) \cup {Len(attempts) + 1}
                                        ELSE AttemptsOf(attempts, d)
           /\ Len(attempts') = Len(attempts) + 1
           /\ DOMAIN attempts' = DOMAIN attempts \cup {Len(attempts) + 1}
           /\ \A a \in DOMAIN attempts : attempts'[a] = attempts[a]
           /\ attempts'[Len(attempts) + 1].campaign = op[k].campaign
           /\ attempts'[Len(attempts) + 1].status = "running"
           /\ attempts'[Len(attempts) + 1].decision = "pending"
           /\ \A d \in Campaign : d # op[k].campaign => campaigns'[d] = campaigns[d]
           /\ campaigns'[op[k].campaign].best = campaigns[op[k].campaign].best
           /\ campaigns'[op[k].campaign].bestScore = campaigns[op[k].campaign].bestScore
           /\ campaigns'[op[k].campaign].status = "running"
           /\ reopened' = reopened
<1> DEFINE c == op[k].campaign
           new == Len(attempts) + 1
           count == Cardinality(AttemptsOf(attempts, c))
           row == [campaign |-> c, ordinal |-> SeenNow(k).count + 1, status |-> "running",
                   decision |-> "pending", score |-> NoScore, blank |-> FALSE,
                   proposal |-> p]
           line == [campaigns[c] EXCEPT !.status = "running", !.current = new,
                                        !.stopReason = "none"]
<1>1. /\ c \in Campaign
      /\ SeenNow(k).count = count
    BY SeenIsCurrent DEF StartAttempt, HistoryState, BInv
<1>2. /\ DOMAIN attempts = 1..Len(attempts) /\ Len(attempts) \in Nat
      /\ DOMAIN proposals = 1..Len(proposals) /\ Len(proposals) \in Nat
      /\ MaxAttempts \in Nat /\ MaxProposals \in Nat
      /\ Len(attempts) < MaxAttempts /\ Len(proposals) <= MaxProposals
    BY LenProperties, StoreAssumption DEF BInv, IInv, TypeOK, StartAttempt
<1>3. count \in 0..Len(attempts)
    BY <1>1, HistoryTyped DEF BInv, IInv, TypeOK
<1>4. row \in AttemptRow
    BY <1>1, <1>2, <1>3 DEF AttemptRow, AttemptId
<1>5. campaigns[c] \in CampaignRow
    BY <1>1 DEF BInv, IInv, TypeOK
<1>6. /\ line.status = "running" /\ line.best = campaigns[c].best
      /\ line.bestScore = campaigns[c].bestScore
    BY <1>5 DEF CampaignRow
<1>7. attempts' = Append(attempts, row)
    BY DEF StartAttempt
<1>8. campaigns' = [campaigns EXCEPT ![c] = line] /\ reopened' = reopened
    BY DEF StartAttempt
<1>9. \A a \in DOMAIN attempts : attempts[a].status # "running"
    BY DEF StartAttempt, SomeRunning
<1>10. row.campaign = c /\ row.status = "running" /\ row.decision = "pending"
    OBVIOUS
<1> HIDE DEF c, row, line, count
<1>11. \A d \in Campaign : AttemptsOf(attempts', d) =
           IF c = d THEN AttemptsOf(attempts, d) \cup {new} ELSE AttemptsOf(attempts, d)
    BY <1>4, <1>7, <1>10, AppendedAttempt DEF BInv, IInv, TypeOK
<1>12. /\ attempts' \in Seq(AttemptRow)
       /\ Len(attempts') = new
       /\ \A a \in 1..Len(attempts) : attempts'[a] = attempts[a]
       /\ attempts'[new] = row
    BY <1>4, <1>7, AppendProperties DEF BInv, IInv, TypeOK
<1>13. DOMAIN attempts' = 1..new
    BY <1>12, LenProperties
<1>14. DOMAIN attempts' = DOMAIN attempts \cup {new}
    BY <1>2, <1>13
<1>15. campaigns'[c] = line /\ \A d \in Campaign : d # c => campaigns'[d] = campaigns[d]
    BY <1>1, <1>8 DEF BInv, IInv, TypeOK
<1>16. /\ c \in Campaign
       /\ \A a \in DOMAIN attempts : attempts'[a] = attempts[a]
       /\ attempts'[new].campaign = c /\ attempts'[new].status = "running"
       /\ attempts'[new].decision = "pending"
       /\ campaigns'[c].best = campaigns[c].best
       /\ campaigns'[c].bestScore = campaigns[c].bestScore
       /\ campaigns'[c].status = "running"
    BY <1>1, <1>2, <1>6, <1>10, <1>12, <1>15
<1>17. QED
    BY <1>8, <1>9, <1>11, <1>12, <1>14, <1>15, <1>16, Zenon DEF c

\* start_attempt: an attempt without a verdict is no winner, and its campaign runs.
LEMMA StartBInv ==
    ASSUME BInv, IInv', NEW k \in Client, NEW p \in DOMAIN proposals, StartAttempt(k, p)
    PROVE  BInv'
<1>1. PICK c \in Campaign, new \in {Len(attempts) + 1} :
           /\ \A a \in DOMAIN attempts : attempts[a].status # "running"
           /\ \A d \in Campaign : AttemptsOf(attempts', d) =
                  IF c = d THEN AttemptsOf(attempts, d) \cup {new} ELSE AttemptsOf(attempts, d)
           /\ Len(attempts') = new
           /\ DOMAIN attempts' = DOMAIN attempts \cup {new}
           /\ \A a \in DOMAIN attempts : attempts'[a] = attempts[a]
           /\ attempts'[new].campaign = c
           /\ attempts'[new].status = "running"
           /\ attempts'[new].decision = "pending"
           /\ \A d \in Campaign : d # c => campaigns'[d] = campaigns[d]
           /\ campaigns'[c].best = campaigns[c].best
           /\ campaigns'[c].bestScore = campaigns[c].bestScore
           /\ campaigns'[c].status = "running"
           /\ reopened' = reopened
    BY StartFacts, Zenon
<1>2. /\ \A d \in Campaign : AttemptsOf(attempts, d) \subseteq DOMAIN attempts
      /\ \A d \in Campaign : \A a \in AttemptsOf(attempts, d) : attempts'[a] = attempts[a]
    BY <1>1, StoreRows
<1>3. \A d \in Campaign \ {c} : SameStory(attempts, attempts', d)
    BY <1>1, <1>2 DEF SameStory
<1>4. \A d \in Campaign \ {c} : Winner(campaigns'[d], attempts', d)
    BY <1>1, <1>3, SameWinner, ByCampaign DEF BInv
<1>5. \A d \in Campaign \ {c} : ~reopened'[d] => Honoured(campaigns'[d], attempts', d)
    BY <1>1, <1>3, SameHonour, ByCampaign DEF BInv
<1>6. Winner(campaigns'[c], attempts', c)
    <2>1. Winner(campaigns[c], attempts, c)
        BY ByCampaign DEF BInv
    <2>2. QED
        BY <1>1, <1>2, <2>1 DEF Winner
<1>7. Honoured(campaigns'[c], attempts', c)
    BY <1>1 DEF Honoured
<1>8. BestIsTheWinner' /\ StopPolicyHonoured'
    <2>1. \A d \in Campaign : Winner(campaigns'[d], attempts', d)
        BY <1>4, <1>6
    <2>2. \A d \in Campaign : ~reopened'[d] => Honoured(campaigns'[d], attempts', d)
        BY <1>5, <1>7
    <2>3. QED
        BY <2>1, <2>2 DEF BestIsTheWinner, StopPolicyHonoured, Winner, Honoured
<1>9. LastRuns'
    BY <1>1 DEF LastRuns
<1>10. RunningRuns'
    <2>1. new \in AttemptsOf(attempts', c)
        BY <1>1
    <2>2. \A d \in Campaign \ {c} : campaigns'[d].status # "running"
        BY <1>1, <1>2 DEF BInv, RunningRuns
    <2>3. QED
        BY <1>1, <2>1, <2>2 DEF RunningRuns
<1>11. AttemptsExist'
    <2>1. \A d \in Campaign : Exists(d) => Exists(d)'
        BY <1>1 DEF Exists
    <2>2. Exists(c)'
        BY <1>1 DEF Exists
    <2>3. QED
        BY <1>1, <2>1, <2>2, StoreRows DEF BInv, AttemptsExist
<1>12. QED
    BY <1>8, <1>9, <1>10, <1>11 DEF BInv

\* initialize_store: the campaign that ran had its last attempt running, and that
\* attempt is interrupted; every other campaign keeps its story.
LEMMA StartupBInv ==
    ASSUME BInv, IInv', Startup
    PROVE  BInv'
<1>1. \A a \in DOMAIN attempts :
          /\ attempts'[a].campaign = attempts[a].campaign
          /\ attempts'[a].score = attempts[a].score
          /\ attempts[a].status = "running" =>
                 attempts'[a].status = "interrupted" /\ attempts'[a].decision = "rejected"
          /\ attempts[a].status # "running" => attempts'[a] = attempts[a]
    BY StoreRows DEF Startup, AttemptRow
<1>2. \A c \in Campaign :
          /\ campaigns'[c].best = campaigns[c].best
          /\ campaigns'[c].bestScore = campaigns[c].bestScore
          /\ campaigns'[c].status = IF campaigns[c].status = "running" THEN "active"
                                    ELSE campaigns[c].status
    BY StoreRows DEF Startup, CampaignRow
<1>3. DOMAIN attempts' = DOMAIN attempts /\ reopened' = reopened
    BY DEF Startup
<1>4. Len(attempts') = Len(attempts)
    <2>1. DOMAIN attempts' = 1..Len(attempts') /\ Len(attempts') \in Nat
        BY LenProperties DEF IInv, TypeOK
    <2>2. QED
        BY <1>3, <2>1, StoreRows
<1>5. \A c \in Campaign :
          /\ AttemptsOf(attempts', c) = AttemptsOf(attempts, c)
          /\ AttemptsOf(attempts, c) \subseteq DOMAIN attempts
    BY <1>1, <1>3 DEF AttemptsOf
<1>6. ASSUME NEW c \in Campaign PROVE Winner(campaigns'[c], attempts', c)
    <2>1. Winner(campaigns[c], attempts, c)
        BY ByCampaign DEF BInv
    <2>2. \A a \in AttemptsOf(attempts, c) :
              attempts[a].status = "running" <=> attempts[a].decision = "pending"
        BY <1>5 DEF BInv, IInv, PendingIsRunning
    <2>3. \A a \in AttemptsOf(attempts, c) :
              /\ attempts[a].decision = "kept" => attempts'[a] = attempts[a]
              /\ attempts'[a].decision = "kept" => attempts'[a] = attempts[a]
              /\ attempts'[a].status = "ok" => attempts'[a] = attempts[a]
        BY <1>1, <1>5, <2>2
    <2>4. QED
        BY <1>2, <1>5, <2>1, <2>3 DEF Winner
<1>7. ASSUME NEW c \in Campaign, ~reopened'[c] PROVE Honoured(campaigns'[c], attempts', c)
    <2>1. CASE \E a \in AttemptsOf(attempts, c) : attempts[a].status = "running"
        <3>1. PICK a \in AttemptsOf(attempts, c) : attempts[a].status = "running"
            BY <2>1
        <3>2. a = Len(attempts)
            BY <1>5, <3>1 DEF BInv, LastRuns
        <3>3. \A b \in AttemptsOf(attempts', c) : b <= a
            BY <1>5, <3>2, StoreRows
        <3>4. a \in AttemptsOf(attempts', c) /\ attempts'[a].status = "interrupted"
            BY <1>1, <1>5, <3>1
        <3>5. QED
            BY <3>3, <3>4 DEF Honoured
    <2>2. CASE ~\E a \in AttemptsOf(attempts, c) : attempts[a].status = "running"
        <3>1. SameStory(attempts, attempts', c)
            BY <1>1, <1>5, <2>2 DEF SameStory
        <3>2. campaigns[c].status # "running"
            BY <2>2 DEF BInv, RunningRuns
        <3>3. Honoured(campaigns[c], attempts, c)
            BY <1>3, <1>7, ByCampaign DEF BInv
        <3>4. campaigns'[c].status = campaigns[c].status
              /\ campaigns'[c].bestScore = campaigns[c].bestScore
            BY <1>2, <3>2
        <3>5. QED
            BY <3>1, <3>3, <3>4, SameHonour
    <2>3. QED
        BY <2>1, <2>2
<1>8. BestIsTheWinner' /\ StopPolicyHonoured'
    BY <1>6, <1>7 DEF BestIsTheWinner, StopPolicyHonoured, Winner, Honoured
<1>9. \A a \in DOMAIN attempts : attempts'[a].status # "running"
    BY <1>1
<1>10. LastRuns'
    BY <1>3, <1>9 DEF LastRuns
<1>11. RunningRuns'
    BY <1>2 DEF RunningRuns
<1>12. AttemptsExist'
    <2>1. \A c \in Campaign : Exists(c) => Exists(c)'
        BY <1>2 DEF Exists
    <2>2. QED
        BY <1>1, <1>3, <2>1, StoreRows DEF BInv, AttemptsExist
<1>13. QED
    BY <1>8, <1>10, <1>11, <1>12 DEF BInv

\* The calls that write neither a verdict nor a new attempt.
LEMMA QuietBInv ==
    ASSUME BInv, IInv',
           \/ UNCHANGED vars
           \/ \E c \in Campaign : Create(c)
           \/ \E k \in Client, call \in Calls, c \in Campaign : Begin(k, call, c)
           \/ \E k \in Client, kind \in Kinds, payload \in Payload :
                  CreateProposal(k, kind, payload)
           \/ \E k \in Client, payload \in Payload : RecordAnalysis(k, payload)
           \/ \E k \in Client, c \in Campaign, status \in ManualStatus :
                  CheckStatus(k, c, status)
           \/ \E k \in Client : Abandon(k)
    PROVE  BInv'
<1>1. CASE campaigns' = campaigns /\ attempts' = attempts /\ reopened' = reopened
    <2>1. \A c \in Campaign : Exists(c) => Exists(c)'
        BY <1>1 DEF Exists
    <2>2. QED
        BY <1>1, <2>1, StoryStays
<1>2. CASE \E c \in Campaign : Create(c)
    <2>1. PICK c \in Campaign : Create(c)
        BY <1>2
    <2>2. attempts' = attempts /\ reopened' = reopened /\ ~Exists(c)
        BY <2>1 DEF Create
    <2>3. \A d \in Campaign :
              /\ campaigns'[d].best = campaigns[d].best
              /\ campaigns'[d].bestScore = campaigns[d].bestScore
              /\ campaigns'[d].status =
                     IF d = c THEN "active" ELSE campaigns[d].status
        BY <2>1, StoreRows DEF Create, CampaignRow, BInv, IInv, TypeOK
    <2>4. \A d \in Campaign : Exists(d) => Exists(d)'
        BY <2>3 DEF Exists
    <2>5. QED
        BY <2>2, <2>3, <2>4, StoryStays
<1>3. QED
    BY <1>1, <1>2 DEF vars, Begin, CreateProposal, RecordAnalysis, CheckStatus, Abandon

\* update_attempt_description writes what neither property reads.
LEMMA DescribeBInv ==
    ASSUME BInv, IInv', NEW a \in DOMAIN attempts, DescribeAttempt(a)
    PROVE  BInv'
<1>1. /\ DOMAIN attempts' = DOMAIN attempts
      /\ \A b \in DOMAIN attempts :
            /\ attempts'[b].campaign = attempts[b].campaign
            /\ attempts'[b].status = attempts[b].status
            /\ attempts'[b].decision = attempts[b].decision
            /\ attempts'[b].score = attempts[b].score
    BY StoreRows DEF DescribeAttempt, AttemptRow
<1>2. campaigns' = campaigns /\ reopened' = reopened
    BY DEF DescribeAttempt
<1>3. Len(attempts') = Len(attempts)
    <2>1. DOMAIN attempts' = 1..Len(attempts') /\ Len(attempts') \in Nat
        BY LenProperties DEF IInv, TypeOK
    <2>2. QED
        BY <1>1, <2>1, StoreRows
<1>4. \A c \in Campaign : Exists(c) => Exists(c)'
    BY <1>2 DEF Exists
<1>5. QED
    BY <1>1, <1>2, <1>3, <1>4, StoryStays

\* set_campaign_status: the operator's word is noted, and never makes a campaign run.
LEMMA SetStatusBInv ==
    ASSUME BInv, IInv', NEW k \in Client, SetStatus(k)
    PROVE  BInv'
<1> DEFINE c == op[k].campaign
           status == op[k].status
           line == [campaigns[c] EXCEPT !.status = status,
                       !.stopReason = IF status \in Terminal THEN "manual" ELSE "none"]
<1>1. op[k] \in Checked
    BY OpShape DEF SetStatus, BInv, IInv, TypeOK
<1>2. c \in Campaign /\ status \in Terminal \cup {"active"}
    BY <1>1, StoreAssumption DEF Checked
<1>3. campaigns' = [campaigns EXCEPT ![c] = line]
    BY DEF SetStatus
<1>4. attempts' = attempts /\ reopened' = [reopened EXCEPT ![c] = TRUE]
    BY DEF SetStatus
<1>5. campaigns[c] \in CampaignRow
    BY <1>2, StoreRows
<1>6. /\ line.status = status
      /\ line.best = campaigns[c].best /\ line.bestScore = campaigns[c].bestScore
    <2> HIDE DEF c, status
    <2>1. QED
        BY <1>5 DEF CampaignRow
<1> HIDE DEF c, status, line
<1>7. /\ campaigns'[c] = line /\ reopened'[c]
      /\ \A d \in Campaign : d # c =>
             campaigns'[d] = campaigns[d] /\ reopened'[d] = reopened[d]
    BY <1>2, <1>3, <1>4 DEF BInv, IInv, TypeOK
<1>8. status # "running" /\ status # "absent"
    BY <1>2 DEF Terminal
<1>9. \A d \in Campaign : Exists(d) => Exists(d)'
    BY <1>6, <1>7, <1>8 DEF Exists
<1>10. \A d \in Campaign :
          /\ campaigns'[d].best = campaigns[d].best
          /\ campaigns'[d].bestScore = campaigns[d].bestScore
          /\ campaigns'[d].status = "running" => campaigns[d].status = "running"
    BY <1>6, <1>7, <1>8
<1>11. \A d \in Campaign :
          \/ reopened'[d]
          \/ reopened'[d] = reopened[d] /\ campaigns'[d].status = campaigns[d].status
          \/ ~Exists(d)
    BY <1>7
<1>12. QED
    BY <1>4, <1>9, <1>10, <1>11, StoryStays

\* The empty store has no winner to lose and no policy to honour.
LEMMA InitBInv == Init => BInv
<1>1. SUFFICES ASSUME Init PROVE BInv
    OBVIOUS
<1>2. DOMAIN attempts = {}
    BY <1>1, EmptySeq DEF Init
<1>3. \A c \in Campaign :
          /\ AttemptsOf(attempts, c) = {}
          /\ campaigns[c].status = "absent"
          /\ campaigns[c].best = 0
          /\ campaigns[c].bestScore = NoScore
    BY <1>1, <1>2 DEF Init, AttemptsOf
<1>4. BestIsTheWinner
    BY <1>3 DEF BestIsTheWinner
<1>5. StopPolicyHonoured
    BY <1>3 DEF StopPolicyHonoured
<1>6. LastRuns /\ RunningRuns /\ AttemptsExist
    BY <1>2, <1>3 DEF LastRuns, RunningRuns, AttemptsExist
<1>7. QED
    BY <1>1, <1>4, <1>5, <1>6, InitIInv DEF BInv

\* The stronger invariant is inductive too.
LEMMA NextBInv == BInv /\ [Next]_vars => BInv'
<1>1. SUFFICES ASSUME BInv, [Next]_vars PROVE BInv'
    OBVIOUS
<1>2. IInv'
    BY <1>1, NextIInv DEF BInv
<1>3. CASE \E k \in Client, p \in DOMAIN proposals : StartAttempt(k, p)
    BY <1>1, <1>2, <1>3, StartBInv
<1>4. CASE \E k \in Client, status \in {"ok", "crash"}, score \in Score \cup {NoScore},
              blank \in BOOLEAN : FinishAttempt(k, status, score, blank)
    BY <1>1, <1>2, <1>4, FinishBInv
<1>5. CASE \E a \in DOMAIN attempts : DescribeAttempt(a)
    BY <1>1, <1>2, <1>5, DescribeBInv
<1>6. CASE \E k \in Client : SetStatus(k)
    BY <1>1, <1>2, <1>6, SetStatusBInv
<1>7. CASE Startup
    BY <1>1, <1>2, <1>7, StartupBInv
<1>8. QED
    BY <1>1, <1>2, <1>3, <1>4, <1>5, <1>6, <1>7, QuietBInv DEF Next

\* The invariant behind the winner and the stop policy: besides them, only the last
\* attempt of the store may be running, a running campaign has one that runs, and
\* every attempt is of a campaign that was created.
THEOREM StoreKeepsItsWinners == Spec => []BInv
<1>1. QED
    BY InitBInv, NextBInv, PTL DEF Spec

\* A campaign's best is its last kept attempt and no successful one beats it, for any
\* policy and through any restarts.
THEOREM WinnersAreKept == Spec => []BestIsTheWinner
<1>1. BInv => BestIsTheWinner
    BY DEF BInv
<1>2. QED
    BY <1>1, StoreKeepsItsWinners, PTL

\* A campaign that goes on after a verdict is one its stop policy lets go on, unless
\* an operator set its status since.
THEOREM PoliciesAreHonoured == Spec => []StopPolicyHonoured
<1>1. BInv => StopPolicyHonoured
    BY DEF BInv
<1>2. QED
    BY <1>1, StoreKeepsItsWinners, PTL

-----------------------------------------------------------------------------
(* The next_variant tool over the store.                                   *)

\* The callers of next_variant: what a snapshot called for is a kind of proposal,
\* and a lease that was answered is a row of the table.
CallersTyped ==
    /\ want \in [Client -> Kinds]
    /\ reply \in [Client -> Nat]
    /\ \A k \in Client : reply[k] <= Len(proposals)

\* A nonempty set of numbers up to n has a greatest one.
LEMMA GreatestNatural ==
    ASSUME NEW n \in Nat, NEW S \in SUBSET (1..n), S # {}
    PROVE  \E p \in S : \A q \in S : q <= p
<1> DEFINE R == OpToRel(<, Nat)
           T == {n - p : p \in S}
<1>1. IsWellFoundedOn(R, Nat)
    BY NatLessThanWellFounded, Zenon
<1>2. \A x, y \in Nat : x < y => <<x, y>> \in R
    BY DEF OpToRel
<1> HIDE DEF R
<1>3. T \subseteq Nat /\ T # {}
    <2>1. \A p \in S : n - p \in Nat
        OBVIOUS
    <2>2. QED
        BY <2>1
<1>4. PICK t \in T : \A u \in T : ~(<<u, t>> \in R)
    <2> HIDE DEF T
    <2>1. QED
        BY <1>1, <1>3, WFMin, Zenon
<1>5. \A u \in T : t <= u
    <2>1. SUFFICES ASSUME NEW u \in T PROVE t <= u
        OBVIOUS
    <2> HIDE DEF T
    <2>2. t \in Nat /\ u \in Nat
        BY <1>3
    <2>3. ~(u < t)
        BY <1>2, <1>4, <2>2, Zenon
    <2>4. QED
        BY <2>2, <2>3
<1>6. PICK p \in S : t = n - p
    BY <1>4
<1>7. \A q \in S : q <= p
    <2>1. SUFFICES ASSUME NEW q \in S PROVE q <= p
        OBVIOUS
    <2>2. n - q \in T
        OBVIOUS
    <2> HIDE DEF T
    <2>3. n - p <= n - q
        BY <1>5, <1>6, <2>2
    <2>4. QED
        BY <2>3
<1>8. QED
    BY <1>7

\* A POST by next_variant is one of the store's, and answers with no lease or with
\* one of the table: the row it inserted or an identical earlier one.
LEMMA PostKeepsLeases ==
    ASSUME TypeOK, NEW k \in Client, NEW payload \in Payload, CallersTyped,
           PostProposal(k, payload)
    PROVE  /\ CreateProposal(k, want[k], payload)
           /\ CallersTyped'
<1> DEFINE c == op[k].campaign
           same == SameLease(c, want[k], SeenNow(k), payload)
           lease == IF same = {} THEN Len(proposals) + 1
                    ELSE CHOOSE p \in same : \A q \in same : q <= p
<1>1. /\ CreateProposal(k, want[k], payload)
      /\ want' = want
      /\ \E answer \in {0, lease} : reply' = [reply EXCEPT ![k] = answer]
    BY DEF PostProposal
<1>2. /\ proposals \in Seq(ProposalRow)
      /\ Len(proposals) \in Nat
      /\ DOMAIN proposals = 1..Len(proposals)
    BY LenProperties DEF TypeOK
<1>3. CASE same = {}
    <2>1. proposals' = Append(proposals, Row(c, want[k], SeenNow(k), payload))
        BY <1>1, <1>3 DEF CreateProposal
    <2>2. Len(proposals') = Len(proposals) + 1
        BY <1>2, <2>1
    <2>3. lease = Len(proposals) + 1
        BY <1>3
    <2> HIDE DEF lease
    <2>4. QED
        BY <1>1, <1>2, <2>2, <2>3 DEF CallersTyped
<1>4. CASE same # {}
    <2>1. proposals' = proposals
        BY <1>1, <1>4 DEF CreateProposal
    <2>2. same \in SUBSET (1..Len(proposals))
        BY <1>2 DEF SameLease
    <2> HIDE DEF same
    <2>3. \E p \in same : \A q \in same : q <= p
        BY <1>2, <1>4, <2>2, GreatestNatural
    <2>4. lease \in same
        BY <1>4, <2>3
    <2>5. lease \in 1..Len(proposals)
        BY <2>2, <2>4
    <2> HIDE DEF lease
    <2>6. QED
        BY <1>1, <1>2, <2>1, <2>5 DEF CallersTyped
<1>5. QED
    BY <1>1, <1>3, <1>4

\* A run that next_variant paid for is a run of the store, on a lease of the table
\* and in a campaign of the store.
LEMMA RunIsOfTheStore ==
    ASSUME TypeOK, NEW k \in Client, CallersTyped, Run(k)
    PROVE  Next /\ CallersTyped'
<1>1. /\ proposals \in Seq(ProposalRow)
      /\ Len(proposals) \in Nat
      /\ DOMAIN proposals = 1..Len(proposals)
    BY LenProperties DEF TypeOK
<1>2. reply[k] \in DOMAIN proposals
    BY <1>1 DEF Run, CallersTyped
<1>3. proposals[reply[k]].campaign \in Campaign
    <2>1. proposals[reply[k]] \in ProposalRow
        BY <1>1, <1>2, ElementOfSeq
    <2>2. QED
        BY <2>1 DEF ProposalRow
<1>4. CASE Begin(k, "start", proposals[reply[k]].campaign) /\ UNCHANGED reply
    <2>1. Next
        BY <1>3, <1>4 DEF Next, Calls
    <2>2. proposals' = proposals /\ want' = want
        BY <1>4 DEF Begin, Run
    <2>3. QED
        BY <1>4, <2>1, <2>2 DEF CallersTyped
<1>5. CASE StartAttempt(k, reply[k]) /\ reply' = [reply EXCEPT ![k] = 0]
    <2>1. Next
        BY <1>2, <1>5 DEF Next
    <2>2. proposals' = [proposals EXCEPT ![reply[k]].consumedBy = Len(attempts) + 1]
        BY <1>5 DEF StartAttempt
    <2>3. Len(proposals') = Len(proposals)
        BY <1>1, <2>2
    <2>4. want' = want
        BY DEF Run
    <2>5. QED
        BY <1>1, <1>5, <2>1, <2>3, <2>4 DEF CallersTyped
<1>6. QED
    BY <1>4, <1>5 DEF Run

\* Every step of next_variant's callers, and of what goes on elsewhere, is a step
\* of the store, and keeps the callers' types.
LEMMA VariantStep ==
    ASSUME TypeOK, CallersTyped, [NextVariantNext]_nextVars
    PROVE  [Next]_vars /\ CallersTyped'
<1>1. CASE UNCHANGED nextVars
    BY <1>1 DEF nextVars, vars, CallersTyped
<1>2. ASSUME NEW k \in Client, NEW c \in Campaign, GetHistory(k, c)
      PROVE  Next /\ CallersTyped'
    <2>1. Next
        BY <1>2 DEF GetHistory, Next, Calls
    <2>2. proposals' = proposals /\ reply' = reply
        BY <1>2 DEF GetHistory, Begin
    <2>3. want' \in [Client -> Kinds]
        BY <1>2 DEF GetHistory, CallersTyped, Kinds
    <2>4. QED
        BY <2>1, <2>2, <2>3 DEF CallersTyped
<1>3. ASSUME NEW k \in Client, NEW payload \in Payload, PostProposal(k, payload)
      PROVE  Next /\ CallersTyped'
    <2>1. CreateProposal(k, want[k], payload) /\ CallersTyped'
        BY <1>3, PostKeepsLeases
    <2>2. want[k] \in Kinds
        BY DEF CallersTyped
    <2>3. QED
        BY <2>1, <2>2 DEF Next
<1>4. ASSUME NEW k \in Client, Run(k)
      PROVE  Next /\ CallersTyped'
    BY <1>4, RunIsOfTheStore
<1>5. CASE Elsewhere
    <2>1. want' = want /\ reply' = reply
        BY <1>5 DEF Elsewhere
    <2>2. Next /\ proposals' = proposals
        <3>1. CASE \E c \in Campaign : Create(c)
            BY <3>1 DEF Next, Create
        <3>2. CASE \E k \in Client, status \in {"ok", "crash"}, score \in Score :
                      FinishAttempt(k, status, score, FALSE)
            <4>1. PICK k \in Client, status \in {"ok", "crash"}, score \in Score :
                      FinishAttempt(k, status, score, FALSE)
                BY <3>2
            <4>2. score \in Score \cup {NoScore} /\ FALSE \in BOOLEAN
                OBVIOUS
            <4>3. \E l \in Client, s \in {"ok", "crash"}, x \in Score \cup {NoScore},
                     blank \in BOOLEAN : FinishAttempt(l, s, x, blank)
                BY <4>1, <4>2, Zenon
            <4>4. Next
                BY <4>3, Zenon DEF Next
            <4>5. proposals' = proposals
                BY <4>1, Zenon DEF FinishAttempt
            <4>6. QED
                BY <4>4, <4>5
        <3>3. CASE \E k \in Client : Abandon(k)
            BY <3>3 DEF Next, Abandon
        <3>4. CASE Startup
            <4>1. Next
                BY <3>4, Zenon DEF Next
            <4>2. proposals' = proposals
                BY <3>4, Zenon DEF Startup
            <4>3. QED
                BY <4>1, <4>2
        <3>5. QED
            BY <1>5, <3>1, <3>2, <3>3, <3>4 DEF Elsewhere
    <2>3. QED
        BY <2>1, <2>2 DEF CallersTyped
<1>6. QED
    BY <1>1, <1>2, <1>3, <1>4, <1>5 DEF NextVariantNext

\* next_variant does nothing that the store does not allow: whatever its callers
\* read, lose and hand on, and however stale, the store sees a behaviour of its own.
THEOREM NextVariantUsesTheStore == NextVariantSpec => Spec
<1> DEFINE NInv == IInv /\ CallersTyped
<1>1. NextInit => Init /\ NInv
    <2>1. SUFFICES ASSUME NextInit PROVE Init /\ NInv
        OBVIOUS
    <2>2. Init /\ IInv
        BY <2>1, InitIInv DEF NextInit
    <2>3. /\ want \in [Client -> Kinds]
          /\ reply \in [Client -> Nat]
          /\ \A k \in Client : reply[k] = 0
        BY <2>1 DEF NextInit, Kinds
    <2>4. Len(proposals) = 0
        BY <2>2 DEF Init
    <2>5. QED
        BY <2>2, <2>3, <2>4 DEF CallersTyped
<1>2. NInv /\ [NextVariantNext]_nextVars => [Next]_vars /\ NInv'
    <2>1. SUFFICES ASSUME NInv, [NextVariantNext]_nextVars PROVE [Next]_vars /\ NInv'
        OBVIOUS
    <2>2. TypeOK
        BY <2>1 DEF IInv
    <2>3. [Next]_vars /\ CallersTyped'
        BY <2>1, <2>2, VariantStep
    <2>4. IInv'
        BY <2>1, <2>3, NextIInv
    <2>5. QED
        BY <2>3, <2>4
<1>3. QED
    BY <1>1, <1>2, PTL DEF NextVariantSpec, Spec

\* So all that is proved of the store holds of it under next_variant: one attempt
\* runs, and each has spent a lease of its own.
THEOREM StoreHoldsUnderNextVariant ==
    NextVariantSpec => [](OneRunningAttempt /\ AttemptsSpendTheirLease /\ LeaseIsIdempotent)
<1>1. QED
    BY NextVariantUsesTheStore, OneRuns, LeasesSpentOnce, LeasesAreIdempotent, PTL
=============================================================================
