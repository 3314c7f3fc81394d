----------------------------- MODULE NextVariant ------------------------------
(***************************************************************************)
(* The next_variant tool (backend/src/reasoning.rs) over the campaign      *)
(* store: it reads a campaign's history, asks for a recursive analysis     *)
(* when the history says that one is required, and posts a proposal whose  *)
(* lease its caller then hands to a run.                                   *)
(*                                                                         *)
(* A caller is a Client of the store.  Begin is the GET of the history: a  *)
(* snapshot that anything may overtake before the POST, the analysis takes *)
(* minutes.  Abandon stands for an analysis that fails or lacks evidence.  *)
(***************************************************************************)
EXTENDS CampaignStore

CONSTANT NoEvidence   \* of Payload: that of a freeform proposal; the others are analyses

VARIABLES
    want,      \* per caller, the kind of proposal its snapshot called for
    reply      \* per caller, the lease next_variant answered with; 0 for none

nextVars == <<vars, want, reply>>

NextInit ==
    /\ Init
    /\ want = [k \in Client |-> "freeform"]
    /\ reply = [k \in Client |-> 0]

\* current_proposal_id: an unspent lease of the required kind for this history.
Current(c) ==
    LET h == HistoryState(attempts, c)
    IN  {p \in DOMAIN proposals : IsCurrent(p, c, h) /\ IsValid(p, h.kind)}

ReasoningRequired(c) == RequiredKind(attempts, c) = "rlm_verified" /\ Current(c) = {}

GetHistory(k, c) ==
    /\ Begin(k, "propose", c)
    /\ want' = [want EXCEPT ![k] = IF ReasoningRequired(c) THEN "rlm_verified" ELSE "freeform"]
    /\ UNCHANGED reply

\* Every analysis has a run id of its own.
Evidence(kind) ==
    IF kind = "freeform" THEN {NoEvidence}
    ELSE Payload \ ({NoEvidence} \cup {proposals[p].payload : p \in DOMAIN proposals})

\* The POST, and its answer, that may get lost on the way.
PostProposal(k, payload) ==
    LET c == op[k].campaign
        same == SameLease(c, want[k], SeenNow(k), payload)
        lease == IF same = {} THEN Len(proposals) + 1
                 ELSE CHOOSE p \in same : \A q \in same : q <= p
    IN  /\ CreateProposal(k, want[k], payload)
        /\ payload \in Evidence(want[k])
        /\ \E answer \in {0, lease} : reply' = [reply EXCEPT ![k] = answer]
        /\ UNCHANGED want

\* The run tool: the lease of the answer, whatever the campaign's history is by then.
Run(k) ==
    /\ reply[k] # 0
    /\ \/ Begin(k, "start", proposals[reply[k]].campaign) /\ UNCHANGED reply
       \/ StartAttempt(k, reply[k]) /\ reply' = [reply EXCEPT ![k] = 0]
    /\ UNCHANGED want

Elsewhere ==
    /\ \/ \E c \in Campaign : Create(c)
       \/ \E k \in Client, status \in {"ok", "crash"}, score \in Score :
             FinishAttempt(k, status, score, FALSE)
       \/ \E k \in Client : Abandon(k)
       \/ Startup
    /\ UNCHANGED <<want, reply>>

NextVariantNext ==
    \/ \E k \in Client, c \in Campaign : GetHistory(k, c)
    \/ \E k \in Client, payload \in Payload : PostProposal(k, payload)
    \/ \E k \in Client : Run(k)
    \/ Elsewhere

NextVariantSpec == NextInit /\ [][NextVariantNext]_nextVars

-----------------------------------------------------------------------------
\* "research.next_variant creates or reuses one proposal lease for the current
\* history. Each research.run consumes that lease" (README.md): a lease that
\* next_variant answered with pays for a run as long as the history is the same
\* and nobody spent it.
ReturnedLeasePays ==
    \A k \in Client :
        LET p == reply[k]
            c == proposals[p].campaign
        IN  p # 0 /\ proposals[p].consumedBy = 0 /\ IsCurrent(p, c, HistoryState(attempts, c))
                => IsValid(p, RequiredKind(attempts, c))
=============================================================================
