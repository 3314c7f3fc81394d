----------------------------- MODULE OneShotLease -----------------------------
(***************************************************************************)
(* What the campaign store promises about attempts, with nothing of how:   *)
(* a lease is issued unspent, is spent by one attempt, one attempt at a    *)
(* time is undecided, and a verdict is given once and never revised.       *)
(***************************************************************************)
EXTENDS Integers, Sequences

VARIABLES
    spent,      \* per lease issued, the attempt it paid for; 0 when unspent
    verdict     \* per attempt made: "pending", "kept" or "rejected"

lease == <<spent, verdict>>

Init == spent = <<>> /\ verdict = <<>>

Issue == spent' = Append(spent, 0) /\ UNCHANGED verdict

Undecided == {a \in DOMAIN verdict : verdict[a] = "pending"}

Spend(p) ==
    /\ spent[p] = 0
    /\ Undecided = {}
    /\ spent' = [spent EXCEPT ![p] = Len(verdict) + 1]
    /\ verdict' = Append(verdict, "pending")

Decide(a, v) ==
    /\ verdict[a] = "pending"
    /\ verdict' = [verdict EXCEPT ![a] = v]
    /\ UNCHANGED spent

Next ==
    \/ Issue
    \/ \E p \in DOMAIN spent : Spend(p)
    \/ \E a \in DOMAIN verdict, v \in {"kept", "rejected"} : Decide(a, v)

Spec == Init /\ [][Next]_lease
=============================================================================
