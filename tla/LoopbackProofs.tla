--------------------------- MODULE LoopbackProofs ---------------------------
(***************************************************************************)
(* What the clients do, for any number of callers, secrets, wires and      *)
(* chunks, and however often the programs behind the addresses change.     *)
(*                                                                         *)
(* Four invariants, each with its induction: ProofInv follows a proof from *)
(* the program that gave it to the request that relies on it; ProgramInv   *)
(* says who listens and what the handoff file may name; TruthInv says what *)
(* a call may claim at each of its stages; StreamInv says that a stream    *)
(* has yielded what its wire means up to where its buffer begins.          *)
(***************************************************************************)
EXTENDS Loopback, TLAPS, WellFoundedInduction, SequenceTheorems

\* The record of a caller, field by field, and callers that are such records.
Rec(c) ==
    [op |-> callers[c].op, stage |-> callers[c].stage, run |-> callers[c].run,
     by |-> callers[c].by, addr |-> callers[c].addr, epoch |-> callers[c].epoch,
     acted |-> callers[c].acted, vouch |-> callers[c].vouch, seen |-> callers[c].seen,
     framing |-> callers[c].framing, outcome |-> callers[c].outcome]

Shaped ==
    /\ callers = [c \in Callers |-> callers[c]]
    /\ \A c \in Callers : callers[c] = Rec(c)

Backed(c) == <<Url(c), callers[c].vouch, callers[c].op.token>> \in given

Unsent == {"idle", "finding", "checking", "probing", "probed", "cleared", "sent"}

\* The cache stands for a proof that the prover gave.
CacheBacked == cache # NoEntry => <<cache.url, prover, cache.token>> \in given

\* So does every request with a bearer, from the end of its probe on.
CallerBacked(c) ==
    /\ callers[c].stage \in Unsent => ~Received(c)
    /\ callers[c].stage \in {"checking", "probing", "probed", "cleared"} => IsOp(c, "verified")
    /\ IsOp(c, "verified") =>
          /\ callers[c].stage # "finding"
          /\ In(c, "probed") /\ callers[c].seen = "proven" => Backed(c)
          /\ callers[c].stage \in {"cleared", "sent"} => Backed(c)
          /\ Received(c) => callers[c].addr = Url(c) /\ Backed(c)
          /\ callers[c].outcome = "unverified" => ~Received(c) /\ In(c, "done")

ProofInv ==
    /\ process \in Processes
    /\ Shaped
    /\ CacheBacked
    /\ \A c \in Callers : CallerBacked(c)

-----------------------------------------------------------------------------
\* A pinned host is one address.
LEMMA PinnedResolves == \A host : Resolved(PinLocalhost(host)) = {PinLocalhost(host)}
  BY DEF Resolved, PinLocalhost

\* A verdict of "proven" is given only for the proof of the token for the challenge.
LEMMA ProvenIsVerified ==
    \A token, challenge, up, provided :
        Verdict(token, challenge, up, provided) = "proven" =>
            /\ provided # NoProof
            /\ Proof(token, challenge) # NoProof
            /\ provided = Proof(token, challenge)
  BY DEF Verdict, Verify

\* Proofs are equal only for the same token and the same challenge.
LEMMA ProofsDiffer ==
    \A t, u, x, y :
        Proof(t, x) # NoProof /\ Proof(u, y) # NoProof /\ Proof(t, x) = Proof(u, y)
            => t = u /\ x = y
  BY DEF Proof

\* So a proof that passes was made of the token, for this challenge.
LEMMA ProvenMeansMade ==
    \A token, challenge, other, old :
        Verdict(token, challenge, TRUE, Proof(other, old)) = "proven"
            => other = token /\ old = challenge
<1> TAKE token, challenge, other, old
<1> HAVE Verdict(token, challenge, TRUE, Proof(other, old)) = "proven"
<1>1. /\ Proof(other, old) # NoProof /\ Proof(token, challenge) # NoProof
      /\ Proof(other, old) = Proof(token, challenge)
  BY ProvenIsVerified
<1> QED
  BY <1>1, ProofsDiffer

\* Challenges of different calls differ.
LEMMA ChallengesDiffer == \A n, m : NewChallenge(n) = NewChallenge(m) => n = m
  BY DEF NewChallenge

\* So the proof of an earlier challenge does not pass.
LEMMA OldProofsFail ==
    ASSUME NEW token, NEW n, NEW m, n # m
    PROVE  Verdict(token, NewChallenge(n), TRUE, Proof(token, NewChallenge(m))) # "proven"
<1> DEFINE x == NewChallenge(n)
           y == NewChallenge(m)
<1>1. x # y
  BY ChallengesDiffer
<1> HIDE DEF x, y
<1>2. Verdict(token, x, TRUE, Proof(token, y)) # "proven"
  BY <1>1, ProvenMeansMade
<1> QED
  BY <1>2 DEF x, y

\* Before any call nothing was proved and nothing was sent.
LEMMA InitHolds == Init => ProofInv
<1> SUFFICES ASSUME Init PROVE ProofInv
  OBVIOUS
<1>1. \A c \in Callers : callers[c] = Idle
  BY DEF Init
<1>2. Shaped
  BY DEF Init, Shaped, Rec, Idle
<1>3. \A c \in Callers : CallerBacked(c)
  BY <1>1 DEF CallerBacked, Idle, Received, IsOp, In, Unsent
<1> QED
  BY <1>2, <1>3 DEF Init, ProofInv, CacheBacked

\* What a step of one caller does to the others.
LEMMA OthersKeep ==
    ASSUME ProofInv, NEW c \in Callers, NEW d \in Callers, callers'[d] = callers[d],
           given \subseteq given'
    PROVE  CallerBacked(d)'
  BY DEF ProofInv, CallerBacked, Backed, Received, IsOp, In, Url

\* A caller's record may be replaced by any other of the same fields.
LEMMA Replaced ==
    ASSUME Shaped, NEW c \in Callers, NEW r,
           r = [op |-> r.op, stage |-> r.stage, run |-> r.run, by |-> r.by, addr |-> r.addr,
                epoch |-> r.epoch, acted |-> r.acted, vouch |-> r.vouch, seen |-> r.seen,
                framing |-> r.framing, outcome |-> r.outcome],
           callers' = [callers EXCEPT ![c] = r]
    PROVE  /\ Shaped'
           /\ callers'[c] = r
           /\ \A d \in Callers \ {c} : callers'[d] = callers[d]
<1>1. /\ DOMAIN callers = Callers
      /\ \A d \in Callers : callers[d] = Rec(d)
  BY DEF Shaped
<1>2. /\ DOMAIN callers' = Callers
      /\ callers' = [d \in Callers |-> callers'[d]]
      /\ callers'[c] = r
      /\ \A d \in Callers \ {c} : callers'[d] = callers[d]
  BY <1>1, Zenon
<1>3. \A d \in Callers : callers'[d] = Rec(d)'
  <2>1. callers'[c] = Rec(c)'
    BY <1>2 DEF Rec
  <2>2. \A d \in Callers \ {c} : callers'[d] = Rec(d)'
    BY <1>1, <1>2 DEF Rec
  <2> QED
    BY <2>1, <2>2
<1> QED
  BY <1>2, <1>3 DEF Shaped

\* Step and Finish write one or two fields of one caller.
LEMMA StepWrites ==
    ASSUME Shaped, NEW c \in Callers, NEW stage, Step(c, stage)
    PROVE  /\ Shaped'
           /\ callers'[c].op = callers[c].op /\ callers'[c].stage = stage
           /\ callers'[c].by = callers[c].by /\ callers'[c].addr = callers[c].addr
           /\ callers'[c].seen = callers[c].seen
           /\ callers'[c].outcome = callers[c].outcome
           /\ callers'[c].run = callers[c].run /\ callers'[c].epoch = callers[c].epoch
           /\ callers'[c].vouch = callers[c].vouch
           /\ callers'[c].acted = callers[c].acted /\ callers'[c].framing = callers[c].framing
           /\ \A d \in Callers \ {c} : callers'[d] = callers[d]
<1>1. callers[c] = Rec(c)
  BY DEF Shaped
<1> DEFINE r == [callers[c] EXCEPT !.stage = stage]
<1>2. callers' = [callers EXCEPT ![c] = r]
  BY DEF Step
<1>3. r = [op |-> callers[c].op, stage |-> stage, run |-> callers[c].run,
           by |-> callers[c].by, addr |-> callers[c].addr, epoch |-> callers[c].epoch,
           acted |-> callers[c].acted, vouch |-> callers[c].vouch, seen |-> callers[c].seen,
           framing |-> callers[c].framing, outcome |-> callers[c].outcome]
  BY <1>1 DEF Rec
<1> HIDE DEF r
<1>4. /\ r = [op |-> r.op, stage |-> r.stage, run |-> r.run, by |-> r.by, addr |-> r.addr,
               epoch |-> r.epoch, acted |-> r.acted, vouch |-> r.vouch, seen |-> r.seen,
               framing |-> r.framing, outcome |-> r.outcome]
      /\ r.op = callers[c].op /\ r.stage = stage /\ r.by = callers[c].by
      /\ r.addr = callers[c].addr /\ r.seen = callers[c].seen
      /\ r.outcome = callers[c].outcome
      /\ r.run = callers[c].run /\ r.epoch = callers[c].epoch
      /\ r.vouch = callers[c].vouch
      /\ r.acted = callers[c].acted /\ r.framing = callers[c].framing
  BY <1>3
<1> QED
  BY <1>2, <1>4, Replaced

\* A call that ends writes its outcome.
LEMMA FinishWrites ==
    ASSUME Shaped, NEW c \in Callers, NEW outcome, Finish(c, outcome)
    PROVE  /\ Shaped'
           /\ callers'[c].op = callers[c].op /\ callers'[c].stage = "done"
           /\ callers'[c].by = callers[c].by /\ callers'[c].addr = callers[c].addr
           /\ callers'[c].seen = callers[c].seen
           /\ callers'[c].outcome = outcome
           /\ callers'[c].run = callers[c].run /\ callers'[c].epoch = callers[c].epoch
           /\ callers'[c].vouch = callers[c].vouch
           /\ callers'[c].acted = callers[c].acted /\ callers'[c].framing = callers[c].framing
           /\ \A d \in Callers \ {c} : callers'[d] = callers[d]
<1>1. callers[c] = Rec(c)
  BY DEF Shaped
<1> DEFINE q == [callers[c] EXCEPT !.stage = "done"]
           r == [q EXCEPT !.outcome = outcome]
<1>2. callers' = [callers EXCEPT ![c] = r]
  BY <1>1 DEF Finish, Shaped
<1>3. q = [op |-> callers[c].op, stage |-> "done", run |-> callers[c].run,
           by |-> callers[c].by, addr |-> callers[c].addr, epoch |-> callers[c].epoch,
           acted |-> callers[c].acted, vouch |-> callers[c].vouch, seen |-> callers[c].seen,
           framing |-> callers[c].framing, outcome |-> callers[c].outcome]
  BY <1>1 DEF Rec
<1> HIDE DEF q
<1>4. r = [op |-> callers[c].op, stage |-> "done", run |-> callers[c].run,
           by |-> callers[c].by, addr |-> callers[c].addr, epoch |-> callers[c].epoch,
           acted |-> callers[c].acted, vouch |-> callers[c].vouch, seen |-> callers[c].seen,
           framing |-> callers[c].framing, outcome |-> outcome]
  BY <1>3
<1> HIDE DEF r
<1>5. /\ r = [op |-> r.op, stage |-> r.stage, run |-> r.run, by |-> r.by, addr |-> r.addr,
               epoch |-> r.epoch, acted |-> r.acted, vouch |-> r.vouch, seen |-> r.seen,
               framing |-> r.framing, outcome |-> r.outcome]
      /\ r.op = callers[c].op /\ r.stage = "done" /\ r.by = callers[c].by
      /\ r.addr = callers[c].addr /\ r.seen = callers[c].seen
      /\ r.outcome = outcome
      /\ r.run = callers[c].run /\ r.epoch = callers[c].epoch
      /\ r.vouch = callers[c].vouch
      /\ r.acted = callers[c].acted /\ r.framing = callers[c].framing
  BY <1>4
<1> QED
  BY <1>2, <1>5, Replaced

\* A probe writes its verdict, and who gave the proof.
Probes(c, program, verdict) ==
    callers' = [callers EXCEPT ![c].stage = "probed", ![c].vouch = program, ![c].seen = verdict]

\* A probe writes nothing else of its caller.
LEMMA ProbeWrites ==
    ASSUME Shaped, NEW c \in Callers, NEW program, NEW verdict, Probes(c, program, verdict)
    PROVE  /\ Shaped'
           /\ callers'[c].op = callers[c].op
           /\ callers'[c].stage = "probed"
           /\ callers'[c].by = callers[c].by
           /\ callers'[c].addr = callers[c].addr
           /\ callers'[c].seen = verdict
           /\ callers'[c].outcome = callers[c].outcome
           /\ callers'[c].run = callers[c].run /\ callers'[c].epoch = callers[c].epoch
           /\ callers'[c].vouch = program
           /\ callers'[c].acted = callers[c].acted /\ callers'[c].framing = callers[c].framing
           /\ \A d \in Callers \ {c} : callers'[d] = callers[d]
<1>1. callers[c] = Rec(c)
  BY DEF Shaped
<1> DEFINE r1 == [callers[c] EXCEPT !.stage = "probed"]
           r2 == [r1 EXCEPT !.vouch = program]
           r3 == [r2 EXCEPT !.seen = verdict]
<1>2. callers' = [callers EXCEPT ![c] = r3]
  BY <1>1 DEF Shaped, Probes
<1>3. r1 = [op |-> callers[c].op, stage |-> "probed",
           run |-> callers[c].run, by |-> callers[c].by,
           addr |-> callers[c].addr, epoch |-> callers[c].epoch,
           acted |-> callers[c].acted, vouch |-> callers[c].vouch, seen |-> callers[c].seen,
           framing |-> callers[c].framing, outcome |-> callers[c].outcome]
  BY <1>1 DEF Rec
<1> HIDE DEF r1
<1>4. r2 = [op |-> callers[c].op, stage |-> "probed",
           run |-> callers[c].run, by |-> callers[c].by,
           addr |-> callers[c].addr, epoch |-> callers[c].epoch,
           acted |-> callers[c].acted, vouch |-> program, seen |-> callers[c].seen,
           framing |-> callers[c].framing, outcome |-> callers[c].outcome]
  BY <1>3
<1> HIDE DEF r2
<1>5. r3 = [op |-> callers[c].op, stage |-> "probed",
           run |-> callers[c].run, by |-> callers[c].by,
           addr |-> callers[c].addr, epoch |-> callers[c].epoch,
           acted |-> callers[c].acted, vouch |-> program, seen |-> verdict,
           framing |-> callers[c].framing, outcome |-> callers[c].outcome]
  BY <1>4
<1> HIDE DEF r3
<1>6. /\ r3 = [op |-> r3.op, stage |-> r3.stage, run |-> r3.run, by |-> r3.by,
           addr |-> r3.addr, epoch |-> r3.epoch, acted |-> r3.acted, vouch |-> r3.vouch,
           seen |-> r3.seen, framing |-> r3.framing,
           outcome |-> r3.outcome]
      /\ r3.op = callers[c].op
      /\ r3.stage = "probed"
      /\ r3.by = callers[c].by
      /\ r3.addr = callers[c].addr
      /\ r3.seen = verdict
      /\ r3.outcome = callers[c].outcome
      /\ r3.run = callers[c].run /\ r3.epoch = callers[c].epoch
      /\ r3.vouch = program
      /\ r3.acted = callers[c].acted /\ r3.framing = callers[c].framing
  BY <1>5
<1> QED
  BY <1>2, <1>6, Replaced

\* A check writes what comes next, and whose proof a fresh entry is.
Checks(c, next, program) ==
    callers' = [callers EXCEPT ![c].stage = next, ![c].vouch = program]

\* A check writes nothing else of its caller.
LEMMA CheckWrites ==
    ASSUME Shaped, NEW c \in Callers, NEW next, NEW program, Checks(c, next, program)
    PROVE  /\ Shaped'
           /\ callers'[c].op = callers[c].op
           /\ callers'[c].stage = next
           /\ callers'[c].by = callers[c].by
           /\ callers'[c].addr = callers[c].addr
           /\ callers'[c].seen = callers[c].seen
           /\ callers'[c].outcome = callers[c].outcome
           /\ callers'[c].run = callers[c].run /\ callers'[c].epoch = callers[c].epoch
           /\ callers'[c].vouch = program
           /\ callers'[c].acted = callers[c].acted /\ callers'[c].framing = callers[c].framing
           /\ \A d \in Callers \ {c} : callers'[d] = callers[d]
<1>1. callers[c] = Rec(c)
  BY DEF Shaped
<1> DEFINE r1 == [callers[c] EXCEPT !.stage = next]
           r2 == [r1 EXCEPT !.vouch = program]
<1>2. callers' = [callers EXCEPT ![c] = r2]
  BY <1>1 DEF Shaped, Checks
<1>3. r1 = [op |-> callers[c].op, stage |-> next,
           run |-> callers[c].run, by |-> callers[c].by,
           addr |-> callers[c].addr, epoch |-> callers[c].epoch,
           acted |-> callers[c].acted, vouch |-> callers[c].vouch, seen |-> callers[c].seen,
           framing |-> callers[c].framing, outcome |-> callers[c].outcome]
  BY <1>1 DEF Rec
<1> HIDE DEF r1
<1>4. r2 = [op |-> callers[c].op, stage |-> next,
           run |-> callers[c].run, by |-> callers[c].by,
           addr |-> callers[c].addr, epoch |-> callers[c].epoch,
           acted |-> callers[c].acted, vouch |-> program, seen |-> callers[c].seen,
           framing |-> callers[c].framing, outcome |-> callers[c].outcome]
  BY <1>3
<1> HIDE DEF r2
<1>5. /\ r2 = [op |-> r2.op, stage |-> r2.stage, run |-> r2.run, by |-> r2.by,
           addr |-> r2.addr, epoch |-> r2.epoch, acted |-> r2.acted, vouch |-> r2.vouch,
           seen |-> r2.seen, framing |-> r2.framing,
           outcome |-> r2.outcome]
      /\ r2.op = callers[c].op
      /\ r2.stage = next
      /\ r2.by = callers[c].by
      /\ r2.addr = callers[c].addr
      /\ r2.seen = callers[c].seen
      /\ r2.outcome = callers[c].outcome
      /\ r2.run = callers[c].run /\ r2.epoch = callers[c].epoch
      /\ r2.vouch = program
      /\ r2.acted = callers[c].acted /\ r2.framing = callers[c].framing
  BY <1>4
<1> QED
  BY <1>2, <1>5, Replaced

\* The arrival of a request writes who received it.
Lands(c, who, a, ep, acted) ==
    callers' = [callers EXCEPT ![c].stage = "handled", ![c].by = who, ![c].addr = a,
                               ![c].epoch = ep, ![c].acted = acted]

\* Who receives a request is written, and nothing else of the caller but its stage.
LEMMA ArriveWrites ==
    ASSUME Shaped, NEW c \in Callers, NEW who, NEW a, NEW ep, NEW acted,
           Lands(c, who, a, ep, acted)
    PROVE  /\ Shaped'
           /\ callers'[c].op = callers[c].op
           /\ callers'[c].stage = "handled"
           /\ callers'[c].by = who
           /\ callers'[c].addr = a
           /\ callers'[c].seen = callers[c].seen
           /\ callers'[c].outcome = callers[c].outcome
           /\ callers'[c].run = callers[c].run /\ callers'[c].epoch = ep
           /\ callers'[c].vouch = callers[c].vouch
           /\ callers'[c].acted = acted /\ callers'[c].framing = callers[c].framing
           /\ \A d \in Callers \ {c} : callers'[d] = callers[d]
<1>1. callers[c] = Rec(c)
  BY DEF Shaped
<1> DEFINE r1 == [callers[c] EXCEPT !.stage = "handled"]
           r2 == [r1 EXCEPT !.by = who]
           r3 == [r2 EXCEPT !.addr = a]
           r4 == [r3 EXCEPT !.epoch = ep]
           r5 == [r4 EXCEPT !.acted = acted]
<1>2. callers' = [callers EXCEPT ![c] = r5]
  BY <1>1 DEF Shaped, Lands
<1>3. r1 = [op |-> callers[c].op, stage |-> "handled",
           run |-> callers[c].run, by |-> callers[c].by,
           addr |-> callers[c].addr, epoch |-> callers[c].epoch,
           acted |-> callers[c].acted, vouch |-> callers[c].vouch, seen |-> callers[c].seen,
           framing |-> callers[c].framing, outcome |-> callers[c].outcome]
  BY <1>1 DEF Rec
<1> HIDE DEF r1
<1>4. r2 = [op |-> callers[c].op, stage |-> "handled",
           run |-> callers[c].run, by |-> who, addr |-> callers[c].addr,
           epoch |-> callers[c].epoch, acted |-> callers[c].acted, vouch |-> callers[c].vouch,
           seen |-> callers[c].seen, framing |-> callers[c].framing,
           outcome |-> callers[c].outcome]
  BY <1>3
<1> HIDE DEF r2
<1>5. r3 = [op |-> callers[c].op, stage |-> "handled",
           run |-> callers[c].run, by |-> who, addr |-> a,
           epoch |-> callers[c].epoch, acted |-> callers[c].acted, vouch |-> callers[c].vouch,
           seen |-> callers[c].seen, framing |-> callers[c].framing,
           outcome |-> callers[c].outcome]
  BY <1>4
<1> HIDE DEF r3
<1>6. r4 = [op |-> callers[c].op, stage |-> "handled",
           run |-> callers[c].run, by |-> who, addr |-> a, epoch |-> ep,
           acted |-> callers[c].acted, vouch |-> callers[c].vouch, seen |-> callers[c].seen,
           framing |-> callers[c].framing, outcome |-> callers[c].outcome]
  BY <1>5
<1> HIDE DEF r4
<1>7. r5 = [op |-> callers[c].op, stage |-> "handled",
           run |-> callers[c].run, by |-> who, addr |-> a, epoch |-> ep,
           acted |-> acted, vouch |-> callers[c].vouch, seen |-> callers[c].seen,
           framing |-> callers[c].framing, outcome |-> callers[c].outcome]
  BY <1>6
<1> HIDE DEF r5
<1>8. /\ r5 = [op |-> r5.op, stage |-> r5.stage, run |-> r5.run, by |-> r5.by,
           addr |-> r5.addr, epoch |-> r5.epoch, acted |-> r5.acted, vouch |-> r5.vouch,
           seen |-> r5.seen, framing |-> r5.framing,
           outcome |-> r5.outcome]
      /\ r5.op = callers[c].op
      /\ r5.stage = "handled"
      /\ r5.by = who
      /\ r5.addr = a
      /\ r5.seen = callers[c].seen
      /\ r5.outcome = callers[c].outcome
      /\ r5.run = callers[c].run /\ r5.epoch = ep
      /\ r5.vouch = callers[c].vouch
      /\ r5.acted = acted /\ r5.framing = callers[c].framing
  BY <1>7
<1> QED
  BY <1>2, <1>8, Replaced

\* The answer of Core writes what it says.
Hears(c, outcome, body) ==
    callers' = [callers EXCEPT ![c].stage = "done", ![c].outcome = outcome, ![c].seen = body]

\* The answer of Core writes the outcome and the body.
LEMMA HostReturnWrites ==
    ASSUME Shaped, NEW c \in Callers, NEW outcome, NEW body, Hears(c, outcome, body)
    PROVE  /\ Shaped'
           /\ callers'[c].op = callers[c].op
           /\ callers'[c].stage = "done"
           /\ callers'[c].by = callers[c].by
           /\ callers'[c].addr = callers[c].addr
           /\ callers'[c].seen = body
           /\ callers'[c].outcome = outcome
           /\ callers'[c].run = callers[c].run /\ callers'[c].epoch = callers[c].epoch
           /\ callers'[c].vouch = callers[c].vouch
           /\ callers'[c].acted = callers[c].acted /\ callers'[c].framing = callers[c].framing
           /\ \A d \in Callers \ {c} : callers'[d] = callers[d]
<1>1. callers[c] = Rec(c)
  BY DEF Shaped
<1> DEFINE r1 == [callers[c] EXCEPT !.stage = "done"]
           r2 == [r1 EXCEPT !.outcome = outcome]
           r3 == [r2 EXCEPT !.seen = body]
<1>2. callers' = [callers EXCEPT ![c] = r3]
  BY <1>1 DEF Shaped, Hears
<1>3. r1 = [op |-> callers[c].op, stage |-> "done", run |-> callers[c].run,
           by |-> callers[c].by, addr |-> callers[c].addr,
           epoch |-> callers[c].epoch, acted |-> callers[c].acted, vouch |-> callers[c].vouch,
           seen |-> callers[c].seen, framing |-> callers[c].framing,
           outcome |-> callers[c].outcome]
  BY <1>1 DEF Rec
<1> HIDE DEF r1
<1>4. r2 = [op |-> callers[c].op, stage |-> "done", run |-> callers[c].run,
           by |-> callers[c].by, addr |-> callers[c].addr,
           epoch |-> callers[c].epoch, acted |-> callers[c].acted, vouch |-> callers[c].vouch,
           seen |-> callers[c].seen, framing |-> callers[c].framing,
           outcome |-> outcome]
  BY <1>3
<1> HIDE DEF r2
<1>5. r3 = [op |-> callers[c].op, stage |-> "done", run |-> callers[c].run,
           by |-> callers[c].by, addr |-> callers[c].addr,
           epoch |-> callers[c].epoch, acted |-> callers[c].acted, vouch |-> callers[c].vouch,
           seen |-> body, framing |-> callers[c].framing,
           outcome |-> outcome]
  BY <1>4
<1> HIDE DEF r3
<1>6. /\ r3 = [op |-> r3.op, stage |-> r3.stage, run |-> r3.run, by |-> r3.by,
           addr |-> r3.addr, epoch |-> r3.epoch, acted |-> r3.acted, vouch |-> r3.vouch,
           seen |-> r3.seen, framing |-> r3.framing,
           outcome |-> r3.outcome]
      /\ r3.op = callers[c].op
      /\ r3.stage = "done"
      /\ r3.by = callers[c].by
      /\ r3.addr = callers[c].addr
      /\ r3.seen = body
      /\ r3.outcome = outcome
      /\ r3.run = callers[c].run /\ r3.epoch = callers[c].epoch
      /\ r3.vouch = callers[c].vouch
      /\ r3.acted = callers[c].acted /\ r3.framing = callers[c].framing
  BY <1>5
<1> QED
  BY <1>2, <1>6, Replaced

\* So does the answer of a sidecar.
HearsSidecar(c, framing, cut, outcome) ==
    callers' = [callers EXCEPT ![c].stage = "done", ![c].framing = framing, ![c].seen = cut,
                               ![c].outcome = outcome]

\* The answer of a sidecar also writes how its body was framed.
LEMMA SidecarReturnWrites ==
    ASSUME Shaped, NEW c \in Callers, NEW framing, NEW cut, NEW outcome,
           HearsSidecar(c, framing, cut, outcome)
    PROVE  /\ Shaped'
           /\ callers'[c].op = callers[c].op
           /\ callers'[c].stage = "done"
           /\ callers'[c].by = callers[c].by
           /\ callers'[c].addr = callers[c].addr
           /\ callers'[c].seen = cut
           /\ callers'[c].outcome = outcome
           /\ callers'[c].run = callers[c].run /\ callers'[c].epoch = callers[c].epoch
           /\ callers'[c].vouch = callers[c].vouch
           /\ callers'[c].acted = callers[c].acted /\ callers'[c].framing = framing
           /\ \A d \in Callers \ {c} : callers'[d] = callers[d]
<1>1. callers[c] = Rec(c)
  BY DEF Shaped
<1> DEFINE r1 == [callers[c] EXCEPT !.stage = "done"]
           r2 == [r1 EXCEPT !.framing = framing]
           r3 == [r2 EXCEPT !.seen = cut]
           r4 == [r3 EXCEPT !.outcome = outcome]
<1>2. callers' = [callers EXCEPT ![c] = r4]
  BY <1>1 DEF Shaped, HearsSidecar
<1>3. r1 = [op |-> callers[c].op, stage |-> "done", run |-> callers[c].run,
           by |-> callers[c].by, addr |-> callers[c].addr,
           epoch |-> callers[c].epoch, acted |-> callers[c].acted, vouch |-> callers[c].vouch,
           seen |-> callers[c].seen, framing |-> callers[c].framing,
           outcome |-> callers[c].outcome]
  BY <1>1 DEF Rec
<1> HIDE DEF r1
<1>4. r2 = [op |-> callers[c].op, stage |-> "done", run |-> callers[c].run,
           by |-> callers[c].by, addr |-> callers[c].addr,
           epoch |-> callers[c].epoch, acted |-> callers[c].acted, vouch |-> callers[c].vouch,
           seen |-> callers[c].seen, framing |-> framing,
           outcome |-> callers[c].outcome]
  BY <1>3
<1> HIDE DEF r2
<1>5. r3 = [op |-> callers[c].op, stage |-> "done", run |-> callers[c].run,
           by |-> callers[c].by, addr |-> callers[c].addr,
           epoch |-> callers[c].epoch, acted |-> callers[c].acted, vouch |-> callers[c].vouch,
           seen |-> cut, framing |-> framing,
           outcome |-> callers[c].outcome]
  BY <1>4
<1> HIDE DEF r3
<1>6. r4 = [op |-> callers[c].op, stage |-> "done", run |-> callers[c].run,
           by |-> callers[c].by, addr |-> callers[c].addr,
           epoch |-> callers[c].epoch, acted |-> callers[c].acted, vouch |-> callers[c].vouch,
           seen |-> cut, framing |-> framing, outcome |-> outcome]
  BY <1>5
<1> HIDE DEF r4
<1>7. /\ r4 = [op |-> r4.op, stage |-> r4.stage, run |-> r4.run, by |-> r4.by,
           addr |-> r4.addr, epoch |-> r4.epoch, acted |-> r4.acted, vouch |-> r4.vouch,
           seen |-> r4.seen, framing |-> r4.framing,
           outcome |-> r4.outcome]
      /\ r4.op = callers[c].op
      /\ r4.stage = "done"
      /\ r4.by = callers[c].by
      /\ r4.addr = callers[c].addr
      /\ r4.seen = cut
      /\ r4.outcome = outcome
      /\ r4.run = callers[c].run /\ r4.epoch = callers[c].epoch
      /\ r4.vouch = callers[c].vouch
      /\ r4.acted = callers[c].acted /\ r4.framing = framing
  BY <1>6
<1> QED
  BY <1>2, <1>7, Replaced

\* A step that leaves callers and proofs alone leaves the invariant alone.
LEMMA ElsewhereKeeps ==
    ASSUME ProofInv, UNCHANGED <<process, callers, given>>,
           cache' = NoEntry \/ UNCHANGED <<cache, prover>>
    PROVE  ProofInv'
  BY DEF ProofInv, Shaped, Rec, CacheBacked, CallerBacked, Backed, Received, IsOp, In, Url

\* It is enough to look at the caller that moves.
LEMMA CallerMoves ==
    ASSUME ProofInv, process' = process, NEW c \in Callers, Shaped', given \subseteq given',
           CacheBacked',
           \A d \in Callers \ {c} : callers'[d] = callers[d], CallerBacked(c)'
    PROVE  ProofInv'
<1>1. \A d \in Callers \ {c} : CallerBacked(d)'
  BY OthersKeep
<1> QED
  BY <1>1 DEF ProofInv

\* Every step keeps the invariant: one step of the proof per action.
LEMMA StepHolds == ProofInv /\ [Next]_vars => ProofInv'
<1> SUFFICES ASSUME ProofInv, [Next]_vars PROVE ProofInv'
  OBVIOUS
<1>1. CASE Programs \/ Expire \/ UNCHANGED vars
  <2>1. /\ UNCHANGED <<process, callers, given>>
        /\ cache' = NoEntry \/ UNCHANGED <<cache, prover>>
    BY <1>1 DEF Programs, Vanish, Bind, Publish, ShutDown, WithdrawLoad, WithdrawRemove,
                Expire, proofs, vars
  <2> QED
    BY <2>1, ElsewhereKeeps
<1>2. ASSUME NEW c \in Callers, NEW op \in process.ops, Enter(c, op) PROVE ProofInv'
  <2>1. /\ Entered(op) = [op |-> Entered(op).op, stage |-> Entered(op).stage,
              run |-> Entered(op).run, by |-> Entered(op).by, addr |-> Entered(op).addr,
              epoch |-> Entered(op).epoch, acted |-> Entered(op).acted, vouch |-> Entered(op).vouch,
              seen |-> Entered(op).seen, framing |-> Entered(op).framing,
              outcome |-> Entered(op).outcome]
        /\ Entered(op).op = op /\ Entered(op).by = "nobody"
        /\ Entered(op).stage \in {"sent", "done", "checking", "finding"}
        /\ Entered(op).stage = "checking" => op.kind = "verified"
        /\ op.kind = "verified" => Entered(op).stage = "checking" /\ Entered(op).outcome = "none"
    <3>1. "verified" \notin HostKinds
      BY DEF HostKinds, Clients
    <3>2. CASE op.kind \in HostKinds
      BY <3>1, <3>2 DEF Entered, Idle
    <3>3. CASE op.kind \notin HostKinds
      BY <3>3 DEF Entered, Idle
    <3> QED
      BY <3>2, <3>3
  <2>2. /\ Shaped' /\ callers'[c] = Entered(op)
        /\ \A d \in Callers \ {c} : callers'[d] = callers[d]
    BY <1>2, <2>1, Replaced DEF Enter, ProofInv
  <2>3. CallerBacked(c)'
    <3>1. /\ callers'[c].op = op /\ callers'[c].by = "nobody"
          /\ callers'[c].stage \in {"sent", "done", "checking", "finding"}
          /\ callers'[c].stage = "checking" => op.kind = "verified" /\ op # NoOp
          /\ op.kind = "verified" =>
                callers'[c].stage = "checking" /\ callers'[c].outcome = "none"
      BY <1>2, <2>1, <2>2, LoopbackAssumption DEF ProofInv
    <3>2. ~Received(c)'
      BY <3>1 DEF Received
    <3>3. IsOp(c, "verified")' => callers'[c].stage = "checking" /\ callers'[c].outcome = "none"
      BY <3>1 DEF IsOp
    <3> QED
      BY <3>1, <3>2, <3>3 DEF CallerBacked, IsOp, In, Unsent
  <2>4. CacheBacked' /\ given \subseteq given' /\ process' = process
    BY <1>2 DEF Enter, proofs, CacheBacked, ProofInv
  <2> QED
    BY <2>2, <2>3, <2>4, CallerMoves
<1>3. ASSUME NEW c \in Callers, Calling(c) PROVE ProofInv'
  <2>0. Shaped /\ CallerBacked(c) /\ CacheBacked
    BY DEF ProofInv
  <2>1. CASE Health(c)
    <3>1. ~IsOp(c, "verified") /\ ~Received(c)
      BY <2>0, <2>1 DEF Health, CallerBacked, In, Unsent
    <3>2. /\ Shaped' /\ callers'[c].op = callers[c].op /\ callers'[c].stage \in {"sent", "done"}
          /\ callers'[c].by = callers[c].by
          /\ \A d \in Callers \ {c} : callers'[d] = callers[d]
      BY <2>0, <2>1, StepWrites, FinishWrites DEF Health
    <3>3. CallerBacked(c)'
      BY <3>1, <3>2 DEF CallerBacked, IsOp, Received
    <3> QED
      BY <2>0, <2>1, <3>2, <3>3, CallerMoves DEF Health, proofs, CacheBacked
  <2>2. CASE Timeout(c)
    <3>1. ~IsOp(c, "verified")
      BY <2>2 DEF Timeout, TimesOut, IsOp
    <3>2. /\ Shaped' /\ callers'[c].op = callers[c].op /\ callers'[c].stage = "done"
          /\ \A d \in Callers \ {c} : callers'[d] = callers[d]
      BY <2>0, <2>2, FinishWrites DEF Timeout
    <3>3. CallerBacked(c)'
      BY <3>1, <3>2 DEF CallerBacked, IsOp, Unsent
    <3> QED
      BY <2>0, <2>2, <3>2, <3>3, CallerMoves DEF Timeout, proofs, CacheBacked
  <2>3. CASE Check(c)
    <3> DEFINE fresh == IsFresh(cache, Url(c), callers[c].op.token)
               next == IF fresh THEN "cleared" ELSE "probing"
               program == IF fresh THEN prover ELSE 0
    <3>1. UNCHANGED <<process, cache, prover, given>>
      BY <2>3 DEF Check, proofs
    <3>2. IsOp(c, "verified") /\ ~Received(c) /\ callers[c].outcome # "unverified"
      BY <2>0, <2>3 DEF Check, CallerBacked, In, Unsent
    <3>3. CacheBacked'
      BY <2>0, <3>1 DEF CacheBacked
    <3>4. CASE Finish(c, "invalid")
      <4>1. /\ Shaped' /\ callers'[c].op = callers[c].op /\ callers'[c].stage = "done"
            /\ callers'[c].by = callers[c].by /\ callers'[c].outcome = "invalid"
            /\ \A d \in Callers \ {c} : callers'[d] = callers[d]
        BY <2>0, <3>4, FinishWrites
      <4>2. CallerBacked(c)'
        BY <3>2, <4>1 DEF CallerBacked, IsOp, Received, In, Unsent
      <4> QED
        BY <3>1, <3>3, <4>1, <4>2, CallerMoves
    <3>5. CASE Checks(c, next, program)
      <4>1. next = "cleared" => <<Url(c), program, callers[c].op.token>> \in given
        BY <2>0 DEF IsFresh, Entry, CacheBacked
      <4>2. next \in {"cleared", "probing"}
        OBVIOUS
      <4> HIDE DEF next, program
      <4>3. /\ Shaped' /\ callers'[c].op = callers[c].op /\ callers'[c].stage = next
            /\ callers'[c].by = callers[c].by /\ callers'[c].outcome = callers[c].outcome
            /\ callers'[c].vouch = program
            /\ \A d \in Callers \ {c} : callers'[d] = callers[d]
        BY <2>0, <3>5, CheckWrites
      <4>4. CallerBacked(c)'
        BY <3>1, <3>2, <4>1, <4>2, <4>3 DEF CallerBacked, IsOp, Received, In, Backed, Url
      <4> QED
        BY <3>1, <3>3, <4>3, <4>4, CallerMoves
    <3> QED
      BY <2>3, <3>4, <3>5 DEF Check, Checks
  <2>4. ASSUME NEW a \in Addresses, Probe(c, a) PROVE ProofInv'
    <3> DEFINE token == callers[c].op.token
               challenge == NewChallenge(c)
    <3>1. ASSUME NEW up, NEW provided, NEW program,
                 Probes(c, program, Verdict(token, challenge, up, provided)),
                 given \subseteq given',
                 Verdict(token, challenge, up, provided) = "proven"
                     => <<Url(c), program, token>> \in given'
          PROVE  ProofInv'
      <4> DEFINE verdict == Verdict(token, challenge, up, provided)
      <4>0. Probes(c, program, verdict)
        BY <3>1
      <4>1. verdict = "proven" => <<Url(c), program, token>> \in given'
        BY <3>1
      <4> HIDE DEF verdict
      <4>2. /\ Shaped' /\ callers'[c].op = callers[c].op /\ callers'[c].stage = "probed"
            /\ callers'[c].by = callers[c].by /\ callers'[c].seen = verdict
            /\ callers'[c].outcome = callers[c].outcome
            /\ callers'[c].vouch = program
            /\ \A d \in Callers \ {c} : callers'[d] = callers[d]
        BY <2>0, <4>0, ProbeWrites
      <4>3. IsOp(c, "verified") /\ ~Received(c) /\ callers[c].outcome # "unverified"
        BY <2>0, <2>4 DEF Probe, CallerBacked, In, Unsent
      <4>4. CallerBacked(c)'
        BY <4>1, <4>2, <4>3 DEF CallerBacked, IsOp, Received, In, Backed, Url
      <4>5. CacheBacked' /\ process' = process
        BY <2>0, <2>4, <3>1 DEF Probe, CacheBacked
      <4> QED
        BY <3>1, <4>2, <4>4, <4>5, CallerMoves
    <3>2. a = Url(c)
      BY <2>4, PinnedResolves DEF Probe, Url
    <3>3. CASE at[a] = "nobody"
      <4>1. Verdict(token, challenge, FALSE, NoProof) # "proven"
        BY DEF Verdict
      <4>2. Probes(c, 0, Verdict(token, challenge, FALSE, NoProof)) /\ given' = given
        BY <2>4, <3>3 DEF Probe, Probes
      <4> QED
        BY <3>1, <4>1, <4>2
    <3>4. CASE at[a] = "own"
      <4>1. Verdict(token, challenge, TRUE, Proof(held, challenge)) = "proven" => held = token
        BY ProvenMeansMade
      <4>2. given' = given \union {<<a, epoch[a], held>>}
        BY <2>4, <3>4 DEF Probe
      <4>3. Probes(c, epoch[a], Verdict(token, challenge, TRUE, Proof(held, challenge)))
        BY <2>4, <3>4 DEF Probe, Probes
      <4>4. Verdict(token, challenge, TRUE, Proof(held, challenge)) = "proven"
                => <<Url(c), epoch[a], token>> \in given'
        BY <3>2, <4>1, <4>2
      <4>5. given \subseteq given'
        BY <4>2
      <4> QED
        BY <3>1, <4>3, <4>4, <4>5
    <3>5. CASE at[a] = "other"
      <4>1. PICK provided \in {NoProof, Proof(token, NewChallenge("earlier"))} :
                Probes(c, 0, Verdict(token, challenge, TRUE, provided))
        BY <2>4, <3>5 DEF Probe, Probes
      <4>2. c # "earlier"
        BY LoopbackAssumption
      <4>3. Verdict(token, challenge, TRUE, provided) # "proven"
        <5>1. CASE provided = NoProof
          BY <5>1 DEF Verdict
        <5>2. CASE provided = Proof(token, NewChallenge("earlier"))
          <6>1. Verdict(token, challenge, TRUE, Proof(token, NewChallenge("earlier"))) # "proven"
            BY <4>2, OldProofsFail
          <6> QED
            BY <5>2, <6>1
        <5> QED
          BY <4>1, <5>1, <5>2
      <4>4. given \subseteq given'
        BY <2>4, <3>5 DEF Probe
      <4> QED
        BY <3>1, <4>1, <4>3, <4>4
    <3> QED
      BY <2>4, <3>3, <3>4, <3>5 DEF Probe
  <2>5. CASE ProbeTimeout(c)
    <3>1. Probes(c, 0, "unreachable")
      BY <2>5 DEF ProbeTimeout, Probes
    <3>2. /\ Shaped' /\ callers'[c].op = callers[c].op /\ callers'[c].stage = "probed"
          /\ callers'[c].by = callers[c].by /\ callers'[c].seen = "unreachable"
          /\ callers'[c].outcome = callers[c].outcome
          /\ \A d \in Callers \ {c} : callers'[d] = callers[d]
      BY <2>0, <3>1, ProbeWrites
    <3>3. UNCHANGED <<process, cache, prover, given>>
      BY <2>5 DEF ProbeTimeout, proofs
    <3>4. IsOp(c, "verified") /\ ~Received(c) /\ callers[c].outcome # "unverified"
      BY <2>0, <2>5 DEF ProbeTimeout, CallerBacked, In, Unsent
    <3>5. CallerBacked(c)'
      BY <3>2, <3>4 DEF CallerBacked, IsOp, Received, In
    <3> QED
      BY <2>0, <3>2, <3>3, <3>5, CallerMoves DEF CacheBacked
  <2>6. CASE Conclude(c)
    <3>1. /\ UNCHANGED <<process, given>>
          /\ cache' = AfterVerdict(cache, Url(c), callers[c].op.token, callers[c].seen)
          /\ prover' = IF callers[c].seen = "proven" THEN callers[c].vouch ELSE 0
          /\ In(c, "probed")
      BY <2>6 DEF Conclude
    <3>2. IsOp(c, "verified") /\ ~Received(c) /\ callers[c].outcome # "unverified"
      BY <2>0, <3>1 DEF CallerBacked, In, Unsent
    <3>3. callers[c].seen = "proven" => Backed(c)
      BY <2>0, <3>1, <3>2 DEF CallerBacked
    <3>4. CacheBacked'
      BY <3>1, <3>3 DEF CacheBacked, AfterVerdict, Entry, Backed
    <3>5. CASE callers[c].seen = "proven"
      <4>1. /\ Shaped' /\ callers'[c].op = callers[c].op /\ callers'[c].stage = "cleared"
            /\ callers'[c].by = callers[c].by /\ callers'[c].outcome = callers[c].outcome
            /\ callers'[c].vouch = callers[c].vouch
            /\ \A d \in Callers \ {c} : callers'[d] = callers[d]
        BY <2>0, <2>6, <3>5, StepWrites DEF Conclude
      <4>2. CallerBacked(c)'
        BY <3>1, <3>2, <3>3, <3>5, <4>1 DEF CallerBacked, IsOp, Received, In, Backed, Url
      <4> QED
        BY <3>1, <3>4, <4>1, <4>2, CallerMoves
    <3>6. CASE callers[c].seen # "proven"
      <4>1. /\ Shaped' /\ callers'[c].op = callers[c].op /\ callers'[c].stage = "done"
            /\ callers'[c].by = callers[c].by
            /\ \A d \in Callers \ {c} : callers'[d] = callers[d]
        BY <2>0, <2>6, <3>6, FinishWrites DEF Conclude
      <4>2. CallerBacked(c)'
        BY <3>2, <4>1 DEF CallerBacked, IsOp, Received, In, Unsent
      <4> QED
        BY <3>1, <3>4, <4>1, <4>2, CallerMoves
    <3> QED
      BY <3>5, <3>6
  <2>7. CASE Execute(c)
    <3>1. PICK stage \in {"sent", "done"}, outcome \in {"invalid", callers[c].outcome} :
            /\ Shaped' /\ callers'[c].op = callers[c].op /\ callers'[c].stage = stage
            /\ callers'[c].by = callers[c].by /\ callers'[c].outcome = outcome
            /\ callers'[c].vouch = callers[c].vouch
            /\ \A d \in Callers \ {c} : callers'[d] = callers[d]
      <4>1. CASE Step(c, "sent")
        BY <2>0, <4>1, StepWrites
      <4>2. CASE Finish(c, "invalid")
        BY <2>0, <4>2, FinishWrites
      <4> QED
        BY <2>7, <4>1, <4>2 DEF Execute
    <3>2. UNCHANGED <<process, cache, prover, given>>
      BY <2>7 DEF Execute, proofs
    <3>3. IsOp(c, "verified") /\ Backed(c) /\ ~Received(c) /\ callers[c].outcome # "unverified"
      BY <2>0, <2>7 DEF Execute, CallerBacked, In, Unsent
    <3>4. CallerBacked(c)'
      BY <3>1, <3>2, <3>3 DEF CallerBacked, IsOp, Received, In, Backed, Url, Unsent
    <3> QED
      BY <2>0, <3>1, <3>2, <3>4, CallerMoves DEF CacheBacked
  <2>8. ASSUME NEW a \in Addresses, Arrive(c, a) PROVE ProofInv'
    <3>1. /\ UNCHANGED <<process, cache, prover, given>>
          /\ In(c, "sent")
          /\ IsOp(c, "verified") => a = Url(c)
      BY <2>8, PinnedResolves DEF Arrive, proofs, IsOp, Url
    <3>2. ~Received(c) /\ (IsOp(c, "verified") => Backed(c))
      BY <2>0, <3>1 DEF CallerBacked, In, Unsent
    <3>3. CacheBacked' /\ given \subseteq given'
      BY <2>0, <3>1 DEF CacheBacked
    <3>4. CASE at[a] = "nobody"
      <4>1. PICK outcome \in {"error", "transport"} : Finish(c, outcome)
        BY <2>8, <3>4 DEF Arrive
      <4>2. /\ Shaped' /\ callers'[c].op = callers[c].op /\ callers'[c].stage = "done"
            /\ callers'[c].by = callers[c].by /\ callers'[c].outcome = outcome
            /\ \A d \in Callers \ {c} : callers'[d] = callers[d]
        BY <2>0, <4>1, FinishWrites
      <4>3. CallerBacked(c)'
        BY <3>2, <4>1, <4>2 DEF CallerBacked, IsOp, Received, In, Unsent
      <4> QED
        BY <3>1, <3>3, <4>2, <4>3, CallerMoves
    <3>5. CASE at[a] # "nobody"
      <4>1. PICK acted :
                callers' = [callers EXCEPT ![c].stage = "handled", ![c].by = at[a],
                    ![c].addr = a, ![c].epoch = epoch[a], ![c].acted = acted]
        BY <2>8, <3>5 DEF Arrive
      <4>2. /\ Shaped' /\ callers'[c].op = callers[c].op /\ callers'[c].stage = "handled"
            /\ callers'[c].addr = a /\ callers'[c].outcome = callers[c].outcome
            /\ callers'[c].vouch = callers[c].vouch
            /\ \A d \in Callers \ {c} : callers'[d] = callers[d]
        <5>1. Lands(c, at[a], a, epoch[a], acted)
          BY <4>1 DEF Lands
        <5> QED
          BY <2>0, <5>1, ArriveWrites
      <4>3. IsOp(c, "verified") => callers[c].outcome # "unverified"
        BY <2>0, <3>1 DEF CallerBacked, In
      <4>4. CallerBacked(c)'
        BY <3>1, <3>2, <4>2, <4>3 DEF CallerBacked, IsOp, Received, In, Backed, Url, Unsent
      <4> QED
        BY <3>1, <3>3, <4>2, <4>4, CallerMoves
    <3> QED
      BY <3>4, <3>5
  <2>9. CASE Return(c)
    <3>1. UNCHANGED <<process, cache, prover, given>> /\ In(c, "handled")
      BY <2>9 DEF Return, proofs
    <3>2. CacheBacked' /\ given \subseteq given'
      BY <2>0, <3>1 DEF CacheBacked
    <3>3. ASSUME ~IsOp(c, "verified"), Shaped', callers'[c].op = callers[c].op,
                 callers'[c].stage \in {"done", "streaming"},
                 \A d \in Callers \ {c} : callers'[d] = callers[d]
          PROVE  ProofInv'
      <4>1. CallerBacked(c)'
        BY <3>3 DEF CallerBacked, IsOp, Unsent
      <4> QED
        BY <3>1, <3>2, <3>3, <4>1, CallerMoves
    <3>4. CASE HostReturns(c) /\ callers[c].op.kind \in HostKinds
      <4>1. ~IsOp(c, "verified")
        BY <3>4 DEF IsOp, HostKinds, Clients
      <4>2. CASE Finish(c, "transport")
        BY <2>0, <3>3, <4>1, <4>2, FinishWrites
      <4>3. CASE Step(c, "streaming")
        BY <2>0, <3>3, <4>1, <4>3, StepWrites
      <4>4. ASSUME NEW outcome, NEW body,
                   callers' = [callers EXCEPT ![c].stage = "done", ![c].outcome = outcome,
                                              ![c].seen = body]
            PROVE  ProofInv'
        BY <2>0, <3>3, <4>1, <4>4, HostReturnWrites DEF Hears
      <4> QED
        BY <3>4, <4>2, <4>3, <4>4 DEF HostReturns
    <3>5. CASE SidecarReturns(c) /\ IsOp(c, "handoff")
      <4>1. ~IsOp(c, "verified")
        BY <3>5 DEF IsOp
      <4>2. PICK framing, cut, outcome :
                callers' = [callers EXCEPT ![c].stage = "done", ![c].framing = framing,
                                ![c].seen = cut, ![c].outcome = outcome]
        <5>1. PICK framing \in Framings, cut \in Cuts, status \in {"2xx", "other"} :
                  callers' = [callers EXCEPT ![c].stage = "done", ![c].framing = framing,
                      ![c].seen = cut,
                      ![c].outcome = CallOutcome(SidecarResponse(status, framing, cut))]
          BY <3>5 DEF SidecarReturns
        <5> QED
          BY <5>1
      <4> QED
        BY <2>0, <3>3, <4>1, <4>2, SidecarReturnWrites DEF HearsSidecar
    <3>6. CASE VerifiedReturns(c)
      <4>1. PICK outcome \in {"answered", "transport"} : Finish(c, outcome)
        BY <3>6 DEF VerifiedReturns
      <4>2. /\ Shaped' /\ callers'[c].op = callers[c].op /\ callers'[c].stage = "done"
            /\ callers'[c].by = callers[c].by /\ callers'[c].addr = callers[c].addr
            /\ callers'[c].outcome = outcome
            /\ callers'[c].vouch = callers[c].vouch
            /\ \A d \in Callers \ {c} : callers'[d] = callers[d]
        BY <2>0, <4>1, FinishWrites
      <4>3. CallerBacked(c)'
        BY <2>0, <3>1, <4>1, <4>2 DEF CallerBacked, IsOp, Received, In, Backed, Url, Unsent
      <4> QED
        BY <3>1, <3>2, <4>2, <4>3, CallerMoves
    <3> QED
      BY <2>9, <3>4, <3>5, <3>6 DEF Return
  <2>10. CASE Frame(c) \/ EndStream(c) \/ \E n \in 1 .. MaxChunk : Chunk(c, n)
    BY <2>10, ElsewhereKeeps DEF Frame, EndStream, Chunk, proofs
  <2>11. CASE CloseStream(c)
    <3>1. /\ Shaped' /\ callers'[c].op = callers[c].op /\ callers'[c].stage = "done"
          /\ callers'[c].by = callers[c].by /\ callers'[c].addr = callers[c].addr
          /\ callers'[c].outcome = "answered"
          /\ callers'[c].vouch = callers[c].vouch
          /\ \A d \in Callers \ {c} : callers'[d] = callers[d]
      BY <2>0, <2>11, FinishWrites DEF CloseStream
    <3>2. UNCHANGED <<process, cache, prover, given>>
      BY <2>11 DEF CloseStream, proofs
    <3>3. CallerBacked(c)'
      BY <2>0, <3>1, <3>2 DEF CallerBacked, IsOp, Received, In, Backed, Url, Unsent
    <3> QED
      BY <2>0, <3>1, <3>2, <3>3, CallerMoves DEF CacheBacked
  <2> QED
    BY <1>3, <2>1, <2>2, <2>3, <2>4, <2>5, <2>6, <2>7, <2>8, <2>9, <2>10, <2>11
       DEF Calling, Verifying, Streaming
<1>4. process.callers \subseteq Callers
  BY LoopbackAssumption DEF ProofInv
<1> QED
  BY <1>1, <1>2, <1>3, <1>4 DEF Next

\* Whatever relies on a proof is backed by one, always.
LEMMA ProofInvariant == Spec => []ProofInv
  BY InitHolds, StepHolds, PTL DEF Spec

-----------------------------------------------------------------------------
(* The programs: who listens, which run it is, and the handoff file.       *)

\* A set of naturals that is not empty has a least one.
LEMMA LeastNatural ==
    ASSUME NEW S \in SUBSET Nat, S # {}
    PROVE  \E n \in S : \A m \in S : n <= m
<1> DEFINE R == OpToRel(<, Nat)
<1>1. IsWellFoundedOn(R, Nat)
  BY NatLessThanWellFounded, Zenon
<1>2. \A x, y \in Nat : x < y => <<x, y>> \in R
  BY DEF OpToRel
<1> HIDE DEF R
<1>3. PICK n \in S : \A m \in S : ~(<<m, n>> \in R)
  BY <1>1, WFMin, Zenon
<1>4. \A m \in S : n <= m
  <2>1. SUFFICES ASSUME NEW m \in S PROVE n <= m
    OBVIOUS
  <2>2. m \in Nat /\ n \in Nat
    OBVIOUS
  <2>3. ~(m < n)
    BY <1>2, <1>3, <2>2, Zenon
  <2> QED
    BY <2>2, <2>3
<1> QED
  BY <1>4

\* A sidecar that leaves is of an earlier run than the one that listens, and has
\* loaded nothing but its own handoff.
Left ==
    leaving # NoFile =>
        /\ leaving = [run |-> leaving.run, loaded |-> leaving.loaded, looked |-> leaving.looked]
        /\ leaving.run \in Nat
        /\ leaving.run <= epoch["v4"]
        /\ at["v4"] = "own" => leaving.run < epoch["v4"]
        /\ leaving.looked => leaving.loaded = leaving.run

ProgramInv ==
    /\ at \in [Addresses -> {"nobody", "own", "other"}]
    /\ epoch \in [Addresses -> 1 .. MaxChanges + 1]
    /\ file \in {NoFile} \union Nat
    /\ Left

\* The newest program has the highest number.
LEMMA NewestIsHighest ==
    ASSUME ProgramInv
    PROVE  /\ Newest \in 1 .. MaxChanges + 1
           /\ \A a \in Addresses : epoch[a] <= Newest
<1> DEFINE E == {epoch[a] : a \in Addresses}
           S == {e \in Nat : MaxChanges + 1 - e \in E}
<1>1. MaxChanges \in Nat /\ epoch \in [Addresses -> 1 .. MaxChanges + 1]
  BY LoopbackAssumption DEF ProgramInv
<1>2. E \subseteq 1 .. MaxChanges + 1
  BY <1>1
<1>3. "v4" \in Addresses
  BY DEF Addresses
<1>4. S # {}
  <2> DEFINE e == MaxChanges + 1 - epoch["v4"]
  <2>1. epoch["v4"] \in 1 .. MaxChanges + 1
    BY <1>1, <1>3
  <2>2. e \in Nat /\ MaxChanges + 1 - e = epoch["v4"]
    BY <1>1, <2>1
  <2>3. epoch["v4"] \in E
    BY <1>3
  <2> QED
    BY <2>2, <2>3
<1>5. PICK m \in S : \A e \in S : m <= e
  <2> HIDE DEF E
  <2>1. S \in SUBSET Nat
    OBVIOUS
  <2> HIDE DEF S
  <2> QED
    BY <1>4, <2>1, LeastNatural
<1>6. \A e \in E : e <= MaxChanges + 1 - m
  <2>1. SUFFICES ASSUME NEW e \in E PROVE e <= MaxChanges + 1 - m
    OBVIOUS
  <2> HIDE DEF E
  <2>2. e \in 1 .. MaxChanges + 1
    BY <1>2
  <2>3. MaxChanges + 1 - e \in Nat /\ MaxChanges + 1 - (MaxChanges + 1 - e) = e
    BY <1>1, <2>2
  <2>4. MaxChanges + 1 - e \in S
    BY <2>3
  <2>5. m \in Nat
    BY <1>5
  <2> HIDE DEF S
  <2>6. m <= MaxChanges + 1 - e
    BY <1>5, <2>4
  <2> QED
    BY <1>1, <2>2, <2>5, <2>6
<1>7. \E n \in E : \A a \in Addresses : epoch[a] <= n
  <2>1. MaxChanges + 1 - m \in E
    BY <1>5
  <2> QED
    BY <1>6, <2>1
<1>8. Newest \in E /\ \A a \in Addresses : epoch[a] <= Newest
  BY <1>7, Zenon DEF Newest
<1> QED
  BY <1>2, <1>8

\* The calls leave the programs alone.
LEMMA CallsLeavePrograms ==
    ASSUME NEW c, Calling(c) \/ \E op \in process.ops : Enter(c, op)
    PROVE  UNCHANGED <<at, epoch, published, file, leaving>>
BY DEF Enter, Calling, Health, Timeout, Verifying, Check, Probe, ProbeTimeout, Conclude,
       Execute, Streaming, Chunk, Frame, EndStream, CloseStream, Return, Arrive, sidecar

\* Every step keeps the invariant of the programs.
LEMMA ProgramsHold == ProgramInv /\ [Next]_vars => ProgramInv'
<1> SUFFICES ASSUME ProgramInv, [Next]_vars PROVE ProgramInv'
  OBVIOUS
<1>1. "v4" \in Addresses /\ MaxChanges \in Nat
  BY LoopbackAssumption DEF Addresses
<1>2. CASE UNCHANGED <<at, epoch, file, leaving>>
  BY <1>2 DEF ProgramInv, Left
<1>3. ASSUME NEW a \in Addresses, NEW who \in {"own", "other"}, Bind(a, who)
      PROVE  ProgramInv'
  <2>1. /\ at' = [at EXCEPT ![a] = who] /\ epoch' = [epoch EXCEPT ![a] = Newest + 1]
        /\ Newest < MaxChanges /\ UNCHANGED <<file, leaving>>
    BY <1>3 DEF Bind
  <2>2. Newest \in 1 .. MaxChanges + 1 /\ \A b \in Addresses : epoch[b] <= Newest
    BY NewestIsHighest
  <2>3. at' \in [Addresses -> {"nobody", "own", "other"}]
    BY <2>1 DEF ProgramInv
  <2>4. epoch' \in [Addresses -> 1 .. MaxChanges + 1]
    BY <1>1, <2>1, <2>2 DEF ProgramInv
  <2>5. /\ epoch["v4"] \in Nat
        /\ a = "v4" => epoch'["v4"] > epoch["v4"]
        /\ a # "v4" => epoch'["v4"] = epoch["v4"] /\ at'["v4"] = at["v4"]
    BY <1>1, <2>1, <2>2 DEF ProgramInv
  <2>6. Left'
    BY <1>1, <2>1, <2>4, <2>5 DEF ProgramInv, Left
  <2> QED
    BY <2>1, <2>3, <2>4, <2>6 DEF ProgramInv
<1>4. ASSUME NEW a \in Addresses, Vanish(a) PROVE ProgramInv'
  <2>1. at' = [at EXCEPT ![a] = "nobody"] /\ UNCHANGED <<epoch, file, leaving>>
    BY <1>4 DEF Vanish
  <2>2. at'["v4"] = "own" => at["v4"] = "own"
    BY <1>1, <2>1 DEF ProgramInv
  <2> QED
    BY <2>1, <2>2 DEF ProgramInv, Left
<1>5. CASE Publish
  <2>1. file' = epoch["v4"] /\ UNCHANGED <<at, epoch, leaving>>
    BY <1>5 DEF Publish
  <2>2. epoch["v4"] \in Nat
    BY <1>1 DEF ProgramInv
  <2> QED
    BY <2>1, <2>2 DEF ProgramInv, Left
<1>6. CASE ShutDown
  <2>1. /\ at' = [at EXCEPT !["v4"] = "nobody"] /\ UNCHANGED <<epoch, file>>
        /\ leaving' = [run |-> epoch["v4"], loaded |-> NoFile, looked |-> FALSE]
    BY <1>6 DEF ShutDown
  <2>2. epoch["v4"] \in Nat /\ at'["v4"] = "nobody"
    BY <1>1, <2>1 DEF ProgramInv
  <2>3. Left'
    BY <2>1, <2>2 DEF Left
  <2> QED
    BY <2>1, <2>3 DEF ProgramInv
<1>7. CASE WithdrawLoad
  <2>1. UNCHANGED <<at, epoch, file>> /\ leaving # NoFile
    BY <1>7 DEF WithdrawLoad
  <2>2. CASE leaving' = NoFile
    BY <2>1, <2>2 DEF ProgramInv, Left
  <2>3. CASE leaving' # NoFile
    <3>1. leaving' = [leaving EXCEPT !.loaded = file, !.looked = TRUE] /\ file = leaving.run
      BY <1>7, <2>3 DEF WithdrawLoad, Loaded
    <3>2. leaving' = [run |-> leaving.run, loaded |-> file, looked |-> TRUE]
      BY <2>1, <3>1 DEF ProgramInv, Left
    <3> QED
      BY <2>1, <3>1, <3>2 DEF ProgramInv, Left
  <2> QED
    BY <2>2, <2>3
<1>8. CASE WithdrawRemove
  BY <1>8 DEF WithdrawRemove, ProgramInv, Left
<1> QED
  BY <1>2, <1>3, <1>4, <1>5, <1>6, <1>7, <1>8, CallsLeavePrograms
     DEF Next, Programs, Expire, sidecar, vars

\* At first every program is the first at its address.
LEMMA ProgramsBegin == Init => ProgramInv
<1> SUFFICES ASSUME Init PROVE ProgramInv
  OBVIOUS
<1>1. MaxChanges \in Nat
  BY LoopbackAssumption
<1>2. at \in [Addresses -> {"nobody", "own", "other"}]
  BY DEF Init
<1>3. epoch \in [Addresses -> 1 .. MaxChanges + 1]
  BY <1>1 DEF Init
<1> QED
  BY <1>2, <1>3 DEF Init, ProgramInv, Left

\* So the file names no run that was not, always.
LEMMA ProgramInvariant == Spec => []ProgramInv
  BY ProgramsBegin, ProgramsHold, PTL DEF Spec

\* Every proof was given by a program that listened at its address by then, and who
\* receives a bearer there came no earlier than that.
GivenBefore ==
    \A a \in Addresses : \A n, token : <<a, n, token>> \in given => n \in Nat /\ n <= epoch[a]

Follows(c) ==
    IsOp(c, "verified") /\ Received(c) =>
        /\ callers[c].vouch \in Nat /\ callers[c].epoch \in Nat
        /\ callers[c].vouch <= callers[c].epoch

VouchInv == GivenBefore /\ \A c \in Callers : Follows(c)

\* It is enough to look at the caller that moves.
LEMMA FollowersMove ==
    ASSUME VouchInv, NEW c \in Callers, \A d \in Callers \ {c} : callers'[d] = callers[d],
           Follows(c)'
    PROVE  \A d \in Callers : Follows(d)'
<1>1. \A d \in Callers \ {c} : Follows(d)'
  BY DEF VouchInv, Follows, IsOp, Received
<1> QED
  BY <1>1

\* A call that keeps what it relied on and who received it.
LEMMA FollowersStay ==
    ASSUME VouchInv, NEW c \in Callers, \A d \in Callers \ {c} : callers'[d] = callers[d],
           callers'[c].op = callers[c].op, callers'[c].by = callers[c].by,
           callers'[c].epoch = callers[c].epoch,
           callers'[c].vouch = callers[c].vouch \/ callers[c].by = "nobody"
    PROVE  \A d \in Callers : Follows(d)'
<1>1. Follows(c)'
  BY DEF VouchInv, Follows, IsOp, Received
<1> QED
  BY <1>1, FollowersMove

\* A request that arrives finds the program that proved, or a later one.
LEMMA ArriveFollows ==
    ASSUME ProofInv, ProgramInv, VouchInv, NEW c \in Callers, NEW a \in Addresses, Arrive(c, a)
    PROVE  \A d \in Callers : Follows(d)'
<1>0. Shaped
  BY DEF ProofInv
<1>1. CASE at[a] = "nobody"
  <2>1. PICK outcome \in {"error", "transport"} : Finish(c, outcome)
    BY <1>1 DEF Arrive
  <2> QED
    BY <1>0, <2>1, FinishWrites, FollowersStay
<1>2. CASE at[a] # "nobody"
  <2>1. PICK acted : Lands(c, at[a], a, epoch[a], acted)
    BY <1>2 DEF Arrive, Lands
  <2>2. /\ callers'[c].op = callers[c].op /\ callers'[c].vouch = callers[c].vouch
        /\ callers'[c].epoch = epoch[a]
        /\ \A d \in Callers \ {c} : callers'[d] = callers[d]
    BY <1>0, <2>1, ArriveWrites
  <2>3. IsOp(c, "verified") => Backed(c) /\ a = Url(c)
    BY PinnedResolves DEF Arrive, IsOp, Url, In, ProofInv, CallerBacked
  <2>4. IsOp(c, "verified") => callers[c].vouch \in Nat /\ callers[c].vouch <= epoch[a]
    BY <2>3 DEF Backed, VouchInv, GivenBefore
  <2>5. epoch[a] \in Nat
    BY LoopbackAssumption DEF ProgramInv
  <2>6. Follows(c)'
    BY <2>2, <2>4, <2>5 DEF Follows, IsOp
  <2> QED
    BY <2>2, <2>6, FollowersMove
<1> QED
  BY <1>1, <1>2

\* No other step of a call changes who received it: one step of the proof per action.
LEMMA CallFollows ==
    ASSUME ProofInv, ProgramInv, VouchInv, NEW c \in Callers, Calling(c)
    PROVE  \A d \in Callers : Follows(d)'
<1>0. Shaped /\ CallerBacked(c)
  BY DEF ProofInv
<1>1. ASSUME NEW stage, Step(c, stage) PROVE \A d \in Callers : Follows(d)'
  BY <1>0, <1>1, StepWrites, FollowersStay
<1>2. ASSUME NEW outcome, Finish(c, outcome) PROVE \A d \in Callers : Follows(d)'
  BY <1>0, <1>2, FinishWrites, FollowersStay
<1>3. CASE Health(c) \/ Timeout(c) \/ Execute(c) \/ CloseStream(c) \/ Conclude(c)
  BY <1>1, <1>2, <1>3 DEF Health, Timeout, Execute, CloseStream, Conclude
<1>4. CASE Check(c)
  <2>1. callers[c].by = "nobody"
    BY <1>0, <1>4 DEF Check, CallerBacked, In, Unsent, Received
  <2>2. (\E next, program : Checks(c, next, program)) \/ Finish(c, "invalid")
    BY <1>4 DEF Check, Checks
  <2> QED
    BY <1>0, <1>2, <2>1, <2>2, CheckWrites, FollowersStay
<1>5. CASE ProbeTimeout(c) \/ \E a \in Addresses : Probe(c, a)
  <2>1. callers[c].by = "nobody"
    BY <1>0, <1>5 DEF ProbeTimeout, Probe, CallerBacked, In, Unsent, Received
  <2>2. PICK program, verdict : Probes(c, program, verdict)
    BY <1>5 DEF ProbeTimeout, Probe, Probes
  <2> QED
    BY <1>0, <2>1, <2>2, ProbeWrites, FollowersStay
<1>6. CASE \E a \in Addresses : Arrive(c, a)
  BY <1>6, ArriveFollows
<1>7. CASE Return(c)
  <2>1. CASE HostReturns(c)
    <3>1. ASSUME NEW outcome, NEW body, Hears(c, outcome, body)
          PROVE  \A d \in Callers : Follows(d)'
      BY <1>0, <3>1, HostReturnWrites, FollowersStay
    <3>2. \/ \E outcome : Finish(c, outcome)
          \/ \E stage : Step(c, stage)
          \/ \E outcome, body : Hears(c, outcome, body)
      BY <2>1 DEF HostReturns, Hears
    <3> QED
      BY <1>1, <1>2, <3>1, <3>2
  <2>2. CASE SidecarReturns(c)
    <3>1. PICK framing \in Framings, cut \in Cuts, status \in {"2xx", "other"} :
              callers' = [callers EXCEPT ![c].stage = "done", ![c].framing = framing,
                  ![c].seen = cut,
                  ![c].outcome = CallOutcome(SidecarResponse(status, framing, cut))]
      BY <2>2 DEF SidecarReturns
    <3>2. HearsSidecar(c, framing, cut, CallOutcome(SidecarResponse(status, framing, cut)))
      BY <3>1 DEF HearsSidecar
    <3> QED
      BY <1>0, <3>2, SidecarReturnWrites, FollowersStay
  <2>3. CASE VerifiedReturns(c)
    BY <1>2, <2>3 DEF VerifiedReturns
  <2> QED
    BY <1>7, <2>1, <2>2, <2>3 DEF Return
<1>8. CASE Frame(c) \/ EndStream(c) \/ \E n \in 1 .. MaxChunk : Chunk(c, n)
  <2>1. callers' = callers
    BY <1>8 DEF Frame, EndStream, Chunk
  <2> QED
    BY <2>1, FollowersStay
<1> QED
  BY <1>3, <1>4, <1>5, <1>6, <1>7, <1>8 DEF Calling, Verifying, Streaming

\* A program that takes an address is newer than all before it.
LEMMA ProgramsGrow ==
    ASSUME ProgramInv, [Next]_vars
    PROVE  \A a \in Addresses : epoch[a] \in Nat /\ epoch'[a] \in Nat /\ epoch[a] <= epoch'[a]
<1>0. MaxChanges \in Nat /\ epoch \in [Addresses -> 1 .. MaxChanges + 1]
  BY LoopbackAssumption DEF ProgramInv
<1>1. CASE epoch' = epoch
  BY <1>0, <1>1
<1>2. ASSUME NEW b \in Addresses, NEW who, Bind(b, who)
      PROVE  \A a \in Addresses :
                epoch[a] \in Nat /\ epoch'[a] \in Nat /\ epoch[a] <= epoch'[a]
  <2>1. epoch' = [epoch EXCEPT ![b] = Newest + 1]
    BY <1>2 DEF Bind
  <2>2. Newest \in 1 .. MaxChanges + 1 /\ \A a \in Addresses : epoch[a] <= Newest
    BY NewestIsHighest
  <2>3. TAKE a \in Addresses
  <2>4. epoch[a] \in Nat /\ Newest \in Nat /\ epoch[a] <= Newest
    BY <1>0, <2>2
  <2>5. epoch'[a] \in {epoch[a], Newest + 1}
    BY <1>0, <2>1
  <2> QED
    BY <2>4, <2>5
<1>3. \/ epoch' = epoch
      \/ \E b \in Addresses, who \in {"own", "other"} : Bind(b, who)
  <2>1. CASE \E c \in process.callers : Calling(c) \/ \E op \in process.ops : Enter(c, op)
    BY <2>1, CallsLeavePrograms
  <2>2. CASE Programs \/ Expire \/ UNCHANGED vars
    BY <2>2 DEF Programs, Vanish, Publish, ShutDown, WithdrawLoad, WithdrawRemove, Expire,
                sidecar, vars
  <2> QED
    BY <2>1, <2>2 DEF Next
<1> QED
  BY <1>1, <1>2, <1>3

\* A step adds to the proofs at most the one of the program that listens.
LEMMA GivenGrows ==
    ASSUME [Next]_vars
    PROVE  \/ given' = given
           \/ \E a \in Addresses : given' = given \union {<<a, epoch[a], held>>}
<1>1. CASE Programs \/ Expire \/ UNCHANGED vars
  BY <1>1 DEF Programs, Bind, Vanish, Publish, ShutDown, WithdrawLoad, WithdrawRemove, Expire,
              proofs, vars
<1>2. ASSUME NEW c, NEW op, Enter(c, op) PROVE given' = given
  BY <1>2 DEF Enter, proofs
<1>3. ASSUME NEW c, NEW a \in Addresses, Probe(c, a)
      PROVE  \/ given' = given
             \/ \E b \in Addresses : given' = given \union {<<b, epoch[b], held>>}
  BY <1>3 DEF Probe
<1>4. ASSUME NEW c, Calling(c), \A a \in Addresses : ~Probe(c, a) PROVE given' = given
  BY <1>4 DEF Calling, Health, Timeout, Verifying, Check, ProbeTimeout, Conclude, Execute,
              Streaming, Chunk, Frame, EndStream, CloseStream, Return, Arrive, proofs
<1> QED
  BY <1>1, <1>2, <1>3, <1>4 DEF Next

\* Proofs stay older than the programs, and receivers no older than the proofs.
LEMMA VouchesHold == ProofInv /\ ProgramInv /\ VouchInv /\ [Next]_vars => VouchInv'
<1> SUFFICES ASSUME ProofInv, ProgramInv, VouchInv, [Next]_vars PROVE VouchInv'
  OBVIOUS
<1>1. GivenBefore'
  <2> SUFFICES ASSUME NEW a \in Addresses, NEW n, NEW token, <<a, n, token>> \in given'
               PROVE  n \in Nat /\ n <= epoch'[a]
    BY DEF GivenBefore
  <2>1. /\ \A b \in Addresses : epoch[b] \in Nat /\ epoch'[b] \in Nat /\ epoch[b] <= epoch'[b]
        /\ \A b \in Addresses : \A m, t : <<b, m, t>> \in given => m \in Nat /\ m <= epoch[b]
    BY ProgramsGrow DEF VouchInv, GivenBefore
  <2>2. <<a, n, token>> \in given \/ n = epoch[a]
    BY GivenGrows
  <2>3. n \in Nat /\ n <= epoch[a]
    BY <2>1, <2>2
  <2> QED
    BY <2>1, <2>3
<1>2. \A c \in Callers : Follows(c)'
  <2>1. CASE callers' = callers
    BY <2>1 DEF VouchInv, Follows, IsOp, Received
  <2>2. ASSUME NEW c \in Callers, NEW op, Enter(c, op) PROVE \A d \in Callers : Follows(d)'
    <3>1. callers' = [callers EXCEPT ![c] = Entered(op)] /\ Entered(op).by = "nobody"
      BY <2>2 DEF Enter, Entered, Idle
    <3>2. callers'[c].by = "nobody" /\ \A d \in Callers \ {c} : callers'[d] = callers[d]
      BY <3>1 DEF ProofInv, Shaped
    <3> QED
      BY <3>2, FollowersMove DEF Follows, Received
  <2>3. process.callers \subseteq Callers
    BY LoopbackAssumption DEF ProofInv
  <2>4. CASE Programs \/ Expire \/ UNCHANGED vars
    <3>1. callers' = callers
      BY <2>4 DEF Programs, Bind, Vanish, Publish, ShutDown, WithdrawLoad, WithdrawRemove,
                  Expire, vars
    <3> QED
      BY <2>1, <3>1
  <2> QED
    BY <2>2, <2>3, <2>4, CallFollows DEF Next
<1> QED
  BY <1>1, <1>2 DEF VouchInv

\* The invariants are enough: whoever receives a bearer had proved to hold it, or has
\* taken the place of the program that had.
LEMMA BackedIsEnough == ProofInv /\ ProgramInv /\ VouchInv => BearerNeedsProof
<1> SUFFICES ASSUME ProofInv, ProgramInv, VouchInv, NEW c \in Callers, IsOp(c, "verified")
             PROVE  /\ Received(c) =>
                          /\ <<callers[c].addr, callers[c].vouch, callers[c].op.token>> \in given
                          /\ \/ callers[c].epoch = callers[c].vouch
                             \/ callers[c].vouch < callers[c].epoch
                    /\ callers[c].outcome = "unverified" => ~Received(c)
  BY DEF BearerNeedsProof
<1>1. CallerBacked(c) /\ Follows(c)
  BY DEF ProofInv, VouchInv
<1>2. Received(c) =>
          /\ callers[c].vouch \in Nat /\ callers[c].epoch \in Nat
          /\ callers[c].vouch <= callers[c].epoch
  BY <1>1 DEF Follows
<1> QED
  BY <1>1, <1>2 DEF CallerBacked, Backed

\* "An unverified listener receives neither the token nor the request"
\* (peer_proof.rs), in every run of the programs and for any number of callers: who
\* receives a bearer proved to hold it, or has replaced the program that proved it.
THEOREM BearersNeedProof == Spec => []BearerNeedsProof
<1>1. Init => VouchInv
  BY DEF Init, VouchInv, GivenBefore, Follows, IsOp, Idle
<1> QED
  BY <1>1, ProofInvariant, ProgramInvariant, VouchesHold, BackedIsEnough, PTL DEF Spec

\* Only a step of a sidecar that leaves can take the handoff of the one that runs, and
\* only after it had loaded its own.
LEMMA FileIsKept ==
    ASSUME ProgramInv, [Next]_vars, at["v4"] = "own", published, file = epoch["v4"],
           file' # file
    PROVE  leaving # NoFile /\ leaving.looked /\ leaving.loaded # file
<1>1. WithdrawRemove
  BY CallsLeavePrograms DEF Next, Programs, Expire, vars, Bind, Vanish, Publish, ShutDown,
     WithdrawLoad, sidecar
<1>2. leaving # NoFile /\ leaving.looked
  BY <1>1 DEF WithdrawRemove
<1>3. leaving.loaded = leaving.run /\ leaving.run \in Nat /\ leaving.run < epoch["v4"]
  BY <1>2 DEF ProgramInv, Left
<1>4. epoch["v4"] \in Nat
  <2>1. "v4" \in Addresses
    BY DEF Addresses
  <2> QED
    BY <2>1, LoopbackAssumption DEF ProgramInv
<1> QED
  BY <1>2, <1>3, <1>4

\* However often sidecars start, die and leave, the handoff of the one that runs stays,
\* but for the one race in the code that the property names.
THEOREM HandoffStays == Spec => RunningSidecarIsFound
<1>1. ProgramInv /\ [Next]_vars =>
          [at["v4"] = "own" /\ published /\ file = epoch["v4"] /\ file' # file
              => leaving # NoFile /\ leaving.looked /\ leaving.loaded # file]_vars
  BY FileIsKept
<1> QED
  BY <1>1, ProgramInvariant, PTL DEF Spec, RunningSidecarIsFound

-----------------------------------------------------------------------------
(* What a client tells its caller.                                         *)

\* OutcomesAreTrue of one caller.
Told(c) ==
    LET me == callers[c]
    IN  /\ me.acted <= 1
        /\ me.acted = 1 /\ IsOp(c, "handoff") => me.run = me.epoch
        /\ me.outcome \in {"invalid", "notHosted", "fallback"} => ~Received(c)
        /\ me.outcome = "ok" => me.acted = 1 \/ me.by = "other"
        /\ me.outcome = "rejected" /\ me.by = "own" => me.acted = 0 \/ me.seen = "denied"
        /\ me.outcome \in {"ok", "partial"} /\ me.framing = "chunked" => me.seen # "body"
        /\ me.outcome = "ok" /\ IsOp(c, "authorize") => me.seen = "good"

\* An outcome comes with the end of a call; before it was sent nobody acted on it, and
\* somebody listened where it arrived.
Pending(c) ==
    LET me == callers[c]
    IN  /\ me.run \in Nat /\ me.acted \in {0, 1}
        /\ me.stage # "done" => me.outcome = "none" /\ me.framing = "plain"
        /\ me.stage \in Unsent => me.by = "nobody" /\ me.acted = 0
        /\ me.stage = "handled" => me.by \in {"own", "other"}

TruthInv == \A c \in Callers : Pending(c) /\ Told(c)

\* It is enough to look at the caller that moves.
LEMMA TruthMoves ==
    ASSUME TruthInv, NEW c \in Callers, \A d \in Callers \ {c} : callers'[d] = callers[d],
           Pending(c)', Told(c)'
    PROVE  TruthInv'
<1>1. \A d \in Callers \ {c} : Pending(d)' /\ Told(d)'
  BY DEF TruthInv, Pending, Told, Received, IsOp
<1> QED
  BY <1>1 DEF TruthInv

\* A call that goes on tells nothing.
LEMMA GoesOn ==
    ASSUME TruthInv, NEW c \in Callers, \A d \in Callers \ {c} : callers'[d] = callers[d],
           callers[c].stage # "done", callers'[c].stage \notin {"done", "handled"},
           callers'[c].stage \in Unsent => callers[c].stage \in Unsent,
           callers'[c].op = callers[c].op, callers'[c].run = callers[c].run,
           callers'[c].by = callers[c].by, callers'[c].epoch = callers[c].epoch,
           callers'[c].acted = callers[c].acted, callers'[c].framing = callers[c].framing,
           callers'[c].outcome = callers[c].outcome
    PROVE  TruthInv'
<1>1. Pending(c) /\ Told(c)
  BY DEF TruthInv
<1>2. Pending(c)'
  BY <1>1 DEF Pending
<1>3. Told(c)'
  BY <1>1 DEF Pending, Told, IsOp
<1> QED
  BY <1>2, <1>3, TruthMoves

\* What an outcome says when it says nothing of what happened.
Failures == {"timeout", "error", "transport", "answered", "unverified"}

\* A call that fails, is cut off or is answered by whoever it was tells no more than
\* that; it falls back only when it was not sent.
LEMMA Ends ==
    ASSUME TruthInv, NEW c \in Callers, \A d \in Callers \ {c} : callers'[d] = callers[d],
           callers[c].stage # "done", callers'[c].stage = "done",
           callers'[c].op = callers[c].op, callers'[c].run = callers[c].run,
           callers'[c].by = callers[c].by, callers'[c].epoch = callers[c].epoch,
           callers'[c].acted = callers[c].acted,
           \/ callers'[c].outcome \in Failures
           \/ callers'[c].outcome \in {"fallback", "invalid"} /\ callers[c].stage \in Unsent
    PROVE  TruthInv'
<1>1. Pending(c) /\ Told(c)
  BY DEF TruthInv
<1>2. Pending(c)'
  BY <1>1 DEF Pending, Unsent
<1>3. Told(c)'
  BY <1>1 DEF Pending, Told, IsOp, Received, Failures
<1> QED
  BY <1>2, <1>3, TruthMoves

\* A caller that enters has sent nothing, and knows only its own refusals.
LEMMA EnterTells ==
    ASSUME Shaped, ProgramInv, TruthInv, NEW c \in Callers, NEW op, Enter(c, op)
    PROVE  TruthInv'
<1> DEFINE r == Entered(op)
<1>1. /\ r = [op |-> r.op, stage |-> r.stage, run |-> r.run, by |-> r.by, addr |-> r.addr,
              epoch |-> r.epoch, acted |-> r.acted, vouch |-> r.vouch, seen |-> r.seen,
              framing |-> r.framing, outcome |-> r.outcome]
      /\ r.by = "nobody" /\ r.acted = 0 /\ r.framing = "plain" /\ r.stage # "handled"
      /\ r.stage # "done" => r.outcome = "none"
      /\ r.outcome \in {"none", "invalid", "notHosted", "fallback"}
  BY DEF Entered, Idle, Early
<1>2. r.run \in Nat
  BY DEF Entered, Idle, ProgramInv
<1>3. callers' = [callers EXCEPT ![c] = r]
  BY DEF Enter
<1> HIDE DEF r
<1>4. callers'[c] = r /\ \A d \in Callers \ {c} : callers'[d] = callers[d]
  BY <1>1, <1>3, Replaced
<1>5. Pending(c)'
  BY <1>1, <1>2, <1>4 DEF Pending
<1>6. Told(c)'
  BY <1>1, <1>2, <1>4 DEF Told, Received
<1> QED
  BY <1>4, <1>5, <1>6, TruthMoves

\* A request that arrives is acted on once, and through the handoff only by the run
\* that published the token.
LEMMA ArriveTells ==
    ASSUME Shaped, ProgramInv, TruthInv, NEW c \in Callers, NEW a \in Addresses, Arrive(c, a)
    PROVE  TruthInv'
<1>1. Pending(c) /\ Told(c) /\ callers[c].stage = "sent"
  BY DEF TruthInv, Arrive, In
<1>2. callers[c].run \in Nat /\ callers[c].acted = 0 /\ callers[c].outcome = "none"
      /\ callers[c].framing = "plain"
  BY <1>1 DEF Pending, Unsent
<1>3. CASE at[a] = "nobody"
  <2>1. PICK outcome \in {"error", "transport"} : Finish(c, outcome)
    BY <1>3 DEF Arrive
  <2> QED
    BY <1>1, <2>1, FinishWrites, Ends DEF Failures
<1>4. CASE at[a] # "nobody"
  <2>1. PICK acts \in BOOLEAN :
            callers' = [callers EXCEPT ![c].stage = "handled", ![c].by = at[a],
                ![c].addr = a, ![c].epoch = epoch[a],
                ![c].acted = IF at[a] = "own" /\ Accepts(callers[c].op, callers[c].run, acts)
                             THEN @ + 1 ELSE @]
    BY <1>4 DEF Arrive
  <2> DEFINE acted == IF at[a] = "own" /\ Accepts(callers[c].op, callers[c].run, acts)
                      THEN callers[c].acted + 1 ELSE callers[c].acted
  <2>2. Lands(c, at[a], a, epoch[a], acted)
    <3>1. DOMAIN callers = Callers
      BY DEF Shaped
    <3> QED
      BY <2>1, <3>1, Zenon DEF Lands
  <2>3. acted \in {0, 1}
    BY <1>2
  <2>4. acted = 1 /\ IsOp(c, "handoff") => callers[c].run = epoch[a]
    <3> SUFFICES ASSUME acted = 1, IsOp(c, "handoff") PROVE callers[c].run = epoch[a]
      OBVIOUS
    <3>1. Accepts(callers[c].op, callers[c].run, acts)
      BY <1>2
    <3>2. TokenOk(callers[c].run, epoch["v4"]) \/ TokenOk(callers[c].run, ExtToken)
      BY <3>1 DEF Accepts, IsOp, Authorize
    <3>3. callers[c].run = epoch["v4"]
      BY <1>2, <3>2, HandoffAssumption DEF TokenOk
    <3>4. a = "v4"
      BY DEF Arrive, IsOp, Target, HostKinds, Clients
    <3> QED
      BY <3>3, <3>4
  <2> HIDE DEF acted
  <2>5. /\ callers'[c].op = callers[c].op /\ callers'[c].run = callers[c].run
        /\ callers'[c].stage = "handled" /\ callers'[c].by = at[a]
        /\ callers'[c].epoch = epoch[a] /\ callers'[c].acted = acted
        /\ callers'[c].outcome = "none" /\ callers'[c].framing = "plain"
        /\ \A d \in Callers \ {c} : callers'[d] = callers[d]
    BY <1>2, <2>2, ArriveWrites
  <2>6. Pending(c)'
    BY <1>2, <1>4, <2>3, <2>5 DEF Pending, ProgramInv, Unsent
  <2>7. Told(c)'
    BY <2>3, <2>4, <2>5 DEF Told, IsOp
  <2> QED
    BY <2>5, <2>6, <2>7, TruthMoves
<1> QED
  BY <1>3, <1>4

\* What Core's clients make of a response.
LEMMA OutcomeMeans ==
    ASSUME NEW kind \in HostKinds, NEW r \in Responses
    PROVE  LET outcome == Outcome(kind, r)
           IN  /\ outcome \in {"ok", "rejected", "transport", "streaming"}
               /\ outcome \in {"ok", "streaming"} => r.status = "2xx"
               /\ outcome = "rejected" => r.status # "2xx" \/ r.body = "denied"
               /\ outcome = "ok" /\ kind = "authorize" => r.body = "good"
<1>1. r.body \in Bodies
  BY DEF Responses
<1>2. CASE kind \in {"emit", "usage", "status", "call"}
  <2>1. Clients[kind].reads = Parses
    BY <1>2 DEF Clients, EventEmitter, UsageReporter, ProviderStatus, ProviderCall
  <2> QED
    BY <1>1, <1>2, <2>1 DEF Outcome, Parses, Bodies
<1>3. CASE kind = "publish"
  BY <1>1, <1>3 DEF Outcome, Clients, ApplicationRoomPublisher, Ignores
<1>4. CASE kind = "authorize"
  BY <1>1, <1>4 DEF Outcome, Clients, AuthorizeAgent, Parses, Bodies
<1>5. CASE kind = "stream"
  BY <1>1, <1>5 DEF Outcome, Clients, ModelStreamClient
<1> QED
  BY <1>2, <1>3, <1>4, <1>5 DEF HostKinds, Clients

\* The answer of Core, or of who took its port.
LEMMA HostReturnTells ==
    ASSUME Shaped, TruthInv, NEW c \in Callers, In(c, "handled"),
           callers[c].op.kind \in HostKinds, HostReturns(c)
    PROVE  TruthInv'
<1>1. Pending(c) /\ Told(c) /\ callers[c].stage = "handled"
  BY DEF TruthInv, In
<1>2. CASE Finish(c, "transport")
  BY <1>1, <1>2, FinishWrites, Ends DEF Failures
<1>3. CASE Step(c, "streaming")
  BY <1>1, <1>3, StepWrites, GoesOn DEF Unsent
<1>4. ASSUME NEW r \in HostResponses(c),
             Outcome(callers[c].op.kind, r) # "streaming",
             callers' = [callers EXCEPT ![c].stage = "done",
                 ![c].outcome = Outcome(callers[c].op.kind, r), ![c].seen = r.body]
      PROVE  TruthInv'
  <2>0. PICK outcome, body : outcome = Outcome(callers[c].op.kind, r) /\ body = r.body
    OBVIOUS
  <2>1. r \in Responses /\ (callers[c].by = "own" => (r.status = "2xx" <=> callers[c].acted > 0))
    BY DEF HostResponses
  <2>2. /\ outcome \in {"ok", "rejected", "transport"}
        /\ outcome = "ok" => r.status = "2xx"
        /\ outcome = "rejected" => r.status # "2xx" \/ body = "denied"
        /\ outcome = "ok" /\ callers[c].op.kind = "authorize" => body = "good"
    BY <1>4, <2>0, <2>1, OutcomeMeans
  <2>3. Hears(c, outcome, body)
    BY <1>4, <2>0 DEF Hears
  <2>4. /\ callers'[c].op = callers[c].op /\ callers'[c].stage = "done"
        /\ callers'[c].by = callers[c].by /\ callers'[c].seen = body
        /\ callers'[c].outcome = outcome
        /\ callers'[c].run = callers[c].run /\ callers'[c].epoch = callers[c].epoch
        /\ callers'[c].vouch = callers[c].vouch
        /\ callers'[c].acted = callers[c].acted /\ callers'[c].framing = callers[c].framing
        /\ \A d \in Callers \ {c} : callers'[d] = callers[d]
    BY <2>3, HostReturnWrites
  <2>5. Pending(c)'
    BY <1>1, <2>4 DEF Pending, Unsent
  <2>6. callers[c].op.kind # "handoff"
    BY DEF HostKinds, Clients
  <2>7. callers[c].by = "own" => (r.status = "2xx" <=> callers[c].acted = 1)
    BY <1>1, <2>1 DEF Pending
  <2>8. Told(c)'
    BY <1>1, <2>2, <2>4, <2>6, <2>7 DEF Pending, Told, IsOp
  <2> QED
    BY <2>4, <2>5, <2>8, TruthMoves
<1> QED
  BY <1>2, <1>3, <1>4 DEF HostReturns

\* The answer of a sidecar, or of who took its port.
LEMMA SidecarReturnTells ==
    ASSUME Shaped, TruthInv, NEW c \in Callers, In(c, "handled"), IsOp(c, "handoff"),
           SidecarReturns(c)
    PROVE  TruthInv'
<1>1. Pending(c) /\ Told(c) /\ callers[c].stage = "handled"
  BY DEF TruthInv, In
<1>2. PICK framing \in Framings, cut \in Cuts, status \in {"2xx", "other"} :
          /\ callers[c].by = "own" => (status = "2xx" <=> callers[c].acted > 0)
          /\ callers' = [callers EXCEPT ![c].stage = "done", ![c].framing = framing,
                ![c].seen = cut,
                ![c].outcome = CallOutcome(SidecarResponse(status, framing, cut))]
  BY DEF SidecarReturns
<1>0. PICK outcome : outcome = CallOutcome(SidecarResponse(status, framing, cut))
  OBVIOUS
<1>3. /\ outcome \in {"ok", "partial", "error"}
      /\ outcome = "ok" => status = "2xx"
      /\ outcome \in {"ok", "partial"} /\ framing = "chunked" => cut # "body"
  BY <1>0 DEF CallOutcome, Parsed, SidecarResponse
<1>4. HearsSidecar(c, framing, cut, outcome)
  BY <1>0, <1>2 DEF HearsSidecar
<1>5. /\ callers'[c].op = callers[c].op /\ callers'[c].stage = "done"
      /\ callers'[c].by = callers[c].by /\ callers'[c].seen = cut
      /\ callers'[c].outcome = outcome
      /\ callers'[c].run = callers[c].run /\ callers'[c].epoch = callers[c].epoch
      /\ callers'[c].vouch = callers[c].vouch
      /\ callers'[c].acted = callers[c].acted /\ callers'[c].framing = framing
      /\ \A d \in Callers \ {c} : callers'[d] = callers[d]
  BY <1>4, SidecarReturnWrites
<1>6. Pending(c)'
  BY <1>1, <1>5 DEF Pending, Unsent
<1>7. callers[c].by = "own" => (status = "2xx" <=> callers[c].acted = 1)
  BY <1>1, <1>2 DEF Pending
<1>8. callers[c].op.kind # "authorize"
  BY DEF IsOp
<1>9. Told(c)'
  BY <1>1, <1>3, <1>5, <1>7, <1>8 DEF Pending, Told, IsOp
<1> QED
  BY <1>5, <1>6, <1>9, TruthMoves

\* Every step of a call tells the truth: one step of the proof per action.
LEMMA CallTells ==
    ASSUME Shaped, ProgramInv, TruthInv, NEW c \in Callers, Calling(c)
    PROVE  TruthInv'
<1>1. CASE Health(c)
  <2>1. callers[c].stage = "finding"
    BY <1>1 DEF Health, In
  <2>2. CASE Finish(c, "fallback")
    BY <2>1, <2>2, FinishWrites, Ends DEF Unsent
  <2>3. CASE Step(c, "sent")
    BY <2>1, <2>3, StepWrites, GoesOn DEF Unsent
  <2> QED
    BY <1>1, <2>2, <2>3 DEF Health
<1>2. CASE Timeout(c)
  <2>1. callers[c].stage \in {"finding", "sent", "handled"}
    BY <1>2 DEF Timeout, TimesOut
  <2>2. CASE In(c, "finding")
    <3>1. Finish(c, "fallback")
      BY <1>2, <2>2 DEF Timeout
    <3> QED
      BY <2>2, <3>1, FinishWrites, Ends DEF In, Unsent
  <2>3. CASE ~In(c, "finding")
    <3>1. Finish(c, "timeout")
      BY <1>2, <2>3 DEF Timeout
    <3> QED
      BY <2>1, <3>1, FinishWrites, Ends DEF Failures
  <2> QED
    BY <2>2, <2>3
<1>3. CASE Check(c)
  <2>1. callers[c].stage = "checking"
    BY <1>3 DEF Check, In
  <2>2. CASE Finish(c, "invalid")
    BY <2>1, <2>2, FinishWrites, Ends DEF Unsent
  <2>3. ASSUME NEW stage \in {"cleared", "probing"}, NEW program, Checks(c, stage, program)
        PROVE  TruthInv'
    BY <2>1, <2>3, CheckWrites, GoesOn DEF Unsent
  <2>4. \/ Finish(c, "invalid")
        \/ \E stage \in {"cleared", "probing"}, program \in {prover, 0} :
              Checks(c, stage, program)
    BY <1>3 DEF Check, Checks
  <2> QED
    BY <2>2, <2>3, <2>4
<1>4. CASE ProbeTimeout(c) \/ \E a \in Addresses : Probe(c, a)
  <2>1. PICK program, verdict : Probes(c, program, verdict)
    <3>1. CASE ProbeTimeout(c)
      BY <3>1 DEF ProbeTimeout, Probes
    <3>2. ASSUME NEW a \in Addresses, Probe(c, a)
          PROVE  \E program, verdict : Probes(c, program, verdict)
      BY <3>2 DEF Probe, Probes
    <3> QED
      BY <1>4, <3>1, <3>2
  <2>2. callers[c].stage = "probing"
    BY <1>4 DEF ProbeTimeout, Probe, In
  <2> QED
    BY <2>1, <2>2, ProbeWrites, GoesOn DEF Unsent
<1>5. CASE Conclude(c)
  <2>1. callers[c].stage = "probed"
    BY <1>5 DEF Conclude, In
  <2>2. CASE Step(c, "cleared")
    BY <2>1, <2>2, StepWrites, GoesOn DEF Unsent
  <2>3. CASE Finish(c, "unverified")
    BY <2>1, <2>3, FinishWrites, Ends DEF Failures
  <2> QED
    BY <1>5, <2>2, <2>3 DEF Conclude
<1>6. CASE Execute(c)
  <2>1. callers[c].stage = "cleared"
    BY <1>6 DEF Execute, In
  <2>2. CASE Step(c, "sent")
    BY <2>1, <2>2, StepWrites, GoesOn DEF Unsent
  <2>3. CASE Finish(c, "invalid")
    BY <2>1, <2>3, FinishWrites, Ends DEF Unsent
  <2> QED
    BY <1>6, <2>2, <2>3 DEF Execute
<1>7. CASE \E a \in Addresses : Arrive(c, a)
  BY <1>7, ArriveTells
<1>8. CASE Return(c)
  <2>1. In(c, "handled")
    BY <1>8 DEF Return
  <2>2. CASE callers[c].op.kind \in HostKinds
    BY <1>8, <2>1, <2>2, HostReturnTells DEF Return
  <2>3. CASE callers[c].op.kind \notin HostKinds /\ IsOp(c, "handoff")
    BY <1>8, <2>1, <2>3, SidecarReturnTells DEF Return
  <2>4. CASE callers[c].op.kind \notin HostKinds /\ ~IsOp(c, "handoff")
    <3>1. PICK outcome \in {"answered", "transport"} : Finish(c, outcome)
      BY <1>8, <2>4 DEF Return, VerifiedReturns
    <3> QED
      BY <2>1, <3>1, FinishWrites, Ends DEF Failures, In
  <2> QED
    BY <2>2, <2>3, <2>4
<1>9. CASE Frame(c) \/ EndStream(c) \/ \E n \in 1 .. MaxChunk : Chunk(c, n)
  <2>1. callers' = callers
    BY <1>9 DEF Frame, EndStream, Chunk
  <2> QED
    BY <2>1 DEF TruthInv, Pending, Told, Received, IsOp
<1>10. CASE CloseStream(c)
  BY <1>10, FinishWrites, Ends DEF CloseStream, In, Failures
<1> QED
  BY <1>1, <1>2, <1>3, <1>4, <1>5, <1>6, <1>7, <1>8, <1>9, <1>10
     DEF Calling, Verifying, Streaming

\* Every step keeps what the calls may claim.
LEMMA TruthHolds == ProofInv /\ ProgramInv /\ TruthInv /\ [Next]_vars => TruthInv'
<1> SUFFICES ASSUME ProofInv, ProgramInv, TruthInv, [Next]_vars PROVE TruthInv'
  OBVIOUS
<1>1. Shaped /\ process.callers \subseteq Callers
  BY LoopbackAssumption DEF ProofInv
<1>2. CASE Programs \/ Expire \/ UNCHANGED vars
  <2>1. callers' = callers
    BY <1>2 DEF Programs, Vanish, Bind, Publish, ShutDown, WithdrawLoad, WithdrawRemove,
                Expire, vars
  <2> QED
    BY <2>1 DEF TruthInv, Pending, Told, Received, IsOp
<1> QED
  BY <1>1, <1>2, EnterTells, CallTells DEF Next

\* A call that has not begun claims nothing.
LEMMA TruthBegins == Init => TruthInv
  BY DEF Init, TruthInv, Pending, Told, Received, IsOp, Idle

\* Whatever the programs behind the addresses do, an outcome is what happened: for any
\* number of callers, processes and programs.
THEOREM OutcomesHold == Spec => []OutcomesAreTrue
<1>1. TruthInv => OutcomesAreTrue
  BY DEF TruthInv, Told, OutcomesAreTrue
<1> QED
  BY <1>1, TruthBegins, TruthHolds, ProofInvariant, ProgramInvariant, PTL DEF Spec

-----------------------------------------------------------------------------
(* What the tokens of a wire mean.                                         *)
\* The frame that begins at k ends before the end of the wire, and is the only one.
LEMMA FrameEnds ==
    ASSUME NEW wire \in Seq(Tokens), NEW k \in 1 .. Len(wire) + 1
    PROVE  /\ \A to \in FrameAt(wire, k) : to \in k .. Len(wire) - 1
           /\ \A to, other \in FrameAt(wire, k) : to = other
<1>1. Len(wire) \in Nat
  BY LenProperties
<1>2. \A to \in FrameAt(wire, k) : to \in k .. Len(wire) - 1
  BY <1>1 DEF FrameAt
<1>3. ASSUME NEW to \in FrameAt(wire, k), NEW other \in FrameAt(wire, k), to < other
      PROVE  FALSE
  <2>1. to \in k .. other - 1
    BY <1>1, <1>2, <1>3
  <2> QED
    BY <2>1 DEF FrameAt
<1>4. \A to, other \in FrameAt(wire, k) : to = other
  <2>1. SUFFICES ASSUME NEW to \in FrameAt(wire, k), NEW other \in FrameAt(wire, k),
                        to # other
                 PROVE  FALSE
    OBVIOUS
  <2>2. to \in Int /\ other \in Int
    BY <1>1, <1>2
  <2> QED
    BY <1>3, <2>1, <2>2
<1> QED
  BY <1>2, <1>4

\* The events from a token on depend on the events from later tokens alone.
LEMMA MeansLater ==
    ASSUME NEW wire \in Seq(Tokens), NEW k \in 1 .. Len(wire) + 1, NEW f, NEW g,
           \A j \in k + 1 .. Len(wire) + 1 : f[j] = g[j]
    PROVE  Means(wire, f, k) = Means(wire, g, k)
<1>1. Len(wire) \in Nat
  BY LenProperties
<1>2. CASE FrameAt(wire, k) = {}
  BY <1>2 DEF Means
<1>3. CASE FrameAt(wire, k) # {}
  <2> DEFINE to == CHOOSE i \in FrameAt(wire, k) : TRUE
  <2>1. to \in FrameAt(wire, k)
    BY <1>3
  <2>2. to + 2 \in k + 1 .. Len(wire) + 1
    <3> HIDE DEF to
    <3>1. to \in k .. Len(wire) - 1
      BY <2>1, FrameEnds
    <3> QED
      BY <1>1, <3>1
  <2>3. f[to + 2] = g[to + 2]
    BY <2>2
  <2> QED
    BY <1>3, <2>3, Zenon DEF Means
<1> QED
  BY <1>2, <1>3

\* So there is a function that meets the equation of MeantFrom: from the last token
\* down to the first.
LEMMA MeantExists ==
    ASSUME NEW wire \in Seq(Tokens)
    PROVE  \E f : f = [k \in 1 .. Len(wire) + 1 |-> Means(wire, f, k)]
<1> DEFINE L == Len(wire)
           Ok(n) == \E f : f = [k \in L + 1 - n .. L + 1 |-> Means(wire, f, k)]
           Bad == {n \in 0 .. L : ~Ok(n)}
<1>1. L \in Nat
  BY LenProperties
<1>2. Ok(0)
  <2> DEFINE f == [k \in L + 1 .. L + 1 |-> Means(wire, <<>>, k)]
  <2>1. \A k \in L + 1 .. L + 1 : FrameAt(wire, k) = {}
    BY <1>1 DEF FrameAt
  <2>2. \A k \in L + 1 .. L + 1 : Means(wire, f, k) = Means(wire, <<>>, k)
    BY <2>1 DEF Means
  <2>3. f = [k \in L + 1 .. L + 1 |-> Means(wire, f, k)]
    BY <2>2, Zenon
  <2>4. L + 1 - 0 = L + 1
    BY <1>1
  <2> HIDE DEF f
  <2> QED
    BY <2>3, <2>4, Zenon
<1>3. ASSUME NEW n \in 1 .. L, Ok(n - 1) PROVE Ok(n)
  <2> DEFINE low == L + 1 - n
             Later == L + 1 - (n - 1) .. L + 1
  <2>1. PICK f : f = [k \in Later |-> Means(wire, f, k)]
    BY <1>3
  <2> DEFINE g == [k \in low .. L + 1 |-> IF k = low THEN Means(wire, f, k) ELSE f[k]]
  <2>2. /\ low \in 1 .. L /\ Later = low + 1 .. L + 1
    BY <1>1
  <2>3. \A j \in Later : g[j] = f[j]
    BY <2>2
  <2>4. ASSUME NEW k \in low .. L + 1 PROVE Means(wire, g, k) = Means(wire, f, k)
    <3>1. k \in 1 .. Len(wire) + 1 /\ \A j \in k + 1 .. Len(wire) + 1 : j \in Later
      BY <1>1, <2>2
    <3> HIDE DEF g, Later
    <3>2. \A j \in k + 1 .. Len(wire) + 1 : g[j] = f[j]
      BY <2>3, <3>1
    <3> QED
      BY <3>1, <3>2, MeansLater
  <2>5. ASSUME NEW k \in low .. L + 1 PROVE g[k] = Means(wire, f, k)
    <3>1. CASE k = low
      BY <3>1
    <3>2. CASE k # low
      <4>1. k \in Later
        BY <1>1, <2>2, <3>2
      <4>2. f[k] = Means(wire, f, k)
        BY <2>1, <4>1
      <4> QED
        BY <3>2, <4>2
    <3> QED
      BY <3>1, <3>2
  <2>6. g = [k \in low .. L + 1 |-> g[k]]
    OBVIOUS
  <2> HIDE DEF g
  <2>7. \A k \in low .. L + 1 : g[k] = Means(wire, g, k)
    BY <2>4, <2>5
  <2>8. g = [k \in low .. L + 1 |-> Means(wire, g, k)]
    BY <2>6, <2>7
  <2> QED
    BY <2>8
<1>4. Bad = {}
  <2>1. SUFFICES ASSUME Bad # {} PROVE FALSE
    OBVIOUS
  <2>2. Bad \in SUBSET Nat
    BY <1>1
  <2>3. PICK n \in Bad : \A m \in Bad : n <= m
    <3> HIDE DEF Bad
    <3> QED
      BY <2>1, <2>2, LeastNatural
  <2>4. n \in 0 .. L /\ ~Ok(n)
    BY <2>3
  <2>5. n # 0
    BY <1>2, <2>4
  <2>6. n \in 1 .. L /\ n - 1 \in 0 .. L
    BY <1>1, <2>4, <2>5
  <2>7. n - 1 \notin Bad
    <3> HIDE DEF Bad
    <3> QED
      BY <2>3, <2>6
  <2>8. Ok(n - 1)
    BY <2>6, <2>7
  <2> QED
    BY <1>3, <2>4, <2>6, <2>8
<1>5. Ok(L)
  <2>1. L \in 0 .. L
    BY <1>1
  <2> QED
    BY <1>4, <2>1
<1>6. L + 1 - L = 1
  BY <1>1
<1> QED
  BY <1>5, <1>6

\* The events of a wire meet their equation.
LEMMA MeantFromMeans ==
    ASSUME NEW wire \in Seq(Tokens)
    PROVE  \A k \in 1 .. Len(wire) + 1 :
               MeantFrom(wire)[k] = Means(wire, MeantFrom(wire), k)
<1> DEFINE f == MeantFrom(wire)
<1>1. f = [k \in 1 .. Len(wire) + 1 |-> Means(wire, f, k)]
  BY MeantExists DEF MeantFrom
<1> HIDE DEF f
<1>2. \A k \in 1 .. Len(wire) + 1 : f[k] = Means(wire, f, k)
  BY <1>1
<1> QED
  BY <1>2 DEF f

Item == Events \union Errors

\* A frame means an item of the stream, or nothing.
LEMMA ParseTyped ==
    ASSUME NEW frame \in Seq(Tokens)
    PROVE  Parse(frame) \in Item \union {"none"}
<1>1. FirstData(frame) \in Data
  <2>1. CASE DataLines(frame) = {}
    BY <2>1 DEF FirstData, Data
  <2>2. CASE DataLines(frame) # {}
    <3>1. DataLines(frame) \in SUBSET Nat
      BY LenProperties DEF DataLines
    <3>2. \E i \in DataLines(frame) : \A j \in DataLines(frame) : i <= j
      BY <2>2, <3>1, LeastNatural
    <3>3. PICK i \in DataLines(frame) : FirstData(frame) = frame[i]
      <4> DEFINE i == CHOOSE i \in DataLines(frame) : \A j \in DataLines(frame) : i <= j
      <4>1. i \in DataLines(frame)
        BY <3>2
      <4>2. FirstData(frame) = frame[i]
        BY <2>2 DEF FirstData
      <4> QED
        BY <4>1, <4>2
    <3> QED
      BY <3>3 DEF DataLines
  <2> QED
    BY <2>1, <2>2
<1> DEFINE first == FirstData(frame)
<1>2. Meaning.delta = "textDelta" /\ Meaning.completed = "completed"
      /\ Meaning.failed = "failed" /\ Meaning.error = "failed"
      /\ Meaning.notJson = "protocol" /\ Meaning.unknown = "none" /\ Meaning.blank = "none"
  BY DEF Meaning
<1>3. first # "[DONE]" => Meaning[first] \in Item \union {"none"}
  BY <1>1 DEF Meaning, Data, Item, Events, Errors
<1> QED
  BY <1>3 DEF Parse, Item, Events, Errors

\* A part of a wire, token by token.
LEMMA PartOfWire ==
    ASSUME NEW wire \in Seq(Tokens), NEW i \in 1 .. Len(wire) + 1, NEW j \in 0 .. Len(wire)
    PROVE  /\ SubSeq(wire, i, j) \in Seq(Tokens)
           /\ Len(SubSeq(wire, i, j)) = IF i <= j THEN j - i + 1 ELSE 0
           /\ \A k \in 1 .. j - i + 1 : SubSeq(wire, i, j)[k] = wire[i + k - 1]
<1>1. Len(wire) \in Nat /\ \A k \in i .. j : wire[k] \in Tokens
  BY LenProperties, ElementOfSeq
<1> QED
  BY <1>1, SubSeqProperties

\* What a wire means is a sequence of items.
LEMMA MeantTyped ==
    ASSUME NEW wire \in Seq(Tokens)
    PROVE  \A k \in 1 .. Len(wire) + 1 : MeantFrom(wire)[k] \in Seq(Item)
<1> DEFINE f == MeantFrom(wire)
           L == Len(wire)
           Bad == {n \in 0 .. L : f[L + 1 - n] \notin Seq(Item)}
<1>0. L \in Nat
  BY LenProperties
<1>1. \A k \in 1 .. L + 1 : f[k] = Means(wire, f, k)
  BY MeantFromMeans
<1> HIDE DEF f
<1>2. ASSUME NEW k \in 1 .. L + 1, \A j \in k + 1 .. L + 1 : f[j] \in Seq(Item)
      PROVE  f[k] \in Seq(Item)
  <2>1. CASE FrameAt(wire, k) = {}
    <3>1. f[k] = <<>>
      BY <1>1, <2>1 DEF Means
    <3> QED
      BY <3>1, EmptySeq
  <2>2. CASE FrameAt(wire, k) # {}
    <3> DEFINE to == CHOOSE i \in FrameAt(wire, k) : TRUE
               item == Parse(SubSeq(wire, k, to - 1))
    <3>1. to \in FrameAt(wire, k)
      BY <2>2
    <3>2. f[k] = IF item = "none" THEN f[to + 2]
                 ELSE IF item \in Terminal THEN <<item>> ELSE <<item>> \o f[to + 2]
      BY <1>1, <2>2, Zenon DEF Means
    <3> HIDE DEF to
    <3>3. to \in k .. L - 1
      BY <3>1, FrameEnds
    <3>4. SubSeq(wire, k, to - 1) \in Seq(Tokens)
      BY <1>0, <3>3, PartOfWire
    <3>5. item \in Item \union {"none"}
      BY <3>4, ParseTyped
    <3>6. f[to + 2] \in Seq(Item)
      BY <1>0, <1>2, <3>3
    <3> HIDE DEF item
    <3>7. item # "none" => <<item>> \in Seq(Item)
      BY <3>5
    <3> QED
      BY <3>2, <3>6, <3>7, ConcatProperties
  <2> QED
    BY <2>1, <2>2
<1>3. Bad = {}
  <2>1. SUFFICES ASSUME Bad # {} PROVE FALSE
    OBVIOUS
  <2>2. Bad \in SUBSET Nat
    BY <1>0
  <2>3. PICK n \in Bad : \A m \in Bad : n <= m
    <3> HIDE DEF Bad
    <3> QED
      BY <2>1, <2>2, LeastNatural
  <2>4. n \in 0 .. L /\ f[L + 1 - n] \notin Seq(Item)
    BY <2>3
  <2>5. ASSUME NEW j \in (L + 1 - n) + 1 .. L + 1 PROVE f[j] \in Seq(Item)
    <3>1. L + 1 - j \in 0 .. L /\ L + 1 - j < n /\ L + 1 - (L + 1 - j) = j
      BY <1>0, <2>4
    <3>2. L + 1 - j \notin Bad
      <4> HIDE DEF Bad
      <4>1. L + 1 - j \in Int /\ n \in Int
        BY <2>4, <3>1
      <4> QED
        BY <2>3, <3>1, <4>1
    <3> QED
      BY <3>1, <3>2
  <2>6. L + 1 - n \in 1 .. L + 1
    BY <1>0, <2>4
  <2> QED
    BY <1>2, <2>4, <2>5, <2>6
<1>4. SUFFICES ASSUME NEW k \in 1 .. L + 1 PROVE f[k] \in Seq(Item)
  BY DEF f
<1>5. L + 1 - k \in 0 .. L /\ L + 1 - (L + 1 - k) = k
  BY <1>0
<1> QED
  BY <1>3, <1>5

\* The first boundary of a buffer is one.
LEMMA BoundaryIsFirst ==
    ASSUME NEW buffer \in Seq(Tokens), Boundaries(buffer) # {}
    PROVE  /\ Boundary(buffer) \in Boundaries(buffer)
           /\ \A j \in Boundaries(buffer) : Boundary(buffer) <= j
<1>1. Boundaries(buffer) \in SUBSET Nat
  BY LenProperties DEF Boundaries
<1>2. \E i \in Boundaries(buffer) : \A j \in Boundaries(buffer) : i <= j
  BY <1>1, LeastNatural
<1> QED
  BY <1>2, Zenon DEF Boundary

\* The prefix that arrived and what of it is in the buffer, token by token.
LEMMA PrefixAndBuffer ==
    ASSUME NEW wire \in Seq(Tokens), NEW taken \in 0 .. Len(wire),
           NEW m \in taken .. Len(wire), NEW p \in 1 .. taken + 1
    PROVE  /\ SubSeq(wire, 1, m) \in Seq(Tokens) /\ Len(SubSeq(wire, 1, m)) = m
           /\ \A k \in 1 .. m : SubSeq(wire, 1, m)[k] = wire[k]
           /\ SubSeq(wire, p, taken) \in Seq(Tokens)
           /\ Len(SubSeq(wire, p, taken)) = taken - p + 1
           /\ \A k \in 1 .. taken - p + 1 : SubSeq(wire, p, taken)[k] = wire[p + k - 1]
<1>1. Len(wire) \in Nat
  BY LenProperties
<1>2. m \in 0 .. Len(wire) /\ p \in 1 .. Len(wire) + 1 /\ 1 \in 1 .. Len(wire) + 1
  BY <1>1
<1>3. /\ SubSeq(wire, 1, m) \in Seq(Tokens)
      /\ Len(SubSeq(wire, 1, m)) = IF 1 <= m THEN m - 1 + 1 ELSE 0
      /\ \A k \in 1 .. m - 1 + 1 : SubSeq(wire, 1, m)[k] = wire[1 + k - 1]
  BY <1>2, PartOfWire
<1>4. /\ SubSeq(wire, p, taken) \in Seq(Tokens)
      /\ Len(SubSeq(wire, p, taken)) = IF p <= taken THEN taken - p + 1 ELSE 0
      /\ \A k \in 1 .. taken - p + 1 : SubSeq(wire, p, taken)[k] = wire[p + k - 1]
  BY <1>2, PartOfWire
<1>5. m - 1 + 1 = m /\ \A k \in 1 .. m : 1 + k - 1 = k
  BY <1>1
<1>6. Len(SubSeq(wire, 1, m)) = m
  BY <1>1, <1>3
<1>7. Len(SubSeq(wire, p, taken)) = taken - p + 1
  BY <1>1, <1>4
<1>8. \A k \in 1 .. m : SubSeq(wire, 1, m)[k] = wire[k]
  BY <1>3, <1>5
<1> QED
  BY <1>3, <1>4, <1>6, <1>7, <1>8

\* A boundary of the buffer ends the same frame in every prefix of the wire that holds
\* the buffer, whatever arrives after it.
LEMMA FrameFound ==
    ASSUME NEW wire \in Seq(Tokens), NEW taken \in 0 .. Len(wire),
           NEW m \in taken .. Len(wire), NEW p \in 1 .. taken + 1,
           Boundaries(SubSeq(wire, p, taken)) # {}
    PROVE  LET buffer == SubSeq(wire, p, taken)
               i == Boundary(buffer)
           IN  /\ i \in 1 .. taken - p
               /\ FrameAt(SubSeq(wire, 1, m), p) = {p + i - 1}
               /\ SubSeq(SubSeq(wire, 1, m), p, p + i - 2) = SubSeq(buffer, 1, i - 1)
               /\ SubSeq(buffer, i + 2, Len(buffer)) = SubSeq(wire, p + i + 1, taken)
<1> DEFINE x == SubSeq(wire, 1, m)
           buffer == SubSeq(wire, p, taken)
           i == Boundary(buffer)
<1>0. Len(wire) \in Nat
  BY LenProperties
<1>1. /\ x \in Seq(Tokens) /\ Len(x) = m
      /\ \A k \in 1 .. m : x[k] = wire[k]
      /\ buffer \in Seq(Tokens) /\ Len(buffer) = taken - p + 1
      /\ \A k \in 1 .. taken - p + 1 : buffer[k] = wire[p + k - 1]
  BY PrefixAndBuffer
<1>2. i \in Boundaries(buffer) /\ \A j \in Boundaries(buffer) : i <= j
  BY <1>1, BoundaryIsFirst
<1> HIDE DEF x, buffer, i
<1>3. i \in 1 .. taken - p /\ buffer[i] = "nl" /\ buffer[i + 1] = "nl"
  BY <1>0, <1>1, <1>2 DEF Boundaries
<1>4. p + i - 1 \in p .. m /\ p + i - 1 < m
  BY <1>0, <1>3
<1>5. x[p + i - 1] = "nl" /\ x[p + i - 1 + 1] = "nl"
  <2>1. /\ p + i - 1 \in 1 .. m /\ p + i - 1 + 1 \in 1 .. m
        /\ i \in 1 .. taken - p + 1 /\ i + 1 \in 1 .. taken - p + 1
        /\ p + (i + 1) - 1 = p + i - 1 + 1
    BY <1>0, <1>3
  <2> QED
    BY <1>1, <1>3, <2>1
<1>6. ASSUME NEW j \in p .. (p + i - 1) - 1, x[j] = "nl", x[j + 1] = "nl" PROVE FALSE
  <2>1. /\ j \in 1 .. m /\ j + 1 \in 1 .. m
        /\ j - p + 1 \in 1 .. taken - p /\ j - p + 1 < i /\ j - p + 1 + 1 \in 1 .. taken - p + 1
        /\ j - p + 1 \in 1 .. taken - p + 1
        /\ p + (j - p + 1) - 1 = j /\ p + (j - p + 1 + 1) - 1 = j + 1
    BY <1>0, <1>3
  <2>2. buffer[j - p + 1] = "nl" /\ buffer[j - p + 1 + 1] = "nl"
    BY <1>1, <1>6, <2>1
  <2>3. j - p + 1 \in 1 .. Len(buffer) - 1
    <3>1. Len(buffer) = taken - p + 1
      BY <1>1
    <3>2. taken - p + 1 - 1 = taken - p
      BY <1>0
    <3> QED
      BY <2>1, <3>1, <3>2
  <2>4. j - p + 1 \in Boundaries(buffer)
    BY <2>2, <2>3 DEF Boundaries
  <2> QED
    BY <1>2, <1>3, <2>1, <2>4
<1>7. p + i - 1 \in FrameAt(x, p)
  BY <1>1, <1>4, <1>5, <1>6 DEF FrameAt
<1>8. FrameAt(x, p) = {p + i - 1}
  <2>1. p \in 1 .. Len(x) + 1
    BY <1>0, <1>1
  <2>2. \A to, other \in FrameAt(x, p) : to = other
    BY <1>1, <2>1, FrameEnds
  <2> QED
    BY <1>7, <2>2
<1>9. SubSeq(x, p, p + i - 2) = SubSeq(buffer, 1, i - 1)
  <2>0. PICK e : e = p + i - 2
    OBVIOUS
  <2> DEFINE s == SubSeq(x, p, e)
             t == SubSeq(buffer, 1, i - 1)
  <2>1. p \in 1 .. Len(x) + 1 /\ e \in 0 .. Len(x)
    BY <1>0, <1>1, <1>3, <2>0
  <2>2. /\ s \in Seq(Tokens)
        /\ Len(s) = IF p <= e THEN e - p + 1 ELSE 0
        /\ \A k \in 1 .. e - p + 1 : s[k] = x[p + k - 1]
    BY <1>1, <2>1, PartOfWire
  <2>3. 1 \in 1 .. Len(buffer) + 1 /\ i - 1 \in 0 .. Len(buffer)
    BY <1>0, <1>1, <1>3
  <2>4. /\ t \in Seq(Tokens)
        /\ Len(t) = IF 1 <= i - 1 THEN i - 1 - 1 + 1 ELSE 0
        /\ \A k \in 1 .. i - 1 - 1 + 1 : t[k] = buffer[1 + k - 1]
    BY <1>1, <2>3, PartOfWire
  <2> HIDE DEF s, t
  <2>5. Len(s) = i - 1 /\ Len(t) = i - 1 /\ e - p + 1 = i - 1 /\ i - 1 - 1 + 1 = i - 1
    BY <1>0, <1>3, <2>0, <2>2, <2>4
  <2>6. ASSUME NEW k \in 1 .. i - 1 PROVE s[k] = t[k]
    <3>1. /\ k \in 1 .. taken - p + 1 /\ p + k - 1 \in 1 .. m /\ 1 + k - 1 = k
      BY <1>0, <1>3
    <3>2. s[k] = x[p + k - 1] /\ t[k] = buffer[1 + k - 1]
      BY <2>2, <2>4, <2>5
    <3>3. x[p + k - 1] = wire[p + k - 1] /\ buffer[k] = wire[p + k - 1]
      BY <1>1, <3>1
    <3> QED
      BY <3>1, <3>2, <3>3
  <2>7. s = t
    BY <2>2, <2>4, <2>5, <2>6, SeqEqual
  <2> QED
    BY <2>0, <2>7 DEF s, t
<1>10. SubSeq(buffer, i + 2, Len(buffer)) = SubSeq(wire, p + i + 1, taken)
  <2> DEFINE s == SubSeq(buffer, i + 2, Len(buffer))
             t == SubSeq(wire, p + i + 1, taken)
  <2>1. i + 2 \in 1 .. Len(buffer) + 1 /\ Len(buffer) \in 0 .. Len(buffer)
    BY <1>0, <1>1, <1>3
  <2>2. /\ s \in Seq(Tokens)
        /\ Len(s) = IF i + 2 <= Len(buffer) THEN Len(buffer) - (i + 2) + 1 ELSE 0
        /\ \A k \in 1 .. Len(buffer) - (i + 2) + 1 : s[k] = buffer[i + 2 + k - 1]
    BY <1>1, <2>1, PartOfWire
  <2>3. p + i + 1 \in 1 .. Len(wire) + 1
    BY <1>0, <1>3
  <2>4. /\ t \in Seq(Tokens)
        /\ Len(t) = IF p + i + 1 <= taken THEN taken - (p + i + 1) + 1 ELSE 0
        /\ \A k \in 1 .. taken - (p + i + 1) + 1 : t[k] = wire[p + i + 1 + k - 1]
    BY <2>3, PartOfWire
  <2> HIDE DEF s, t
  <2> DEFINE n == taken - p - i
  <2>5. Len(s) = n /\ Len(t) = n
        /\ Len(buffer) - (i + 2) + 1 = n /\ taken - (p + i + 1) + 1 = n
    BY <1>0, <1>1, <1>3, <2>2, <2>4
  <2>6. ASSUME NEW k \in 1 .. n PROVE s[k] = t[k]
    <3>1. /\ i + 2 + k - 1 \in 1 .. taken - p + 1
          /\ p + (i + 2 + k - 1) - 1 = p + i + 1 + k - 1
      BY <1>0, <1>3
    <3>2. s[k] = buffer[i + 2 + k - 1] /\ t[k] = wire[p + i + 1 + k - 1]
      BY <2>2, <2>4, <2>5
    <3> QED
      BY <1>1, <3>1, <3>2
  <2>7. s = t
    BY <2>2, <2>4, <2>5, <2>6, SeqEqual
  <2> QED
    BY <2>7 DEF s, t
<1> QED
  BY <1>3, <1>8, <1>9, <1>10 DEF x, buffer, i

\* A buffer without a boundary holds no frame.
LEMMA NoFrameFound ==
    ASSUME NEW wire \in Seq(Tokens), NEW taken \in 0 .. Len(wire), NEW p \in 1 .. taken + 1,
           Boundaries(SubSeq(wire, p, taken)) = {}
    PROVE  FrameAt(SubSeq(wire, 1, taken), p) = {}
<1> DEFINE x == SubSeq(wire, 1, taken)
           buffer == SubSeq(wire, p, taken)
<1>0. Len(wire) \in Nat /\ taken \in taken .. Len(wire)
  BY LenProperties
<1>1. /\ Len(x) = taken /\ \A k \in 1 .. taken : x[k] = wire[k]
      /\ Len(buffer) = taken - p + 1
      /\ \A k \in 1 .. taken - p + 1 : buffer[k] = wire[p + k - 1]
  BY <1>0, PrefixAndBuffer
<1>2. Boundaries(buffer) = {}
  OBVIOUS
<1> HIDE DEF x, buffer
<1>3. SUFFICES ASSUME NEW to \in FrameAt(x, p) PROVE FALSE
  BY DEF x
<1>4. to \in p .. taken - 1 /\ x[to] = "nl" /\ x[to + 1] = "nl"
  BY <1>0, <1>1 DEF FrameAt
<1>5. /\ to \in 1 .. taken /\ to + 1 \in 1 .. taken
      /\ to - p + 1 \in 1 .. taken - p + 1 /\ to - p + 1 + 1 \in 1 .. taken - p + 1
      /\ p + (to - p + 1) - 1 = to /\ p + (to - p + 1 + 1) - 1 = to + 1
  BY <1>0, <1>4
<1>6. buffer[to - p + 1] = "nl" /\ buffer[to - p + 1 + 1] = "nl"
  BY <1>1, <1>4, <1>5
<1>7. to - p + 1 \in 1 .. Len(buffer) - 1
  BY <1>0, <1>1, <1>4
<1>8. to - p + 1 \in Boundaries(buffer)
  BY <1>6, <1>7 DEF Boundaries
<1> QED
  BY <1>2, <1>8

\* What the next frame of the buffer means, in every prefix that holds the buffer.
LEMMA FrameMeans ==
    ASSUME NEW wire \in Seq(Tokens), NEW taken \in 0 .. Len(wire),
           NEW m \in taken .. Len(wire), NEW p \in 1 .. taken + 1,
           Boundaries(SubSeq(wire, p, taken)) # {}
    PROVE  LET buffer == SubSeq(wire, p, taken)
               i == Boundary(buffer)
               item == Parse(SubSeq(buffer, 1, i - 1))
               from == MeantFrom(SubSeq(wire, 1, m))
           IN  from[p] = IF item = "none" THEN from[p + i + 1]
                         ELSE IF item \in Terminal THEN <<item>>
                         ELSE <<item>> \o from[p + i + 1]
<1> DEFINE x == SubSeq(wire, 1, m)
           buffer == SubSeq(wire, p, taken)
           i == Boundary(buffer)
           frame == SubSeq(buffer, 1, i - 1)
           from == MeantFrom(x)
<1>0. Len(wire) \in Nat
  BY LenProperties
<1>1. x \in Seq(Tokens) /\ Len(x) = m
  BY PrefixAndBuffer
<1>2. /\ i \in 1 .. taken - p
      /\ FrameAt(x, p) = {p + i - 1}
      /\ SubSeq(x, p, p + i - 2) = frame
  BY FrameFound
<1> HIDE DEF x, buffer, i, frame
<1>3. p \in 1 .. Len(x) + 1
  BY <1>0, <1>1
<1>4. from[p] = Means(x, from, p)
  BY <1>1, <1>3, MeantFromMeans
<1>5. PICK to : to = p + i - 1
  OBVIOUS
<1>6. /\ FrameAt(x, p) # {} /\ (CHOOSE j \in FrameAt(x, p) : TRUE) = to
      /\ to - 1 = p + i - 2 /\ to + 2 = p + i + 1
  BY <1>0, <1>2, <1>5
<1> DEFINE item == Parse(SubSeq(x, p, to - 1))
<1>7. Means(x, from, p) =
          IF item = "none" THEN from[to + 2]
          ELSE IF item \in Terminal THEN <<item>>
          ELSE <<item>> \o from[to + 2]
  BY <1>6, Zenon DEF Means
<1>8. item = Parse(frame)
  BY <1>2, <1>6
<1> HIDE DEF item
<1>9. Means(x, from, p) =
          IF Parse(frame) = "none" THEN from[p + i + 1]
          ELSE IF Parse(frame) \in Terminal THEN <<Parse(frame)>>
          ELSE <<Parse(frame)>> \o from[p + i + 1]
  BY <1>6, <1>7, <1>8
<1> QED
  BY <1>4, <1>9 DEF x, buffer, i, frame, from

-----------------------------------------------------------------------------
(* A stream, whatever its chunks.                                          *)

\* The record of a stream.
Is(wire, taken, buffer, yields, over) ==
    [wire |-> wire, taken |-> taken, buffer |-> buffer, yields |-> yields, over |-> over]

\* What the steps of the client write.
Buffers(s, buffer) == [s EXCEPT !.buffer = buffer]
Reads(s, buffer, taken) == [s EXCEPT !.buffer = buffer, !.taken = taken]
Says(s, yields, over) == [s EXCEPT !.yields = yields, !.over = over]

\* They change those fields of the record alone.
LEMMA IsWritten ==
    ASSUME NEW wire, NEW taken, NEW buffer, NEW yields, NEW over, NEW s,
           s = Is(wire, taken, buffer, yields, over), NEW new, NEW late
    PROVE  /\ Buffers(s, new) = Is(wire, taken, new, yields, over)
           /\ Reads(s, new, late) = Is(wire, late, new, yields, over)
           /\ Says(s, new, late) = Is(wire, taken, buffer, new, late)
<1> DEFINE b == [s EXCEPT !.buffer = new]
           bt == [b EXCEPT !.taken = late]
           y == [s EXCEPT !.yields = new]
           yo == [y EXCEPT !.over = late]
<1>1. b = Is(wire, taken, new, yields, over) /\ y = Is(wire, taken, buffer, new, over)
  BY DEF Is
<1>2. Reads(s, new, late) = bt /\ Says(s, new, late) = yo /\ Buffers(s, new) = b
  BY DEF Is, Reads, Says, Buffers
<1> HIDE DEF b, y
<1>3. bt = Is(wire, late, new, yields, over)
  BY <1>1 DEF Is
<1>4. yo = Is(wire, taken, buffer, new, late)
  BY <1>1 DEF Is
<1> HIDE DEF bt, yo
<1> QED
  BY <1>1, <1>2, <1>3, <1>4

\* What is in the buffer begins at the p-th token of the wire, and whatever more of
\* the wire arrives, all that it means is what was yielded and what it means from
\* there on.
ReadsFrom(wire, taken, buffer, yields, p) ==
    /\ buffer = SubSeq(wire, p, taken)
    /\ \A m \in taken .. Len(wire) :
          Meant(SubSeq(wire, 1, m)) = yields \o MeantFrom(SubSeq(wire, 1, m))[p]

\* A stream that is over yielded what the wire means, then at most one error.
Complete(wire, taken, yields) ==
    LET meant == Meant(SubSeq(wire, 1, taken))
    IN  yields = meant \/ \E error \in Errors : yields = Append(meant, error)

\* The last item alone is terminal, if one is.
EndsOnce(yields) == \A i \in 1 .. Len(yields) - 1 : yields[i] \notin Terminal
IsEnded(yields) == yields # <<>> /\ yields[Len(yields)] \in Terminal

Sound(s) ==
    /\ s = Is(s.wire, s.taken, s.buffer, s.yields, s.over)
    /\ s.wire \in Seq(Tokens) /\ s.taken \in 0 .. Len(s.wire)
    /\ s.yields \in Seq(Item)
    /\ EndsOnce(s.yields) /\ s.over = IsEnded(s.yields)
    /\ ~s.over => \E p \in 1 .. s.taken + 1 :
                      ReadsFrom(s.wire, s.taken, s.buffer, s.yields, p)
    /\ s.over => Complete(s.wire, s.taken, s.yields)

\* The parts of a meaning have their types.
LEMMA PrefixMeant ==
    ASSUME NEW wire \in Seq(Tokens), NEW m \in 0 .. Len(wire), NEW p \in 1 .. m + 1
    PROVE  MeantFrom(SubSeq(wire, 1, m))[p] \in Seq(Item)
<1>0. Len(wire) \in Nat /\ 1 \in 1 .. Len(wire) + 1 /\ m \in Nat
  BY LenProperties
<1> DEFINE x == SubSeq(wire, 1, m)
<1>1. x \in Seq(Tokens) /\ Len(x) = IF 1 <= m THEN m - 1 + 1 ELSE 0
  BY <1>0, PartOfWire
<1> HIDE DEF x
<1>2. p \in 1 .. Len(x) + 1
  BY <1>0, <1>1
<1>3. MeantFrom(x)[p] \in Seq(Item)
  BY <1>1, <1>2, MeantTyped
<1> QED
  BY <1>3 DEF x

\* A stream that begins.
LEMMA OpenedIsSound ==
    ASSUME NEW wire \in Seq(Tokens)
    PROVE  Sound(Opened(wire))
<1>0. Len(wire) \in Nat /\ 0 \in 0 .. Len(wire) /\ 1 \in 1 .. 0 + 1
  BY LenProperties
<1>1. ReadsFrom(wire, 0, <<>>, <<>>, 1)
  <2>1. SubSeq(wire, 1, 0) = <<>>
    BY SubSeqEmpty
  <2>2. ASSUME NEW m \in 0 .. Len(wire)
        PROVE  Meant(SubSeq(wire, 1, m)) = <<>> \o MeantFrom(SubSeq(wire, 1, m))[1]
    <3>1. 1 \in 1 .. m + 1
      BY <1>0
    <3>2. MeantFrom(SubSeq(wire, 1, m))[1] \in Seq(Item)
      BY <3>1, PrefixMeant
    <3> QED
      BY <3>2, ConcatEmptySeq DEF Meant
  <2> QED
    BY <2>1, <2>2 DEF ReadsFrom
<1>2. <<>> \in Seq(Item) /\ EndsOnce(<<>>) /\ ~IsEnded(<<>>)
  BY DEF EndsOnce, IsEnded
<1>3. \E p \in 1 .. 0 + 1 : ReadsFrom(wire, 0, <<>>, <<>>, p)
  BY <1>0, <1>1
<1> DEFINE new == Opened(wire)
<1>4. /\ new.wire = wire /\ new.taken = 0 /\ new.buffer = <<>> /\ new.yields = <<>>
      /\ new.over = FALSE
      /\ new = Is(new.wire, new.taken, new.buffer, new.yields, new.over)
  BY DEF Opened, Is
<1>5. IsEnded(<<>>) = FALSE
  BY DEF IsEnded
<1> HIDE DEF new
<1>6. Sound(new)
  BY <1>0, <1>2, <1>3, <1>4, <1>5 DEF Sound
<1> QED
  BY <1>6 DEF new

\* A stream that reads on has yielded what arrived, but for what is in the buffer.
LEMMA SoundOpen ==
    ASSUME NEW s, Sound(s), ~s.over
    PROVE  /\ s = Is(s.wire, s.taken, s.buffer, s.yields, s.over)
           /\ s.wire \in Seq(Tokens) /\ s.taken \in 0 .. Len(s.wire) /\ Len(s.wire) \in Nat
           /\ s.taken \in s.taken .. Len(s.wire)
           /\ s.yields \in Seq(Item) /\ EndsOnce(s.yields) /\ ~IsEnded(s.yields)
           /\ s.over = FALSE
           /\ \E p \in 1 .. s.taken + 1 : ReadsFrom(s.wire, s.taken, s.buffer, s.yields, p)
<1>1. /\ s = Is(s.wire, s.taken, s.buffer, s.yields, s.over)
      /\ s.wire \in Seq(Tokens) /\ s.taken \in 0 .. Len(s.wire)
      /\ s.yields \in Seq(Item) /\ EndsOnce(s.yields)
  BY DEF Sound
<1>2. s.over = IsEnded(s.yields)
  BY DEF Sound
<1>3. s.over = FALSE /\ ~IsEnded(s.yields)
  BY <1>2, Zenon DEF IsEnded
<1>4. Len(s.wire) \in Nat
  BY <1>1, LenProperties
<1>5. s.taken \in s.taken .. Len(s.wire)
  BY <1>1, <1>4
<1>6. \E p \in 1 .. s.taken + 1 : ReadsFrom(s.wire, s.taken, s.buffer, s.yields, p)
  BY DEF Sound
<1> QED
  BY <1>1, <1>3, <1>4, <1>5, <1>6

\* A chunk adds to the buffer what it takes from the wire.
LEMMA ChunkIsSound ==
    ASSUME NEW s, Sound(s), NEW n \in Nat, MayTake(s, n)
    PROVE  Sound(TakeChunk(s, n))
<1>0. /\ s = Is(s.wire, s.taken, s.buffer, s.yields, s.over)
      /\ s.wire \in Seq(Tokens) /\ s.taken \in 0 .. Len(s.wire) /\ Len(s.wire) \in Nat
      /\ s.yields \in Seq(Item) /\ EndsOnce(s.yields) /\ s.over = IsEnded(s.yields)
      /\ ~s.over
  BY SoundOpen DEF Sound, MayTake
<1>1. PICK p \in 1 .. s.taken + 1 : ReadsFrom(s.wire, s.taken, s.buffer, s.yields, p)
  BY <1>0, SoundOpen
<1> DEFINE t == s.taken + n
           b == s.buffer \o SubSeq(s.wire, s.taken + 1, s.taken + n)
<1>2. TakeChunk(s, n) = Is(s.wire, t, b, s.yields, s.over)
  <2> HIDE DEF b, t
  <2>1. TakeChunk(s, n) = Reads(s, b, t)
    BY DEF TakeChunk, Reads, b, t
  <2>2. Reads(s, b, t) = Is(s.wire, t, b, s.yields, s.over)
    BY <1>0, IsWritten
  <2> QED
    BY <2>1, <2>2
<1>3. t \in s.taken .. Len(s.wire) /\ t \in 0 .. Len(s.wire) /\ p \in 1 .. t + 1
  BY <1>0, <1>1 DEF MayTake
<1>4. b = SubSeq(s.wire, p, t)
  <2>1. p \in 1 .. Len(s.wire) + 1 /\ s.taken \in p - 1 .. Len(s.wire)
    BY <1>0, <1>1
  <2>2. s.buffer = SubSeq(s.wire, p, s.taken)
    BY <1>1 DEF ReadsFrom
  <2> QED
    BY <1>0, <1>3, <2>1, <2>2, ConcatAdjacentSubSeq
<1> HIDE DEF t, b
<1>5. \A m \in t .. Len(s.wire) : m \in s.taken .. Len(s.wire)
  BY <1>0, <1>3
<1>6. ReadsFrom(s.wire, t, b, s.yields, p)
  BY <1>1, <1>4, <1>5 DEF ReadsFrom
<1> DEFINE new == TakeChunk(s, n)
<1>7. /\ new.wire = s.wire /\ new.taken = t /\ new.buffer = b /\ new.yields = s.yields
      /\ new.over = s.over
  BY <1>2 DEF Is
<1> HIDE DEF new
<1>8. new = Is(new.wire, new.taken, new.buffer, new.yields, new.over)
  BY <1>2, <1>7 DEF new
<1>9. Sound(new)
  BY <1>0, <1>3, <1>6, <1>7, <1>8 DEF Sound
<1> QED
  BY <1>9 DEF new

\* One more item after items that are not terminal.
LEMMA OneMore ==
    ASSUME NEW yields \in Seq(Item), EndsOnce(yields), ~IsEnded(yields), NEW item \in Item
    PROVE  /\ Append(yields, item) \in Seq(Item)
           /\ Append(yields, item) = yields \o <<item>>
           /\ EndsOnce(Append(yields, item))
           /\ IsEnded(Append(yields, item)) = (item \in Terminal)
<1> DEFINE longer == Append(yields, item)
<1>1. /\ longer \in Seq(Item) /\ longer # <<>> /\ Len(longer) = Len(yields) + 1
      /\ \A i \in 1 .. Len(yields) : longer[i] = yields[i]
      /\ longer[Len(yields) + 1] = item
      /\ longer = yields \o <<item>>
  BY AppendProperties, AppendIsConcat
<1>2. Len(yields) \in Nat /\ (yields # <<>> => Len(yields) # 0)
  BY LenProperties, EmptySeq
<1> HIDE DEF longer
<1>3. \A i \in 1 .. Len(yields) : yields[i] \notin Terminal
  <2>1. SUFFICES ASSUME NEW i \in 1 .. Len(yields) PROVE yields[i] \notin Terminal
    OBVIOUS
  <2>2. CASE i = Len(yields)
    <3>1. yields # <<>>
      BY <1>2, <2>1, EmptySeq
    <3> QED
      BY <2>2, <3>1 DEF IsEnded
  <2>3. CASE i # Len(yields)
    <3>1. i \in 1 .. Len(yields) - 1
      BY <1>2, <2>3
    <3> QED
      BY <3>1 DEF EndsOnce
  <2> QED
    BY <2>2, <2>3
<1>4. \A i \in 1 .. Len(longer) - 1 : longer[i] \notin Terminal
  <2>1. Len(longer) - 1 = Len(yields)
    BY <1>1, <1>2
  <2> QED
    BY <1>1, <1>3, <2>1
<1>5. longer[Len(longer)] = item
  BY <1>1
<1>6. EndsOnce(longer) /\ IsEnded(longer) = (item \in Terminal)
  BY <1>1, <1>4, <1>5 DEF EndsOnce, IsEnded
<1> QED
  BY <1>1, <1>6 DEF longer

\* What an item that is yielded does to a stream.
LEMMA YieldWrites ==
    ASSUME NEW s, s = Is(s.wire, s.taken, s.buffer, s.yields, s.over),
           s.yields \in Seq(Item), EndsOnce(s.yields), ~IsEnded(s.yields),
           NEW item \in Item
    PROVE  LET new == Yield(s, item)
           IN  /\ new = Is(new.wire, new.taken, new.buffer, new.yields, new.over)
               /\ new.wire = s.wire /\ new.taken = s.taken /\ new.buffer = s.buffer
               /\ new.yields \in Seq(Item)
               /\ new.yields = Append(s.yields, item)
               /\ new.yields = s.yields \o <<item>>
               /\ new.over = (item \in Terminal)
               /\ EndsOnce(new.yields) /\ new.over = IsEnded(new.yields)
<1> DEFINE y == Append(s.yields, item)
           o == item \in Terminal
<1>1. item # "none"
  BY DEF Item, Events, Errors
<1>2. Yield(s, item) = Says(s, y, o)
  BY <1>1, Zenon DEF Yield, Says
<1>3. y \in Seq(Item) /\ y = s.yields \o <<item>> /\ EndsOnce(y) /\ IsEnded(y) = o
  BY OneMore
<1> DEFINE q == [s EXCEPT !.yields = y]
<1>4. q = Is(s.wire, s.taken, s.buffer, y, s.over)
  <2> HIDE DEF y
  <2> QED
    BY DEF Is
<1>5. Says(s, y, o) = [q EXCEPT !.over = o]
  <2> HIDE DEF y, o
  <2> QED
    BY DEF Is, Says
<1> HIDE DEF q, y
<1>6. [q EXCEPT !.over = o] = Is(s.wire, s.taken, s.buffer, y, o)
  BY <1>4 DEF Is
<1> DEFINE new == Yield(s, item)
<1>7. new = Is(s.wire, s.taken, s.buffer, y, o)
  BY <1>2, <1>5, <1>6, Zenon
<1> HIDE DEF new, o
<1>8. /\ new.wire = s.wire /\ new.taken = s.taken /\ new.buffer = s.buffer
      /\ new.yields = y /\ new.over = o
  BY <1>7, Zenon DEF Is
<1>9. new = Is(new.wire, new.taken, new.buffer, new.yields, new.over)
  BY <1>7, <1>8, Zenon
<1>10. EndsOnce(new.yields) /\ new.over = IsEnded(new.yields)
  BY <1>3, <1>8, Zenon
<1> QED
  BY <1>3, <1>8, <1>9, <1>10, Zenon DEF new, y, o

\* So when no frame is left, it has yielded all that arrived means.
LEMMA AllYielded ==
    ASSUME NEW s, Sound(s), ~s.over, ~HasFrame(s)
    PROVE  s.yields = Meant(SubSeq(s.wire, 1, s.taken))
<1>1. PICK p \in 1 .. s.taken + 1 : ReadsFrom(s.wire, s.taken, s.buffer, s.yields, p)
  BY SoundOpen
<1>2. /\ s.wire \in Seq(Tokens) /\ s.taken \in 0 .. Len(s.wire) /\ Len(s.wire) \in Nat
      /\ s.taken \in s.taken .. Len(s.wire) /\ s.yields \in Seq(Item)
  BY SoundOpen
<1> DEFINE x == SubSeq(s.wire, 1, s.taken)
<1>3. Boundaries(SubSeq(s.wire, p, s.taken)) = {}
  BY <1>1 DEF HasFrame, ReadsFrom
<1>4. FrameAt(x, p) = {}
  BY <1>2, <1>3, NoFrameFound
<1>5. x \in Seq(Tokens) /\ Len(x) = s.taken
  BY <1>2, PrefixAndBuffer
<1>6. Meant(x) = s.yields \o MeantFrom(x)[p]
  BY <1>1, <1>2 DEF ReadsFrom
<1> HIDE DEF x
<1>7. MeantFrom(x)[p] = Means(x, MeantFrom(x), p)
  BY <1>5, MeantFromMeans
<1>8. MeantFrom(x)[p] = <<>>
  BY <1>4, <1>7 DEF Means
<1>9. Meant(x) = s.yields
  BY <1>2, <1>6, <1>8, ConcatEmptySeq
<1> QED
  BY <1>9 DEF x

\* A response that ends too early adds one error.
LEMMA EndIsSound ==
    ASSUME NEW s, Sound(s), ~s.over, ~HasFrame(s), NEW error \in Errors
    PROVE  Sound(Yield(s, error))
<1> DEFINE new == Yield(s, error)
<1>1. /\ s = Is(s.wire, s.taken, s.buffer, s.yields, s.over)
      /\ s.wire \in Seq(Tokens) /\ s.taken \in 0 .. Len(s.wire)
      /\ s.yields \in Seq(Item) /\ EndsOnce(s.yields) /\ ~IsEnded(s.yields)
  BY SoundOpen
<1>2. error \in Item /\ error \in Terminal
  BY DEF Item, Terminal
<1>3. /\ new = Is(new.wire, new.taken, new.buffer, new.yields, new.over)
      /\ new.wire = s.wire /\ new.taken = s.taken
      /\ new.yields \in Seq(Item)
      /\ new.yields = Append(s.yields, error)
      /\ new.over = (error \in Terminal)
      /\ EndsOnce(new.yields) /\ new.over = IsEnded(new.yields)
  BY <1>1, <1>2, YieldWrites
<1> HIDE DEF new
<1>4. Complete(new.wire, new.taken, new.yields)
  BY <1>3, AllYielded DEF Complete
<1>5. Sound(new)
  BY <1>1, <1>2, <1>3, <1>4 DEF Sound
<1> QED
  BY <1>5 DEF new

\* A frame that is cut yields what it means, and the buffer begins after it.
LEMMA FrameIsSound ==
    ASSUME NEW s, Sound(s), HasFrame(s)
    PROVE  Sound(CutFrame(s))
<1>0. ~s.over
  BY DEF HasFrame
<1>1. PICK p \in 1 .. s.taken + 1 : ReadsFrom(s.wire, s.taken, s.buffer, s.yields, p)
  BY <1>0, SoundOpen
<1>2. /\ s = Is(s.wire, s.taken, s.buffer, s.yields, s.over)
      /\ s.wire \in Seq(Tokens) /\ s.taken \in 0 .. Len(s.wire) /\ Len(s.wire) \in Nat
      /\ s.taken \in s.taken .. Len(s.wire)
      /\ s.yields \in Seq(Item) /\ EndsOnce(s.yields) /\ ~IsEnded(s.yields)
  BY <1>0, SoundOpen
<1> DEFINE buffer == SubSeq(s.wire, p, s.taken)
           i == Boundary(buffer)
           item == Parse(SubSeq(buffer, 1, i - 1))
           rest == SubSeq(buffer, i + 2, Len(buffer))
           next == p + i + 1
           From(m) == MeantFrom(SubSeq(s.wire, 1, m))
<1>3. s.buffer = buffer /\ Boundaries(buffer) # {}
  BY <1>1 DEF ReadsFrom, HasFrame
<1>4. i \in 1 .. s.taken - p /\ rest = SubSeq(s.wire, next, s.taken)
  BY <1>2, <1>3, FrameFound
<1>5. ASSUME NEW m \in s.taken .. Len(s.wire)
      PROVE  /\ Meant(SubSeq(s.wire, 1, m)) = s.yields \o From(m)[p]
             /\ From(m)[p] = IF item = "none" THEN From(m)[next]
                             ELSE IF item \in Terminal THEN <<item>>
                             ELSE <<item>> \o From(m)[next]
  <2>1. Meant(SubSeq(s.wire, 1, m)) = s.yields \o From(m)[p]
    BY <1>1 DEF ReadsFrom
  <2>2. From(m)[p] = IF item = "none" THEN From(m)[next]
                     ELSE IF item \in Terminal THEN <<item>>
                     ELSE <<item>> \o From(m)[next]
    <3>1. PICK wire, taken : wire = s.wire /\ taken = s.taken
      OBVIOUS
    <3> DEFINE here == SubSeq(wire, p, taken)
               j == Boundary(here)
               means == Parse(SubSeq(here, 1, j - 1))
               all == MeantFrom(SubSeq(wire, 1, m))
    <3>2. /\ wire \in Seq(Tokens) /\ taken \in 0 .. Len(wire) /\ m \in taken .. Len(wire)
          /\ p \in 1 .. taken + 1 /\ Boundaries(here) # {}
      BY <1>2, <1>3, <3>1
    <3>3. all[p] = IF means = "none" THEN all[p + j + 1]
                   ELSE IF means \in Terminal THEN <<means>>
                   ELSE <<means>> \o all[p + j + 1]
      BY <3>2, FrameMeans
    <3> QED
      BY <3>1, <3>3, Zenon
  <2> QED
    BY <2>1, <2>2
<1>6. item \in Item \union {"none"}
  <2>1. buffer \in Seq(Tokens) /\ Len(buffer) = s.taken - p + 1
    BY <1>2, PrefixAndBuffer
  <2> HIDE DEF buffer
  <2>2. 1 \in 1 .. Len(buffer) + 1 /\ i - 1 \in 0 .. Len(buffer)
    <3> HIDE DEF i
    <3> QED
      BY <1>2, <1>4, <2>1
  <2>3. SubSeq(buffer, 1, i - 1) \in Seq(Tokens)
    BY <2>1, <2>2, PartOfWire
  <2> QED
    BY <2>3, ParseTyped
<1>7. next \in 1 .. s.taken + 1
  <2> HIDE DEF i
  <2> QED
    BY <1>2, <1>4
<1>8. ASSUME NEW m \in s.taken .. Len(s.wire) PROVE From(m)[next] \in Seq(Item)
  <2>1. m \in 0 .. Len(s.wire) /\ next \in 1 .. m + 1
    <3> HIDE DEF next
    <3> QED
      BY <1>2, <1>7
  <2> HIDE DEF next
  <2> QED
    BY <1>2, <2>1, PrefixMeant
<1> DEFINE cut == Buffers(s, rest)
           new == Yield(cut, item)
<1>9. CutFrame(s) = new
  BY <1>3 DEF CutFrame, Buffers
<1> HIDE DEF buffer, i, item, rest, next, From
<1>10. cut = Is(s.wire, s.taken, rest, s.yields, s.over)
  <2>0. s = Is(s.wire, s.taken, s.buffer, s.yields, s.over)
    BY <1>2
  <2>1. Buffers(s, rest) = Is(s.wire, s.taken, rest, s.yields, s.over)
    BY <2>0, IsWritten
  <2> QED
    BY <2>1
<1> HIDE DEF cut
<1>11. /\ cut = Is(cut.wire, cut.taken, cut.buffer, cut.yields, cut.over)
       /\ cut.wire = s.wire /\ cut.taken = s.taken /\ cut.buffer = rest
       /\ cut.yields = s.yields /\ cut.over = s.over
  BY <1>10 DEF Is
<1>12. CASE item = "none"
  <2>1. new = cut
    BY <1>12 DEF Yield
  <2>2. \A m \in s.taken .. Len(s.wire) :
            Meant(SubSeq(s.wire, 1, m)) = s.yields \o From(m)[next]
    BY <1>5, <1>12
  <2>3. ReadsFrom(s.wire, s.taken, rest, s.yields, next)
    BY <1>4, <2>2 DEF ReadsFrom, From
  <2>4. Sound(cut)
    BY <1>2, <1>7, <1>11, <2>3 DEF Sound
  <2> QED
    BY <1>9, <2>1, <2>4
<1>13. CASE item # "none"
  <2>1. item \in Item
    BY <1>6, <1>13
  <2>2. /\ new = Is(new.wire, new.taken, new.buffer, new.yields, new.over)
        /\ new.wire = s.wire /\ new.taken = s.taken /\ new.buffer = rest
        /\ new.yields \in Seq(Item)
        /\ new.yields = s.yields \o <<item>>
        /\ new.over = (item \in Terminal)
        /\ EndsOnce(new.yields) /\ new.over = IsEnded(new.yields)
    <3>1. cut.yields \in Seq(Item) /\ EndsOnce(cut.yields) /\ ~IsEnded(cut.yields)
      BY <1>2, <1>11
    <3> QED
      BY <1>11, <2>1, <3>1, YieldWrites
  <2> HIDE DEF new
  <2>3. CASE item \in Terminal
    <3>1. Meant(SubSeq(s.wire, 1, s.taken)) = new.yields
      BY <1>2, <1>5, <1>13, <2>2, <2>3
    <3>2. Complete(new.wire, new.taken, new.yields)
      BY <2>2, <3>1 DEF Complete
    <3>3. Sound(new)
      BY <1>2, <2>2, <2>3, <3>2 DEF Sound
    <3> QED
      BY <1>9, <3>3 DEF new
  <2>4. CASE item \notin Terminal
    <3>1. ASSUME NEW m \in s.taken .. Len(s.wire)
          PROVE  Meant(SubSeq(s.wire, 1, m)) = new.yields \o From(m)[next]
      <4>1. <<item>> \in Seq(Item)
        BY <2>1
      <4>2. Meant(SubSeq(s.wire, 1, m)) = s.yields \o (<<item>> \o From(m)[next])
        BY <1>5, <1>13, <2>4
      <4>3. PICK later : later = From(m)[next]
        OBVIOUS
      <4>4. later \in Seq(Item)
        BY <1>8, <4>3
      <4>5. (s.yields \o <<item>>) \o later = s.yields \o (<<item>> \o later)
        <5>1. PICK said, one : said = s.yields /\ one = <<item>>
          OBVIOUS
        <5>2. said \in Seq(Item) /\ one \in Seq(Item)
          BY <1>2, <4>1, <5>1
        <5>3. (said \o one) \o later = said \o (one \o later)
          BY <4>4, <5>2, ConcatAssociative
        <5> QED
          BY <5>1, <5>3
      <4> QED
        BY <2>2, <4>2, <4>3, <4>5
    <3>2. ReadsFrom(s.wire, s.taken, rest, new.yields, next)
      BY <1>4, <3>1 DEF ReadsFrom, From
    <3>3. Sound(new)
      BY <1>2, <1>7, <2>2, <2>4, <3>2 DEF Sound
    <3> QED
      BY <1>9, <3>3 DEF new
  <2> QED
    BY <2>3, <2>4
<1> QED
  BY <1>12, <1>13

\* Such a stream is faithful.
LEMMA SoundIsFaithful ==
    ASSUME NEW s, Sound(s)
    PROVE  LET meant == Meant(SubSeq(s.wire, 1, s.taken))
               ended == meant # <<>> /\ meant[Len(meant)] \in Terminal
           IN  /\ \A i \in 1 .. Len(s.yields) - 1 : s.yields[i] \notin Terminal
               /\ s.over = (s.yields # <<>> /\ s.yields[Len(s.yields)] \in Terminal)
               /\ IF ~s.over THEN IsPrefix(s.yields, meant)
                  ELSE IF ended THEN s.yields = meant
                  ELSE \E error \in Errors : s.yields = Append(meant, error)
               /\ ~s.over /\ ~HasFrame(s) => s.yields = meant
<1> DEFINE meant == Meant(SubSeq(s.wire, 1, s.taken))
           ended == meant # <<>> /\ meant[Len(meant)] \in Terminal
<1>1. /\ s.wire \in Seq(Tokens) /\ s.taken \in 0 .. Len(s.wire)
      /\ s.yields \in Seq(Item) /\ EndsOnce(s.yields)
  BY DEF Sound
<1>2. s.over = IsEnded(s.yields)
  BY DEF Sound
<1>3. /\ Len(s.wire) \in Nat /\ s.taken \in s.taken .. Len(s.wire) /\ 1 \in 1 .. s.taken + 1
      /\ Len(s.yields) \in Nat
  BY <1>1, LenProperties
<1>4. ASSUME NEW p \in 1 .. s.taken + 1
      PROVE  MeantFrom(SubSeq(s.wire, 1, s.taken))[p] \in Seq(Item)
  BY <1>1, PrefixMeant
<1>5. meant \in Seq(Item)
  BY <1>3, <1>4 DEF Meant
<1>6. ~s.over => IsPrefix(s.yields, meant)
  <2>1. SUFFICES ASSUME ~s.over PROVE IsPrefix(s.yields, meant)
    OBVIOUS
  <2>2. PICK p \in 1 .. s.taken + 1 : ReadsFrom(s.wire, s.taken, s.buffer, s.yields, p)
    BY <2>1, SoundOpen
  <2>3. PICK later : later = MeantFrom(SubSeq(s.wire, 1, s.taken))[p]
    OBVIOUS
  <2>4. later \in Seq(Item)
    BY <1>4, <2>3
  <2>5. meant = s.yields \o later
    BY <1>3, <2>2, <2>3 DEF ReadsFrom
  <2> HIDE DEF meant
  <2>6. PICK said : said = s.yields
    OBVIOUS
  <2>7. said \in Seq(Item) /\ Len(said) \in Nat /\ Len(later) \in Nat /\ DOMAIN said = 1 .. Len(said)
    BY <1>1, <2>4, <2>6, LenProperties
  <2>8. /\ Len(said \o later) = Len(said) + Len(later)
        /\ \A i \in 1 .. Len(said) + Len(later) :
              (said \o later)[i] = IF i <= Len(said) THEN said[i] ELSE later[i - Len(said)]
    BY <2>4, <2>7, ConcatProperties
  <2>9. IsPrefix(said, said \o later)
    BY <2>7, <2>8 DEF IsPrefix
  <2> QED
    BY <2>5, <2>6, <2>9
<1>7. s.over => (IF ended THEN s.yields = meant
                 ELSE \E error \in Errors : s.yields = Append(meant, error))
  <2>1. SUFFICES ASSUME s.over
                 PROVE  IF ended THEN s.yields = meant
                        ELSE \E error \in Errors : s.yields = Append(meant, error)
    OBVIOUS
  <2>2. s.yields = meant \/ \E error \in Errors : s.yields = Append(meant, error)
    BY <2>1 DEF Sound, Complete
  <2> HIDE DEF meant
  <2>3. CASE s.yields = meant
    BY <1>2, <2>1, <2>3 DEF IsEnded
  <2>4. ASSUME NEW error \in Errors, s.yields = Append(meant, error) PROVE ~ended
    <3>1. error \in Item
      BY DEF Item
    <3>2. /\ Len(Append(meant, error)) = Len(meant) + 1
          /\ \A i \in 1 .. Len(meant) : Append(meant, error)[i] = meant[i]
      BY <1>5, <3>1, AppendProperties
    <3>3. Len(meant) \in Nat /\ (meant # <<>> => Len(meant) # 0)
      BY <1>5, LenProperties, EmptySeq
    <3>4. SUFFICES ASSUME meant # <<>> PROVE meant[Len(meant)] \notin Terminal
      OBVIOUS
    <3>5. Len(meant) \in 1 .. Len(meant) /\ Len(meant) \in 1 .. Len(s.yields) - 1
      BY <2>4, <3>2, <3>3, <3>4
    <3>6. s.yields[Len(meant)] = meant[Len(meant)]
      BY <2>4, <3>2, <3>5
    <3> QED
      BY <1>1, <3>5, <3>6 DEF EndsOnce
  <2> QED
    BY <2>2, <2>3, <2>4
<1>8. ~s.over /\ ~HasFrame(s) => s.yields = meant
  BY AllYielded
<1>9. s.over = (s.yields # <<>> /\ s.yields[Len(s.yields)] \in Terminal)
  BY <1>2 DEF IsEnded
<1>10. \A i \in 1 .. Len(s.yields) - 1 : s.yields[i] \notin Terminal
  BY <1>1 DEF EndsOnce
<1>11. IF ~s.over THEN IsPrefix(s.yields, meant)
       ELSE IF ended THEN s.yields = meant
       ELSE \E error \in Errors : s.yields = Append(meant, error)
  <2> HIDE DEF meant, ended
  <2> QED
    BY <1>6, <1>7
<1> QED
  BY <1>8, <1>9, <1>10, <1>11, Zenon

-----------------------------------------------------------------------------
StreamInv ==
    /\ streams = [c \in Callers |-> streams[c]]
    /\ \A c \in Callers : Sound(streams[c])

\* It is enough to look at the stream that moves.
LEMMA StreamMoves ==
    ASSUME StreamInv, NEW c \in Callers, NEW s, Sound(s), streams' = [streams EXCEPT ![c] = s]
    PROVE  StreamInv'
<1>1. \A d \in Callers : streams'[d] = IF d = c THEN s ELSE streams[d]
  BY DEF StreamInv
<1>2. streams' = [d \in Callers |-> streams'[d]]
  BY Zenon DEF StreamInv
<1>3. \A d \in Callers : Sound(streams'[d])
  BY <1>1 DEF StreamInv
<1> QED
  BY <1>2, <1>3 DEF StreamInv

\* Every step of a call keeps the streams sound.
LEMMA CallStreams ==
    ASSUME StreamInv, NEW c \in Callers, Calling(c)
    PROVE  StreamInv'
<1> DEFINE s == streams[c]
<1>1. Sound(s)
  BY DEF StreamInv
<1>2. CASE UNCHANGED streams
  BY <1>2 DEF StreamInv
<1>3. CASE Return(c)
  <2>1. CASE UNCHANGED streams
    BY <2>1, <1>2
  <2>2. ASSUME NEW wire \in Wires, streams' = [streams EXCEPT ![c] = Opened(wire)]
        PROVE  StreamInv'
    <3>1. wire \in Seq(Tokens)
      BY LoopbackAssumption
    <3>2. Sound(Opened(wire))
      BY <3>1, OpenedIsSound
    <3> QED
      BY <2>2, <3>2, StreamMoves
  <2> QED
    BY <1>3, <2>1, <2>2 DEF Return, HostReturns, SidecarReturns, VerifiedReturns
<1>4. CASE Frame(c)
  <2>1. HasFrame(s) /\ streams' = [streams EXCEPT ![c] = CutFrame(s)]
    BY <1>4 DEF Frame
  <2>2. Sound(CutFrame(s))
    BY <1>1, <2>1, FrameIsSound
  <2> QED
    BY <2>1, <2>2, StreamMoves
<1>5. ASSUME NEW n \in 1 .. MaxChunk, Chunk(c, n) PROVE StreamInv'
  <2>1. MayTake(s, n) /\ streams' = [streams EXCEPT ![c] = TakeChunk(s, n)]
    BY <1>5 DEF Chunk
  <2>2. n \in Nat
    BY LoopbackAssumption
  <2>3. Sound(TakeChunk(s, n))
    BY <1>1, <2>1, <2>2, ChunkIsSound
  <2> QED
    BY <2>1, <2>3, StreamMoves
<1>6. CASE EndStream(c)
  <2>1. ~s.over /\ ~HasFrame(s)
    BY <1>6 DEF EndStream
  <2>2. PICK error \in Errors : streams' = [streams EXCEPT ![c] = Yield(s, error)]
    BY <1>6 DEF EndStream, EndOfInput, CutOff, Errors
  <2>3. Sound(Yield(s, error))
    BY <1>1, <2>1, EndIsSound
  <2> QED
    BY <2>2, <2>3, StreamMoves
<1>7. CASE \/ Health(c) \/ Timeout(c) \/ Verifying(c) \/ CloseStream(c)
           \/ \E a \in Addresses : Arrive(c, a)
  BY <1>2, <1>7 DEF Health, Timeout, Verifying, Check, ProbeTimeout, Conclude, Execute,
                    Probe, CloseStream, Arrive
<1> QED
  BY <1>3, <1>4, <1>5, <1>6, <1>7 DEF Calling, Streaming

\* Every step keeps the streams sound.
LEMMA StreamsHold == ProofInv /\ StreamInv /\ [Next]_vars => StreamInv'
<1> SUFFICES ASSUME ProofInv, StreamInv, [Next]_vars PROVE StreamInv'
  OBVIOUS
<1>1. process.callers \subseteq Callers
  BY LoopbackAssumption DEF ProofInv
<1>2. CASE UNCHANGED streams
  BY <1>2 DEF StreamInv
<1>3. CASE Programs \/ Expire \/ UNCHANGED vars
  BY <1>2, <1>3 DEF Programs, Vanish, Bind, Publish, ShutDown, WithdrawLoad, WithdrawRemove,
                    Expire, vars
<1>4. ASSUME NEW c \in process.callers, Calling(c) \/ \E op \in process.ops : Enter(c, op)
      PROVE  StreamInv'
  <2>1. CASE Calling(c)
    BY <1>1, <2>1, CallStreams
  <2>2. CASE \E op \in process.ops : Enter(c, op)
    BY <1>2, <2>2 DEF Enter
  <2> QED
    BY <1>4, <2>1, <2>2
<1> QED
  BY <1>3, <1>4 DEF Next

\* Before any call, the streams are those of nothing.
LEMMA StreamsBegin == Init => StreamInv
<1> SUFFICES ASSUME Init PROVE StreamInv
  OBVIOUS
<1>1. <<>> \in Seq(Tokens)
  OBVIOUS
<1>2. Sound(Opened(<<>>))
  BY <1>1, OpenedIsSound
<1> QED
  BY <1>2 DEF Init, StreamInv

\* A stream's items are those that its bytes mean: for every wire, however it is cut
\* into chunks, and wherever it breaks off.
THEOREM StreamsAreFaithful == Spec => []StreamIsFaithful
<1>1. StreamInv => StreamIsFaithful
  <2> SUFFICES ASSUME StreamInv PROVE StreamIsFaithful
    OBVIOUS
  <2>1. \A c \in Callers : Sound(streams[c])
    BY DEF StreamInv
  <2> QED
    BY <2>1, SoundIsFaithful DEF StreamIsFaithful
<1> QED
  BY <1>1, StreamsBegin, StreamsHold, ProofInvariant, PTL DEF Spec

=============================================================================
