----------------------------- MODULE PeerProof -----------------------------
(***************************************************************************)
(* The loopback peer proof (sidecar-runtime/src/peer_proof.rs): a server   *)
(* shows that it holds a token by a MAC of a fresh challenge; a client     *)
(* remembers the last success for a while.                                 *)
(***************************************************************************)
EXTENDS Integers

CONSTANTS
    Secrets,        \* the tokens that clients and servers hold
    Empty,          \* the empty token: a server that was given none
    NoProof,
    NoEntry

ASSUME ProofAssumption == Empty \notin Secrets

\* is_valid_challenge, by the length and the alphabet of the challenge.
MinChallenge == 32
MaxChallenge == 128
IsValidChallenge(challenge) ==
    challenge.length \in MinChallenge .. MaxChallenge /\ challenge.alphabet

\* Two UUIDs in hexadecimal; nonce tells the challenges apart.
NewChallenge(nonce) == [length |-> 64, alphabet |-> TRUE, nonce |-> nonce]

Proof(token, challenge) ==
    IF token = Empty \/ ~IsValidChallenge(challenge) THEN NoProof
    ELSE [token |-> token, challenge |-> challenge]

Verify(token, challenge, provided) ==
    /\ Proof(token, challenge) # NoProof
    /\ provided = Proof(token, challenge)

\* The answer of a health route: up and its proof, if any.
Verdict(token, challenge, up, provided) ==
    IF ~up THEN "unreachable"
    ELSE IF provided = NoProof THEN "noProof"
    ELSE IF Verify(token, challenge, provided) THEN "proven"
    ELSE "wrongProof"

(***************************************************************************)
(* The cache holds one success; its time to live is over at any time.      *)
(***************************************************************************)
Entry(url, token) == [url |-> url, token |-> token]

\* Of the URL alone: the proof of one token would stand for another's.
IsFreshMutant(entry, url, token) == entry # NoEntry /\ entry.url = url

IsFresh(entry, url, token) == entry # NoEntry /\ entry = Entry(url, token)

AfterVerdict(entry, url, token, verdict) ==
    IF verdict = "proven" THEN Entry(url, token) ELSE NoEntry

(***************************************************************************)
(* A name may resolve to either loopback address; servers bind IPv4.       *)
(***************************************************************************)
Resolved(host) == IF host = "localhost" THEN {"v4", "v6"} ELSE {host}

PinLocalhost(host) == IF host = "localhost" THEN "v4" ELSE host

=============================================================================
