------------------------------ MODULE Handoff ------------------------------
(***************************************************************************)
(* The sidecar handoff (sidecar-runtime/src/handoff.rs): the file in which *)
(* a running sidecar publishes its port and the token of this run, what    *)
(* that token opens, and what its client makes of a response.              *)
(*                                                                         *)
(* Tokens are random: a run's token is the number of the run.              *)
(***************************************************************************)
EXTENDS Integers

CONSTANTS
    NoFile,         \* no handoff is published
    ExtToken,       \* the token Core stamps on its own requests
    NoToken

ASSUME HandoffAssumption == ExtToken \notin Nat /\ NoToken \notin Nat /\ NoToken # ExtToken

TokenOk(provided, expected) == expected # NoToken /\ provided = expected

\* A path is known by where it lies: under a handoff prefix or elsewhere.
Paths == {"prefixed", "elsewhere"}

Authorize(provided, ext, handoff, path) ==
    \/ TokenOk(provided, ext)
    \/ /\ provided # NoToken
       /\ path = "prefixed"
       /\ TokenOk(provided, handoff)

\* Whatever handoff is published.
LoadedMutant(file, run) == file # NoFile

\* withdraw: load, compare, and only then remove.
Loaded(file, run) == file = run

(***************************************************************************)
(* parse_response: a body is chunked or runs to the end of the connection. *)
(* A connection may be cut in the head, or in the body.                    *)
(***************************************************************************)
Framings == {"plain", "chunked"}
Cuts == {"none", "head", "body"}

SidecarResponse(status, framing, cut) == [status |-> status, framing |-> framing, cut |-> cut]

\* The last chunk is not looked for.
ParsedMutant(response) ==
    IF response.cut = "head" THEN "malformed"
    ELSE IF response.cut = "body" THEN "text"
    ELSE "whole"

\* The content length is not looked at: a plain body that is cut parses as a text.
Parsed(response) ==
    IF response.cut = "head" THEN "malformed"
    ELSE IF response.framing = "chunked" /\ response.cut = "body" THEN "malformed"
    ELSE IF response.cut = "body" THEN "text"
    ELSE "whole"

\* call: request, with a status that is no success turned into an error.
CallOutcome(response) ==
    IF Parsed(response) = "malformed" \/ response.status # "2xx" THEN "error"
    ELSE IF Parsed(response) = "text" THEN "partial"
    ELSE "ok"

=============================================================================
