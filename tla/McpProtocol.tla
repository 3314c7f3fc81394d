---------------------------- MODULE McpProtocol ----------------------------
(***************************************************************************)
(* What the stdio server makes of one line (backend/src/mcp_stdio.rs and   *)
(* its copy in crates/core/sidecar-runtime/src/mcp_protocol.rs), and the   *)
(* table of tools (backend/src/mcp.rs).                                    *)
(*                                                                         *)
(* A line is blank, garbage, or a frame with or without an id.  Of a value *)
(* only its presence and its shape matter.                                 *)
(***************************************************************************)
EXTENDS CallerScope

Shapes == {"absent", "malformed", "good"}

\* The _meta of a request: nothing, something else than an object, or an object
\* with the three protocol entries and Core's stamp.  "older" is a version that
\* is a string, but not the one this server speaks.
Metas ==
    [kind : Shapes, version : Shapes \union {"older"}, capabilities : Shapes,
     info : Shapes, caller : McpCallers]

(***************************************************************************)
(* The tools: how each affects campaigns, and what it demands.             *)
(***************************************************************************)
ReadTools == {"list_experiments", "list_campaigns", "get_campaign", "read_file"}

MutatingTools ==
    {"init_workspace", "write_file", "keep", "reset", "ledger", "next_variant",
     "finish_campaign"}

ExecutingTools == {"run"}

Tools == ReadTools \union MutatingTools \union ExecutingTools

\* The tools that demand an argument: require_string, require_safe_id and
\* require_tree_token.
Demanding ==
    [experiment |-> {"init_workspace"},
     campaign_id |-> {"get_campaign", "next_variant", "finish_campaign"},
     workspace_id |-> {"read_file", "write_file", "run", "keep", "reset", "ledger"},
     path |-> {"read_file", "write_file"},
     workspace_tree |-> {"run"},
     status |-> {"finish_campaign"}]

Required(tool) == {arg \in DOMAIN Demanding : tool \in Demanding[arg]}

\* A tools/call: the tool's name, "absent" when it has none; the arguments that
\* are there and well formed; whether the ledger call brings a row; whether the
\* content to write is too large.
WellFormed(call) == call.tool \in Tools /\ Required(call.tool) \subseteq call.args

\* write_file answers by itself when the content passes its limit.
TooLarge(call) == call.tool = "write_file" /\ call.large

\* The requests dispatch makes of the engine, by what they do there; a ledger
\* call that brings a row is a write.
Requests ==
    [catalog |-> {"list_experiments"}, list |-> {"list_campaigns"},
     read |-> {"get_campaign", "read_file", "ledger"},
     write |-> {"write_file", "keep", "reset"}, init |-> {"init_workspace"},
     propose |-> {"next_variant"}, run |-> {"run"}, finish |-> {"finish_campaign"}]

Kinds == DOMAIN Requests

EngineKind(call) ==
    IF call.tool = "ledger" /\ call.row THEN "write"
    ELSE CHOOSE kind \in Kinds : call.tool \in Requests[kind]

(***************************************************************************)
(* Negotiation                                                             *)
(***************************************************************************)
\* Does the frame carry a modern entry, or a method that only exists there?
ClaimsModern(frame) ==
    \/ frame.method = "server/discover"
    \/ frame.meta.version # "absent"
    \/ frame.meta.capabilities # "absent"

IsModern(frame) ==
    /\ frame.meta.kind = "good"
    /\ ClaimsModern(frame)
    /\ frame.meta.version = "good"
    /\ frame.meta.capabilities = "good"
    /\ frame.meta.info # "malformed"

IsLegacy(frame, initialized) ==
    /\ frame.meta.kind # "malformed"
    /\ frame.meta.kind = "good" => ~ClaimsModern(frame)
    /\ frame.method # "server/discover"
    /\ frame.method = "initialize" \/ initialized

\* request_is_modern.
Negotiate(frame, initialized) ==
    IF IsModern(frame) THEN "modern"
    ELSE IF IsLegacy(frame, initialized) THEN "legacy" ELSE "refused"

\* A bug in the loop: a modern initialize, which is refused, opens the session too.
OpensMutant(frame, mode) == frame.method = "initialize"

\* An initialize that is answered as a legacy one opens the legacy session.
Opens(frame, mode) == frame.method = "initialize" /\ mode = "legacy"

\* The methods that are answered without the engine.
LocalMethods(mode) ==
    {"server/discover", "tools/list"}
        \union (IF mode = "legacy" THEN {"initialize", "ping"} ELSE {})

\* finalize_response: only what answers a modern request is stamped, and of
\* that only the results; the list of tools may be cached.
Stamp(mode, method, isResult) ==
    [modern |-> mode = "modern" /\ isResult,
     cacheable |-> mode = "modern" /\ isResult /\ method = "tools/list"]
=============================================================================
