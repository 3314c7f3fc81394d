---------------------------- MODULE CallerScope ----------------------------
(***************************************************************************)
(* The principal a request acts for (backend/src/caller.rs), and what the  *)
(* engine lets it do (sidecar/ryu_research/server.py).                     *)
(*                                                                         *)
(* A user stands for the pair of a user id and an organization id.  The    *)
(* scope comes from what Core stamps on a request and never from its       *)
(* arguments.                                                              *)
(***************************************************************************)
CONSTANTS
    Users,          \* verified users, their ids well formed
    Node,           \* the operator of the node, who sees every campaign
    Malformed,      \* an identity value that does not pass valid_id
    Absent,         \* no such value
    NoScope         \* a request without a scope

ASSUME ScopeAssumption ==
    /\ {Node, Malformed, Absent, NoScope} \intersect Users = {}
    /\ Node # NoScope
    /\ Malformed # Absent

Scopes == Users \union {Node, NoScope}

Ids == Users \union {Malformed, Absent}

\* What Core puts under "ryu/caller" in the _meta of a tools/call.
McpCallers == [kind : {"absent", "node", "user", "unresolved", "unknown"}, user : Ids]

\* The identity headers Core's proxy puts on an HTTP hop.
CoreHeaders == [user : Ids, agent : BOOLEAN]

\* user_scope: a verified user, or no scope when the id is malformed or missing.
UserScope(user) == IF user \in Users THEN user ELSE NoScope

\* A bug in from_mcp_meta: a principal that was not resolved is the node's.
FromMcpMetaMutant(caller) ==
    IF caller.kind \in {"node", "unresolved"} THEN Node
    ELSE IF caller.kind = "user" THEN UserScope(caller.user) ELSE NoScope

\* from_mcp_meta: NoScope stands for its error.
FromMcpMeta(caller) ==
    IF caller.kind = "node" THEN Node
    ELSE IF caller.kind = "user" THEN UserScope(caller.user) ELSE NoScope

\* from_core_headers: a hop that names nobody is the operator's; one that names
\* an agent but no user, or a user that is malformed, has no scope.
FromCoreHeaders(headers) ==
    IF headers.user # Absent THEN UserScope(headers.user)
    ELSE IF headers.agent THEN NoScope ELSE Node

\* authorize_campaign: the node sees every campaign, a user its own.
MaySee(scope, owner) == scope = Node \/ (scope \in Users /\ scope = owner)
=============================================================================
