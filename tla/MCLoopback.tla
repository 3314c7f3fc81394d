----------------------------- MODULE MCLoopback -----------------------------
EXTENDS Loopback

CONSTANTS t1, t2, callerA, callerB

\* Processes that Core started, with its port or with its bind address only, and
\* one that has no token.

Hosted == [corePort |-> "core", bind |-> NoPort, token |-> "set"]

MCEnvs == {Hosted, [Hosted EXCEPT !.corePort = NoPort, !.bind = "core"],
           [Hosted EXCEPT !.token = "blank"]}

HostOp(kind, faults) == [kind |-> kind, faults |-> faults]
VerifiedOp(token) == [kind |-> "verified", host |-> "localhost", token |-> token]
HandoffOp(path) == [kind |-> "handoff", path |-> path]

HostOps ==
    {HostOp("emit", {"event"}), HostOp("usage", {"noCalls"}), HostOp("status", {}),
     HostOp("publish", {"room"}), HostOp("call", {}), HostOp("call", {"timeout"}),
     HostOp("authorize", {}), HostOp("authorize", {"grant"})}

\* Only the callers that share the proof cache have anything in common.
MCProcesses ==
    [env : MCEnvs, ops : {HostOps}, callers : {{callerA}}, secrets : {{t1}}]
    \union
    [env : {Hosted},
     ops : {{HostOp("stream", {})}, {HandoffOp("prefixed"), HandoffOp("elsewhere")}},
     callers : {{callerA}}, secrets : {{t1}}]
    \union
    [env : {Hosted}, ops : {{VerifiedOp(t1), VerifiedOp(t2)}},
     callers : {{callerA, callerB}}, secrets : {{t1, t2, Empty}}]

\* Two events and a completion; carriage returns that hide a boundary; a frame with
\* two lines; an error in the middle; an end with no terminal event; events after
\* the terminal one.
MCWires ==
    {<<"delta", "nl", "nl", "delta", "nl", "nl", "[DONE]", "nl", "nl">>,
     <<"delta", "cr", "nl", "cr", "nl", "completed", "nl", "nl">>,
     <<"comment", "nl", "delta", "nl", "nl", "notJson", "nl", "nl">>,
     <<"unknown", "nl", "nl", "nl", "nl", "delta", "nl">>,
     <<"delta", "cr", "nl", "nl", "blank", "nl", "delta", "nl", "nl", "failed", "nl", "nl">>,
     <<"delta", "nl", "nl", "notUtf8", "nl", "nl", "delta", "nl", "nl">>,
     <<"error", "nl", "nl", "completed", "nl", "nl">>}
=============================================================================
