------------------------------ MODULE Gateway ------------------------------
(***************************************************************************)
(* Both front doors of the crate over one engine: the MCP session on stdio *)
(* (backend/src/mcp_stdio.rs, mcp.rs) and the HTTP sidecar (api.rs,        *)
(* main.rs), each with the caller scope that Core stamps (caller.rs), and  *)
(* the engine's HTTP server as they use it (sidecar/ryu_research/          *)
(* server.py): authorization, admission, and the status of the campaigns.  *)
(*                                                                         *)
(* The session reads one line, answers it and reads the next; the handlers *)
(* of HTTP requests run side by side.  A request that gives up does not    *)
(* stop the engine's thread that serves it.                                *)
(***************************************************************************)
EXTENDS McpProtocol, Integers, Sequences, FiniteSets

CONSTANTS
    Hops,           \* the HTTP requests that may arrive
    Asks,           \* what they may ask
    Lines,          \* what the session's stdin may hold
    MaxLines,       \* bound: lines read by the session
    Existing,       \* the owners of the campaigns that the store holds at first
    MaxActive,      \* MAX_ACTIVE_CAMPAIGNS
    MaxDeaths,      \* bound: deaths of the engine
    Nobody          \* the admission lock is free

\* What stdin may hold: of what is no frame only the form counts.
Line ==
    [form : {"garbage", "blank", "frame"}, id : BOOLEAN, method : STRING, meta : Metas,
     call : [tool : STRING, args : SUBSET DOMAIN Demanding, row : BOOLEAN, large : BOOLEAN,
             target : Nat]]

Routes == {"status", "campaigns", "campaign", "ledger", "workspace", "analyze"}

\* What an HTTP request may ask: id tells whether its id is well formed.
HopAsk ==
    [bearer : BOOLEAN, route : Routes, headers : CoreHeaders, id : BOOLEAN,
     improvement : {"none", "good", "bad"}, target : Nat]

ASSUME GatewayAssumption ==
    /\ Lines \subseteq Line
    /\ Asks \subseteq HopAsk /\ Asks # {}
    /\ MaxLines \in Nat /\ MaxDeaths \in Nat
    /\ MaxActive \in Nat \ {0}
    /\ Existing \in Seq(Scopes \ {NoScope})
    /\ Hops \intersect Nat = {}
    /\ Nobody \notin Hops \union Nat

VARIABLES
    serving,        \* the session: starting, reading, calling, closed
    legacy,         \* legacy_initialized
    lines,          \* the lines read so far
    answers,        \* the frames written to stdout
    hops,           \* the HTTP handlers
    calls,          \* the engine's request of each line and each hop
    campaigns,      \* the engine's campaigns, by id
    lock,           \* who holds _CAMPAIGN_ADMISSION_LOCK
    up,             \* does an engine answer?
    deaths,         \* how often it died
    events          \* the workspace.created events that Core received

vars == <<serving, legacy, lines, answers, hops, calls, campaigns, lock, up,
          deaths, events>>

engine == <<campaigns, lock, up, deaths>>
session == <<serving, legacy, lines, answers>>

Clients == Hops \union (1 .. MaxLines)

Replies == {"done", "refused", "failed", "raw", "unreachable"}

Call ==
    [stage : {"none", "sent", "admitted", "running", "checked", "answered"},
     kind : Kinds, scope : Scopes, target : Nat, reply : Replies \union {"none"}]

NoCall ==
    [stage |-> "none", kind |-> "catalog", scope |-> NoScope, target |-> 0, reply |-> "none"]

Campaign ==
    [owner : Scopes \ {NoScope}, status : {"active", "running", "closed"},
     by : Clients \union {Nobody}, hands : SUBSET Clients]

Answer ==
    [line : Nat, method : STRING, mode : {"legacy", "modern", "refused"},
     body : Replies \union {"error", "local"},
     stamp : [modern : BOOLEAN, cacheable : BOOLEAN]]

HopStages == {"idle", "waking", "woken", "calling", "emitting", "answered"}

HopReplies == Replies \union {"none", "unauthorized", "invalid", "dependency"}

(***************************************************************************)
(* A request of the engine.                                                *)
(***************************************************************************)
InEngine(call) == call.stage \in {"sent", "admitted", "running", "checked"}

\* Somebody still waits for what the engine answers to r.
Awaited(r) ==
    IF r \in Hops THEN hops[r].stage = "calling" ELSE serving = "calling" /\ r = Len(lines)

\* get, post and put of mcp.rs, proxy_get and proxy_post of api.rs.
Send(r, kind, scope, target) ==
    calls' = [calls EXCEPT ![r] =
        [stage |-> IF up THEN "sent" ELSE "answered", kind |-> kind, scope |-> scope,
         target |-> target, reply |-> IF up THEN "none" ELSE "unreachable"]]

Reply(r, reply) ==
    calls' = [calls EXCEPT ![r].stage = "answered", ![r].reply = reply]

Advance(r, stage) == calls' = [calls EXCEPT ![r].stage = stage]

(***************************************************************************)
(* The MCP session.                                                        *)
(***************************************************************************)
ScopeOf(line) == FromMcpMeta(line.meta.caller)

\* request_is_modern; what is no frame negotiates nothing.
ModeOf(line) == IF line.form = "frame" THEN Negotiate(line, legacy) ELSE "refused"

\* handle_frame: nothing, an error, a result of its own, or an engine request.
Reaction(line) ==
    IF line.form = "garbage" THEN "error"
    ELSE IF line.form = "blank" \/ ~line.id THEN "nothing"
    ELSE IF ModeOf(line) = "refused" THEN "error"
    ELSE IF line.method \in LocalMethods(ModeOf(line)) THEN "local"
    ELSE IF /\ line.method = "tools/call"
            /\ ScopeOf(line) # NoScope \/ line.call.tool = "list_experiments"
            /\ WellFormed(line.call)
         THEN IF TooLarge(line.call) THEN "local" ELSE "call"
    ELSE "error"

Write(line, n, mode, body) ==
    answers' = Append(answers,
        [line |-> n, method |-> line.method, mode |-> mode, body |-> body,
         stamp |-> Stamp(mode, line.method, body # "error")])

\* The startup of an engine: what ran in the one before is active again.
Repaired ==
    [i \in DOMAIN campaigns |->
        IF campaigns[i].status = "running" THEN [campaigns[i] EXCEPT !.status = "active"]
        ELSE campaigns[i]]

EnsureReady ==
    /\ up' = TRUE
    /\ campaigns' = IF up THEN campaigns ELSE Repaired

\* main in MCP mode: the only time the session looks after its engine.
Launch ==
    /\ serving = "starting"
    /\ \/ EnsureReady /\ serving' = "reading"
       \/ serving' = "closed" /\ UNCHANGED <<up, campaigns>>
    /\ UNCHANGED <<legacy, lines, answers, hops, calls, lock, deaths, events>>

\* One turn of the loop, up to the engine request if the line makes one.  At the
\* end of its input the loop reads no more.
ReadLine(line) ==
    LET n == Len(lines) + 1
        mode == ModeOf(line)
    IN  /\ serving = "reading"
        /\ n <= MaxLines
        /\ lines' = Append(lines, line)
        /\ \/ /\ Reaction(line) = "nothing"
              /\ UNCHANGED <<serving, legacy, answers, calls>>
           \/ /\ Reaction(line) \in {"error", "local"}
              /\ Write(line, n, mode, Reaction(line))
              /\ legacy' = (legacy \/ Opens(line, mode))
              /\ UNCHANGED <<serving, calls>>
           \/ /\ Reaction(line) = "call"
              /\ Send(n, EngineKind(line.call), ScopeOf(line), line.call.target)
              /\ serving' = "calling"
              /\ UNCHANGED <<legacy, answers>>
        /\ UNCHANGED <<hops, engine, events>>

\* parse and unavailable: whatever the engine did is a result.
Respond ==
    LET n == Len(lines) IN
    /\ serving = "calling"
    /\ calls[n].stage = "answered"
    /\ Write(lines[n], n, ModeOf(lines[n]), calls[n].reply)
    /\ serving' = "reading"
    /\ UNCHANGED <<legacy, lines, hops, calls, engine, events>>

(***************************************************************************)
(* The HTTP handlers.                                                      *)
(***************************************************************************)
Move(h, stage) == hops' = [hops EXCEPT ![h].stage = stage]

Close(h, reply) == hops' = [hops EXCEPT ![h].stage = "answered", ![h].reply = reply]

\* What a handler checks before it wakes the engine.
InvalidEarly(ask) ==
    \/ ask.route = "workspace" /\ ask.improvement = "bad"
    \/ ask.route = "analyze" /\ ~ask.id

HopKind(route) ==
    IF route = "status" THEN "catalog"
    ELSE IF route = "campaigns" THEN "list"
    ELSE IF route = "workspace" THEN "init"
    ELSE IF route = "analyze" THEN "propose" ELSE "read"

SendHop(h, ask) == Send(h, HopKind(ask.route), FromCoreHeaders(ask.headers), ask.target)

\* require_ext_token, the handler's own checks, and research_status, which asks
\* for the catalog of an engine that answers and never starts one.
Arrive(h, ask) ==
    LET arrived(stage, reply) == hops' = [hops EXCEPT ![h] =
            [stage |-> stage, ask |-> ask, reply |-> reply]]
    IN  /\ hops[h].stage = "idle"
        /\ \/ /\ ~ask.bearer
              /\ arrived("answered", "unauthorized")
              /\ UNCHANGED calls
           \/ /\ ask.bearer /\ InvalidEarly(ask)
              /\ arrived("answered", "invalid")
              /\ UNCHANGED calls
           \/ /\ ask.bearer /\ ask.route = "status"
              /\ arrived("answered", "done")
              /\ UNCHANGED calls
           \/ /\ ask.bearer /\ ask.route = "status" /\ up
              /\ arrived("calling", "none")
              /\ SendHop(h, ask)
           \/ /\ ask.bearer /\ ask.route # "status" /\ ~InvalidEarly(ask)
              /\ arrived("waking", "none")
              /\ UNCHANGED calls
        /\ UNCHANGED <<session, engine, events>>

\* wake_engine: a failure is logged and the handler goes on.
Wake(h) ==
    /\ hops[h].stage = "waking"
    /\ EnsureReady \/ UNCHANGED <<up, campaigns>>
    /\ Move(h, "woken")
    /\ UNCHANGED <<session, calls, lock, deaths, events>>

Forward(h) ==
    LET ask == hops[h].ask IN
    /\ hops[h].stage = "woken"
    /\ \/ /\ ask.route = "campaign" /\ ~ask.id
          /\ Close(h, "invalid")
          /\ UNCHANGED calls
       \/ /\ ask.route = "campaign" => ask.id
          /\ SendHop(h, ask)
          /\ Move(h, "calling")
    /\ UNCHANGED <<session, engine, events>>

\* pass_through and unreachable_err; the catalog is optional, and next_variant
\* makes one error of all.
HopReply(route, reply) ==
    IF route = "status" THEN "done"
    ELSE IF route = "analyze" /\ reply # "done" THEN "dependency" ELSE reply

\* A bug in research_init_workspace: any 2xx raises the event.
AnnouncesMutant(route, reply) == route = "workspace" /\ reply \in {"done", "raw"}

\* The event is raised when the answer names the new workspace.
Announces(route, reply) == route = "workspace" /\ reply = "done"

Receive(h) ==
    LET route == hops[h].ask.route
        reply == calls[h].reply
    IN  /\ hops[h].stage = "calling"
        /\ calls[h].stage = "answered"
        /\ IF Announces(route, reply) THEN Move(h, "emitting")
           ELSE Close(h, HopReply(route, reply))
        /\ UNCHANGED <<session, calls, engine, events>>

\* A bug in unreachable_err: a request that gave up was never made.
TimeoutReplyMutant(route) == HopReply(route, "refused")

TimeoutReply(route) == HopReply(route, "unreachable")


\* The thirty seconds may end wherever the engine is with the request.
GivesUp(call) == InEngine(call)

\* The client of 30 seconds gives up; the engine does not.
Timeout(h) ==
    /\ hops[h].stage = "calling"
    /\ GivesUp(calls[h])
    /\ Close(h, TimeoutReply(hops[h].ask.route))
    /\ UNCHANGED <<session, calls, engine, events>>

\* The workspace_id in an answer, if its body arrived.
IdIn(call) == IF call.reply = "done" THEN call.target ELSE 0

\* emit is best effort.
Emit(h) ==
    /\ hops[h].stage = "emitting"
    /\ events' = Append(events, IdIn(calls[h])) \/ UNCHANGED events
    /\ Close(h, calls[h].reply)
    /\ UNCHANGED <<session, calls, engine>>

(***************************************************************************)
(* The engine.                                                             *)
(***************************************************************************)
\* _caller_scope and _authorize_path.
Entitled(call) ==
    \/ call.kind = "catalog"
    \/ /\ call.scope # NoScope
       /\ \/ call.kind \in {"list", "init"}
          \/ /\ call.target \in DOMAIN campaigns
             /\ MaySee(call.scope, campaigns[call.target].owner)

\* A request the engine takes up, of a kind in kinds.
Taken(r, kinds) ==
    /\ calls[r].stage = "sent"
    /\ calls[r].kind \in kinds
    /\ Entitled(calls[r])

\* r changes the campaign it addresses, and leaves it in a status.
Touch(r, status) ==
    campaigns' = [campaigns EXCEPT
        ![calls[r].target].status = status,
        ![calls[r].target].hands = @ \union {r}]

\* 403, 404, or an error of the operation before it changes anything.
Refuse(r, reply) ==
    /\ calls[r].stage = "sent"
    /\ calls[r].kind # "catalog"
    /\ reply \in {"refused", "failed"}
    /\ Reply(r, reply)
    /\ UNCHANGED <<session, hops, engine, events>>

Read(r) ==
    /\ Taken(r, {"catalog", "list", "read"})
    /\ Reply(r, "done")
    /\ UNCHANGED <<session, hops, engine, events>>

\* A write, a verdict, a row or a proposal; it may raise after its commit.
Change(r, reply) ==
    /\ Taken(r, {"write", "propose"})
    /\ reply \in {"done", "failed"}
    /\ Touch(r, campaigns[calls[r].target].status)
    /\ Reply(r, reply)
    /\ UNCHANGED <<session, hops, lock, up, deaths, events>>

Active == {i \in DOMAIN campaigns : campaigns[i].status = "active"}

\* A bug in _init_workspace: one too many is admitted.
HasRoomMutant(active) == Cardinality(active) <= MaxActive

HasRoom(active) == Cardinality(active) < MaxActive

LockFree(holder) == holder = Nobody

\* _init_workspace counts the active campaigns under the admission lock.
Admit(r) ==
    /\ Taken(r, {"init"})
    /\ LockFree(lock)
    /\ \/ /\ HasRoom(Active)
          /\ lock' = r
          /\ Advance(r, "admitted")
       \/ /\ ~HasRoom(Active)
          /\ Reply(r, "refused")
          /\ UNCHANGED lock
    /\ UNCHANGED <<session, hops, campaigns, up, deaths, events>>

\* init_workspace ends in create_campaign, and may raise after it.
Create(r, reply) ==
    /\ calls[r].stage = "admitted"
    /\ reply \in {"done", "failed"}
    /\ campaigns' = Append(campaigns,
           [owner |-> calls[r].scope, status |-> "active", by |-> r, hands |-> {r}])
    /\ calls' = [calls EXCEPT ![r].stage = "answered", ![r].reply = reply,
                              ![r].target = Len(campaigns) + 1]
    /\ lock' = Nobody
    /\ UNCHANGED <<session, hops, up, deaths, events>>

\* The copy, git or the row raises before the campaign is committed.
CreateRaises(r, reply) ==
    /\ calls[r].stage = "admitted"
    /\ reply \in {"refused", "failed"}
    /\ Reply(r, reply)
    /\ lock' = Nobody
    /\ UNCHANGED <<session, hops, campaigns, up, deaths, events>>

Runs(i) == \E r \in Clients : calls[r].stage = "running" /\ calls[r].target = i

\* run_experiment under the run lock, which it does not wait for.
StartRun(r) ==
    /\ Taken(r, {"run"})
    /\ campaigns[calls[r].target].status = "active"
    /\ ~ \E s \in Clients : calls[s].stage = "running"
    /\ Touch(r, "running")
    /\ Advance(r, "running")
    /\ UNCHANGED <<session, hops, lock, up, deaths, events>>

\* The verdict leaves the campaign active or stops it.
FinishRun(r, status, reply) ==
    /\ calls[r].stage = "running"
    /\ status \in {"active", "closed"}
    /\ reply \in {"done", "failed"}
    /\ Touch(r, status)
    /\ Reply(r, reply)
    /\ UNCHANGED <<session, hops, lock, up, deaths, events>>

\* set_campaign_status looks for a running attempt ...
CheckStatus(r) ==
    /\ Taken(r, {"finish"})
    /\ IF Runs(calls[r].target) THEN Reply(r, "refused") ELSE Advance(r, "checked")
    /\ UNCHANGED <<session, hops, engine, events>>

\* ... and updates the row in a later transaction.
SetStatus(r) ==
    /\ calls[r].stage = "checked"
    /\ Touch(r, "closed")
    /\ Reply(r, "done")
    /\ UNCHANGED <<session, hops, lock, up, deaths, events>>

\* The requests that the death of the engine cuts.
Cut(call) == InEngine(call)

\* The engine dies.  Requests it has are cut, and so may be answers on their
\* way; of a 2xx whose body is cut the client makes {"raw": ""}.
Die(cut, raw) ==
    /\ up
    /\ deaths < MaxDeaths
    /\ \A r \in raw : calls[r].reply = "done"
    /\ up' = FALSE
    /\ deaths' = deaths + 1
    /\ lock' = Nobody
    /\ calls' = [r \in Clients |->
           IF r \in raw THEN [calls[r] EXCEPT !.reply = "raw"]
           ELSE IF r \in cut \/ Cut(calls[r])
                THEN [calls[r] EXCEPT !.stage = "answered", !.reply = "unreachable"]
           ELSE calls[r]]
    /\ UNCHANGED <<session, hops, campaigns, events>>

(***************************************************************************)
(* The specification.                                                      *)
(***************************************************************************)
AnAsk == CHOOSE ask \in Asks : TRUE

Init ==
    /\ serving = "starting"
    /\ legacy = FALSE
    /\ lines = <<>>
    /\ answers = <<>>
    /\ hops = [h \in Hops |-> [stage |-> "idle", ask |-> AnAsk, reply |-> "none"]]
    /\ calls = [r \in Clients |-> NoCall]
    /\ campaigns = [i \in DOMAIN Existing |->
           [owner |-> Existing[i], status |-> "active", by |-> Nobody, hands |-> {}]]
    /\ lock = Nobody
    /\ up = FALSE
    /\ deaths = 0
    /\ events = <<>>

Session == Launch \/ Respond \/ \E line \in Lines : ReadLine(line)

Handle(h) == Wake(h) \/ Forward(h) \/ Receive(h) \/ Timeout(h) \/ Emit(h)

Hop(h) == (\E ask \in Asks : Arrive(h, ask)) \/ Handle(h)

Serve(r) ==
    /\ up
    /\ \/ Read(r) \/ Admit(r) \/ StartRun(r) \/ CheckStatus(r) \/ SetStatus(r)
       \/ \E reply \in Replies :
              \/ Refuse(r, reply) \/ Change(r, reply)
              \/ Create(r, reply) \/ CreateRaises(r, reply)
              \/ \E status \in {"active", "closed"} : FinishRun(r, status, reply)

\* The answers that nobody has read yet.
OnTheirWay == {r \in Clients : Awaited(r) /\ calls[r].stage = "answered"}

EngineDies == \E cut \in SUBSET OnTheirWay : \E raw \in SUBSET cut : Die(cut, raw)

Next ==
    \/ Session
    \/ \E h \in Hops : Hop(h)
    \/ \E r \in Clients : Serve(r)
    \/ EngineDies

\* The handlers and the session take their steps.  Nothing makes a client send, or
\* the engine die, or the engine serve: a commit, a git command or a run in it may
\* hang for ever, as workspaces._git sets no limit.
Fairness ==
    /\ \A h \in Hops : WF_vars(Handle(h))
    /\ WF_vars(Respond)

Spec == Init /\ [][Next]_vars /\ Fairness

(***************************************************************************)
(* Correctness.                                                            *)
(***************************************************************************)
TypeOK ==
    /\ serving \in {"starting", "reading", "calling", "closed"}
    /\ legacy \in BOOLEAN
    /\ lines \in Seq(Lines) /\ Len(lines) <= MaxLines
    /\ answers \in Seq(Answer)
    /\ hops \in [Hops -> [stage : HopStages, ask : Asks, reply : HopReplies]]
    /\ calls \in [Clients -> Call]
    /\ campaigns \in Seq(Campaign)
    /\ lock \in Clients \union {Nobody}
    /\ up \in BOOLEAN
    /\ deaths \in 0 .. MaxDeaths
    /\ events \in Seq(Nat)

\* The loop is at the last line, and its frames come in the order of the lines.
InOrder ==
    /\ serving = "starting" => lines = <<>>
    /\ serving = "calling" => lines # <<>>
    /\ \A i \in DOMAIN answers :
           /\ answers[i].line \in 1 .. Len(lines)
           /\ \A j \in 1 .. i - 1 : answers[j].line < answers[i].line
           /\ serving = "calling" => answers[i].line < Len(lines)

\* Whoever is in the engine made a request; the lock is held while admitting.
Holding ==
    /\ \A r \in Clients : calls[r].stage = "admitted" <=> lock = r
    /\ \A r, s \in Clients :
           calls[r].stage = "running" /\ calls[s].stage = "running" => r = s
    /\ ~up => \A r \in Clients : ~InEngine(calls[r])

IsOpening(answer) ==
    answer.method = "initialize" /\ answer.mode = "legacy" /\ answer.body = "local"

\* Nobody gets a legacy answer before a legacy initialize has been answered
\* (request_is_modern and handle_frame_with_legacy_state, mcp_stdio.rs): not
\* through a notification, a refused initialize, or a modern request.
NegotiatedFirst ==
    \A i \in DOMAIN answers :
        answers[i].mode = "legacy" => \E j \in 1 .. i : IsOpening(answers[j])

\* Types, the negotiation and the order of the session's frames, and who is in the
\* engine: two handlers never count the campaigns at once, nor run two attempts.
IInv == TypeOK /\ InOrder /\ NegotiatedFirst /\ Holding

\* Core vouches for the node in r, or for a user.
OfNode(r) ==
    IF r \in Hops
    THEN hops[r].ask.headers.user = Absent /\ ~hops[r].ask.headers.agent
    ELSE lines[r].meta.caller.kind = "node"

OfUser(r, user) ==
    IF r \in Hops THEN hops[r].ask.headers.user = user
    ELSE lines[r].meta.caller.kind = "user" /\ lines[r].meta.caller.user = user

\* A request that Core made, and that asks for an answer.
Genuine(r) ==
    IF r \in Hops THEN hops[r].ask.bearer ELSE lines[r].form = "frame" /\ lines[r].id

\* Whoever changed a campaign is its owner or the node, in the words of Core and
\* not of the request's arguments, and a campaign belongs to whom it was made for
\* (caller.rs; authorize_campaign).
EffectsHaveTheirCaller ==
    \A i \in DOMAIN campaigns :
        /\ \A r \in campaigns[i].hands :
               Genuine(r) /\ (OfNode(r) \/ OfUser(r, campaigns[i].owner))
        /\ campaigns[i].by # Nobody =>
               (campaigns[i].owner = Node <=> OfNode(campaigns[i].by))

MadeBy(r) == {i \in DOMAIN campaigns : campaigns[i].by = r}

TouchedBy(r) == {i \in DOMAIN campaigns : r \in campaigns[i].hands}

\* What r was told, if it was told anything.
Told(r) ==
    IF r \in Hops THEN {hops[r].reply} \ {"none"}
    ELSE {answers[i].body : i \in {j \in DOMAIN answers : answers[j].line = r}}

\* A request that was told it is malformed or unauthorized never changes a
\* campaign, also not later; one whose workspace was refused never gets it; one
\* that was told of a workspace has exactly that one.  A request that gave up, or
\* whose engine died, may be told "unreachable" and still have changed something.
AnswersAreTrue ==
    \A r \in Clients :
        /\ Told(r) \intersect {"error", "unauthorized", "invalid", "local"} # {}
               => TouchedBy(r) = {}
        /\ calls[r].kind = "init" /\ "refused" \in Told(r) => MadeBy(r) = {}
        /\ calls[r].kind = "init" /\ "done" \in Told(r) => MadeBy(r) = {calls[r].target}

\* Every workspace.created event names a campaign that the request behind it made,
\* and no campaign is announced twice (research_init_workspace, api.rs).
EventsAreTrue ==
    \A i \in DOMAIN events :
        /\ events[i] \in DOMAIN campaigns
        /\ campaigns[events[i]].by \in Hops
        /\ \A j \in 1 .. i - 1 : events[j] # events[i]

Open == {i \in DOMAIN campaigns : campaigns[i].status # "closed"}

\* However admissions, runs, verdicts, deaths and repairs interleave, at most one
\* campaign more than the limit is open (_init_workspace, server.py): the one
\* whose attempt runs is not counted.  A store that held more at first, as legacy
\* workspaces are imported without a limit, gets no more.
AdmissionHolds ==
    Cardinality(Open) <= MaxActive + 1 \/ Cardinality(Open) <= Len(Existing)

\* An engine that does not hang goes on with some request it has.
EngineServes == WF_vars(\E r \in Clients : Serve(r))

=============================================================================
