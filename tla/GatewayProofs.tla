----------------------------- MODULE GatewayProofs -----------------------------
(***************************************************************************)
(* What TLAPS proves of Gateway, for every set of HTTP requests, whatever  *)
(* the session's stdin holds, every store at the start, and every bound.   *)
(***************************************************************************)
EXTENDS Gateway, FiniteSetTheorems, SequenceTheorems, TLAPS

-----------------------------------------------------------------------------
(* Inputs.                                                                 *)

\* Nobody is no client, and a client is an HTTP request or the number of a line.
LEMMA ClientKinds ==
    /\ Nobody \notin Clients
    /\ \A h \in Hops : h \in Clients /\ h \notin Nat
    /\ \A r \in Clients : r \notin Hops => r \in 1 .. MaxLines
    /\ MaxLines \in Nat
BY GatewayAssumption DEF Clients

\* The kinds of requests, spelled out.
LEMMA KindsAre ==
    Kinds = {"catalog", "list", "read", "write", "init", "propose", "run", "finish"}
BY DEF Kinds, Requests

\* Every well formed call is of one of them.
LEMMA CallsHaveAKind ==
    ASSUME NEW call, WellFormed(call)
    PROVE  EngineKind(call) \in Kinds
<1>1. \E kind \in Kinds : call.tool \in Requests[kind]
    BY KindsAre DEF WellFormed, Tools, ReadTools, MutatingTools, ExecutingTools, Requests
<1>2. (CHOOSE kind \in Kinds : call.tool \in Requests[kind]) \in Kinds
    BY <1>1
<1>3. QED
    BY <1>2, KindsAre DEF EngineKind

\* Core's stamp makes a scope.
LEMMA LineScope ==
    ASSUME NEW line \in Lines
    PROVE  ScopeOf(line) \in Scopes
<1>1. line \in Line
    BY GatewayAssumption
<1>2. line.meta.caller.user \in Ids
    BY <1>1 DEF Line, Metas, McpCallers
<1>3. QED
    BY <1>2 DEF ScopeOf, FromMcpMeta, UserScope, Scopes

\* So do the headers of a hop, and its route is a kind of request.
LEMMA HopScope ==
    ASSUME NEW ask \in Asks
    PROVE  /\ FromCoreHeaders(ask.headers) \in Scopes
           /\ HopKind(ask.route) \in Kinds
           /\ HopKind(ask.route) = "init" <=> ask.route = "workspace"
           /\ ask.target \in Nat
<1>1. ask \in HopAsk
    BY GatewayAssumption
<1>2. ask.headers.user \in Ids /\ ask.route \in Routes /\ ask.target \in Nat
    BY <1>1 DEF HopAsk, CoreHeaders
<1>3. QED
    BY <1>2, KindsAre DEF FromCoreHeaders, UserScope, Scopes, HopKind, Routes

\* The scope of a line is the node's, or a user's, because Core said so.
LEMMA LineCaller ==
    ASSUME NEW line \in Lines
    PROVE  /\ ScopeOf(line) = Node <=> line.meta.caller.kind = "node"
           /\ \A user \in Users : ScopeOf(line) = user =>
                  line.meta.caller.kind = "user" /\ line.meta.caller.user = user
BY ScopeAssumption DEF ScopeOf, FromMcpMeta, UserScope

\* The scope of a hop, likewise.
LEMMA HopCaller ==
    ASSUME NEW ask \in Asks
    PROVE  /\ FromCoreHeaders(ask.headers) = Node <=>
                  ask.headers.user = Absent /\ ~ask.headers.agent
           /\ \A user \in Users :
                  FromCoreHeaders(ask.headers) = user => ask.headers.user = user
BY ScopeAssumption DEF FromCoreHeaders, UserScope

\* What a line leads to.
LEMMA Reactions ==
    ASSUME NEW line \in Lines
    PROVE  /\ Reaction(line) \in {"nothing", "error", "local", "call"}
           /\ Reaction(line) = "call" =>
                  /\ line.form = "frame" /\ line.id
                  /\ line.method = "tools/call"
                  /\ WellFormed(line.call)
           /\ Opens(line, ModeOf(line)) /\ Reaction(line) \in {"error", "local"} =>
                  Reaction(line) = "local"
           /\ ModeOf(line) \in {"legacy", "modern", "refused"}
           /\ ModeOf(line) = "legacy" => legacy \/ Opens(line, ModeOf(line))
<1>1. line.form \in {"garbage", "blank", "frame"} /\ line.id \in BOOLEAN
    BY GatewayAssumption DEF Line
<1>2. QED
    BY <1>1 DEF Reaction, Opens, ModeOf, Negotiate, IsModern, IsLegacy, LocalMethods

-----------------------------------------------------------------------------
(* The steps that the actions are made of.                                 *)

\* A request is made: it is with the engine, or answered if none is there.
LEMMA Sends ==
    ASSUME TypeOK, NEW r \in Clients, NEW kind \in Kinds, NEW scope \in Scopes,
           NEW target \in Nat, Send(r, kind, scope, target)
    PROVE  /\ calls' \in [Clients -> Call]
           /\ \A s \in Clients : s # r => calls'[s] = calls[s]
           /\ calls'[r].kind = kind /\ calls'[r].scope = scope
           /\ up => calls'[r].stage = "sent" /\ calls'[r].reply = "none"
           /\ ~up => calls'[r].stage = "answered" /\ calls'[r].reply = "unreachable"
<1> DEFINE call == [stage |-> IF up THEN "sent" ELSE "answered", kind |-> kind,
                    scope |-> scope, target |-> target,
                    reply |-> IF up THEN "none" ELSE "unreachable"]
<1>1. call \in Call
    BY DEF Call, Replies
<1>2. calls' = [calls EXCEPT ![r] = call]
    BY DEF Send
<1>3. /\ call.kind = kind /\ call.scope = scope
      /\ up => call.stage = "sent" /\ call.reply = "none"
      /\ ~up => call.stage = "answered" /\ call.reply = "unreachable"
    OBVIOUS
<1> HIDE DEF call
<1>4. QED
    BY <1>1, <1>2, <1>3 DEF TypeOK

\* A request is answered.
LEMMA Replying ==
    ASSUME TypeOK, NEW r \in Clients, NEW reply \in Replies, Reply(r, reply)
    PROVE  /\ calls' \in [Clients -> Call]
           /\ \A s \in Clients : s # r => calls'[s] = calls[s]
           /\ calls'[r].stage = "answered" /\ calls'[r].reply = reply
           /\ calls'[r].kind = calls[r].kind /\ calls'[r].scope = calls[r].scope
           /\ calls'[r].target = calls[r].target
BY DEF TypeOK, Reply, Call

\* A request moves on inside the engine.
LEMMA Advancing ==
    ASSUME TypeOK, NEW r \in Clients, NEW stage \in {"admitted", "running", "checked"},
           Advance(r, stage)
    PROVE  /\ calls' \in [Clients -> Call]
           /\ \A s \in Clients : s # r => calls'[s] = calls[s]
           /\ calls'[r].stage = stage /\ calls'[r].reply = calls[r].reply
           /\ calls'[r].kind = calls[r].kind /\ calls'[r].scope = calls[r].scope
           /\ calls'[r].target = calls[r].target
BY DEF TypeOK, Advance, Call

\* A campaign is changed by a request.
LEMMA Touching ==
    ASSUME TypeOK, NEW r \in Clients, NEW status \in {"active", "running", "closed"},
           calls[r].target \in DOMAIN campaigns, Touch(r, status)
    PROVE  /\ campaigns' \in Seq(Campaign)
           /\ DOMAIN campaigns' = DOMAIN campaigns
           /\ \A i \in DOMAIN campaigns :
                  /\ campaigns'[i].owner = campaigns[i].owner
                  /\ campaigns'[i].by = campaigns[i].by
                  /\ i # calls[r].target => campaigns'[i] = campaigns[i]
           /\ campaigns'[calls[r].target].status = status
           /\ campaigns'[calls[r].target].hands = campaigns[calls[r].target].hands \union {r}
<1> DEFINE t == calls[r].target
           row == [campaigns[t] EXCEPT !.status = status, !.hands = @ \union {r}]
<1>1. campaigns[t] \in Campaign
    BY LenProperties, ElementOfSeq DEF TypeOK
<1>2. /\ row \in Campaign
      /\ row.owner = campaigns[t].owner /\ row.by = campaigns[t].by
      /\ row.status = status /\ row.hands = campaigns[t].hands \union {r}
    BY <1>1 DEF Campaign
<1>3. campaigns' = [campaigns EXCEPT ![t] = row]
    BY DEF Touch
<1>4. t \in 1 .. Len(campaigns)
    BY LenProperties DEF TypeOK
<1> HIDE DEF row, t
<1>5. /\ campaigns' \in Seq(Campaign) /\ Len(campaigns') = Len(campaigns)
      /\ \A i \in 1 .. Len(campaigns) : campaigns'[i] = IF i = t THEN row ELSE campaigns[i]
    BY <1>2, <1>3, <1>4, ExceptSeq DEF TypeOK
<1>6. DOMAIN campaigns = 1 .. Len(campaigns) /\ DOMAIN campaigns' = 1 .. Len(campaigns)
    BY <1>5, LenProperties DEF TypeOK
<1>7. QED
    BY <1>2, <1>4, <1>5, <1>6 DEF t

\* A hop moves on, or ends with a reply.
LEMMA Moving ==
    ASSUME TypeOK, NEW h \in Hops, NEW stage \in HopStages, Move(h, stage)
    PROVE  /\ hops' \in [Hops -> [stage : HopStages, ask : Asks, reply : HopReplies]]
           /\ \A g \in Hops : g # h => hops'[g] = hops[g]
           /\ hops'[h].stage = stage /\ hops'[h].ask = hops[h].ask
           /\ hops'[h].reply = hops[h].reply
BY DEF TypeOK, Move

\* A hop ends with a reply.
LEMMA Closing ==
    ASSUME TypeOK, NEW h \in Hops, NEW reply \in HopReplies, Close(h, reply)
    PROVE  /\ hops' \in [Hops -> [stage : HopStages, ask : Asks, reply : HopReplies]]
           /\ \A g \in Hops : g # h => hops'[g] = hops[g]
           /\ hops'[h].stage = "answered" /\ hops'[h].ask = hops[h].ask
           /\ hops'[h].reply = reply
BY DEF TypeOK, Close, HopStages
\* A hop arrives.
LEMMA Arriving ==
    ASSUME TypeOK, NEW h \in Hops, NEW ask \in Asks, NEW stage \in HopStages,
           NEW reply \in HopReplies,
           hops' = [hops EXCEPT ![h] = [stage |-> stage, ask |-> ask, reply |-> reply]]
    PROVE  /\ hops' \in [Hops -> [stage : HopStages, ask : Asks, reply : HopReplies]]
           /\ \A g \in Hops : g # h => hops'[g] = hops[g]
           /\ hops'[h].stage = stage /\ hops'[h].ask = ask /\ hops'[h].reply = reply
BY DEF TypeOK

\* The startup of an engine changes no campaign but one that was running.
LEMMA Waking ==
    ASSUME TypeOK, EnsureReady
    PROVE  /\ up' = TRUE
           /\ campaigns' \in Seq(Campaign)
           /\ DOMAIN campaigns' = DOMAIN campaigns
           /\ up => campaigns' = campaigns
           /\ \A i \in DOMAIN campaigns :
                  /\ campaigns'[i].owner = campaigns[i].owner
                  /\ campaigns'[i].by = campaigns[i].by
                  /\ campaigns'[i].hands = campaigns[i].hands
                  /\ ~up => campaigns'[i].status # "running"
                  /\ campaigns'[i].status = "closed" <=> campaigns[i].status = "closed"
<1>1. CASE up
    BY <1>1 DEF EnsureReady, TypeOK
<1>2. CASE ~up
    <2>1. campaigns' = Repaired /\ up' = TRUE
        BY <1>2 DEF EnsureReady
    <2>2. /\ DOMAIN campaigns = 1 .. Len(campaigns) /\ Len(campaigns) \in Nat
          /\ \A i \in DOMAIN campaigns : campaigns[i] \in Campaign
        BY LenProperties, ElementOfSeq DEF TypeOK
    <2>3. DOMAIN campaigns' = DOMAIN campaigns
        BY <2>1 DEF Repaired
    <2>4. ASSUME NEW i \in DOMAIN campaigns
          PROVE  /\ campaigns'[i] \in Campaign
                 /\ campaigns'[i].owner = campaigns[i].owner
                 /\ campaigns'[i].by = campaigns[i].by
                 /\ campaigns'[i].hands = campaigns[i].hands
                 /\ campaigns'[i].status # "running"
                 /\ campaigns'[i].status = "closed" <=> campaigns[i].status = "closed"
        <3>1. campaigns[i] \in Campaign
            BY <2>2
        <3>2. campaigns'[i] = IF campaigns[i].status = "running"
                              THEN [campaigns[i] EXCEPT !.status = "active"] ELSE campaigns[i]
            BY <2>1 DEF Repaired
        <3>3. QED
            BY <3>1, <3>2 DEF Campaign
    <2>5. campaigns' \in Seq(Campaign)
        <3>1. campaigns' = [i \in 1 .. Len(campaigns) |-> campaigns'[i]]
            BY <2>1, <2>2, <2>3 DEF Repaired
        <3>2. \A i \in 1 .. Len(campaigns) : campaigns'[i] \in Campaign
            BY <2>2, <2>4
        <3>3. QED
            BY <2>2, <3>1, <3>2, IsASeq
    <2>6. QED
        BY <1>2, <2>1, <2>3, <2>4, <2>5
<1>3. QED
    BY <1>1, <1>2

\* A new campaign is its maker's, and is the last one.
LEMMA Creating ==
    ASSUME TypeOK, NEW r \in Clients, NEW reply \in Replies, Create(r, reply),
           calls[r].scope # NoScope
    PROVE  LET last == Len(campaigns) + 1 IN
           /\ calls' \in [Clients -> Call]
           /\ \A s \in Clients : s # r => calls'[s] = calls[s]
           /\ calls'[r].stage = "answered" /\ calls'[r].reply = reply
           /\ calls'[r].kind = calls[r].kind /\ calls'[r].scope = calls[r].scope
           /\ calls'[r].target = last
           /\ campaigns' \in Seq(Campaign)
           /\ DOMAIN campaigns' = DOMAIN campaigns \union {last}
           /\ last \notin DOMAIN campaigns
           /\ \A i \in DOMAIN campaigns : campaigns'[i] = campaigns[i]
           /\ campaigns'[last].owner = calls[r].scope /\ campaigns'[last].by = r
           /\ campaigns'[last].hands = {r} /\ campaigns'[last].status = "active"
<1> DEFINE last == Len(campaigns) + 1
           row == [owner |-> calls[r].scope, status |-> "active", by |-> r, hands |-> {r}]
<1>1. Len(campaigns) \in Nat /\ DOMAIN campaigns = 1 .. Len(campaigns)
    BY LenProperties DEF TypeOK
<1>2. row \in Campaign
    BY DEF TypeOK, Call, Campaign
<1>3. campaigns' = Append(campaigns, row)
    BY DEF Create
<1>4. /\ campaigns' \in Seq(Campaign) /\ Len(campaigns') = last
      /\ \A i \in 1 .. Len(campaigns) : campaigns'[i] = campaigns[i]
      /\ campaigns'[last] = row
    BY <1>2, <1>3, AppendProperties DEF TypeOK
<1>5. DOMAIN campaigns' = 1 .. last
    BY <1>4, LenProperties
<1>6. DOMAIN campaigns' = DOMAIN campaigns \union {last} /\ last \notin DOMAIN campaigns
    BY <1>1, <1>5
<1>7. /\ calls' \in [Clients -> Call]
      /\ \A s \in Clients : s # r => calls'[s] = calls[s]
      /\ calls'[r].stage = "answered" /\ calls'[r].reply = reply
      /\ calls'[r].kind = calls[r].kind /\ calls'[r].scope = calls[r].scope
      /\ calls'[r].target = last
    <2> DEFINE call == [calls[r] EXCEPT !.stage = "answered", !.reply = reply, !.target = last]
    <2>1. calls[r] \in Call /\ last \in Nat
        BY <1>1 DEF TypeOK
    <2>2. /\ call \in Call
          /\ call.stage = "answered" /\ call.reply = reply /\ call.target = last
          /\ call.kind = calls[r].kind /\ call.scope = calls[r].scope
        BY <2>1 DEF Call
    <2>3. calls' = [calls EXCEPT ![r].stage = "answered", ![r].reply = reply, ![r].target = last]
        BY DEF Create
    <2>4. calls' = [calls EXCEPT ![r] = call]
        BY <2>3, Zenon
    <2> HIDE DEF call
    <2>5. QED
        BY <2>2, <2>4 DEF TypeOK
<1>8. QED
    BY <1>1, <1>4, <1>6, <1>7

\* A frame is written after the others.
LEMMA Writing ==
    ASSUME TypeOK, NEW line \in Lines, NEW n \in Nat, NEW mode \in {"legacy", "modern", "refused"},
           NEW body \in Replies \union {"error", "local"}, Write(line, n, mode, body)
    PROVE  LET last == Len(answers) + 1 IN
           /\ answers' \in Seq(Answer)
           /\ Len(answers) \in Nat
           /\ DOMAIN answers = 1 .. Len(answers) /\ DOMAIN answers' = 1 .. last
           /\ \A i \in DOMAIN answers : answers'[i] = answers[i]
           /\ answers'[last].line = n /\ answers'[last].method = line.method
           /\ answers'[last].mode = mode /\ answers'[last].body = body
<1> DEFINE last == Len(answers) + 1
           frame == [line |-> n, method |-> line.method, mode |-> mode, body |-> body,
                     stamp |-> Stamp(mode, line.method, body # "error")]
<1>1. line.method \in STRING
    BY GatewayAssumption DEF Line
<1>2. Stamp(mode, line.method, body # "error") \in [modern : BOOLEAN, cacheable : BOOLEAN]
    BY DEF Stamp
<1>3. frame \in Answer
    BY <1>1, <1>2 DEF Answer
<1>4. answers' = Append(answers, frame)
    BY DEF Write
<1>5. Len(answers) \in Nat /\ DOMAIN answers = 1 .. Len(answers)
    BY LenProperties DEF TypeOK
<1>6. /\ frame.line = n /\ frame.method = line.method
      /\ frame.mode = mode /\ frame.body = body
    OBVIOUS
<1> HIDE DEF frame
<1>7. /\ answers' \in Seq(Answer) /\ Len(answers') = last
      /\ \A i \in 1 .. Len(answers) : answers'[i] = answers[i]
      /\ answers'[last] = frame
    BY <1>3, <1>4, AppendProperties DEF TypeOK
<1>8. DOMAIN answers' = 1 .. last
    BY <1>7, LenProperties
<1>9. QED
    BY <1>5, <1>6, <1>7, <1>8

\* A line is read after the others.
LEMMA Reading ==
    ASSUME TypeOK, NEW line \in Lines, lines' = Append(lines, line), Len(lines) + 1 <= MaxLines
    PROVE  LET n == Len(lines) + 1 IN
           /\ lines' \in Seq(Lines) /\ Len(lines') = n /\ n <= MaxLines
           /\ Len(lines) \in Nat
           /\ DOMAIN lines = 1 .. Len(lines) /\ DOMAIN lines' = 1 .. n
           /\ \A i \in DOMAIN lines : lines'[i] = lines[i]
           /\ lines'[n] = line
           /\ n \in Clients /\ n \notin Hops
<1>1. Len(lines) \in Nat /\ DOMAIN lines = 1 .. Len(lines)
    BY LenProperties DEF TypeOK
<1>2. /\ lines' \in Seq(Lines) /\ Len(lines') = Len(lines) + 1
      /\ \A i \in 1 .. Len(lines) : lines'[i] = lines[i]
      /\ lines'[Len(lines) + 1] = line
    BY AppendProperties DEF TypeOK
<1>3. DOMAIN lines' = 1 .. Len(lines')
    BY <1>2, LenProperties
<1>4. QED
    BY <1>1, <1>2, <1>3, ClientKinds DEF Clients

-----------------------------------------------------------------------------
(* The invariant.                                                          *)

\* A legacy session was opened by an answer, and the line that waits for the engine
\* is a call.
SessionInv ==
    /\ InOrder
    /\ NegotiatedFirst
    /\ legacy => \E i \in DOMAIN answers : IsOpening(answers[i])
    /\ serving = "calling" => Reaction(lines[Len(lines)]) = "call"

\* A request was made by Core, for the scope and the route that Core stamped, and is
\* answered once it has a reply.
Made ==
    \A r \in Clients :
        /\ calls[r].stage = "none" => calls[r].kind = "catalog"
        /\ calls[r].stage # "answered" <=> calls[r].reply = "none"
        /\ calls[r].stage # "none" =>
               /\ Genuine(r)
               /\ r \in Hops =>
                      /\ hops[r].stage \in {"calling", "emitting", "answered"}
                      /\ calls[r].scope = FromCoreHeaders(hops[r].ask.headers)
                      /\ calls[r].kind = HopKind(hops[r].ask.route)
               /\ r \notin Hops => r \in DOMAIN lines /\ calls[r].scope = ScopeOf(lines[r])

\* A handler passed require_ext_token, waits only for a request it made, and announces
\* only a workspace that was made.
Waiting ==
    /\ serving = "calling" => calls[Len(lines)].stage # "none"
    /\ \A h \in Hops :
           /\ hops[h].stage \in {"waking", "woken"} => hops[h].ask.bearer
           /\ hops[h].stage \in {"calling", "emitting"} => calls[h].stage # "none"
           /\ hops[h].stage = "emitting" =>
                  calls[h].reply = "done" /\ hops[h].ask.route = "workspace"
           /\ hops[h].stage = "answered" <=> hops[h].reply # "none"

\* Who changes a campaign may: those that did, and those that are about to.
Rightful ==
    /\ \A r \in Clients :
           /\ calls[r].stage \in {"running", "checked"} =>
                  /\ calls[r].target \in DOMAIN campaigns
                  /\ MaySee(calls[r].scope, campaigns[calls[r].target].owner)
                  /\ calls[r].kind # "init"
           /\ calls[r].stage = "admitted" => calls[r].scope # NoScope /\ calls[r].kind = "init"
    /\ \A i \in DOMAIN campaigns :
           /\ \A r \in campaigns[i].hands :
                  calls[r].stage # "none" /\ MaySee(calls[r].scope, campaigns[i].owner)
           /\ campaigns[i].by # Nobody =>
                  /\ calls[campaigns[i].by].scope = campaigns[i].owner
                  /\ calls[campaigns[i].by].stage # "none"

\* A request makes one campaign at most, its reply does not deny it, and a request
\* whose workspace was reported has it.
Owns ==
    \A r \in Clients :
        /\ MadeBy(r) # {} =>
               /\ calls[r].stage = "answered"
               /\ calls[r].reply # "refused"
               /\ MadeBy(r) = {calls[r].target}
        /\ calls[r].kind = "init" /\ calls[r].reply \in {"done", "raw"} =>
               MadeBy(r) = {calls[r].target}

\* What was told is what the engine answered, or that no request was made.
Reported ==
    /\ \A h \in Hops :
           /\ hops[h].reply \in {"unauthorized", "invalid"} => calls[h].stage = "none"
           /\ hops[h].reply \in {"refused", "done"} /\ calls[h].kind = "init" =>
                  calls[h].reply = hops[h].reply
    /\ \A i \in DOMAIN answers :
           IF answers[i].body \in {"error", "local"}
           THEN calls[answers[i].line].stage = "none"
           ELSE calls[answers[i].line].reply = answers[i].body

\* A campaign is announced by the hop that made it, when it ends.
Announced ==
    \A i \in DOMAIN events :
        /\ events[i] \in DOMAIN campaigns
        /\ campaigns[events[i]].by \in Hops
        /\ hops[campaigns[events[i]].by].stage = "answered"
        /\ \A j \in 1 .. i - 1 : events[j] # events[i]

\* The campaigns that are open, or will be when the run in progress ends.
Pending == {i \in DOMAIN campaigns : campaigns[i].status # "closed" \/ Runs(i)}

\* Whoever was admitted finds room; and a running campaign has a request that runs it,
\* until the engine dies.
Room ==
    /\ up => \A i \in DOMAIN campaigns : campaigns[i].status = "running" => Runs(i)
    /\ IF lock = Nobody
       THEN Cardinality(Pending) <= MaxActive + 1 \/ Cardinality(Pending) <= Len(Existing)
       ELSE Cardinality(Pending) <= MaxActive

GInv == /\ TypeOK
        /\ SessionInv
        /\ Holding
        /\ Made
        /\ Waiting
        /\ Rightful
        /\ Owns
        /\ Reported
        /\ Announced
        /\ Room

-----------------------------------------------------------------------------
(* What most steps leave alone.                                            *)

\* Clients and campaigns have their types.
LEMMA Typed ==
    ASSUME TypeOK
    PROVE  /\ \A r \in Clients : calls[r] \in Call
           /\ \A h \in Hops : hops[h] \in [stage : HopStages, ask : Asks, reply : HopReplies]
           /\ DOMAIN campaigns = 1 .. Len(campaigns) /\ Len(campaigns) \in Nat
           /\ \A i \in DOMAIN campaigns : campaigns[i] \in Campaign
           /\ DOMAIN lines = 1 .. Len(lines) /\ Len(lines) \in Nat
           /\ \A n \in DOMAIN lines : lines[n] \in Lines /\ n \in Clients /\ n \notin Hops
           /\ DOMAIN answers = 1 .. Len(answers) /\ Len(answers) \in Nat
           /\ \A i \in DOMAIN answers : answers[i] \in Answer
<1>1. /\ DOMAIN campaigns = 1 .. Len(campaigns) /\ Len(campaigns) \in Nat
      /\ \A i \in DOMAIN campaigns : campaigns[i] \in Campaign
    BY LenProperties, ElementOfSeq DEF TypeOK
<1>2. /\ DOMAIN lines = 1 .. Len(lines) /\ Len(lines) \in Nat
      /\ \A n \in DOMAIN lines : lines[n] \in Lines
    BY LenProperties, ElementOfSeq DEF TypeOK
<1>3. \A n \in DOMAIN lines : n \in Clients /\ n \notin Hops
    BY <1>2, ClientKinds DEF TypeOK, Clients
<1>4. /\ DOMAIN answers = 1 .. Len(answers) /\ Len(answers) \in Nat
      /\ \A i \in DOMAIN answers : answers[i] \in Answer
    BY LenProperties, ElementOfSeq DEF TypeOK
<1>5. QED
    BY <1>1, <1>2, <1>3, <1>4 DEF TypeOK

\* The session's part.
LEMMA SessionKept ==
    ASSUME SessionInv, UNCHANGED session
    PROVE  SessionInv'
BY DEF SessionInv, session, InOrder, NegotiatedFirst, IsOpening, Reaction, ModeOf, ScopeOf

\* An answer is given to a line that was read, and names what the engine said, unless
\* the engine was not asked.
LEMMA AnsweredLines ==
    ASSUME GInv, NEW i \in DOMAIN answers
    PROVE  /\ answers[i].line \in DOMAIN lines
           /\ answers[i].line \in Clients
           /\ answers[i].body \in Replies \union {"error", "local"}
           /\ answers[i].body \notin {"error", "local"} => calls[answers[i].line].stage = "answered"
<1>1. answers[i] \in Answer /\ answers[i].line \in DOMAIN lines
    BY Typed DEF GInv, SessionInv, InOrder
<1>2. answers[i].line \in Clients
    BY <1>1, Typed DEF GInv
<1>3. answers[i].body \in Replies \union {"error", "local"}
    BY <1>1 DEF Answer
<1>4. QED
    BY <1>1, <1>2, <1>3 DEF GInv, Made, Reported, Replies

\* Campaigns are kept, or changed in their status and by whom.
CampaignsStay ==
    /\ DOMAIN campaigns' = DOMAIN campaigns
    /\ \A i \in DOMAIN campaigns :
           campaigns'[i].owner = campaigns[i].owner /\ campaigns'[i].by = campaigns[i].by

\* Some are added at most.
CampaignsGrow ==
    /\ DOMAIN campaigns \subseteq DOMAIN campaigns'
    /\ \A i \in DOMAIN campaigns :
           campaigns'[i].owner = campaigns[i].owner /\ campaigns'[i].by = campaigns[i].by

\* A request moves on, or is answered, in the engine.
MovesOn(r) ==
    /\ InEngine(calls[r])
    /\ calls' \in [Clients -> Call]
    /\ \A s \in Clients : s # r => calls'[s] = calls[s]
    /\ calls'[r].stage # "none"
    /\ calls'[r].stage # "answered" <=> calls'[r].reply = "none"
    /\ calls'[r].kind = calls[r].kind /\ calls'[r].scope = calls[r].scope

\* What the engine does concerns neither who asked nor what has been told.
LEMMA EngineMoves ==
    ASSUME GInv, NEW r \in Clients, MovesOn(r), CampaignsGrow, UNCHANGED <<session, hops, events>>
    PROVE  SessionInv' /\ Made' /\ Waiting' /\ Reported' /\ Announced'
<1>1. SessionInv'
    BY SessionKept DEF GInv
<1>2. calls[r].stage \notin {"none", "answered"} /\ calls[r].reply = "none"
    BY DEF GInv, Made, MovesOn, InEngine
<1>3. Made'
    BY <1>2 DEF GInv, Made, MovesOn, session, Genuine
<1>4. Waiting'
    BY <1>2, Typed, ClientKinds DEF GInv, SessionInv, InOrder, Waiting, MovesOn, session
<1>5. Reported'
    <2>1. \A h \in Hops :
              /\ hops'[h].reply \in {"unauthorized", "invalid"} => calls'[h].stage = "none"
              /\ hops'[h].reply \in {"refused", "done"} /\ calls'[h].kind = "init" =>
                     calls'[h].reply = hops'[h].reply
        BY <1>2, ClientKinds DEF GInv, Reported, MovesOn
    <2>2. ASSUME NEW i \in DOMAIN answers
          PROVE  /\ answers[i].line # r
                 /\ answers[i].line \in Clients
        BY <1>2, AnsweredLines DEF GInv, Reported
    <2>3. \A i \in DOMAIN answers : calls'[answers[i].line] = calls[answers[i].line]
        BY <2>2 DEF MovesOn
    <2>4. QED
        BY <2>1, <2>3 DEF GInv, Reported, session
<1>6. Announced'
    BY DEF GInv, Announced, CampaignsGrow
<1>7. QED
    BY <1>1, <1>3, <1>4, <1>5, <1>6

\* Who made which campaign stays.
LEMMA MadeByStays ==
    ASSUME CampaignsStay, NEW r
    PROVE  MadeBy(r)' = MadeBy(r)
BY DEF CampaignsStay, MadeBy

\* There are finitely many campaigns.
LEMMA PendingFinite ==
    ASSUME TypeOK
    PROVE  IsFiniteSet(Pending) /\ IsFiniteSet(Active)
<1>1. IsFiniteSet(DOMAIN campaigns)
    BY Typed, FS_Interval
<1>2. QED
    BY <1>1, FS_Subset DEF Pending, Active

\* A step that opens no campaign leaves room.
LEMMA RoomKept ==
    ASSUME TypeOK, Room, Pending' \subseteq Pending, lock' \in {lock, Nobody},
           up' => \A i \in DOMAIN campaigns' : campaigns'[i].status = "running" => Runs(i)'
    PROVE  Room'
<1>1. /\ Cardinality(Pending') <= Cardinality(Pending)
      /\ Cardinality(Pending') \in Nat /\ Cardinality(Pending) \in Nat
    BY PendingFinite, FS_Subset, FS_CardinalityType
<1>2. MaxActive \in Nat /\ Len(Existing) \in Nat
    BY GatewayAssumption, LenProperties
<1>3. IF lock' = Nobody
      THEN Cardinality(Pending') <= MaxActive + 1 \/ Cardinality(Pending') <= Len(Existing)
      ELSE Cardinality(Pending') <= MaxActive
    BY <1>1, <1>2 DEF Room
<1>4. QED
    BY <1>3 DEF Room

-----------------------------------------------------------------------------
(* The engine.                                                             *)

\* A request is answered and no campaign changes; a request that ends its admission
\* releases the lock.
LEMMA Settles ==
    ASSUME GInv, up, NEW r \in Clients, NEW reply \in Replies, Reply(r, reply),
           calls[r].stage \in {"sent", "admitted", "checked"},
           calls[r].kind = "init" => reply \in {"refused", "failed"},
           lock' = IF calls[r].stage = "admitted" THEN Nobody ELSE lock,
           UNCHANGED <<session, hops, campaigns, up, deaths, events>>
    PROVE  GInv'
<1>1. /\ calls' \in [Clients -> Call]
      /\ \A s \in Clients : s # r => calls'[s] = calls[s]
      /\ calls'[r].stage = "answered" /\ calls'[r].reply = reply
      /\ calls'[r].kind = calls[r].kind /\ calls'[r].scope = calls[r].scope
      /\ calls'[r].target = calls[r].target
    BY Replying DEF GInv
<1>2. TypeOK'
    BY <1>1 DEF GInv, TypeOK, session
<1>3. MovesOn(r) /\ CampaignsGrow /\ CampaignsStay
    BY <1>1 DEF MovesOn, InEngine, CampaignsGrow, CampaignsStay, Replies
<1>4. SessionInv' /\ Made' /\ Waiting' /\ Reported' /\ Announced'
    BY <1>3, EngineMoves
<1>5. Holding'
    BY <1>1, ClientKinds DEF GInv, Holding
<1>6. Rightful'
    BY <1>1, Typed DEF GInv, Rightful, Campaign
<1>7. Owns'
    <2>1. MadeBy(r) = {}
        BY DEF GInv, Owns
    <2>2. \A s \in Clients : MadeBy(s)' = MadeBy(s)
        BY <1>3, MadeByStays
    <2>3. QED
        BY <1>1, <2>1, <2>2 DEF GInv, Owns
<1>8. Room'
    <2>1. \A j \in DOMAIN campaigns : Runs(j)' <=> Runs(j)
        BY <1>1 DEF Runs
    <2>2. Pending' = Pending
        BY <2>1 DEF Pending
    <2>3. QED
        BY <2>1, <2>2, RoomKept DEF GInv, Room
<1>9. QED
    BY <1>2, <1>4, <1>5, <1>6, <1>7, <1>8 DEF GInv

\* An entitled request for a campaign may see it.
LEMMA EntitledSees ==
    ASSUME TypeOK, NEW r \in Clients, Entitled(calls[r]),
           calls[r].kind \in {"read", "write", "propose", "run", "finish"}
    PROVE  /\ calls[r].target \in DOMAIN campaigns
           /\ MaySee(calls[r].scope, campaigns[calls[r].target].owner)
BY DEF Entitled

\* With an engine, one campaign at most is pending that is not counted as active.
LEMMA OneBesideActive ==
    ASSUME GInv, up
    PROVE  Cardinality(Pending) <= Cardinality(Active) + 1
<1>1. ASSUME NEW i \in Pending, i \notin Active
      PROVE  Runs(i)
    BY <1>1, Typed DEF GInv, Room, Pending, Active, Campaign
<1>2. \A i, j \in DOMAIN campaigns : Runs(i) /\ Runs(j) => i = j
    BY DEF GInv, Holding, Runs
<1>3. /\ IsFiniteSet(Pending) /\ IsFiniteSet(Active)
      /\ Cardinality(Pending) \in Nat /\ Cardinality(Active) \in Nat
    BY PendingFinite, FS_CardinalityType DEF GInv
<1>4. CASE Pending \subseteq Active
    BY <1>3, <1>4, FS_Subset
<1>5. CASE ~(Pending \subseteq Active)
    <2>1. PICK i \in Pending : i \notin Active
        BY <1>5
    <2>2. Pending \subseteq Active \union {i}
        BY <1>1, <1>2, <2>1 DEF Pending
    <2>3. /\ IsFiniteSet(Active \union {i})
          /\ Cardinality(Active \union {i}) = Cardinality(Active) + 1
        BY <1>3, <2>1, FS_AddElement
    <2>4. Cardinality(Pending) <= Cardinality(Active \union {i})
        BY <2>2, <2>3, FS_Subset
    <2>5. QED
        BY <2>3, <2>4
<1>6. QED
    BY <1>4, <1>5

\* A request takes the admission lock, under which it found room, or looks at a
\* campaign it may finish.
LEMMA Advances ==
    ASSUME GInv, up, NEW r \in Clients, NEW stage \in {"admitted", "checked"},
           Advance(r, stage), calls[r].stage = "sent", Entitled(calls[r]),
           stage = "admitted" =>
               calls[r].kind = "init" /\ lock = Nobody /\ HasRoom(Active) /\ lock' = r,
           stage = "checked" => calls[r].kind = "finish" /\ lock' = lock,
           UNCHANGED <<session, hops, campaigns, up, deaths, events>>
    PROVE  GInv'
<1>1. /\ calls' \in [Clients -> Call]
      /\ \A s \in Clients : s # r => calls'[s] = calls[s]
      /\ calls'[r].stage = stage /\ calls'[r].reply = calls[r].reply
      /\ calls'[r].kind = calls[r].kind /\ calls'[r].scope = calls[r].scope
      /\ calls'[r].target = calls[r].target
    BY Advancing DEF GInv
<1>2. calls[r].reply = "none" /\ MadeBy(r) = {}
    BY DEF GInv, Made, Owns
<1>3. TypeOK'
    BY <1>1 DEF GInv, TypeOK, session
<1>4. MovesOn(r) /\ CampaignsGrow /\ CampaignsStay
    BY <1>1, <1>2 DEF MovesOn, InEngine, CampaignsGrow, CampaignsStay
<1>5. SessionInv' /\ Made' /\ Waiting' /\ Reported' /\ Announced'
    BY <1>4, EngineMoves
<1>6. Holding'
    BY <1>1, ClientKinds DEF GInv, Holding
<1>7. Rightful'
    <2>1. calls[r].kind = "init" => calls[r].scope # NoScope
        BY DEF Entitled
    <2>2. calls[r].kind = "finish" =>
              /\ calls[r].target \in DOMAIN campaigns
              /\ MaySee(calls[r].scope, campaigns[calls[r].target].owner)
        BY EntitledSees DEF GInv
    <2>3. QED
        BY <1>1, <2>1, <2>2, Typed DEF GInv, Rightful, Campaign
<1>8. Owns'
    <2>1. \A s \in Clients : MadeBy(s)' = MadeBy(s)
        BY <1>4, MadeByStays
    <2>2. QED
        BY <1>1, <1>2, <2>1 DEF GInv, Owns
<1>9. Room'
    <2>1. \A j \in DOMAIN campaigns : Runs(j)' <=> Runs(j)
        BY <1>1 DEF Runs
    <2>2. Pending' = Pending
        BY <2>1 DEF Pending
    <2>3. CASE stage = "checked"
        BY <2>1, <2>2, <2>3, RoomKept DEF GInv, Room
    <2>4. CASE stage = "admitted"
        <3>1. Cardinality(Active) + 1 <= MaxActive
            <4>1. Cardinality(Active) \in Nat /\ MaxActive \in Nat
                BY PendingFinite, FS_CardinalityType, GatewayAssumption DEF GInv
            <4>2. QED
                BY <2>4, <4>1 DEF HasRoom
        <3>2. Cardinality(Pending) <= MaxActive
            <4>1. /\ Cardinality(Active) \in Nat /\ Cardinality(Pending) \in Nat
                  /\ MaxActive \in Nat
                BY PendingFinite, FS_CardinalityType, GatewayAssumption DEF GInv
            <4>2. QED
                BY <3>1, <4>1, OneBesideActive
        <3>3. lock' # Nobody
            BY <2>4, ClientKinds
        <3>4. QED
            BY <2>1, <2>2, <3>2, <3>3 DEF GInv, Room
    <2>5. QED
        BY <2>3, <2>4
<1>10. QED
    BY <1>3, <1>5, <1>6, <1>7, <1>8, <1>9 DEF GInv

\* A request changes a campaign it may see: it starts or ends a run of it, or does
\* anything else to it.
LEMMA Changes ==
    ASSUME GInv, up, NEW r \in Clients, NEW status \in {"active", "running", "closed"},
           Touch(r, status), calls[r].target \in DOMAIN campaigns,
           MaySee(calls[r].scope, campaigns[calls[r].target].owner), calls[r].kind # "init",
           \/ /\ calls[r].stage = "sent" /\ campaigns[calls[r].target].status = "active"
              /\ ~ \E s \in Clients : calls[s].stage = "running"
              /\ Advance(r, "running") /\ status = "running"
           \/ /\ \/ calls[r].stage = "sent" /\ status = campaigns[calls[r].target].status
                 \/ calls[r].stage = "running" /\ status # "running"
                 \/ calls[r].stage = "checked" /\ status = "closed"
              /\ \E reply \in Replies : Reply(r, reply),
           UNCHANGED <<session, hops, lock, up, deaths, events>>
    PROVE  GInv'
<1> DEFINE t == calls[r].target
<1>1. /\ campaigns' \in Seq(Campaign)
      /\ DOMAIN campaigns' = DOMAIN campaigns
      /\ \A j \in DOMAIN campaigns :
             /\ campaigns'[j].owner = campaigns[j].owner
             /\ campaigns'[j].by = campaigns[j].by
             /\ j # t => campaigns'[j] = campaigns[j]
      /\ campaigns'[t].status = status
      /\ campaigns'[t].hands = campaigns[t].hands \union {r}
    BY Touching DEF GInv
<1>2. /\ calls' \in [Clients -> Call]
      /\ \A s \in Clients : s # r => calls'[s] = calls[s]
      /\ calls'[r].stage \in {"running", "answered"}
      /\ calls'[r].stage = "answered" <=> calls'[r].reply # "none"
      /\ calls'[r].kind = calls[r].kind /\ calls'[r].scope = calls[r].scope
      /\ calls'[r].target = t
      /\ calls'[r].stage = "running" =>
             /\ status = "running" /\ campaigns[t].status = "active"
             /\ \A s \in Clients : calls[s].stage # "running"
      /\ calls'[r].stage # "running" =>
             \/ calls[r].stage # "running" /\ status \in {campaigns[t].status, "closed"}
             \/ calls[r].stage = "running" /\ status # "running"
      /\ calls[r].stage \in {"sent", "running", "checked"}
    <2>1. calls[r].reply = "none"
        BY DEF GInv, Made, InEngine
    <2>2. CASE /\ calls[r].stage = "sent" /\ campaigns[t].status = "active"
               /\ ~ \E s \in Clients : calls[s].stage = "running"
               /\ Advance(r, "running") /\ status = "running"
        BY <2>1, <2>2, Advancing DEF GInv
    <2>3. CASE /\ \/ calls[r].stage = "sent" /\ status = campaigns[t].status
                  \/ calls[r].stage = "running" /\ status # "running"
                  \/ calls[r].stage = "checked" /\ status = "closed"
               /\ \E reply \in Replies : Reply(r, reply)
        BY <2>1, <2>3, Replying DEF GInv, Replies
    <2>4. QED
        BY <2>2, <2>3
<1> HIDE DEF t
<1>3. TypeOK'
    BY <1>1, <1>2 DEF GInv, TypeOK, session
<1>4. MovesOn(r) /\ CampaignsGrow /\ CampaignsStay
    BY <1>1, <1>2 DEF MovesOn, InEngine, CampaignsGrow, CampaignsStay
<1>5. SessionInv' /\ Made' /\ Waiting' /\ Reported' /\ Announced'
    BY <1>4, EngineMoves
<1>6. Holding'
    <2>1. calls[r].stage \notin {"none", "answered", "admitted"}
        BY <1>2
    <2>2. QED
        BY <1>2, <2>1 DEF GInv, Holding
<1>7. Rightful'
    <2>1. calls[r].stage \notin {"none", "answered", "admitted"}
        BY <1>2
    <2>2. \A s \in Clients :
              /\ calls'[s].stage \in {"running", "checked"} =>
                     /\ calls'[s].target \in DOMAIN campaigns'
                     /\ MaySee(calls'[s].scope, campaigns'[calls'[s].target].owner)
                     /\ calls'[s].kind # "init"
              /\ calls'[s].stage = "admitted" => calls'[s].scope # NoScope /\ calls'[s].kind = "init"
        BY <1>1, <1>2 DEF GInv, Rightful, t
    <2>3. ASSUME NEW j \in DOMAIN campaigns', NEW s \in campaigns'[j].hands
          PROVE  calls'[s].stage # "none" /\ MaySee(calls'[s].scope, campaigns'[j].owner)
        <3>1. campaigns[j] \in Campaign /\ campaigns'[j] \in Campaign
            BY <1>1, <1>3, Typed, ElementOfSeq, LenProperties DEF GInv
        <3>2. CASE s = r /\ j = t
            BY <1>1, <1>2, <3>2 DEF t
        <3>3. CASE s # r \/ j # t
            <4>1. s \in campaigns[j].hands /\ s \in Clients
                BY <1>1, <3>1, <3>3 DEF Campaign
            <4>2. calls[s].stage # "none" /\ MaySee(calls[s].scope, campaigns[j].owner)
                BY <1>1, <4>1 DEF GInv, Rightful
            <4>3. QED
                BY <1>1, <1>2, <4>1, <4>2
        <3>4. QED
            BY <3>2, <3>3
    <2>4. ASSUME NEW j \in DOMAIN campaigns', campaigns'[j].by # Nobody
          PROVE  /\ calls'[campaigns'[j].by].scope = campaigns'[j].owner
                 /\ calls'[campaigns'[j].by].stage # "none"
        <3>1. campaigns[j].by \in Clients /\ campaigns[j].by # Nobody
            BY <1>1, <2>4, Typed DEF GInv, Campaign
        <3>2. QED
            BY <1>1, <1>2, <3>1 DEF GInv, Rightful
    <2>5. QED
        BY <2>2, <2>3, <2>4 DEF Rightful
<1>8. Owns'
    <2>1. \A s \in Clients : MadeBy(s)' = MadeBy(s)
        BY <1>4, MadeByStays
    <2>2. MadeBy(r) = {}
        BY <1>2 DEF GInv, Owns
    <2>3. QED
        BY <1>2, <2>1, <2>2 DEF GInv, Owns
<1>9. Room'
    <2>1. ASSUME NEW j \in DOMAIN campaigns, j # t
          PROVE  Runs(j)' <=> Runs(j)
        BY <1>2, <2>1 DEF Runs, t
    <2>2. ASSUME NEW j \in DOMAIN campaigns, j = t
          PROVE  /\ calls[r].stage = "running" => Runs(j)
                 /\ calls[r].stage # "running" /\ calls'[r].stage # "running" =>
                        (Runs(j)' <=> Runs(j))
                 /\ calls'[r].stage = "running" => Runs(j)'
        <3>1. calls[r].stage = "running" => Runs(j)
            BY <2>2 DEF Runs, t
        <3>2. calls'[r].stage = "running" => Runs(j)'
            BY <1>2, <2>2 DEF Runs
        <3>3. ASSUME calls[r].stage # "running", calls'[r].stage # "running"
              PROVE  Runs(j)' <=> Runs(j)
            BY <1>2, <3>3 DEF Runs
        <3>4. QED
            BY <3>1, <3>2, <3>3
    <2>3. ASSUME NEW j \in Pending', j = t
          PROVE  j \in Pending
        <3>1. j \in DOMAIN campaigns /\ (status # "closed" \/ Runs(j)')
            BY <1>1, <2>3 DEF Pending
        <3>2. QED
            BY <1>2, <2>2, <2>3, <3>1 DEF Pending
    <2>4. Pending' \subseteq Pending
        BY <1>1, <2>1, <2>3 DEF Pending
    <2>5. ASSUME NEW j \in DOMAIN campaigns', campaigns'[j].status = "running"
          PROVE  Runs(j)'
        <3>1. CASE j # t
            BY <1>1, <2>1, <2>5, <3>1 DEF GInv, Room
        <3>2. CASE j = t
            <4>1. j \in DOMAIN campaigns /\ status = "running"
                BY <1>1, <2>5, <3>2
            <4>2. QED
                BY <1>2, <2>2, <3>2, <4>1 DEF GInv, Room
        <3>3. QED
            BY <3>1, <3>2
    <2>6. QED
        BY <2>4, <2>5, RoomKept DEF GInv
<1>10. QED
    BY <1>3, <1>5, <1>6, <1>7, <1>8, <1>9 DEF GInv

\* A workspace is made for the caller, under the lock that kept room for it.
LEMMA Creates ==
    ASSUME GInv, up, NEW r \in Clients, NEW reply \in Replies, Create(r, reply)
    PROVE  GInv'
<1> DEFINE last == Len(campaigns) + 1
<1>1. calls[r].stage = "admitted" /\ lock = r /\ lock' = Nobody /\ reply \in {"done", "failed"}
    BY DEF GInv, Holding, Create
<1>2. calls[r].scope # NoScope /\ calls[r].kind = "init" /\ MadeBy(r) = {}
    BY <1>1 DEF GInv, Rightful, Owns
<1>3. /\ calls' \in [Clients -> Call]
      /\ \A s \in Clients : s # r => calls'[s] = calls[s]
      /\ calls'[r].stage = "answered" /\ calls'[r].reply = reply
      /\ calls'[r].kind = calls[r].kind /\ calls'[r].scope = calls[r].scope
      /\ calls'[r].target = last
    BY <1>2, Creating DEF GInv
<1>4. /\ campaigns' \in Seq(Campaign)
      /\ DOMAIN campaigns' = DOMAIN campaigns \union {last}
      /\ last \notin DOMAIN campaigns
      /\ \A i \in DOMAIN campaigns : campaigns'[i] = campaigns[i]
      /\ campaigns'[last].owner = calls[r].scope /\ campaigns'[last].by = r
      /\ campaigns'[last].hands = {r} /\ campaigns'[last].status = "active"
    BY <1>2, Creating DEF GInv
<1>5. UNCHANGED <<session, hops, up, deaths, events>>
    BY DEF Create
<1>6. PICK new : new = last
    OBVIOUS
<1> HIDE DEF last
<1>7. TypeOK'
    BY <1>1, <1>3, <1>4, <1>5 DEF GInv, TypeOK, session
<1>8. MovesOn(r) /\ CampaignsGrow
    BY <1>1, <1>3, <1>4 DEF MovesOn, InEngine, CampaignsGrow, Replies
<1>9. SessionInv' /\ Made' /\ Waiting' /\ Reported' /\ Announced'
    BY <1>5, <1>8, EngineMoves
<1>10. Holding'
    BY <1>1, <1>3, <1>5, ClientKinds DEF GInv, Holding
<1>11. Rightful'
    <2>1. \A s \in Clients :
              /\ calls'[s].stage \in {"running", "checked"} =>
                     /\ calls'[s].target \in DOMAIN campaigns'
                     /\ MaySee(calls'[s].scope, campaigns'[calls'[s].target].owner)
                     /\ calls'[s].kind # "init"
              /\ calls'[s].stage = "admitted" => calls'[s].scope # NoScope /\ calls'[s].kind = "init"
        BY <1>3, <1>4 DEF GInv, Rightful
    <2>2. ASSUME NEW j \in DOMAIN campaigns
          PROVE  /\ \A s \in campaigns'[j].hands :
                        calls'[s].stage # "none" /\ MaySee(calls'[s].scope, campaigns'[j].owner)
                 /\ campaigns'[j].by # Nobody =>
                        /\ calls'[campaigns'[j].by].scope = campaigns'[j].owner
                        /\ calls'[campaigns'[j].by].stage # "none"
        <3>1. campaigns[j] \in Campaign /\ campaigns'[j] = campaigns[j]
            BY <1>4, Typed DEF GInv
        <3>2. campaigns[j].hands \subseteq Clients /\ campaigns[j].by \in Clients \union {Nobody}
            BY <3>1 DEF Campaign
        <3>3. QED
            BY <1>3, <3>1, <3>2 DEF GInv, Rightful
    <2>3. calls[r].scope \in Users \union {Node}
        BY <1>2, Typed DEF GInv, Call, Scopes
    <2>4. /\ \A s \in campaigns'[last].hands :
                 calls'[s].stage # "none" /\ MaySee(calls'[s].scope, campaigns'[last].owner)
          /\ campaigns'[last].by # Nobody =>
                 /\ calls'[campaigns'[last].by].scope = campaigns'[last].owner
                 /\ calls'[campaigns'[last].by].stage # "none"
        BY <1>3, <1>4, <2>3 DEF MaySee
    <2>5. QED
        BY <1>4, <2>1, <2>2, <2>4 DEF Rightful
<1>12. Owns'
    <2>1. \A s \in Clients : s # r => MadeBy(s)' = MadeBy(s)
        BY <1>4 DEF MadeBy
    <2>2. MadeBy(r)' = {last}
        BY <1>2, <1>4 DEF MadeBy
    <2>3. QED
        BY <1>1, <1>3, <2>1, <2>2 DEF GInv, Owns
<1>13. Room'
    <2>1. \A j \in DOMAIN campaigns : Runs(j)' <=> Runs(j)
        BY <1>1, <1>3 DEF Runs
    <2>2. Pending' \subseteq Pending \union {new}
        BY <1>4, <1>6, <2>1 DEF Pending
    <2>3. IsFiniteSet(Pending) /\ Cardinality(Pending) \in Nat /\ Cardinality(Pending) <= MaxActive
        BY <1>1, PendingFinite, FS_CardinalityType, ClientKinds DEF GInv, Room
    <2>4. new \notin Pending
        BY <1>4, <1>6 DEF Pending
    <2>5. IsFiniteSet(Pending \union {new}) /\ Cardinality(Pending \union {new}) = Cardinality(Pending) + 1
        BY <2>3, <2>4, FS_AddElement
    <2>6. Cardinality(Pending') <= Cardinality(Pending) + 1 /\ Cardinality(Pending') \in Nat
        BY <2>2, <2>5, FS_Subset, FS_CardinalityType
    <2>7. Cardinality(Pending') <= MaxActive + 1
        BY <2>3, <2>6, GatewayAssumption
    <2>8. up' => \A j \in DOMAIN campaigns' : campaigns'[j].status = "running" => Runs(j)'
        BY <1>4, <1>5, <2>1 DEF GInv, Room
    <2>9. QED
        BY <1>1, <2>7, <2>8 DEF Room
<1>14. QED
    BY <1>7, <1>9, <1>10, <1>11, <1>12, <1>13 DEF GInv

\* Every step of the engine at a request.
LEMMA ServeStep ==
    ASSUME GInv, NEW r \in Clients, Serve(r)
    PROVE  GInv'
<1>1. up
    BY DEF Serve
<1>2. ASSUME NEW reply \in Replies, Refuse(r, reply)
      PROVE  GInv'
    BY <1>1, <1>2, Settles DEF Refuse, engine
<1>3. CASE Read(r)
    BY <1>1, <1>3, Settles DEF Read, Taken, engine, Replies
<1>4. CASE Admit(r)
    <2>1. CASE HasRoom(Active) /\ lock' = r /\ Advance(r, "admitted")
        BY <1>1, <1>4, <2>1, Advances DEF Admit, Taken, LockFree
    <2>2. CASE Reply(r, "refused") /\ UNCHANGED lock
        BY <1>1, <1>4, <2>2, Settles DEF Admit, Taken, Replies
    <2>3. QED
        BY <1>4, <2>1, <2>2 DEF Admit
<1>5. CASE CheckStatus(r)
    <2>1. CASE Reply(r, "refused")
        BY <1>1, <1>5, <2>1, Settles DEF CheckStatus, Taken, engine, Replies
    <2>2. CASE Advance(r, "checked")
        BY <1>1, <1>5, <2>2, Advances DEF CheckStatus, Taken, engine
    <2>3. QED
        BY <1>5, <2>1, <2>2 DEF CheckStatus
<1>6. CASE StartRun(r)
    <2>1. /\ calls[r].target \in DOMAIN campaigns
          /\ MaySee(calls[r].scope, campaigns[calls[r].target].owner)
        BY <1>6, EntitledSees DEF StartRun, Taken, GInv
    <2>2. QED
        BY <1>1, <1>6, <2>1, Changes DEF StartRun, Taken
<1>7. CASE SetStatus(r)
    BY <1>1, <1>7, Changes DEF SetStatus, GInv, Rightful, Replies
<1>8. ASSUME NEW reply \in Replies, Change(r, reply)
      PROVE  GInv'
    <2>1. /\ calls[r].target \in DOMAIN campaigns
          /\ MaySee(calls[r].scope, campaigns[calls[r].target].owner)
        BY <1>8, EntitledSees DEF Change, Taken, GInv
    <2>2. campaigns[calls[r].target].status \in {"active", "running", "closed"}
        BY <2>1, Typed DEF GInv, Campaign
    <2>3. QED
        BY <1>1, <1>8, <2>1, <2>2, Changes DEF Change, Taken
<1>9. ASSUME NEW reply \in Replies, Create(r, reply)
      PROVE  GInv'
    BY <1>1, <1>9, Creates
<1>10. ASSUME NEW reply \in Replies, CreateRaises(r, reply)
       PROVE  GInv'
    BY <1>1, <1>10, Settles DEF CreateRaises
<1>11. ASSUME NEW reply \in Replies, NEW status \in {"active", "closed"}, FinishRun(r, status, reply)
       PROVE  GInv'
    BY <1>1, <1>11, Changes DEF FinishRun, GInv, Rightful
<1>12. QED
    BY <1>2, <1>3, <1>4, <1>5, <1>6, <1>7, <1>8, <1>9, <1>10, <1>11 DEF Serve

-----------------------------------------------------------------------------
(* The front doors.                                                        *)

\* A handler's stage and reply fit the request it made, or made not.
HopFits(h) ==
    /\ calls[h].stage = "none" => calls[h].kind = "catalog"
    /\ calls[h].stage # "answered" <=> calls[h].reply = "none"
    /\ calls[h].stage # "none" =>
           /\ hops[h].ask.bearer
           /\ hops[h].stage \in {"calling", "emitting", "answered"}
           /\ calls[h].scope = FromCoreHeaders(hops[h].ask.headers)
           /\ calls[h].kind = HopKind(hops[h].ask.route)
    /\ hops[h].stage \in {"waking", "woken"} => hops[h].ask.bearer
    /\ hops[h].stage \in {"calling", "emitting"} => calls[h].stage # "none"
    /\ hops[h].stage = "emitting" => calls[h].reply = "done" /\ hops[h].ask.route = "workspace"
    /\ hops[h].stage = "answered" <=> hops[h].reply # "none"
    /\ hops[h].reply \in {"unauthorized", "invalid"} => calls[h].stage = "none"
    /\ hops[h].reply \in {"refused", "done"} /\ calls[h].kind = "init" =>
           calls[h].reply = hops[h].reply

\* It always does.
LEMMA HopsFit ==
    ASSUME GInv, NEW h \in Hops
    PROVE  HopFits(h) /\ h \in Clients
BY ClientKinds DEF GInv, Made, Waiting, Reported, HopFits, Genuine

\* A handler's step concerns no other handler, no line, and no event raised before.
LEMMA HopMoves ==
    ASSUME GInv, NEW h \in Hops, hops[h].stage # "answered", HopFits(h)',
           \A g \in Hops : g # h => hops'[g] = hops[g],
           \A s \in Clients : s # h => calls'[s] = calls[s],
           CampaignsStay, UNCHANGED session
    PROVE  /\ SessionInv' /\ Made' /\ Waiting' /\ Reported'
           /\ UNCHANGED events => Announced'
<1>1. SessionInv'
    BY SessionKept DEF GInv
<1>2. Made'
    BY DEF GInv, Made, HopFits, Genuine, session
<1>3. Waiting'
    BY Typed, ClientKinds DEF GInv, SessionInv, InOrder, Waiting, HopFits, session
<1>4. Reported'
    <2>1. \A i \in DOMAIN answers : calls'[answers[i].line] = calls[answers[i].line]
        <3>1. \A i \in DOMAIN answers : answers[i].line # h /\ answers[i].line \in Clients
            BY AnsweredLines, Typed DEF GInv
        <3>2. QED
            BY <3>1
    <2>2. QED
        BY <2>1, ClientKinds DEF GInv, Reported, HopFits, session
<1>5. ASSUME UNCHANGED events PROVE Announced'
    BY <1>5 DEF GInv, Announced, CampaignsStay
<1>6. QED
    BY <1>1, <1>2, <1>3, <1>4, <1>5

\* A request that was just made holds nothing in the engine and changed nothing.
LEMMA NewRequest ==
    ASSUME GInv, NEW r \in Clients, calls[r].stage = "none",
           \A s \in Clients : s # r => calls'[s] = calls[s],
           calls'[r].stage \in {"sent", "answered"}, ~up => calls'[r].stage = "answered",
           calls'[r].reply \in {"none", "unreachable"},
           UNCHANGED engine
    PROVE  Holding' /\ Rightful' /\ Owns' /\ Room'
<1>1. Holding'
    BY ClientKinds DEF GInv, Holding, engine, InEngine
<1>2. Rightful'
    <2>1. ASSUME NEW j \in DOMAIN campaigns
          PROVE  /\ r \notin campaigns[j].hands /\ campaigns[j].hands \subseteq Clients
                 /\ campaigns[j].by # r /\ campaigns[j].by \in Clients \union {Nobody}
        <3>1. campaigns[j] \in Campaign
            BY Typed DEF GInv
        <3>2. QED
            BY <3>1, ClientKinds DEF GInv, Rightful, Campaign
    <2>2. QED
        BY <2>1 DEF GInv, Rightful, engine
<1>3. CampaignsStay
    BY DEF engine, CampaignsStay
<1>4. Owns'
    <2>1. MadeBy(r) = {}
        BY DEF GInv, Owns
    <2>2. \A s \in Clients : MadeBy(s)' = MadeBy(s)
        BY <1>3, MadeByStays
    <2>3. QED
        BY <2>1, <2>2 DEF GInv, Owns
<1>5. Room'
    <2>1. \A j \in DOMAIN campaigns : Runs(j)' <=> Runs(j)
        BY DEF Runs
    <2>2. Pending' = Pending
        BY <2>1 DEF Pending, engine
    <2>3. QED
        BY <2>1, <2>2, RoomKept DEF GInv, Room, engine
<1>6. QED
    BY <1>1, <1>2, <1>4, <1>5

\* Steps that leave the engine and its requests alone.
LEMMA EngineKept ==
    ASSUME GInv, UNCHANGED <<calls, engine>>
    PROVE  Holding' /\ Rightful' /\ Owns' /\ Room' /\ CampaignsStay
BY DEF GInv, Holding, Rightful, Owns, MadeBy, Room, Pending, Runs, engine, CampaignsStay

\* An arriving request is turned away, waits for the engine to be woken, or asks for
\* the catalog at once.
LEMMA Arrives ==
    ASSUME GInv, NEW h \in Hops, NEW ask \in Asks, Arrive(h, ask)
    PROVE  GInv'
<1>1. hops[h].stage = "idle" /\ UNCHANGED <<session, engine, events>>
    BY DEF Arrive
<1>2. calls[h].stage = "none" /\ calls[h].kind = "catalog" /\ calls[h].reply = "none" /\ h \in Clients
    BY <1>1, HopsFit DEF HopFits
<1>3. ASSUME NEW stage \in {"answered", "waking"}, NEW reply \in {"none", "unauthorized", "invalid", "done"},
             hops' = [hops EXCEPT ![h] = [stage |-> stage, ask |-> ask, reply |-> reply]],
             stage = "answered" <=> reply # "none", stage = "waking" => ask.bearer,
             UNCHANGED calls
      PROVE  GInv'
    <2>1. stage \in HopStages /\ reply \in HopReplies
        BY DEF HopStages, HopReplies, Replies
    <2>2. /\ hops' \in [Hops -> [stage : HopStages, ask : Asks, reply : HopReplies]]
          /\ \A g \in Hops : g # h => hops'[g] = hops[g]
          /\ hops'[h].stage = stage /\ hops'[h].ask = ask /\ hops'[h].reply = reply
        BY <1>3, <2>1, Arriving DEF GInv
    <2>3. TypeOK'
        BY <1>1, <1>3, <2>2 DEF GInv, TypeOK, session, engine
    <2>4. HopFits(h)'
        BY <1>2, <1>3, <2>2 DEF HopFits
    <2>5. Holding' /\ Rightful' /\ Owns' /\ Room' /\ CampaignsStay
        BY <1>1, <1>3, EngineKept
    <2>6. SessionInv' /\ Made' /\ Waiting' /\ Reported' /\ Announced'
        BY <1>1, <1>3, <2>2, <2>4, <2>5, HopMoves
    <2>7. QED
        BY <2>3, <2>5, <2>6 DEF GInv
<1>4. ASSUME hops' = [hops EXCEPT ![h] = [stage |-> "calling", ask |-> ask, reply |-> "none"]],
             ask.bearer, SendHop(h, ask)
      PROVE  GInv'
    <2>1. "calling" \in HopStages /\ "none" \in HopReplies
        BY DEF HopStages, HopReplies
    <2>2. /\ hops' \in [Hops -> [stage : HopStages, ask : Asks, reply : HopReplies]]
          /\ \A g \in Hops : g # h => hops'[g] = hops[g]
          /\ hops'[h].stage = "calling" /\ hops'[h].ask = ask /\ hops'[h].reply = "none"
        BY <1>4, <2>1, Arriving DEF GInv
    <2>3. /\ calls' \in [Clients -> Call]
          /\ \A s \in Clients : s # h => calls'[s] = calls[s]
          /\ calls'[h].kind = HopKind(ask.route)
          /\ calls'[h].scope = FromCoreHeaders(ask.headers)
          /\ up => calls'[h].stage = "sent" /\ calls'[h].reply = "none"
          /\ ~up => calls'[h].stage = "answered" /\ calls'[h].reply = "unreachable"
        BY <1>2, <1>4, HopScope, Sends DEF GInv, SendHop
    <2>4. TypeOK'
        BY <1>1, <2>2, <2>3 DEF GInv, TypeOK, session, engine
    <2>5. HopFits(h)'
        BY <1>4, <2>2, <2>3 DEF HopFits
    <2>6. Holding' /\ Rightful' /\ Owns' /\ Room'
        BY <1>1, <1>2, <2>3, NewRequest
    <2>7. CampaignsStay
        BY <1>1 DEF engine, CampaignsStay
    <2>8. SessionInv' /\ Made' /\ Waiting' /\ Reported' /\ Announced'
        BY <1>1, <2>2, <2>3, <2>5, <2>7, HopMoves
    <2>9. QED
        BY <2>4, <2>6, <2>8 DEF GInv
<1>5. QED
    BY <1>3, <1>4 DEF Arrive

\* An engine that starts finds no request in it, and no campaign running after it.
LEMMA Awakes ==
    ASSUME GInv, EnsureReady, UNCHANGED <<calls, lock>>
    PROVE  /\ campaigns' \in Seq(Campaign) /\ up' = TRUE /\ CampaignsStay
           /\ Holding' /\ Rightful' /\ Owns' /\ Room'
<1>1. /\ up' = TRUE
      /\ campaigns' \in Seq(Campaign)
      /\ DOMAIN campaigns' = DOMAIN campaigns
      /\ up => campaigns' = campaigns
      /\ \A i \in DOMAIN campaigns :
             /\ campaigns'[i].owner = campaigns[i].owner
             /\ campaigns'[i].by = campaigns[i].by
             /\ campaigns'[i].hands = campaigns[i].hands
             /\ ~up => campaigns'[i].status # "running"
             /\ campaigns'[i].status = "closed" <=> campaigns[i].status = "closed"
    BY Waking DEF GInv
<1>2. CampaignsStay
    BY <1>1 DEF CampaignsStay
<1>3. Holding'
    BY <1>1 DEF GInv, Holding
<1>4. Rightful'
    BY <1>1 DEF GInv, Rightful
<1>5. Owns'
    BY <1>2, MadeByStays DEF GInv, Owns
<1>6. Room'
    <2>1. \A j \in DOMAIN campaigns : Runs(j)' <=> Runs(j)
        BY DEF Runs
    <2>2. Pending' \subseteq Pending
        BY <1>1, <2>1 DEF Pending
    <2>3. \A j \in DOMAIN campaigns' : campaigns'[j].status = "running" => Runs(j)'
        BY <1>1, <2>1 DEF GInv, Room
    <2>4. QED
        BY <2>2, <2>3, RoomKept DEF GInv
<1>7. QED
    BY <1>1, <1>2, <1>3, <1>4, <1>5, <1>6

\* A handler wakes the engine, or tried to.
LEMMA Wakes ==
    ASSUME GInv, NEW h \in Hops, Wake(h)
    PROVE  GInv'
<1>1. "woken" \in HopStages
    BY DEF HopStages
<1>2. /\ hops' \in [Hops -> [stage : HopStages, ask : Asks, reply : HopReplies]]
      /\ \A g \in Hops : g # h => hops'[g] = hops[g]
      /\ hops'[h].stage = "woken" /\ hops'[h].ask = hops[h].ask
      /\ hops'[h].reply = hops[h].reply
    BY <1>1, Moving DEF GInv, Wake
<1>3. hops[h].stage = "waking" /\ UNCHANGED <<session, calls, lock, deaths, events>>
    BY DEF Wake
<1>4. /\ campaigns' \in Seq(Campaign) /\ up' \in BOOLEAN /\ CampaignsStay
      /\ Holding' /\ Rightful' /\ Owns' /\ Room'
    <2>1. CASE EnsureReady
        BY <1>3, <2>1, Awakes
    <2>2. CASE UNCHANGED <<up, campaigns>>
        <3>1. UNCHANGED <<calls, engine>>
            BY <1>3, <2>2 DEF engine
        <3>2. QED
            BY <2>2, <3>1, EngineKept DEF GInv, TypeOK
    <2>3. QED
        BY <2>1, <2>2 DEF Wake
<1>5. TypeOK'
    BY <1>2, <1>3, <1>4 DEF GInv, TypeOK, session
<1>6. HopFits(h)'
    BY <1>2, <1>3, HopsFit DEF HopFits
<1>7. SessionInv' /\ Made' /\ Waiting' /\ Reported' /\ Announced'
    BY <1>2, <1>3, <1>4, <1>6, HopMoves
<1>8. QED
    BY <1>4, <1>5, <1>7 DEF GInv

\* A handler ends, with what fits its request, or goes on to announce a workspace.
LEMMA HopEnds ==
    ASSUME GInv, NEW h \in Hops, NEW reply \in HopReplies \ {"none"}, Close(h, reply),
           hops[h].stage # "answered",
           reply \in {"unauthorized", "invalid"} => calls[h].stage = "none",
           reply \in {"refused", "done"} /\ calls[h].kind = "init" => calls[h].reply = reply,
           UNCHANGED <<session, calls, engine>>, events' \in Seq(Nat)
    PROVE  /\ TypeOK' /\ SessionInv' /\ Holding' /\ Made' /\ Waiting' /\ Rightful' /\ Owns'
           /\ Reported' /\ Room'
           /\ UNCHANGED events => Announced'
           /\ hops'[h].stage = "answered"
           /\ \A g \in Hops : g # h => hops'[g] = hops[g]
<1>1. /\ hops' \in [Hops -> [stage : HopStages, ask : Asks, reply : HopReplies]]
      /\ \A g \in Hops : g # h => hops'[g] = hops[g]
      /\ hops'[h].stage = "answered" /\ hops'[h].ask = hops[h].ask
      /\ hops'[h].reply = reply
    BY Closing DEF GInv
<1>2. TypeOK'
    BY <1>1 DEF GInv, TypeOK, session, engine
<1>3. HopFits(h)'
    BY <1>1, HopsFit DEF HopFits
<1>4. Holding' /\ Rightful' /\ Owns' /\ Room' /\ CampaignsStay
    BY EngineKept
<1>5. SessionInv' /\ Made' /\ Waiting' /\ Reported' /\ (UNCHANGED events => Announced')
    BY <1>1, <1>3, <1>4, HopMoves
<1>6. QED
    BY <1>1, <1>2, <1>4, <1>5

\* A handler refuses a campaign id, or makes its request.
LEMMA Forwards ==
    ASSUME GInv, NEW h \in Hops, Forward(h)
    PROVE  GInv'
<1>1. hops[h].stage = "woken" /\ UNCHANGED <<session, engine, events>>
    BY DEF Forward
<1>2. /\ calls[h].stage = "none" /\ h \in Clients /\ hops[h].ask \in Asks /\ hops[h].ask.bearer
      /\ hops[h].reply = "none"
    BY <1>1, HopsFit, Typed DEF HopFits, GInv
<1>3. CASE Close(h, "invalid") /\ UNCHANGED calls
    <2>1. "invalid" \in HopReplies \ {"none"}
        BY DEF HopReplies
    <2>2. events' \in Seq(Nat)
        BY <1>1 DEF GInv, TypeOK
    <2>3. QED
        BY <1>1, <1>2, <1>3, <2>1, <2>2, HopEnds DEF GInv
<1>4. CASE SendHop(h, hops[h].ask) /\ Move(h, "calling")
    <2>1. "calling" \in HopStages
        BY DEF HopStages
    <2>2. /\ hops' \in [Hops -> [stage : HopStages, ask : Asks, reply : HopReplies]]
          /\ \A g \in Hops : g # h => hops'[g] = hops[g]
          /\ hops'[h].stage = "calling" /\ hops'[h].ask = hops[h].ask
          /\ hops'[h].reply = hops[h].reply
        BY <1>4, <2>1, Moving DEF GInv
    <2>3. /\ calls' \in [Clients -> Call]
          /\ \A s \in Clients : s # h => calls'[s] = calls[s]
          /\ calls'[h].kind = HopKind(hops[h].ask.route)
          /\ calls'[h].scope = FromCoreHeaders(hops[h].ask.headers)
          /\ up => calls'[h].stage = "sent" /\ calls'[h].reply = "none"
          /\ ~up => calls'[h].stage = "answered" /\ calls'[h].reply = "unreachable"
        BY <1>2, <1>4, HopScope, Sends DEF GInv, SendHop
    <2>4. TypeOK'
        BY <1>1, <2>2, <2>3 DEF GInv, TypeOK, session, engine
    <2>5. HopFits(h)'
        BY <1>2, <2>2, <2>3 DEF HopFits
    <2>6. Holding' /\ Rightful' /\ Owns' /\ Room'
        BY <1>1, <1>2, <2>3, NewRequest
    <2>7. CampaignsStay
        BY <1>1 DEF engine, CampaignsStay
    <2>8. SessionInv' /\ Made' /\ Waiting' /\ Reported' /\ Announced'
        BY <1>1, <2>2, <2>3, <2>5, <2>7, HopMoves
    <2>9. QED
        BY <2>4, <2>6, <2>8 DEF GInv
<1>5. QED
    BY <1>3, <1>4 DEF Forward

\* A handler's answer is the engine's, but for the routes that make it their own.
LEMMA HopAnswers ==
    ASSUME NEW route \in Routes, NEW reply \in Replies
    PROVE  /\ HopReply(route, reply) \in HopReplies \ {"none", "unauthorized", "invalid"}
           /\ HopKind(route) = "init" => HopReply(route, reply) = reply
BY DEF HopReply, HopReplies, Replies, HopKind

\* A handler takes the engine's answer.
LEMMA Receives ==
    ASSUME GInv, NEW h \in Hops, Receive(h)
    PROVE  GInv'
<1> DEFINE route == hops[h].ask.route
           reply == calls[h].reply
<1>1. /\ hops[h].stage = "calling" /\ calls[h].stage = "answered"
      /\ UNCHANGED <<session, calls, engine, events>>
    BY DEF Receive
<1>2. /\ HopFits(h) /\ h \in Clients /\ hops[h].ask \in HopAsk /\ reply \in Replies
    BY <1>1, HopsFit, Typed, GatewayAssumption DEF GInv, HopFits, Call
<1>3. route \in Routes
    BY <1>2 DEF HopAsk
<1>4. CASE Announces(route, reply)
    <2>1. Move(h, "emitting") /\ "emitting" \in HopStages
        BY <1>4 DEF Receive, HopStages
    <2>2. /\ hops' \in [Hops -> [stage : HopStages, ask : Asks, reply : HopReplies]]
          /\ \A g \in Hops : g # h => hops'[g] = hops[g]
          /\ hops'[h].stage = "emitting" /\ hops'[h].ask = hops[h].ask
          /\ hops'[h].reply = hops[h].reply
        BY <2>1, Moving DEF GInv
    <2>3. TypeOK'
        BY <1>1, <2>2 DEF GInv, TypeOK, session, engine
    <2>4. HopFits(h)'
        BY <1>1, <1>2, <1>4, <2>2 DEF HopFits, Announces
    <2>5. Holding' /\ Rightful' /\ Owns' /\ Room' /\ CampaignsStay
        BY <1>1, EngineKept
    <2>6. SessionInv' /\ Made' /\ Waiting' /\ Reported' /\ Announced'
        BY <1>1, <2>2, <2>4, <2>5, HopMoves
    <2>7. QED
        BY <2>3, <2>5, <2>6 DEF GInv
<1>5. CASE ~Announces(route, reply)
    <2>1. Close(h, HopReply(route, reply))
        BY <1>5 DEF Receive
    <2>2. /\ HopReply(route, reply) \in HopReplies \ {"none", "unauthorized", "invalid"}
          /\ calls[h].kind = "init" => HopReply(route, reply) = reply
        BY <1>1, <1>2, <1>3, HopAnswers DEF HopFits
    <2>3. events' \in Seq(Nat)
        BY <1>1 DEF GInv, TypeOK
    <2> HIDE DEF route, reply
    <2>4. QED
        BY <1>1, <2>1, <2>2, <2>3, HopEnds DEF GInv, reply
<1>6. QED
    BY <1>4, <1>5

\* A handler gives up: what it answers claims nothing of a workspace.
LEMMA Timeouts ==
    ASSUME GInv, NEW h \in Hops, Timeout(h)
    PROVE  GInv'
<1>1. /\ hops[h].stage = "calling" /\ Close(h, HopReply(hops[h].ask.route, "unreachable"))
      /\ UNCHANGED <<session, calls, engine, events>>
    BY DEF Timeout, TimeoutReply
<1>2. HopFits(h) /\ hops[h].ask \in HopAsk /\ "unreachable" \in Replies
    BY HopsFit, Typed, GatewayAssumption DEF GInv, Replies
<1>3. hops[h].ask.route \in Routes /\ calls[h].kind = HopKind(hops[h].ask.route)
    BY <1>1, <1>2 DEF HopAsk, HopFits
<1>4. PICK reply : reply = HopReply(hops[h].ask.route, "unreachable")
    OBVIOUS
<1>5. /\ reply \in HopReplies \ {"none", "unauthorized", "invalid"}
      /\ calls[h].kind = "init" => reply = "unreachable"
    BY <1>2, <1>3, <1>4, HopAnswers
<1>6. events' \in Seq(Nat)
    BY <1>1 DEF GInv, TypeOK
<1>7. QED
    BY <1>1, <1>4, <1>5, <1>6, HopEnds DEF GInv

\* The event names the campaign that the hop made, which none before it did.
LEMMA Emits ==
    ASSUME GInv, NEW h \in Hops, Emit(h)
    PROVE  GInv'
<1> DEFINE id == calls[h].target
<1>1. hops[h].stage = "emitting" /\ UNCHANGED <<session, calls, engine>>
    BY DEF Emit
<1>2. /\ HopFits(h) /\ h \in Clients /\ h \in Hops /\ hops[h].ask \in Asks
      /\ calls[h].reply = "done" /\ calls[h].stage # "none"
    BY <1>1, HopsFit, Typed DEF GInv, HopFits
<1>3. calls[h].kind = "init" /\ "done" \in HopReplies \ {"none"}
    BY <1>1, <1>2, HopScope DEF HopFits, HopReplies, Replies
<1>4. id \in MadeBy(h)
    <2>1. MadeBy(h) = {calls[h].target}
        BY <1>2, <1>3 DEF GInv, Owns
    <2>2. QED
        BY <2>1
<1>5. id \in DOMAIN campaigns /\ campaigns[id].by = h /\ id \in Nat
    <2>1. id \in DOMAIN campaigns /\ campaigns[id].by = h
        BY <1>4 DEF MadeBy
    <2>2. QED
        BY <2>1, Typed DEF GInv
<1>6. Close(h, "done") /\ (events' = Append(events, id) \/ UNCHANGED events)
    BY <1>2 DEF Emit, IdIn
<1> HIDE DEF id
<1>7. events' \in Seq(Nat)
    <2>1. events \in Seq(Nat)
        BY DEF GInv, TypeOK
    <2>2. Append(events, id) \in Seq(Nat)
        BY <1>5, <2>1, AppendProperties
    <2>3. QED
        BY <1>6, <2>1, <2>2
<1>8. /\ TypeOK' /\ SessionInv' /\ Holding' /\ Made' /\ Waiting' /\ Rightful' /\ Owns'
      /\ Reported' /\ Room'
      /\ UNCHANGED events => Announced'
      /\ hops'[h].stage = "answered"
      /\ \A g \in Hops : g # h => hops'[g] = hops[g]
    BY <1>1, <1>2, <1>3, <1>6, <1>7, HopEnds
<1>9. Announced'
    <2>1. CASE UNCHANGED events
        BY <1>8, <2>1
    <2>2. CASE events' = Append(events, id)
        <3>1. /\ Len(events) \in Nat /\ DOMAIN events = 1 .. Len(events)
              /\ DOMAIN events' = 1 .. (Len(events) + 1)
              /\ \A i \in DOMAIN events : events'[i] = events[i]
              /\ events'[Len(events) + 1] = id
            BY <1>5, <1>7, <2>2, AppendProperties, LenProperties DEF GInv, TypeOK
        <3>2. UNCHANGED campaigns
            BY <1>1 DEF engine
        <3>3. \A i \in DOMAIN events : events[i] # id
            BY <1>1, <1>5 DEF GInv, Announced
        <3>4. ASSUME NEW i \in DOMAIN events
              PROVE  /\ events'[i] \in DOMAIN campaigns'
                     /\ campaigns'[events'[i]].by \in Hops
                     /\ hops'[campaigns'[events'[i]].by].stage = "answered"
                     /\ \A j \in 1 .. i - 1 : events'[j] # events'[i]
            BY <1>8, <3>1, <3>2 DEF GInv, Announced
        <3>5. /\ events'[Len(events) + 1] \in DOMAIN campaigns'
              /\ campaigns'[events'[Len(events) + 1]].by \in Hops
              /\ hops'[campaigns'[events'[Len(events) + 1]].by].stage = "answered"
            BY <1>2, <1>5, <1>8, <3>1, <3>2
        <3>6. \A j \in 1 .. (Len(events) + 1) - 1 : events'[j] # events'[Len(events) + 1]
            BY <3>1, <3>3
        <3>7. \A i \in DOMAIN events' : i \in DOMAIN events \/ i = Len(events) + 1
            BY <3>1
        <3>8. QED
            BY <3>4, <3>5, <3>6, <3>7 DEF Announced
    <2>3. QED
        BY <1>6, <2>1, <2>2
<1>10. QED
    BY <1>8, <1>9 DEF GInv

-----------------------------------------------------------------------------
(* The session.                                                            *)

\* The session starts with an engine, or not at all.
LEMMA Launches ==
    ASSUME GInv, Launch
    PROVE  GInv'
<1>1. /\ serving = "starting" /\ serving' \in {"reading", "closed"}
      /\ UNCHANGED <<legacy, lines, answers, hops, calls, lock, deaths, events>>
    BY DEF Launch
<1>2. /\ campaigns' \in Seq(Campaign) /\ up' \in BOOLEAN /\ CampaignsStay
      /\ Holding' /\ Rightful' /\ Owns' /\ Room'
    <2>1. CASE EnsureReady
        BY <1>1, <2>1, Awakes
    <2>2. CASE UNCHANGED <<up, campaigns>>
        <3>1. UNCHANGED <<calls, engine>>
            BY <1>1, <2>2 DEF engine
        <3>2. QED
            BY <2>2, <3>1, EngineKept DEF GInv, TypeOK
    <2>3. QED
        BY <2>1, <2>2 DEF Launch
<1>3. TypeOK'
    BY <1>1, <1>2 DEF GInv, TypeOK
<1>4. SessionInv'
    BY <1>1 DEF GInv, SessionInv, InOrder, NegotiatedFirst, IsOpening
<1>5. Made' /\ Waiting' /\ Reported' /\ Announced'
    BY <1>1, <1>2 DEF GInv, Made, Waiting, Reported, Announced, Genuine, CampaignsStay
<1>6. QED
    BY <1>2, <1>3, <1>4, <1>5 DEF GInv

\* The next line has made no request yet, and none has answered it.
LEMMA NextLineIsNew ==
    ASSUME GInv, NEW line \in Lines, lines' = Append(lines, line), Len(lines) + 1 <= MaxLines
    PROVE  LET n == Len(lines) + 1 IN
           /\ n \in Clients /\ calls[n].stage = "none"
           /\ \A i \in DOMAIN answers : answers[i].line \in DOMAIN lines /\ answers[i].line < n
<1>1. Len(lines) \in Nat /\ DOMAIN lines = 1 .. Len(lines)
      /\ Len(lines) + 1 \in Clients /\ Len(lines) + 1 \notin Hops
    BY Reading DEF GInv
<1>2. Len(lines) + 1 \notin DOMAIN lines
    BY <1>1
<1>3. calls[Len(lines) + 1].stage = "none"
    BY <1>1, <1>2 DEF GInv, Made
<1>4. \A i \in DOMAIN answers : answers[i].line \in DOMAIN lines /\ answers[i].line < Len(lines) + 1
    BY <1>1, AnsweredLines
<1>5. QED
    BY <1>1, <1>3, <1>4

\* A line that is read changes nothing for the lines and the hops before it.
LEMMA LineKept ==
    ASSUME GInv, NEW line \in Lines, lines' = Append(lines, line), Len(lines) + 1 <= MaxLines,
           \A s \in Clients : s # Len(lines) + 1 => calls'[s] = calls[s],
           UNCHANGED <<hops, campaigns, events>>
    PROVE  /\ \A r \in Clients : r # Len(lines) + 1 =>
                  /\ calls'[r].stage = "none" => calls'[r].kind = "catalog"
                  /\ calls'[r].stage # "answered" <=> calls'[r].reply = "none"
                  /\ calls'[r].stage # "none" =>
                         /\ Genuine(r)'
                         /\ r \in Hops =>
                                /\ hops'[r].stage \in {"calling", "emitting", "answered"}
                                /\ calls'[r].scope = FromCoreHeaders(hops'[r].ask.headers)
                                /\ calls'[r].kind = HopKind(hops'[r].ask.route)
                         /\ r \notin Hops =>
                                r \in DOMAIN lines' /\ calls'[r].scope = ScopeOf(lines'[r])
           /\ \A h \in Hops : calls'[h] = calls[h]
           /\ Announced'
<1>1. /\ DOMAIN lines = 1 .. Len(lines) /\ DOMAIN lines' = 1 .. (Len(lines) + 1)
      /\ \A i \in DOMAIN lines : lines'[i] = lines[i]
      /\ Len(lines) \in Nat /\ Len(lines) + 1 \notin Hops
    BY Reading DEF GInv
<1>2. DOMAIN lines \subseteq DOMAIN lines'
    BY <1>1
<1>3. \A r \in Clients : r # Len(lines) + 1 /\ r \notin Hops /\ calls[r].stage # "none" =>
          r \in DOMAIN lines /\ lines'[r] = lines[r]
    BY <1>1 DEF GInv, Made
<1>4. \A h \in Hops : calls'[h] = calls[h]
    BY <1>1, ClientKinds
<1>5. Announced'
    BY DEF GInv, Announced
<1>6. ASSUME NEW r \in Clients, r # Len(lines) + 1
      PROVE  /\ calls'[r].stage = "none" => calls'[r].kind = "catalog"
             /\ calls'[r].stage # "answered" <=> calls'[r].reply = "none"
             /\ calls'[r].stage # "none" =>
                    /\ Genuine(r)'
                    /\ r \in Hops =>
                           /\ hops'[r].stage \in {"calling", "emitting", "answered"}
                           /\ calls'[r].scope = FromCoreHeaders(hops'[r].ask.headers)
                           /\ calls'[r].kind = HopKind(hops'[r].ask.route)
                    /\ r \notin Hops =>
                           r \in DOMAIN lines' /\ calls'[r].scope = ScopeOf(lines'[r])
    <2>1. calls'[r] = calls[r]
        BY <1>6
    <2>2. CASE r \in Hops
        BY <2>1, <2>2 DEF GInv, Made, Genuine
    <2>3. CASE r \notin Hops
        BY <1>2, <1>3, <1>6, <2>1, <2>3 DEF GInv, Made, Genuine
    <2>4. QED
        BY <2>2, <2>3
<1>7. QED
    BY <1>4, <1>5, <1>6

\* A frame that is written after the others keeps their order, and is a legacy one only
\* in a session that was opened, by itself at the latest.
LEMMA WritesInOrder ==
    ASSUME GInv, NEW n \in Nat, NEW method, NEW mode, NEW body, NEW opens \in BOOLEAN,
           DOMAIN answers' = 1 .. (Len(answers) + 1),
           \A i \in DOMAIN answers : answers'[i] = answers[i],
           answers'[Len(answers) + 1].line = n, answers'[Len(answers) + 1].method = method,
           answers'[Len(answers) + 1].mode = mode, answers'[Len(answers) + 1].body = body,
           \A i \in DOMAIN answers : answers[i].line < n,
           mode = "legacy" => legacy \/ opens,
           opens => method = "initialize" /\ mode = "legacy" /\ body = "local",
           legacy' = (legacy \/ opens),
           Len(lines) \in Nat, Len(lines') \in Nat, Len(lines) <= Len(lines'),
           n \in 1 .. Len(lines'), lines' # <<>>, serving' = "reading"
    PROVE  SessionInv'
<1> DEFINE last == Len(answers) + 1
<1>1. Len(answers) \in Nat /\ DOMAIN answers = 1 .. Len(answers)
    BY Typed DEF GInv
<1>2. \A i \in DOMAIN answers' : i \in DOMAIN answers \/ i = last
    BY <1>1
<1>3. InOrder'
    <2>1. ASSUME NEW i \in DOMAIN answers
          PROVE  /\ answers'[i].line \in 1 .. Len(lines')
                 /\ \A j \in 1 .. i - 1 : answers'[j].line < answers'[i].line
        <3>1. answers[i].line \in 1 .. Len(lines)
            BY DEF GInv, SessionInv, InOrder
        <3>2. \A j \in 1 .. i - 1 : j \in DOMAIN answers
            BY <1>1
        <3>3. QED
            BY <3>1, <3>2 DEF GInv, SessionInv, InOrder
    <2>2. /\ answers'[last].line \in 1 .. Len(lines')
          /\ \A j \in 1 .. last - 1 : answers'[j].line < answers'[last].line
        BY <1>1
    <2>3. QED
        BY <1>2, <2>1, <2>2 DEF InOrder
<1>4. ASSUME NEW j \in DOMAIN answers, IsOpening(answers[j])
      PROVE  j \in DOMAIN answers' /\ IsOpening(answers'[j])
    BY <1>1, <1>4
<1>5. opens => last \in DOMAIN answers' /\ IsOpening(answers'[last])
    BY <1>1 DEF IsOpening
<1>6. NegotiatedFirst'
    <2>1. ASSUME NEW i \in DOMAIN answers, answers'[i].mode = "legacy"
          PROVE  \E j \in 1 .. i : IsOpening(answers'[j])
        <3>1. PICK j \in 1 .. i : IsOpening(answers[j])
            BY <2>1 DEF GInv, SessionInv, NegotiatedFirst
        <3>2. j \in DOMAIN answers
            BY <1>1
        <3>3. QED
            BY <1>4, <3>1, <3>2
    <2>2. ASSUME mode = "legacy"
          PROVE  \E j \in 1 .. last : IsOpening(answers'[j])
        <3>1. CASE opens
            BY <1>1, <1>5, <3>1
        <3>2. CASE legacy
            <4>1. PICK j \in DOMAIN answers : IsOpening(answers[j])
                BY <3>2 DEF GInv, SessionInv
            <4>2. QED
                BY <1>1, <1>4, <4>1
        <3>3. QED
            BY <2>2, <3>1, <3>2
    <2>3. QED
        BY <1>2, <2>1, <2>2 DEF NegotiatedFirst
<1>7. legacy' => \E j \in DOMAIN answers' : IsOpening(answers'[j])
    <2>1. CASE opens
        BY <1>5, <2>1
    <2>2. CASE legacy
        <3>1. PICK j \in DOMAIN answers : IsOpening(answers[j])
            BY <2>2 DEF GInv, SessionInv
        <3>2. QED
            BY <1>4, <3>1
    <2>3. QED
        BY <2>1, <2>2
<1>8. QED
    BY <1>3, <1>6, <1>7 DEF SessionInv

\* A line leads to nothing, to a frame, or to a request of the engine.
LEMMA Reads ==
    ASSUME GInv, NEW line \in Lines, ReadLine(line)
    PROVE  GInv'
<1> DEFINE n == Len(lines) + 1
<1>1. /\ serving = "reading" /\ n <= MaxLines /\ lines' = Append(lines, line)
      /\ UNCHANGED <<hops, engine, events>>
    BY DEF ReadLine
<1>2. /\ lines' \in Seq(Lines) /\ Len(lines') = n
      /\ Len(lines) \in Nat
      /\ DOMAIN lines = 1 .. Len(lines) /\ DOMAIN lines' = 1 .. n
      /\ \A i \in DOMAIN lines : lines'[i] = lines[i]
      /\ lines'[n] = line
      /\ n \in Clients /\ n \notin Hops
    BY <1>1, Reading DEF GInv
<1>3. /\ calls[n].stage = "none"
      /\ \A i \in DOMAIN answers : answers[i].line \in DOMAIN lines /\ answers[i].line < n
    BY <1>1, NextLineIsNew
<1>4. lines' # <<>> /\ n \in 1 .. n /\ n \in Nat
    BY <1>2, EmptySeq
<1>5. CASE Reaction(line) = "nothing"
    <2>1. UNCHANGED <<serving, legacy, answers, calls>>
        BY <1>5 DEF ReadLine
    <2>2. TypeOK'
        BY <1>1, <1>2, <2>1 DEF GInv, TypeOK, engine
    <2>3. Holding' /\ Rightful' /\ Owns' /\ Room'
        BY <1>1, <2>1, EngineKept
    <2>4. SessionInv'
        <3>1. \A i \in DOMAIN answers : answers[i].line \in 1 .. Len(lines')
            BY <1>2, <1>3
        <3>2. QED
            BY <1>1, <1>2, <2>1, <3>1 DEF GInv, SessionInv, InOrder, NegotiatedFirst, IsOpening
    <2>5. Made' /\ Announced'
        BY <1>1, <1>2, <1>3, <2>1, LineKept DEF Made, GInv, engine
    <2>6. Waiting' /\ Reported'
        BY <1>1, <2>1 DEF GInv, Waiting, Reported
    <2>7. QED
        BY <2>2, <2>3, <2>4, <2>5, <2>6 DEF GInv
<1>6. CASE Reaction(line) \in {"error", "local"}
    <2> DEFINE mode == ModeOf(line)
               opens == Opens(line, mode)
    <2>1. /\ Write(line, n, mode, Reaction(line)) /\ legacy' = (legacy \/ opens)
          /\ UNCHANGED <<serving, calls>>
        BY <1>6 DEF ReadLine
    <2>2. /\ mode \in {"legacy", "modern", "refused"} /\ opens \in BOOLEAN
          /\ opens => Reaction(line) = "local"
          /\ mode = "legacy" => legacy \/ opens
        BY <1>6, Reactions DEF Opens
    <2>3. opens => line.method = "initialize" /\ mode = "legacy" /\ Reaction(line) = "local"
        BY <2>2 DEF Opens
    <2> HIDE DEF mode, opens
    <2>4. /\ answers' \in Seq(Answer)
          /\ Len(answers) \in Nat
          /\ DOMAIN answers = 1 .. Len(answers) /\ DOMAIN answers' = 1 .. (Len(answers) + 1)
          /\ \A i \in DOMAIN answers : answers'[i] = answers[i]
          /\ answers'[Len(answers) + 1].line = n
          /\ answers'[Len(answers) + 1].method = line.method
          /\ answers'[Len(answers) + 1].mode = mode
          /\ answers'[Len(answers) + 1].body = Reaction(line)
        BY <1>4, <1>6, <2>1, <2>2, Writing DEF GInv
    <2>5. TypeOK'
        BY <1>1, <1>2, <2>1, <2>2, <2>4 DEF GInv, TypeOK, engine
    <2>6. Holding' /\ Rightful' /\ Owns' /\ Room'
        BY <1>1, <2>1, EngineKept
    <2>7. SessionInv'
        <3>1. Len(lines') \in Nat /\ Len(lines) <= Len(lines') /\ n \in 1 .. Len(lines')
              /\ serving' = "reading"
            BY <1>1, <1>2, <1>4, <2>1
        <3> HIDE DEF n
        <3>2. QED
            BY <1>2, <1>3, <1>4, <2>1, <2>2, <2>3, <2>4, <3>1, WritesInOrder
    <2>8. Made' /\ Announced'
        BY <1>1, <1>2, <1>3, <2>1, LineKept DEF Made, GInv, engine
    <2>9. Waiting'
        BY <1>1, <2>1 DEF GInv, Waiting
    <2>10. Reported'
        <3>1. \A i \in DOMAIN answers' : i \in DOMAIN answers \/ i = Len(answers) + 1
            BY <2>4
        <3>2. QED
            BY <1>1, <1>3, <1>6, <2>1, <2>4, <3>1 DEF GInv, Reported
    <2>11. QED
        BY <2>5, <2>6, <2>7, <2>8, <2>9, <2>10 DEF GInv
<1>7. CASE Reaction(line) = "call"
    <2>1. /\ Send(n, EngineKind(line.call), ScopeOf(line), line.call.target)
          /\ serving' = "calling" /\ UNCHANGED <<legacy, answers>>
        BY <1>7 DEF ReadLine
    <2>2. /\ line.form = "frame" /\ line.id /\ WellFormed(line.call)
        BY <1>7, Reactions
    <2>3. /\ EngineKind(line.call) \in Kinds /\ ScopeOf(line) \in Scopes
          /\ line.call.target \in Nat
        BY <2>2, CallsHaveAKind, LineScope, GatewayAssumption DEF Line
    <2>4. /\ calls' \in [Clients -> Call]
          /\ \A s \in Clients : s # n => calls'[s] = calls[s]
          /\ calls'[n].scope = ScopeOf(line)
          /\ up => calls'[n].stage = "sent" /\ calls'[n].reply = "none"
          /\ ~up => calls'[n].stage = "answered" /\ calls'[n].reply = "unreachable"
        BY <1>2, <2>1, <2>3, Sends DEF GInv
    <2>5. TypeOK'
        BY <1>1, <1>2, <2>1, <2>4 DEF GInv, TypeOK, engine
    <2>6. Holding' /\ Rightful' /\ Owns' /\ Room'
        <3>1. calls'[n].stage \in {"sent", "answered"} /\ calls'[n].reply \in {"none", "unreachable"}
            BY <2>4
        <3> HIDE DEF n
        <3>2. QED
            BY <1>1, <1>2, <1>3, <2>4, <3>1, NewRequest
    <2>7. SessionInv'
        <3>1. \A i \in DOMAIN answers : answers[i].line \in 1 .. Len(lines') /\ answers[i].line < Len(lines')
            BY <1>2, <1>3
        <3>2. Reaction(line)' = "call"
            BY <1>7, <2>1 DEF Reaction, ModeOf
        <3>3. (Reaction(lines[Len(lines)]) = "call")'
            BY <1>2, <3>2 DEF Reaction, ModeOf
        <3>4. InOrder'
            BY <1>1, <1>4, <2>1, <3>1 DEF GInv, SessionInv, InOrder
        <3>5. QED
            BY <2>1, <3>3, <3>4 DEF GInv, SessionInv, NegotiatedFirst, IsOpening
    <2>8. (\A h \in Hops : calls'[h] = calls[h]) /\ Announced'
        BY <1>1, <2>4, LineKept DEF engine
    <2>9. Made'
        <3>1. ASSUME NEW r \in Clients
              PROVE  /\ calls'[r].stage = "none" => calls'[r].kind = "catalog"
                     /\ calls'[r].stage # "answered" <=> calls'[r].reply = "none"
                     /\ calls'[r].stage # "none" =>
                            /\ Genuine(r)'
                            /\ r \in Hops =>
                                   /\ hops'[r].stage \in {"calling", "emitting", "answered"}
                                   /\ calls'[r].scope = FromCoreHeaders(hops'[r].ask.headers)
                                   /\ calls'[r].kind = HopKind(hops'[r].ask.route)
                            /\ r \notin Hops =>
                                   r \in DOMAIN lines' /\ calls'[r].scope = ScopeOf(lines'[r])
            <4>1. CASE r = n
                BY <1>2, <1>4, <2>2, <2>4, <4>1 DEF Genuine
            <4>2. CASE r # n
                BY <1>1, <2>4, <4>2, LineKept DEF engine
            <4>3. QED
                BY <4>1, <4>2
        <3>2. QED
            BY <3>1 DEF Made
    <2>10. Waiting'
        BY <1>1, <1>2, <2>1, <2>4, <2>8 DEF GInv, Waiting
    <2>11. Reported'
        <3>1. \A i \in DOMAIN answers : calls'[answers[i].line] = calls[answers[i].line]
            BY <1>2, <1>3, <2>4, AnsweredLines
        <3>2. QED
            BY <1>1, <2>1, <2>8, <3>1 DEF GInv, Reported
    <2>12. QED
        BY <2>5, <2>6, <2>7, <2>8, <2>9, <2>10, <2>11 DEF GInv
<1>8. QED
    BY <1>5, <1>6, <1>7 DEF ReadLine

\* The engine's reply is written for the line that asked.
LEMMA Responds ==
    ASSUME GInv, Respond
    PROVE  GInv'
<1> DEFINE n == Len(lines)
           line == lines[n]
           mode == ModeOf(line)
<1>1. /\ serving = "calling" /\ calls[n].stage = "answered"
      /\ Write(line, n, mode, calls[n].reply) /\ serving' = "reading"
      /\ UNCHANGED <<legacy, lines, hops, calls, engine, events>>
    BY DEF Respond
<1>2. n \in DOMAIN lines /\ DOMAIN lines = 1 .. n /\ n \in Nat /\ lines # <<>>
    <2>1. lines # <<>> /\ lines \in Seq(Lines)
        BY <1>1 DEF GInv, TypeOK, SessionInv, InOrder
    <2>2. Len(lines) \in Nat \ {0}
        BY <2>1, EmptySeq
    <2>3. QED
        BY <2>1, <2>2, LenProperties
<1>3. line \in Lines /\ n \in Clients
    BY <1>2, Typed DEF GInv
<1>4. calls[n].reply \in Replies
    BY <1>1, <1>3, Typed DEF GInv, Made, Call
<1>5. /\ mode \in {"legacy", "modern", "refused"} /\ line.method = "tools/call"
      /\ mode = "legacy" => legacy \/ Opens(line, mode)
    BY <1>1, <1>3, Reactions DEF GInv, SessionInv
<1>6. mode = "legacy" => legacy
    BY <1>5 DEF Opens
<1>7. \A i \in DOMAIN answers : answers[i].line < n
    BY <1>1 DEF GInv, SessionInv, InOrder
<1>8. PICK reply \in Replies : reply = calls[n].reply
    BY <1>4
<1>9. PICK shown \in {"legacy", "modern", "refused"} : shown = mode
    BY <1>5
<1>10. /\ answers' \in Seq(Answer)
       /\ Len(answers) \in Nat
       /\ DOMAIN answers = 1 .. Len(answers) /\ DOMAIN answers' = 1 .. (Len(answers) + 1)
       /\ \A i \in DOMAIN answers : answers'[i] = answers[i]
       /\ answers'[Len(answers) + 1].line = n
       /\ answers'[Len(answers) + 1].method = line.method
       /\ answers'[Len(answers) + 1].mode = shown
       /\ answers'[Len(answers) + 1].body = reply
    <2>1. Write(line, n, shown, reply) /\ reply \in Replies \union {"error", "local"}
        BY <1>1, <1>8, <1>9
    <2> HIDE DEF mode
    <2>2. QED
        BY <1>2, <1>3, <2>1, Writing DEF GInv
<1>11. TypeOK'
    BY <1>1, <1>10 DEF GInv, TypeOK, engine
<1>12. Holding' /\ Rightful' /\ Owns' /\ Room'
    BY <1>1, EngineKept
<1>13. SessionInv'
    <2>1. PICK m \in Nat : m = n
        BY <1>2
    <2>2. m \in 1 .. Len(lines') /\ lines' # <<>> /\ Len(lines) \in Nat /\ Len(lines') \in Nat
          /\ Len(lines) <= Len(lines')
        BY <1>1, <1>2, <2>1
    <2>3. shown = "legacy" => legacy
        BY <1>6, <1>9
    <2>4. legacy' = (legacy \/ FALSE)
        BY <1>1 DEF GInv, TypeOK
    <2>5. PICK method : method = line.method
        OBVIOUS
    <2>6. /\ answers'[Len(answers) + 1].line = m
          /\ answers'[Len(answers) + 1].method = method
          /\ \A i \in DOMAIN answers : answers[i].line < m
        BY <1>7, <1>10, <2>1, <2>5
    <2> HIDE DEF n, line, mode
    <2>7. QED
        BY <1>1, <1>10, <2>2, <2>3, <2>4, <2>6, WritesInOrder
<1>14. Made' /\ Announced'
    BY <1>1 DEF GInv, Made, Announced, Genuine, engine
<1>15. Waiting'
    BY <1>1 DEF GInv, Waiting
<1>16. Reported'
    <2>1. \A i \in DOMAIN answers' : i \in DOMAIN answers \/ i = Len(answers) + 1
        BY <1>10
    <2>2. answers'[Len(answers) + 1].body \notin {"error", "local"}
        BY <1>10 DEF Replies
    <2>3. calls'[answers'[Len(answers) + 1].line].reply = answers'[Len(answers) + 1].body
        BY <1>1, <1>8, <1>10
    <2>4. QED
        BY <1>1, <1>10, <2>1, <2>2, <2>3 DEF GInv, Reported
<1>17. QED
    BY <1>11, <1>12, <1>13, <1>14, <1>15, <1>16 DEF GInv

-----------------------------------------------------------------------------
(* The death of the engine.                                                *)

\* It cuts what the engine has and answers that nobody has read; what has been read
\* stays.
LEMMA Dies ==
    ASSUME GInv, NEW cut \in SUBSET OnTheirWay, NEW raw \in SUBSET cut, Die(cut, raw)
    PROVE  GInv'
<1>1. /\ up' = FALSE /\ deaths < MaxDeaths /\ deaths' = deaths + 1 /\ lock' = Nobody
      /\ UNCHANGED <<session, hops, campaigns, events>>
      /\ \A r \in raw : calls[r].reply = "done"
    BY DEF Die
<1>2. ASSUME NEW r \in Clients
      PROVE  /\ calls'[r] \in Call
             /\ calls'[r].stage = "none" <=> calls[r].stage = "none"
             /\ calls'[r].stage \in {"none", "answered"}
             /\ calls'[r].kind = calls[r].kind /\ calls'[r].scope = calls[r].scope
             /\ calls'[r].target = calls[r].target
             /\ calls'[r].stage # "answered" <=> calls'[r].reply = "none"
             /\ calls[r].reply # "none" /\ ~Awaited(r) => calls'[r] = calls[r]
             /\ \/ calls'[r].reply = calls[r].reply
                \/ calls'[r].reply = "raw" /\ calls[r].reply = "done"
                \/ calls'[r].reply = "unreachable"
    <2>1. calls[r] \in Call /\ (calls[r].stage # "answered" <=> calls[r].reply = "none")
        BY Typed DEF GInv, Made
    <2>2. calls'[r] = IF r \in raw THEN [calls[r] EXCEPT !.reply = "raw"]
                      ELSE IF r \in cut \/ InEngine(calls[r])
                           THEN [calls[r] EXCEPT !.stage = "answered", !.reply = "unreachable"]
                      ELSE calls[r]
        BY DEF Die, Cut
    <2>3. r \in cut => Awaited(r) /\ calls[r].stage = "answered"
        BY DEF OnTheirWay
    <2>4. CASE r \in raw
        <3> DEFINE call == [calls[r] EXCEPT !.reply = "raw"]
        <3>1. /\ call \in Call /\ call.reply = "raw" /\ call.stage = calls[r].stage
              /\ call.kind = calls[r].kind /\ call.scope = calls[r].scope
              /\ call.target = calls[r].target
            BY <2>1 DEF Call, Replies
        <3>2. calls'[r] = call /\ calls[r].reply = "done" /\ r \in cut
            BY <1>1, <2>2, <2>4
        <3> HIDE DEF call
        <3>3. QED
            BY <2>1, <2>3, <3>1, <3>2
    <2>5. CASE r \notin raw /\ (r \in cut \/ InEngine(calls[r]))
        <3> DEFINE call == [calls[r] EXCEPT !.stage = "answered", !.reply = "unreachable"]
        <3>1. /\ call \in Call /\ call.reply = "unreachable" /\ call.stage = "answered"
              /\ call.kind = calls[r].kind /\ call.scope = calls[r].scope
              /\ call.target = calls[r].target
            BY <2>1 DEF Call, Replies
        <3>2. calls'[r] = call
            BY <2>2, <2>5
        <3> HIDE DEF call
        <3>3. QED
            BY <2>1, <2>3, <2>5, <3>1, <3>2 DEF InEngine
    <2>6. CASE r \notin raw /\ r \notin cut /\ ~InEngine(calls[r])
        BY <2>1, <2>2, <2>6 DEF InEngine, Call
    <2>7. QED
        BY <2>4, <2>5, <2>6
<1>3. calls' \in [Clients -> Call]
    <2>1. calls' = [r \in Clients |-> calls'[r]]
        BY DEF Die
    <2>2. QED
        BY <1>2, <2>1
<1>4. TypeOK'
    <2>1. deaths' \in 0 .. MaxDeaths
        BY <1>1, GatewayAssumption DEF GInv, TypeOK
    <2>2. lock' \in Clients \cup {Nobody}
        BY <1>1 DEF GInv, TypeOK
    <2>3. QED
        BY <1>1, <1>3, <2>1, <2>2, Zenon DEF GInv, TypeOK, session
<1>5. SessionInv'
    BY <1>1, SessionKept DEF GInv
<1>6. Holding'
    BY <1>1, <1>2, ClientKinds DEF Holding, InEngine
<1>7. Made'
    BY <1>1, <1>2 DEF GInv, Made, Genuine, session
<1>8. \A h \in Hops : h \in Clients /\ (Awaited(h) <=> hops[h].stage = "calling")
    BY ClientKinds DEF Awaited
<1>9. Waiting'
    <2>1. serving = "calling" => Len(lines) \in Clients
        <3>1. serving = "calling" => lines # <<>> /\ lines \in Seq(Lines)
            BY DEF GInv, TypeOK, SessionInv, InOrder
        <3>2. serving = "calling" => Len(lines) \in Nat \ {0}
            BY <3>1, EmptySeq
        <3>3. QED
            BY <3>2, Typed DEF GInv
    <2>2. serving' = "calling" => calls'[Len(lines')].stage # "none"
        BY <1>1, <1>2, <2>1 DEF GInv, Waiting, session
    <2>3. \A h \in Hops : hops[h].stage = "emitting" => calls'[h] = calls[h]
        BY <1>2, <1>8 DEF GInv, Waiting
    <2>4. QED
        BY <1>1, <1>2, <1>8, <2>2, <2>3 DEF GInv, Waiting
<1>10. Rightful'
    <2>1. \A i \in DOMAIN campaigns : campaigns[i].hands \subseteq Clients
                                      /\ campaigns[i].by \in Clients \union {Nobody}
        BY Typed DEF GInv, Campaign
    <2>2. QED
        BY <1>1, <1>2, <2>1 DEF GInv, Rightful
<1>11. Owns'
    <2>1. CampaignsStay
        BY <1>1 DEF CampaignsStay
    <2>2. \A r \in Clients : MadeBy(r)' = MadeBy(r)
        BY <2>1, MadeByStays
    <2>3. QED
        BY <1>2, <2>2 DEF GInv, Owns
<1>12. Reported'
    <2>1. ASSUME NEW h \in Hops
          PROVE  /\ hops'[h].reply \in {"unauthorized", "invalid"} => calls'[h].stage = "none"
                 /\ hops'[h].reply \in {"refused", "done"} /\ calls'[h].kind = "init" =>
                        calls'[h].reply = hops'[h].reply
        <3>1. hops[h].reply # "none" => ~Awaited(h)
            BY <1>8 DEF GInv, Waiting
        <3>2. QED
            BY <1>1, <1>2, <1>8, <3>1 DEF GInv, Reported
    <2>2. ASSUME NEW i \in DOMAIN answers
          PROVE  IF answers[i].body \in {"error", "local"}
                 THEN calls'[answers[i].line].stage = "none"
                 ELSE calls'[answers[i].line].reply = answers[i].body
        <3>1. /\ answers[i].line \in Clients /\ answers[i].line \in DOMAIN lines
              /\ answers[i].body \notin {"error", "local"} => calls[answers[i].line].stage = "answered"
            BY AnsweredLines
        <3>2. answers[i].line \notin Hops
            BY <3>1, Typed DEF GInv
        <3>3. serving = "calling" => answers[i].line # Len(lines)
            BY <3>1, Typed DEF GInv, SessionInv, InOrder
        <3>4. ~Awaited(answers[i].line)
            BY <3>2, <3>3 DEF Awaited
        <3>5. QED
            BY <1>2, <3>1, <3>4 DEF GInv, Made, Reported
    <2>3. QED
        BY <1>1, <2>1, <2>2 DEF Reported, session
<1>13. Announced'
    BY <1>1 DEF GInv, Announced
<1>14. Room'
    <2>1. \A j \in DOMAIN campaigns : ~Runs(j)'
        BY <1>2 DEF Runs
    <2>2. Pending' \subseteq Pending
        BY <1>1, <2>1 DEF Pending
    <2>3. QED
        BY <1>1, <2>2, RoomKept DEF GInv
<1>15. QED
    BY <1>4, <1>5, <1>6, <1>7, <1>9, <1>10, <1>11, <1>12, <1>13, <1>14 DEF GInv

-----------------------------------------------------------------------------
(* The specification.                                                      *)

\* The first state: no engine answers, and the campaigns are those of the store.
LEMMA InitGInv == Init => GInv
<1> SUFFICES ASSUME Init PROVE GInv
    OBVIOUS
<1>1. Len(Existing) \in Nat /\ DOMAIN Existing = 1 .. Len(Existing)
      /\ \A i \in DOMAIN Existing : Existing[i] \in Scopes \ {NoScope}
    BY GatewayAssumption, LenProperties, ElementOfSeq
<1>2. /\ DOMAIN campaigns = 1 .. Len(Existing)
      /\ \A i \in DOMAIN campaigns :
             campaigns[i] = [owner |-> Existing[i], status |-> "active", by |-> Nobody, hands |-> {}]
    BY <1>1 DEF Init
<1>3. campaigns \in Seq(Campaign)
    <2>1. campaigns = [i \in 1 .. Len(Existing) |-> campaigns[i]]
        BY <1>1 DEF Init
    <2>2. \A i \in 1 .. Len(Existing) : campaigns[i] \in Campaign
        BY <1>1, <1>2 DEF Campaign
    <2>3. QED
        BY <1>1, <2>1, <2>2, IsASeq
<1>4. AnAsk \in Asks
    BY GatewayAssumption DEF AnAsk
<1>5. hops \in [Hops -> [stage : HopStages, ask : Asks, reply : HopReplies]]
    BY <1>4 DEF Init, HopStages, HopReplies
<1>6. NoCall \in Call
    BY KindsAre DEF NoCall, Call, Scopes
<1>7. /\ lines \in Seq(Lines) /\ Len(lines) = 0 /\ DOMAIN lines = {}
      /\ answers \in Seq(Answer) /\ DOMAIN answers = {}
      /\ events \in Seq(Nat) /\ DOMAIN events = {}
    BY EmptySeq DEF Init
<1>8. TypeOK
    <2>1. /\ serving \in {"starting", "reading", "calling", "closed"} /\ legacy \in BOOLEAN
          /\ lock \in Clients \cup {Nobody} /\ up \in BOOLEAN
        BY DEF Init
    <2>2. Len(lines) <= MaxLines /\ deaths \in 0 .. MaxDeaths
        BY <1>7, GatewayAssumption DEF Init
    <2>3. calls \in [Clients -> Call]
        BY <1>6 DEF Init
    <2>4. QED
        BY <2>1, <2>2, <2>3, <1>3, <1>5, <1>7 DEF TypeOK
<1>9. SessionInv
    BY <1>7 DEF Init, SessionInv, InOrder, NegotiatedFirst
<1>10. \A r \in Clients : calls[r] = NoCall
    BY DEF Init
<1>11. Holding
    BY <1>10, ClientKinds DEF Init, Holding, NoCall, InEngine
<1>12. Made /\ Waiting /\ Reported /\ Announced
    BY <1>7, <1>10, ClientKinds DEF Init, Made, Waiting, Reported, Announced, NoCall
<1>13. Rightful
    BY <1>2, <1>10 DEF Rightful, NoCall
<1>14. Owns
    <2>1. \A r \in Clients : MadeBy(r) = {}
        BY <1>2, ClientKinds DEF MadeBy
    <2>2. QED
        BY <1>10, <2>1 DEF Owns, NoCall
<1>15. Room
    <2>1. Pending = 1 .. Len(Existing)
        BY <1>2 DEF Pending
    <2>2. Cardinality(Pending) = Len(Existing)
        <3>1. Len(Existing) \in Nat
            BY <1>1
        <3>2. Cardinality(1 .. Len(Existing)) =
                IF 1 > Len(Existing) THEN 0 ELSE Len(Existing) - 1 + 1
            BY <3>1, FS_Interval
        <3>3. QED
            BY <2>1, <3>1, <3>2
    <2>3. QED
        BY <1>1, <2>2 DEF Init, Room
<1>16. QED
    BY <1>8, <1>9, <1>11, <1>12, <1>13, <1>14, <1>15 DEF GInv

\* Every step preserves the invariant.
LEMMA NextGInv == GInv /\ [Next]_vars => GInv'
<1> SUFFICES ASSUME GInv, [Next]_vars PROVE GInv'
    OBVIOUS
<1>1. CASE Session
    BY <1>1, Launches, Responds, Reads DEF Session
<1>2. ASSUME NEW h \in Hops, Hop(h)
      PROVE  GInv'
    BY <1>2, Arrives, Wakes, Forwards, Receives, Timeouts, Emits DEF Hop, Handle
<1>3. ASSUME NEW r \in Clients, Serve(r)
      PROVE  GInv'
    BY <1>3, ServeStep
<1>4. CASE EngineDies
    BY <1>4, Dies DEF EngineDies
<1>5. CASE UNCHANGED vars
    <2>1. /\ UNCHANGED <<serving, legacy, lines, answers, hops, calls, events>>
          /\ UNCHANGED <<calls, engine>> /\ UNCHANGED session
        BY <1>5 DEF vars, engine, session
    <2>2. TypeOK' /\ SessionInv'
        BY <2>1, SessionKept DEF GInv, TypeOK, engine
    <2>3. Holding' /\ Rightful' /\ Owns' /\ Room'
        BY <2>1, EngineKept
    <2>4. Made' /\ Waiting' /\ Reported' /\ Announced'
        BY <2>1 DEF GInv, Made, Waiting, Reported, Announced, Genuine, engine
    <2>5. QED
        BY <2>2, <2>3, <2>4 DEF GInv
<1>6. QED
    BY <1>1, <1>2, <1>3, <1>4, <1>5 DEF Next

\* The sessions and handlers, their requests, the campaigns and the reports agree.
THEOREM GatewayInvariant == Spec => []GInv
BY InitGInv, NextGInv, PTL DEF Spec

\* The part of it that the run checks: nobody gets a legacy answer before a legacy
\* initialize was answered, frames come in the order of the lines, and two handlers
\* never count the campaigns at once nor run two attempts (request_is_modern,
\* handle_frame_with_legacy_state; _init_workspace, run_experiment).
THEOREM DoorsAndLocks == Spec => []IInv
<1>1. GInv => IInv
    BY DEF GInv, SessionInv, IInv
<1>2. QED
    BY <1>1, GatewayInvariant, PTL

\* Whoever changed a campaign is its owner or the node, in the words of Core, and a
\* campaign belongs to whom it was made for (caller.rs, authorize_campaign).
THEOREM CallersAct == Spec => []EffectsHaveTheirCaller
<1>1. GInv => EffectsHaveTheirCaller
    <2> SUFFICES ASSUME GInv PROVE EffectsHaveTheirCaller
        OBVIOUS
    <2>1. ASSUME NEW r \in Clients, calls[r].stage # "none"
          PROVE  /\ Genuine(r)
                 /\ calls[r].scope = Node <=> OfNode(r)
                 /\ \A user \in Users : calls[r].scope = user => OfUser(r, user)
        <3>1. CASE r \in Hops
            <4>1. hops[r].ask \in Asks /\ Genuine(r)
                  /\ calls[r].scope = FromCoreHeaders(hops[r].ask.headers)
                BY <2>1, <3>1, Typed DEF GInv, Made
            <4>2. QED
                BY <3>1, <4>1, HopCaller DEF OfNode, OfUser
        <3>2. CASE r \notin Hops
            <4>1. r \in DOMAIN lines /\ Genuine(r) /\ calls[r].scope = ScopeOf(lines[r])
                BY <2>1, <3>2 DEF GInv, Made
            <4>2. lines[r] \in Lines
                BY <4>1, Typed DEF GInv
            <4>3. QED
                BY <3>2, <4>1, <4>2, LineCaller DEF OfNode, OfUser
        <3>3. QED
            BY <3>1, <3>2
    <2>2. ASSUME NEW i \in DOMAIN campaigns, NEW r \in campaigns[i].hands
          PROVE  Genuine(r) /\ (OfNode(r) \/ OfUser(r, campaigns[i].owner))
        <3>1. r \in Clients
            BY Typed DEF GInv, Campaign
        <3>2. calls[r].stage # "none" /\ MaySee(calls[r].scope, campaigns[i].owner)
            BY DEF GInv, Rightful
        <3>3. QED
            BY <2>1, <3>1, <3>2 DEF MaySee
    <2>3. ASSUME NEW i \in DOMAIN campaigns, campaigns[i].by # Nobody
          PROVE  campaigns[i].owner = Node <=> OfNode(campaigns[i].by)
        <3>1. campaigns[i].by \in Clients
            BY <2>3, Typed DEF GInv, Campaign
        <3>2. /\ calls[campaigns[i].by].scope = campaigns[i].owner
              /\ calls[campaigns[i].by].stage # "none"
            BY <2>3 DEF GInv, Rightful
        <3>3. QED
            BY <2>1, <3>1, <3>2
    <2>4. QED
        BY <2>2, <2>3 DEF EffectsHaveTheirCaller
<1>2. QED
    BY <1>1, GatewayInvariant, PTL

\* A request that was told it is malformed or unauthorized never changes a campaign;
\* one whose workspace was refused never gets it; one that was told of a workspace has
\* exactly that one (the answers of mcp_stdio.rs and api.rs).
THEOREM AnswersHold == Spec => []AnswersAreTrue
<1>1. GInv => AnswersAreTrue
    <2> SUFFICES ASSUME GInv, NEW r \in Clients
                 PROVE  /\ Told(r) \intersect {"error", "unauthorized", "invalid", "local"} # {}
                               => TouchedBy(r) = {}
                        /\ calls[r].kind = "init" /\ "refused" \in Told(r) => MadeBy(r) = {}
                        /\ calls[r].kind = "init" /\ "done" \in Told(r) =>
                               MadeBy(r) = {calls[r].target}
        BY DEF AnswersAreTrue
    <2>1. calls[r].stage = "none" => TouchedBy(r) = {}
        BY DEF GInv, Rightful, TouchedBy
    <2>2. /\ Told(r) \intersect {"error", "unauthorized", "invalid", "local"} # {} =>
                 calls[r].stage = "none"
          /\ calls[r].kind = "init" =>
                 \A reply \in {"refused", "done"} : reply \in Told(r) => calls[r].reply = reply
        <3>1. CASE r \in Hops
            <4>1. hops[r].reply \in HopReplies /\ Told(r) = {hops[r].reply} \ {"none"}
                BY <3>1, Typed DEF GInv, Told
            <4>2. hops[r].reply \notin {"error", "local"}
                BY <4>1 DEF HopReplies, Replies
            <4>3. QED
                BY <3>1, <4>1, <4>2 DEF GInv, Reported
        <3>2. CASE r \notin Hops
            <4>1. \A body \in Told(r) : \E i \in DOMAIN answers :
                      answers[i].line = r /\ answers[i].body = body
                BY <3>2 DEF Told
            <4>2. \A i \in DOMAIN answers : answers[i].body \notin {"unauthorized", "invalid"}
                BY AnsweredLines DEF Replies
            <4>3. QED
                BY <4>1, <4>2 DEF GInv, Reported
        <3>3. QED
            BY <3>1, <3>2
    <2>3. calls[r].kind = "init" /\ "refused" \in Told(r) => MadeBy(r) = {}
        BY <2>2 DEF GInv, Owns
    <2>4. calls[r].kind = "init" /\ "done" \in Told(r) => MadeBy(r) = {calls[r].target}
        BY <2>2 DEF GInv, Owns
    <2>5. QED
        BY <2>1, <2>2, <2>3, <2>4
<1>2. QED
    BY <1>1, GatewayInvariant, PTL

\* Every workspace.created event names a campaign that the request behind it made, and
\* no campaign is announced twice (research_init_workspace, api.rs).
THEOREM EventsHold == Spec => []EventsAreTrue
<1>1. GInv => EventsAreTrue
    BY DEF GInv, Announced, EventsAreTrue
<1>2. QED
    BY <1>1, GatewayInvariant, PTL

\* At most one campaign more than the limit is open, unless the store held more from
\* the start (_init_workspace, server.py).
THEOREM AdmissionLimit == Spec => []AdmissionHolds
<1>1. GInv => AdmissionHolds
    <2> SUFFICES ASSUME GInv PROVE AdmissionHolds
        OBVIOUS
    <2>1. Open \subseteq Pending
        BY DEF Open, Pending
    <2>2. /\ Cardinality(Open) <= Cardinality(Pending)
          /\ Cardinality(Open) \in Nat /\ Cardinality(Pending) \in Nat
        BY <2>1, PendingFinite, FS_Subset, FS_CardinalityType DEF GInv
    <2>3. MaxActive \in Nat /\ Len(Existing) \in Nat
        BY GatewayAssumption, LenProperties
    <2>4. QED
        BY <2>2, <2>3 DEF GInv, Room, AdmissionHolds
<1>2. QED
    BY <1>1, GatewayInvariant, PTL

=============================================================================
