------------------------------ MODULE Loopback ------------------------------
(***************************************************************************)
(* The calls that the shared crates make over loopback, while the programs *)
(* behind the addresses come and go: the clients of Core (HostCall,        *)
(* ModelStream), the client of a sidecar's handoff file (Handoff) and the  *)
(* request that sends a bearer only after a peer proof (PeerProof).        *)
(*                                                                         *)
(* Core, the sidecar and the programs that take a free port are external:  *)
(* they are modelled by what the clients may see of them.                  *)
(***************************************************************************)
EXTENDS HostCall, ModelStream, PeerProof, Handoff

CONSTANTS
    Callers,
    Processes,      \* processes: an environment, who calls, what they may ask, and
                    \* what the sidecars that they meet hold
    Wires,          \* what Core may stream
    MaxChanges,     \* bound: changes of the program behind an address
    MaxChunk,       \* bound: the tokens of a chunk
    NoOp

ASSUME LoopbackAssumption ==
    /\ MaxChanges \in Nat /\ MaxChunk \in Nat \ {0}
    /\ \A p \in Processes : p.env \in Env /\ p.callers \subseteq Callers /\ NoOp \notin p.ops
    /\ Wires \subseteq Seq(Tokens)
    /\ "earlier" \notin Callers     \* a challenge of no call of this process

Addresses == Ports \union {"v4", "v6"}

VARIABLES
    process,        \* the process that makes the calls
    at,             \* who listens: nobody, own (Core or the sidecar), other
    epoch,          \* which program it is, by its number; at v4, the sidecar's run
    held,           \* the secret that the sidecar holds
    published,      \* has this run of the sidecar published its handoff?
    file,           \* the run that the handoff file names
    leaving,        \* a sidecar that shuts down: its run and what it loaded
    cache,          \* the proof cache of the process
    prover,         \* the program whose proof the cache entry is, 0 with no entry
    given,          \* the proofs that a holder gave: address, program and token
    callers,
    streams

vars == <<process, at, epoch, held, published, file, leaving, cache, prover, given, callers,
          streams>>

sidecar == <<held, published, file, leaving>>
proofs == <<cache, prover, given>>

Stages ==
    {"idle", "finding", "found", "checking", "probing", "probed", "cleared", "sent", "handled",
     "streaming", "done"}

Outcomes ==
    {"none", "invalid", "notHosted", "transport", "rejected", "ok", "fallback", "error",
     "partial", "timeout", "unverified", "answered"}

Verdicts == {"proven", "noProof", "wrongProof", "unreachable"}

Caller ==
    [op : process.ops \union {NoOp},
     stage : Stages,
     run : Nat,                             \* the run whose handoff it loaded
     by : {"nobody", "own", "other"},       \* who received the request,
     addr : Addresses \union {NoPort},      \* at which address,
     epoch : Nat,                           \* and as which program there
     vouch : Nat,                           \* the program whose proof it relies on
     acted : Nat,                           \* how often Core or the sidecar acted on it
     seen : Verdicts \union Bodies \union Cuts \union {"none"},
     framing : Framings,
     outcome : Outcomes]

Idle ==
    [op |-> NoOp, stage |-> "idle", run |-> 0, by |-> "nobody", addr |-> NoPort, epoch |-> 0,
     vouch |-> 0, acted |-> 0, seen |-> "none", framing |-> "plain", outcome |-> "none"]

In(c, stage) == callers[c].stage = stage
IsOp(c, kind) == callers[c].op # NoOp /\ callers[c].op.kind = kind

\* The address that a request goes to.
Target(op) ==
    IF op.kind \in HostKinds THEN CorePort(process.env)
    ELSE IF op.kind = "verified" THEN PinLocalhost(op.host)
    ELSE "v4"

\* The addresses that some call of the process may reach; a change elsewhere is
\* of no concern to any of them.
Reached ==
    {Target(op) : op \in process.ops}
        \union UNION {Resolved(op.host) : op \in {o \in process.ops : o.kind = "verified"}}

UsesHandoff == \E op \in process.ops : op.kind = "handoff"

Finish(c, outcome) ==
    callers' = [callers EXCEPT ![c].stage = "done", ![c].outcome = outcome]

Step(c, stage) == callers' = [callers EXCEPT ![c].stage = stage]

(***************************************************************************)
(* The programs.                                                           *)
(***************************************************************************)
Newest == CHOOSE n \in {epoch[a] : a \in Addresses} : \A a \in Addresses : epoch[a] <= n

\* Nobody listens on IPv6 but programs that are not the sidecar.
Bind(a, who) ==
    /\ at[a] = "nobody"
    /\ a = "v6" => who = "other"
    /\ at' = [at EXCEPT ![a] = who]
    /\ Newest < MaxChanges
    /\ epoch' = [epoch EXCEPT ![a] = Newest + 1]
    /\ \/ a = "v4" /\ who = "own" /\ held' \in process.secrets /\ published' = FALSE
       \/ ~(a = "v4" /\ who = "own") /\ UNCHANGED <<held, published>>
    /\ UNCHANGED <<process, file, leaving, proofs, callers, streams>>

\* publish: the file is replaced by a rename, whole or not at all.
Publish ==
    /\ at["v4"] = "own" /\ ~published
    /\ file' = epoch["v4"]
    /\ published' = TRUE
    /\ UNCHANGED <<process, at, epoch, held, leaving, proofs, callers, streams>>

\* A program dies or is killed: nothing is withdrawn.
Vanish(a) ==
    /\ at[a] # "nobody"
    /\ at' = [at EXCEPT ![a] = "nobody"]
    /\ UNCHANGED <<process, epoch, held, published, file, leaving, proofs, callers, streams>>

\* shutdown_signal: the sidecar stops listening, and withdraws what it published.
ShutDown ==
    /\ at["v4"] = "own" /\ published /\ leaving = NoFile
    /\ at' = [at EXCEPT !["v4"] = "nobody"]
    /\ leaving' = [run |-> epoch["v4"], loaded |-> NoFile, looked |-> FALSE]
    /\ UNCHANGED <<process, epoch, held, published, file, proofs, callers, streams>>

WithdrawLoad ==
    /\ leaving # NoFile /\ ~leaving.looked
    /\ leaving' = IF Loaded(file, leaving.run)
                  THEN [leaving EXCEPT !.loaded = file, !.looked = TRUE]
                  ELSE NoFile
    /\ UNCHANGED <<process, at, epoch, held, published, file, proofs, callers, streams>>

WithdrawRemove ==
    /\ leaving # NoFile /\ leaving.looked
    /\ file' = NoFile
    /\ leaving' = NoFile
    /\ UNCHANGED <<process, at, epoch, held, published, proofs, callers, streams>>

(***************************************************************************)
(* A caller begins.                                                        *)
(***************************************************************************)
Entered(op) ==
    IF op.kind \in HostKinds
    THEN IF Early(op.kind, op.faults, process.env) = "none"
         THEN [Idle EXCEPT !.op = op, !.stage = "sent"]
         ELSE [Idle EXCEPT !.op = op, !.stage = "done", !.outcome = Early(op.kind, op.faults, process.env)]
    ELSE IF op.kind = "verified" THEN [Idle EXCEPT !.op = op, !.stage = "checking"]
    ELSE IF file = NoFile THEN [Idle EXCEPT !.op = op, !.stage = "done", !.outcome = "fallback"]
    ELSE [Idle EXCEPT !.op = op, !.stage = "finding", !.run = file]

Enter(c, op) ==
    /\ In(c, "idle")
    /\ callers' = [callers EXCEPT ![c] = Entered(op)]
    /\ UNCHANGED <<process, at, epoch, held, published, file, leaving, proofs, streams>>

(***************************************************************************)
(* connect: whoever answers the health route with a success is taken for   *)
(* the sidecar that published the file.                                    *)
(***************************************************************************)
Health(c) ==
    /\ In(c, "finding")
    /\ \/ at["v4"] = "nobody" /\ Finish(c, "fallback")
       \/ at["v4"] = "own" /\ Step(c, "sent")
       \/ at["v4"] = "other" /\ (Step(c, "sent") \/ Finish(c, "fallback"))
    /\ UNCHANGED <<process, at, epoch, sidecar, proofs, streams>>

\* Only the health probe has a timeout.
TimesOutMutant(c) == IsOp(c, "handoff") /\ In(c, "finding")

\* PROBE_TIMEOUT and CALL_TIMEOUT, which every request through the client has.
TimesOut(c) == IsOp(c, "handoff") /\ callers[c].stage \in {"finding", "sent", "handled"}

Timeout(c) ==
    /\ TimesOut(c)
    /\ Finish(c, IF In(c, "finding") THEN "fallback" ELSE "timeout")
    /\ UNCHANGED <<process, at, epoch, sidecar, proofs, streams>>

(***************************************************************************)
(* send_with_verified_bearer                                               *)
(***************************************************************************)
Url(c) == PinLocalhost(callers[c].op.host)

\* A URL or an authorization header that cannot be made of the call ends it;
\* else a fresh entry stands for a proof, else the health route is challenged.
Check(c) ==
    /\ In(c, "checking")
    /\ \/ Finish(c, "invalid")
       \/ LET fresh == IsFresh(cache, Url(c), callers[c].op.token)
          IN  callers' = [callers EXCEPT ![c].stage = IF fresh THEN "cleared" ELSE "probing",
                                         ![c].vouch = IF fresh THEN prover ELSE 0]
    /\ UNCHANGED <<process, at, epoch, sidecar, proofs, streams>>

\* What listens answers: the sidecar with the proof of what it holds, another
\* program with none, or with one that it was once given for another challenge.
Probe(c, a) ==
    LET token == callers[c].op.token
        challenge == NewChallenge(c)
        Judge(up, provided, program) ==
            callers' = [callers EXCEPT ![c].stage = "probed",
                                       ![c].vouch = program,
                                       ![c].seen = Verdict(token, challenge, up, provided)]
    IN  /\ In(c, "probing") /\ a \in Resolved(Url(c))
        /\ \/ at[a] = "nobody" /\ Judge(FALSE, NoProof, 0) /\ UNCHANGED given
           \/ /\ at[a] = "own"
              /\ Judge(TRUE, Proof(held, challenge), epoch[a])
              /\ given' = given \union {<<a, epoch[a], held>>}
           \/ /\ at[a] = "other"
              /\ \E provided \in {NoProof, Proof(token, NewChallenge("earlier"))} :
                    Judge(TRUE, provided, 0)
              /\ UNCHANGED given
        /\ UNCHANGED <<process, at, epoch, sidecar, cache, prover, streams>>

\* The probe's own client gives up after two seconds.
ProbeTimeout(c) ==
    /\ In(c, "probing")
    /\ callers' = [callers EXCEPT ![c].stage = "probed", ![c].vouch = 0, ![c].seen = "unreachable"]
    /\ UNCHANGED <<process, at, epoch, sidecar, proofs, streams>>

Conclude(c) ==
    /\ In(c, "probed")
    /\ cache' = AfterVerdict(cache, Url(c), callers[c].op.token, callers[c].seen)
    /\ prover' = IF callers[c].seen = "proven" THEN callers[c].vouch ELSE 0
    /\ IF callers[c].seen = "proven" THEN Step(c, "cleared") ELSE Finish(c, "unverified")
    /\ UNCHANGED <<process, at, epoch, sidecar, given, streams>>

\* The token must make a header; then the request is sent.
Execute(c) ==
    /\ In(c, "cleared")
    /\ Step(c, "sent") \/ Finish(c, "invalid")
    /\ UNCHANGED <<process, at, epoch, sidecar, proofs, streams>>

Expire ==
    /\ cache # NoEntry
    /\ cache' = NoEntry
    /\ prover' = 0
    /\ UNCHANGED <<process, at, epoch, sidecar, given, callers, streams>>

(***************************************************************************)
(* A request arrives, and its answer returns.                              *)
(***************************************************************************)
\* Does the program that the caller meant act on the request?
Accepts(op, run, acts) ==
    IF op.kind = "handoff" THEN Authorize(run, ExtToken, epoch["v4"], op.path)
    ELSE IF op.kind = "verified" THEN held = op.token
    ELSE acts

Arrive(c, a) ==
    LET me == callers[c]
    IN  /\ In(c, "sent")
        /\ a \in IF me.op.kind = "verified" THEN Resolved(Url(c)) ELSE {Target(me.op)}
        /\ IF at[a] = "nobody"
           THEN Finish(c, IF me.op.kind = "handoff" THEN "error" ELSE "transport")
           ELSE \E acts \in BOOLEAN :
                    callers' = [callers EXCEPT ![c].stage = "handled", ![c].by = at[a],
                        ![c].addr = a, ![c].epoch = epoch[a],
                        ![c].acted = IF at[a] = "own" /\ Accepts(me.op, me.run, acts)
                                     THEN @ + 1 ELSE @]
        /\ UNCHANGED <<process, at, epoch, sidecar, proofs, streams>>

\* Is the program that handled the request still there to answer it?
Answers(c) ==
    LET a == callers[c].addr
    IN  at[a] = callers[c].by /\ epoch[a] = callers[c].epoch

\* Core answers 2xx when it acted; what other programs answer is anything.  An
\* authorization is acted on with a yes or a no.
HostResponses(c) ==
    LET op == callers[c].op
    IN  {r \in Responses :
            /\ callers[c].by = "own" =>
                  /\ r.status = "2xx" <=> callers[c].acted > 0
                  /\ r.body \in {"good", "cut"} \union
                        (IF op.kind = "authorize" THEN {"denied"} ELSE {})}

HostReturns(c) ==
    \/ /\ ~Answers(c)
       /\ Finish(c, "transport")
       /\ UNCHANGED streams
    \/ \E r \in HostResponses(c) :
        /\ r.body = "cut" <=> ~Answers(c)
        /\ LET outcome == Outcome(callers[c].op.kind, r)
           IN  IF outcome = "streaming"
               THEN /\ Step(c, "streaming")
                    /\ \E wire \in Wires : streams' = [streams EXCEPT ![c] = Opened(wire)]
               ELSE /\ callers' = [callers EXCEPT ![c].stage = "done", ![c].outcome = outcome,
                                                  ![c].seen = r.body]
                    /\ UNCHANGED streams

SidecarReturns(c) ==
    /\ \E framing \in Framings, cut \in Cuts, status \in {"2xx", "other"} :
          /\ cut = "none" <=> Answers(c)
          /\ callers[c].by = "own" => (status = "2xx" <=> callers[c].acted > 0)
          /\ callers' = [callers EXCEPT ![c].stage = "done", ![c].framing = framing,
                ![c].seen = cut,
                ![c].outcome = CallOutcome(SidecarResponse(status, framing, cut))]
    /\ UNCHANGED streams

VerifiedReturns(c) ==
    /\ Finish(c, IF Answers(c) THEN "answered" ELSE "transport")
    /\ UNCHANGED streams

Return(c) ==
    /\ In(c, "handled")
    /\ IF callers[c].op.kind \in HostKinds THEN HostReturns(c)
       ELSE IF IsOp(c, "handoff") THEN SidecarReturns(c)
       ELSE VerifiedReturns(c)
    /\ UNCHANGED <<process, at, epoch, sidecar, proofs>>

(***************************************************************************)
(* The model stream: the loop of ModelStreamClient::stream.                *)
(***************************************************************************)
Chunk(c, n) ==
    /\ In(c, "streaming")
    /\ MayTake(streams[c], n)
    /\ Answers(c)
    /\ streams' = [streams EXCEPT ![c] = TakeChunk(@, n)]
    /\ UNCHANGED <<process, at, epoch, sidecar, proofs, callers>>

Frame(c) ==
    /\ In(c, "streaming")
    /\ HasFrame(streams[c])
    /\ streams' = [streams EXCEPT ![c] = CutFrame(@)]
    /\ UNCHANGED <<process, at, epoch, sidecar, proofs, callers>>

\* The response ends when all of it was sent, and breaks when its program is gone.
EndStream(c) ==
    LET s == streams[c]
    IN  /\ In(c, "streaming")
        /\ ~s.over /\ ~HasFrame(s)
        /\ \/ s.taken = Len(s.wire) /\ streams' = [streams EXCEPT ![c] = EndOfInput(@)]
           \/ ~Answers(c) /\ streams' = [streams EXCEPT ![c] = CutOff(@)]
        /\ UNCHANGED <<process, at, epoch, sidecar, proofs, callers>>

\* The stream is dropped after its last item.
CloseStream(c) ==
    /\ In(c, "streaming")
    /\ streams[c].over
    /\ Finish(c, "answered")
    /\ UNCHANGED <<process, at, epoch, sidecar, proofs, streams>>

-----------------------------------------------------------------------------
Init ==
    /\ process \in Processes
    /\ at = [a \in Addresses |-> IF a \in Ports \union {"v4"} THEN "own" ELSE "nobody"]
    /\ epoch = [a \in Addresses |-> 1]
    /\ held \in process.secrets
    /\ published = FALSE
    /\ file = NoFile
    /\ leaving = NoFile
    /\ cache = NoEntry
    /\ prover = 0
    /\ given = {}
    /\ callers = [c \in Callers |-> Idle]
    /\ streams = [c \in Callers |-> Opened(<<>>)]

Programs ==
    \/ \E a \in Addresses \intersect Reached : Vanish(a) \/ \E who \in {"own", "other"} : Bind(a, who)
    \/ UsesHandoff /\ (Publish \/ ShutDown \/ WithdrawLoad \/ WithdrawRemove)

Streaming(c) ==
    Frame(c) \/ EndStream(c) \/ CloseStream(c) \/ \E n \in 1 .. MaxChunk : Chunk(c, n)

Verifying(c) ==
    Check(c) \/ ProbeTimeout(c) \/ Conclude(c) \/ Execute(c) \/ \E a \in Addresses : Probe(c, a)

Calling(c) ==
    \/ Health(c) \/ Timeout(c) \/ Verifying(c) \/ Streaming(c)
    \/ Return(c) \/ \E a \in Addresses : Arrive(c, a)

Next ==
    \/ Programs \/ Expire
    \/ \E c \in process.callers : Calling(c) \/ \E op \in process.ops : Enter(c, op)

\* A client runs its own steps and its own timers; nothing obliges a program that
\* it talks to.
Fairness == \A c \in Callers :
    WF_vars(Timeout(c)) /\ WF_vars(Check(c) \/ ProbeTimeout(c) \/ Conclude(c))
    /\ WF_vars(Frame(c) \/ CloseStream(c))

Spec == Init /\ [][Next]_vars /\ Fairness

-----------------------------------------------------------------------------
(***************************************************************************)
(* Properties.                                                             *)
(***************************************************************************)
IsPrefix(s, t) == Len(s) <= Len(t) /\ \A i \in DOMAIN s : s[i] = t[i]

Received(c) == callers[c].by # "nobody"

\* The types, and: who loaded a handoff loaded one that some run published.
TypeOK ==
    /\ process \in Processes
    /\ at \in [Addresses -> {"nobody", "own", "other"}] /\ at["v6"] # "own"
    /\ epoch \in [Addresses -> 1 .. MaxChanges]
    /\ held \in Secrets \union {Empty}
    /\ published \in BOOLEAN
    /\ file \in {NoFile} \union (1 .. epoch["v4"])
    /\ leaving \in {NoFile} \union [run : Nat, loaded : {NoFile} \union Nat, looked : BOOLEAN]
    /\ cache \in {NoEntry} \union [url : Addresses, token : Secrets]
    /\ prover \in Nat
    /\ given \subseteq Addresses \X Nat \X (Secrets \union {Empty})
    /\ callers \in [Callers -> Caller]
    /\ streams \in [Callers -> Stream]

\* "An unverified listener receives neither the token nor the request"
\* (peer_proof.rs): a bearer is sent only on a proof that some program gave at that
\* very address of that very token, to this call or to the one whose success is
\* still cached, and nobody but that program receives it.  One exception is in the
\* code, against "only a peer that proved it already holds the token": a program
\* that has replaced the prover at the address since, before the request arrived
\* or while the success was cached, receives the token too.
BearerNeedsProof ==
    \A c \in Callers : IsOp(c, "verified") =>
        LET me == callers[c]
            replaced == me.vouch < me.epoch
        IN
        /\ Received(c) => /\ <<me.addr, me.vouch, me.op.token>> \in given
                          /\ me.epoch = me.vouch \/ replaced
        /\ callers[c].outcome = "unverified" => ~Received(c)

\* What a client tells its caller is what happened: a request refused before it
\* was sent reached nobody, a success was acted on exactly once by Core, or by the
\* run of the sidecar that published the token, unless another program had taken
\* the address; a refusal was not acted on; a chunked body is never taken for whole
\* when it was cut; and an authorization succeeds on a yes only.
OutcomesAreTrue ==
    \A c \in Callers :
        LET me == callers[c]
        IN  /\ me.acted <= 1
            /\ me.acted = 1 /\ IsOp(c, "handoff") => me.run = me.epoch
            /\ me.outcome \in {"invalid", "notHosted", "fallback"} => ~Received(c)
            /\ me.outcome = "ok" => me.acted = 1 \/ me.by = "other"
            /\ me.outcome = "rejected" /\ me.by = "own" => me.acted = 0 \/ me.seen = "denied"
            /\ me.outcome \in {"ok", "partial"} /\ me.framing = "chunked" => me.seen # "body"
            /\ me.outcome = "ok" /\ IsOp(c, "authorize") => me.seen = "good"

\* The items of a stream are those that its bytes mean, however they were cut into
\* chunks, then one error if the response stops before a terminal event; nothing
\* follows a terminal item.
StreamIsFaithful ==
    \A c \in Callers :
        LET s == streams[c]
            meant == Meant(SubSeq(s.wire, 1, s.taken))
            ended == meant # <<>> /\ meant[Len(meant)] \in Terminal
        IN  /\ \A i \in 1 .. Len(s.yields) - 1 : s.yields[i] \notin Terminal
            /\ s.over = (s.yields # <<>> /\ s.yields[Len(s.yields)] \in Terminal)
            /\ IF ~s.over THEN IsPrefix(s.yields, meant)
               ELSE IF ended THEN s.yields = meant
               ELSE \E error \in Errors : s.yields = Append(meant, error)
            /\ ~s.over /\ ~HasFrame(s) => s.yields = meant

\* The handoff of a sidecar that runs stays where callers find it.  One exception
\* is in the code: a sidecar that shuts down compares the file with its own handoff
\* and removes it in two steps, and a successor may publish in between.
RunningSidecarIsFound ==
    [][at["v4"] = "own" /\ published /\ file = epoch["v4"] /\ file' # file
        => leaving # NoFile /\ leaving.looked /\ leaving.loaded # file]_vars

\* Every call through the handoff ends, and every decision about a bearer is
\* taken, also when the program behind the address never answers.
CallsReturn ==
    \A c \in Callers :
        /\ (~In(c, "idle") /\ IsOp(c, "handoff")) ~> In(c, "done")
        /\ In(c, "checking") ~> (In(c, "cleared") \/ In(c, "done"))
=============================================================================
