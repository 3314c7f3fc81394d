------------------------ MODULE EngineSupervisorProofs ------------------------
(***************************************************************************)
(* What TLAPS proves of EngineSupervisor, for any number of processes, any *)
(* of them with the sealing key, and every bound.                          *)
(***************************************************************************)
EXTENDS EngineSupervisor, SequenceTheorems, TLAPS

\* Past ensure_engine_token, a process has a token.
HasToken ==
    \A s \in Supervisor :
        step[s] \in {"probing", "stopping", "leaving", "spawning", "waiting"} => held[s] \in Supervisor

\* create_new lets one process write the file, and nothing else changes it meanwhile.
OneWriter ==
    \A s \in Supervisor : step[s] = "writing" =>
        token = EmptyToken /\ \A t \in Supervisor : step[t] = "writing" => t = s

\* A process owns an engine it has spawned, or none.
ChildrenExist == \A s \in Supervisor : child[s] \in {0} \cup DOMAIN engines

\* An engine that agreed to stop is in no run.
ClaimedRest(list) == \A e \in DOMAIN list : list[e].state = "claimed" => ~list[e].busy
ClaimedAreIdle == ClaimedRest(engines)

IInv == /\ TypeOK
        /\ TokensAgree
        /\ HasToken
        /\ OneWriter
        /\ ChildrenExist
        /\ ClaimedAreIdle

-----------------------------------------------------------------------------
(* Changes of the list of engines.                                         *)

\* A list that is as long, with the same tokens, whose claimed engines are idle and
\* with no engine that serves and did not serve before.
Keeps(list) ==
    /\ list \in Seq(Engine)
    /\ Len(list) = Len(engines)
    /\ ClaimedRest(list)
    /\ \A e \in DOMAIN list :
          /\ list[e].token = engines[e].token
          /\ list[e].state \in {"listening", "claimed"} => engines[e].state \in {"listening", "claimed"}

\* An engine's row is replaced by one with the same token.
LEMMA Replaced ==
    ASSUME engines \in Seq(Engine), ClaimedAreIdle, NEW e \in DOMAIN engines, NEW row \in Engine,
           row.token = engines[e].token, row.state = "claimed" => ~row.busy,
           row.state \in {"listening", "claimed"} => engines[e].state \in {"listening", "claimed"}
    PROVE  Keeps([engines EXCEPT ![e] = row])
<1> DEFINE list == [engines EXCEPT ![e] = row]
<1>1. e \in 1..Len(engines)
    BY LenProperties
<1>2. /\ list \in Seq(Engine)
      /\ Len(list) = Len(engines)
      /\ \A f \in 1..Len(engines) : list[f] = IF f = e THEN row ELSE engines[f]
    BY <1>1, ExceptSeq
<1>3. DOMAIN list = 1..Len(engines)
    BY <1>2, LenProperties
<1>4. QED
    BY <1>2, <1>3, LenProperties DEF Keeps, ClaimedRest, ClaimedAreIdle

\* A list that is left alone is kept.
LEMMA Unchanged ==
    ASSUME engines \in Seq(Engine), ClaimedAreIdle
    PROVE  Keeps(engines)
BY DEF Keeps, ClaimedAreIdle

\* Killing a child, or none, keeps the list.
LEMMA KilledKeeps ==
    ASSUME engines \in Seq(Engine), ClaimedAreIdle, NEW e \in {0} \cup DOMAIN engines
    PROVE  Keeps(Killed(e))
<1>1. CASE e = 0
    BY <1>1, Unchanged DEF Killed
<1>2. CASE e # 0
    <2>1. e \in DOMAIN engines
        BY <1>2
    <2>2. engines[e] \in Engine
        BY <2>1, LenProperties, ElementOfSeq
    <2> DEFINE row == [engines[e] EXCEPT !.state = "dead", !.busy = FALSE]
    <2>3. row \in Engine /\ row.token = engines[e].token /\ row.state = "dead"
        BY <2>2 DEF Engine, States
    <2>4. Keeps([engines EXCEPT ![e] = row])
        BY <2>1, <2>3, Replaced
    <2>5. QED
        BY <1>2, <2>4 DEF Killed
<1>3. QED
    BY <1>1, <1>2

\* A step that keeps the list of engines and leaves the token file alone preserves
\* what the invariant says of them.
LEMMA KeptEngines ==
    ASSUME IInv, Keeps(engines'), token' = token,
           child' \in [Supervisor -> {0} \cup EngineId], attempt' \in {0} \cup EngineId,
           runs' \in 0..MaxRuns, deaths' \in 0..MaxDeaths, overlapped' \in BOOLEAN,
           held' \in [Supervisor -> Supervisor \cup {NoToken}],
           step' \in [Supervisor -> Steps],
           \A s \in Supervisor : held'[s] \in {NoToken, held[s], token}
    PROVE  TypeOK' /\ TokensAgree' /\ ClaimedAreIdle'
<1>1. /\ engines' \in Seq(Engine) /\ Len(engines') = Len(engines)
      /\ DOMAIN engines' = DOMAIN engines
    BY LenProperties DEF IInv, TypeOK, Keeps
<1>2. \A e, f \in Serving' : e = f
    BY <1>1 DEF IInv, TypeOK, Keeps, Serving
<1>3. TypeOK'
    BY <1>1, <1>2 DEF IInv, TypeOK
<1>4. TokensAgree'
    BY <1>1 DEF IInv, TokensAgree, Keeps
<1>5. QED
    BY <1>3, <1>4 DEF Keeps, ClaimedAreIdle

-----------------------------------------------------------------------------
(* The steps of ensure_ready.                                              *)

\* The first state.
LEMMA InitIInv == Init => IInv
<1> SUFFICES ASSUME Init PROVE IInv
    OBVIOUS
<1>1. engines = <<>> /\ engines \in Seq(Engine) /\ Len(engines) = 0 /\ DOMAIN engines = {}
    BY EmptySeq DEF Init
<1>2. TypeOK
    <2>1. Serving = {}
        BY <1>1 DEF Serving
    <2>2. step \in [Supervisor -> Steps] /\ held \in [Supervisor -> Supervisor \cup {NoToken}]
        BY DEF Init, Steps
    <2>3. Len(engines) <= MaxEngines /\ runs \in 0..MaxRuns /\ deaths \in 0..MaxDeaths
        BY <1>1, SupervisorAssumption DEF Init
    <2>4. QED
        BY <1>1, <2>1, <2>2, <2>3 DEF Init, TypeOK
<1>3. TokensAgree /\ HasToken /\ OneWriter /\ ChildrenExist /\ ClaimedAreIdle
    BY <1>1 DEF Init, TokensAgree, HasToken, OneWriter, ChildrenExist, ClaimedAreIdle, ClaimedRest
<1>4. QED
    BY <1>2, <1>3 DEF IInv

\* Steps that only move one process on, without a token it did not have.
LEMMA MovesOn ==
    ASSUME IInv, NEW s \in Supervisor, NEW next \in Steps \ {"writing"},
           next \in {"probing", "stopping", "leaving", "spawning", "waiting"} => held[s] \in Supervisor,
           Go(s, next), Keeps(engines'),
           child' \in [Supervisor -> {0} \cup EngineId], ChildrenExist',
           UNCHANGED <<token, held, attempt, runs, deaths, overlapped>>
    PROVE  IInv'
<1>1. step' \in [Supervisor -> Steps]
    BY DEF IInv, TypeOK, Go
<1>2. TypeOK' /\ TokensAgree' /\ ClaimedAreIdle'
    BY <1>1, KeptEngines DEF IInv, TypeOK
<1>3. HasToken' /\ OneWriter'
    BY DEF IInv, TypeOK, HasToken, OneWriter, Go
<1>4. QED
    BY <1>2, <1>3 DEF IInv

\* A process adopts the token it finds, which is the one every other has.
LEMMA Adopts ==
    ASSUME IInv, NEW s \in Supervisor, token \in Supervisor, Adopt(s),
           UNCHANGED <<token, child, engines, attempt, runs, deaths, overlapped>>
    PROVE  IInv'
<1>1. /\ step' \in [Supervisor -> Steps]
      /\ held' \in [Supervisor -> Supervisor \cup {NoToken}]
    BY DEF IInv, TypeOK, Adopt, Go, Steps
<1>2. Keeps(engines')
    BY Unchanged DEF IInv, TypeOK
<1>3. TypeOK' /\ TokensAgree' /\ ClaimedAreIdle'
    <2>1. \A t \in Supervisor : held'[t] \in {NoToken, held[t], token}
        BY DEF IInv, TypeOK, Adopt
    <2>2. QED
        BY <1>1, <1>2, <2>1, KeptEngines DEF IInv, TypeOK
<1>4. HasToken' /\ OneWriter' /\ ChildrenExist'
    BY DEF IInv, TypeOK, HasToken, OneWriter, ChildrenExist, Adopt, Go
<1>5. QED
    BY <1>3, <1>4 DEF IInv

\* While there is no token in the file, no process and no engine has one.
LEMMA NobodyHasAToken ==
    ASSUME IInv, token \notin Supervisor
    PROVE  held = [s \in Supervisor |-> NoToken] /\ DOMAIN engines = {}
<1>1. \A s \in Supervisor : held[s] = NoToken
    BY DEF IInv, TypeOK, TokensAgree
<1>2. \A e \in DOMAIN engines : engines[e].token \in Supervisor
    <2>1. TAKE e \in DOMAIN engines
    <2>2. engines[e] \in Engine
        BY <2>1, LenProperties, ElementOfSeq DEF IInv, TypeOK
    <2>3. QED
        BY <2>2 DEF Engine
<1>3. DOMAIN engines = {}
    BY <1>2 DEF IInv, TokensAgree
<1>4. QED
    BY <1>1, <1>3 DEF IInv, TypeOK

\* The winner of create_new finds no token anywhere, and no other writer.
LEMMA Creates ==
    ASSUME IInv, NEW s \in Supervisor, CreateToken(s)
    PROVE  IInv'
<1>1. CASE Creatable
    <2>1. token = NoToken /\ token' = EmptyToken /\ step' = [step EXCEPT ![s] = "writing"]
        BY <1>1 DEF CreateToken, Creatable, Go
    <2>2. held = [t \in Supervisor |-> NoToken] /\ DOMAIN engines = {}
        BY <2>1, SupervisorAssumption, NobodyHasAToken
    <2>3. TypeOK'
        BY <1>1, <2>1 DEF IInv, TypeOK, CreateToken, Steps, Serving
    <2>4. TokensAgree'
        BY <1>1, <2>2 DEF CreateToken, TokensAgree
    <2>5. HasToken'
        BY <1>1, <2>1 DEF IInv, TypeOK, HasToken, CreateToken
    <2>6. \A t \in Supervisor : step[t] # "writing"
        BY <2>1, SupervisorAssumption DEF IInv, OneWriter
    <2>7. OneWriter'
        BY <2>1, <2>6 DEF IInv, TypeOK, OneWriter
    <2>8. ChildrenExist' /\ ClaimedAreIdle'
        BY <1>1 DEF IInv, ChildrenExist, ClaimedAreIdle, CreateToken
    <2>9. QED
        BY <2>3, <2>4, <2>5, <2>7, <2>8 DEF IInv
<1>2. CASE ~Creatable /\ token = EmptyToken
    <2>1. /\ Go(s, "idle") /\ "idle" \in Steps \ {"writing"}
          /\ UNCHANGED <<token, held, child, engines, attempt, runs, deaths, overlapped>>
        BY <1>2 DEF CreateToken, Steps
    <2>2. QED
        BY <2>1, MovesOn, Unchanged DEF IInv, TypeOK, ChildrenExist
<1>3. CASE ~Creatable /\ token # EmptyToken
    BY <1>3, Adopts DEF CreateToken, Creatable, IInv, TypeOK
<1>4. QED
    BY <1>1, <1>2, <1>3

\* The writer's token becomes everybody's: nobody had one before.
LEMMA Writes ==
    ASSUME IInv, NEW s \in Supervisor, WriteToken(s)
    PROVE  IInv'
<1>1. token = EmptyToken /\ \A t \in Supervisor : step[t] = "writing" => t = s
    BY DEF WriteToken, IInv, OneWriter
<1>2. held = [t \in Supervisor |-> NoToken] /\ DOMAIN engines = {}
    BY <1>1, SupervisorAssumption, NobodyHasAToken
<1>3. TypeOK'
    BY DEF IInv, TypeOK, WriteToken, Go, Steps, Serving
<1>4. TokensAgree'
    BY <1>2 DEF WriteToken, TokensAgree
<1>5. HasToken' /\ OneWriter' /\ ChildrenExist' /\ ClaimedAreIdle'
    BY <1>1 DEF IInv, TypeOK, HasToken, OneWriter, ChildrenExist, ClaimedAreIdle, WriteToken, Go
<1>6. QED
    BY <1>3, <1>4, <1>5 DEF IInv

\* The new engine has the token of the process that spawned it, and does not serve.
LEMMA Spawns ==
    ASSUME IInv, NEW s \in Supervisor, Spawn(s)
    PROVE  IInv'
<1> DEFINE list  == Killed(child[s])
           fresh == [keyed |-> s \in Keyed, token |-> held[s], state |-> "starting", busy |-> FALSE]
<1>1. held[s] \in Supervisor /\ held[s] = token
    BY SupervisorAssumption DEF Spawn, IInv, HasToken, TokensAgree
<1>2. fresh \in Engine
    BY <1>1 DEF Engine, States
<1>3. Keeps(list)
    <2>1. child[s] \in {0} \cup DOMAIN engines
        BY DEF IInv, ChildrenExist
    <2>2. QED
        BY <2>1, KilledKeeps DEF IInv, TypeOK
<1>4. /\ engines' \in Seq(Engine)
      /\ Len(engines') = Len(engines) + 1
      /\ \A e \in 1..Len(engines) : engines'[e] = list[e]
      /\ engines'[Len(engines) + 1] = fresh
    <2>1. list \in Seq(Engine) /\ Len(list) = Len(engines)
        BY <1>3 DEF Keeps
    <2>2. engines' = Append(list, fresh)
        BY DEF Spawn
    <2>3. QED
        BY <1>2, <2>1, <2>2, AppendProperties
<1>5. Len(engines) \in Nat /\ DOMAIN engines = 1..Len(engines) /\ DOMAIN list = 1..Len(engines)
      /\ DOMAIN engines' = 1..(Len(engines) + 1)
    BY <1>3, <1>4, LenProperties DEF Keeps, IInv, TypeOK
<1>6. \A e \in DOMAIN engines' : engines'[e].token = token
    BY <1>1, <1>3, <1>4, <1>5 DEF Keeps, IInv, TokensAgree
<1>7. Serving' \subseteq Serving
    BY <1>3, <1>4, <1>5 DEF Keeps, Serving
<1>8. step' \in [Supervisor -> Steps] /\ child' \in [Supervisor -> {0} \cup EngineId]
      /\ overlapped' \in BOOLEAN
    BY <1>5, SupervisorAssumption DEF Spawn, Go, Steps, EngineId, IInv, TypeOK
<1>9. Len(engines') <= MaxEngines
    BY <1>4, <1>5, SupervisorAssumption DEF Spawn
<1>10. TypeOK'
    BY <1>4, <1>7, <1>8, <1>9 DEF Spawn, IInv, TypeOK
<1>11. TokensAgree'
    BY <1>6 DEF Spawn, IInv, TokensAgree
<1>12. HasToken' /\ OneWriter'
    BY DEF IInv, TypeOK, HasToken, OneWriter, Spawn, Go
<1>13. ChildrenExist'
    BY <1>5 DEF IInv, TypeOK, ChildrenExist, Spawn
<1>14. ClaimedAreIdle'
    BY <1>3, <1>4, <1>5 DEF Keeps, ClaimedRest, ClaimedAreIdle
<1>15. QED
    BY <1>10, <1>11, <1>12, <1>13, <1>14 DEF IInv


-----------------------------------------------------------------------------
(* The steps of the engines.                                               *)

\* Steps in which one engine changes, and at most the attempt and the counters.
LEMMA EngineMoves ==
    ASSUME IInv, Keeps(engines'), UNCHANGED <<token, held, step, child, overlapped>>,
           attempt' \in {0} \cup EngineId, runs' \in 0..MaxRuns, deaths' \in 0..MaxDeaths
    PROVE  IInv'
<1>1. TypeOK' /\ TokensAgree' /\ ClaimedAreIdle'
    BY KeptEngines DEF IInv, TypeOK
<1>2. HasToken' /\ OneWriter'
    BY DEF IInv, HasToken, OneWriter
<1>3. ChildrenExist'
    BY LenProperties DEF IInv, TypeOK, ChildrenExist, Keeps
<1>4. QED
    BY <1>1, <1>2, <1>3 DEF IInv

\* An engine's state, changed as its startup or its end changes it, keeps the list.
LEMMA StateKeeps ==
    ASSUME IInv, NEW e \in DOMAIN engines, NEW state \in States,
           state \in {"listening", "claimed"} => engines[e].state \in {"listening", "claimed"},
           state = "claimed" => ~engines[e].busy,
           SetState(e, state)
    PROVE  Keeps(engines')
<1> DEFINE row == [engines[e] EXCEPT !.state = state]
<1>1. engines[e] \in Engine
    BY LenProperties, ElementOfSeq DEF IInv, TypeOK
<1>2. /\ row \in Engine /\ row.token = engines[e].token
      /\ row.state = state /\ row.busy = engines[e].busy
    BY <1>1 DEF Engine
<1>3. Keeps([engines EXCEPT ![e] = row])
    BY <1>2, Replaced DEF IInv, TypeOK
<1>4. QED
    BY <1>3 DEF SetState

\* A run that starts or ends keeps the list, if no claimed engine becomes busy.
LEMMA BusyKeeps ==
    ASSUME IInv, NEW e \in DOMAIN engines, NEW busy \in BOOLEAN,
           engines[e].state = "claimed" => ~busy,
           engines' = [engines EXCEPT ![e] = [@ EXCEPT !.busy = busy]]
    PROVE  Keeps(engines')
<1> DEFINE row == [engines[e] EXCEPT !.busy = busy]
<1>1. engines[e] \in Engine
    BY LenProperties, ElementOfSeq DEF IInv, TypeOK
<1>2. /\ row \in Engine /\ row.token = engines[e].token
      /\ row.state = engines[e].state /\ row.busy = busy
    BY <1>1 DEF Engine
<1>3. Keeps([engines EXCEPT ![e] = row])
    BY <1>2, Replaced DEF IInv, TypeOK
<1>4. QED
    BY <1>3

\* An engine listens only on a free port, and is then the one that serves.
LEMMA Binds ==
    ASSUME IInv, NEW e \in DOMAIN engines, Bind(e), PortFree
    PROVE  IInv'
<1> DEFINE row == [engines[e] EXCEPT !.state = "listening"]
<1>1. engines[e] \in Engine /\ e \in 1..Len(engines)
    BY LenProperties, ElementOfSeq DEF IInv, TypeOK
<1>2. row \in Engine /\ row.token = engines[e].token /\ row.state = "listening"
    BY <1>1 DEF Engine, States
<1>3. engines' = [engines EXCEPT ![e] = row]
    BY DEF Bind, SetState
<1>4. /\ engines' \in Seq(Engine)
      /\ Len(engines') = Len(engines)
      /\ \A f \in 1..Len(engines) : engines'[f] = IF f = e THEN row ELSE engines[f]
    BY <1>1, <1>2, <1>3, ExceptSeq DEF IInv, TypeOK
<1>5. DOMAIN engines = 1..Len(engines) /\ DOMAIN engines' = 1..Len(engines)
    BY <1>4, LenProperties DEF IInv, TypeOK
<1>6. Serving' \subseteq {e}
    BY <1>4, <1>5 DEF PortFree, Serving
<1>7. TypeOK'
    BY <1>4, <1>6 DEF Bind, IInv, TypeOK
<1>8. TokensAgree'
    BY <1>2, <1>4, <1>5 DEF Bind, IInv, TokensAgree
<1>9. ClaimedAreIdle'
    BY <1>2, <1>4, <1>5 DEF IInv, ClaimedAreIdle, ClaimedRest
<1>10. HasToken' /\ OneWriter' /\ ChildrenExist'
    BY <1>5 DEF Bind, IInv, HasToken, OneWriter, ChildrenExist
<1>11. QED
    BY <1>7, <1>8, <1>9, <1>10 DEF IInv

-----------------------------------------------------------------------------
(* Every step.                                                             *)

\* ensure_ready preserves the invariant, wherever it is.
LEMMA EnsureStep ==
    ASSUME IInv, NEW s \in Supervisor, Call(s) \/ Ensure(s)
    PROVE  IInv'
<1> Keeps(engines) /\ ChildrenExist /\ child \in [Supervisor -> {0} \cup EngineId]
    BY Unchanged DEF IInv, TypeOK
<1>1. CASE Call(s)
    BY <1>1, MovesOn DEF Call, Steps, ChildrenExist
<1>2. CASE ReadToken(s)
    <2>1. CASE token \in Supervisor
        BY <1>2, <2>1, Adopts DEF ReadToken
    <2>2. CASE token \notin Supervisor
        BY <1>2, <2>2, MovesOn DEF ReadToken, Steps, ChildrenExist
    <2>3. QED
        BY <2>1, <2>2
<1>3. CASE CreateToken(s)
    BY <1>3, Creates
<1>4. CASE WriteToken(s)
    BY <1>4, Writes
<1>5. CASE Probe(s)
    <2>1. PICK next \in {"stopping", "idle", "spawning"} : Go(s, next)
        BY <1>5 DEF Probe
    <2>2. held[s] \in Supervisor
        BY <1>5 DEF Probe, IInv, HasToken
    <2>3. QED
        BY <1>5, <2>1, <2>2, MovesOn DEF Probe, Steps, ChildrenExist
<1>6. CASE AskToStop(s)
    <2>1. held[s] \in Supervisor
        BY <1>6 DEF AskToStop, IInv, HasToken
    <2>2. CASE UNCHANGED engines
        <3>1. PICK next \in {"idle", "leaving"} : Go(s, next)
            BY <1>6 DEF AskToStop
        <3>2. /\ step[s] = "stopping"
              /\ UNCHANGED <<token, held, child, attempt, runs, deaths, overlapped>>
            BY <1>6 DEF AskToStop
        <3>3. next \in Steps
            BY DEF Steps
        <3>4. ChildrenExist'
            BY <2>2, <3>2 DEF ChildrenExist, IInv
        <3>5. QED
            BY <2>1, <2>2, <3>1, <3>2, <3>3, <3>4, MovesOn
    <2>3. ASSUME NEW e \in DOMAIN engines, engines[e].state = "listening", IsIdle(e),
                 SetState(e, "claimed"), NEW next \in {"leaving", "idle"}, Go(s, next)
          PROVE  IInv'
        <3>1. Keeps(engines')
            BY <2>3, StateKeeps DEF IsIdle, States
        <3>2. ChildrenExist'
            BY <1>6, <3>1, LenProperties DEF AskToStop, IInv, TypeOK, ChildrenExist, Keeps
        <3>3. QED
            BY <1>6, <2>1, <2>3, <3>1, <3>2, MovesOn DEF AskToStop, Steps
    <2>4. QED
        BY <1>6, <2>2, <2>3 DEF AskToStop, Ready, Serving
<1>7. CASE AwaitGone(s)
    <2>1. PICK next \in {"idle", "spawning"} : Go(s, next)
        BY <1>7 DEF AwaitGone
    <2>2. held[s] \in Supervisor
        BY <1>7 DEF AwaitGone, IInv, HasToken
    <2>3. QED
        BY <1>7, <2>1, <2>2, MovesOn DEF AwaitGone, Steps, ChildrenExist
<1>8. CASE Spawn(s)
    BY <1>8, Spawns
<1>9. CASE AwaitReady(s)
    BY <1>9, MovesOn DEF AwaitReady, Steps, ChildrenExist
<1>10. CASE GiveUp(s)
    BY <1>10, MovesOn DEF GiveUp, Steps, ChildrenExist
<1>11. QED
    BY <1>1, <1>2, <1>3, <1>4, <1>5, <1>6, <1>7, <1>8, <1>9, <1>10 DEF Ensure

\* So does every step of an engine.
LEMMA EngineStep ==
    ASSUME IInv, NEW e \in DOMAIN engines,
           Repair(e) \/ Bind(e) \/ StartRun(e) \/ FinishRun(e) \/ StopClaimed(e) \/ EngineDies(e)
    PROVE  IInv'
<1>1. /\ attempt \in {0} \cup EngineId /\ 0 \in {0} \cup EngineId
      /\ e \in EngineId /\ runs \in 0..MaxRuns /\ deaths \in 0..MaxDeaths
    BY LenProperties, SupervisorAssumption DEF IInv, TypeOK, EngineId
<1>2. CASE Repair(e)
    <2>1. Keeps(engines')
        BY <1>2, StateKeeps DEF Repair, States
    <2>2. QED
        BY <1>1, <1>2, <2>1, EngineMoves DEF Repair
<1>3. CASE Bind(e)
    <2>1. CASE PortFree
        BY <1>3, <2>1, Binds
    <2>2. CASE ~PortFree
        <3>1. Keeps(engines')
            BY <1>3, <2>2, StateKeeps DEF Bind, States
        <3>2. QED
            BY <1>1, <1>3, <3>1, EngineMoves DEF Bind
    <2>3. QED
        BY <2>1, <2>2
<1>4. CASE StartRun(e)
    <2>1. Keeps(engines')
        BY <1>4, BusyKeeps DEF StartRun
    <2>2. runs' \in 0..MaxRuns
        BY <1>1, <1>4, SupervisorAssumption DEF StartRun
    <2>3. QED
        BY <1>1, <1>4, <2>1, <2>2, EngineMoves DEF StartRun
<1>5. CASE FinishRun(e)
    <2>1. Keeps(engines')
        BY <1>5, BusyKeeps DEF FinishRun
    <2>2. QED
        BY <1>1, <1>5, <2>1, EngineMoves DEF FinishRun
<1>6. CASE StopClaimed(e)
    <2>1. Keeps(engines')
        BY <1>6, StateKeeps DEF StopClaimed, States
    <2>2. QED
        BY <1>1, <1>6, <2>1, EngineMoves DEF StopClaimed
<1>7. CASE EngineDies(e)
    <2>1. Keeps(engines')
        BY <1>7, KilledKeeps DEF EngineDies, IInv, TypeOK
    <2>2. deaths' \in 0..MaxDeaths
        BY <1>1, <1>7, SupervisorAssumption DEF EngineDies
    <2>3. QED
        BY <1>1, <1>7, <2>1, <2>2, EngineMoves DEF EngineDies
<1>8. QED
    BY <1>2, <1>3, <1>4, <1>5, <1>6, <1>7

\* A process that dies forgets its token and its engine.
LEMMA DeathStep ==
    ASSUME IInv, NEW s \in Supervisor, SupervisorDies(s)
    PROVE  IInv'
<1>1. Keeps(engines')
    <2>1. child[s] \in {0} \cup DOMAIN engines
        BY DEF IInv, ChildrenExist
    <2>2. QED
        BY <2>1, Unchanged, KilledKeeps DEF SupervisorDies, IInv, TypeOK
<1>2. /\ step' \in [Supervisor -> Steps]
      /\ held' \in [Supervisor -> Supervisor \cup {NoToken}]
      /\ \A t \in Supervisor : held'[t] \in {NoToken, held[t], token}
    BY DEF SupervisorDies, IInv, TypeOK, Steps
<1>3. child' \in [Supervisor -> {0} \cup EngineId] /\ deaths' \in 0..MaxDeaths
    BY SupervisorAssumption DEF SupervisorDies, IInv, TypeOK
<1>4. TypeOK' /\ TokensAgree' /\ ClaimedAreIdle'
    BY <1>1, <1>2, <1>3, KeptEngines DEF SupervisorDies, IInv, TypeOK
<1>5. HasToken' /\ OneWriter'
    BY DEF SupervisorDies, IInv, TypeOK, HasToken, OneWriter
<1>6. ChildrenExist'
    BY <1>1, LenProperties DEF SupervisorDies, IInv, TypeOK, ChildrenExist, Keeps
<1>7. QED
    BY <1>4, <1>5, <1>6 DEF IInv

\* The invariant is inductive.
LEMMA NextIInv == IInv /\ [Next]_vars => IInv'
<1> SUFFICES ASSUME IInv, [Next]_vars PROVE IInv'
    OBVIOUS
<1>1. CASE Next
    BY <1>1, EnsureStep, EngineStep, DeathStep DEF Next
<1>2. CASE UNCHANGED vars
    BY <1>2 DEF vars, IInv, TypeOK, TokensAgree, HasToken, OneWriter, ChildrenExist,
                ClaimedAreIdle, ClaimedRest, Serving
<1>3. QED
    BY <1>1, <1>2

\* The processes and engines have their types and one engine at most has the port;
\* processes that race for the token file agree on one token, which every engine was
\* spawned with (ensure_engine_token, ensure_ready).
THEOREM SupervisorInvariant == Spec => []IInv
BY InitIInv, NextIInv, PTL DEF Spec

\* The part of it that the run checks as types.
THEOREM SupervisorTypes == Spec => []TypeOK
<1>1. IInv => TypeOK
    BY DEF IInv
<1>2. QED
    BY <1>1, SupervisorInvariant, PTL

\* The part of it that concerns tokens.
THEOREM OneToken == Spec => []TokensAgree
<1>1. IInv => TokensAgree
    BY DEF IInv
<1>2. QED
    BY <1>1, SupervisorInvariant, PTL

\* An engine that stops because it was asked to cuts no run (_claim_idle_for_shutdown).
THEOREM StopsWhenIdle == Spec => ReplacedWhenIdle
<1>1. IInv => [\A e \in DOMAIN engines : StopClaimed(e) => ~engines[e].busy]_vars
    BY DEF IInv, ClaimedAreIdle, ClaimedRest, StopClaimed
<1>2. QED
    BY <1>1, SupervisorInvariant, PTL DEF ReplacedWhenIdle

-----------------------------------------------------------------------------
(* The store that the serving engine finds.                                *)

Repaired == {"repaired", "listening", "claimed"}

\* One engine at most is alive, and one that has repaired the store finds no running
\* attempt in it but its own.
LoneEngine(list, running) ==
    /\ \A e, f \in DOMAIN list : list[e].state # "dead" /\ list[f].state # "dead" => e = f
    /\ \A e \in DOMAIN list : list[e].state \in Repaired => running \in {0, e}

\* It holds until two engines overlap.
AloneWithItsAttempt == ~overlapped => LoneEngine(engines, attempt)

\* A list in which nothing dead is alive again, and nothing starting has repaired the
\* store, unless no attempt is left in it.
Calm(list, running) ==
    /\ DOMAIN list = DOMAIN engines
    /\ \A e \in DOMAIN engines : list[e].state # "dead" => engines[e].state # "dead"
    /\ \/ running = 0
       \/ running = attempt /\ \A e \in DOMAIN engines :
              list[e].state \in Repaired => engines[e].state \in Repaired

\* Such a step leaves the one engine alone with its attempt.
LEMMA CalmStep ==
    ASSUME AloneWithItsAttempt, Calm(engines', attempt'), overlapped' = overlapped
    PROVE  AloneWithItsAttempt'
<1> SUFFICES ASSUME ~overlapped PROVE LoneEngine(engines', attempt')
    BY DEF AloneWithItsAttempt, LoneEngine
<1>1. LoneEngine(engines, attempt)
    BY DEF AloneWithItsAttempt
<1>2. QED
    BY <1>1 DEF LoneEngine, Calm

\* One engine changes, and is not revived by it.
LEMMA CalmChange ==
    ASSUME engines \in Seq(Engine), NEW e \in DOMAIN engines, NEW row, NEW running,
           row.state # "dead" => engines[e].state # "dead",
           \/ running = 0
           \/ running = attempt /\ (row.state \in Repaired => engines[e].state \in Repaired)
    PROVE  Calm([engines EXCEPT ![e] = row], running)
<1> DEFINE list == [engines EXCEPT ![e] = row]
<1>1. DOMAIN list = DOMAIN engines
    OBVIOUS
<1>2. \A f \in DOMAIN engines : list[f] = IF f = e THEN row ELSE engines[f]
    OBVIOUS
<1>3. QED
    BY <1>1, <1>2 DEF Calm

\* Nothing changes.
LEMMA CalmSame == Calm(engines, attempt)
BY DEF Calm

\* Killing a child, or none, is calm.
LEMMA CalmKilled ==
    ASSUME IInv, NEW e \in {0} \cup DOMAIN engines
    PROVE  Calm(Killed(e), attempt)
<1>1. CASE e = 0
    BY <1>1, CalmSame DEF Killed
<1>2. CASE e # 0
    <2>1. e \in DOMAIN engines
        BY <1>2
    <2>2. engines[e] \in Engine
        BY <2>1, LenProperties, ElementOfSeq DEF IInv, TypeOK
    <2> DEFINE row == [engines[e] EXCEPT !.state = "dead", !.busy = FALSE]
    <2>3. row.state = "dead"
        BY <2>2 DEF Engine
    <2>4. Calm([engines EXCEPT ![e] = row], attempt)
        BY <2>1, <2>3, CalmChange DEF IInv, TypeOK, Repaired
    <2>5. QED
        BY <1>2, <2>4 DEF Killed
<1>3. QED
    BY <1>1, <1>2

\* An engine's state is set.
LEMMA CalmState ==
    ASSUME IInv, NEW e \in DOMAIN engines, NEW state \in States, SetState(e, state),
           state # "dead" => engines[e].state # "dead",
           \/ attempt' = 0
           \/ attempt' = attempt /\ (state \in Repaired => engines[e].state \in Repaired)
    PROVE  Calm(engines', attempt')
<1> DEFINE row == [engines[e] EXCEPT !.state = state]
<1>1. engines[e] \in Engine
    BY LenProperties, ElementOfSeq DEF IInv, TypeOK
<1>2. row.state = state
    BY <1>1 DEF Engine
<1>3. Calm([engines EXCEPT ![e] = row], attempt')
    BY <1>2, CalmChange DEF IInv, TypeOK
<1>4. QED
    BY <1>3 DEF SetState

\* An engine's thread enters or leaves a run.
LEMMA BusyLists ==
    ASSUME IInv, NEW e \in DOMAIN engines, NEW busy \in BOOLEAN,
           engines' = [engines EXCEPT ![e] = [@ EXCEPT !.busy = busy]]
    PROVE  DOMAIN engines' = DOMAIN engines
           /\ \A f \in DOMAIN engines : engines'[f].state = engines[f].state
<1> DEFINE row == [engines[e] EXCEPT !.busy = busy]
<1>1. engines[e] \in Engine
    BY LenProperties, ElementOfSeq DEF IInv, TypeOK
<1>2. row.state = engines[e].state
    BY <1>1 DEF Engine
<1>3. engines' = [engines EXCEPT ![e] = row]
    OBVIOUS
<1> HIDE DEF row
<1>4. QED
    BY <1>2, <1>3

\* Only an engine that was spawned beside no other is known to be alone: the others
\* are dead, and it has not repaired the store yet.
LEMMA SpawnedAlone ==
    ASSUME IInv, NEW s \in Supervisor, Spawn(s)
    PROVE  AloneWithItsAttempt'
<1> DEFINE list  == Killed(child[s])
           fresh == [keyed |-> s \in Keyed, token |-> held[s], state |-> "starting", busy |-> FALSE]
<1> SUFFICES ASSUME ~overlapped' PROVE LoneEngine(engines', attempt')
    BY DEF AloneWithItsAttempt, LoneEngine
<1>1. child[s] \in {0} \cup DOMAIN engines
    BY DEF IInv, ChildrenExist
<1>2. list \in Seq(Engine) /\ Calm(list, attempt) /\ engines \in Seq(Engine)
    BY <1>1, KilledKeeps, CalmKilled DEF IInv, TypeOK, Keeps
<1>3. \A e \in DOMAIN engines : engines[e].state = "dead"
    BY DEF Spawn, Alive
<1>4. \A e \in DOMAIN list : list[e].state = "dead"
    BY <1>2, <1>3 DEF Calm
<1>5. held[s] \in Supervisor
    BY DEF Spawn, IInv, HasToken
<1>6. fresh \in Engine
    BY <1>5 DEF Engine, States
<1>7. engines' = Append(list, fresh)
    BY DEF Spawn
<1>8. fresh.state = "starting"
    OBVIOUS
<1> HIDE DEF list, fresh
<1>9. /\ Len(list) \in Nat /\ DOMAIN list = 1..Len(list)
      /\ DOMAIN engines' = 1..(Len(list) + 1)
      /\ \A e \in 1..Len(list) : engines'[e] = list[e]
      /\ engines'[Len(list) + 1] = fresh
    BY <1>2, <1>6, <1>7, AppendProperties, LenProperties
<1>10. \A e \in DOMAIN engines' : e # Len(list) + 1 => engines'[e].state = "dead"
    BY <1>4, <1>9
<1>11. engines'[Len(list) + 1].state = "starting"
    BY <1>8, <1>9
<1>12. \A e \in DOMAIN engines' : engines'[e].state \notin Repaired
    BY <1>10, <1>11 DEF Repaired
<1>13. QED
    BY <1>10, <1>12 DEF LoneEngine

\* The first state.
LEMMA InitAlone == Init => AloneWithItsAttempt
<1> SUFFICES ASSUME Init PROVE LoneEngine(engines, attempt)
    BY DEF AloneWithItsAttempt
<1>1. DOMAIN engines = {}
    BY EmptySeq DEF Init
<1>2. QED
    BY <1>1 DEF LoneEngine

\* A step of ensure_ready: it spawns an engine, asks one to stop, or changes none.
LEMMA EnsureAlone ==
    ASSUME IInv, AloneWithItsAttempt, NEW s \in Supervisor, Call(s) \/ Ensure(s)
    PROVE  AloneWithItsAttempt'
<1>1. CASE Spawn(s)
    BY <1>1, SpawnedAlone
<1>2. CASE AskToStop(s)
    <2>1. attempt' = attempt /\ overlapped' = overlapped
        BY <1>2 DEF AskToStop
    <2>2. CASE engines' = engines
        BY <2>1, <2>2, CalmSame, CalmStep
    <2>3. ASSUME NEW e \in DOMAIN engines, engines[e].state = "listening", SetState(e, "claimed")
          PROVE  AloneWithItsAttempt'
        <3>1. Calm(engines', attempt')
            BY <2>1, <2>3, CalmState DEF States, Repaired
        <3>2. QED
            BY <2>1, <3>1, CalmStep
    <2>4. QED
        BY <1>2, <2>2, <2>3 DEF AskToStop, Ready, Serving
<1>3. CASE UNCHANGED <<engines, attempt, overlapped>>
    BY <1>3 DEF AloneWithItsAttempt, LoneEngine
<1>4. QED
    BY <1>1, <1>2, <1>3 DEF Ensure, Call, ReadToken, CreateToken, WriteToken, Probe, AwaitGone,
                            AwaitReady, GiveUp

\* A step of an engine.  One that starts a run is the only one alive.
LEMMA EngineAlone ==
    ASSUME IInv, AloneWithItsAttempt, NEW e \in DOMAIN engines,
           Repair(e) \/ Bind(e) \/ StartRun(e) \/ FinishRun(e) \/ StopClaimed(e) \/ EngineDies(e)
    PROVE  AloneWithItsAttempt'
<1>1. CASE Repair(e)
    <2>1. Calm(engines', attempt')
        BY <1>1, CalmState DEF Repair, States
    <2>2. QED
        BY <1>1, <2>1, CalmStep DEF Repair
<1>2. CASE Bind(e)
    <2>1. PICK state \in {"listening", "dead"} : SetState(e, state)
        BY <1>2 DEF Bind
    <2>2. Calm(engines', attempt')
        BY <1>2, <2>1, CalmState DEF Bind, BootOrder, States, Repaired
    <2>3. QED
        BY <1>2, <2>2, CalmStep DEF Bind
<1>3. CASE StartRun(e)
    <2> SUFFICES ASSUME ~overlapped' PROVE LoneEngine(engines', attempt')
        BY DEF AloneWithItsAttempt, LoneEngine
    <2>1. LoneEngine(engines, attempt)
        BY <1>3 DEF StartRun, AloneWithItsAttempt
    <2>2. DOMAIN engines' = DOMAIN engines
          /\ \A f \in DOMAIN engines : engines'[f].state = engines[f].state
        BY <1>3, BusyLists DEF StartRun
    <2>3. \A f \in DOMAIN engines : engines[f].state # "dead" => f = e
        BY <1>3, <2>1 DEF StartRun, LoneEngine
    <2>4. attempt' = e
        BY <1>3 DEF StartRun
    <2>5. QED
        BY <2>1, <2>2, <2>3, <2>4 DEF LoneEngine, Repaired
<1>4. CASE FinishRun(e)
    <2>1. DOMAIN engines' = DOMAIN engines
          /\ \A f \in DOMAIN engines : engines'[f].state = engines[f].state
        BY <1>4, BusyLists DEF FinishRun
    <2>2. attempt' \in {0, attempt} /\ overlapped' = overlapped
        BY <1>4 DEF FinishRun
    <2>3. Calm(engines', attempt')
        BY <2>1, <2>2 DEF Calm
    <2>4. QED
        BY <2>2, <2>3, CalmStep
<1>5. CASE StopClaimed(e)
    <2>1. Calm(engines', attempt')
        BY <1>5, CalmState DEF StopClaimed, States, Repaired
    <2>2. QED
        BY <1>5, <2>1, CalmStep DEF StopClaimed
<1>6. CASE EngineDies(e)
    <2>1. Calm(engines', attempt')
        BY <1>6, CalmKilled DEF EngineDies
    <2>2. QED
        BY <1>6, <2>1, CalmStep DEF EngineDies
<1>7. QED
    BY <1>1, <1>2, <1>3, <1>4, <1>5, <1>6

\* The death of a process kills at most its engine.
LEMMA DeathAlone ==
    ASSUME IInv, AloneWithItsAttempt, NEW s \in Supervisor, SupervisorDies(s)
    PROVE  AloneWithItsAttempt'
<1>1. child[s] \in {0} \cup DOMAIN engines
    BY DEF IInv, ChildrenExist
<1>2. Calm(engines', attempt')
    BY <1>1, CalmSame, CalmKilled DEF SupervisorDies
<1>3. QED
    BY <1>2, CalmStep DEF SupervisorDies

\* An engine that serves never finds an attempt that a dead engine left running, unless
\* engines overlapped: the store is repaired before the port is bound
\* (initialize_store and recovery, before the server listens).
THEOREM RepairedBeforeServing == Spec => []ServesARepairedStore
<1>1. Init => AloneWithItsAttempt
    BY InitAlone
<1>2. IInv /\ AloneWithItsAttempt /\ [Next]_vars => AloneWithItsAttempt'
    <2> SUFFICES ASSUME IInv, AloneWithItsAttempt, [Next]_vars PROVE AloneWithItsAttempt'
        OBVIOUS
    <2>1. CASE Next
        BY <2>1, EnsureAlone, EngineAlone, DeathAlone DEF Next
    <2>2. CASE UNCHANGED vars
        BY <2>2 DEF vars, AloneWithItsAttempt, LoneEngine
    <2>3. QED
        BY <2>1, <2>2
<1>3. IInv /\ AloneWithItsAttempt => ServesARepairedStore
    <2> SUFFICES ASSUME AloneWithItsAttempt, ~overlapped, NEW e \in Serving, attempt # 0
                 PROVE  Alive(attempt)
        BY DEF ServesARepairedStore
    <2>1. LoneEngine(engines, attempt)
        BY DEF AloneWithItsAttempt
    <2>2. e \in DOMAIN engines /\ engines[e].state \in {"listening", "claimed"}
        BY DEF Serving
    <2>3. attempt = e
        BY <2>1, <2>2 DEF LoneEngine, Repaired
    <2>4. QED
        BY <2>2, <2>3 DEF Alive
<1>4. QED
    BY <1>1, <1>2, <1>3, SupervisorInvariant, PTL DEF Spec

=============================================================================
