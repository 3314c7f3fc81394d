--------------------------- MODULE EngineSupervisor ---------------------------
(***************************************************************************)
(* The processes that keep one Python engine running: EngineSupervisor in  *)
(* backend/src/engine_runtime.rs, in the app's sidecar (which holds the    *)
(* sealing key) and in MCP servers (which do not), over one token file,    *)
(* one port and one campaign store.                                        *)
(*                                                                         *)
(* ensure_ready is serialized inside a process and runs concurrently in    *)
(* two.  It obtains the engine token, probes the port, replaces a keyless  *)
(* engine, and else spawns one and waits.  The engine repairs the store    *)
(* before it binds the port.                                               *)
(***************************************************************************)
EXTENDS Integers, Sequences

CONSTANTS
    Supervisor,    \* processes that call ensure_ready
    Keyed,         \* those that hold the sealing key
    NoToken,       \* no token file, or no token read
    EmptyToken,    \* a token file created and not yet written
    SlowProbe,     \* whether a probe of a live engine may time out
    MaxEngines,    \* bound: engines spawned
    MaxRuns,       \* bound: attempts
    MaxDeaths      \* bound: deaths of engines and of supervisors

ASSUME SupervisorAssumption ==
    /\ Keyed \subseteq Supervisor
    /\ NoToken \notin Supervisor /\ EmptyToken \notin Supervisor
    /\ NoToken # EmptyToken
    /\ SlowProbe \in BOOLEAN
    /\ MaxEngines \in Nat /\ MaxRuns \in Nat /\ MaxDeaths \in Nat

VARIABLES
    token,         \* the token file: a token is named after its maker
    held,          \* per supervisor, the token ensure_ready works with
    step,          \* per supervisor, where its ensure_ready is
    child,         \* per supervisor, the engine it owns; 0 for none
    engines,       \* every engine spawned so far
    attempt,       \* the engine that started the attempt the store records as
                   \* running; 0 for none
    runs, deaths,
    overlapped     \* history variable: an engine was spawned beside a live one

vars == <<token, held, step, child, engines, attempt, runs, deaths, overlapped>>

EngineId == 1..MaxEngines
States == {"starting", "repaired", "listening", "claimed", "dead"}
Engine == [keyed : BOOLEAN, token : Supervisor, state : States,
           busy : BOOLEAN]       \* a thread of it is in a run
Steps == {"idle", "token", "creating", "writing", "probing", "stopping",
          "leaving", "spawning", "waiting"}

Init ==
    /\ token = NoToken
    /\ held = [s \in Supervisor |-> NoToken]
    /\ step = [s \in Supervisor |-> "idle"]
    /\ child = [s \in Supervisor |-> 0]
    /\ engines = <<>>
    /\ attempt = 0
    /\ runs = 0
    /\ deaths = 0
    /\ overlapped = FALSE

Alive(e) == engines[e].state # "dead"
\* A claimed engine serves until its shutdown thread has stopped it.
Serving == {e \in DOMAIN engines : engines[e].state \in {"listening", "claimed"}}
\* The engines that would prove to s that they know its token.
Ready(s) == {e \in Serving : engines[e].token = held[s]}

Go(s, next) == step' = [step EXCEPT ![s] = next]
SetState(e, state) == engines' = [engines EXCEPT ![e] = [@ EXCEPT !.state = state]]

-----------------------------------------------------------------------------
(* ensure_engine_token.                                                    *)

Call(s) ==
    /\ step[s] = "idle"
    /\ Go(s, "token")
    /\ UNCHANGED <<token, held, child, engines, attempt, runs, deaths, overlapped>>

Adopt(s) == held' = [held EXCEPT ![s] = token] /\ Go(s, "probing")

ReadToken(s) ==
    /\ step[s] = "token"
    /\ IF token \in Supervisor THEN Adopt(s) ELSE Go(s, "creating") /\ UNCHANGED held
    /\ UNCHANGED <<token, child, engines, attempt, runs, deaths, overlapped>>

CreatableMutant == token \notin Supervisor  \* mutant: an empty file is opened again
Creatable == token = NoToken

\* create_new, and what a loser of that race reads.
CreateToken(s) ==
    /\ step[s] = "creating"
    /\ IF Creatable
       THEN token' = EmptyToken /\ Go(s, "writing") /\ UNCHANGED held
       ELSE /\ UNCHANGED token
            /\ IF token = EmptyToken THEN Go(s, "idle") /\ UNCHANGED held ELSE Adopt(s)
    /\ UNCHANGED <<child, engines, attempt, runs, deaths, overlapped>>

WriteToken(s) ==
    /\ step[s] = "writing"
    /\ token' = s
    /\ held' = [held EXCEPT ![s] = s]
    /\ Go(s, "probing")
    /\ UNCHANGED <<child, engines, attempt, runs, deaths, overlapped>>

-----------------------------------------------------------------------------
(* The rest of ensure_ready.                                               *)

\* An engine of somebody else's is adopted, unless it lacks the key s could give it.
Probe(s) ==
    /\ step[s] = "probing"
    /\ \/ Ready(s) # {} /\ Go(s, IF s \in Keyed /\ \E e \in Ready(s) : ~engines[e].keyed
                                 THEN "stopping" ELSE "idle")
       \/ (Ready(s) = {} \/ SlowProbe) /\ Go(s, "spawning")
    /\ UNCHANGED <<token, held, child, engines, attempt, runs, deaths, overlapped>>

IsIdleMutant(e) == TRUE        \* mutant: the engine stops whenever it is asked
IsIdle(e) == ~engines[e].busy /\ attempt = 0

\* engine_lacks_key and POST /admin/shutdown: an engine that refuses or is gone by now,
\* or whose answer to either is late, is kept, the last one perhaps claimed.
AskToStop(s) ==
    LET idle == {e \in Ready(s) : engines[e].state = "listening" /\ IsIdle(e)}
    IN  /\ step[s] = "stopping"
        /\ \/ (idle = {} \/ SlowProbe) /\ Go(s, "idle") /\ UNCHANGED engines
           \/ \E e \in idle : SetState(e, "claimed") /\ Go(s, "leaving")
           \/ \E e \in idle : SlowProbe /\ SetState(e, "claimed") /\ Go(s, "idle")
        /\ UNCHANGED <<token, held, child, attempt, runs, deaths, overlapped>>

\* Until the engine does not answer, or for ten seconds.
AwaitGone(s) ==
    /\ step[s] = "leaving"
    /\ \/ (Ready(s) = {} \/ SlowProbe) /\ Go(s, "spawning")
       \/ Ready(s) # {} /\ Go(s, "idle")
    /\ UNCHANGED <<token, held, child, engines, attempt, runs, deaths, overlapped>>

\* The handle of the child it replaces is dropped, which kills that child.
Killed(e) == IF e = 0 THEN engines ELSE [engines EXCEPT ![e] = [@ EXCEPT !.state = "dead", !.busy = FALSE]]

Spawn(s) ==
    /\ step[s] = "spawning"
    /\ Len(engines) < MaxEngines
    /\ engines' = Append(Killed(child[s]),
           [keyed |-> s \in Keyed, token |-> held[s], state |-> "starting", busy |-> FALSE])
    /\ child' = [child EXCEPT ![s] = Len(engines) + 1]
    /\ overlapped' = (overlapped \/ \E e \in DOMAIN engines : Alive(e))
    /\ Go(s, "waiting")
    /\ UNCHANGED <<token, held, attempt, runs, deaths>>

\* The probe succeeds, whoever won the port.
AwaitReady(s) ==
    /\ step[s] = "waiting"
    /\ Ready(s) # {}
    /\ Go(s, "idle")
    /\ UNCHANGED <<token, held, child, engines, attempt, runs, deaths, overlapped>>

DeadlineMutant(s) == FALSE     \* mutant: the loop has no deadline
Deadline(s) == step[s] \in {"spawning", "waiting"}

\* READY_TIMEOUT has passed, or the engine cannot be spawned.
GiveUp(s) ==
    /\ Deadline(s)
    /\ Go(s, "idle")
    /\ UNCHANGED <<token, held, child, engines, attempt, runs, deaths, overlapped>>

-----------------------------------------------------------------------------
(* The engines.                                                            *)

\* initialize_store and recovery: whatever attempt the store records as running is
\* taken for one that a crash left.
BootOrderMutant == "starting"  \* mutant: the port is bound before the store is repaired
BootOrder == "repaired"
Repair(e) ==
    /\ engines[e].state = "starting"
    /\ attempt' = 0
    /\ SetState(e, "repaired")
    /\ UNCHANGED <<token, held, step, child, runs, deaths, overlapped>>

PortFreeMutant == TRUE         \* mutant: two engines can listen on one port
PortFree == Serving = {}

\* An engine that finds the port taken ends.
Bind(e) ==
    /\ engines[e].state = BootOrder
    /\ SetState(e, IF PortFree THEN "listening" ELSE "dead")
    /\ UNCHANGED <<token, held, step, child, attempt, runs, deaths, overlapped>>

StartRun(e) ==
    /\ engines[e].state = "listening"
    /\ ~engines[e].busy
    /\ attempt = 0
    /\ runs < MaxRuns
    /\ attempt' = e
    /\ engines' = [engines EXCEPT ![e] = [@ EXCEPT !.busy = TRUE]]
    /\ runs' = runs + 1
    /\ UNCHANGED <<token, held, step, child, deaths, overlapped>>

\* The verdict is refused if the attempt was interrupted meanwhile.
FinishRun(e) ==
    /\ engines[e].busy
    /\ engines' = [engines EXCEPT ![e] = [@ EXCEPT !.busy = FALSE]]
    /\ attempt' = IF attempt = e THEN 0 ELSE attempt
    /\ UNCHANGED <<token, held, step, child, runs, deaths, overlapped>>

StopClaimed(e) ==
    /\ engines[e].state = "claimed"
    /\ SetState(e, "dead")
    /\ UNCHANGED <<token, held, step, child, attempt, runs, deaths, overlapped>>

EngineDies(e) ==
    /\ Alive(e)
    /\ deaths < MaxDeaths
    /\ deaths' = deaths + 1
    /\ engines' = Killed(e)
    /\ UNCHANGED <<token, held, step, child, attempt, runs, overlapped>>

\* Killed outright, a process leaves its child alive; when it ends in order, the
\* child is dropped and dies too.
SupervisorDies(s) ==
    /\ deaths < MaxDeaths
    /\ deaths' = deaths + 1
    /\ step' = [step EXCEPT ![s] = "idle"]
    /\ held' = [held EXCEPT ![s] = NoToken]
    /\ child' = [child EXCEPT ![s] = 0]
    /\ engines' \in {engines, Killed(child[s])}
    /\ UNCHANGED <<token, attempt, runs, overlapped>>

Ensure(s) ==
    \/ ReadToken(s)
    \/ CreateToken(s)
    \/ WriteToken(s)
    \/ Probe(s)
    \/ AskToStop(s)
    \/ AwaitGone(s)
    \/ Spawn(s)
    \/ AwaitReady(s)
    \/ GiveUp(s)

Next ==
    \/ \E s \in Supervisor : Call(s) \/ Ensure(s) \/ SupervisorDies(s)
    \/ \E e \in DOMAIN engines :
          Repair(e) \/ Bind(e) \/ StartRun(e) \/ FinishRun(e) \/ StopClaimed(e) \/ EngineDies(e)

\* The task that runs ensure_ready is polled: its requests and its waits time out.
Fairness == \A s \in Supervisor : WF_vars(Ensure(s))

Spec == Init /\ [][Next]_vars /\ Fairness

-----------------------------------------------------------------------------
(* Properties.                                                             *)

\* The files, processes and engines have their declared shape, and one engine at
\* most has the port.
TypeOK ==
    /\ token \in Supervisor \cup {NoToken, EmptyToken}
    /\ held \in [Supervisor -> Supervisor \cup {NoToken}]
    /\ step \in [Supervisor -> Steps]
    /\ child \in [Supervisor -> {0} \cup EngineId]
    /\ engines \in Seq(Engine) /\ Len(engines) <= MaxEngines
    /\ attempt \in {0} \cup EngineId
    /\ runs \in 0..MaxRuns /\ deaths \in 0..MaxDeaths
    /\ overlapped \in BOOLEAN
    /\ \A e, f \in Serving : e = f

\* Processes that race for the token file end up with the same token, and no engine
\* has another: whoever asks can adopt whatever engine serves (ensure_engine_token).
TokensAgree ==
    /\ \A s \in Supervisor : held[s] # NoToken => held[s] = token
    /\ \A e \in DOMAIN engines : engines[e].token = token

\* A keyless engine is replaced when it is idle: an engine that stops because it was
\* asked to cuts no run, of its own or of another engine (stop_engine and
\* _claim_idle_for_shutdown).
ReplacedWhenIdle ==
    [][\A e \in DOMAIN engines : StopClaimed(e) => ~engines[e].busy]_vars

\* An engine that serves never finds an attempt that a dead engine left running,
\* which would block every later attempt: the store is repaired before the port is
\* bound.  (Not so when engines overlap: one that repaired the store early may bind
\* after another ran and died.)
ServesARepairedStore ==
    ~overlapped /\ Serving # {} /\ attempt # 0 => Alive(attempt)

\* ensure_ready always returns, ready or not, whatever dies meanwhile.
EnsureReturns == \A s \in Supervisor : step[s] # "idle" ~> step[s] = "idle"
=============================================================================
