------------------------------ MODULE HostCall ------------------------------
(***************************************************************************)
(* What every client of Core in the app-events crate shares: where Core is *)
(* (the environment it injects at spawn), which requests it refuses before *)
(* anything is sent, and what the caller learns from Core's response.      *)
(*                                                                         *)
(* A request is known by its faults: the fields whose value its validator  *)
(* may object to.                                                          *)
(***************************************************************************)
EXTENDS Integers

CONSTANTS
    Ports,          \* the port numbers that an environment may name
    NoPort

ASSUME PortAssumption == NoPort \notin Ports

(***************************************************************************)
(* The environment.                                                        *)
(***************************************************************************)
Env == [corePort : Ports \union {NoPort}, bind : Ports \union {NoPort},
        token : {"absent", "blank", "set"}]

\* RYU_CORE_PORT, or else the port half of RYU_BIND; what does not parse is absent.
CorePort(env) == IF env.corePort # NoPort THEN env.corePort ELSE env.bind

IsHosted(env) == CorePort(env) # NoPort /\ env.token = "set"

(***************************************************************************)
(* The validators.                                                         *)
(***************************************************************************)
StreamFaults ==
    {"model", "requestId", "noMessages", "manyMessages", "role", "content", "control",
     "context", "provider", "providerUrl", "maxTokens", "temperature"}

PublishFaults == {"room", "event", "data"}

UsageFaults == {"provider", "toolId", "requestId", "transactionId", "taskLabel", "noCalls"}

CallFaults ==
    {"provider", "toolId", "method", "requestId", "idempotencyKey", "taskLabel", "timeout"}

GrantFaults == {"grant"}

(***************************************************************************)
(* Core's response: its status, and whether the body is what the client    *)
(* parses.  A body is cut when the connection breaks before its end.       *)
(***************************************************************************)
Bodies == {"good", "denied", "garbage", "cut"}

Responses == [status : {"2xx", "other"}, body : Bodies]

(***************************************************************************)
(* The clients: what each checks, and what it makes of the body of a       *)
(* success.                                                                *)
(***************************************************************************)
Parses == [good |-> "ok", denied |-> "ok", garbage |-> "transport", cut |-> "transport"]
Ignores == [body \in Bodies |-> "ok"]

\* The event's name, and what goes with it, are Core's to refuse.
EventEmitter == [checks |-> {}, reads |-> Parses]

ApplicationRoomPublisher == [checks |-> PublishFaults, reads |-> Ignores]

UsageReporter == [checks |-> UsageFaults, reads |-> Parses]

ProviderStatus == [checks |-> {}, reads |-> Parses]

ProviderCall == [checks |-> CallFaults, reads |-> Parses]

\* Nothing but a yes of Core's is a success.
AuthorizeAgent == [checks |-> GrantFaults, reads |-> [Parses EXCEPT !.denied = "rejected"]]

\* The body of a stream is read as it arrives: ModelStream.
ModelStreamClient == [checks |-> StreamFaults, reads |-> [body \in Bodies |-> "streaming"]]

Clients ==
    [emit |-> EventEmitter, publish |-> ApplicationRoomPublisher, usage |-> UsageReporter,
     status |-> ProviderStatus, call |-> ProviderCall, authorize |-> AuthorizeAgent,
     stream |-> ModelStreamClient]

HostKinds == DOMAIN Clients

IsValid(kind, faults) == faults \intersect Clients[kind].checks = {}

\* "none" when the request goes out; the validator speaks before the environment.
Early(kind, faults, env) ==
    IF ~IsValid(kind, faults) THEN "invalid"
    ELSE IF ~IsHosted(env) THEN "notHosted"
    ELSE "none"

Outcome(kind, response) ==
    IF response.status = "2xx" THEN Clients[kind].reads[response.body] ELSE "rejected"

=============================================================================
