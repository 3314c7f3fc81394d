SPECIFICATION Spec
CONSTANTS
    t1 = t1
    t2 = t2
    callerA = callerA
    callerB = callerB
    Secrets = {t1, t2}
    Empty = Empty
    NoProof = NoProof
    NoEntry = NoEntry
    NoFile = NoFile
    NoPort = NoPort
    NoToken = NoToken
    NoOp = NoOp
    ExtToken = ExtToken
    Ports = {"core"}
    Callers = {callerA, callerB}
    Processes <- MCProcesses
    Wires <- MCWires
    MaxChanges = 3
    MaxChunk = 4
INVARIANTS
    BearerNeedsProof
    OutcomesAreTrue
    StreamIsFaithful
PROPERTIES
    RunningSidecarIsFound
    CallsReturn
CHECK_DEADLOCK FALSE
