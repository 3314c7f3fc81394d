CONSTANTS
    sidecar = sidecar
    mcp = mcp
    NoToken = NoToken
    EmptyToken = EmptyToken
    Supervisor = {sidecar, mcp}
    Keyed = {sidecar}
    SlowProbe = TRUE
    MaxEngines = 3
    MaxRuns = 1
    MaxDeaths = 1
SPECIFICATION Spec
INVARIANTS
    TypeOK
    TokensAgree
    ServesARepairedStore
PROPERTIES
    ReplacedWhenIdle
    EnsureReturns
CHECK_DEADLOCK FALSE
