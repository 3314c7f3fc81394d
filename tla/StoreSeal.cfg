CONSTANTS
    Engine = {e1, e2}
    first = first
    second = second
    Key = {first, second}
    NoKey = NoKey
    Delivery <- MCDelivery
    Columns = 1
    Rows = 2
    Batch = 1
    MaxOpens = 3
    MaxWrites = 1
SPECIFICATION Spec
INVARIANTS
    ServesNoPlaintext
    ResidueIsPending
PROPERTIES
    KeyTakesOverAll
SYMMETRY Engines
CHECK_DEADLOCK FALSE
