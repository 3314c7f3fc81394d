SPECIFICATION Spec
CONSTANTS
    u1 = u1
    u2 = u2
    Users = {u1, u2}
    Node = Node
    Malformed = Malformed
    Absent = Absent
    NoScope = NoScope
    Nobody = Nobody
    Hops = {h1}
    Asks <- MCAsks
    Lines <- MCLines
    Existing <- MCExisting
    MaxLines = 2
    MaxActive = 1
    MaxDeaths = 1
INVARIANTS
    IInv
    EffectsHaveTheirCaller
    AnswersAreTrue
    EventsAreTrue
    AdmissionHolds

    
CHECK_DEADLOCK FALSE
