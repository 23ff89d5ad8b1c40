CONSTANTS
    Scenarios <- AllScenarios
    ByteMax = 3
    in_batch = 2
    out_batch = 8
    Legs = 2
SPECIFICATION Spec
INVARIANTS
    PeersStay
    OnlyAuthenticated
    Faithful
    NoStandstill
CHECK_DEADLOCK FALSE
