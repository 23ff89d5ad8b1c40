SPECIFICATION Spec
CONSTANTS
    p1 = p1
    p2 = p2
    p3 = p3
    Pipes <- ThePipes
    Hwm = 1
    Scenarios <- AllScenarios
    Identities <- TheIdentities
SYMMETRY Symmetric
INVARIANTS
    WholeMessages
    RightPeer
    NoForgottenPipe
    FairShare
CHECK_DEADLOCK FALSE
