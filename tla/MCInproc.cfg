SPECIFICATION Spec
CONSTANTS
    Sockets <- MCSockets
    Connecting <- MCConnecting
    Binding <- MCBinding
    Temporary = "pair"
    Options <- MCOptions
CONSTRAINT Bounded
INVARIANTS NoUseAfterDelete IdentityFirst HwmsAgree OnlyWaitingRemain
CHECK_DEADLOCK FALSE
