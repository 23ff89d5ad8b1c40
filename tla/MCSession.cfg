CONSTANTS
    Scenarios <- AllScenarios
    Lingers <- AllLingers
    out_batch = 2
SPECIFICATION Spec
INVARIANTS
    WholeMessages
    NoStall
    OneConnection
    TerminationGoesOn
CHECK_DEADLOCK FALSE
