CONSTANTS
    Scenarios <- AllScenarios
    max_wm_delta = 1
    Lingers = {TRUE, FALSE}
SPECIFICATION Spec
INVARIANTS
    TerminationSafe
    DrainedBeforeAck
PROPERTIES
    Terminates
    WriterResumes
CHECK_DEADLOCK FALSE
