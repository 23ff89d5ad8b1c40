SPECIFICATION Spec
CONSTANTS
    s1 = s1
    s2 = s2
    p1 = p1
    p2 = p2
    p3 = p3
    Subs = {s1, s2}
    Pipes = {p1, p2, p3}
    Owner <- TheOwner
    Filters <- TheFilters
    Topics <- TheTopics
    Scenarios <- TightScenarios
    PubHwm = 1
    SubHwm = 1
    MaxRefs = 2
INVARIANTS
    NoAbort
CHECK_DEADLOCK FALSE
