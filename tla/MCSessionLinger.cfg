CONSTANTS
    Scenarios <- SlowNetwork
    Lingers <- AllLingers
    out_batch = 2
SPECIFICATION Spec
INVARIANT InfiniteLingerDiscardsNothing
CHECK_DEADLOCK FALSE
