SPECIFICATION LoopSpec
CONSTANTS
    t1 = t1
    t2 = t2
    Tasks = {t1, t2}
    MaxRetries = 1
    MaxIterations = 3
    FaultsOf <- MCFaultsOf
INVARIANT LoopInv
PROPERTIES
    CardSettles
    LoopEnds
CHECK_DEADLOCK FALSE
