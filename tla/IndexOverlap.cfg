SPECIFICATION Spec
CONSTANTS
    Docs = {d1}
    Contents = {c1}
    Linked = {c1}
    Requests = {r1, r2, r3, r4}
    Tasks = {t1, t2, t3}
    NoDoc = NoDoc
    NoContent = NoContent
    NoTask = NoTask
    MaxRetries = 1
    Faults = {"stage", "worker", "republish", "db"}
    OneAtATime = FALSE
SYMMETRY Symmetry
INVARIANTS
    OverlapInv
PROPERTIES
    NeverUnindexed
CHECK_DEADLOCK FALSE
