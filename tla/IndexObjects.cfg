SPECIFICATION Spec
CONSTANTS
    Docs = {d1, d2}
    Contents = {c1}
    Linked = {}
    Requests = {r1, r2, r3}
    Tasks = {t1, t2, t3}
    NoDoc = NoDoc
    NoContent = NoContent
    NoTask = NoTask
    MaxRetries = 1
    Faults = {"publish", "republish", "stage", "worker"}
    OneAtATime = FALSE
SYMMETRY Symmetry
INVARIANTS
    NoOrphanObject
    SourceKept
CHECK_DEADLOCK FALSE
