SPECIFICATION Spec
CONSTANTS
    Docs = {d1, d2}
    Contents = {c1}
    Linked = {c1}
    Requests = {r1, r2, r3, r4}
    Tasks = {t1, t2, t3}
    NoDoc = NoDoc
    NoContent = NoContent
    NoTask = NoTask
    MaxRetries = 1
    Faults = {"minio", "db", "publish", "republish", "stage", "worker", "api"}
    OneAtATime = TRUE
SYMMETRY Symmetry
INVARIANTS
    SerialInv
PROPERTIES
    SearchSpec
CHECK_DEADLOCK FALSE
