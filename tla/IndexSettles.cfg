SPECIFICATION FairSpec
CONSTANTS
    Docs = {d1}
    Contents = {c1}
    Linked = {c1}
    Requests = {r1, r2, r3}
    Tasks = {t1, t2, t3}
    NoDoc = NoDoc
    NoContent = NoContent
    NoTask = NoTask
    MaxRetries = 1
    Faults = {"minio", "stage", "publish"}
    OneAtATime = FALSE
INVARIANT NoStall
PROPERTIES
    Settles
CHECK_DEADLOCK FALSE
