SPECIFICATION FairSpec
CONSTANTS
    Requests = {r1, r2}
    r1 = r1
    r2 = r2
    Permits = 1
    PlanLengths = {1, 3}
    MaxSteps = 2
    MaxRetries = 2
    None = None
INVARIANT TypeOK
INVARIANT PermitsBalance
INVARIANT HistoryMatchesSteps
INVARIANT DoneIsRecorded
INVARIANT RetriesBounded
PROPERTY StreamsEnd
CHECK_DEADLOCK FALSE
