SPECIFICATION FairSpec
CONSTANTS
    Requests = {r1, r2, r3}
    Searches <- MCSearches
    Engines = {bing, google}
    r1 = r1
    r2 = r2
    r3 = r3
    bing = bing
    google = google
    Fallback = google
    Threshold = 2
    Cooldown = 2
    TTL = 2
    MaxTime = 4
    None = None
INVARIANT SearchInv
INVARIANT OwnAnswer
INVARIANT CacheHonest
INVARIANT BreakerConsistent
INVARIANT CountersAddUp
PROPERTY ClosedEarlyBySuccess
PROPERTY Answered
CHECK_DEADLOCK FALSE
