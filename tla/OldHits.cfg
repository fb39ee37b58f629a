SPECIFICATION MCSpec
CONSTANTS
    a1 = a1
    a2 = a2
    a3 = a3
    a4 = a4
    d1 = d1
    d2 = d2
    d3 = d3
    Chunks = {a1, a2, a3, a4}
    DocOf <- MCDocOf
    TextOf <- MCTextOf
    ShortTexts = {"x"}
    ScoreOf <- MCScoreOf
    Threshold = 2
    VectorTopK = 2
    Bm25TopK = 2
    RrfTopK = 3
    RerankK = 2
    TopK = 2
    MaxPerDoc = 1
    RrfK = 60
    GapMillis = 30
    MaxSearches = 2
    NoPairs = NoPairs
    Docs = {d1, d2}
    OldDocs = {d2}
    Drafts <- MCDrafts
    MinChildren = 2
    MaxChildren = 3
    TargetTokens = 4
    MaxTokens = 5
    Adjacent = 1
    Overlap = 1
    MaxChars = 4
    TotalMax = 9
    MaxHits = 3
    LastDoc = 2
    Size = 1
    BatchSize = 1
    MaxRuns = 1
    MaxPasses = 3
    Differing = {2}
    Users = {"root", "lead", "clerk"}
    Profile <- MCProfile
    Departments <- MCDepartments
    NoDepartment = "no"
    Bases = {"b1"}
    Files = {"f1", "f2"}
    Talks = {"c1"}
    TitleOf <- MCTitleOf
    ChunkCount = 3
    AllowedSizes = {1}
    LargestSize = 3
    DefaultSize = 1
    AskedSizes = {1, 2}
    Viewers = {"root", "lead", "clerk"}
    ViewerOf <- MCViewerOf
    ThreadIds = {"c1", "c2"}
    ThreadOf <- MCThreadOf
    Latencies = {0, 2}
    MaxMessages = 2
    MaxAgentRuns = 2
    MaxRetries = 2
    LastDay = 2
    First <- MCFirst
    Kids <- MCKids
    Images = {"i"}
    MaxPolls = 3
    Layer <- MCLayer
    Pictures <- MCPictures
    Transcripts <- MCTranscripts
    LinkLength = 1
    ShortText = 3
    Threads = 2
    PieceLength = 2
    BatchLength = 2
    OllamaFits = TRUE
    MaxAttempts = 2
INVARIANT HitSupplemented
CHECK_DEADLOCK FALSE
