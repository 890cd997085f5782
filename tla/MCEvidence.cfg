CONSTANTS
    Worlds <- MCWorlds
    Tags <- MCTags
    None = None
    MinAndHits = 2
    LimitPerRoute = 3
    InjectTopK = 2
    MaxLinksPerHit = 1
    ChainLimit = 2
    RerankCap = 4
    RerankTopK = 3
    ToolLimit = 3
    OwnerLimit = 2
    Recent = 2
    BlockLines = 3
    ShortBlock = 2
    Threshold = 40
    ClaimsShown = 1
    MaxCalls = 2
    MaxClaims = 2
    MaxFaults = 1
SPECIFICATION Spec
INVARIANTS EvidenceIsSound ReportShowsSupport 
CHECK_DEADLOCK FALSE
