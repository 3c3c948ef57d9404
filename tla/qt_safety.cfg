SPECIFICATION WarmOrCold
CONSTANTS
    Callers = {c1, c2}
    Feed = 0
    Keys = {0, 1, 2}
    NoCall = NoCall
    None = None
    Ttl = 1
    MaxTime = 1
    MaxVersion = 1
    MaxFetches = 2
    Sport = hockey
    Offers <- TwoOffers
    Watches <- OverWatch
    OpportunityTtl = 0
    MaxFaults = 1
SYMMETRY Interchangeable
CHECK_DEADLOCK FALSE
INVARIANTS
    TypeOK
    LiveIsCurrent
    NeverOlderThanServed
    LatestIsNewestHistory
    OneSnapshotPerMarket
    ToldExpiredIsExpired
PROPERTIES
    LaterRefreshNotOlder
    StampMeansIngested
    BoardOnlyGrows
    BestBookAgreed
    PagesPartition
