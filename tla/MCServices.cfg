CONSTANTS
    None = None
    Feeds = {"events", "markets"}
    Tolerant = {"events"}
    TTL = 2
    LoadTime = 1
    PageLimit = 2
    Markets <- MCMarkets
    MaxTrades = 3
    CatalogSize = 4
    Admins = {"x", "y"}
    Unit = 10
    MaxWeight = 3
    MaxClock = 4
SPECIFICATION Spec
CHECK_DEADLOCK FALSE
INVARIANTS NothingLeftOut ChartEndsAtTheOdds
PROPERTIES ShownEventually
