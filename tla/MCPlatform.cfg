CONSTANTS
    None = None
    c1 = c1
    c2 = c2
    Emails = {e1}
    Calls = {c1, c2}
    MaxUsers = 1
    MaxSessions = 1
    MaxTokens = 1
    MaxSecrets = 2
    MaxEpoch = 1
    BackupCodes = 1
    Countries = {nl, ir}
    Blocked = {ir}
    Births = {"teen"}
    Keys = {"ip", "email"}
    Attempts = {c1, c2}
    WindowMs = 2
    Max = 2
    Backends = {"memory", "redis"}
    MaxNow = 3
    MaxCount = 3
    NanosScale = 7
    MaxAmount = 40
    Payloads = {"good", "bad"}
    Valid = {"good"}
    Deliveries = {c1, c2}
    DepositMinConfirmations = 1
    MaxConfirmations = 2
    Requests = {"r1", "r2", "r3"}
    Transferred <- TransferAmount
    Asked <- RequestBody
    Users = {"u1", "u2"}
    Sides = {"yes", "no"}
    Orders = {"b1", "b2", "s1", "v1"}
    Buys = {"b1", "b2", "v1"}
    Real = {"v1"}
    VenueFee = 1
    InitialBalance = 8
    FeePercent = 20
    Settlers = {"a1", "a2"}
    KeyOf <- OrderKeys
    OwnerOf <- OrderOwner
    SideOf <- OrderSide
    AmountOf <- OrderAmount
    SharesOf <- OrderShares
    OutcomeOf <- SettlerOutcome
    Collectors = {"x", "y", "z"}
    Outcomes = 3
    Feeds = {"events", "markets"}
    Tolerant = {"events"}
    TTL = 2
    LoadTime = 1
    Ttl = 2
    Timeout = 1
    Amounts = {1, 2}
    Said <- MCSaid
    RateDigits = 2
    Contract = "usdt"
    Notices <- MCNotices
    Notified <- MCNotified
    MaxNotices = 3
    ExternalCodes = {"custody", "venue"}
    InternalCodes = {"monitoring"}
    DisallowedNames = {"passport"}
    MaxChanges = 3
    AllRequests = {c1, c2}
    AllKeys = {"k", "l"}
    Markets = {"m", "n"}
    Available = 2
    MaxEntered = 2
    Limits = {0, 1, 3}
    MaxLoads = 1
    Filters = {"f", "g"}
    Size = 2
    PageSize = 1
    PagesKept = 2
    MaxFetches = 2
    Words = {"iran", "during"}
    Categories = {"politics", "sports"}
    Topics = {"sports", "social", "elections"}
    Dates = {"d"}
SPECIFICATION Spec
SYMMETRY Symmetry
CHECK_DEADLOCK FALSE
INVARIANTS CredentialsProven EligibleHasConsented AtMostMaxAdmitted DecimalRoundTrip
INVARIANTS LegacyDepositSound LegacyTradingSound
INVARIANTS HonestAnswers RatesUsedAreFresh NotificationsKept RealMoneyOnly AcceptedConfigIsKept
INVARIANTS OnRecord PageIsOfTheUser ListIsAsAsked
PROPERTIES NeverBack
