SPECIFICATION Spec
CONSTANTS
    None = None
    \* SwapBudget
    Calls = {c1, c2, c3}
    WindowSeconds = 3
    BackoffSeconds = 3
    CreateWeight = 2
    CreateGate = 5
    SoftCap = 7
    BodiesParse = TRUE
    \* SwapCache
    Callers = {k1, k2, k3}
    RefreshSeconds = 3
    MaxStaleSeconds = 3
    ClaimSeconds = 4
    ServeStale = FALSE
    FetchTime = 2
    \* SwapProviders
    Providers <- MCProviders
    Assets = {"usdt", "eth", "sol"}
    Lists <- MCLists
    \* MintLimit
    Slots = {s1, s2, s3}
    Ips = {"ip"}
    Unattributed = "none"
    Hour = 2
    Day = 3
    LimitPerHour = 2
    LimitPerDay = 3
    MaxWait = 1
    \* RateCache
    Refreshes = {r1, r2, r3}
CHECK_DEADLOCK FALSE
INVARIANTS
    CreatesLeaveRoomForPolls
    OvershootIsBounded
    BackupIsForOutages
PROPERTIES
    RatesAreQuotable
    BackoffIsHonoured
    FeedIsSpared
