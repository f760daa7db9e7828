CONSTANTS
    h1 = h1
    h2 = h2
    order = order
    lightning = lightning
    asset = asset
    w1 = w1
    w2 = w2
    database = database
    Hash <- MCHash
    Ref <- MCRef
    Rail <- MCRail
    Lightning = lightning
    Minted <- MCMintedSwap
    LegacyClosed <- MCLegacy
    StartClock = 1
    MaxClock = 1
    ExpiryGrace = 0
    ReuseBuffer = 1
    Worker <- MCWorker
    ScanResult <- MCScanResult
    Dialect = "postgres"
    Lock <- MCLock
    LockOf <- MCLockOf
    NoWorker = NoWorker
SPECIFICATION MomentSpec
PROPERTIES
    ImplementsLedger
    EveryCallEnds
CHECK_DEADLOCK FALSE
