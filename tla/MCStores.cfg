CONSTANTS
    h1 = h1
    h2 = h2
    order = order
    lightning = lightning
    w1 = w1
    w2 = w2
    database = database
    Hash <- MCHash
    Ref <- MCRef
    Rail <- MCRail
    Lightning = lightning
    Minted <- MCMinted
    LegacyClosed <- MCNoLegacy
    StartClock = 1
    MaxClock = 2
    ExpiryGrace = 0
    ReuseBuffer = 1
    Worker <- MCWorker
    ScanResult <- MCScanResult
    Dialect = "mysql"
    Lock <- MCLock
    LockOf <- MCLockOf
    NoWorker = NoWorker
SPECIFICATION StoresSpec
INVARIANTS
    DecidesOnCurrentRows
    AnswersAreTrue
PROPERTIES
    ImplementsLedger
SYMMETRY MCSymmetry
CHECK_DEADLOCK FALSE
