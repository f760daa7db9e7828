SPECIFICATION Spec
CONSTANTS
    h1 = h1
    h2 = h2
    o1 = o1
    o2 = o2
    p1 = p1
    c1 = c1
    r1 = r1
    r2 = r2
    Hash = {h1, h2}
    Dated = {h1, h2}
    Recent = {h1, h2}
    Stored = {h1, h2}
    Asked = {}
    Callers = {"recover"}
    CanLookUp = FALSE
    CutsShort = TRUE
    Forgets = FALSE
    MaxFailures = 0
    MaxRestarts = 0
    Order = {o1, o2}
    Offered = {o1}
    Poller = {p1}
    Creator = {c1}
    Refunder = {}
    MutateAttempts = 3
    LeaseOutlasts = TRUE
    MaxCrashes = 0
    MaxEvents = 0
CHECK_DEADLOCK FALSE
INVARIANTS
    OneRefundAddress
PROPERTIES
    DroppedIsUnpaid
    OnlyOverIsClosed
    StampsStay
    RetiredUnfunded
