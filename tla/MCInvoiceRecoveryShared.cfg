CONSTANTS
    h1 = h1
    h2 = h2
    Hash = {h1, h2}
    Dated = {h1, h2}
    Recent = {h1, h2}
    Stored = {h1, h2}
    Asked = {h2}
    Callers = {"recover", "ask"}
    CanLookUp = FALSE
    CutsShort = FALSE
    Forgets = FALSE
    MaxFailures = 0
    MaxRestarts = 0
SPECIFICATION RecoverySpec
INVARIANTS
    ClosedIsUnpaid
CHECK_DEADLOCK FALSE
