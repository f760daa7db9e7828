SPECIFICATION FairSpec
CONSTANTS
    a1 = a1
    a2 = a2
    old = old
    mid = mid
    new = new
    Attempts <- MCAttempts
    Invoice <- MCInvoice
    Created <- MCCreated
    LateInvoices <- MCLateInvoices
    HoldInvoices <- MCNoHoldInvoices
    Purgeable <- MCPurgeable
    Unreadable <- MCUnreadable
    PageLimit = 2
    MaxPages = 7
    MayFail = TRUE
CHECK_DEADLOCK FALSE
INVARIANTS
    AbsenceIsProven
    CompleteWalkFindsPayments
    UnpaidWhenScanned
PROPERTIES
    SlowWalksEnd
