SPECIFICATION Spec
CONSTANTS
    \* CheckoutWatcher
    Addresses = {a1, a2}
    NoAddress = NoAddress
    Rails = {"running"}
    MaxRequests = 1
    MaxRefunds = 1
    \* ElementCheckout
    Orders = {o1, o2}
    Assets = {usdt}
    None = None
    ActionIds = {m1}
    CreateIds = {c1, c2}
    Resume = "swap"
    \* The invoice part
    InvoiceOrders = {o1}
    InvoiceActions = {m1, m2}
SYMMETRY Symmetry
CHECK_DEADLOCK FALSE
INVARIANTS
    RefundAddressIsCurrent
    ShowsTheOrderAsked
    PanelFollowsThePayer
PROPERTIES
    PaidNeverFlipsBack
