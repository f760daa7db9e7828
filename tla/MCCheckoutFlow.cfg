CONSTANTS
    h1 = h1
    h2 = h2
    order = order
    lightning = lightning
    asset = asset
    q1 = q1
    q2 = q2
    p1 = p1
    p2 = p2
    Hash <- MCHash
    Ref <- MCRef
    Rail <- MCLightning
    Lightning = lightning
    Minted <- MCMinted
    LegacyClosed <- MCNoLegacy
    StartClock = 0
    MaxClock = 3
    ExpiryGrace = 1
    ReuseBuffer = 1
    WalletLag = 1
    Request <- MCRequests
    Pass <- MCPass
SPECIFICATION FlowSpec
INVARIANTS
    NoPaymentIsLost
    OneOfferShown
SYMMETRY MCSymmetry
CHECK_DEADLOCK FALSE
