CONSTANTS
    h1 = h1
    h2 = h2
    h3 = h3
    order = order
    lightning = lightning
    asset = asset
    asset2 = asset2
    Hash <- MCHash
    Ref <- MCRef
    Rail <- MCRail
    Lightning = lightning
    Minted <- MCMinted
    LegacyClosed <- MCLegacy
    StartClock = 2
    MaxClock = 4
    ExpiryGrace = 1
    ReuseBuffer = 1
SPECIFICATION Spec
INVARIANTS
    TypeOK
    FulfilledOnce
    OneLiveOffer
PROPERTIES
    SettledIsFinal
    ImplementsSettleOnce
CHECK_DEADLOCK FALSE
