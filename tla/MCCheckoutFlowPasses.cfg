CONSTANTS
    h1 = h1
    h2 = h2
    order = order
    lightning = lightning
    asset = asset
    q1 = q1
    q2 = q2
    p1 = p1
    p2 = p2
    Hash <- MCSwapHash
    Ref <- MCRef
    Rail <- MCRails
    Lightning = lightning
    Minted <- MCMintedSwap
    LegacyClosed <- MCNoLegacy
    StartClock = 0
    MaxClock = 4
    ExpiryGrace = 1
    ReuseBuffer = 0
    WalletLag = 1
    Request <- MCRequest
    Pass <- MCPasses
SPECIFICATION FairFlowSpec
PROPERTIES
    PaymentsAreServed
CHECK_DEADLOCK FALSE
