--------------------------- MODULE MCCheckoutFlow ---------------------------
(***************************************************************************)
(* One order.  Two requests race for Lightning invoices that overlap for a *)
(* second; or two passes scan one swap whose invoice outlives its deposit  *)
(* instructions.                                                           *)
(***************************************************************************)
EXTENDS CheckoutFlow, TLC

CONSTANTS h1, h2, order, lightning, asset, q1, q2, p1, p2

MCHash == {h1, h2}
MCRef == {order}
MCLightning == {lightning}
MCRails == {lightning, asset}
MCNoLegacy == {}
MCRequests == {q1, q2}
MCRequest == {q1}
MCPasses == {p1, p2}
MCPass == {p1}

MCMinted ==
    (h1 :> [ref |-> order, rail |-> lightning, instrExp |-> 1, invExp |-> 1])
    @@ (h2 :> [ref |-> order, rail |-> lightning, instrExp |-> 2, invExp |-> 2])
MCSwapHash == {h1}
MCMintedSwap == h1 :> [ref |-> order, rail |-> asset, instrExp |-> 1, invExp |-> 2]

MCSymmetry == Permutations(MCRequests) \cup Permutations(MCPasses)
=============================================================================
