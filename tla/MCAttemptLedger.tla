--------------------------- MODULE MCAttemptLedger --------------------------
(***************************************************************************)
(* One order with two swaps of one asset, whose instructions overlap, and  *)
(* a swap of another asset in a table an earlier release wrote.            *)
(***************************************************************************)
EXTENDS AttemptLedger, TLC

CONSTANTS h1, h2, h3, order, lightning, asset, asset2

MCHash == {h1, h2, h3}
MCRef == {order}
MCRail == {lightning, asset, asset2}

\* The providers of h1 and h2 gave instructions up to the grace longer than the
\* invoice; h3 was closed at 2, before its invoice could no longer be paid (3).
MCMinted ==
    (h1 :> [ref |-> order, rail |-> asset, instrExp |-> 4, invExp |-> 3])
    @@ (h2 :> [ref |-> order, rail |-> asset, instrExp |-> 3, invExp |-> 2])
    @@ (h3 :> [ref |-> order, rail |-> asset2, instrExp |-> 1, invExp |-> 3])
MCLegacy == {h3}
=============================================================================
