----------------------------- MODULE MCSqlLedger ----------------------------
(***************************************************************************)
(* Two Postgres callers on one order: a swap an earlier release closed too *)
(* early, which the operator can reopen, and a Lightning invoice; all at   *)
(* one moment (MCStores lets time pass), with the database's fairness.     *)
(***************************************************************************)
EXTENDS SqlLedger, TLC

CONSTANTS h1, h2, order, lightning, asset, w1, w2, database

MCHash == {h1, h2}
MCRef == {order}
MCRail == {lightning, asset}
MCWorker == {w1, w2}

MCMintedSwap ==
    (h1 :> [ref |-> order, rail |-> asset, instrExp |-> 0, invExp |-> 1])
    @@ (h2 :> [ref |-> order, rail |-> lightning, instrExp |-> 3, invExp |-> 3])
MCLegacy == {h1}
\* The writing statement does not depend on which transition it carries: one
\* explicit failure and one payment in flight.
MCScanResult == {<<"failed", "none">>, <<"pending", "accepted">>}

MCLock == {database}
MCLockOf == [r \in Ref |-> database]

MomentSpec == SqlInit /\ [][SqlStep]_sqlVars /\ SqlFairness
=============================================================================
