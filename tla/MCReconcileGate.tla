--------------------------- MODULE MCReconcileGate --------------------------
(***************************************************************************)
(* Two workers, one of them a second ahead, over a run of a few seconds,   *)
(* where the tolerated skew is a second, so that a clock can be rewound    *)
(* past it.                                                                *)
(***************************************************************************)
EXTENDS ReconcileGate, TLC

CONSTANTS w1, w2

MCWorker == {w1, w2}
MCOffset == w1 :> 0 @@ w2 :> 1
MCIntervals == {1, 2}
=============================================================================
