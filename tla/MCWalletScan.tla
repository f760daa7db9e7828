------------------------------ MODULE MCWalletScan -----------------------------
(***************************************************************************)
(* The two walks of the wallet's history, each looking for two attempts    *)
(* among invoices of others.  A behaviour is of one of them, `part`: the   *)
(* PaymentScan that is extended, with pages of two rows over a history     *)
(* whose rows the wallet drops or garbles; PaymentScan with pages of one   *)
(* row; and ReconcileWalk.  The variables of the other walk stay as they   *)
(* start.  What the walks promise speaks of the attempts alone, which are  *)
(* the same in all of them.                                                *)
(***************************************************************************)
EXTENDS PaymentScan, ReconcileWalk, TLC

CONSTANTS a1, a2, old, mid, new

VARIABLE part

MCAttempts == {a1, a2}
MCInvoice == MCAttempts \cup {old, mid, new}
MCCreated == old :> 1 @@ a1 :> 2 @@ mid :> 3 @@ a2 :> 4 @@ new :> 5
MCLateInvoices == {new}
MCNoHoldInvoices == {}
MCPurgeable == {old, mid, new}
MCUnreadable == {old}

ShortInvoice == MCAttempts \cup {old, new}
ShortCreated == a1 :> 1 @@ old :> 2 @@ a2 :> 3 @@ new :> 4

Steady == INSTANCE PaymentScan
              WITH Invoice <- ShortInvoice, Created <- ShortCreated, HoldInvoices <- {a1},
                   Purgeable <- {}, Unreadable <- {}, PageLimit <- 1, MaxPages <- 7,
                   MayFail <- FALSE

Short == INSTANCE ReconcileWalk
             WITH Invoice <- ShortInvoice, Created <- ShortCreated, HoldInvoices <- {a1},
                  Purgeable <- {old, new}, Unreadable <- {old}, PageLimit <- 1, MaxPages <- 3

ASSUME HistoryAssumption /\ Steady!HistoryAssumption /\ Short!HistoryAssumption
ASSUME ScanAssumption /\ Steady!ScanAssumption

NoScan ==
    /\ window = NoWindow /\ slice = NoSlice
    /\ reported = [i \in Attempts |-> {}] /\ outcome = "none"

NoShortWalk == walk = NotStarted /\ found = Unseen /\ verdict = Undecided

Init ==
    \/ part = "moving" /\ ScanInit /\ NoShortWalk
    \/ part = "steady" /\ Steady!ScanInit /\ NoShortWalk
    \/ part = "short" /\ Short!WalkInit /\ NoScan

Next ==
    /\ UNCHANGED part
    /\ \/ part = "moving" /\ ScanNext /\ UNCHANGED <<walk, found, verdict>>
       \/ part = "steady" /\ Steady!ScanNext /\ UNCHANGED <<walk, found, verdict>>
       \/ part = "short" /\ Short!WalkNext /\ UNCHANGED <<window, slice, reported, outcome>>

Spec == Init /\ [][Next]_<<part, scanVars, walk, found, verdict>>

\* The fairness PaymentScan states, whichever the size of its pages.
FairSpec ==
    /\ Spec
    /\ WF_scanVars(\/ part = "moving" /\ SliceGoesOn
                   \/ part = "steady" /\ Steady!SliceGoesOn)
================================================================================
