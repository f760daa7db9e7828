------------------------------- MODULE MCBrowser -------------------------------
(***************************************************************************)
(* The payer's side: the watcher of one checkout, and the custom element   *)
(* with the checkout session in it.  A behaviour is of one of them, `part`:*)
(*   watch    a swap whose payer reviews one of two refund addresses       *)
(*   reads    two status requests at a time, Lightning or a swap           *)
(*   element  an element between two orders, with a remembered swap        *)
(*   invoice  an element with a remembered Lightning attempt, whose mint   *)
(*            overlaps the payer's own choices                             *)
(* The variables of the other stay as they start.                          *)
(***************************************************************************)
EXTENDS CheckoutWatcher, ElementCheckout, TLC

CONSTANTS InvoiceOrders, InvoiceActions

VARIABLE part

Reads == INSTANCE CheckoutWatcher
             WITH Rails <- {"none", "running"}, MaxRequests <- 2, MaxRefunds <- 0

Invoice == INSTANCE ElementCheckout
               WITH Orders <- InvoiceOrders, ActionIds <- InvoiceActions, Resume <- "lightning"

ASSUME WatcherAssumption /\ Reads!WatcherAssumption
ASSUME SessionAssumption /\ Invoice!SessionAssumption
ASSUME ElementAssumption /\ Invoice!ElementAssumption

vars == <<part, watcherVars, elementVars>>

Init ==
    \/ part = "watch" /\ WatcherInit /\ Invoice!ElementInit
    \/ part = "reads" /\ Reads!WatcherInit /\ Invoice!ElementInit
    \/ part = "element" /\ WatcherInit /\ ElementInit
    \/ part = "invoice" /\ WatcherInit /\ Invoice!ElementInit

Next ==
    /\ UNCHANGED part
    /\ \/ part = "watch" /\ WatcherNext /\ UNCHANGED elementVars
       \/ part = "reads" /\ Reads!WatcherNext /\ UNCHANGED elementVars
       \/ part = "element" /\ ElementNext /\ UNCHANGED watcherVars
       \/ part = "invoice" /\ Invoice!ElementNext /\ UNCHANGED watcherVars

Spec == Init /\ [][Next]_vars

Symmetry == Permutations(Addresses)
================================================================================
