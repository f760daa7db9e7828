------------------------------- MODULE MCPlugin ------------------------------
(***************************************************************************)
(* The BTCPay plugin: what it remembers of a wallet and how it recovers    *)
(* minted invoices, and the rows of its swaps.  A behaviour is of one      *)
(* `part`:                                                                 *)
(*   recovery  the recovery of two minted invoices                         *)
(*   crashes   the recovery of one, where writes fail and processes die    *)
(*   memo      GetInvoice and a listener ask about one invoice of unknown  *)
(*             age, of a wallet that can look up and cuts views short      *)
(*   main      a poller, a refund and the payment event on one row         *)
(*   refunds   two refunds of one order and a poller; one of them may      *)
(*             crash, and a poll may outlast its lease                     *)
(*   create    a poller and a payer who replaces an order near its end     *)
(*   offer     a refund of an order that is being replaced                 *)
(* `recovery` and `create` are the modules that are extended; the others   *)
(* differ in their callers and bounds, and the orders are the same in all. *)
(* The variables of the parts a behaviour is not of stay as they start.    *)
(***************************************************************************)
EXTENDS PluginSwaps, InvoiceRecovery

CONSTANTS h1, h2, o1, o2, p1, c1, r1, r2

VARIABLE part

Memo == INSTANCE WalletMemo
    WITH Hash <- {h1}, Dated <- {}, Recent <- {h1}, Stored <- {}, Asked <- {h1},
         Callers <- {"ask", "sweep"}, CanLookUp <- TRUE, MaxFailures <- 1

Crashes == INSTANCE InvoiceRecovery
    WITH Hash <- {h1}, Dated <- {h1}, Recent <- {h1}, Stored <- {h1},
         Callers <- {"recover", "sweep"}, MaxFailures <- 1, MaxRestarts <- 1

Main == INSTANCE PluginSwaps
    WITH Creator <- {}, Refunder <- {r1}, MaxEvents <- 1

Refunds == INSTANCE PluginSwaps
    WITH Creator <- {}, Refunder <- {r1, r2}, LeaseOutlasts <- FALSE, MaxCrashes <- 1

Offer == INSTANCE PluginSwaps
    WITH Poller <- {}, Refunder <- {r1}, LeaseOutlasts <- FALSE

ASSUME WalletMemoAssumption /\ Memo!WalletMemoAssumption /\ Crashes!WalletMemoAssumption
ASSUME PluginSwapsAssumption /\ Main!PluginSwapsAssumption
ASSUME Refunds!PluginSwapsAssumption /\ Offer!PluginSwapsAssumption

Init ==
    \/ part = "recovery" /\ RecoveryInit /\ SwapsInit
    \/ part = "crashes" /\ Crashes!RecoveryInit /\ SwapsInit
    \/ part = "memo" /\ Memo!MemoInit /\ PassInit /\ SwapsInit
    \/ part = "main" /\ RecoveryInit /\ Main!SwapsInit
    \/ part = "refunds" /\ RecoveryInit /\ Refunds!SwapsInit
    \/ part = "create" /\ RecoveryInit /\ SwapsInit
    \/ part = "offer" /\ RecoveryInit /\ Offer!SwapsInit

Next ==
    /\ UNCHANGED part
    /\ \/ part = "recovery" /\ RecoveryNext /\ UNCHANGED swapVars
       \/ part = "crashes" /\ Crashes!RecoveryNext /\ UNCHANGED swapVars
       \/ part = "memo" /\ Memo!MemoNext /\ UNCHANGED <<recovery, strays, swapVars>>
       \/ part = "main" /\ Main!SwapsNext /\ UNCHANGED recoveryVars
       \/ part = "refunds" /\ Refunds!SwapsNext /\ UNCHANGED recoveryVars
       \/ part = "create" /\ SwapsNext /\ UNCHANGED recoveryVars
       \/ part = "offer" /\ Offer!SwapsNext /\ UNCHANGED recoveryVars

Spec == Init /\ [][Next]_<<part, recoveryVars, swapVars>>
=============================================================================
