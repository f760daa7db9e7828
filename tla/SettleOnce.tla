----------------------------- MODULE SettleOnce -----------------------------
(***************************************************************************)
(* What the attempt ledger promises the host: every payment of an order is *)
(* recorded, once, and the first one fulfills the order, in the same step. *)
(***************************************************************************)
EXTENDS Naturals, Sequences

CONSTANTS
    Hash,     \* invoices
    Ref,      \* orders
    OrderOf   \* [Hash -> Ref], the order an invoice was minted for

VARIABLES
    paid,    \* the invoices recorded as paid
    served   \* per order, the invoices whose payment the host acted on

vars == <<paid, served>>

Init ==
    /\ paid = {}
    /\ served = [r \in Ref |-> <<>>]

\* h is paid; the host acts on it only if no invoice of its order was before.
RecordPayment(h) ==
    LET r == OrderOf[h]
        first == \A g \in paid : OrderOf[g] # r
    IN  /\ h \notin paid
        /\ paid' = paid \cup {h}
        /\ served' = IF first THEN [served EXCEPT ![r] = <<h>>] ELSE served

Next == \E h \in Hash : RecordPayment(h)

Spec == Init /\ [][Next]_vars
=============================================================================
