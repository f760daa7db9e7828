---------------------------- MODULE WalletHistory ---------------------------
(***************************************************************************)
(* The merchant's wallet as a walk sees it: its incoming transactions,     *)
(* newest first, in pages by offset, in a settled view and an inclusive    *)
(* one.  It goes on while it is walked.                                    *)
(***************************************************************************)
EXTENDS Integers, FiniteSets

CONSTANTS
    Invoice,        \* incoming transactions of the wallet, in the scanned range
    Created,        \* [Invoice -> Nat], creation order; the wallet lists newest first
    Attempts,       \* the invoices a walk looks for
    LateInvoices,   \* invoices of others that are minted while the walk runs
    HoldInvoices,   \* invoices whose payment may be held in flight
    Purgeable,      \* unpaid invoices the wallet may drop from its history
    Unreadable,     \* invoices whose row the client cannot normalize
    PageLimit,      \* OPENRECEIVE_TRANSACTION_PAGE_LIMIT
    MaxPages        \* maxPages of a walk, or of a slice of one

HistoryAssumption ==
    /\ IsFiniteSet(Invoice)
    /\ Created \in [Invoice -> Nat]
    /\ \A i, j \in Invoice : Created[i] = Created[j] => i = j
    /\ Attempts \subseteq Invoice /\ LateInvoices \subseteq Invoice \ Attempts
    /\ Unreadable \subseteq Invoice \ Attempts
    /\ \A i \in LateInvoices, j \in Invoice \ LateInvoices : Created[i] > Created[j]
    /\ {PageLimit, MaxPages} \subseteq Nat \ {0}

VARIABLES
    wallet,   \* [Invoice -> its state in the wallet]
    atStart   \* the same when the walk's window was created, or its caller read
              \* the clock (started_at, scannedAt)

WalletState == {"none", "open", "held", "settled", "failed", "purged"}

\* A page as a walk keeps it: its usable rows and how many rows it had.
NoPage == [rows |-> {}, count |-> 0]

\* The rows of a view: settled ones, or every invoice the wallet still has.
RowsOf(view) ==
    {i \in Invoice : IF view = "default" THEN wallet[i] = "settled"
                     ELSE wallet[i] \notin {"none", "purged"}}

Position(i, view) == Cardinality({j \in RowsOf(view) : Created[j] > Created[i]})

\* list_transactions: the rows of a view from an offset on.
PageAt(view, offset) ==
    LET rows == {i \in RowsOf(view) : /\ Position(i, view) >= offset
                                      /\ Position(i, view) < offset + PageLimit}
    IN  [rows |-> rows \ Unreadable, count |-> Cardinality(rows)]

\* An attempt that no page has shown yet.
Unseen == [i \in Attempts |-> "unseen"]

\* What classifyTransactionSettlement calls final.
Final(i) == wallet[i] \in {"settled", "failed"}

WalletInit ==
    /\ wallet \in [Invoice -> {"none", "open", "settled"}]
    /\ \A i \in Invoice : wallet[i] = "none" <=> i \in LateInvoices

MoveInvoice(i, from, to) ==
    /\ wallet[i] \in from
    /\ wallet' = [wallet EXCEPT ![i] = to]

\* Payments arrive, at once or held in flight; others mint; unpaid invoices may
\* be dropped.
WalletNext ==
    \/ \E i \in LateInvoices :
        /\ \A j \in LateInvoices : Created[j] < Created[i] => wallet[j] # "none"
        /\ MoveInvoice(i, {"none"}, "open")
    \/ \E i \in Invoice :
        \/ MoveInvoice(i, {"open", "held"}, "settled")
        \/ MoveInvoice(i, {"held"}, "failed")
    \/ \E i \in HoldInvoices : MoveInvoice(i, {"open"}, "held")
    \/ \E i \in Purgeable : MoveInvoice(i, {"open"}, "purged")
=============================================================================
