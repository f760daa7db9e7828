--------------------------- MODULE MCInvoiceRecovery ---------------------------
(* Two minted invoices, and GetInvoice, whose walks recovery shares.       *)
EXTENDS InvoiceRecovery
=============================================================================
