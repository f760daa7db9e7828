---------------------------- MODULE AttemptRules ----------------------------
(***************************************************************************)
(* The decisions OpenReceive takes about one payment attempt, as pure      *)
(* operators: may its payer instructions be reused, does it block a new    *)
(* attempt on the same order, may a reconciliation result close it, may an *)
(* operator reopen it.  Every repository (SQL, Supabase, custom) and the   *)
(* checkout resolver share them.                                           *)
(*                                                                         *)
(* Times are unix seconds.  A rail is Lightning or a swap's pay-in asset.  *)
(***************************************************************************)
EXTENDS Integers

CONSTANTS
    ExpiryGrace,   \* OPENRECEIVE_ATTEMPT_EXPIRY_GRACE_SECONDS
    ReuseBuffer    \* OPENRECEIVE_ATTEMPT_REUSE_BUFFER_SECONDS

ASSUME RulesAssumption ==
    /\ ExpiryGrace \in Nat
    /\ ReuseBuffer \in Nat

\* A closed attempt left the scan set without being paid.
ClosedStatus == {"expired", "failed", "attention"}

\* "absent" is the state of a payment hash that has no row.
AttemptStatus == {"absent", "pending", "settled"} \cup ClosedStatus

\* Reasons given when the wallet clock, and not an explicit wallet report,
\* closed the attempt.
ClockReason ==
    {"not_found_after_expiry", "no_finality_after_expiry", "unsettled_after_expiry"}

StatusReason ==
    {"none", "superseded", "duplicate_settlement", "operator_requeued",
     "wallet_reported_failed", "wallet_reported_expired"} \cup ClockReason

Row == [status : AttemptStatus, reason : StatusReason, updatedAt : Nat]

NoRow == [status |-> "absent", reason |-> "none", updatedAt |-> 0]

\* What a wallet scan says of an attempt it did not find settled, and the
\* explicit transaction state (if any) the wallet attached.
ScanStatus == {"pending", "expired", "failed", "not_found"}
TransactionState == {"none", "pending", "accepted"}

-----------------------------------------------------------------------------
\* More than the reuse buffer is left on the payer instructions.
isReusablePaymentAttempt(expiresAt, now) == expiresAt - now > ReuseBuffer

\* Still offered to a payer: pending, not superseded, not past its expiry.
isLivePaymentAttempt(row, expiresAt, now) ==
    /\ row.status = "pending"
    /\ row.reason # "superseded"
    /\ expiresAt > now

\* How a live attempt treats a new attempt of the same order.
liveAttemptCommitDecision(sameRail, expiresAt, now) ==
    CASE ~sameRail -> "ignore"
      [] sameRail /\ isReusablePaymentAttempt(expiresAt, now) -> "conflict"
      [] OTHER -> "supersede"

\* reconciliationTransition's null.
NoTransition == [status |-> "pending", reason |-> "none"]

\* The terminal transition (if any) for a result that is not a settlement: an
\* explicit wallet verdict closes at once, the clock only after the invoice's
\* own expiry plus grace.
reconciliationTransition(invoiceExpiresAt, status, state, observedAt) ==
    CASE status = "failed" ->
            [status |-> "failed", reason |-> "wallet_reported_failed"]
      [] status = "expired" ->
            [status |-> "expired", reason |-> "wallet_reported_expired"]
      [] status \in {"not_found", "pending"}
            /\ observedAt < invoiceExpiresAt + ExpiryGrace -> NoTransition
      [] status = "not_found" /\ observedAt >= invoiceExpiresAt + ExpiryGrace ->
            [status |-> "expired", reason |-> "not_found_after_expiry"]
      [] status = "pending" /\ observedAt >= invoiceExpiresAt + ExpiryGrace ->
            IF state \in {"pending", "accepted"}
            THEN [status |-> "attention", reason |-> "unsettled_after_expiry"]
            ELSE [status |-> "expired", reason |-> "no_finality_after_expiry"]

\* A swap closed when its deposit instructions, not its invoice, ran out: what
\* an earlier release wrote.
earlySwapClosure(row, isSwap, instructionExpiresAt, invoiceExpiresAt) ==
    /\ isSwap
    /\ row.reason \in ClockReason
    /\ invoiceExpiresAt > instructionExpiresAt
    /\ row.updatedAt >= instructionExpiresAt + ExpiryGrace
    /\ row.updatedAt < invoiceExpiresAt + ExpiryGrace

\* The rows an operator may be shown for repair.
repairCandidate(row, isSwap, instructionExpiresAt, invoiceExpiresAt) ==
    /\ row.status \in {"expired", "attention"}
    /\ \/ row.status = "attention"
       \/ earlySwapClosure(row, isSwap, instructionExpiresAt, invoiceExpiresAt)
=============================================================================
