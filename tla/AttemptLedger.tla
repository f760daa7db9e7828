---------------------------- MODULE AttemptLedger ---------------------------
(***************************************************************************)
(* The ledger of payment attempts (openreceive_payments) as its callers    *)
(* see it: every repository operation is one atomic step, because it runs  *)
(* in a transaction that holds the reference's lock.  SqlLedger shows the  *)
(* transactions of the SQL repository implement these steps.               *)
(*                                                                         *)
(* A refusal (409), a rolled-back transaction and a failed fulfillment     *)
(* leave every table as it was, so they are stuttering steps here.         *)
(***************************************************************************)
EXTENDS AttemptRules, Sequences

CONSTANTS
    Hash,          \* payment hashes, one per minted invoice
    Ref,           \* the host's order references
    Rail,          \* Lightning and the swap pay-in assets
    Lightning,     \* the rail of a plain Lightning checkout
    Minted,        \* what each hash was minted for (see MintedAttempt)
    LegacyClosed,  \* hashes of swaps an earlier release closed too early
    StartClock,    \* host time at which the run starts
    MaxClock       \* bound on the host time

\* paymentInsert's view of a minted attempt: its order, its rail, until when
\* the payer instructions are good (instrExp: the provider order's expiry on a
\* swap) and until when the wallet invoice can be paid (invExp).
MintedAttempt == [ref : Ref, rail : Rail, instrExp : Nat, invExp : Nat]

\* createCheckout refuses a swap whose invoice would die before the provider
\* order (up to a tolerance far below the grace); a Lightning checkout has one
\* expiry.
ASSUME LedgerAssumption ==
    /\ Lightning \in Rail
    /\ Minted \in [Hash -> MintedAttempt]
    /\ \A h \in Hash :
        /\ Minted[h].instrExp <= Minted[h].invExp + ExpiryGrace
        /\ Minted[h].rail = Lightning => Minted[h].instrExp = Minted[h].invExp
    /\ StartClock \in Nat
    /\ MaxClock \in Nat
    /\ StartClock <= MaxClock
    /\ LegacyClosed \subseteq Hash
    /\ \A h \in LegacyClosed :
        /\ Minted[h].rail # Lightning
        /\ Minted[h].instrExp < Minted[h].invExp
        /\ Minted[h].instrExp + ExpiryGrace <= StartClock

VARIABLES
    rows,       \* [Hash -> Row], the attempt table
    fulfilled,  \* per reference, the hashes the host's onPaid committed work for
    audited,    \* repair audit entries of openreceive_meta
    clock       \* the most advanced host clock

vars == <<rows, fulfilled, audited, clock>>

-----------------------------------------------------------------------------
HashesOf(r) == {h \in Hash : Minted[h].ref = r}
Siblings(h) == HashesOf(Minted[h].ref)
IsSwap(h) == Minted[h].rail # Lightning

\* Mutant: closure waits for the payer instructions only, as releases did that
\* stored one expiry per attempt.
InstructionsExpireAt(h) == Minted[h].instrExp

\* Until when the wallet invoice itself can be paid: what closure waits for.
settlementExpiresAt(h) == Minted[h].invExp

\* Mutant: only an attempt on the same rail makes a payment a duplicate.
SettledOnSameRail(table, h) ==
    {g \in Siblings(h) : Minted[g].rail = Minted[h].rail /\ table[g].status = "settled"}

\* table's rows of h's reference that are settled, or still offered at time n.
SettledSiblings(table, h) == {g \in Siblings(h) : table[g].status = "settled"}
LiveSiblings(table, h, n) ==
    {g \in Siblings(h) : isLivePaymentAttempt(table[g], Minted[g].instrExp, n)}

Decision(g, h, n) ==
    liveAttemptCommitDecision(Minted[g].rail = Minted[h].rail, Minted[g].instrExp, n)

\* Mutant: commitAttempt trusts the resolver and does not look at live attempts.
CommitUnlessPaid(table, h, n) ==
    /\ table[h].status = "absent"
    /\ SettledSiblings(table, h) = {}

\* commitAttempt inserts h: no row yet, order unpaid, no reusable live attempt
\* on its rail.  table is what the transaction reads, n the clock it read.
CommitAllowed(table, h, n) ==
    /\ table[h].status = "absent"
    /\ SettledSiblings(table, h) = {}
    /\ \A g \in LiveSiblings(table, h, n) : Decision(g, h, n) # "conflict"

\* Mutant: the old attempt is left on offer.
SupersededNone(table, h, n) == {}

\* The live attempts on h's rail whose instructions are about to run out.
Superseded(table, h, n) ==
    {g \in LiveSiblings(table, h, n) : Decision(g, h, n) = "supersede"}

\* The writes of commitAttempt: supersede old (only rows still pending), insert h.
WithCommitted(table, h, old, n) ==
    [g \in Hash |->
        IF g = h THEN [status |-> "pending", reason |-> "none", updatedAt |-> n]
        ELSE IF g \in old /\ table[g].status = "pending"
             THEN [table[g] EXCEPT !.reason = "superseded", !.updatedAt = n]
             ELSE table[g]]

\* The write of markPaidOnce.
WithSettled(table, h, first, n) ==
    [table EXCEPT ![h] =
        [status    |-> "settled",
         reason    |-> IF first THEN "none" ELSE "duplicate_settlement",
         updatedAt |-> n]]

\* The operator reviewed version (status, updatedAt) of h and may reopen it.
RequeueAllowed(table, log, h, status, updatedAt) ==
    /\ table[h].status = status
    /\ table[h].updatedAt = updatedAt
    /\ repairCandidate(table[h], IsSwap(h), Minted[h].instrExp, Minted[h].invExp)
    /\ <<h, status, updatedAt>> \notin log

WithRequeued(table, h, n) ==
    [table EXCEPT ![h] =
        [status |-> "pending", reason |-> "operator_requeued", updatedAt |-> n]]

-----------------------------------------------------------------------------
\* An empty table, or one an earlier release left with early-closed swaps.
Init ==
    /\ rows = [h \in Hash |->
                IF h \in LegacyClosed
                THEN [status    |-> "expired",
                      reason    |-> "no_finality_after_expiry",
                      updatedAt |-> Minted[h].instrExp + ExpiryGrace]
                ELSE NoRow]
    /\ fulfilled = [r \in Ref |-> <<>>]
    /\ audited = {}
    /\ clock = StartClock

\* commitAttempt.  now is read before the lock is taken, so it may be any time
\* up to the present: the wait for the lock and hosts running behind.
CommitAttempt(h, now) ==
    /\ CommitAllowed(rows, h, now)
    /\ rows' = WithCommitted(rows, h, Superseded(rows, h, now), now)
    /\ UNCHANGED <<fulfilled, audited, clock>>

\* Mutant: an UPDATE by hash alone.
HasRow(h) == rows[h].status # "absent"

\* The guard of every write that closes or settles an attempt.
Pending(h) == rows[h].status = "pending"

\* Mutant: the UPDATE's parameters are in the wrong order.
WithClosedSwapped(table, h, transition, at) ==
    [table EXCEPT ![h] = [status    |-> transition.reason,
                          reason    |-> transition.status,
                          updatedAt |-> at]]

\* The write of recordReconciliation.
WithClosed(table, h, transition, at) ==
    [table EXCEPT ![h] = [status    |-> transition.status,
                          reason    |-> transition.reason,
                          updatedAt |-> at]]

\* recordReconciliation of the transition reconcileHostPayments decided from a
\* result that was observed at time observedAt.
RecordReconciliation(h, status, state, observedAt) ==
    LET transition ==
            reconciliationTransition(settlementExpiresAt(h), status, state, observedAt)
    IN  /\ transition # NoTransition
        /\ Pending(h)
        /\ rows' = WithClosed(rows, h, transition, observedAt)
        /\ UNCHANGED <<fulfilled, audited, clock>>

\* Mutant: onPaid runs for every payment.
FulfilledEachTime(h, first) ==
    [fulfilled EXCEPT ![Minted[h].ref] = Append(fulfilled[Minted[h].ref], h)]

\* The host's onPaid runs for the first settled attempt of a reference only.
FulfilledBy(h, first) ==
    IF first
    THEN [fulfilled EXCEPT ![Minted[h].ref] = Append(fulfilled[Minted[h].ref], h)]
    ELSE fulfilled

\* markPaidOnce: settle a pending attempt, and for the first settled attempt of
\* its reference run the host's onPaid in the same transaction.
MarkPaidOnce(h, now) ==
    LET first == SettledSiblings(rows, h) = {}
    IN  /\ Pending(h)
        /\ rows' = WithSettled(rows, h, first, now)
        /\ fulfilled' = FulfilledBy(h, first)
        /\ UNCHANGED <<audited, clock>>

\* requeueAttempt: reopen the reviewed version of a row, and audit it.
RequeueAttempt(h, status, updatedAt, now) ==
    /\ RequeueAllowed(rows, audited, h, status, updatedAt)
    /\ rows' = WithRequeued(rows, h, now)
    /\ audited' = audited \cup {<<h, status, updatedAt>>}
    /\ UNCHANGED <<fulfilled, clock>>

Tick ==
    /\ clock < MaxClock
    /\ clock' = clock + 1
    /\ UNCHANGED <<rows, fulfilled, audited>>

Next ==
    \/ \E h \in Hash, now \in 0..clock : CommitAttempt(h, now)
    \/ \E h \in Hash, s \in ScanStatus, state \in TransactionState, at \in 0..clock :
            RecordReconciliation(h, s, state, at)
    \/ \E h \in Hash, now \in 0..clock : MarkPaidOnce(h, now)
    \/ \E h \in Hash, s \in {"expired", "attention"}, u \in 0..clock, now \in 0..clock :
            RequeueAttempt(h, s, u, now)
    \/ Tick

Spec == Init /\ [][Next]_vars

-----------------------------------------------------------------------------
PaidHashes == {h \in Hash : rows[h].status = "settled"}

Promise == INSTANCE SettleOnce
               WITH OrderOf <- [h \in Hash |-> Minted[h].ref],
                    paid <- PaidHashes, served <- fulfilled

\* The ledger implements the abstract promise: commits, closures and repairs are
\* invisible to it, and each settlement is one indivisible first-or-duplicate
\* payment (markPaidOnce against every other operation).
ImplementsSettleOnce == Promise!Spec

TypeOK ==
    /\ rows \in [Hash -> Row]
    /\ fulfilled \in [Ref -> Seq(Hash)]
    /\ audited \subseteq (Hash \X AttemptStatus \X Nat)
    /\ clock \in StartClock..MaxClock

\* An order is fulfilled at most once, whatever number of its invoices is paid
\* and whoever reports the payments, and exactly when a payment of it is
\* recorded; every further payment is kept, marked as a duplicate
\* (markPaidOnce, storage.md "Attempt state machine").
FulfilledOnce ==
    \A r \in Ref :
        LET paid == {h \in HashesOf(r) : rows[h].status = "settled"}
        IN  /\ Len(fulfilled[r]) <= 1
            /\ fulfilled[r] = <<>> <=> paid = {}
            /\ \A h \in paid :
                rows[h].reason = "duplicate_settlement" <=> fulfilled[r] # <<h>>

\* An order offers at most one live attempt per rail (storage.md "Live
\* attempts"), although commits read the clock before they wait for the lock
\* and an operator can reopen closed rows.
OneLiveOffer ==
    \A g, h \in Hash :
        /\ Minted[g].ref = Minted[h].ref
        /\ Minted[g].rail = Minted[h].rail
        /\ isLivePaymentAttempt(rows[g], Minted[g].instrExp, clock)
        /\ isLivePaymentAttempt(rows[h], Minted[h].instrExp, clock)
        => g = h

\* A recorded payment is never undone: no later operation touches a settled row
\* or takes back what onPaid did for its order (recordReconciliation and
\* requeueAttempt racing markPaidOnce).
SettledIsFinal ==
    [][/\ \A h \in Hash : rows[h].status = "settled" => rows'[h] = rows[h]
       /\ \A r \in Ref : fulfilled[r] # <<>> => fulfilled'[r] = fulfilled[r]]_vars
=============================================================================
