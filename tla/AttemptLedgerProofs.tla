------------------------- MODULE AttemptLedgerProofs ------------------------
(***************************************************************************)
(* Theorems about AttemptLedger, for any set of invoices, orders and       *)
(* expiries.  Ledger!Next is handled once, by lemmas that say what a step  *)
(* may do to the table; the invariants only use those.                     *)
(***************************************************************************)
EXTENDS AttemptLedger, TLAPS

USE RulesAssumption, LedgerAssumption

\* A terminal transition names a closed status and one of the listed reasons;
\* attention and the clock reasons need an observation past invoice expiry plus
\* grace (reconciliationTransition).
LEMMA TransitionType ==
    ASSUME NEW inv \in Nat, NEW s \in ScanStatus, NEW st \in TransactionState,
           NEW at \in Nat,
           reconciliationTransition(inv, s, st, at) # NoTransition
    PROVE  LET t == reconciliationTransition(inv, s, st, at)
           IN  /\ t.status \in ClosedStatus
               /\ t.reason \in StatusReason
               /\ t.reason \notin {"superseded", "operator_requeued"}
               /\ t.status = "attention" => at >= inv + ExpiryGrace
  BY SMT DEF reconciliationTransition, NoTransition, ScanStatus, TransactionState,
         ClosedStatus, StatusReason, ClockReason

LEMMA TypeStep == TypeOK /\ [Next]_vars => TypeOK'
<1> SUFFICES ASSUME TypeOK, [Next]_vars
             PROVE  TypeOK'
  OBVIOUS
<1> USE DEF TypeOK, Row, AttemptStatus, ClosedStatus, StatusReason, ClockReason
<1>1. ASSUME NEW h \in Hash, NEW now \in 0..clock, CommitAttempt(h, now)
      PROVE  TypeOK'
  <2> DEFINE old == Superseded(rows, h, now)
  <2>1. now \in Nat
    OBVIOUS
  <2>2. ASSUME NEW g \in Hash
        PROVE  rows'[g] \in Row
    <3>1. rows' = WithCommitted(rows, h, old, now)
      BY <1>1 DEF CommitAttempt
    <3>2. CASE g = h
      BY <3>1, <3>2, <2>1 DEF WithCommitted
    <3>3. CASE g # h /\ g \in old /\ rows[g].status = "pending"
      <4>1. rows'[g] = [rows[g] EXCEPT !.reason = "superseded", !.updatedAt = now]
        BY <3>1, <3>3 DEF WithCommitted
      <4> QED
        BY <4>1, <2>1
    <3>4. CASE g # h /\ ~(g \in old /\ rows[g].status = "pending")
      BY <3>1, <3>4 DEF WithCommitted
    <3> QED
      BY <3>2, <3>3, <3>4
  <2>3. rows' = [g \in Hash |-> rows'[g]]
    BY <1>1 DEF CommitAttempt, WithCommitted
  <2> QED
    BY <1>1, <2>2, <2>3 DEF CommitAttempt
<1>2. ASSUME NEW h \in Hash, NEW s \in ScanStatus, NEW st \in TransactionState,
             NEW at \in 0..clock, RecordReconciliation(h, s, st, at)
      PROVE  TypeOK'
  <2> DEFINE t == reconciliationTransition(Minted[h].invExp, s, st, at)
  <2>1. /\ t.status \in ClosedStatus
        /\ t.reason \in StatusReason
    <3>1. Minted[h].invExp \in Nat /\ at \in Nat
      BY DEF MintedAttempt
    <3>2. t # NoTransition
      BY <1>2 DEF RecordReconciliation, WithClosed, settlementExpiresAt, Pending
    <3> QED
      BY <3>1, <3>2, TransitionType
  <2>2. rows' = [rows EXCEPT ![h] = [status |-> t.status, reason |-> t.reason,
                                     updatedAt |-> at]]
    BY <1>2 DEF RecordReconciliation, WithClosed, settlementExpiresAt, Pending
  <2> QED
    BY <2>1, <2>2, <1>2 DEF RecordReconciliation, WithClosed, settlementExpiresAt, Pending
<1>3. ASSUME NEW h \in Hash, NEW now \in 0..clock, MarkPaidOnce(h, now)
      PROVE  TypeOK'
  <2> DEFINE first == SettledSiblings(rows, h) = {}
  <2>1. rows' \in [Hash -> Row]
    BY <1>3 DEF MarkPaidOnce, WithSettled
  <2>2. fulfilled' = FulfilledBy(h, first)
    BY <1>3 DEF MarkPaidOnce
  <2>3. FulfilledBy(h, first) \in [Ref -> Seq(Hash)]
    <3>1. Minted[h].ref \in Ref
      BY DEF MintedAttempt
    <3>2. Append(fulfilled[Minted[h].ref], h) \in Seq(Hash)
      BY <3>1
    <3> QED
      BY <3>1, <3>2 DEF FulfilledBy
  <2> QED
    BY <2>1, <2>2, <2>3, <1>3 DEF MarkPaidOnce
<1>4. ASSUME NEW h \in Hash, NEW s \in {"expired", "attention"},
             NEW u \in 0..clock, NEW now \in 0..clock,
             RequeueAttempt(h, s, u, now)
      PROVE  TypeOK'
  BY <1>4 DEF RequeueAttempt, WithRequeued
<1>5. CASE Tick
  BY <1>5 DEF Tick
<1>6. CASE UNCHANGED vars
  BY <1>6 DEF vars
<1> QED
  BY <1>1, <1>2, <1>3, <1>4, <1>5, <1>6 DEF Next

\* Every step of the ledger keeps the types of its tables, whatever is called.
THEOREM TypeCorrect == Spec => []TypeOK
<1>1. Init => TypeOK
  BY DEF Init, TypeOK, Row, NoRow, AttemptStatus, ClosedStatus, StatusReason,
         ClockReason, MintedAttempt
<1> QED
  BY <1>1, TypeStep, PTL DEF Spec

-----------------------------------------------------------------------------
(***************************************************************************)
(* A step either records one payment or leaves everything recorded about   *)
(* payments alone.                                                         *)
(***************************************************************************)
PaymentStep == \E h \in Hash, now \in 0..clock : MarkPaidOnce(h, now)

QuietStep ==
    /\ fulfilled' = fulfilled
    /\ \A h \in Hash :
        /\ rows[h].status = "settled" => rows'[h] = rows[h]
        /\ rows'[h].status = "settled" => rows[h].status = "settled"

\* Commits, closures, repairs and the clock neither record nor undo a payment.
LEMMA StepKinds == TypeOK /\ [Next]_vars => PaymentStep \/ QuietStep
<1> SUFFICES ASSUME TypeOK, [Next]_vars
             PROVE  PaymentStep \/ QuietStep
  OBVIOUS
<1> USE DEF TypeOK, QuietStep
<1>1. ASSUME NEW h \in Hash, NEW now \in 0..clock, CommitAttempt(h, now)
      PROVE  QuietStep
  <2> DEFINE old == Superseded(rows, h, now)
  <2>1. rows' = WithCommitted(rows, h, old, now) /\ rows[h].status = "absent"
    BY <1>1 DEF CommitAttempt, CommitAllowed
  <2>2. ASSUME NEW g \in Hash
        PROVE  /\ rows[g].status = "settled" => rows'[g] = rows[g]
               /\ rows'[g].status = "settled" => rows[g].status = "settled"
    <3>1. CASE g = h
      BY <2>1, <3>1 DEF WithCommitted
    <3>2. CASE g # h /\ g \in old /\ rows[g].status = "pending"
      <4>1. rows'[g] = [rows[g] EXCEPT !.reason = "superseded", !.updatedAt = now]
        BY <2>1, <3>2 DEF WithCommitted
      <4> QED
        BY <4>1, <3>2 DEF Row
    <3>3. CASE g # h /\ ~(g \in old /\ rows[g].status = "pending")
      BY <2>1, <3>3 DEF WithCommitted
    <3> QED
      BY <3>1, <3>2, <3>3
  <2> QED
    BY <1>1, <2>2 DEF CommitAttempt
<1>2. ASSUME NEW h \in Hash, NEW s \in ScanStatus, NEW st \in TransactionState,
             NEW at \in 0..clock, RecordReconciliation(h, s, st, at)
      PROVE  QuietStep
  <2> DEFINE t == reconciliationTransition(Minted[h].invExp, s, st, at)
  <2>1. t.status # "settled"
    <3>1. Minted[h].invExp \in Nat /\ at \in Nat
      BY DEF MintedAttempt
    <3>2. t # NoTransition
      BY <1>2 DEF RecordReconciliation, WithClosed, settlementExpiresAt, Pending
    <3>3. t.status \in ClosedStatus
      BY <3>1, <3>2, TransitionType
    <3> QED
      BY <3>3 DEF ClosedStatus
  <2>2. /\ rows[h].status = "pending"
        /\ rows' = [rows EXCEPT ![h] = [status |-> t.status, reason |-> t.reason,
                                        updatedAt |-> at]]
    BY <1>2 DEF RecordReconciliation, WithClosed, settlementExpiresAt, Pending
  <2> QED
    BY <1>2, <2>1, <2>2 DEF RecordReconciliation, WithClosed, settlementExpiresAt, Pending
<1>3. ASSUME NEW h \in Hash, NEW now \in 0..clock, MarkPaidOnce(h, now)
      PROVE  PaymentStep
  BY <1>3 DEF PaymentStep
<1>4. ASSUME NEW h \in Hash, NEW s \in {"expired", "attention"},
             NEW u \in 0..clock, NEW now \in 0..clock,
             RequeueAttempt(h, s, u, now)
      PROVE  QuietStep
  BY <1>4 DEF RequeueAttempt, WithRequeued, RequeueAllowed
<1>5. CASE Tick
  BY <1>5 DEF Tick
<1>6. CASE UNCHANGED vars
  BY <1>6 DEF vars
<1> QED
  BY <1>1, <1>2, <1>3, <1>4, <1>5, <1>6 DEF Next

\* What markPaidOnce does, in the terms of the invariants below.
LEMMA PaymentEffect ==
    ASSUME TypeOK, NEW h \in Hash, NEW now \in 0..clock, MarkPaidOnce(h, now)
    PROVE  LET r == Minted[h].ref
               first == SettledSiblings(rows, h) = {}
           IN  /\ rows[h].status = "pending"
               /\ rows'[h].status = "settled"
               /\ first => rows'[h].reason = "none"
               /\ ~first => rows'[h].reason = "duplicate_settlement"
               /\ \A g \in Hash \ {h} : rows'[g] = rows[g]
               /\ first => fulfilled' = [fulfilled EXCEPT ![r] = Append(@, h)]
               /\ ~first => fulfilled' = fulfilled
  BY DEF MarkPaidOnce, FulfilledBy, Pending, WithSettled, TypeOK

\* FulfilledOnce does not say WHICH invoice an order was fulfilled for, so it
\* is not inductive: a second payment is marked a duplicate correctly only
\* because the first one is still recorded.
ServedIsRecorded ==
    \A r \in Ref :
        fulfilled[r] # <<>> =>
            \E g \in HashesOf(r) : rows[g].status = "settled" /\ fulfilled[r] = <<g>>

FulfilledInv == TypeOK /\ FulfilledOnce /\ ServedIsRecorded

\* The same facts about one order, without the LET of FulfilledOnce.
OrderConsistent(r) ==
    /\ fulfilled[r] = <<>> <=> \A h \in HashesOf(r) : rows[h].status # "settled"
    /\ fulfilled[r] # <<>> =>
            \E g \in HashesOf(r) : rows[g].status = "settled" /\ fulfilled[r] = <<g>>
    /\ \A h \in HashesOf(r) : rows[h].status = "settled" =>
            (rows[h].reason = "duplicate_settlement" <=> fulfilled[r] # <<h>>)

OrdersConsistent == \A r \in Ref : OrderConsistent(r)

LEMMA ConsistentIsFulfilledInv == TypeOK => (FulfilledInv <=> OrdersConsistent)
<1> SUFFICES ASSUME TypeOK
             PROVE  FulfilledInv <=> OrdersConsistent
  OBVIOUS
<1> USE DEF OrdersConsistent
<1>1. ASSUME FulfilledInv, NEW r \in Ref
      PROVE  OrderConsistent(r)
  BY <1>1 DEF FulfilledInv, FulfilledOnce, ServedIsRecorded, OrderConsistent
<1>2. ASSUME \A r \in Ref : OrderConsistent(r)
      PROVE  FulfilledInv
  <2>1. ASSUME NEW r \in Ref
        PROVE  Len(fulfilled[r]) <= 1
    <3>1. CASE fulfilled[r] = <<>>
      BY <3>1
    <3>2. CASE fulfilled[r] # <<>>
      <4>1. PICK g \in HashesOf(r) : fulfilled[r] = <<g>>
        BY <1>2, <3>2 DEF OrderConsistent
      <4> QED
        BY <4>1
    <3> QED
      BY <3>1, <3>2
  <2>2. ServedIsRecorded
    BY <1>2 DEF ServedIsRecorded, OrderConsistent
  <2>3. FulfilledOnce
    BY <1>2, <2>1 DEF FulfilledOnce, OrderConsistent
  <2> QED
    BY <2>2, <2>3 DEF FulfilledInv
<1> QED
  BY <1>1, <1>2

LEMMA FulfilledInvInductive == FulfilledInv /\ TypeOK' /\ [Next]_vars => FulfilledInv'
<1> SUFFICES ASSUME FulfilledInv, TypeOK', [Next]_vars
             PROVE  FulfilledInv'
  OBVIOUS
<1> USE DEF HashesOf
<1>1. TypeOK /\ \A r \in Ref : OrderConsistent(r)
  BY ConsistentIsFulfilledInv DEF FulfilledInv, OrdersConsistent
<1>2. SUFFICES ASSUME NEW r \in Ref
               PROVE  OrderConsistent(r)'
  <2>1. TypeOK' => (FulfilledInv' <=> OrdersConsistent')
    BY ConsistentIsFulfilledInv, PTL
  <2> QED
    BY <2>1 DEF OrdersConsistent
<1>3. CASE QuietStep
  BY <1>1, <1>3 DEF QuietStep, OrderConsistent
<1>4. ASSUME NEW h \in Hash, NEW now \in 0..clock, MarkPaidOnce(h, now)
      PROVE  OrderConsistent(r)'
  <2> DEFINE first == SettledSiblings(rows, h) = {}
  <2>1. /\ rows[h].status = "pending"
        /\ rows'[h].status = "settled"
        /\ first => rows'[h].reason = "none"
        /\ ~first => rows'[h].reason = "duplicate_settlement"
        /\ \A g \in Hash \ {h} : rows'[g] = rows[g]
        /\ first => fulfilled' = [fulfilled EXCEPT ![Minted[h].ref] = Append(@, h)]
        /\ ~first => fulfilled' = fulfilled
    BY <1>1, <1>4, PaymentEffect
  <2>2. Minted[h].ref \in Ref
    BY DEF MintedAttempt
  <2>3. CASE Minted[h].ref # r
    <3>1. fulfilled'[r] = fulfilled[r]
      BY <1>1, <2>1, <2>3, <2>2 DEF TypeOK
    <3>2. h \notin HashesOf(r) /\ \A g \in HashesOf(r) : rows'[g] = rows[g]
      BY <2>1, <2>3
    <3> QED
      BY <1>1, <3>1, <3>2 DEF OrderConsistent
  <2>4. CASE Minted[h].ref = r /\ first
    <3>1. \A g \in HashesOf(r) : rows[g].status # "settled"
      BY <2>4 DEF SettledSiblings, Siblings
    <3>2. fulfilled[r] = <<>>
      BY <1>1, <3>1 DEF OrderConsistent
    <3>3. fulfilled'[r] = <<h>>
      BY <1>1, <2>1, <2>2, <2>4, <3>2 DEF TypeOK
    <3>4. \A g \in HashesOf(r) : rows'[g].status = "settled" => g = h
      BY <2>1, <3>1
    <3>5. h \in HashesOf(r) /\ <<h>> # <<>>
      BY <2>4
    <3> QED
      BY <2>1, <2>4, <3>3, <3>4, <3>5 DEF OrderConsistent
  <2>5. CASE Minted[h].ref = r /\ ~first
    <3>1. fulfilled' = fulfilled
      BY <2>1, <2>5
    <3>2. PICK g \in HashesOf(r) : rows[g].status = "settled"
      BY <2>5 DEF SettledSiblings, Siblings
    <3>3. PICK f \in HashesOf(r) : rows[f].status = "settled" /\ fulfilled[r] = <<f>>
      BY <1>1, <3>2 DEF OrderConsistent
    <3>4. f # h /\ rows'[f] = rows[f]
      BY <2>1, <3>3
    <3>5. <<f>> # <<h>> /\ <<f>> # <<>>
      BY <3>4
    <3>6. \A e \in HashesOf(r) : rows'[e].status = "settled" =>
            (rows'[e].reason = "duplicate_settlement" <=> fulfilled'[r] # <<e>>)
      BY <1>1, <2>1, <2>5, <3>1, <3>3, <3>5 DEF OrderConsistent
    <3> QED
      BY <3>1, <3>3, <3>4, <3>5, <3>6 DEF OrderConsistent
  <2> QED
    BY <2>3, <2>4, <2>5
<1> QED
  BY <1>1, <1>3, <1>4, StepKinds DEF PaymentStep

LEMMA FulfilledInvariant == Spec => []FulfilledInv
<1>1. Init => FulfilledInv
  <2> SUFFICES ASSUME Init
               PROVE  FulfilledInv
    OBVIOUS
  <2>1. TypeOK
    BY DEF Init, TypeOK, Row, NoRow, AttemptStatus, ClosedStatus, StatusReason,
           ClockReason, MintedAttempt
  <2>2. \A h \in Hash : rows[h].status # "settled"
    BY DEF Init, NoRow
  <2>3. OrdersConsistent
    BY <2>2 DEF Init, OrdersConsistent, OrderConsistent, HashesOf
  <2> QED
    BY <2>1, <2>3, ConsistentIsFulfilledInv
<1> QED
  BY <1>1, FulfilledInvInductive, TypeCorrect, PTL DEF Spec

\* The order is fulfilled at most once and exactly for its first recorded
\* payment (markPaidOnce), whatever the number of invoices and orders.
THEOREM FulfilsOnce == Spec => []FulfilledOnce
  BY FulfilledInvariant, PTL DEF FulfilledInv

\* No step touches a settled row, or what onPaid did for its order.
PaymentsKept ==
    /\ \A h \in Hash : rows[h].status = "settled" => rows'[h] = rows[h]
    /\ \A r \in Ref : fulfilled[r] # <<>> => fulfilled'[r] = fulfilled[r]

LEMMA PaymentsKeptStep ==
    ASSUME FulfilledInv, [Next]_vars
    PROVE  PaymentsKept
<1>1. TypeOK /\ \A r \in Ref : OrderConsistent(r)
  BY ConsistentIsFulfilledInv DEF FulfilledInv, OrdersConsistent
<1>2. CASE QuietStep
  BY <1>2 DEF QuietStep, PaymentsKept
<1>3. ASSUME NEW h \in Hash, NEW now \in 0..clock, MarkPaidOnce(h, now)
      PROVE  PaymentsKept
  <2> DEFINE first == SettledSiblings(rows, h) = {}
  <2>1. /\ rows[h].status = "pending"
        /\ \A g \in Hash \ {h} : rows'[g] = rows[g]
        /\ first => fulfilled' = [fulfilled EXCEPT ![Minted[h].ref] = Append(@, h)]
        /\ ~first => fulfilled' = fulfilled
    BY <1>1, <1>3, PaymentEffect
  <2>2. first => fulfilled[Minted[h].ref] = <<>>
    BY <1>1 DEF OrderConsistent, SettledSiblings, Siblings, HashesOf, MintedAttempt
  <2>3. ASSUME NEW r \in Ref, fulfilled[r] # <<>>
        PROVE  fulfilled'[r] = fulfilled[r]
    BY <1>1, <2>1, <2>2, <2>3 DEF TypeOK
  <2> QED
    BY <2>1, <2>3 DEF PaymentsKept
<1> QED
  BY <1>1, <1>2, <1>3, StepKinds DEF PaymentStep

\* A recorded payment is never undone (recordReconciliation and requeueAttempt
\* racing markPaidOnce): the action property of AttemptLedger, for every step.
THEOREM SettledStaysSettled == Spec => SettledIsFinal
<1>1. FulfilledInv /\ [Next]_vars => [PaymentsKept]_vars
  BY PaymentsKeptStep
<1> QED
  BY <1>1, FulfilledInvariant, PTL DEF Spec, SettledIsFinal, PaymentsKept

\* No step deletes a row.
LEMMA RowsStay ==
    ASSUME TypeOK, [Next]_vars, NEW h \in Hash, rows[h].status # "absent"
    PROVE  rows'[h].status # "absent"
<1> USE DEF TypeOK
<1>1. ASSUME NEW g \in Hash, NEW now \in 0..clock, CommitAttempt(g, now)
      PROVE  rows'[h].status # "absent"
  <2> DEFINE old == Superseded(rows, g, now)
  <2>1. rows' = WithCommitted(rows, g, old, now) /\ rows[g].status = "absent"
    BY <1>1 DEF CommitAttempt, CommitAllowed
  <2>2. CASE h \in old /\ rows[h].status = "pending"
    <3>1. rows'[h] = [rows[h] EXCEPT !.reason = "superseded", !.updatedAt = now]
      BY <2>1, <2>2 DEF WithCommitted
    <3> QED
      BY <3>1, <2>2 DEF Row
  <2>3. CASE ~(h \in old /\ rows[h].status = "pending")
    BY <2>1, <2>3 DEF WithCommitted
  <2> QED
    BY <2>2, <2>3
<1>2. ASSUME NEW g \in Hash, NEW s \in ScanStatus, NEW st \in TransactionState,
             NEW at \in 0..clock, RecordReconciliation(g, s, st, at)
      PROVE  rows'[h].status # "absent"
  <2> DEFINE t == reconciliationTransition(Minted[g].invExp, s, st, at)
  <2>1. t.status # "absent"
    <3>1. Minted[g].invExp \in Nat /\ at \in Nat
      BY DEF MintedAttempt
    <3>2. t # NoTransition
      BY <1>2 DEF RecordReconciliation, settlementExpiresAt
    <3>3. t.status \in ClosedStatus
      BY <3>1, <3>2, TransitionType
    <3> QED
      BY <3>3 DEF ClosedStatus
  <2>2. rows' = [rows EXCEPT ![g] = [status |-> t.status, reason |-> t.reason,
                                     updatedAt |-> at]]
    BY <1>2 DEF RecordReconciliation, WithClosed, settlementExpiresAt
  <2> QED
    BY <2>1, <2>2
<1>3. ASSUME NEW g \in Hash, NEW now \in 0..clock, MarkPaidOnce(g, now)
      PROVE  rows'[h].status # "absent"
  BY <1>3, PaymentEffect
<1>4. ASSUME NEW g \in Hash, NEW s \in {"expired", "attention"},
             NEW u \in 0..clock, NEW now \in 0..clock,
             RequeueAttempt(g, s, u, now)
      PROVE  rows'[h].status # "absent"
  BY <1>4 DEF RequeueAttempt, WithRequeued
<1>5. CASE Tick \/ UNCHANGED vars
  BY <1>5 DEF Tick, vars
<1> QED
  BY <1>1, <1>2, <1>3, <1>4, <1>5 DEF Next

-----------------------------------------------------------------------------
(***************************************************************************)
(* One live offer per order and rail.  The danger is the repair: a         *)
(* reopened row could be offered again next to its replacement.  It cannot, *)
(* because a row an operator may reopen was closed after its instructions  *)
(* had run out, which is what ClosedLate remembers.                        *)
(***************************************************************************)
LiveNow(h) == isLivePaymentAttempt(rows[h], Minted[h].instrExp, clock)

ClosedLate ==
    \A h \in Hash :
        /\ rows[h].updatedAt <= clock
        /\ rows[h].status = "attention" => rows[h].updatedAt >= Minted[h].invExp + ExpiryGrace

LiveInv == TypeOK /\ ClosedLate /\ OneLiveOffer

\* A repaired row is never live again.
LEMMA RepairedIsNotLive ==
    ASSUME TypeOK, ClosedLate, NEW h \in Hash,
           repairCandidate(rows[h], IsSwap(h), Minted[h].instrExp, Minted[h].invExp)
    PROVE  Minted[h].instrExp <= clock
<1> USE DEF TypeOK, Row, MintedAttempt
<1>1. /\ rows[h].updatedAt \in Nat
      /\ Minted[h].instrExp \in Nat
      /\ Minted[h].invExp \in Nat
      /\ clock \in Int
  OBVIOUS
<1>2. CASE rows[h].status = "attention"
  <2>1. Minted[h].instrExp <= Minted[h].invExp + ExpiryGrace
    OBVIOUS
  <2> QED
    BY <1>1, <1>2, <2>1 DEF ClosedLate
<1>3. CASE earlySwapClosure(rows[h], IsSwap(h), Minted[h].instrExp, Minted[h].invExp)
  BY <1>1, <1>3 DEF earlySwapClosure, ClosedLate
<1> QED
  BY <1>2, <1>3 DEF repairCandidate

LEMMA ClosedLateStep == TypeOK /\ ClosedLate /\ [Next]_vars => ClosedLate'
<1> SUFFICES ASSUME TypeOK, ClosedLate, [Next]_vars
             PROVE  ClosedLate'
  OBVIOUS
<1> USE DEF TypeOK, ClosedLate
<1>1. ASSUME NEW h \in Hash, NEW now \in 0..clock, CommitAttempt(h, now)
      PROVE  ClosedLate'
  <2> DEFINE old == Superseded(rows, h, now)
  <2>1. rows' = WithCommitted(rows, h, old, now) /\ clock' = clock
    BY <1>1 DEF CommitAttempt
  <2>2. ASSUME NEW g \in Hash
        PROVE  /\ rows'[g].updatedAt <= clock
               /\ rows'[g].status = "attention" =>
                    rows'[g].updatedAt >= Minted[g].invExp + ExpiryGrace
    <3>1. CASE g = h
      <4>1. rows'[g] = [status |-> "pending", reason |-> "none", updatedAt |-> now]
        BY <2>1, <3>1 DEF WithCommitted
      <4>2. now \in Nat /\ now <= clock
        BY LedgerAssumption
      <4> QED
        BY <4>1, <4>2
    <3>2. CASE g # h /\ g \in old /\ rows[g].status = "pending"
      <4>1. rows'[g] = [rows[g] EXCEPT !.reason = "superseded", !.updatedAt = now]
        BY <2>1, <3>2 DEF WithCommitted
      <4> QED
        BY <4>1, <3>2 DEF Row
    <3>3. CASE g # h /\ ~(g \in old /\ rows[g].status = "pending")
      BY <2>1, <3>3 DEF WithCommitted
    <3> QED
      BY <3>1, <3>2, <3>3
  <2> QED
    BY <2>1, <2>2
<1>2. ASSUME NEW h \in Hash, NEW s \in ScanStatus, NEW st \in TransactionState,
             NEW at \in 0..clock, RecordReconciliation(h, s, st, at)
      PROVE  ClosedLate'
  <2> DEFINE t == reconciliationTransition(Minted[h].invExp, s, st, at)
  <2>1. t.status = "attention" => at >= Minted[h].invExp + ExpiryGrace
    <3>1. Minted[h].invExp \in Nat /\ at \in Nat
      BY DEF MintedAttempt
    <3>2. t # NoTransition
      BY <1>2 DEF RecordReconciliation, WithClosed, settlementExpiresAt, Pending
    <3> QED
      BY <3>1, <3>2, TransitionType
  <2>2. /\ rows' = [rows EXCEPT ![h] = [status |-> t.status, reason |-> t.reason,
                                        updatedAt |-> at]]
        /\ clock' = clock
    BY <1>2 DEF RecordReconciliation, WithClosed, settlementExpiresAt, Pending
  <2> QED
    BY <2>1, <2>2
<1>3. ASSUME NEW h \in Hash, NEW now \in 0..clock, MarkPaidOnce(h, now)
      PROVE  ClosedLate'
  BY <1>3 DEF MarkPaidOnce, FulfilledBy, Pending, WithSettled
<1>4. ASSUME NEW h \in Hash, NEW s \in {"expired", "attention"},
             NEW u \in 0..clock, NEW now \in 0..clock,
             RequeueAttempt(h, s, u, now)
      PROVE  ClosedLate'
  BY <1>4 DEF RequeueAttempt, WithRequeued
<1>5. CASE Tick
  <2>1. rows' = rows /\ clock' = clock + 1
    BY <1>5 DEF Tick
  <2> QED
    BY <2>1 DEF Row
<1>6. CASE UNCHANGED vars
  BY <1>6 DEF vars
<1> QED
  BY <1>1, <1>2, <1>3, <1>4, <1>5, <1>6 DEF Next

\* Only a commit makes an attempt live, and then only the one it inserts.
LEMMA LiveSteps ==
    ASSUME TypeOK, ClosedLate, [Next]_vars
    PROVE  \/ \A g \in Hash : LiveNow(g)' => LiveNow(g)
           \/ \E h \in Hash, now \in 0..clock : CommitAttempt(h, now)
<1> USE DEF TypeOK, LiveNow, isLivePaymentAttempt
<1>1. ASSUME NEW h \in Hash, NEW s \in ScanStatus, NEW st \in TransactionState,
             NEW at \in 0..clock, RecordReconciliation(h, s, st, at)
      PROVE  \A g \in Hash : LiveNow(g)' => LiveNow(g)
  <2> DEFINE t == reconciliationTransition(Minted[h].invExp, s, st, at)
  <2>1. t.status # "pending"
    <3>1. Minted[h].invExp \in Nat /\ at \in Nat
      BY DEF MintedAttempt
    <3>2. t # NoTransition
      BY <1>1 DEF RecordReconciliation, WithClosed, settlementExpiresAt, Pending
    <3> QED
      BY <3>1, <3>2, TransitionType DEF ClosedStatus
  <2>2. /\ rows' = [rows EXCEPT ![h] = [status |-> t.status, reason |-> t.reason,
                                        updatedAt |-> at]]
        /\ clock' = clock
    BY <1>1 DEF RecordReconciliation, WithClosed, settlementExpiresAt, Pending
  <2> QED
    BY <2>1, <2>2
<1>2. ASSUME NEW h \in Hash, NEW now \in 0..clock, MarkPaidOnce(h, now)
      PROVE  \A g \in Hash : LiveNow(g)' => LiveNow(g)
  BY <1>2 DEF MarkPaidOnce, FulfilledBy, Pending, WithSettled
<1>3. ASSUME NEW h \in Hash, NEW s \in {"expired", "attention"},
             NEW u \in 0..clock, NEW now \in 0..clock,
             RequeueAttempt(h, s, u, now)
      PROVE  \A g \in Hash : LiveNow(g)' => LiveNow(g)
  <2>1. Minted[h].instrExp <= clock
    BY <1>3, RepairedIsNotLive DEF RequeueAttempt, RequeueAllowed
  <2>2. /\ clock' = clock
        /\ \A g \in Hash \ {h} : rows'[g] = rows[g]
    BY <1>3 DEF RequeueAttempt, WithRequeued
  <2>3. Minted[h].instrExp \in Nat /\ clock \in Int
    BY DEF MintedAttempt
  <2>4. ~LiveNow(h)'
    BY <2>1, <2>2, <2>3
  <2>5. ASSUME NEW g \in Hash, g # h
        PROVE  LiveNow(g)' => LiveNow(g)
    BY <2>2, <2>5
  <2> QED
    BY <2>4, <2>5
<1>4. CASE Tick
  <2>1. rows' = rows /\ clock' = clock + 1
    BY <1>4 DEF Tick
  <2>2. \A g \in Hash : Minted[g].instrExp \in Nat
    BY DEF MintedAttempt
  <2> QED
    BY <2>1, <2>2
<1>5. CASE UNCHANGED vars
  BY <1>5 DEF vars
<1> QED
  BY <1>1, <1>2, <1>3, <1>4, <1>5 DEF Next

\* A commit leaves no other live attempt on its rail.
LEMMA CommitLeavesOne ==
    ASSUME TypeOK, NEW h \in Hash, NEW now \in 0..clock, CommitAttempt(h, now),
           NEW g \in Hash, g # h
    PROVE  /\ LiveNow(g)' => LiveNow(g)
           /\ LiveNow(g)' => Minted[g].ref # Minted[h].ref \/ Minted[g].rail # Minted[h].rail
<1> DEFINE old == Superseded(rows, h, now)
<1> USE DEF TypeOK
<1>1. /\ rows' = WithCommitted(rows, h, old, now)
      /\ clock' = clock
      /\ \A f \in LiveSiblings(rows, h, now) : Decision(f, h, now) # "conflict"
  BY DEF CommitAttempt, CommitAllowed
<1>2. /\ rows'[g].reason = "superseded"
      \/ rows'[g] = rows[g]
  <2>1. CASE g \in old /\ rows[g].status = "pending"
    <3>1. rows'[g] = [rows[g] EXCEPT !.reason = "superseded", !.updatedAt = now]
      BY <1>1, <2>1 DEF WithCommitted
    <3> QED
      BY <3>1 DEF Row
  <2>2. CASE ~(g \in old /\ rows[g].status = "pending")
    BY <1>1, <2>2 DEF WithCommitted
  <2> QED
    BY <2>1, <2>2
<1>3. LiveNow(g)' => LiveNow(g)
  BY <1>1, <1>2 DEF LiveNow, isLivePaymentAttempt
<1>4. ASSUME LiveNow(g)', Minted[g].ref = Minted[h].ref, Minted[g].rail = Minted[h].rail
      PROVE  FALSE
  <2>1. rows[g].status = "pending" /\ rows[g].reason # "superseded" /\ rows'[g] = rows[g]
    BY <1>2, <1>4, <1>3 DEF LiveNow, isLivePaymentAttempt
  <2>2. Minted[g].instrExp > now
    <3>1. Minted[g].instrExp > clock
      BY <1>1, <1>4 DEF LiveNow, isLivePaymentAttempt
    <3>2. Minted[g].instrExp \in Nat /\ now \in Nat /\ clock \in Int /\ now <= clock
      BY DEF MintedAttempt
    <3> QED
      BY <3>1, <3>2
  <2>3. g \in LiveSiblings(rows, h, now)
    BY <1>4, <2>1, <2>2 DEF LiveSiblings, Siblings, HashesOf, isLivePaymentAttempt
  <2>4. Decision(g, h, now) = "supersede"
    BY <1>1, <1>4, <2>3 DEF Decision, liveAttemptCommitDecision
  <2>5. g \in old
    BY <2>3, <2>4 DEF Superseded
  <2>6. rows'[g] = [rows[g] EXCEPT !.reason = "superseded", !.updatedAt = now]
    BY <1>1, <2>1, <2>5 DEF WithCommitted
  <2> QED
    BY <2>1, <2>6 DEF Row
<1> QED
  BY <1>3, <1>4

LEMMA LiveInit == Init => LiveInv
<1> SUFFICES ASSUME Init
             PROVE  LiveInv
  OBVIOUS
<1>1. TypeOK
  BY DEF Init, TypeOK, Row, NoRow, AttemptStatus, ClosedStatus, StatusReason,
         ClockReason, MintedAttempt
<1>2. \A h \in Hash : rows[h].status \in {"expired", "absent"}
  BY DEF Init, NoRow
<1>3. \A h \in Hash : rows[h].updatedAt <= clock
  BY DEF Init, NoRow, MintedAttempt
<1> QED
  BY <1>1, <1>2, <1>3 DEF LiveInv, ClosedLate, OneLiveOffer, isLivePaymentAttempt

\* One live attempt per order and rail (commitAttempt's conflict and supersede,
\* requeueAttempt's candidates), for any invoices and any lag of the clocks
\* commits read.
THEOREM OffersOneAttempt == Spec => []OneLiveOffer
<1>1. Init => LiveInv
  BY LiveInit
<1>2. LiveInv /\ TypeOK' /\ [Next]_vars => LiveInv'
  <2> SUFFICES ASSUME LiveInv, TypeOK', [Next]_vars
               PROVE  LiveInv'
    OBVIOUS
  <2>1. TypeOK /\ ClosedLate
    BY DEF LiveInv
  <2>2. ClosedLate'
    BY <2>1, ClosedLateStep
  <2>3. \A g, h \in Hash :
            /\ Minted[g].ref = Minted[h].ref
            /\ Minted[g].rail = Minted[h].rail
            /\ LiveNow(g) /\ LiveNow(h)
            => g = h
    BY DEF LiveInv, OneLiveOffer, LiveNow
  <2>4. ASSUME NEW f \in Hash, NEW g \in Hash,
               Minted[f].ref = Minted[g].ref, Minted[f].rail = Minted[g].rail,
               LiveNow(f)', LiveNow(g)'
        PROVE  f = g
    <3>1. CASE \A h \in Hash : LiveNow(h)' => LiveNow(h)
      BY <2>3, <2>4, <3>1
    <3>2. ASSUME NEW h \in Hash, NEW now \in 0..clock, CommitAttempt(h, now)
          PROVE  f = g
      <4>1. f # h => LiveNow(f) /\ (Minted[f].ref # Minted[h].ref \/ Minted[f].rail # Minted[h].rail)
        BY <2>1, <2>4, <3>2, CommitLeavesOne
      <4>2. g # h => LiveNow(g) /\ (Minted[g].ref # Minted[h].ref \/ Minted[g].rail # Minted[h].rail)
        BY <2>1, <2>4, <3>2, CommitLeavesOne
      <4> QED
        BY <2>3, <2>4, <4>1, <4>2
    <3> QED
      BY <2>1, <3>1, <3>2, LiveSteps
  <2>5. OneLiveOffer'
    BY <2>4 DEF OneLiveOffer, LiveNow
  <2> QED
    BY <2>2, <2>5 DEF LiveInv
<1>3. LiveInv => OneLiveOffer
  BY DEF LiveInv
<1> QED
  BY <1>1, <1>2, <1>3, TypeCorrect, PTL DEF Spec

-----------------------------------------------------------------------------
\* The ledger implements SettleOnce: a step that settles a row (markPaidOnce) is
\* one RecordPayment, every other operation of the repository is invisible.
THEOREM RefinesSettleOnce == Spec => ImplementsSettleOnce
<1>1. Init => Promise!Init
  <2> SUFFICES ASSUME Init
               PROVE  Promise!Init
    OBVIOUS
  <2>1. PaidHashes = {}
    BY DEF Init, NoRow, PaidHashes
  <2> QED
    BY <2>1 DEF Init, Promise!Init
<1>2. FulfilledInv /\ [Next]_vars => [Promise!Next]_(Promise!vars)
  <2> SUFFICES ASSUME FulfilledInv, [Next]_vars
               PROVE  [Promise!Next]_(Promise!vars)
    OBVIOUS
  <2>1. TypeOK
    BY DEF FulfilledInv
  <2>2. ASSUME QuietStep
        PROVE  UNCHANGED Promise!vars
    <3>1. \A h \in Hash : rows'[h].status = "settled" <=> rows[h].status = "settled"
      BY <2>2 DEF QuietStep
    <3>2. PaidHashes' = PaidHashes
      BY <3>1 DEF PaidHashes
    <3>3. fulfilled' = fulfilled
      BY <2>2 DEF QuietStep
    <3> QED
      BY <3>2, <3>3 DEF Promise!vars
  <2>3. ASSUME NEW h \in Hash, NEW now \in 0..clock, MarkPaidOnce(h, now)
        PROVE  Promise!Next
    <3> DEFINE r == Minted[h].ref
               first == SettledSiblings(rows, h) = {}
    <3>1. /\ rows[h].status = "pending"
          /\ rows'[h].status = "settled"
          /\ \A g \in Hash \ {h} : rows'[g] = rows[g]
          /\ first => fulfilled' = [fulfilled EXCEPT ![r] = Append(@, h)]
          /\ ~first => fulfilled' = fulfilled
      BY <2>1, <2>3, PaymentEffect
    <3>2. h \notin PaidHashes /\ PaidHashes' = PaidHashes \cup {h}
      BY <3>1 DEF PaidHashes
    <3>3. first <=> \A g \in PaidHashes : Minted[g].ref # r
      BY DEF PaidHashes, SettledSiblings, Siblings, HashesOf
    <3>4. r \in Ref
      BY DEF MintedAttempt
    <3>5. first => fulfilled' = [fulfilled EXCEPT ![r] = <<h>>]
      <4>1. first => \A g \in HashesOf(r) : rows[g].status # "settled"
        BY DEF SettledSiblings, Siblings
      <4>2. OrderConsistent(r)
        BY <2>1, <3>4, ConsistentIsFulfilledInv DEF FulfilledInv, OrdersConsistent
      <4>3. first => fulfilled[r] = <<>>
        BY <4>1, <4>2 DEF OrderConsistent
      <4> QED
        BY <3>1, <4>3
    <3>6. Promise!RecordPayment(h)
      <4> DEFINE order == [g \in Hash |-> Minted[g].ref]
      <4>1. order[h] = r /\ \A g \in PaidHashes : order[g] = Minted[g].ref
        BY DEF PaidHashes
      <4>2. first <=> \A g \in PaidHashes : order[g] # order[h]
        BY <3>3, <4>1
      <4> QED
        BY <3>1, <3>2, <3>5, <4>1, <4>2 DEF Promise!RecordPayment
    <3> QED
      BY <3>6 DEF Promise!Next
  <2> QED
    BY <2>1, <2>2, <2>3, StepKinds DEF PaymentStep
<1> QED
  BY <1>1, <1>2, FulfilledInvariant, PTL DEF Spec, ImplementsSettleOnce, Promise!Spec
=============================================================================
