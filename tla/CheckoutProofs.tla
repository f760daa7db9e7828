--------------------------- MODULE CheckoutProofs ---------------------------
(***************************************************************************)
(* Theorems about a checkout, on the server and in the payer's browser.    *)
(*                                                                         *)
(* CheckoutFlow, for any number of orders, requests and passes: everything *)
(* rests on one fact that clocks and late deliveries cannot undo: an       *)
(* invoice no payment can reach stays so (Unpayable), and whatever a pass  *)
(* has seen that lets it close an attempt implies it.                      *)
(*                                                                         *)
(* CheckoutWatcher and ElementCheckout, which share no state with it or    *)
(* with each other: what is current was asked for by the screen that is    *)
(* shown, and there is at most one such thing of each kind.                *)
(***************************************************************************)
EXTENDS CheckoutFlow, CheckoutWatcher, ElementCheckout, AttemptLedgerProofs

USE RulesAssumption, LedgerAssumption, FlowAssumption

\* No payment has reached h, and none can: its time is over in the wallet, its
\* payment failed, or it was never minted and it is too late to mint it.
Unpayable(h) ==
    /\ wallet[h] \in {"none", "open", "failed"}
    /\ \/ wallet[h] = "failed"
       \/ clock >= Minted[h].invExp + WalletLag
       \/ wallet[h] = "none" /\ clock >= Minted[h].instrExp

\* What a pass found for h at a walk that started at startedAt.
ResultHolds(h, result, startedAt) ==
    /\ result \in Verdict \X TransactionState
    /\ result[1] = "settled" => wallet[h] = "settled"
    /\ result[1] \in {"expired", "failed"} => Unpayable(h)
    /\ /\ result[1] \in {"not_found", "pending"}
       /\ result[1] = "not_found" \/ result[2] = "none"
       /\ startedAt >= Minted[h].invExp + ExpiryGrace
       => Unpayable(h)

Results == UNION {[D -> Verdict \X TransactionState] : D \in SUBSET Hash}

PassType == {IdlePass} \cup [pc : {"scan"}, startedAt : Nat, results : Results]

RequestType ==
    {IdleRequest} \cup [pc : {"mint"}, ref : Ref, rail : Rail]
    \cup [pc : {"persist", "respond"}, h : Hash]

FlowTypes ==
    /\ TypeOK
    /\ wallet \in [Hash -> WalletState]
    /\ exposed \subseteq Hash
    /\ request \in [Request -> RequestType]
    /\ pass \in [Pass -> PassType]

PassHolds(p) ==
    pass[p].pc = "scan" =>
        /\ pass[p].startedAt <= clock
        /\ \A h \in DOMAIN pass[p].results :
            ResultHolds(h, pass[p].results[h], pass[p].startedAt)

\* Shown, or about to be, or paid: there is a row.
RowIsThere ==
    /\ \A h \in exposed : rows[h].status # "absent"
    /\ \A q \in Request : request[q].pc = "respond" => rows[request[q].h].status # "absent"
    /\ \A h \in Hash : wallet[h] \in {"held", "settled"} => rows[h].status # "absent"

ClosedIsUnpayable == \A h \in Hash : rows[h].status \in {"expired", "failed"} => Unpayable(h)

ServedIsPaid == \A r \in Ref : \A i \in DOMAIN fulfilled[r] : wallet[fulfilled[r][i]] = "settled"

FlowInv ==
    /\ FlowTypes
    /\ ClosedLate
    /\ \A p \in Pass : PassHolds(p)
    /\ RowIsThere
    /\ ClosedIsUnpayable
    /\ ServedIsPaid

-----------------------------------------------------------------------------
(***************************************************************************)
(* Operations of the ledger, by what they do to the status of a row.       *)
(***************************************************************************)
LEMMA CommitStatus ==
    ASSUME TypeOK, NEW h \in Hash, NEW now \in 0..clock, CommitAttempt(h, now), NEW g \in Hash
    PROVE  rows'[g].status = IF g = h THEN "pending" ELSE rows[g].status
<1> DEFINE old == Superseded(rows, h, now)
<1>1. rows' = WithCommitted(rows, h, old, now)
  BY DEF CommitAttempt
<1>2. CASE g # h /\ g \in old /\ rows[g].status = "pending"
  <2>1. rows'[g] = [rows[g] EXCEPT !.reason = "superseded", !.updatedAt = now]
    BY <1>1, <1>2 DEF WithCommitted
  <2> QED
    BY <1>2, <2>1 DEF TypeOK, Row
<1>3. CASE g = h \/ ~(g \in old /\ rows[g].status = "pending")
  BY <1>1, <1>3 DEF WithCommitted
<1> QED
  BY <1>2, <1>3

LEMMA CloseStatus ==
    ASSUME TypeOK, NEW h \in Hash, NEW s \in ScanStatus, NEW st \in TransactionState,
           NEW at, RecordReconciliation(h, s, st, at), NEW g \in Hash
    PROVE  rows'[g].status = IF g = h
                THEN reconciliationTransition(settlementExpiresAt(h), s, st, at).status
                ELSE rows[g].status
  BY DEF RecordReconciliation, WithClosed, TypeOK

LEMMA RequeueStatus ==
    ASSUME TypeOK, NEW h \in Hash, NEW s, NEW u, NEW now, RequeueAttempt(h, s, u, now),
           NEW g \in Hash
    PROVE  rows'[g].status = IF g = h THEN "pending" ELSE rows[g].status
  BY DEF RequeueAttempt, WithRequeued, TypeOK

-----------------------------------------------------------------------------
\* Only minting and the payer touch the wallet, and only the clock the clock.
LEMMA WalletSteps ==
    ASSUME FlowTypes, [FlowNext]_flowVars
    PROVE  /\ clock \in Nat /\ clock' \in Nat /\ clock <= clock'
           /\ \/ wallet' = wallet
              \/ /\ UNCHANGED vars
                 /\ \/ \E q \in Request : Mint(q)
                    \/ \E h \in Hash : Pay(h) \/ EndHold(h)
<1>0. clock \in Nat
  BY DEF FlowTypes, TypeOK
<1> USE DEF vars
<1>1. CASE UNCHANGED flowVars
  BY <1>0, <1>1 DEF flowVars
<1>2. CASE \E r \in Ref, rail \in Rail : Reserve(r, rail)
  BY <1>0, <1>2 DEF Reserve
<1>3. ASSUME NEW q \in Request,
             \/ \E r \in Ref, rail \in Rail : Resolve(q, r, rail)
             \/ Respond(q)
             \/ AbandonRequest(q)
      PROVE  wallet' = wallet /\ clock' = clock
  BY <1>3 DEF Resolve, Respond, AbandonRequest
<1>4. ASSUME NEW q \in Request, Persist(q)
      PROVE  wallet' = wallet /\ clock' = clock
  BY <1>4 DEF Persist, CommitAttempt
<1>5. ASSUME NEW q \in Request, Mint(q)
      PROVE  UNCHANGED vars
  BY <1>5 DEF Mint
<1>6. ASSUME NEW h \in Hash, Pay(h) \/ EndHold(h)
      PROVE  UNCHANGED vars
  BY <1>6 DEF Pay, EndHold
<1>7. ASSUME NEW h \in Hash, Notify(h) \/ Requeue(h)
      PROVE  wallet' = wallet /\ clock' = clock
  BY <1>7 DEF Notify, Requeue, MarkPaidOnce, RequeueAttempt
<1>8. ASSUME NEW p \in Pass, StartPass(p) \/ AbandonPass(p) \/ \E h \in Hash : Observe(p, h)
      PROVE  wallet' = wallet /\ clock' = clock
  BY <1>8 DEF StartPass, AbandonPass, Observe
<1>9. ASSUME NEW p \in Pass, NEW h \in Hash, Deliver(p, h)
      PROVE  wallet' = wallet /\ clock' = clock
  BY <1>9 DEF Deliver, MarkPaidOnce, RecordReconciliation
<1>10. CASE FlowTick
  BY <1>0, <1>10 DEF FlowTick, Tick
<1> QED
  BY <1>0, <1>1, <1>2, <1>3, <1>4, <1>5, <1>6, <1>7, <1>8, <1>9, <1>10 DEF FlowNext

\* A payment that arrived stays; one that cannot arrive does not.
LEMMA SettledStays ==
    ASSUME FlowTypes, [FlowNext]_flowVars, NEW h \in Hash, wallet[h] = "settled"
    PROVE  wallet'[h] = "settled"
<1>1. ASSUME NEW q \in Request, Mint(q)
      PROVE  wallet'[h] = "settled"
  BY <1>1 DEF Mint, FlowTypes, HashesOf
<1>2. ASSUME NEW g \in Hash, Pay(g) \/ EndHold(g)
      PROVE  wallet'[h] = "settled"
  BY <1>2 DEF Pay, EndHold, FlowTypes
<1> QED
  BY <1>1, <1>2, WalletSteps

LEMMA UnpayableStays ==
    ASSUME FlowTypes, [FlowNext]_flowVars, NEW h \in Hash, Unpayable(h)
    PROVE  Unpayable(h)'
<1>1. /\ Minted[h].invExp \in Nat /\ Minted[h].instrExp \in Nat /\ WalletLag \in Nat
      /\ clock \in Nat /\ clock' \in Nat /\ clock <= clock'
  BY WalletSteps DEF MintedAttempt
<1>2. CASE wallet' = wallet
  BY <1>1, <1>2 DEF Unpayable
<1>3. ASSUME NEW q \in Request, Mint(q), UNCHANGED vars
      PROVE  Unpayable(h)'
  <2>1. PICK g \in Hash : /\ wallet[g] = "none" /\ clock < Minted[g].instrExp
                          /\ wallet' = [wallet EXCEPT ![g] = "open"]
    BY <1>3 DEF Mint, HashesOf
  <2> QED
    BY <1>1, <1>3, <2>1 DEF Unpayable, FlowTypes, vars
<1>4. ASSUME NEW g \in Hash, Pay(g) \/ EndHold(g), UNCHANGED vars
      PROVE  Unpayable(h)'
  <2>1. g # h
    BY <1>1, <1>4 DEF Pay, EndHold, Unpayable
  <2>2. wallet'[h] = wallet[h] /\ clock' = clock
    BY <1>4, <2>1 DEF Pay, EndHold, FlowTypes, vars
  <2> QED
    BY <2>2 DEF Unpayable
<1> QED
  BY <1>2, <1>3, <1>4, WalletSteps

-----------------------------------------------------------------------------
(***************************************************************************)
(* Passes.                                                                 *)
(***************************************************************************)
LEMMA ResultsAre ==
    ASSUME NEW f \in Results
    PROVE  /\ DOMAIN f \subseteq Hash
           /\ f = [h \in DOMAIN f |-> f[h]]
           /\ \A h \in DOMAIN f : f[h] \in Verdict \X TransactionState
  BY DEF Results

LEMMA AreResults ==
    ASSUME NEW D \in SUBSET Hash, NEW f \in [D -> Verdict \X TransactionState]
    PROVE  f \in Results
  BY DEF Results

\* A pass under way.
LEMMA ScanningPass ==
    ASSUME FlowTypes, NEW p \in Pass, pass[p].pc = "scan"
    PROVE  pass[p] \in [pc : {"scan"}, startedAt : Nat, results : Results]
  BY DEF FlowTypes, PassType, IdlePass

LEMMA IdlePassHolds ==
    ASSUME NEW p, pass'[p] = IdlePass
    PROVE  PassHolds(p)'
  BY DEF IdlePass, PassHolds

\* What a pass believes survives every step that leaves its results.
LEMMA ResultStays ==
    ASSUME FlowTypes, [FlowNext]_flowVars, NEW h \in Hash, NEW result, NEW startedAt,
           ResultHolds(h, result, startedAt)
    PROVE  ResultHolds(h, result, startedAt)'
  BY SettledStays, UnpayableStays DEF ResultHolds

LEMMA PassStays ==
    ASSUME FlowTypes, [FlowNext]_flowVars, NEW p \in Pass, PassHolds(p),
           pass'[p] = pass[p]
    PROVE  PassHolds(p)'
<1> SUFFICES ASSUME pass[p].pc = "scan"
             PROVE  PassHolds(p)'
  BY DEF PassHolds
<1>1. pass[p].startedAt \in Nat /\ DOMAIN pass[p].results \subseteq Hash
  BY ScanningPass, ResultsAre
<1>2. pass[p].startedAt <= clock'
  BY <1>1, WalletSteps DEF PassHolds
<1>3. \A h \in DOMAIN pass[p].results :
        ResultHolds(h, pass[p].results[h], pass[p].startedAt)'
  BY <1>1, ResultStays DEF PassHolds
<1> QED
  BY <1>2, <1>3 DEF PassHolds

\* The walk records what the wallet says now.
LEMMA ReportHolds ==
    ASSUME FlowTypes, NEW h \in Hash, NEW report \in Reports(h),
           NEW startedAt \in Nat, startedAt <= clock
    PROVE  ResultHolds(h, report, startedAt)
<1>1. /\ Minted[h].invExp \in Nat /\ WalletLag \in Nat /\ WalletLag <= ExpiryGrace
      /\ ExpiryGrace \in Nat /\ clock \in Nat
  BY DEF MintedAttempt, FlowTypes, TypeOK
<1>2. startedAt >= Minted[h].invExp + ExpiryGrace => clock >= Minted[h].invExp + WalletLag
  BY <1>1
<1>3. wallet[h] \in WalletState
  BY DEF FlowTypes
<1> USE DEF Reports, Verdict, ScanStatus, TransactionState
<1>4. CASE wallet[h] = "settled"
  BY <1>4 DEF ResultHolds
<1>5. CASE wallet[h] = "failed"
  BY <1>5 DEF ResultHolds, Unpayable
<1>6. CASE wallet[h] = "held"
  BY <1>6 DEF ResultHolds
<1>7. CASE wallet[h] \in {"none", "open"}
  <2>1. \/ report = <<"not_found", "none">>
        \/ report = <<"pending", "none">>
        \/ report = <<"pending", "pending">>
        \/ report = <<"expired", "none">> /\ clock >= Minted[h].invExp + WalletLag
    BY <1>7
  <2> QED
    BY <1>2, <1>7, <2>1 DEF ResultHolds, Unpayable
<1> QED
  BY <1>3, <1>4, <1>5, <1>6, <1>7 DEF WalletState

LEMMA StartPassEffect ==
    ASSUME FlowTypes, NEW p \in Pass, StartPass(p)
    PROVE  pass' \in [Pass -> PassType] /\ PassHolds(p)'
<1> DEFINE results == [h \in Reconcilable |-> <<"unseen", "none">>]
           started == [pc |-> "scan", startedAt |-> clock, results |-> results]
<1>1. pass' = [pass EXCEPT ![p] = started]
  BY DEF StartPass
<1>2. Reconcilable \in SUBSET Hash
  BY DEF Reconcilable
<1>3. <<"unseen", "none">> \in Verdict \X TransactionState
  BY DEF Verdict, TransactionState
<1>4. results \in Results
  BY <1>2, <1>3, AreResults
<1>5. clock \in Nat /\ clock' = clock
  BY DEF FlowTypes, TypeOK, StartPass, vars
<1>6. started \in PassType
  BY <1>4, <1>5 DEF PassType
<1>7. pass'[p] = started
  BY <1>1 DEF FlowTypes
<1>8. PassHolds(p)'
  <2>1. \A h \in Reconcilable : ResultHolds(h, <<"unseen", "none">>, clock)'
    BY <1>3 DEF ResultHolds
  <2> QED
    BY <1>5, <1>7, <2>1 DEF PassHolds
<1> QED
  BY <1>1, <1>6, <1>8 DEF FlowTypes

LEMMA ObserveEffect ==
    ASSUME FlowTypes, NEW p \in Pass, PassHolds(p), NEW h \in Hash, Observe(p, h)
    PROVE  pass' \in [Pass -> PassType] /\ PassHolds(p)'
<1> DEFINE results == pass[p].results
<1>1. PICK report \in Reports(h) : pass' = [pass EXCEPT ![p].results[h] = report]
  BY DEF Observe
<1>2. /\ pass[p].pc = "scan" /\ h \in DOMAIN results
      /\ pass[p] \in [pc : {"scan"}, startedAt : Nat, results : Results]
      /\ pass[p].startedAt <= clock
  BY ScanningPass DEF Observe, PassHolds
<1>3. /\ DOMAIN results \subseteq Hash
      /\ \A g \in DOMAIN results : results[g] \in Verdict \X TransactionState
  BY <1>2, ResultsAre
<1>4. ResultHolds(h, report, pass[p].startedAt)
  BY <1>2, ReportHolds
<1> DEFINE seen == [results EXCEPT ![h] = report]
           next == [pass[p] EXCEPT !.results = seen]
<1>5. seen \in [DOMAIN results -> Verdict \X TransactionState]
  BY <1>2, <1>3, <1>4, ResultsAre DEF ResultHolds
<1>6. seen \in Results
  BY <1>3, <1>5, AreResults
<1>7. pass'[p] = next /\ pass' = [pass EXCEPT ![p] = next]
  BY <1>1 DEF FlowTypes
<1> HIDE DEF seen
<1>8. /\ next \in [pc : {"scan"}, startedAt : Nat, results : Results]
      /\ next.startedAt = pass[p].startedAt /\ next.results = seen
  BY <1>2, <1>6
<1>9. PICK f, at : f = seen /\ at = pass[p].startedAt
  OBVIOUS
<1>10. wallet' = wallet /\ clock' = clock
  BY DEF Observe, vars
<1>11. \A g \in DOMAIN f : ResultHolds(g, f[g], at)
  BY <1>2, <1>4, <1>9 DEF seen, PassHolds
<1>12. \A g \in DOMAIN f : ResultHolds(g, f[g], at)'
  BY <1>10, <1>11 DEF ResultHolds, Unpayable
<1>13. pass'[p].startedAt = at /\ pass'[p].results = f
  BY <1>7, <1>8, <1>9
<1>14. PassHolds(p)'
  BY <1>2, <1>9, <1>10, <1>12, <1>13 DEF PassHolds
<1> HIDE DEF next
<1> QED
  BY <1>7, <1>8, <1>14 DEF FlowTypes, PassType

LEMMA DeliveredEffect ==
    ASSUME FlowTypes, [FlowNext]_flowVars, NEW p \in Pass, PassHolds(p), NEW h \in Hash,
           pass[p].pc = "scan", Delivered(p, h)
    PROVE  pass' \in [Pass -> PassType] /\ PassHolds(p)'
<1> DEFINE left == DOMAIN pass[p].results \ {h}
           results == [g \in left |-> pass[p].results[g]]
           next == [pass[p] EXCEPT !.results = results]
<1>1. CASE left = {}
  <2>1. pass' = [pass EXCEPT ![p] = IdlePass]
    BY <1>1 DEF Delivered
  <2> QED
    BY <2>1, IdlePassHolds DEF FlowTypes, PassType
<1>2. CASE left # {}
  <2>1. pass' = [pass EXCEPT ![p] = next]
    BY <1>2 DEF Delivered
  <2>2. /\ pass[p] \in [pc : {"scan"}, startedAt : Nat, results : Results]
        /\ pass[p].startedAt <= clock
    BY ScanningPass DEF PassHolds
  <2>3. /\ DOMAIN pass[p].results \subseteq Hash
        /\ \A g \in DOMAIN pass[p].results :
                pass[p].results[g] \in Verdict \X TransactionState
    BY <2>2, ResultsAre
  <2>4. left \in SUBSET Hash /\ results \in [left -> Verdict \X TransactionState]
    BY <2>3
  <2>5. results \in Results
    BY <2>4, AreResults
  <2>6. PICK f, at : f = pass[p].results /\ at = pass[p].startedAt
    OBVIOUS
  <2>7. DOMAIN results = left
    OBVIOUS
  <2> HIDE DEF results, left
  <2>8. /\ next \in [pc : {"scan"}, startedAt : Nat, results : Results]
        /\ next.startedAt = pass[p].startedAt /\ next.results = results
    BY <2>2, <2>5
  <2>9. pass'[p] = next
    BY <2>1 DEF FlowTypes
  <2>10. pass[p].startedAt <= clock'
    BY <2>2, WalletSteps
  <2>11. \A g \in DOMAIN f : ResultHolds(g, f[g], at)'
    BY <2>3, <2>6, ResultStays DEF PassHolds
  <2>12. /\ pass'[p].startedAt = at /\ DOMAIN pass'[p].results \subseteq DOMAIN f
         /\ \A g \in DOMAIN pass'[p].results : pass'[p].results[g] = f[g]
    BY <2>6, <2>7, <2>8, <2>9 DEF results, left
  <2>13. PassHolds(p)'
    BY <2>6, <2>10, <2>11, <2>12 DEF PassHolds
  <2> HIDE DEF next
  <2> QED
    BY <2>1, <2>8, <2>13 DEF FlowTypes, PassType
<1> QED
  BY <1>1, <1>2

-----------------------------------------------------------------------------
(***************************************************************************)
(* Every step that writes a table is one operation of the ledger.          *)
(***************************************************************************)
\* What a delivery writes.
LEMMA DeliverEffect ==
    ASSUME FlowInv, NEW p \in Pass, NEW h \in Hash, Deliver(p, h)
    PROVE  /\ pass[p].pc = "scan" /\ Delivered(p, h)
           /\ UNCHANGED <<wallet, exposed, request>>
           /\ \/ UNCHANGED vars
              \/ wallet[h] = "settled" /\ MarkPaidOnce(h, clock)
              \/ \E s \in ScanStatus, st \in TransactionState, at \in 0..clock :
                    LET status == reconciliationTransition(settlementExpiresAt(h),
                                                           s, st, at).status
                    IN  /\ RecordReconciliation(h, s, st, at)
                        /\ status \in ClosedStatus
                        /\ status \in {"expired", "failed"} => Unpayable(h)
<1> DEFINE status == pass[p].results[h][1]
           state == pass[p].results[h][2]
           at == VerdictTime(p, h)
<1>1. /\ pass[p].pc = "scan" /\ h \in DOMAIN pass[p].results /\ status # "unseen"
      /\ Delivered(p, h) /\ UNCHANGED <<wallet, exposed, request>>
      /\ \/ status = "settled" /\ MarkPaidOnce(h, clock)
         \/ status # "settled" /\ RecordReconciliation(h, status, state, at)
         \/ UNCHANGED vars
  BY DEF Deliver
<1>2. /\ pass[p].startedAt <= clock
      /\ ResultHolds(h, pass[p].results[h], pass[p].startedAt)
  BY <1>1 DEF FlowInv, PassHolds
<1>3. pass[p].startedAt \in Nat /\ clock \in Nat
  BY <1>1, ScanningPass DEF FlowInv, FlowTypes, TypeOK
<1>4. at \in 0..clock
  BY <1>2, <1>3 DEF VerdictTime
<1>5. CASE status # "settled" /\ RecordReconciliation(h, status, state, at)
  <2>1. status \in ScanStatus /\ state \in TransactionState
    BY <1>1, <1>2, <1>5 DEF ResultHolds, Verdict
  <2> DEFINE inv == Minted[h].invExp
             t == reconciliationTransition(inv, status, state, at)
  <2>2. inv \in Nat /\ at \in Nat /\ t # NoTransition
    BY <1>3, <1>4, <1>5 DEF MintedAttempt, RecordReconciliation, settlementExpiresAt
  <2>3. t.status \in ClosedStatus
    <3> HIDE DEF status, state, at, inv
    <3> QED
      BY <2>1, <2>2, TransitionType
  <2>4. t.status \in {"expired", "failed"} =>
            \/ status \in {"expired", "failed"}
            \/ /\ status \in {"not_found", "pending"}
               /\ status = "not_found" \/ state = "none"
               /\ at >= inv + ExpiryGrace
    <3> HIDE DEF status, state, at, inv
    <3> QED
      BY <2>1, <2>2 DEF reconciliationTransition, NoTransition, ScanStatus, TransactionState
  <2>5. status \notin {"expired", "failed"} => at = pass[p].startedAt
    BY DEF VerdictTime
  <2>6. t.status \in {"expired", "failed"} => Unpayable(h)
    BY <1>2, <2>4, <2>5 DEF ResultHolds
  <2> QED
    BY <1>1, <1>4, <1>5, <2>1, <2>3, <2>6 DEF settlementExpiresAt
<1>6. CASE status = "settled" /\ MarkPaidOnce(h, clock)
  BY <1>1, <1>2, <1>6 DEF ResultHolds
<1>7. CASE UNCHANGED vars
  BY <1>1, <1>7
<1> QED
  BY <1>1, <1>5, <1>6, <1>7

LEMMA RequeueEffect ==
    ASSUME FlowInv, NEW h \in Hash, Requeue(h)
    PROVE  \E s \in {"expired", "attention"}, u \in 0..clock : RequeueAttempt(h, s, u, clock)
<1>1. rows[h].updatedAt \in 0..clock
  BY DEF FlowInv, FlowTypes, TypeOK, Row, ClosedLate
<1>2. rows[h].status \in {"expired", "attention"}
  BY DEF Requeue, RequeueAttempt, RequeueAllowed, repairCandidate
<1> QED
  BY <1>1, <1>2 DEF Requeue

LEMMA FlowStepIsLedgerStep ==
    ASSUME FlowInv, [FlowNext]_flowVars
    PROVE  [Next]_vars
<1>0. clock \in Nat /\ clock \in 0..clock
  BY DEF FlowInv, FlowTypes, TypeOK
<1>1. CASE UNCHANGED flowVars
  BY <1>1 DEF flowVars
<1>2. CASE \E r \in Ref, rail \in Rail : Reserve(r, rail)
  BY <1>2 DEF Reserve
<1>3. ASSUME NEW q \in Request,
             \/ \E r \in Ref, rail \in Rail : Resolve(q, r, rail)
             \/ Mint(q) \/ Respond(q) \/ AbandonRequest(q)
      PROVE  UNCHANGED vars
  BY <1>3 DEF Resolve, Mint, Respond, AbandonRequest
<1>4. ASSUME NEW q \in Request, Persist(q)
      PROVE  [Next]_vars
  <2>1. request[q].h \in Hash
    BY <1>4 DEF Persist, FlowInv, FlowTypes, RequestType, IdleRequest
  <2> QED
    BY <1>0, <1>4, <2>1 DEF Persist, Next
<1>5. ASSUME NEW h \in Hash, Pay(h) \/ EndHold(h)
      PROVE  UNCHANGED vars
  BY <1>5 DEF Pay, EndHold
<1>6. ASSUME NEW h \in Hash, Notify(h)
      PROVE  Next
  BY <1>0, <1>6 DEF Notify, Next
<1>7. ASSUME NEW h \in Hash, Requeue(h)
      PROVE  Next
  BY <1>0, <1>7, RequeueEffect DEF Next
<1>8. ASSUME NEW p \in Pass, StartPass(p) \/ AbandonPass(p) \/ \E h \in Hash : Observe(p, h)
      PROVE  UNCHANGED vars
  BY <1>8 DEF StartPass, AbandonPass, Observe
<1>9. ASSUME NEW p \in Pass, NEW h \in Hash, Deliver(p, h)
      PROVE  [Next]_vars
  BY <1>0, <1>9, DeliverEffect DEF Next
<1>10. CASE FlowTick
  BY <1>10 DEF FlowTick, Next
<1> QED
  BY <1>1, <1>2, <1>3, <1>4, <1>5, <1>6, <1>7, <1>8, <1>9, <1>10 DEF FlowNext

\* Which rows a step closes without asking the operator.
LEMMA ClosingSteps ==
    ASSUME FlowInv, [FlowNext]_flowVars, NEW g \in Hash,
           rows'[g].status \in {"expired", "failed"}
    PROVE  Unpayable(g)
<1>0. TypeOK /\ clock \in 0..clock
  BY DEF FlowInv, FlowTypes, TypeOK
<1>1. SUFFICES ASSUME rows'[g].status # rows[g].status
               PROVE  Unpayable(g)
  BY DEF FlowInv, ClosedIsUnpayable
<1>2. CASE UNCHANGED rows
  BY <1>1, <1>2
<1>3. ASSUME NEW q \in Request, Persist(q)
      PROVE  Unpayable(g)
  <2>1. request[q].h \in Hash
    BY <1>3 DEF Persist, FlowInv, FlowTypes, RequestType, IdleRequest
  <2>2. CASE CommitAttempt(request[q].h, clock)
    BY <1>0, <1>1, <2>1, <2>2, CommitStatus
  <2>3. CASE UNCHANGED vars
    BY <1>1, <2>3 DEF vars
  <2> QED
    BY <1>3, <2>2, <2>3 DEF Persist
<1>4. ASSUME NEW h \in Hash, MarkPaidOnce(h, clock)
      PROVE  FALSE
  BY <1>0, <1>1, <1>4, PaymentEffect
<1>5. ASSUME NEW h \in Hash, Requeue(h)
      PROVE  FALSE
  BY <1>0, <1>1, <1>5, RequeueStatus DEF Requeue
<1>6. ASSUME NEW p \in Pass, NEW h \in Hash, Deliver(p, h)
      PROVE  Unpayable(g)
  <2>1. CASE UNCHANGED vars
    BY <1>1, <2>1 DEF vars
  <2>2. CASE MarkPaidOnce(h, clock)
    BY <1>4, <2>2
  <2>3. ASSUME NEW s \in ScanStatus, NEW st \in TransactionState, NEW at \in 0..clock,
               RecordReconciliation(h, s, st, at),
               reconciliationTransition(settlementExpiresAt(h), s, st, at).status
                   \in {"expired", "failed"} => Unpayable(h)
        PROVE  Unpayable(g)
    BY <1>0, <1>1, <2>3, CloseStatus
  <2> QED
    BY <1>6, <2>1, <2>2, <2>3, DeliverEffect
<1>7. \/ UNCHANGED rows
      \/ \E q \in Request : Persist(q)
      \/ \E h \in Hash : Notify(h) \/ Requeue(h)
      \/ \E p \in Pass, h \in Hash : Deliver(p, h)
  BY DEF FlowNext, flowVars, vars, Reserve, Resolve, Mint, Respond, AbandonRequest, Pay,
         EndHold, StartPass, AbandonPass, Observe, FlowTick, Tick
<1> QED
  BY <1>2, <1>3, <1>4, <1>5, <1>6, <1>7 DEF Notify

-----------------------------------------------------------------------------
(***************************************************************************)
(* The invariant.                                                          *)
(***************************************************************************)
LEMMA RowIsThereStep ==
    ASSUME FlowInv, [FlowNext]_flowVars
    PROVE  RowIsThere'
<1>1. TypeOK /\ RowIsThere /\ [Next]_vars /\ FlowTypes
  BY FlowStepIsLedgerStep DEF FlowInv, FlowTypes
<1>2. \A h \in Hash : rows[h].status # "absent" => rows'[h].status # "absent"
  BY <1>1, RowsStay
<1>3. ASSUME NEW h \in exposed'
      PROVE  rows'[h].status # "absent"
  <2>1. CASE h \in exposed
    BY <1>1, <1>2, <2>1 DEF RowIsThere, FlowTypes
  <2>2. CASE \E r \in Ref, rail \in Rail : Reserve(r, rail)
    <3>1. h \in exposed \/ (h \in Hash /\ rows[h].status = "pending")
      BY <2>2 DEF Reserve, Matching, HashesOf, isLivePaymentAttempt
    <3> QED
      BY <1>2, <2>1, <3>1
  <2>3. ASSUME NEW q \in Request, Respond(q)
        PROVE  rows'[h].status # "absent"
    <3>1. request[q].pc = "respond" /\ request[q].h \in Hash
      BY <1>1, <2>3 DEF Respond, FlowTypes, RequestType, IdleRequest
    <3>2. h \in exposed \/ h = request[q].h
      BY <2>3 DEF Respond
    <3> QED
      BY <1>1, <1>2, <2>1, <3>1, <3>2 DEF RowIsThere
  <2>4. \/ UNCHANGED exposed
        \/ \E r \in Ref, rail \in Rail : Reserve(r, rail)
        \/ \E q \in Request : Respond(q)
    BY DEF FlowNext, flowVars, Resolve, Mint, Persist, AbandonRequest, Pay, Notify, Requeue,
           EndHold, StartPass, AbandonPass, Observe, Deliver, FlowTick
  <2> QED
    BY <1>3, <2>1, <2>2, <2>3, <2>4
<1>4. ASSUME NEW q \in Request, request'[q].pc = "respond"
      PROVE  rows'[request'[q].h].status # "absent"
  <2>1. CASE request'[q] = request[q]
    <3>1. request[q].pc = "respond" /\ request[q].h \in Hash
      BY <1>1, <1>4, <2>1 DEF FlowTypes, RequestType, IdleRequest
    <3> QED
      BY <1>1, <1>2, <2>1, <3>1 DEF RowIsThere
  <2>2. ASSUME NEW p \in Request, Persist(p), request'[q] # request[q]
        PROVE  rows'[request'[q].h].status # "absent"
    <3> DEFINE h == request[p].h
    <3>1. p = q /\ h \in Hash
      BY <1>1, <2>2 DEF Persist, EndRequest, FlowTypes, RequestType, IdleRequest
    <3>2. CommitAttempt(h, clock) /\ request' = [request EXCEPT ![q] = [pc |-> "respond", h |-> h]]
      BY <1>1, <1>4, <2>2, <3>1 DEF Persist, EndRequest, IdleRequest, FlowTypes
    <3>3. request'[q].h = h
      BY <1>1, <3>2 DEF FlowTypes
    <3>4. clock \in 0..clock
      BY <1>1 DEF TypeOK
    <3>5. rows'[h].status = "pending"
      <4> HIDE DEF h
      <4> QED
        BY <1>1, <3>1, <3>2, <3>4, CommitStatus
    <3> QED
      BY <3>3, <3>5
  <2>3. ASSUME NEW p \in Request, request'[q] # request[q],
               \/ \E r \in Ref, rail \in Rail : Resolve(p, r, rail)
               \/ Mint(p) \/ Respond(p) \/ AbandonRequest(p)
        PROVE  FALSE
    BY <1>1, <1>4, <2>3 DEF Resolve, Mint, Respond, AbandonRequest, EndRequest, IdleRequest,
                            FlowTypes
  <2>4. \/ UNCHANGED request
        \/ \E p \in Request :
            \/ Persist(p)
            \/ \E r \in Ref, rail \in Rail : Resolve(p, r, rail)
            \/ Mint(p) \/ Respond(p) \/ AbandonRequest(p)
    BY DEF FlowNext, flowVars, Reserve, Pay, Notify, Requeue,
           EndHold, StartPass, AbandonPass, Observe, Deliver, FlowTick
  <2> QED
    BY <2>1, <2>2, <2>3, <2>4
<1>5. ASSUME NEW h \in Hash, wallet'[h] \in {"held", "settled"}
      PROVE  rows'[h].status # "absent"
  <2>1. rows[h].status # "absent"
    <3>1. CASE wallet' = wallet
      BY <1>1, <1>5, <3>1 DEF RowIsThere
    <3>2. ASSUME NEW q \in Request, Mint(q)
          PROVE  wallet[h] \in {"held", "settled"}
      BY <1>1, <1>5, <3>2 DEF Mint, FlowTypes, HashesOf
    <3>3. ASSUME NEW g \in Hash, Pay(g) \/ EndHold(g)
          PROVE  wallet[h] \in {"held", "settled"} \/ h \in exposed
      BY <1>1, <1>5, <3>3 DEF Pay, EndHold, FlowTypes
    <3> QED
      BY <1>1, <3>1, <3>2, <3>3, WalletSteps DEF RowIsThere
  <2> QED
    BY <1>2, <2>1
<1> QED
  BY <1>3, <1>4, <1>5 DEF RowIsThere

LEMMA ServedIsPaidStep ==
    ASSUME FlowInv, [FlowNext]_flowVars
    PROVE  ServedIsPaid'
<1>1. FlowTypes /\ TypeOK /\ ServedIsPaid /\ clock \in 0..clock
  BY DEF FlowInv, FlowTypes, TypeOK
<1>2. ASSUME NEW r \in Ref, fulfilled'[r] = fulfilled[r], NEW i \in DOMAIN fulfilled[r]
      PROVE  wallet'[fulfilled[r][i]] = "settled"
  <2>1. fulfilled[r][i] \in Hash /\ wallet[fulfilled[r][i]] = "settled"
    BY <1>1 DEF TypeOK, ServedIsPaid
  <2> QED
    BY <1>1, <2>1, SettledStays
<1>3. ASSUME NEW h \in Hash, MarkPaidOnce(h, clock), wallet'[h] = "settled", NEW r \in Ref,
             fulfilled'[r] # fulfilled[r]
      PROVE  \A i \in DOMAIN fulfilled'[r] : wallet'[fulfilled'[r][i]] = "settled"
  <2>1. fulfilled' = [fulfilled EXCEPT ![Minted[h].ref] = Append(@, h)]
    BY <1>1, <1>3, PaymentEffect
  <2>2. r = Minted[h].ref /\ fulfilled[r] \in Seq(Hash) /\ fulfilled'[r] = Append(fulfilled[r], h)
    BY <1>1, <1>3, <2>1 DEF TypeOK
  <2>3. \A i \in DOMAIN fulfilled[r] :
            fulfilled[r][i] \in Hash /\ wallet[fulfilled[r][i]] = "settled"
    BY <1>1, <2>2 DEF ServedIsPaid
  <2>4. \A i \in DOMAIN fulfilled[r] : wallet'[fulfilled[r][i]] = "settled"
    BY <1>1, <2>3, SettledStays
  <2>5. \A i \in DOMAIN fulfilled'[r] :
            \/ i \in DOMAIN fulfilled[r] /\ fulfilled'[r][i] = fulfilled[r][i]
            \/ fulfilled'[r][i] = h
    BY <2>2
  <2> QED
    BY <1>3, <2>4, <2>5
<1>4. ASSUME fulfilled' # fulfilled
      PROVE  \E h \in Hash : MarkPaidOnce(h, clock) /\ wallet'[h] = "settled"
  <2>1. ASSUME NEW h \in Hash, Notify(h)
        PROVE  MarkPaidOnce(h, clock) /\ wallet'[h] = "settled"
    BY <2>1 DEF Notify, ProvesFinality
  <2>2. ASSUME NEW p \in Pass, NEW h \in Hash, Deliver(p, h)
        PROVE  MarkPaidOnce(h, clock) /\ wallet'[h] = "settled"
    BY <1>4, <2>2, DeliverEffect DEF vars, RecordReconciliation
  <2>3. \/ \E h \in Hash : Notify(h)
        \/ \E p \in Pass, h \in Hash : Deliver(p, h)
    BY <1>4 DEF FlowNext, flowVars, vars, Reserve, Resolve, Mint, Respond, AbandonRequest, Pay,
         EndHold, StartPass, AbandonPass, Observe, FlowTick, Tick, Persist, CommitAttempt,
         Requeue, RequeueAttempt
  <2> QED
    BY <2>1, <2>2, <2>3
<1> QED
  BY <1>2, <1>3, <1>4 DEF ServedIsPaid

\* One step of one pass; every other step leaves the passes alone.
LEMMA PassSteps ==
    ASSUME FlowInv, [FlowNext]_flowVars
    PROVE  /\ pass' \in [Pass -> PassType]
           /\ \A p \in Pass : PassHolds(p)'
<1>1. FlowTypes /\ \A p \in Pass : PassHolds(p)
  BY DEF FlowInv
<1>2. CASE UNCHANGED pass
  BY <1>1, <1>2, PassStays DEF FlowTypes
<1>3. ASSUME NEW p \in Pass, pass' \in [Pass -> PassType], PassHolds(p)',
             \A o \in Pass \ {p} : pass'[o] = pass[o]
      PROVE  \A o \in Pass : PassHolds(o)'
  BY <1>1, <1>3, PassStays
<1>4. ASSUME NEW p \in Pass,
             StartPass(p) \/ AbandonPass(p) \/ (\E h \in Hash : Observe(p, h) \/ Deliver(p, h))
      PROVE  /\ pass' \in [Pass -> PassType] /\ PassHolds(p)'
             /\ \A o \in Pass \ {p} : pass'[o] = pass[o]
  <2>1. CASE StartPass(p)
    BY <1>1, <2>1, StartPassEffect DEF StartPass, FlowTypes
  <2>2. CASE AbandonPass(p)
    BY <1>1, <2>2, IdlePassHolds DEF AbandonPass, FlowTypes, PassType
  <2>3. ASSUME NEW h \in Hash, Observe(p, h)
        PROVE  /\ pass' \in [Pass -> PassType] /\ PassHolds(p)'
               /\ \A o \in Pass \ {p} : pass'[o] = pass[o]
    BY <1>1, <2>3, ObserveEffect DEF Observe, FlowTypes
  <2>4. ASSUME NEW h \in Hash, Deliver(p, h)
        PROVE  /\ pass' \in [Pass -> PassType] /\ PassHolds(p)'
               /\ \A o \in Pass \ {p} : pass'[o] = pass[o]
    <3>1. pass[p].pc = "scan" /\ Delivered(p, h)
      BY <2>4, DeliverEffect
    <3>2. pass' \in [Pass -> PassType] /\ PassHolds(p)'
      BY <1>1, <3>1, DeliveredEffect
    <3> QED
      BY <1>1, <3>1, <3>2 DEF Delivered, FlowTypes
  <2> QED
    BY <1>4, <2>1, <2>2, <2>3, <2>4
<1>5. \/ UNCHANGED pass
      \/ \E p \in Pass :
            StartPass(p) \/ AbandonPass(p) \/ (\E h \in Hash : Observe(p, h) \/ Deliver(p, h))
  BY DEF FlowNext, flowVars, Reserve, Resolve, Mint, Respond, AbandonRequest, Pay,
         EndHold, FlowTick, Persist, Notify, Requeue
<1> QED
  BY <1>2, <1>3, <1>4, <1>5

LEMMA FlowTypesStep ==
    ASSUME FlowInv, [FlowNext]_flowVars
    PROVE  FlowTypes'
<1>1. FlowTypes /\ TypeOK /\ RowIsThere
  BY DEF FlowInv, FlowTypes
<1>2. TypeOK' /\ pass' \in [Pass -> PassType]
  BY <1>1, FlowStepIsLedgerStep, TypeStep, PassSteps
<1>3. wallet' \in [Hash -> WalletState]
  <2>1. ASSUME NEW q \in Request, Mint(q)
        PROVE  wallet' \in [Hash -> WalletState]
    BY <1>1, <2>1 DEF Mint, FlowTypes, WalletState
  <2>2. ASSUME NEW h \in Hash, Pay(h) \/ EndHold(h)
        PROVE  wallet' \in [Hash -> WalletState]
    BY <1>1, <2>2 DEF Pay, EndHold, FlowTypes, WalletState
  <2> QED
    BY <1>1, <2>1, <2>2, WalletSteps DEF FlowTypes
<1>4. exposed' \subseteq Hash
  <2>1. ASSUME NEW q \in Request, Respond(q)
        PROVE  exposed' \subseteq Hash
    <3>1. request[q].h \in Hash
      BY <1>1, <2>1 DEF Respond, FlowTypes, RequestType, IdleRequest
    <3> QED
      BY <1>1, <2>1, <3>1 DEF Respond, FlowTypes
  <2>2. CASE \E r \in Ref, rail \in Rail : Reserve(r, rail)
    BY <1>1, <2>2 DEF Reserve, Matching, HashesOf, FlowTypes
  <2>3. \/ UNCHANGED exposed
        \/ \E r \in Ref, rail \in Rail : Reserve(r, rail)
        \/ \E q \in Request : Respond(q)
    BY DEF FlowNext, flowVars, Resolve, Mint, Persist, AbandonRequest, Pay, Notify, Requeue,
           EndHold, StartPass, AbandonPass, Observe, Deliver, FlowTick
  <2> QED
    BY <1>1, <2>1, <2>2, <2>3 DEF FlowTypes
<1>5. request' \in [Request -> RequestType]
  <2>1. ASSUME NEW q \in Request, NEW r \in Ref, NEW rail \in Rail, Resolve(q, r, rail)
        PROVE  request' \in [Request -> RequestType]
    <3>1. [pc |-> "mint", ref |-> r, rail |-> rail] \in RequestType
      BY DEF RequestType
    <3> QED
      BY <1>1, <2>1, <3>1 DEF Resolve, FlowTypes
  <2>2. ASSUME NEW q \in Request, Mint(q)
        PROVE  request' \in [Request -> RequestType]
    <3>1. PICK h \in Hash : request' = [request EXCEPT ![q] = [pc |-> "persist", h |-> h]]
      BY <2>2 DEF Mint, HashesOf
    <3>2. [pc |-> "persist", h |-> h] \in RequestType
      BY DEF RequestType
    <3> QED
      BY <1>1, <3>1, <3>2 DEF FlowTypes
  <2>3. ASSUME NEW q \in Request, EndRequest(q)
        PROVE  request' \in [Request -> RequestType]
    <3>1. IdleRequest \in RequestType
      BY DEF RequestType
    <3> QED
      BY <1>1, <2>3, <3>1 DEF EndRequest, FlowTypes
  <2>4. ASSUME NEW q \in Request, Persist(q)
        PROVE  request' \in [Request -> RequestType]
    <3> DEFINE h == request[q].h
    <3>1. h \in Hash
      BY <1>1, <2>4 DEF Persist, FlowTypes, RequestType, IdleRequest
    <3>2. [pc |-> "respond", h |-> h] \in RequestType
      BY <3>1 DEF RequestType
    <3> QED
      BY <1>1, <2>3, <2>4, <3>2 DEF Persist, FlowTypes
  <2>5. \/ UNCHANGED request
        \/ \E q \in Request :
            \/ \E r \in Ref, rail \in Rail : Resolve(q, r, rail)
            \/ Mint(q) \/ Persist(q) \/ EndRequest(q)
    BY DEF FlowNext, flowVars, Reserve, Pay, Notify, Requeue, Respond, AbandonRequest,
           EndHold, StartPass, AbandonPass, Observe, Deliver, FlowTick
  <2> QED
    BY <1>1, <2>1, <2>2, <2>3, <2>4, <2>5 DEF FlowTypes
<1> QED
  BY <1>2, <1>3, <1>4, <1>5 DEF FlowTypes

LEMMA FlowInvStep == FlowInv /\ [FlowNext]_flowVars => FlowInv'
<1> SUFFICES ASSUME FlowInv, [FlowNext]_flowVars
             PROVE  FlowInv'
  OBVIOUS
<1>1. FlowTypes /\ TypeOK /\ ClosedLate
  BY DEF FlowInv, FlowTypes
<1>2. ClosedLate'
  BY <1>1, FlowStepIsLedgerStep, ClosedLateStep
<1>3. ClosedIsUnpayable'
  BY <1>1, ClosingSteps, UnpayableStays DEF ClosedIsUnpayable
<1> QED
  BY <1>2, <1>3, FlowTypesStep, PassSteps, RowIsThereStep, ServedIsPaidStep DEF FlowInv

LEMMA FlowInvInit == FlowInit => FlowInv
<1> SUFFICES ASSUME FlowInit
             PROVE  FlowInv
  OBVIOUS
<1>1. TypeOK /\ ClosedLate /\ clock = StartClock
  BY LiveInit DEF FlowInit, LiveInv, Init
<1>2. \A h \in Hash : wallet[h] = "none"
  BY DEF FlowInit
<1>3. FlowTypes
  BY <1>1 DEF FlowInit, FlowTypes, WalletState, PassType, RequestType
<1>4. \A p \in Pass : PassHolds(p)
  BY DEF FlowInit, PassHolds, IdlePass
<1>5. RowIsThere
  BY <1>2 DEF FlowInit, RowIsThere, IdleRequest
<1>6. ASSUME NEW h \in Hash, rows[h].status \in {"expired", "failed"}
      PROVE  Unpayable(h)
  <2>1. h \in LegacyClosed
    BY <1>6 DEF FlowInit, Init, NoRow
  <2>2. /\ Minted[h].instrExp + ExpiryGrace <= StartClock
        /\ Minted[h].instrExp \in Nat /\ StartClock \in Nat /\ ExpiryGrace \in Nat
    BY <2>1 DEF MintedAttempt
  <2>3. clock >= Minted[h].instrExp
    BY <1>1, <2>2
  <2> QED
    BY <1>2, <1>6, <2>3 DEF Unpayable
<1>7. ServedIsPaid
  BY DEF FlowInit, Init, ServedIsPaid
<1> QED
  BY <1>1, <1>3, <1>4, <1>5, <1>6, <1>7 DEF FlowInv, ClosedIsUnpayable

LEMMA FlowInvariant == FlowSpec => []FlowInv
  BY FlowInvInit, FlowInvStep, PTL DEF FlowSpec

-----------------------------------------------------------------------------
\* Requests and passes act on the tables through the operations of the ledger
\* only, with times that have passed and rows they may reopen.
THEOREM FlowImplementsLedger == FlowSpec => Spec
<1>1. FlowInit => Init
  BY DEF FlowInit
<1>2. FlowInv /\ [FlowNext]_flowVars => [Next]_vars
  BY FlowStepIsLedgerStep
<1> QED
  BY <1>1, <1>2, FlowInvariant, PTL DEF FlowSpec, Spec

\* Requests, passes and the wallet keep the types of their state.
THEOREM FlowTypesHold == FlowSpec => []FlowTypeOK
<1>1. FlowInv => FlowTypeOK
  <2> SUFFICES ASSUME FlowInv
               PROVE  FlowTypeOK
    OBVIOUS
  <2>1. ASSUME NEW p \in Pass, pass[p] # IdlePass
        PROVE  /\ pass[p].startedAt \in 0..clock
               /\ \A h \in DOMAIN pass[p].results :
                    pass[p].results[h] \in Verdict \X TransactionState
    <3>1. pass[p].pc = "scan"
      BY <2>1 DEF FlowInv, FlowTypes, PassType
    <3>2. pass[p].startedAt \in Nat /\ clock \in Nat
      BY <3>1, ScanningPass DEF FlowInv, FlowTypes, TypeOK
    <3> QED
      BY <3>1, <3>2 DEF FlowInv, PassHolds, ResultHolds
  <2> QED
    BY <2>1 DEF FlowInv, FlowTypes, FlowTypeOK, RequestType
<1> QED
  BY <1>1, FlowInvariant, PTL

\* Every payer was shown an invoice that has a row, and no verdict, clock or
\* superseding request closes the row of money that arrived or is in flight
\* (reconciliationTransition's invoice expiry plus grace, counted from the start
\* of the coverage), for any requests and passes and any wallet lag within the
\* grace.
THEOREM PaymentsAreKept == FlowSpec => []NoPaymentIsLost
<1>1. FlowInv => NoPaymentIsLost
  <2> SUFFICES ASSUME FlowInv, NEW h \in Hash
               PROVE  /\ h \in exposed => rows[h].status # "absent"
                      /\ wallet[h] \in {"held", "settled"} =>
                            rows[h].status \in {"pending", "settled", "attention"}
    BY DEF NoPaymentIsLost
  <2>1. rows[h].status \in AttemptStatus
    BY DEF FlowInv, FlowTypes, TypeOK, Row
  <2>2. rows[h].status \in {"expired", "failed"} => wallet[h] \notin {"held", "settled"}
    BY DEF FlowInv, ClosedIsUnpayable, Unpayable
  <2> QED
    BY <2>1, <2>2 DEF FlowInv, RowIsThere, AttemptStatus, ClosedStatus
<1> QED
  BY <1>1, FlowInvariant, PTL

\* The host fulfills only for money the wallet has received (reconcileHostPayments
\* and settleDirectly settle on finality alone).
THEOREM ServedWasPaid == FlowSpec => []FulfilledIsPaid
<1>1. FlowInv => FulfilledIsPaid
  BY DEF FlowInv, ServedIsPaid, FulfilledIsPaid
<1> QED
  BY <1>1, FlowInvariant, PTL

\* A payer has one place to pay per rail, however many requests raced to resolve
\* and mint (persistCheckoutAttempt before the response).
THEOREM OneOfferIsShown == FlowSpec => []OneOfferShown
<1>1. FlowInv /\ OneLiveOffer => OneOfferShown
  BY DEF FlowInv, FlowTypes, OneLiveOffer, OneOfferShown
<1> QED
  BY <1>1, FlowInvariant, FlowImplementsLedger, OffersOneAttempt, PTL

-----------------------------------------------------------------------------
(***************************************************************************)
(* The payer's screen: the watcher of one checkout, for any number of      *)
(* requests and refund calls in flight.                                    *)
(***************************************************************************)
\* One request is current at a time: the one later reads join.
OneIsCurrent ==
    watcher.generation = IF watcher.pending = 0 THEN {} ELSE {watcher.pending}

\* The provider has a refund address for good once it has one.
RefundIsForGood ==
    server.address # NoAddress => server.provider \in {"refund_pending", "none"}

\* What a snapshot read from the server can still say of it.
ReadFrom(snapshot) ==
    /\ snapshot.address \in {NoAddress, server.address}
    /\ snapshot.pay = "settled" => server.pay = "settled"

\* The screen is the remembered snapshot with the address under review over it; a
\* watcher that shows nothing yet is as it was created.
ScreenIsRemembered ==
    IF watcher.state.shown
    THEN /\ watcher.state.of =
                overlaySwapRefundStaging(watcher.snapshot, watcher.staged)
         /\ watcher.state.cancelled => watcher.state.of.pay # "settled"
    ELSE watcher.snapshot = options /\ watcher.staged = NoAddress /\ ~watcher.countdown

\* An answer to a current request was read no earlier than what is remembered.
AnswersAreNewer ==
    \A r \in requests :
        r.id \in watcher.generation /\ r.outcome = "answered"
            /\ watcher.snapshot.pay = "settled"
        => r.answer.pay = "settled"

WatcherInv ==
    /\ WatcherTypeOK
    /\ options.pay = "pending" /\ options.address = NoAddress
    /\ OneIsCurrent /\ RefundIsForGood
    /\ ReadFrom(watcher.snapshot) /\ \A r \in requests : ReadFrom(r.answer)
    /\ ScreenIsRemembered /\ AnswersAreNewer

\* CheckoutWatcher's fields, as its TypeOK has them.
Fields ==
    [running : BOOLEAN, generation : SUBSET (1 .. MaxRequests),
     pollInFlight : BOOLEAN, pending : 0 .. MaxRequests,
     pollTimer : BOOLEAN, countdown : BOOLEAN, backoff : BOOLEAN,
     snapshot : Snapshot, state : Screens,
     staged : Addresses \cup {NoAddress}]

\* What publishing, counting down and stopping leave of the request in flight.
SameOrNone(w, v) ==
    \/ v.generation = w.generation /\ v.pending = w.pending
    \/ v.generation = {} /\ v.pending = 0

\* Stopping forgets the request in flight and keeps what is shown.
LEMMA StoppedIs ==
    ASSUME WatcherAssumption, NEW w \in Fields
    PROVE  /\ Stopped(w) \in Fields /\ SameOrNone(w, Stopped(w))
           /\ Stopped(w).snapshot = w.snapshot
           /\ Stopped(w).state = w.state /\ Stopped(w).staged = w.staged
           /\ Stopped(w).generation = {} /\ Stopped(w).pending = 0
           /\ Stopped(w).countdown = FALSE
<1>1. 0 \in 0 .. MaxRequests /\ {} \in SUBSET (1 .. MaxRequests)
  BY DEF WatcherAssumption
<1>2. [w EXCEPT !.running = FALSE, !.generation = {}, !.pollInFlight = FALSE] \in Fields
  BY <1>1 DEF Fields
<1>3. Stopped(w) =
          [[w EXCEPT !.running = FALSE, !.generation = {}, !.pollInFlight = FALSE]
              EXCEPT !.pending = 0, !.pollTimer = FALSE, !.countdown = FALSE]
  BY DEF Stopped, Fields
<1>4. Stopped(w) \in Fields
  BY <1>1, <1>2, <1>3 DEF Fields
<1>5. /\ Stopped(w).generation = {} /\ Stopped(w).pending = 0
      /\ Stopped(w).countdown = FALSE
      /\ Stopped(w).snapshot = w.snapshot
      /\ Stopped(w).state = w.state /\ Stopped(w).staged = w.staged
  BY DEF Stopped, Fields
<1> QED
  BY <1>4, <1>5 DEF SameOrNone

\* A stopped watcher keeps the state; a running one only syncs its timers.
LEMMA ApplyIs ==
    ASSUME WatcherAssumption, NEW w \in Fields, NEW shown \in Screens,
           pastDeadline \in BOOLEAN, shown.shown
    PROVE  /\ applyState(w, shown) \in Fields
           /\ SameOrNone(w, applyState(w, shown))
           /\ applyState(w, shown).snapshot = w.snapshot
           /\ applyState(w, shown).state = shown
           /\ applyState(w, shown).staged = w.staged
<1> DEFINE v == [w EXCEPT !.state = shown]
<1>1. /\ v \in Fields /\ SameOrNone(w, v) /\ v.snapshot = w.snapshot
      /\ v.state = shown /\ v.staged = w.staged
  BY DEF Fields, SameOrNone
<1>2. CASE ~w.running
  <2>1. applyState(w, shown) = v
    BY <1>2 DEF applyState
  <2> QED
    BY <1>1, <2>1
<1>3. CASE w.running /\ terminal(shown)
  <2>1. applyState(w, shown) = Stopped(v)
    BY <1>1, <1>3 DEF applyState, syncWatchers
  <2> HIDE DEF v
  <2>2. /\ Stopped(v) \in Fields /\ Stopped(v).snapshot = v.snapshot
        /\ Stopped(v).state = v.state /\ Stopped(v).staged = v.staged
        /\ Stopped(v).generation = {} /\ Stopped(v).pending = 0
    BY <1>1, StoppedIs
  <2>3. SameOrNone(w, Stopped(v))
    BY <2>2 DEF SameOrNone
  <2> QED
    BY <1>1, <2>1, <2>2, <2>3
<1>4. CASE w.running /\ ~terminal(shown)
  <2>1. PICK c \in BOOLEAN :
            applyState(w, shown) = [v EXCEPT !.countdown = c, !.pollTimer = TRUE]
    <3>1. applyState(w, shown) = syncWatchers(v)
      BY <1>4 DEF applyState
    <3>2. syncWatchers(v) =
              [v EXCEPT !.countdown = v.state.of.pay # "settled" /\ ~pastDeadline,
                        !.pollTimer = TRUE]
      BY <1>1, <1>4 DEF syncWatchers
    <3> QED
      BY <3>1, <3>2
  <2> HIDE DEF v
  <2> DEFINE u == [v EXCEPT !.countdown = c, !.pollTimer = TRUE]
  <2>2. u \in Fields
    BY <1>1 DEF Fields
  <2>3. /\ u.snapshot = v.snapshot /\ u.state = v.state /\ u.staged = v.staged
        /\ u.generation = v.generation /\ u.pending = v.pending
    BY <1>1 DEF Fields
  <2> HIDE DEF u
  <2>4. SameOrNone(w, u)
    BY <1>1, <2>3 DEF SameOrNone
  <2>5. applyState(w, shown) = u
    BY <2>1 DEF u
  <2> QED
    BY <1>1, <2>2, <2>3, <2>4, <2>5
<1> QED
  BY <1>2, <1>3, <1>4 DEF Fields

\* The overlay changes the refund address only, and only where the server has none.
LEMMA OverlayIs ==
    ASSUME NEW snapshot \in Snapshot, NEW staged \in Addresses \cup {NoAddress}
    PROVE  /\ overlaySwapRefundStaging(snapshot, staged) \in Snapshot
           /\ overlaySwapRefundStaging(snapshot, staged).pay = snapshot.pay
           /\ overlaySwapRefundStaging(snapshot, staged).provider = snapshot.provider
           /\ snapshot.provider # "none" =>
                overlaySwapRefundStaging(snapshot, staged).address =
                    IF snapshot.address # NoAddress THEN snapshot.address ELSE staged
  BY DEF overlaySwapRefundStaging, Snapshot

\* Publishing a snapshot remembers it and shows it with the address under review.
LEMMA PublishIs ==
    ASSUME WatcherAssumption, NEW w \in Fields, NEW snapshot \in Snapshot,
           pastDeadline \in BOOLEAN
    PROVE  LET v == publishSnapshot(w, snapshot)
           IN  /\ v \in Fields /\ SameOrNone(w, v)
               /\ v.snapshot = snapshot /\ v.staged = w.staged
               /\ v.state.shown = TRUE /\ v.state.cancelled = FALSE
               /\ v.state.of = overlaySwapRefundStaging(snapshot, w.staged)
<1> DEFINE over == overlaySwapRefundStaging(snapshot, w.staged)
           shown == [shown |-> TRUE, of |-> over, cancelled |-> FALSE]
           kept == [w EXCEPT !.snapshot = snapshot]
<1>1. over \in Snapshot
  BY OverlayIs DEF Fields
<1>2. shown \in Screens /\ shown.shown
  BY <1>1 DEF Screens
<1>3. kept \in Fields /\ SameOrNone(w, kept) /\ kept.snapshot = snapshot /\ kept.staged = w.staged
  BY DEF Fields, SameOrNone
<1>4. publishSnapshot(w, snapshot) = applyState(kept, shown)
  BY DEF publishSnapshot, Remembered, ScreenOf,
         createCheckoutState
<1>5. shown.of = over /\ shown.cancelled = FALSE /\ shown.shown = TRUE
  OBVIOUS
<1> HIDE DEF over, shown, kept
<1>6. /\ applyState(kept, shown) \in Fields
      /\ SameOrNone(kept, applyState(kept, shown))
      /\ applyState(kept, shown).snapshot = kept.snapshot
      /\ applyState(kept, shown).state = shown
      /\ applyState(kept, shown).staged = kept.staged
  BY <1>2, <1>3, ApplyIs
<1>7. SameOrNone(w, applyState(kept, shown))
  BY <1>3, <1>6 DEF SameOrNone
<1> QED
  BY <1>3, <1>4, <1>5, <1>6, <1>7 DEF over

-----------------------------------------------------------------------------
\* Whatever leaves the fields, the request in flight and the answers as
\* WatcherInv has them, with the server and the options as they were.
LEMMA FieldsKeep ==
    ASSUME WatcherInv, server' = server, options' = options,
           requests' \in SUBSET requests,
           controller' \in SUBSET (1 .. MaxRefunds), pastDeadline' \in BOOLEAN,
           refunds' \subseteq [id : 1 .. MaxRefunds, address : Addresses, confirm : BOOLEAN,
                               outcome : {"none", "answered", "failed"}],
           watcher' \in Fields,
           watcher'.generation = IF watcher'.pending = 0 THEN {} ELSE {watcher'.pending},
           watcher'.pending # 0 => \E r \in requests' : r.id = watcher'.pending,
           ReadFrom(watcher'.snapshot),
           IF watcher'.state.shown
           THEN /\ watcher'.state.of =
                       overlaySwapRefundStaging(watcher'.snapshot, watcher'.staged)
                /\ watcher'.state.cancelled => watcher'.state.of.pay # "settled"
           ELSE watcher'.snapshot = options /\ watcher'.staged = NoAddress /\ ~watcher'.countdown,
           \A r \in requests' :
               r.id \in watcher'.generation /\ r.outcome = "answered"
                   /\ watcher'.snapshot.pay = "settled"
               => r.answer.pay = "settled"
    PROVE  WatcherInv'
<1>1. WatcherTypeOK'
  BY DEF WatcherInv, WatcherTypeOK, Fields
<1>2. OneIsCurrent' /\ RefundIsForGood'
  BY DEF WatcherInv, OneIsCurrent, RefundIsForGood
<1>3. ReadFrom(watcher.snapshot)' /\ (\A r \in requests : ReadFrom(r.answer))'
  BY DEF WatcherInv, ReadFrom
<1>4. ScreenIsRemembered'
  BY DEF ScreenIsRemembered, overlaySwapRefundStaging
<1>5. AnswersAreNewer'
  BY DEF AnswersAreNewer
<1> QED
  BY <1>1, <1>2, <1>3, <1>4, <1>5 DEF WatcherInv

\* The parts of the invariant that the steps below cite.
LEMMA InvFields ==
    ASSUME WatcherAssumption, WatcherInv
    PROVE  /\ watcher \in Fields /\ server \in Snapshot /\ options \in Snapshot
           /\ pastDeadline \in BOOLEAN /\ controller \in SUBSET (1 .. MaxRefunds)
           /\ refunds \subseteq [id : 1 .. MaxRefunds, address : Addresses, confirm : BOOLEAN,
                                 outcome : {"none", "answered", "failed"}]
           /\ requests \subseteq StatusRead
           /\ \A r \in requests : r.answer \in Snapshot
           /\ watcher.generation = IF watcher.pending = 0 THEN {} ELSE {watcher.pending}
           /\ watcher.pending # 0 => \E r \in requests : r.id = watcher.pending
           /\ watcher.snapshot \in Snapshot
           /\ watcher.staged \in Addresses \cup {NoAddress}
  BY DEF WatcherInv, WatcherTypeOK, Fields, OneIsCurrent, StatusRead

\* Publishing a snapshot the server has answered with, from fields whose request in
\* flight is still there, or was forgotten.
LEMMA PublishKeeps ==
    ASSUME WatcherAssumption, WatcherInv,
           server' = server, options' = options, pastDeadline' = pastDeadline,
           requests' \in SUBSET requests,
           controller' \in SUBSET (1 .. MaxRefunds),
           refunds' \subseteq [id : 1 .. MaxRefunds, address : Addresses, confirm : BOOLEAN,
                               outcome : {"none", "answered", "failed"}],
           NEW w \in Fields, NEW snapshot \in Snapshot,
           watcher' = publishSnapshot(w, snapshot),
           ReadFrom(snapshot),
           w.generation = IF w.pending = 0 THEN {} ELSE {w.pending},
           w.pending # 0 => \E r \in requests' : r.id = w.pending,
           snapshot.pay = "settled" =>
               \A r \in requests' : r.id \in w.generation /\ r.outcome = "answered"
                                        => r.answer.pay = "settled"
    PROVE  WatcherInv'
<1>1. /\ watcher' \in Fields /\ SameOrNone(w, watcher')
      /\ watcher'.snapshot = snapshot /\ watcher'.staged = w.staged
      /\ watcher'.state.shown = TRUE /\ watcher'.state.cancelled = FALSE
      /\ watcher'.state.of = overlaySwapRefundStaging(snapshot, w.staged)
  BY PublishIs, InvFields
<1>2. watcher'.generation = IF watcher'.pending = 0 THEN {} ELSE {watcher'.pending}
  BY <1>1 DEF SameOrNone
<1>3. watcher'.pending # 0 => \E r \in requests' : r.id = watcher'.pending
  BY <1>1 DEF SameOrNone
<1>4. watcher'.generation \subseteq w.generation
  BY <1>1 DEF SameOrNone
<1>5. pastDeadline' \in BOOLEAN
  BY InvFields
<1>6. \A r \in requests' :
          r.id \in watcher'.generation /\ r.outcome = "answered"
              /\ watcher'.snapshot.pay = "settled"
          => r.answer.pay = "settled"
  BY <1>1, <1>4
<1> QED
  BY <1>1, <1>2, <1>3, <1>5, <1>6, FieldsKeep

\* A start shows the snapshot the controller was created with.
LEMMA StartKeeps == ASSUME WatcherAssumption, WatcherInv, start
                    PROVE  WatcherInv'
<1> DEFINE w == [Stopped(watcher) EXCEPT !.running = TRUE]
<1>1. /\ watcher' = publishSnapshot(w, options)
      /\ UNCHANGED <<server, options, requests, controller, refunds, pastDeadline>>
  BY DEF start
<1>2. w \in Fields /\ w.generation = {} /\ w.pending = 0
  <2>1. watcher \in Fields
    BY InvFields
  <2>2. /\ Stopped(watcher) \in Fields
        /\ Stopped(watcher).generation = {} /\ Stopped(watcher).pending = 0
    BY <2>1, StoppedIs
  <2> QED
    BY <2>2 DEF Fields
<1>3. ReadFrom(options)
  BY DEF WatcherInv, ReadFrom
<1> HIDE DEF w
<1> QED
  BY <1>1, <1>2, <1>3, PublishKeeps, InvFields

\* A stop changes nothing that is shown.
LEMMA StopKeeps == ASSUME WatcherAssumption, WatcherInv, stop
                   PROVE  WatcherInv'
<1>1. /\ watcher' = Stopped(watcher) /\ controller' = {}
      /\ UNCHANGED <<server, options, requests, refunds, pastDeadline>>
  BY DEF stop
<1>2. /\ watcher' \in Fields /\ watcher'.generation = {} /\ watcher'.pending = 0
      /\ watcher'.snapshot = watcher.snapshot
      /\ watcher'.state = watcher.state /\ watcher'.staged = watcher.staged
      /\ watcher'.countdown = FALSE
  BY <1>1, StoppedIs, InvFields
<1>3. ReadFrom(watcher'.snapshot) /\ ScreenIsRemembered
  BY <1>2 DEF WatcherInv, ReadFrom
<1> QED
  BY <1>1, <1>2, <1>3, FieldsKeep, InvFields DEF ScreenIsRemembered

\* A cancelled screen is not a paid one.
LEMMA CancelKeeps == ASSUME WatcherAssumption, WatcherInv, cancel
                     PROVE  WatcherInv'
<1> DEFINE current == IF watcher.state.shown THEN watcher.state
                      ELSE createCheckoutState(options)
           shown == [current EXCEPT !.cancelled = @ \/ current.of.pay # "settled"]
           v == Stopped(watcher)
<1>1. /\ watcher' = [v EXCEPT !.state = shown] /\ controller' = {}
      /\ UNCHANGED <<server, options, requests, refunds, pastDeadline>>
  BY DEF cancel
<1>2. /\ v \in Fields /\ v.generation = {} /\ v.pending = 0
      /\ v.snapshot = watcher.snapshot /\ v.staged = watcher.staged
  BY StoppedIs, InvFields
<1>3. current \in [shown : {TRUE}, of : Snapshot, cancelled : BOOLEAN]
  <2>1. watcher.state \in Screens
    BY InvFields DEF Fields
  <2>2. options \in Snapshot
    BY InvFields
  <2>3. CASE watcher.state.shown
    <3>1. watcher.state # NoScreen
      BY <2>3 DEF NoScreen
    <3> QED
      BY <2>1, <2>3, <3>1 DEF Screens
  <2>4. CASE ~watcher.state.shown
    BY <2>2, <2>4 DEF createCheckoutState
  <2> QED
    BY <2>3, <2>4
<1>4. current.of = overlaySwapRefundStaging(watcher.snapshot, watcher.staged)
      /\ (current.cancelled => current.of.pay # "settled")
  <2>1. ScreenIsRemembered
    BY DEF WatcherInv
  <2>2. CASE watcher.state.shown
    BY <2>1, <2>2 DEF ScreenIsRemembered
  <2>3. CASE ~watcher.state.shown
    <3>1. watcher.snapshot = options /\ watcher.staged = NoAddress /\ options.address = NoAddress
      BY <2>1, <2>3 DEF ScreenIsRemembered, WatcherInv
    <3>2. options \in Snapshot
      BY InvFields
    <3>3. overlaySwapRefundStaging(options, NoAddress) = options
      BY <3>1, <3>2 DEF overlaySwapRefundStaging, Snapshot
    <3> QED
      BY <2>3, <3>1, <3>3 DEF createCheckoutState
  <2> QED
    BY <2>2, <2>3
<1> HIDE DEF current
<1>5. /\ shown \in [shown : {TRUE}, of : Snapshot, cancelled : BOOLEAN]
      /\ shown.of = current.of /\ shown.shown = TRUE
      /\ shown.cancelled => shown.of.pay # "settled"
  BY <1>3, <1>4
<1>6. shown \in Screens
  BY <1>5 DEF Screens
<1> HIDE DEF shown, v
<1>7. /\ watcher' \in Fields /\ watcher'.generation = {} /\ watcher'.pending = 0
      /\ watcher'.snapshot = watcher.snapshot /\ watcher'.staged = watcher.staged
      /\ watcher'.state = shown
  BY <1>1, <1>2, <1>6 DEF Fields
<1>8. ReadFrom(watcher'.snapshot)
  BY <1>7 DEF WatcherInv, ReadFrom
<1> QED
  BY <1>1, <1>4, <1>5, <1>7, <1>8, FieldsKeep, InvFields

-----------------------------------------------------------------------------
\* Joining or sending a request leaves one current request, whose answer is unread
\* if it is a new one.
LEMMA FetchKeeps ==
    ASSUME WatcherAssumption, WatcherInv, NEW polled \in BOOLEAN, NEW reloading \in BOOLEAN,
           fetchSnapshot(polled, reloading),
           UNCHANGED <<server, options, controller, refunds, pastDeadline>>
    PROVE  WatcherInv'
<1>1. CASE Shared # {}
  <2>1. /\ watcher' = [watcher EXCEPT !.pollInFlight = @ \/ polled]
        /\ requests' = {IF r \in Shared
                        THEN [r EXCEPT !.polled = @ \/ polled, !.reloading = @ \/ reloading]
                        ELSE r : r \in requests}
    BY <1>1 DEF fetchSnapshot
  <2>2. /\ watcher' \in Fields /\ watcher'.generation = watcher.generation
        /\ watcher'.pending = watcher.pending /\ watcher'.snapshot = watcher.snapshot
        /\ watcher'.state = watcher.state /\ watcher'.staged = watcher.staged
        /\ watcher'.countdown = watcher.countdown
    BY <2>1, InvFields DEF Fields
  <2>3. \A s \in requests' : \E r \in requests :
            /\ s \in StatusRead
            /\ s.id = r.id /\ s.outcome = r.outcome /\ s.answer = r.answer
    <3> SUFFICES ASSUME NEW r \in requests
                 PROVE  LET s == IF r \in Shared
                                 THEN [r EXCEPT !.polled = @ \/ polled, !.reloading = @ \/ reloading]
                                 ELSE r
                        IN  /\ s \in StatusRead
                            /\ s.id = r.id /\ s.outcome = r.outcome /\ s.answer = r.answer
      BY <2>1
    <3> r \in StatusRead
      BY InvFields
    <3> QED
      BY DEF StatusRead
  <2>4. watcher'.pending # 0 => \E s \in requests' : s.id = watcher'.pending
    <3> SUFFICES ASSUME watcher.pending # 0
                 PROVE  \E s \in requests' : s.id = watcher.pending
      BY <2>2
    <3>1. PICK r \in requests : r.id = watcher.pending
      BY InvFields
    <3> DEFINE s == IF r \in Shared
                    THEN [r EXCEPT !.polled = @ \/ polled, !.reloading = @ \/ reloading]
                    ELSE r
    <3>2. s \in requests'
      BY <2>1
    <3>3. s.id = r.id
      BY InvFields DEF StatusRead
    <3> QED
      BY <3>1, <3>2, <3>3
  <2>5. WatcherTypeOK'
    BY <2>2, <2>3, <2>4 DEF WatcherInv, WatcherTypeOK, Fields
  <2>6. OneIsCurrent' /\ RefundIsForGood' /\ ScreenIsRemembered' /\ AnswersAreNewer'
    <3>1. OneIsCurrent' /\ RefundIsForGood' /\ ScreenIsRemembered'
      BY <2>2 DEF WatcherInv, OneIsCurrent, RefundIsForGood, ScreenIsRemembered,
                  overlaySwapRefundStaging
    <3>2. AnswersAreNewer'
      BY <2>2, <2>3 DEF WatcherInv, AnswersAreNewer
    <3> QED
      BY <3>1, <3>2
  <2>7. ReadFrom(watcher.snapshot)' /\ (\A r \in requests : ReadFrom(r.answer))'
    BY <2>2, <2>3 DEF WatcherInv, ReadFrom
  <2> QED
    BY <2>5, <2>6, <2>7 DEF WatcherInv
<1>2. CASE Shared = {}
  <2>1. PICK id \in 1 .. MaxRequests :
            /\ \A r \in requests : r.id # id
            /\ requests' = requests \cup
                   {[id |-> id, polled |-> polled, reloading |-> reloading, outcome |-> "none",
                     answer |-> options]}
            /\ watcher' = [watcher EXCEPT !.pending = id, !.generation = @ \cup {id},
                                          !.pollInFlight = @ \/ polled]
    BY <1>2 DEF fetchSnapshot
  <2>2. watcher.pending = 0 /\ watcher.generation = {}
    BY <1>2, InvFields DEF Shared
  <2>3. /\ watcher' \in Fields /\ watcher'.generation = {id}
        /\ watcher'.pending = id /\ watcher'.snapshot = watcher.snapshot
        /\ watcher'.state = watcher.state /\ watcher'.staged = watcher.staged
        /\ watcher'.countdown = watcher.countdown
    <3>1. watcher' = [watcher EXCEPT !.pending = id, !.generation = {id},
                                     !.pollInFlight = @ \/ polled]
      BY <2>1, <2>2
    <3>2. id \in 0 .. MaxRequests /\ {id} \in SUBSET (1 .. MaxRequests)
      BY DEF WatcherAssumption
    <3>3. watcher \in Fields
      BY InvFields
    <3> QED
      BY <3>1, <3>2, <3>3 DEF Fields
  <2>4. id # 0
    OBVIOUS
  <2> DEFINE new == [id |-> id, polled |-> polled, reloading |-> reloading, outcome |-> "none",
                     answer |-> options]
  <2>5. /\ new \in StatusRead /\ new.id = id /\ new.outcome = "none" /\ new.answer = options
        /\ requests' = requests \cup {new}
    BY <2>1, InvFields DEF StatusRead
  <2> HIDE DEF new
  <2>6. WatcherTypeOK'
    BY <2>3, <2>5 DEF WatcherInv, WatcherTypeOK, Fields
  <2>7. OneIsCurrent' /\ RefundIsForGood' /\ ScreenIsRemembered'
    BY <2>3, <2>4 DEF WatcherInv, OneIsCurrent, RefundIsForGood, ScreenIsRemembered,
                      overlaySwapRefundStaging
  <2>8. AnswersAreNewer'
    BY <2>1, <2>3, <2>5 DEF AnswersAreNewer
  <2>9. ReadFrom(watcher.snapshot)' /\ (\A r \in requests : ReadFrom(r.answer))'
    BY <2>3, <2>5 DEF WatcherInv, ReadFrom
  <2> QED
    BY <2>6, <2>7, <2>8, <2>9 DEF WatcherInv
<1> QED
  BY <1>1, <1>2

\* The countdown shows the same snapshot again.
LEMMA CountdownKeeps == ASSUME WatcherAssumption, WatcherInv, countdown
                        PROVE  WatcherInv'
<1> DEFINE shown == createCheckoutState(watcher.state.of)
<1>1. watcher' = applyState(watcher, shown)
      /\ UNCHANGED <<server, options, requests, controller, refunds, pastDeadline>>
  BY DEF countdown
<1>2. watcher.state.shown
  BY DEF countdown, WatcherInv, ScreenIsRemembered
<1>3. watcher.state.of \in Snapshot
  <2>1. watcher.state # NoScreen /\ watcher.state \in Screens
    BY <1>2, InvFields DEF NoScreen, Fields
  <2> QED
    BY <2>1 DEF Screens
<1>4. /\ shown \in Screens /\ shown.shown /\ shown.shown = TRUE
      /\ shown.of = watcher.state.of /\ shown.cancelled = FALSE
  BY <1>3 DEF createCheckoutState, Screens
<1> HIDE DEF shown
<1>5. /\ watcher' \in Fields /\ SameOrNone(watcher, watcher')
      /\ watcher'.snapshot = watcher.snapshot /\ watcher'.state = shown
      /\ watcher'.staged = watcher.staged
  BY <1>1, <1>4, ApplyIs, InvFields
<1>6. /\ ReadFrom(watcher'.snapshot)
      /\ watcher'.state.of =
              overlaySwapRefundStaging(watcher'.snapshot, watcher'.staged)
  BY <1>2, <1>4, <1>5 DEF WatcherInv, ReadFrom, ScreenIsRemembered
<1>7. /\ watcher'.generation = IF watcher'.pending = 0 THEN {} ELSE {watcher'.pending}
      /\ watcher'.pending # 0 => \E r \in requests' : r.id = watcher'.pending
      /\ \A r \in requests' :
             r.id \in watcher'.generation /\ r.outcome = "answered"
                 /\ watcher'.snapshot.pay = "settled"
             => r.answer.pay = "settled"
  BY <1>1, <1>5, InvFields DEF SameOrNone, WatcherInv, AnswersAreNewer
<1> QED
  BY <1>1, <1>4, <1>5, <1>6, <1>7, FieldsKeep, InvFields

\* The answer a server reads is what it knows now.
LEMMA AnswerKeeps ==
    ASSUME WatcherAssumption, WatcherInv, NEW r \in requests, AnswerRequest(r)
    PROVE  WatcherInv'
<1>1. PICK outcome \in {"answered", "failed", "null"} :
          requests' = (requests \ {r}) \cup
              {[r EXCEPT !.outcome = outcome,
                         !.answer = IF outcome = "answered" THEN server ELSE @]}
  BY DEF AnswerRequest
<1>2. UNCHANGED <<server, options, watcher, controller, refunds, pastDeadline>>
  BY DEF AnswerRequest
<1> DEFINE new == [r EXCEPT !.outcome = outcome,
                            !.answer = IF outcome = "answered" THEN server ELSE @]
<1>3. /\ new \in StatusRead /\ new.id = r.id /\ new.outcome = outcome
      /\ new.answer = IF outcome = "answered" THEN server ELSE r.answer
      /\ requests' = (requests \ {r}) \cup {new}
  BY <1>1, InvFields DEF StatusRead
<1> HIDE DEF new
<1>4. watcher.pending # 0 => \E s \in requests' : s.id = watcher.pending
  BY <1>3, InvFields
<1>5. WatcherTypeOK'
  BY <1>2, <1>3, <1>4 DEF WatcherInv, WatcherTypeOK
<1>6. OneIsCurrent' /\ RefundIsForGood' /\ ScreenIsRemembered'
  BY <1>2 DEF WatcherInv, OneIsCurrent, RefundIsForGood, ScreenIsRemembered,
              overlaySwapRefundStaging
<1>7. ReadFrom(server) /\ ReadFrom(new.answer)
  BY <1>3 DEF ReadFrom, WatcherInv
<1>8. ReadFrom(watcher.snapshot)' /\ (\A s \in requests : ReadFrom(s.answer))'
  BY <1>2, <1>3, <1>7 DEF WatcherInv, ReadFrom
<1>9. AnswersAreNewer'
  <2>1. watcher.snapshot.pay = "settled" => server.pay = "settled"
    BY DEF WatcherInv, ReadFrom
  <2> QED
    BY <1>2, <1>3, <2>1 DEF WatcherInv, AnswersAreNewer
<1> QED
  BY <1>2, <1>5, <1>6, <1>8, <1>9 DEF WatcherInv

\* A request that is over leaves no current one.
LEMMA SettledIs ==
    ASSUME WatcherAssumption, WatcherInv, NEW r \in requests, isCurrentRead(r),
           NEW failed \in BOOLEAN
    PROVE  LET v == Settled(r, failed)
           IN  /\ v \in Fields /\ v.generation = {} /\ v.pending = 0
               /\ v.snapshot = watcher.snapshot /\ v.state = watcher.state
               /\ v.staged = watcher.staged /\ v.countdown = watcher.countdown
<1>1. watcher.generation = {r.id} /\ watcher.pending = r.id
  BY InvFields DEF isCurrentRead
<1>2. Settled(r, failed) =
          [watcher EXCEPT !.generation = {}, !.pending = 0,
                          !.pollInFlight = @ /\ ~r.polled,
                          !.backoff = IF r.polled THEN failed ELSE @]
  <2>1. watcher.generation \ {r.id} = {}
    BY <1>1
  <2> QED
    BY <1>1, <2>1 DEF Settled
<1>3. r.polled \in BOOLEAN /\ 0 \in 0 .. MaxRequests
  BY InvFields DEF StatusRead, WatcherAssumption
<1>4. watcher \in Fields
  BY InvFields
<1> QED
  BY <1>2, <1>3, <1>4 DEF Fields

\* An answer is published only if its request is still current.
LEMMA DeliverKeeps ==
    ASSUME WatcherAssumption, WatcherInv, NEW r \in requests, DeliverRead(r)
    PROVE  WatcherInv'
<1>1. /\ requests' = requests \ {r} /\ r.outcome # "none"
      /\ UNCHANGED <<server, options, controller, refunds, pastDeadline>>
      /\ watcher' =
           CASE ~isCurrentRead(r) -> watcher
             [] isCurrentRead(r) /\ r.outcome # "answered" ->
                    Settled(r, r.outcome = "failed")
             [] OTHER -> publishSnapshot(Settled(r, FALSE), r.answer)
  BY DEF DeliverRead
<1>2. requests' \in SUBSET requests
  BY <1>1
<1>3. CASE ~isCurrentRead(r)
  <2>1. watcher' = watcher
    BY <1>1, <1>3
  <2>2. watcher.pending # 0 => \E s \in requests' : s.id = watcher.pending
    BY <1>1, <1>3, InvFields DEF isCurrentRead
  <2>3. ReadFrom(watcher.snapshot) /\ ScreenIsRemembered /\ AnswersAreNewer
    BY DEF WatcherInv
  <2> QED
    BY <1>1, <1>2, <2>1, <2>2, <2>3, FieldsKeep, InvFields
       DEF ScreenIsRemembered, AnswersAreNewer
<1>4. CASE isCurrentRead(r) /\ r.outcome # "answered"
  <2>1. watcher' = Settled(r, r.outcome = "failed")
    BY <1>1, <1>4
  <2>2. /\ watcher' \in Fields /\ watcher'.generation = {} /\ watcher'.pending = 0
        /\ watcher'.snapshot = watcher.snapshot /\ watcher'.state = watcher.state
        /\ watcher'.staged = watcher.staged /\ watcher'.countdown = watcher.countdown
    BY <1>4, <2>1, SettledIs
  <2>3. ReadFrom(watcher'.snapshot) /\ ScreenIsRemembered
    BY <2>2 DEF WatcherInv, ReadFrom
  <2> QED
    BY <1>1, <1>2, <2>2, <2>3, FieldsKeep, InvFields DEF ScreenIsRemembered
<1>5. CASE isCurrentRead(r) /\ r.outcome = "answered"
  <2> DEFINE w == Settled(r, FALSE)
  <2>1. watcher' = publishSnapshot(w, r.answer)
    BY <1>1, <1>5
  <2>2. w \in Fields /\ w.generation = {} /\ w.pending = 0
    BY <1>5, SettledIs
  <2>3. ReadFrom(r.answer) /\ r.answer \in Snapshot
    BY InvFields DEF WatcherInv
  <2> HIDE DEF w
  <2> QED
    BY <1>1, <1>2, <2>1, <2>2, <2>3, PublishKeeps, InvFields
<1> QED
  BY <1>3, <1>4, <1>5

\* The end of a back-off changes no field the invariant is about.
LEMMA BackoffKeeps == ASSUME WatcherAssumption, WatcherInv, BackoffOver
                      PROVE  WatcherInv'
<1>1. /\ watcher' = [watcher EXCEPT !.backoff = FALSE]
      /\ UNCHANGED <<server, options, requests, controller, refunds, pastDeadline>>
  BY DEF BackoffOver
<1>2. /\ watcher' \in Fields /\ watcher'.generation = watcher.generation
      /\ watcher'.pending = watcher.pending /\ watcher'.snapshot = watcher.snapshot
      /\ watcher'.state = watcher.state /\ watcher'.staged = watcher.staged
      /\ watcher'.countdown = watcher.countdown
  BY <1>1, InvFields DEF Fields
<1>3. ReadFrom(watcher'.snapshot) /\ ScreenIsRemembered /\ AnswersAreNewer
  BY <1>2 DEF WatcherInv, ReadFrom
<1> QED
  BY <1>1, <1>2, <1>3, FieldsKeep, InvFields DEF ScreenIsRemembered, AnswersAreNewer

-----------------------------------------------------------------------------
\* Showing the remembered snapshot with another address under review.
LEMMA StageKeeps ==
    ASSUME WatcherAssumption, WatcherInv, NEW address \in Addresses \cup {NoAddress},
           watcher' = stageSwapInvoice(watcher, address),
           UNCHANGED <<server, options, requests, pastDeadline>>,
           controller' \in SUBSET (1 .. MaxRefunds),
           refunds' \subseteq [id : 1 .. MaxRefunds, address : Addresses, confirm : BOOLEAN,
                               outcome : {"none", "answered", "failed"}]
    PROVE  WatcherInv'
<1> DEFINE w == [watcher EXCEPT !.staged = address]
<1>1. watcher' = publishSnapshot(w, watcher.snapshot)
  BY DEF stageSwapInvoice
<1>2. w \in Fields /\ w.generation = watcher.generation /\ w.pending = watcher.pending
  BY InvFields DEF Fields
<1>3. ReadFrom(watcher.snapshot) /\ AnswersAreNewer
  BY DEF WatcherInv
<1> HIDE DEF w
<1> QED
  BY <1>1, <1>2, <1>3, PublishKeeps, InvFields DEF AnswersAreNewer

\* Clearing the address under review shows the remembered snapshot.
LEMMA ClearKeeps == ASSUME WatcherAssumption, WatcherInv, clearSwapRefundStaging
                    PROVE  WatcherInv'
  BY StageKeeps, InvFields DEF clearSwapRefundStaging

\* The answer to a refund call puts its address under review, or is dropped.
LEMMA DeliverRefundKeeps ==
    ASSUME WatcherAssumption, WatcherInv, NEW refund \in refunds,
           DeliverRefund(refund)
    PROVE  WatcherInv'
<1>1. /\ refunds' = refunds \ {refund} /\ controller' = controller \ {refund.id}
      /\ UNCHANGED <<server, options, requests, pastDeadline>>
  BY DEF DeliverRefund
<1>2. /\ controller' \in SUBSET (1 .. MaxRefunds)
      /\ refunds' \subseteq [id : 1 .. MaxRefunds, address : Addresses, confirm : BOOLEAN,
                             outcome : {"none", "answered", "failed"}]
  BY <1>1, InvFields
<1>3. CASE watcher' = watcher
  <2>1. ReadFrom(watcher.snapshot) /\ ScreenIsRemembered /\ AnswersAreNewer
    BY DEF WatcherInv
  <2> QED
    BY <1>1, <1>2, <1>3, <2>1, FieldsKeep, InvFields DEF ScreenIsRemembered, AnswersAreNewer
<1>4. CASE watcher' = stageSwapInvoice(watcher, refund.address)
  <2>1. refund.address \in Addresses \cup {NoAddress}
    BY InvFields
  <2> QED
    BY <1>1, <1>2, <1>4, <2>1, StageKeeps
<1> QED
  BY <1>3, <1>4 DEF DeliverRefund

\* A refund call changes nothing until it is answered.
LEMMA SubmitKeeps ==
    ASSUME WatcherAssumption, WatcherInv, NEW address \in Addresses,
           NEW confirm \in BOOLEAN, submitSwapRefund(address, confirm)
    PROVE  WatcherInv'
<1>1. /\ controller' \in SUBSET (1 .. MaxRefunds)
      /\ refunds' \subseteq [id : 1 .. MaxRefunds, address : Addresses, confirm : BOOLEAN,
                             outcome : {"none", "answered", "failed"}]
      /\ UNCHANGED <<server, options, watcher, requests, pastDeadline>>
  BY InvFields DEF submitSwapRefund
<1>2. ReadFrom(watcher.snapshot) /\ ScreenIsRemembered /\ AnswersAreNewer
  BY DEF WatcherInv
<1> QED
  BY <1>1, <1>2, FieldsKeep, InvFields DEF ScreenIsRemembered, AnswersAreNewer

\* The server only learns more: what was read of it stays true.
LEMMA LearningKeeps ==
    ASSUME WatcherAssumption, WatcherInv,
           UNCHANGED <<options, watcher, requests, controller, pastDeadline>>,
           server' \in Snapshot,
           server.pay = "settled" => server'.pay = "settled",
           server.address \in {NoAddress, server'.address},
           RefundIsForGood',
           refunds' \subseteq [id : 1 .. MaxRefunds, address : Addresses, confirm : BOOLEAN,
                               outcome : {"none", "answered", "failed"}]
    PROVE  WatcherInv'
<1>1. WatcherTypeOK'
  BY DEF WatcherInv, WatcherTypeOK
<1>2. OneIsCurrent' /\ ScreenIsRemembered' /\ AnswersAreNewer'
  BY DEF WatcherInv, OneIsCurrent, ScreenIsRemembered, AnswersAreNewer,
         overlaySwapRefundStaging
<1>3. ReadFrom(watcher.snapshot)' /\ (\A r \in requests : ReadFrom(r.answer))'
  BY DEF WatcherInv, ReadFrom
<1> QED
  BY <1>1, <1>2, <1>3 DEF WatcherInv

\* The provider takes an address only while it has none.
LEMMA AnswerRefundKeeps ==
    ASSUME WatcherAssumption, WatcherInv, NEW refund \in refunds,
           AnswerRefund(refund)
    PROVE  WatcherInv'
<1>1. UNCHANGED <<options, watcher, requests, controller, pastDeadline>>
  BY DEF AnswerRefund
<1>2. PICK result \in {"answered", "failed"} :
          /\ refund.confirm /\ server.provider # "refund_required" => result = "failed"
          /\ refunds' = (refunds \ {refund}) \cup {[refund EXCEPT !.outcome = result]}
          /\ server' = IF refund.confirm /\ result = "answered"
                       THEN [server EXCEPT !.provider = "refund_pending",
                                           !.address = refund.address]
                       ELSE server
  BY DEF AnswerRefund
<1>3. refunds' \subseteq [id : 1 .. MaxRefunds, address : Addresses, confirm : BOOLEAN,
                          outcome : {"none", "answered", "failed"}]
  BY <1>2, InvFields
<1>4. CASE server' = server
  BY <1>1, <1>3, <1>4, LearningKeeps, InvFields DEF WatcherInv, RefundIsForGood
<1>5. CASE refund.confirm /\ result = "answered"
  <2>1. server.provider = "refund_required"
    BY <1>2, <1>5
  <2>2. server.address = NoAddress
    BY <2>1 DEF WatcherInv, RefundIsForGood
  <2>3. refund.address \in Addresses /\ server \in Snapshot
    BY InvFields
  <2>4. /\ server' \in Snapshot /\ server'.pay = server.pay
        /\ server'.provider = "refund_pending"
    BY <1>2, <1>5, <2>3 DEF Snapshot, Provider
  <2>5. RefundIsForGood'
    BY <2>4 DEF RefundIsForGood
  <2> QED
    BY <1>1, <1>3, <2>2, <2>4, <2>5, LearningKeeps
<1> QED
  BY <1>2, <1>4, <1>5

\* The attempt and its provider move on, and a settled attempt stays so.
LEMMA ServerMovesKeeps == ASSUME WatcherAssumption, WatcherInv, ServerMoves
                          PROVE  WatcherInv'
<1>1. UNCHANGED <<options, watcher, requests, controller, refunds, pastDeadline>>
  BY DEF ServerMoves
<1>2. server \in Snapshot /\ RefundIsForGood
  BY InvFields DEF WatcherInv
<1>3. /\ server' \in Snapshot /\ server'.address = server.address
      /\ server.pay = "settled" => server'.pay = "settled"
      /\ RefundIsForGood'
  BY <1>2 DEF ServerMoves, Snapshot, Provider, RefundIsForGood
<1> QED
  BY <1>1, <1>3, LearningKeeps, InvFields

\* Time passing and stuttering change no field.
LEMMA DeadlineKeeps == ASSUME WatcherAssumption, WatcherInv,
                              DeadlinePasses \/ UNCHANGED watcherVars
                       PROVE  WatcherInv'
<1>1. /\ UNCHANGED <<server, options, watcher, requests, controller, refunds>>
      /\ pastDeadline' \in BOOLEAN
  BY InvFields DEF DeadlinePasses, watcherVars
<1>2. ReadFrom(watcher.snapshot) /\ ScreenIsRemembered /\ AnswersAreNewer
  BY DEF WatcherInv
<1> QED
  BY <1>1, <1>2, FieldsKeep, InvFields DEF ScreenIsRemembered, AnswersAreNewer

\* The invariant holds of a watcher that was not started.
LEMMA WatcherStarts ==
    ASSUME WatcherAssumption, WatcherInit
    PROVE  WatcherInv
<1>1. server \in Snapshot /\ server.pay = "pending" /\ server.address = NoAddress
  BY DEF WatcherInit, Snapshot, Provider, WatcherAssumption
<1>2. options = server /\ requests = {} /\ refunds = {} /\ controller = {} /\ pastDeadline = FALSE
  BY DEF WatcherInit
<1>3. /\ watcher.generation = {} /\ watcher.pending = 0 /\ watcher.staged = NoAddress
      /\ watcher.snapshot = server /\ watcher.state.shown = FALSE /\ watcher.countdown = FALSE
  BY DEF WatcherInit, NoScreen
<1>4. watcher \in Fields
  <2>1. 0 \in 0 .. MaxRequests /\ NoScreen \in Screens
    BY DEF WatcherAssumption, Screens
  <2> QED
    BY <1>1, <2>1 DEF WatcherInit, Fields
<1>5. WatcherTypeOK
  BY <1>1, <1>2, <1>3, <1>4 DEF WatcherTypeOK, Fields
<1> QED
  BY <1>1, <1>2, <1>3, <1>5 DEF WatcherInv, OneIsCurrent, RefundIsForGood, ReadFrom,
                                ScreenIsRemembered, AnswersAreNewer

\* Every step of the watcher, its payer and its server keeps the invariant.
LEMMA WatcherSteps ==
    ASSUME WatcherAssumption, WatcherInv, [WatcherNext]_watcherVars
    PROVE  WatcherInv'
<1>1. CASE start \/ stop \/ cancel
  BY <1>1, StartKeeps, StopKeeps, CancelKeeps
<1>2. CASE reloadState
  BY <1>2, FetchKeeps DEF reloadState
<1>3. CASE poll
  BY <1>3, FetchKeeps DEF poll
<1>4. CASE countdown \/ BackoffOver
  BY <1>4, CountdownKeeps, BackoffKeeps
<1>5. CASE \E r \in requests : AnswerRequest(r) \/ DeliverRead(r)
  BY <1>5, AnswerKeeps, DeliverKeeps
<1>6. CASE \E address \in Addresses, confirm \in BOOLEAN : submitSwapRefund(address, confirm)
  BY <1>6, SubmitKeeps
<1>7. CASE \E refund \in refunds : AnswerRefund(refund) \/ DeliverRefund(refund)
  BY <1>7, AnswerRefundKeeps, DeliverRefundKeeps
<1>8. CASE clearSwapRefundStaging \/ ServerMoves
  BY <1>8, ClearKeeps, ServerMovesKeeps
<1>9. CASE DeadlinePasses \/ UNCHANGED watcherVars
  BY <1>9, DeadlineKeeps
<1> QED
  BY <1>1, <1>2, <1>3, <1>4, <1>5, <1>6, <1>7, <1>8, <1>9 DEF WatcherNext

\* The refund address on the payer's screen is the one under review or the one the
\* server was given, and no read blanks it (CheckoutWatcher.stageSwapInvoice).
THEOREM AddressIsCurrent ==
    ASSUME WatcherAssumption
    PROVE  WatcherSpec => []RefundAddressIsCurrent
<1>1. WatcherInit => WatcherInv
  BY WatcherStarts
<1>2. WatcherInv /\ [WatcherNext]_watcherVars => WatcherInv'
  BY WatcherSteps
<1>3. WatcherInv => RefundAddressIsCurrent
  <2> SUFFICES ASSUME WatcherInv, watcher.state.shown, watcher.state.of.provider # "none"
               PROVE  /\ watcher.state.of.address \in {NoAddress, watcher.staged, server.address}
                      /\ watcher.staged # NoAddress => watcher.state.of.address # NoAddress
    BY DEF RefundAddressIsCurrent
  <2>1. watcher.snapshot.address \in {NoAddress, server.address}
    BY DEF WatcherInv, ReadFrom
  <2>2. watcher.state.of =
            overlaySwapRefundStaging(watcher.snapshot, watcher.staged)
    BY DEF WatcherInv, ScreenIsRemembered
  <2> QED
    BY <2>1, <2>2, OverlayIs, InvFields
<1> QED
  BY <1>1, <1>2, <1>3, PTL DEF WatcherSpec

\* The types of the watcher, for any number of requests and refund calls.
THEOREM WatcherTypes ==
    ASSUME WatcherAssumption
    PROVE  WatcherSpec => []WatcherTypeOK
<1>1. WatcherInit => WatcherInv
  BY WatcherStarts
<1>2. WatcherInv /\ [WatcherNext]_watcherVars => WatcherInv'
  BY WatcherSteps
<1>3. WatcherInv => WatcherTypeOK
  BY DEF WatcherInv
<1> QED
  BY <1>1, <1>2, <1>3, PTL DEF WatcherSpec

\* What publishing shows, of a snapshot that is settled.
LEMMA PaidIsShown ==
    ASSUME WatcherAssumption, WatcherInv, NEW w \in Fields,
           NEW snapshot \in Snapshot, snapshot.pay = "settled",
           watcher' = publishSnapshot(w, snapshot)
    PROVE  PaidScreen(watcher')
<1>1. /\ watcher'.state.shown = TRUE /\ watcher'.state.cancelled = FALSE
      /\ watcher'.state.of = overlaySwapRefundStaging(snapshot, w.staged)
  BY PublishIs, InvFields
<1>2. watcher'.state.of.pay = "settled"
  BY <1>1, OverlayIs DEF Fields
<1> QED
  BY <1>1, <1>2 DEF PaidScreen

\* A paid screen remembers a settled snapshot.
LEMMA PaidIsRemembered ==
    ASSUME WatcherAssumption, WatcherInv, PaidScreen(watcher)
    PROVE  watcher.snapshot.pay = "settled"
<1>1. watcher.state.of = overlaySwapRefundStaging(watcher.snapshot, watcher.staged)
  BY DEF WatcherInv, ScreenIsRemembered, PaidScreen
<1> QED
  BY <1>1, OverlayIs, InvFields DEF PaidScreen

\* No answer takes a paid screen back: one to a current request is as new.
LEMMA DeliveryKeepsPaid ==
    ASSUME WatcherAssumption, WatcherInv, NEW r \in requests, DeliverRead(r),
           PaidScreen(watcher)
    PROVE  PaidScreen(watcher')
<1>1. watcher' =
           CASE ~isCurrentRead(r) -> watcher
             [] isCurrentRead(r) /\ r.outcome # "answered" ->
                    Settled(r, r.outcome = "failed")
             [] OTHER -> publishSnapshot(Settled(r, FALSE), r.answer)
  BY DEF DeliverRead
<1>2. CASE ~isCurrentRead(r)
  BY <1>1, <1>2
<1>3. CASE isCurrentRead(r) /\ r.outcome # "answered"
  <2>1. watcher' = Settled(r, r.outcome = "failed")
    BY <1>1, <1>3
  <2>2. watcher'.state = watcher.state
    BY <1>3, <2>1, SettledIs
  <2> QED
    BY <2>2 DEF PaidScreen
<1>4. CASE isCurrentRead(r) /\ r.outcome = "answered"
  <2>1. watcher' = publishSnapshot(Settled(r, FALSE), r.answer)
    BY <1>1, <1>4
  <2>2. r.answer.pay = "settled" /\ r.answer \in Snapshot
    BY <1>4, PaidIsRemembered, InvFields DEF WatcherInv, AnswersAreNewer, isCurrentRead
  <2>3. Settled(r, FALSE) \in Fields
    BY <1>4, SettledIs
  <2> QED
    BY <2>1, <2>2, <2>3, PaidIsShown
<1> QED
  BY <1>2, <1>3, <1>4

\* Neither does putting another address under review.
LEMMA StagingKeepsPaid ==
    ASSUME WatcherAssumption, WatcherInv, NEW address \in Addresses \cup {NoAddress},
           watcher' = stageSwapInvoice(watcher, address), PaidScreen(watcher)
    PROVE  PaidScreen(watcher')
<1>1. watcher' = publishSnapshot([watcher EXCEPT !.staged = address], watcher.snapshot)
  BY DEF stageSwapInvoice
<1>2. [watcher EXCEPT !.staged = address] \in Fields
  BY InvFields DEF Fields
<1> QED
  BY <1>1, <1>2, PaidIsRemembered, PaidIsShown, InvFields

\* A paid screen never flips back to waiting: not by an answer read before the
\* settlement, not by staging a refund (checkout-watcher.ts:290).
THEOREM PaidStaysPaid ==
    ASSUME WatcherAssumption
    PROVE  WatcherSpec => PaidNeverFlipsBack
<1>1. WatcherInit => WatcherInv
  BY WatcherStarts
<1>2. WatcherInv /\ [WatcherNext]_watcherVars => WatcherInv'
  BY WatcherSteps
<1>3. WatcherInv /\ [WatcherNext]_watcherVars => [KeepsPaidScreen]_watcherVars
  <2> SUFFICES ASSUME WatcherInv, WatcherNext, PaidScreen(watcher), ~start
               PROVE  PaidScreen(watcher')
    BY DEF KeepsPaidScreen
  <2>1. CASE stop
    <3>1. watcher'.state = watcher.state
      BY <2>1, StoppedIs, InvFields DEF stop
    <3> QED
      BY <3>1 DEF PaidScreen
  <2>2. CASE cancel
    <3> DEFINE v == Stopped(watcher)
               shown == [watcher.state EXCEPT !.cancelled =
                             @ \/ watcher.state.of.pay # "settled"]
    <3>1. watcher' = [v EXCEPT !.state = shown]
      BY <2>2 DEF cancel, PaidScreen
    <3>2. v \in Fields
      BY StoppedIs, InvFields
    <3>3. watcher.state \in [shown : {TRUE}, of : Snapshot, cancelled : BOOLEAN]
      <4>1. watcher.state # NoScreen /\ watcher.state \in Screens
        BY InvFields DEF NoScreen, PaidScreen, Fields
      <4> QED
        BY <4>1 DEF Screens
    <3> HIDE DEF v
    <3>4. watcher'.state = shown
      BY <3>1, <3>2 DEF Fields
    <3> QED
      BY <3>3, <3>4 DEF PaidScreen
  <2>3. CASE reloadState \/ poll \/ BackoffOver
    <3>1. watcher'.state = watcher.state
      BY <2>3, InvFields DEF reloadState, poll, BackoffOver,
                             fetchSnapshot, Fields
    <3> QED
      BY <3>1 DEF PaidScreen
  <2>4. CASE countdown
    <3> DEFINE shown == createCheckoutState(watcher.state.of)
    <3>1. watcher' = applyState(watcher, shown)
      BY <2>4 DEF countdown
    <3>2. watcher.state.of \in Snapshot
      <4>1. watcher.state # NoScreen /\ watcher.state \in Screens
        BY InvFields DEF NoScreen, PaidScreen, Fields
      <4> QED
        BY <4>1 DEF Screens
    <3>3. /\ shown \in Screens /\ shown.shown /\ ~shown.cancelled
          /\ shown.of = watcher.state.of
      BY <3>2 DEF createCheckoutState, Screens
    <3> HIDE DEF shown
    <3>4. watcher'.state = shown
      BY <3>1, <3>3, ApplyIs, InvFields
    <3> QED
      BY <3>3, <3>4 DEF PaidScreen
  <2>5. CASE \E r \in requests : DeliverRead(r)
    BY <2>5, DeliveryKeepsPaid
  <2>6. CASE clearSwapRefundStaging
    BY <2>6, StagingKeepsPaid DEF clearSwapRefundStaging
  <2>7. CASE \E refund \in refunds : DeliverRefund(refund)
    <3>1. PICK refund \in refunds : DeliverRefund(refund)
      BY <2>7
    <3>2. refund.address \in Addresses
      BY InvFields
    <3> QED
      BY <3>1, <3>2, StagingKeepsPaid DEF DeliverRefund
  <2>8. CASE \/ \E r \in requests : AnswerRequest(r)
             \/ \E address \in Addresses, confirm \in BOOLEAN :
                    submitSwapRefund(address, confirm)
             \/ \E refund \in refunds : AnswerRefund(refund)
             \/ ServerMoves \/ DeadlinePasses
    <3>1. watcher' = watcher
      BY <2>8 DEF AnswerRequest, submitSwapRefund, AnswerRefund,
                  ServerMoves, DeadlinePasses
    <3> QED
      BY <3>1
  <2> QED
    BY <2>1, <2>2, <2>3, <2>4, <2>5, <2>6, <2>7, <2>8 DEF WatcherNext
<1> QED
  BY <1>1, <1>2, <1>3, PTL DEF WatcherSpec, PaidNeverFlipsBack

-----------------------------------------------------------------------------
(***************************************************************************)
(* The checkout element and the session in it, for any number of orders,   *)
(* assets and actions in flight.                                           *)
(***************************************************************************)
\* Types; the session may keep another identity than the attributes name when a
\* remembered Lightning attempt is resumed (element-checkout-session.ts:283).
ElementTypes ==
    /\ reference \in Orders /\ asked \in Orders /\ connected \in BOOLEAN
    /\ session \in [identity : Orders, current : SUBSET Ids,
                    mintingLightning : BOOLEAN, startingSwapAsset : Assets \cup {None},
                    unavailable : SUBSET Assets]
    /\ screen \in [order : Orders \cup {None}, invoice : {"none", "payable", "stale"}]
    /\ selection \in [started : (Orders \X Assets) \cup {None},
                      dismissed : (Orders \X Assets) \cup {None},
                      selected : Assets \cup {None}]
    /\ actions \subseteq Action
    /\ attempts \subseteq Orders \X Assets
    /\ wanted \in Assets \cup {None}
    /\ create \in [creating : BOOLEAN, createdKey : Orders \cup {None},
                   createError : BOOLEAN, ignoreResume : BOOLEAN]
    /\ creates \subseteq [id : CreateIds, order : Orders,
                          step : {"prepare", "resume", "mint"},
                          mint : ActionIds \cup {None}]

\* The quotes and starts nobody withdrew.
Starting == {a \in actions : a.kind # "mint" /\ a.id \in session.current}

\* At most one, of the asset the payer wants.
OneStart ==
    \A a \in Starting :
        /\ session.startingSwapAsset = a.asset /\ wanted = a.asset
        /\ \A b \in Starting : b = a

PanelInv == OneStart /\ PanelFollowsThePayer

\* The runs nobody withdrew.
Running == {run \in creates : run.id \in session.current}

\* What is current is of the order shown, and of the order asked for.
CurrentIsOfThisOrder ==
    /\ reference = asked /\ session.identity = reference
    /\ \A run \in Running : run.order = reference
    /\ \A a \in actions : a.id \in session.current => a.order = reference
    /\ OnlyThisOrderIsShown
    /\ \A run \in creates : run.step # "mint"

\* Nothing is asked for before the order is shown, and it is not shown before the
\* one run that prepares it ends; an element out of the document does neither.
PreparedFirst ==
    /\ create.creating \/ create.createdKey = None \/ create.createError => screen.order = None
    /\ create.createError => ~create.creating
    /\ create.createdKey \in {None, reference}
    /\ Running # {} => create.creating /\ create.createdKey # None
    /\ \A run, other \in Running : run = other
    /\ ~connected => session.current = {} /\ ~create.creating
    /\ screen.order = None =>
           /\ wanted = None /\ selection.selected = None
           /\ \A a \in actions : a.id \notin session.current

ElementInv ==
    /\ ElementTypes /\ PanelInv
    /\ Resume # "lightning" => CurrentIsOfThisOrder /\ PreparedFirst

\* createCheckoutSession's and createElementCheckoutSession's variables.
SessionFields ==
    [identity : Orders, current : SUBSET Ids,
     mintingLightning : BOOLEAN, startingSwapAsset : Assets \cup {None},
     unavailable : SUBSET Assets]

CreateFields ==
    [creating : BOOLEAN, createdKey : Orders \cup {None},
     createError : BOOLEAN, ignoreResume : BOOLEAN]

Runs == [id : CreateIds, order : Orders, step : {"prepare", "resume", "mint"},
         mint : ActionIds \cup {None}]

\* A reset session is of the given order, with nothing current.
LEMMA ResetIs ==
    ASSUME NEW s \in SessionFields, NEW order \in Orders
    PROVE  /\ Reset(s, order) \in SessionFields
           /\ Reset(s, order).identity = order
           /\ Reset(s, order).current = {}
  BY DEF Reset, Invalidated, SessionFields

\* An invalidated session keeps its order, with nothing current.
LEMMA InvalidatedIs ==
    ASSUME NEW s \in SessionFields
    PROVE  /\ Invalidated(s) \in SessionFields
           /\ Invalidated(s).identity = s.identity
           /\ Invalidated(s).current = {}
  BY DEF Invalidated, SessionFields

\* A prepare is under way or done for the order, or a run of it begins.
LEMMA CreateIs ==
    ASSUME NEW order \in Orders, NEW s \in SessionFields, NEW c \in CreateFields,
           creates \subseteq Runs, createCheckout(order, s, c)
    PROVE  /\ session' \in SessionFields /\ create' \in CreateFields /\ creates' \subseteq Runs
           /\ \/ /\ c.creating \/ c.createdKey = order
                 /\ session' = s /\ create' = c /\ creates' = creates
              \/ \E run \in Runs :
                    /\ creates' = creates \cup {run} /\ \A other \in creates : other.id # run.id
                    /\ run.order = order /\ run.step = "prepare"
                    /\ session'.identity = order /\ session'.current = {run.id}
                    /\ create'.creating = TRUE /\ create'.createdKey = order
                    /\ create'.createError = FALSE
<1>1. CASE c.creating \/ c.createdKey = order
  BY <1>1 DEF createCheckout
<1>2. CASE ~(c.creating \/ c.createdKey = order)
  <2>1. PICK id \in {i \in CreateIds : \A run \in creates : run.id # i} :
            /\ session' = [Reset(s, order) EXCEPT !.current = {id}]
            /\ create' = [c EXCEPT !.creating = TRUE, !.createdKey = order,
                                   !.createError = FALSE]
            /\ creates' = creates \cup
                   {[id |-> id, order |-> order, step |-> "prepare", mint |-> None]}
    BY <1>2 DEF createCheckout
  <2>2. Reset(s, order) \in SessionFields /\ Reset(s, order).identity = order
    BY ResetIs
  <2>3. {id} \in SUBSET Ids
    BY DEF Ids
  <2>4. session' \in SessionFields /\ session'.identity = order /\ session'.current = {id}
    BY <2>1, <2>2, <2>3 DEF SessionFields
  <2>5. /\ create' \in CreateFields /\ create'.creating = TRUE /\ create'.createdKey = order
        /\ create'.createError = FALSE
    BY <2>1 DEF CreateFields
  <2> DEFINE run == [id |-> id, order |-> order, step |-> "prepare", mint |-> None]
  <2>6. run \in Runs /\ run.id = id /\ run.order = order /\ run.step = "prepare"
    BY DEF Runs
  <2>7. creates' = creates \cup {run} /\ \A other \in creates : other.id # run.id
    BY <2>1
  <2> HIDE DEF run
  <2> QED
    BY <2>4, <2>5, <2>6, <2>7
<1> QED
  BY <1>1, <1>2

\* The records of the element have their types.
LEMMA ElementFields ==
    ASSUME ElementInv
    PROVE  /\ session \in SessionFields /\ create \in CreateFields /\ creates \subseteq Runs
           /\ reference \in Orders /\ asked \in Orders
  BY DEF ElementInv, ElementTypes, SessionFields, CreateFields, Runs

\* The fields a mint, a quote or a start has.
LEMMA ActionIs ==
    ASSUME NEW a \in Action
    PROVE  /\ a.id \in ActionIds /\ a.order \in Orders
           /\ a.kind \in {"mint", "quote", "start"}
           /\ a.kind # "mint" => /\ a.asset \in Assets
                                 /\ a \in [id : ActionIds, kind : {"quote", "start"},
                                           order : Orders, asset : Assets,
                                           outcome : {"open", "ok", "failed", "unavailable"}]
           /\ a.kind = "mint" => a \in [id : ActionIds, kind : {"mint"}, order : Orders,
                                        outcome : {"open", "ok", "failed"}]
  BY DEF Action

\* When only runs of createCheckout are current, no start is.
LEMMA NothingStarting ==
    ASSUME SessionAssumption, actions' \subseteq Action,
           session'.current \subseteq CreateIds
    PROVE  /\ Starting' = {} /\ \A a \in actions' : a.id \notin session'.current
<1>1. \A a \in actions' : a.id \notin session'.current
  BY ActionIs DEF SessionAssumption
<1> QED
  BY <1>1 DEF Starting

-----------------------------------------------------------------------------
\* Re-pointed or started over: everything learnt of the old order is dropped.
LEMMA ForgetKeeps ==
    ASSUME SessionAssumption, ElementInv, NEW order \in Orders,
           NEW ignoreResume \in BOOLEAN, ForgetAndCreate(order, ignoreResume),
           reference' = order, asked' \in Orders,
           Resume # "lightning" => asked' = order
    PROVE  ElementInv'
<1> DEFINE forgotten == [creating |-> FALSE, createdKey |-> None, createError |-> FALSE,
                         ignoreResume |-> ignoreResume]
           s == Reset(session, order)
<1>1. /\ IF connected THEN createCheckout(order, s, forgotten)
         ELSE session' = s /\ create' = forgotten /\ creates' = creates
      /\ screen' = NothingShown /\ selection' = NothingSelected
      /\ wanted' = None
      /\ UNCHANGED <<actions, attempts, connected>>
  BY DEF ForgetAndCreate
<1>2. /\ forgotten \in CreateFields /\ forgotten.creating = FALSE
      /\ forgotten.createdKey = None /\ forgotten.createError = FALSE
  BY DEF CreateFields
<1>3. s \in SessionFields /\ s.identity = order /\ s.current = {}
  BY ResetIs, ElementFields
<1>4. order # None
  BY DEF SessionAssumption
<1> HIDE DEF s, forgotten
<1>5. /\ screen'.order = None /\ screen'.invoice = "none"
      /\ screen' \in [order : Orders \cup {None}, invoice : {"none", "payable", "stale"}]
      /\ selection' \in [started : (Orders \X Assets) \cup {None},
                         dismissed : (Orders \X Assets) \cup {None},
                         selected : Assets \cup {None}]
      /\ selection'.started = None /\ selection'.selected = None
  BY <1>1 DEF NothingShown, NothingSelected
<1>6. /\ session' \in SessionFields /\ create' \in CreateFields /\ creates' \subseteq Runs
      /\ session'.identity = order /\ session'.current \subseteq CreateIds
      /\ create'.createError = FALSE /\ create'.createdKey \in {None, order}
      /\ \/ session'.current = {} /\ creates' = creates /\ create'.creating = FALSE
         \/ /\ connected
            /\ \E run \in Runs :
                /\ creates' = creates \cup {run} /\ \A other \in creates : other.id # run.id
                /\ run.order = order /\ run.step = "prepare"
                /\ session'.current = {run.id}
                /\ create'.creating = TRUE /\ create'.createdKey = order
  <2>1. CASE connected
    <3>1. createCheckout(order, s, forgotten)
      BY <1>1, <2>1
    <3>2. ~(forgotten.creating \/ forgotten.createdKey = order)
      BY <1>2, <1>4
    <3>3. /\ session' \in SessionFields /\ create' \in CreateFields /\ creates' \subseteq Runs
          /\ \E run \in Runs :
                /\ creates' = creates \cup {run} /\ \A other \in creates : other.id # run.id
                /\ run.order = order /\ run.step = "prepare"
                /\ session'.identity = order /\ session'.current = {run.id}
                /\ create'.creating = TRUE /\ create'.createdKey = order
                /\ create'.createError = FALSE
      BY <3>1, <3>2, <1>2, <1>3, CreateIs, ElementFields
    <3> QED
      BY <2>1, <3>3 DEF Runs
  <2>2. CASE ~connected
    BY <1>1, <1>2, <1>3, <2>2, ElementFields
  <2> QED
    BY <2>1, <2>2
<1>7. ElementTypes'
  BY <1>1, <1>5, <1>6 DEF ElementInv, ElementTypes, SessionFields, CreateFields, Runs
<1>8. Starting' = {} /\ \A a \in actions' : a.id \notin session'.current
  BY <1>1, <1>6, NothingStarting DEF ElementInv, ElementTypes
<1>9. PanelInv'
  BY <1>5, <1>8 DEF PanelInv, OneStart, PanelFollowsThePayer
<1>10. ASSUME Resume # "lightning"
       PROVE  CurrentIsOfThisOrder' /\ PreparedFirst'
  <2>1. /\ \A run \in Running' : run.order = order /\ create'.creating /\ create'.createdKey # None
        /\ \A run, other \in Running' : run = other
    BY <1>4, <1>6 DEF Running
  <2>2. \A run \in creates' : run.step # "mint"
    BY <1>6, <1>10 DEF ElementInv, CurrentIsOfThisOrder
  <2>3. CurrentIsOfThisOrder'
    BY <1>5, <1>6, <1>8, <1>10, <2>1, <2>2 DEF CurrentIsOfThisOrder, OnlyThisOrderIsShown
  <2>4. connected' = connected
    BY <1>1
  <2>5. PreparedFirst'
    BY <1>1, <1>5, <1>6, <1>8, <2>1, <2>4 DEF PreparedFirst
  <2> QED
    BY <2>3, <2>5
<1> QED
  BY <1>7, <1>9, <1>10 DEF ElementInv

\* The host re-points the element, or the payer starts over.
LEMMA PointedKeeps ==
    ASSUME SessionAssumption, ElementInv,
           HostMoves \/ startOver
    PROVE  ElementInv'
<1>1. CASE HostMoves
  <2>1. PICK order \in Orders : HostSetsReference(order)
    BY <1>1 DEF HostMoves
  <2> QED
    BY <2>1, ForgetKeeps DEF HostSetsReference
<1>2. CASE startOver
  <2>1. /\ ForgetAndCreate(reference, TRUE)
        /\ reference' = reference /\ asked' = asked
    BY <1>2 DEF startOver
  <2>2. Resume # "lightning" => asked = reference
    BY DEF ElementInv, CurrentIsOfThisOrder
  <2> QED
    BY <2>1, <2>2, ForgetKeeps, ElementFields
<1> QED
  BY <1>1, <1>2

\* A prepare that begins, or begins again, with the screen as it is.
LEMMA BeginKeeps ==
    ASSUME SessionAssumption, ElementInv,
           retryCreateCheckout \/ connectedCallback
    PROVE  ElementInv'
<1> DEFINE c == IF retryCreateCheckout
                THEN [create EXCEPT !.createdKey = None, !.createError = FALSE] ELSE create
<1>1. /\ createCheckout(reference, session, c)
      /\ UNCHANGED <<reference, screen, selection, actions, attempts, wanted, asked>>
      /\ connected' = TRUE
  BY DEF retryCreateCheckout, connectedCallback, ElementInv, ElementTypes
<1>2. c \in CreateFields
  BY ElementFields DEF CreateFields
<1>3. reference # None
  BY ElementFields DEF SessionAssumption
<1>4. CASE session' = session /\ create' = c /\ creates' = creates /\ (c.creating \/ c.createdKey = reference)
  <2>1. ElementTypes'
    BY <1>1, <1>2, <1>4 DEF ElementInv, ElementTypes, CreateFields
  <2>2. PanelInv'
    BY <1>1, <1>4 DEF ElementInv, PanelInv, OneStart, Starting, PanelFollowsThePayer
  <2>3. ASSUME Resume # "lightning"
        PROVE  CurrentIsOfThisOrder' /\ PreparedFirst'
    <3>1. PreparedFirst /\ CurrentIsOfThisOrder
      BY <2>3 DEF ElementInv
    <3>2. ~retryCreateCheckout
      <4> SUFFICES ASSUME retryCreateCheckout
                   PROVE  FALSE
        OBVIOUS
      <4>1. create.createError /\ c.creating = create.creating /\ c.createdKey = None
        BY ElementFields DEF retryCreateCheckout, CreateFields
      <4> QED
        BY <1>3, <1>4, <3>1, <4>1 DEF PreparedFirst
    <3>3. create' = create
      BY <1>4, <3>2
    <3>4. CurrentIsOfThisOrder'
      BY <1>1, <1>4, <3>1 DEF CurrentIsOfThisOrder, Running, OnlyThisOrderIsShown
    <3>5. PreparedFirst'
      BY <1>1, <1>4, <3>1, <3>3 DEF PreparedFirst, Running
    <3> QED
      BY <3>4, <3>5
  <2> QED
    BY <2>1, <2>2, <2>3 DEF ElementInv
<1>5. ASSUME NEW run \in Runs,
             session' \in SessionFields, create' \in CreateFields, creates' \subseteq Runs,
             creates' = creates \cup {run}, \A other \in creates : other.id # run.id,
             run.order = reference, run.step = "prepare",
             session'.identity = reference, session'.current = {run.id},
             create'.creating = TRUE, create'.createdKey = reference,
             create'.createError = FALSE
      PROVE  ElementInv'
  <2>1. ElementTypes'
    BY <1>1, <1>5 DEF ElementInv, ElementTypes, SessionFields, CreateFields, Runs
  <2>2. session'.current \subseteq CreateIds
    BY <1>5 DEF Runs
  <2>3. Starting' = {} /\ \A a \in actions' : a.id \notin session'.current
    BY <1>1, <2>2, NothingStarting DEF ElementInv, ElementTypes
  <2>4. PanelInv'
    BY <1>1, <2>3 DEF ElementInv, PanelInv, OneStart, PanelFollowsThePayer
  <2>5. ASSUME Resume # "lightning"
        PROVE  CurrentIsOfThisOrder' /\ PreparedFirst'
    <3>1. PreparedFirst /\ CurrentIsOfThisOrder
      BY <2>5 DEF ElementInv
    <3>2. Running' = {run}
      BY <1>5 DEF Running
    <3>3. CurrentIsOfThisOrder'
      BY <1>1, <1>5, <2>3, <3>1, <3>2 DEF CurrentIsOfThisOrder, OnlyThisOrderIsShown
    <3>4. screen.order = None
      <4>1. CASE retryCreateCheckout
        BY <3>1, <4>1 DEF PreparedFirst, retryCreateCheckout
      <4>2. CASE ~retryCreateCheckout
        <5>1. create = c /\ ~connected
          BY <4>2 DEF connectedCallback
        <5>2. create.createdKey # reference
          <6>1. ~connected /\ ~create.creating
            BY <3>1, <5>1 DEF PreparedFirst
          <6> SUFFICES ASSUME create.createdKey = reference
                       PROVE  FALSE
            OBVIOUS
          <6>2. creates' = creates
            BY <1>1, <5>1 DEF createCheckout
          <6> QED
            BY <1>5, <6>2
        <5> QED
          BY <3>1, <5>2 DEF PreparedFirst
      <4> QED
        BY <4>1, <4>2
    <3>5. PreparedFirst'
      BY <1>1, <1>3, <1>5, <2>3, <3>1, <3>2, <3>4 DEF PreparedFirst
    <3> QED
      BY <3>3, <3>5
  <2> QED
    BY <2>1, <2>4, <2>5 DEF ElementInv
<1> HIDE DEF c
<1>6. \/ session' = session /\ create' = c /\ creates' = creates /\ (c.creating \/ c.createdKey = reference)
      \/ /\ session' \in SessionFields /\ create' \in CreateFields /\ creates' \subseteq Runs
         /\ \E run \in Runs :
                /\ creates' = creates \cup {run} /\ \A other \in creates : other.id # run.id
                /\ run.order = reference /\ run.step = "prepare"
                /\ session'.identity = reference /\ session'.current = {run.id}
                /\ create'.creating = TRUE /\ create'.createdKey = reference
                /\ create'.createError = FALSE
  BY <1>1, <1>2, CreateIs, ElementFields
<1> QED
  BY <1>4, <1>5, <1>6

\* A disconnected element has nothing current.
LEMMA DisconnectKeeps ==
    ASSUME SessionAssumption, ElementInv, disconnectedCallback
    PROVE  ElementInv'
<1>1. /\ session' = Reset(session, reference) /\ connected' = FALSE
      /\ create' = [create EXCEPT !.creating = FALSE,
                                  !.createdKey = IF create.creating THEN None ELSE @]
      /\ UNCHANGED <<reference, screen, selection, actions, attempts, wanted, asked, creates>>
  BY DEF disconnectedCallback, Disposed
<1>2. /\ session' \in SessionFields /\ session'.identity = reference /\ session'.current = {}
  BY <1>1, ResetIs, ElementFields
<1>3. /\ create' \in CreateFields /\ create'.creating = FALSE
      /\ create'.createError = create.createError
      /\ create'.createdKey = IF create.creating THEN None ELSE create.createdKey
  BY <1>1, ElementFields DEF CreateFields
<1>4. ElementTypes'
  BY <1>1, <1>2, <1>3 DEF ElementInv, ElementTypes, SessionFields, CreateFields
<1>5. Starting' = {} /\ \A a \in actions' : a.id \notin session'.current
  BY <1>2 DEF Starting
<1>6. PanelInv'
  BY <1>1, <1>5 DEF ElementInv, PanelInv, OneStart, PanelFollowsThePayer
<1>7. ASSUME Resume # "lightning"
      PROVE  CurrentIsOfThisOrder' /\ PreparedFirst'
  <2>1. PreparedFirst /\ CurrentIsOfThisOrder /\ Running' = {}
    BY <1>2, <1>7 DEF ElementInv, Running
  <2>2. CurrentIsOfThisOrder'
    BY <1>1, <1>2, <1>5, <2>1 DEF CurrentIsOfThisOrder, OnlyThisOrderIsShown
  <2>3. PreparedFirst'
    BY <1>1, <1>2, <1>3, <1>5, <2>1 DEF PreparedFirst
  <2> QED
    BY <2>2, <2>3
<1> QED
  BY <1>4, <1>6, <1>7 DEF ElementInv

-----------------------------------------------------------------------------
\* The open panel stays the one asked for when no other start becomes current.
LEMMA PanelStays ==
    ASSUME PanelInv, Starting' \subseteq Starting,
           session'.startingSwapAsset = session.startingSwapAsset \/ Starting' = {},
           wanted' = wanted, selection'.selected = selection.selected
    PROVE  PanelInv'
  BY DEF PanelInv, OneStart, PanelFollowsThePayer

\* The fields of a run of createCheckout().
LEMMA RunIs ==
    ASSUME NEW run \in Runs
    PROVE  /\ run.id \in CreateIds /\ run.order \in Orders
           /\ run.step \in {"prepare", "resume", "mint"}
           /\ [run EXCEPT !.step = "resume"] \in Runs
           /\ [run EXCEPT !.step = "resume"].id = run.id
           /\ [run EXCEPT !.step = "resume"].order = run.order
           /\ [run EXCEPT !.step = "resume"].step = "resume"
  BY DEF Runs

\* A run that goes on, or ends without an answer to show.
LEMMA SilentRunKeeps ==
    ASSUME SessionAssumption, ElementInv, NEW run \in creates,
           \/ RunWithdrawn(run) \/ RunFailed(run) \/ AskForResume(run)
    PROVE  ElementInv'
<1>1. UNCHANGED <<reference, screen, selection, actions, attempts, wanted, asked, connected>>
  BY DEF RunWithdrawn, RunFailed, AskForResume, sessionVars
<1>2. run \in Runs
  BY ElementFields
<1>3. /\ session' \in SessionFields /\ session'.identity = session.identity
      /\ session'.startingSwapAsset = session.startingSwapAsset
      /\ session'.current \subseteq session.current
      /\ create' \in CreateFields /\ creates' \subseteq Runs
  <2>1. session \in SessionFields /\ create \in CreateFields /\ creates \subseteq Runs
    BY ElementFields
  <2>2. CASE RunFailed(run)
    <3>1. /\ create' = [create EXCEPT !.createError = TRUE, !.creating = FALSE]
          /\ session' = [session EXCEPT !.current = @ \ {run.id}]
          /\ creates' = creates \ {run}
      BY <2>2 DEF RunFailed
    <3>2. create' \in CreateFields
      BY <2>1, <3>1 DEF CreateFields
    <3> QED
      BY <2>1, <3>1, <3>2 DEF SessionFields
  <2>3. CASE RunWithdrawn(run)
    BY <2>1, <2>3 DEF RunWithdrawn, sessionVars
  <2>4. CASE AskForResume(run)
    <3>1. /\ creates' = (creates \ {run}) \cup {[run EXCEPT !.step = "resume"]}
          /\ session' = session /\ create' = create
      BY <2>4 DEF AskForResume, sessionVars
    <3> QED
      BY <1>2, <2>1, <3>1, RunIs
  <2> QED
    BY <2>2, <2>3, <2>4
<1>4. ElementTypes'
  BY <1>1, <1>3 DEF ElementInv, ElementTypes, SessionFields, CreateFields, Runs
<1>5. PanelInv'
  BY <1>1, <1>3, PanelStays DEF ElementInv, Starting
<1>6. ASSUME Resume # "lightning"
      PROVE  CurrentIsOfThisOrder' /\ PreparedFirst'
  <2>1. PreparedFirst /\ CurrentIsOfThisOrder
    BY <1>6 DEF ElementInv
  <2>2. \A other \in creates' :
            /\ other.step # "mint"
            /\ \E same \in creates : same.id = other.id /\ same.order = other.order
    <3>1. CASE creates' = creates \ {run}
      BY <2>1, <3>1 DEF CurrentIsOfThisOrder
    <3>2. CASE creates' = (creates \ {run}) \cup {[run EXCEPT !.step = "resume"]}
      <4> DEFINE next == [run EXCEPT !.step = "resume"]
      <4>1. next.step # "mint" /\ next.id = run.id /\ next.order = run.order
        BY <1>2, RunIs
      <4> HIDE DEF next
      <4> QED
        BY <2>1, <3>2, <4>1 DEF CurrentIsOfThisOrder, next
    <3> QED
      BY <3>1, <3>2 DEF RunWithdrawn, RunFailed, AskForResume
  <2>3. CurrentIsOfThisOrder'
    BY <1>1, <1>3, <2>1, <2>2 DEF CurrentIsOfThisOrder, Running, OnlyThisOrderIsShown
  <2>4. Running' # {} => Running # {}
    BY <1>3, <2>2 DEF Running
  <2>5. CASE ~RunFailed(run)
    <3>1. create' = create /\ session' = session
      BY <2>5 DEF RunWithdrawn, AskForResume, sessionVars
    <3>2. \A one, other \in Running' : one = other
      <4>1. CASE creates' = creates \ {run}
        BY <2>1, <3>1, <4>1 DEF PreparedFirst, Running
      <4>2. CASE creates' = (creates \ {run}) \cup {[run EXCEPT !.step = "resume"]}
                 /\ isCurrent(run.id)
        <5>1. run \in Running
          BY <4>2 DEF Running, isCurrent
        <5>2. Running' \subseteq {[run EXCEPT !.step = "resume"]}
          BY <2>1, <3>1, <4>2, <5>1 DEF PreparedFirst, Running
        <5> QED
          BY <5>2
      <4> QED
        BY <2>5, <4>1, <4>2 DEF RunWithdrawn, AskForResume
    <3> QED
      BY <1>1, <1>3, <2>1, <2>3, <2>4, <3>1, <3>2 DEF PreparedFirst
  <2>6. CASE RunFailed(run)
    <3>1. /\ run \in Running /\ session'.current = session.current \ {run.id}
          /\ creates' = creates \ {run}
      BY <2>6, ElementFields DEF RunFailed, isCurrent, Running, SessionFields
    <3>2. /\ create'.createError = TRUE /\ create'.creating = FALSE
          /\ create'.createdKey = create.createdKey
      BY <2>6, ElementFields DEF RunFailed, CreateFields
    <3>3. screen.order = None
      BY <2>1, <3>1 DEF PreparedFirst
    <3>4. Running' = {}
      BY <2>1, <3>1 DEF PreparedFirst, Running
    <3> QED
      BY <1>1, <1>3, <2>1, <2>3, <3>2, <3>3, <3>4 DEF PreparedFirst
  <2> QED
    BY <2>3, <2>5, <2>6
<1> QED
  BY <1>4, <1>5, <1>6 DEF ElementInv

\* A run that is over: its order's attributes are written, and it is not current.
LEMMA FinishedIs ==
    ASSUME ElementInv, NEW run \in creates, Finished(run, session)
    PROVE  /\ reference' = run.order /\ run.order \in Orders
           /\ creates' = creates \ {run}
           /\ UNCHANGED <<attempts, asked, connected>>
           /\ session' \in SessionFields /\ session'.identity = session.identity
           /\ session'.startingSwapAsset = session.startingSwapAsset
           /\ session'.current = session.current \ {run.id}
           /\ create' \in CreateFields /\ create'.createdKey = create.createdKey
           /\ create'.createError = create.createError
           /\ create'.creating =
                  IF run.id \in session.current /\ run.order = session.identity
                  THEN FALSE ELSE create.creating
<1>1. run \in Runs /\ session \in SessionFields /\ create \in CreateFields
  BY ElementFields
<1> QED
  BY <1>1, RunIs DEF Finished, SessionFields, CreateFields

\* The order is shown, and the swap that was remembered: nothing was asked for before.
LEMMA PreparedKeeps ==
    ASSUME SessionAssumption, ElementInv, NEW run \in creates,
           \/ Prepared(run)
           \/ /\ ResumedLightning(run) \/ AfterMint(run)
              /\ Finished(run, session) /\ UNCHANGED actions
    PROVE  ElementInv'
<1>1. /\ reference' = run.order /\ run.order \in Orders
      /\ creates' = creates \ {run}
      /\ UNCHANGED <<attempts, asked, connected>>
      /\ session' \in SessionFields /\ session'.identity = session.identity
      /\ session'.startingSwapAsset = session.startingSwapAsset
      /\ session'.current = session.current \ {run.id}
      /\ create' \in CreateFields /\ create'.createdKey = create.createdKey
      /\ create'.createError = create.createError
      /\ create'.creating =
             IF run.id \in session.current /\ run.order = session.identity
             THEN FALSE ELSE create.creating
  BY FinishedIs DEF Prepared
<1>2. actions' = actions
  BY DEF Prepared
<1>3. \/ selection' = selection /\ wanted' = wanted
      \/ /\ Prepared(run) /\ Resume = "swap"
         /\ \E asset \in Assets :
                /\ selection' = [started |-> <<run.order, asset>>, dismissed |-> None,
                                 selected |-> asset]
                /\ wanted' = asset
  <2>1. CASE Prepared(run)
    <3>1. CASE UNCHANGED <<selection, wanted>>
      BY <3>1
    <3>2. CASE run.step = "resume"
      <4>1. Resume = "swap"
        BY <2>1, <3>2 DEF Prepared
      <4> QED
        BY <2>1, <4>1 DEF Prepared
    <3> QED
      BY <2>1, <3>1, <3>2 DEF Prepared
  <2>2. CASE ResumedLightning(run) \/ AfterMint(run)
    BY <2>2 DEF ResumedLightning, AfterMint
  <2> QED
    BY <2>1, <2>2
<1>4. screen' \in [order : Orders \cup {None}, invoice : {"none", "payable", "stale"}]
  <2>1. \/ screen' = screen
        \/ \E invoice \in {"none", "payable", "stale"} :
               screen' = [order |-> run.order, invoice |-> invoice]
    <3>1. CASE Prepared(run)
      BY <3>1 DEF Prepared
    <3>2. CASE ResumedLightning(run)
      BY <3>2 DEF ResumedLightning
    <3>3. CASE AfterMint(run)
      BY <3>3 DEF AfterMint
    <3> QED
      BY <3>1, <3>2, <3>3
  <2> QED
    BY <1>1, <2>1 DEF ElementInv, ElementTypes
<1>5. selection' \in [started : (Orders \X Assets) \cup {None},
                      dismissed : (Orders \X Assets) \cup {None},
                      selected : Assets \cup {None}]
      /\ wanted' \in Assets \cup {None}
  BY <1>1, <1>3 DEF ElementInv, ElementTypes
<1>6. ElementTypes'
  BY <1>1, <1>2, <1>4, <1>5 DEF ElementInv, ElementTypes, SessionFields, CreateFields, Runs
<1>7. Starting' \subseteq Starting
  BY <1>1, <1>2 DEF Starting
<1>8. Resume # "lightning" =>
          /\ PreparedFirst /\ CurrentIsOfThisOrder
          /\ Prepared(run) /\ run \in Running /\ screen.order = None
          /\ \A a \in actions : a.id \notin session.current
  <2>1. Resume # "lightning" => Prepared(run)
    BY DEF ElementInv, CurrentIsOfThisOrder, ResumedLightning, AfterMint
  <2>2. Prepared(run) => run \in Running
    BY DEF Prepared, isCurrent, Running
  <2> QED
    BY <2>1, <2>2 DEF ElementInv, PreparedFirst
<1>9. PanelInv'
  <2>1. CASE selection' = selection /\ wanted' = wanted
    BY <1>1, <1>7, <2>1, PanelStays DEF ElementInv
  <2>2. CASE Resume = "swap"
    <3>1. Starting' = {}
      BY <1>7, <1>8, <2>2 DEF Starting
    <3>2. selection'.selected \in {None, wanted'}
      BY <1>3 DEF ElementInv, PanelInv, PanelFollowsThePayer
    <3> QED
      BY <3>1, <3>2 DEF PanelInv, OneStart, PanelFollowsThePayer
  <2> QED
    BY <1>3, <2>1, <2>2
<1>10. ASSUME Resume # "lightning"
       PROVE  CurrentIsOfThisOrder' /\ PreparedFirst'
  <2>1. /\ PreparedFirst /\ CurrentIsOfThisOrder
        /\ Prepared(run) /\ run \in Running /\ screen.order = None
        /\ \A a \in actions : a.id \notin session.current
    BY <1>8, <1>10
  <2>2. run.order = reference /\ run.id \in session.current /\ session.identity = reference
    BY <2>1 DEF CurrentIsOfThisOrder, Running
  <2>3. Running' = {} /\ \A a \in actions' : a.id \notin session'.current
    BY <1>1, <1>2, <2>1 DEF PreparedFirst, Running
  <2>4. screen'.order = reference /\ reference \in Orders
    BY <2>1, <2>2, ElementFields DEF Prepared
  <2>5. reference # None
    BY <2>4 DEF SessionAssumption
  <2>6. selection'.started # None => selection'.started[1] = reference
    BY <1>3, <2>1, <2>2 DEF CurrentIsOfThisOrder, OnlyThisOrderIsShown
  <2>7. CurrentIsOfThisOrder'
    BY <1>1, <2>1, <2>2, <2>3, <2>4, <2>6 DEF CurrentIsOfThisOrder, OnlyThisOrderIsShown
  <2>8. create'.creating = FALSE
    BY <1>1, <2>2
  <2>9. PreparedFirst'
    <3>1. create.createdKey # None /\ ~create.createError /\ connected /\ create.createdKey \in {None, reference}
      BY <2>1 DEF PreparedFirst, Running
    <3> QED
      BY <1>1, <2>2, <2>3, <2>4, <2>5, <2>8, <3>1 DEF PreparedFirst
  <2> QED
    BY <2>7, <2>9
<1> QED
  BY <1>6, <1>9, <1>10 DEF ElementInv

\* A remembered Lightning attempt with too little time left is minted again.
LEMMA RemintKeeps ==
    ASSUME SessionAssumption, ElementInv, NEW run \in creates,
           ResumedLightning(run), ~Finished(run, session) \/ actions' # actions
    PROVE  ElementInv'
<1>1. /\ Resume = "lightning" /\ UNCHANGED <<selection, wanted>>
      /\ UNCHANGED <<reference, attempts, asked, connected, create>>
      /\ screen' = [order |-> run.order, invoice |-> "stale"]
  BY DEF ResumedLightning
<1>2. PICK id \in FreeIds :
          /\ session' = [session EXCEPT !.mintingLightning = TRUE, !.current = @ \cup {id}]
          /\ actions' = actions \cup
                 {[id |-> id, kind |-> "mint", order |-> run.order, outcome |-> "open"]}
          /\ creates' = (creates \ {run}) \cup {[run EXCEPT !.step = "mint", !.mint = id]}
  BY DEF ResumedLightning
<1>3. /\ id \in ActionIds /\ \A a \in actions : a.id # id
      /\ run \in Runs /\ session \in SessionFields
  BY ElementFields DEF FreeIds
<1>4. /\ session' \in SessionFields /\ session'.startingSwapAsset = session.startingSwapAsset
      /\ session'.current = session.current \cup {id}
  BY <1>2, <1>3 DEF SessionFields, Ids
<1>5. [run EXCEPT !.step = "mint", !.mint = id] \in Runs /\ run.order \in Orders
  BY <1>3 DEF Runs
<1> DEFINE mint == [id |-> id, kind |-> "mint", order |-> run.order, outcome |-> "open"]
<1>6. mint \in Action /\ mint.kind = "mint" /\ actions' = actions \cup {mint}
  BY <1>2, <1>3, <1>5 DEF Action
<1> HIDE DEF mint
<1>7. ElementTypes'
  <2>1. actions' \subseteq Action
    BY <1>6 DEF ElementInv, ElementTypes
  <2>2. creates' \subseteq Runs
    BY <1>2, <1>5 DEF ElementInv, ElementTypes, Runs
  <2>3. screen' \in [order : Orders \cup {None}, invoice : {"none", "payable", "stale"}]
    BY <1>1, <1>5
  <2> QED
    BY <1>1, <1>4, <2>1, <2>2, <2>3 DEF ElementInv, ElementTypes, SessionFields, Runs
<1>8. Starting' \subseteq Starting
  BY <1>3, <1>4, <1>6 DEF Starting
<1>9. PanelInv'
  BY <1>1, <1>4, <1>8, PanelStays DEF ElementInv
<1> QED
  BY <1>1, <1>7, <1>9 DEF ElementInv

\* Every step of a run keeps the invariant.
LEMMA RunKeeps ==
    ASSUME SessionAssumption, ElementInv, NEW run \in creates, Run(run)
    PROVE  ElementInv'
<1>1. CASE \/ RunWithdrawn(run) \/ RunFailed(run) \/ AskForResume(run)
  BY <1>1, SilentRunKeeps
<1>2. CASE Prepared(run)
  BY <1>2, PreparedKeeps
<1>3. CASE AfterMint(run)
  <2>1. Finished(run, session) /\ UNCHANGED actions
    BY <1>3 DEF AfterMint
  <2> QED
    BY <1>3, <2>1, PreparedKeeps
<1>4. CASE ResumedLightning(run)
  BY <1>4, PreparedKeeps, RemintKeeps
<1> QED
  BY <1>1, <1>2, <1>3, <1>4 DEF Run

-----------------------------------------------------------------------------
\* A step of the session: the host and the runs of createCheckout() stay, and what
\* becomes current is of the order that is shown.
LEMMA SessionStays ==
    ASSUME SessionAssumption, ElementInv, UNCHANGED ownVars,
           reference' = reference, session' \in SessionFields, PanelInv',
           screen' \in [order : Orders \cup {None}, invoice : {"none", "payable", "stale"}],
           selection' \in [started : (Orders \X Assets) \cup {None},
                           dismissed : (Orders \X Assets) \cup {None},
                           selected : Assets \cup {None}],
           actions' \subseteq Action, attempts' \subseteq Orders \X Assets,
           wanted' \in Assets \cup {None},
           session'.identity = session.identity,
           \A id \in CreateIds : id \in session'.current => id \in session.current,
           ~connected => session'.current \subseteq session.current,
           Resume # "lightning" /\ CurrentIsOfThisOrder /\ PreparedFirst =>
               /\ screen'.order = screen.order
               /\ \A a \in actions' : a.id \in session'.current =>
                      a.order = reference /\ screen.order # None
               /\ screen.order = None => wanted' = None /\ selection'.selected = None
               /\ selection'.started # None => selection'.started[1] = reference
    PROVE  ElementInv'
<1>1. UNCHANGED <<asked, connected, create, creates>>
  BY DEF ownVars
<1>2. ElementTypes'
  BY <1>1 DEF ElementInv, ElementTypes, SessionFields
<1>3. ASSUME Resume # "lightning"
      PROVE  CurrentIsOfThisOrder' /\ PreparedFirst'
  <2>1. CurrentIsOfThisOrder /\ PreparedFirst
    BY <1>3 DEF ElementInv
  <2>2. Running' \subseteq Running
    BY <1>1, ElementFields DEF Running, Runs
  <2>3. CurrentIsOfThisOrder'
    BY <1>1, <1>3, <2>1, <2>2 DEF CurrentIsOfThisOrder, OnlyThisOrderIsShown
  <2>4. PreparedFirst'
    BY <1>1, <1>3, <2>1, <2>2 DEF PreparedFirst
  <2> QED
    BY <2>3, <2>4
<1> QED
  BY <1>2, <1>3 DEF ElementInv

\* The same, with what the lemmas above need of the state.
LEMMA ElementParts ==
    ASSUME ElementInv
    PROVE  /\ session \in SessionFields /\ reference \in Orders
           /\ screen \in [order : Orders \cup {None}, invoice : {"none", "payable", "stale"}]
           /\ selection \in [started : (Orders \X Assets) \cup {None},
                             dismissed : (Orders \X Assets) \cup {None},
                             selected : Assets \cup {None}]
           /\ actions \subseteq Action /\ attempts \subseteq Orders \X Assets
           /\ wanted \in Assets \cup {None} /\ PanelInv
           /\ CurrentIsOfThisOrder /\ PreparedFirst =>
                /\ \A a \in actions : a.id \in session.current =>
                       a.order = reference /\ screen.order # None
                /\ screen.order = None => wanted = None /\ selection.selected = None
                /\ selection.started # None => selection.started[1] = reference
                /\ screen.order \in {None, reference}
  BY DEF ElementInv, ElementTypes, SessionFields, CurrentIsOfThisOrder, PreparedFirst,
         OnlyThisOrderIsShown

\* Neither an invoice that ages nor a poll that folds a swap in asks for anything.
LEMMA AgeKeeps ==
    ASSUME SessionAssumption, ElementInv, UNCHANGED ownVars,
           InvoiceAges \/ PollFoldsSwap
    PROVE  ElementInv'
<1>1. UNCHANGED <<reference, session, actions, attempts, wanted>>
  BY DEF InvoiceAges, PollFoldsSwap
<1>2. /\ screen' \in [order : Orders \cup {None}, invoice : {"none", "payable", "stale"}]
      /\ screen'.order = screen.order
  BY ElementParts DEF InvoiceAges, PollFoldsSwap
<1>3. /\ selection' \in [started : (Orders \X Assets) \cup {None},
                         dismissed : (Orders \X Assets) \cup {None},
                         selected : Assets \cup {None}]
      /\ selection'.selected = selection.selected
      /\ selection'.started = selection.started
            \/ (selection'.started # None => selection'.started[1] = reference)
  <2>1. CASE InvoiceAges
    BY <2>1, ElementParts DEF InvoiceAges
  <2>2. CASE PollFoldsSwap
    <3>1. PICK attempt \in attempts :
              attempt[1] = reference /\ selection' = [selection EXCEPT !.started = attempt]
      BY <2>2 DEF PollFoldsSwap
    <3> QED
      BY <3>1, ElementParts
  <2> QED
    BY <2>1, <2>2
<1>4. PanelInv'
  BY <1>1, <1>3, PanelStays, ElementParts DEF Starting
<1> QED
  BY <1>1, <1>2, <1>3, <1>4, SessionStays, ElementParts

\* Leaving a panel withdraws what is current.
LEMMA LeaveKeeps ==
    ASSUME SessionAssumption, ElementInv, UNCHANGED ownVars,
           LeaveSwap
    PROVE  ElementInv'
<1>1. /\ session' = Invalidated(session) /\ wanted' = None
      /\ UNCHANGED <<reference, screen, actions, attempts>>
  BY DEF LeaveSwap
<1>2. PICK dismissed \in {selection.dismissed, selection.started} :
          selection' = [selection EXCEPT !.selected = None, !.dismissed = dismissed]
  BY DEF LeaveSwap
<1>3. /\ selection' \in [started : (Orders \X Assets) \cup {None},
                         dismissed : (Orders \X Assets) \cup {None},
                         selected : Assets \cup {None}]
      /\ selection'.selected = None /\ selection'.started = selection.started
  BY <1>2, ElementParts
<1>4. /\ session' \in SessionFields /\ session'.identity = session.identity
      /\ session'.current = {}
  BY <1>1, InvalidatedIs, ElementFields
<1>5. PanelInv'
  BY <1>3, <1>4 DEF PanelInv, OneStart, Starting, PanelFollowsThePayer
<1> QED
  BY <1>1, <1>3, <1>4, <1>5, SessionStays, ElementParts

\* A mint is posted for the order that is shown.
LEMMA MintKeeps ==
    ASSUME SessionAssumption, ElementInv, UNCHANGED ownVars,
           connected, screen.order # None, ensureLightning
    PROVE  ElementInv'
<1>1. PICK id \in ActionIds : PostMint(id)
  BY DEF ensureLightning
<1> DEFINE mint == [id |-> id, kind |-> "mint", order |-> reference, outcome |-> "open"]
<1>2. /\ \A a \in actions : a.id # id
      /\ session' = [session EXCEPT !.mintingLightning = TRUE, !.current = @ \cup {id}]
      /\ actions' = actions \cup {mint}
      /\ UNCHANGED <<reference, screen, selection, attempts, wanted>>
  BY <1>1 DEF PostMint, FreeIds
<1>3. /\ mint \in Action /\ mint.kind = "mint" /\ mint.id = id
      /\ mint.order = reference
  BY ElementFields DEF Action
<1> HIDE DEF mint
<1>4. /\ session' \in SessionFields /\ session'.identity = session.identity
      /\ session'.startingSwapAsset = session.startingSwapAsset
      /\ session'.current = session.current \cup {id}
  BY <1>2, ElementFields DEF SessionFields, Ids
<1>5. Starting' \subseteq Starting
  BY <1>2, <1>3, <1>4 DEF Starting
<1>6. PanelInv'
  BY <1>2, <1>4, <1>5, PanelStays, ElementParts
<1>7. \A c \in CreateIds : c \in session'.current => c \in session.current
  BY <1>4 DEF SessionAssumption
<1> QED
  BY <1>2, <1>3, <1>4, <1>6, <1>7, SessionStays, ElementParts

\* The invoice of a current mint is of the order that is shown.
LEMMA MintAnsweredKeeps ==
    ASSUME SessionAssumption, ElementInv, UNCHANGED ownVars,
           NEW action \in actions, MintAnswered(action)
    PROVE  ElementInv'
<1>1. /\ actions' = actions \ {action}
      /\ UNCHANGED <<reference, selection, attempts, wanted>>
  BY DEF MintAnswered
<1>2. /\ session' \in SessionFields /\ session'.identity = session.identity
      /\ session'.startingSwapAsset = session.startingSwapAsset
      /\ session'.current \subseteq session.current
  <2>1. session \in SessionFields
    BY ElementFields
  <2>2. \/ session' = session
        \/ session' = [session EXCEPT !.current = @ \ {action.id}, !.mintingLightning = FALSE]
    BY DEF MintAnswered
  <2> QED
    BY <2>1, <2>2 DEF SessionFields
<1>3. action.order \in Orders
  BY ActionIs, ElementParts
<1>4. /\ screen' \in [order : Orders \cup {None}, invoice : {"none", "payable", "stale"}]
      /\ \/ screen'.order = screen.order
         \/ screen'.order = action.order /\ action.id \in session.current
  BY <1>3, ElementParts DEF MintAnswered, isCurrent
<1>5. CurrentIsOfThisOrder /\ PreparedFirst => screen'.order = screen.order
  BY <1>4, ElementParts
<1>6. Starting' \subseteq Starting
  BY <1>1, <1>2 DEF Starting
<1>7. PanelInv'
  BY <1>1, <1>2, <1>6, PanelStays, ElementParts
<1> QED
  BY <1>1, <1>2, <1>4, <1>5, <1>7, SessionStays, ElementParts

\* A quote is posted only while no other start is current.
LEMMA StartSwapKeeps ==
    ASSUME SessionAssumption, ElementInv, UNCHANGED ownVars,
           connected, NEW asset \in Assets, startSwap(asset)
    PROVE  ElementInv'
<1>1. /\ screen.order # None /\ selection.selected \in {None, asset}
      /\ session.startingSwapAsset = None /\ wanted' = asset
      /\ UNCHANGED <<reference, screen, attempts>>
  BY DEF startSwap, ReopenSwap, PostQuote, MayAsk
<1>2. Starting = {}
  <2>1. \A a \in Starting : a.asset \in Assets /\ session.startingSwapAsset = a.asset
    BY ActionIs, ElementParts DEF Starting, PanelInv, OneStart
  <2> QED
    BY <1>1, <2>1 DEF SessionAssumption
<1>3. CASE ReopenSwap(asset)
  <2>1. /\ UNCHANGED <<session, actions>>
        /\ selection' = [selection EXCEPT !.selected = asset]
    BY <1>3 DEF ReopenSwap
  <2>2. /\ selection' \in [started : (Orders \X Assets) \cup {None},
                           dismissed : (Orders \X Assets) \cup {None},
                           selected : Assets \cup {None}]
        /\ selection'.selected = asset /\ selection'.started = selection.started
    BY <2>1, ElementParts
  <2>3. PanelInv'
    BY <1>1, <1>2, <2>1, <2>2 DEF PanelInv, OneStart, Starting, PanelFollowsThePayer
  <2> QED
    BY <1>1, <2>1, <2>2, <2>3, SessionStays, ElementParts
<1>4. CASE PostQuote(asset)
  <2>1. PICK id \in FreeIds :
            /\ session' = [session EXCEPT !.startingSwapAsset = asset, !.current = @ \cup {id}]
            /\ actions' = actions \cup
                   {[id |-> id, kind |-> "quote", order |-> reference, asset |-> asset,
                     outcome |-> "open"]}
    BY <1>4 DEF PostQuote
  <2>2. selection' = selection
    BY <1>4 DEF PostQuote
  <2> DEFINE quote == [id |-> id, kind |-> "quote", order |-> reference, asset |-> asset,
                       outcome |-> "open"]
  <2>3. id \in ActionIds /\ \A a \in actions : a.id # id
    BY DEF FreeIds
  <2>4. /\ quote \in Action /\ quote.id = id /\ quote.asset = asset
        /\ quote.order = reference /\ actions' = actions \cup {quote}
    BY <2>1, <2>3, ElementFields DEF Action
  <2> HIDE DEF quote
  <2>5. /\ session' \in SessionFields /\ session'.identity = session.identity
        /\ session'.startingSwapAsset = asset
        /\ session'.current = session.current \cup {id}
    BY <2>1, <2>3, ElementFields DEF SessionFields, Ids
  <2>6. Starting' \subseteq {quote}
    BY <1>2, <2>3, <2>4, <2>5 DEF Starting
  <2>7. PanelInv'
    BY <1>1, <2>2, <2>4, <2>5, <2>6 DEF PanelInv, OneStart, PanelFollowsThePayer
  <2>8. \A c \in CreateIds : c \in session'.current => c \in session.current
    BY <2>3, <2>5 DEF SessionAssumption
  <2> QED
    BY <1>1, <2>2, <2>3, <2>4, <2>5, <2>7, <2>8, SessionStays, ElementParts
<1> QED
  BY <1>3, <1>4 DEF startSwap

\* The fields a start that is over leaves behind.
LEMMA EndedIs ==
    ASSUME NEW s \in SessionFields, NEW action
    PROVE  /\ Ended(s, action) \in SessionFields
           /\ Ended(s, action).identity = s.identity
           /\ Ended(s, action).current = s.current \ {action.id}
  BY DEF Ended, SessionFields

\* The one start is over: no other is current.
LEMMA SwapEndsKeeps ==
    ASSUME SessionAssumption, ElementInv, UNCHANGED ownVars,
           NEW action \in actions,
           \/ SwapFailed(action) /\ action.kind # "mint"
           \/ QuoteUnavailable(action) \/ StartAnswered(action)
    PROVE  ElementInv'
<1>1. /\ actions' = actions \ {action} /\ action.kind # "mint"
      /\ action.id \in session.current
      /\ UNCHANGED <<reference, screen, attempts, wanted>>
  BY DEF SwapFailed, QuoteUnavailable, StartAnswered, isCurrent
<1>2. action \in Starting
  BY <1>1 DEF Starting
<1>3. /\ action.asset \in Assets /\ action.order \in Orders /\ wanted = action.asset
  BY <1>1, <1>2, ActionIs, ElementParts DEF PanelInv, OneStart
<1>4. /\ session' \in SessionFields /\ session'.identity = session.identity
      /\ session'.current = session.current \ {action.id}
  <2> DEFINE ended == Ended(session, action)
  <2>1. /\ ended \in SessionFields /\ ended.identity = session.identity
        /\ ended.current = session.current \ {action.id}
    BY EndedIs, ElementFields
  <2>2. session' = ended \/ session' = [ended EXCEPT !.unavailable = @ \cup {action.asset}]
    BY DEF SwapFailed, QuoteUnavailable, StartAnswered
  <2> HIDE DEF ended
  <2> QED
    BY <1>3, <2>1, <2>2 DEF SessionFields
<1>5. Starting' = {}
  <2>1. \A a \in Starting : a = action
    BY <1>2, ElementParts DEF PanelInv, OneStart
  <2>2. Starting' \subseteq Starting
    BY <1>1, <1>4 DEF Starting
  <2>3. action \notin Starting'
    BY <1>1 DEF Starting
  <2> QED
    BY <2>1, <2>2, <2>3
<1>6. /\ selection' \in [started : (Orders \X Assets) \cup {None},
                         dismissed : (Orders \X Assets) \cup {None},
                         selected : Assets \cup {None}]
      /\ selection'.selected \in {action.asset, selection.selected}
      /\ selection'.started = selection.started
            \/ (selection'.started # None => selection'.started[1] = action.order)
  <2>1. CASE SwapFailed(action)
    BY <1>3, <2>1, ElementParts DEF SwapFailed
  <2>2. CASE QuoteUnavailable(action)
    BY <2>2, ElementParts DEF QuoteUnavailable
  <2>3. CASE StartAnswered(action)
    BY <1>3, <2>3 DEF StartAnswered
  <2> QED
    BY <2>1, <2>2, <2>3
<1>7. PanelInv'
  BY <1>1, <1>3, <1>5, <1>6, ElementParts DEF PanelInv, OneStart, PanelFollowsThePayer
<1> QED
  BY <1>1, <1>4, <1>6, <1>7, SessionStays, ElementParts

\* A withdrawn quote or start leaves nothing behind.
LEMMA WithdrawnKeeps ==
    ASSUME SessionAssumption, ElementInv, UNCHANGED ownVars,
           NEW action \in actions, SwapWithdrawn(action)
    PROVE  ElementInv'
<1>1. /\ actions' = actions \ {action}
      /\ UNCHANGED <<reference, session, screen, selection, attempts, wanted>>
  BY DEF SwapWithdrawn
<1>2. PanelInv'
  BY <1>1, PanelStays, ElementParts DEF Starting
<1> QED
  BY <1>1, <1>2, SessionStays, ElementParts

\* An action that goes on keeps its name, its order and its asset.
LEMMA GoesOnKeeps ==
    ASSUME SessionAssumption, ElementInv, UNCHANGED ownVars,
           NEW action \in actions, NEW next \in Action,
           next.id = action.id, next.order = action.order,
           (next.kind = "mint") <=> (action.kind = "mint"),
           action.kind # "mint" => next.asset = action.asset,
           actions' = (actions \ {action}) \cup {next},
           session' \in SessionFields, session'.identity = session.identity,
           session'.current = session.current,
           session'.startingSwapAsset = session.startingSwapAsset,
           attempts' \subseteq Orders \X Assets,
           UNCHANGED <<reference, screen, selection, wanted>>
    PROVE  ElementInv'
<1>1. PanelInv'
  <2>1. CASE action \notin Starting
    <3>1. Starting' \subseteq Starting
      BY <2>1 DEF Starting
    <3> QED
      BY <3>1, PanelStays, ElementParts
  <2>2. CASE action \in Starting
    <3>1. \A a \in Starting : a = action
      BY <2>2, ElementParts DEF PanelInv, OneStart
    <3>2. Starting' \subseteq {next}
      BY <3>1 DEF Starting
    <3>3. session.startingSwapAsset = action.asset /\ wanted = action.asset
      BY <2>2, ElementParts DEF PanelInv, OneStart
    <3>4. action.kind # "mint"
      BY <2>2 DEF Starting
    <3> QED
      BY <3>2, <3>3, <3>4, ElementParts DEF PanelInv, OneStart, PanelFollowsThePayer
  <2> QED
    BY <2>1, <2>2
<1>2. CurrentIsOfThisOrder /\ PreparedFirst =>
          \A a \in actions' : a.id \in session'.current =>
              a.order = reference /\ screen.order # None
  BY ElementParts
<1> QED
  BY <1>1, <1>2, SessionStays, ElementParts

\* The server answers; nothing is applied yet.
LEMMA AnswerActionKeeps ==
    ASSUME SessionAssumption, ElementInv, UNCHANGED ownVars,
           NEW action \in actions, Answer(action)
    PROVE  ElementInv'
<1>1. PICK outcome \in {"ok", "failed"} \cup
                       (IF action.kind = "quote" THEN {"unavailable"} ELSE {}) :
          actions' = (actions \ {action}) \cup {[action EXCEPT !.outcome = outcome]}
  BY DEF Answer
<1>2. UNCHANGED <<reference, session, screen, selection, wanted>>
  BY DEF Answer
<1>3. action \in Action
  BY ElementParts
<1>4. attempts' \subseteq Orders \X Assets
  BY <1>3, ActionIs, ElementParts DEF Answer
<1> DEFINE next == [action EXCEPT !.outcome = outcome]
<1>5. /\ next \in Action /\ next.id = action.id /\ next.order = action.order
      /\ next.kind = action.kind
      /\ action.kind # "mint" => next.asset = action.asset
  <2>1. CASE action.kind = "mint"
    <3>1. action \in [id : ActionIds, kind : {"mint"}, order : Orders,
                      outcome : {"open", "ok", "failed"}]
      BY <1>3, <2>1, ActionIs
    <3>2. outcome \in {"ok", "failed"}
      BY <1>1, <2>1
    <3> QED
      BY <2>1, <3>1, <3>2 DEF Action
  <2>2. CASE action.kind # "mint"
    <3>1. action \in [id : ActionIds, kind : {"quote", "start"}, order : Orders,
                      asset : Assets, outcome : {"open", "ok", "failed", "unavailable"}]
      BY <1>3, <2>2, ActionIs
    <3>2. outcome \in {"ok", "failed", "unavailable"}
      BY <1>1
    <3> QED
      BY <3>1, <3>2 DEF Action
  <2> QED
    BY <2>1, <2>2
<1>6. actions' = (actions \ {action}) \cup {next}
  BY <1>1
<1> HIDE DEF next
<1> QED
  BY <1>2, <1>4, <1>5, <1>6, GoesOnKeeps, ElementFields

\* The quote becomes the start of the same asset.
LEMMA PostStartKeeps ==
    ASSUME SessionAssumption, ElementInv, UNCHANGED ownVars,
           NEW action \in actions, PostStart(action)
    PROVE  ElementInv'
<1> DEFINE next == [action EXCEPT !.kind = "start", !.outcome = "open"]
<1>1. /\ action.kind = "quote" /\ actions' = (actions \ {action}) \cup {next}
      /\ session' = [session EXCEPT !.unavailable = @ \ {action.asset}]
      /\ UNCHANGED <<reference, screen, selection, attempts, wanted>>
  BY DEF PostStart
<1>2. action \in [id : ActionIds, kind : {"quote", "start"}, order : Orders,
                  asset : Assets, outcome : {"open", "ok", "failed", "unavailable"}]
  BY <1>1, ActionIs, ElementParts
<1>3. /\ next \in Action /\ next.id = action.id /\ next.order = action.order
      /\ next.kind = "start" /\ next.asset = action.asset
  BY <1>2 DEF Action
<1>4. /\ session' \in SessionFields /\ session'.identity = session.identity
      /\ session'.current = session.current
      /\ session'.startingSwapAsset = session.startingSwapAsset
  BY <1>1, ElementFields DEF SessionFields
<1> HIDE DEF next
<1> QED
  BY <1>1, <1>3, <1>4, GoesOnKeeps, ElementParts

\* Every step of the session keeps the invariant.
LEMMA SessionStepKeeps ==
    ASSUME SessionAssumption, ElementInv, SessionSteps
    PROVE  ElementInv'
<1> USE DEF SessionSteps
<1>1. UNCHANGED ownVars
  OBVIOUS
<1>2. CASE InvoiceAges \/ PollFoldsSwap
  BY <1>1, <1>2, AgeKeeps
<1>3. CASE connected /\ screen.order # None /\ ensureLightning
  BY <1>1, <1>3, MintKeeps
<1>4. CASE connected /\ \E asset \in Assets : startSwap(asset)
  BY <1>1, <1>4, StartSwapKeeps
<1>5. CASE \E action \in actions : Answer(action) \/ DeliverAction(action)
  BY <1>1, <1>5, AnswerActionKeeps, MintAnsweredKeeps, SwapEndsKeeps, PostStartKeeps,
     WithdrawnKeeps DEF DeliverAction
<1>6. CASE connected /\ LeaveSwap
  BY <1>1, <1>6, LeaveKeeps
<1> QED
  BY <1>2, <1>3, <1>4, <1>5, <1>6

\* Every step of the element and its host keeps the invariant.
LEMMA ElementSteps ==
    ASSUME SessionAssumption, ElementInv, [ElementNext]_elementVars
    PROVE  ElementInv'
<1>1. CASE HostMoves \/ startOver
  BY <1>1, PointedKeeps
<1>2. CASE retryCreateCheckout \/ connectedCallback
  BY <1>2, BeginKeeps
<1>3. CASE disconnectedCallback
  BY <1>3, DisconnectKeeps
<1>4. CASE \E run \in creates : Run(run)
  BY <1>4, RunKeeps
<1>5. CASE SessionSteps
  BY <1>5, SessionStepKeeps
<1>6. CASE UNCHANGED elementVars
  <2>1. UNCHANGED <<reference, session, screen, selection, actions, attempts, wanted>>
        /\ UNCHANGED ownVars
    BY <1>6 DEF elementVars, sessionVars
  <2>2. PanelInv'
    BY <2>1, PanelStays, ElementParts DEF Starting
  <2> QED
    BY <2>1, <2>2, SessionStays, ElementParts
<1> QED
  BY <1>1, <1>2, <1>3, <1>4, <1>5, <1>6 DEF ElementNext

\* The invariant holds of an element that was just created.
LEMMA ElementStarts ==
    ASSUME SessionAssumption, ElementInit
    PROVE  ElementInv
<1>1. /\ reference \in Orders /\ asked = reference /\ connected = FALSE
      /\ actions = {} /\ attempts = {} /\ wanted = None /\ creates = {}
  BY DEF ElementInit, SessionInit
<1>2. /\ session \in SessionFields /\ session.identity = reference /\ session.current = {}
  BY <1>1 DEF ElementInit, SessionInit, SessionFields
<1>3. /\ screen \in [order : Orders \cup {None}, invoice : {"none", "payable", "stale"}]
      /\ screen.order = None
  BY DEF ElementInit, SessionInit, NothingShown
<1>4. /\ selection \in [started : (Orders \X Assets) \cup {None},
                        dismissed : (Orders \X Assets) \cup {None},
                        selected : Assets \cup {None}]
      /\ selection.started = None /\ selection.selected = None
  BY DEF ElementInit, SessionInit, NothingSelected
<1>5. /\ create \in CreateFields /\ create.creating = FALSE /\ create.createdKey = None
      /\ create.createError = FALSE
  BY DEF ElementInit, CreateFields
<1>6. ElementTypes
  BY <1>1, <1>2, <1>3, <1>4, <1>5 DEF ElementTypes, SessionFields, CreateFields
<1>7. PanelInv
  BY <1>1, <1>4 DEF PanelInv, OneStart, Starting, PanelFollowsThePayer
<1>8. CurrentIsOfThisOrder
  BY <1>1, <1>2, <1>3, <1>4 DEF CurrentIsOfThisOrder, Running, OnlyThisOrderIsShown
<1>9. PreparedFirst
  BY <1>1, <1>2, <1>3, <1>4, <1>5 DEF PreparedFirst, Running
<1> QED
  BY <1>6, <1>7, <1>8, <1>9 DEF ElementInv

\* The attributes of the element name the order the host asked for, and nothing of
\* another order is on its screen: no prepare, mint, quote or start of an earlier
\* order is applied (element-checkout-session.ts:272).  A remembered Lightning
\* attempt is excluded: the code applies the attributes of a run that waited for its
\* mint without asking whether the element moved on.
THEOREM OrderAskedIsShown ==
    ASSUME SessionAssumption, Resume # "lightning"
    PROVE  ElementSpec => []ShowsTheOrderAsked
<1>1. ElementInit => ElementInv
  BY ElementStarts
<1>2. ElementInv /\ [ElementNext]_elementVars => ElementInv'
  BY ElementSteps
<1>3. ElementInv => ShowsTheOrderAsked
  BY DEF ElementInv, CurrentIsOfThisOrder, ShowsTheOrderAsked
<1> QED
  BY <1>1, <1>2, <1>3, PTL DEF ElementSpec

\* A delayed success never reselects the asset the payer dismissed: the open panel is
\* the one last asked for, whatever the host remembers (checkout-session.ts:476).
THEOREM OpenPanelIsWanted ==
    ASSUME SessionAssumption
    PROVE  ElementSpec => []PanelFollowsThePayer
<1>1. ElementInit => ElementInv
  BY ElementStarts
<1>2. ElementInv /\ [ElementNext]_elementVars => ElementInv'
  BY ElementSteps
<1>3. ElementInv => PanelFollowsThePayer
  BY DEF ElementInv, PanelInv
<1> QED
  BY <1>1, <1>2, <1>3, PTL DEF ElementSpec
=============================================================================
