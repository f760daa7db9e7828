---------------------------- MODULE CheckoutFlow ----------------------------
(***************************************************************************)
(* The life of an order around the ledger: payers' requests resolve, mint, *)
(* record and only then show an invoice; the wallet is paid on its own     *)
(* clock; reconcile passes scan it and deliver what they saw, late; a      *)
(* notification may settle first, or never come.  Requests and passes run  *)
(* concurrently and any of them may stop between two steps.                *)
(*                                                                         *)
(* The repository operations are the atomic steps of AttemptLedger.        *)
(***************************************************************************)
EXTENDS AttemptLedger

CONSTANTS
    Request,    \* requests in flight at a time (checkout.create, swap.create)
    Pass,       \* reconcile passes in flight at a time
    WalletLag   \* how long after an invoice's expiry the wallet may still be paid

\* The grace covers the wallet's clock.
ASSUME FlowAssumption ==
    /\ WalletLag \in Nat
    /\ WalletLag <= ExpiryGrace

VARIABLES
    wallet,   \* [Hash -> state of the invoice in the wallet]
    exposed,  \* invoices some payer was shown
    request,  \* [Request -> where it is]
    pass      \* [Pass -> what it scans and has seen]

flowVars == <<vars, wallet, exposed, request, pass>>

WalletState == {"none", "open", "held", "settled", "failed"}

\* A scan's verdict on a hash; "unseen" while its page was not read.
Verdict == ScanStatus \cup {"settled", "unseen"}

IdleRequest == [pc |-> "idle"]
IdlePass == [pc |-> "idle"]

-----------------------------------------------------------------------------
FlowInit ==
    /\ Init
    /\ wallet = [h \in Hash |-> "none"]
    /\ exposed = {}
    /\ request = [q \in Request |-> IdleRequest]
    /\ pass = [p \in Pass |-> IdlePass]

EndRequest(q) == request' = [request EXCEPT ![q] = IdleRequest]

\* resolveCheckout's live attempts of an order on the requested rail.
Matching(r, rail) ==
    {h \in HashesOf(r) : /\ Minted[h].rail = rail
                         /\ isLivePaymentAttempt(rows[h], Minted[h].instrExp, clock)}

Paid(r) == \E h \in HashesOf(r) : rows[h].status = "settled"

\* Re-serve the order's one live attempt while comfortably before its expiry.
\* (A paid order, or several live attempts, is refused: 409.)
Reserve(r, rail) ==
    /\ ~Paid(r)
    /\ \E h \in Matching(r, rail) :
        /\ Matching(r, rail) = {h}
        /\ isReusablePaymentAttempt(Minted[h].instrExp, clock)
        /\ exposed' = exposed \cup {h}
    /\ UNCHANGED <<vars, wallet, request, pass>>

\* Nothing to re-serve: go on to mint.
Resolve(q, r, rail) ==
    /\ request[q].pc = "idle"
    /\ ~Paid(r)
    /\ \/ Matching(r, rail) = {}
       \/ \E h \in Matching(r, rail) :
            /\ Matching(r, rail) = {h}
            /\ ~isReusablePaymentAttempt(Minted[h].instrExp, clock)
    /\ request' = [request EXCEPT ![q] = [pc |-> "mint", ref |-> r, rail |-> rail]]
    /\ UNCHANGED <<vars, wallet, exposed, pass>>

\* The wallet mints an invoice; for a swap the provider order follows, and a
\* refusal there abandons the request.
Mint(q) ==
    /\ request[q].pc = "mint"
    /\ \E h \in HashesOf(request[q].ref) :
        /\ Minted[h].rail = request[q].rail
        /\ wallet[h] = "none"
        /\ clock < Minted[h].instrExp
        /\ wallet' = [wallet EXCEPT ![h] = "open"]
        /\ request' = [request EXCEPT ![q] = [pc |-> "persist", h |-> h]]
    /\ UNCHANGED <<vars, exposed, pass>>

\* persistCheckoutAttempt; a refused commit withholds the instructions.
Persist(q) ==
    /\ request[q].pc = "persist"
    /\ LET h == request[q].h
       IN  \/ /\ CommitAttempt(h, clock)
              /\ request' = [request EXCEPT ![q] = [pc |-> "respond", h |-> h]]
           \/ /\ ~CommitAllowed(rows, h, clock)
              /\ EndRequest(q)
              /\ UNCHANGED vars
    /\ UNCHANGED <<wallet, exposed, pass>>

Respond(q) ==
    /\ request[q].pc = "respond"
    /\ exposed' = exposed \cup {request[q].h}
    /\ EndRequest(q)
    /\ UNCHANGED <<vars, wallet, pass>>

\* A rate limit, a provider refusal, a lost answer, a dead process.
AbandonRequest(q) ==
    /\ request[q].pc # "idle"
    /\ EndRequest(q)
    /\ UNCHANGED <<vars, wallet, exposed, pass>>

-----------------------------------------------------------------------------
\* The payer pays what was shown, while the wallet's clock still takes it, at
\* once or with the payment held in flight.
Pay(h) ==
    /\ h \in exposed
    /\ wallet[h] = "open"
    /\ clock < Minted[h].invExp + WalletLag
    /\ \E state \in {"held", "settled"} : wallet' = [wallet EXCEPT ![h] = state]
    /\ UNCHANGED <<vars, exposed, request, pass>>

\* A payment in flight arrives or fails, perhaps long after the expiry.
EndHold(h) ==
    /\ wallet[h] = "held"
    /\ \E state \in {"settled", "failed"} : wallet' = [wallet EXCEPT ![h] = state]
    /\ UNCHANGED <<vars, exposed, request, pass>>

\* What a walk may report of h.  Finality is explicit; a payment in flight is
\* listed and said to be so; an unpaid invoice may be listed, with or without a
\* state, or left out; once dead it may be reported expired.
Reports(h) ==
    CASE wallet[h] = "settled" -> {<<"settled", "none">>}
      [] wallet[h] = "failed"  -> {<<"failed", "none">>}
      [] wallet[h] = "held"    -> {<<"pending", "accepted">>}
      [] OTHER ->
            {<<"not_found", "none">>, <<"pending", "none">>, <<"pending", "pending">>}
            \cup IF clock >= Minted[h].invExp + WalletLag THEN {<<"expired", "none">>} ELSE {}

\* Mutant: the scan set ends at the invoice's expiry.
ReconcilableUnexpired ==
    {h \in Hash : rows[h].status = "pending" /\ clock < Minted[h].invExp}

\* listReconcilableAttempts.
Reconcilable == {h \in Hash : rows[h].status = "pending"}

\* A pass lists the pending attempts and fixes the time its coverage starts.
StartPass(p) ==
    /\ pass[p].pc = "idle"
    /\ Reconcilable # {}
    /\ pass' = [pass EXCEPT ![p] =
            [pc |-> "scan", startedAt |-> clock,
             results |-> [h \in Reconcilable |-> <<"unseen", "none">>]]]
    /\ UNCHANGED <<vars, wallet, exposed, request>>

\* The walk reaches h's place in the history.
Observe(p, h) ==
    /\ pass[p].pc = "scan"
    /\ h \in DOMAIN pass[p].results
    /\ pass[p].results[h] = <<"unseen", "none">>
    /\ \E report \in Reports(h) : pass' = [pass EXCEPT ![p].results[h] = report]
    /\ UNCHANGED <<vars, wallet, exposed, request>>

\* Mutant: a verdict is dated when it is delivered.
DeliveryTime(p, h) == clock

\* A verdict counts from the start of the coverage, not from when it is delivered;
\* an explicit one carries no coverage and is dated by the clock.
VerdictTime(p, h) ==
    IF pass[p].results[h][1] \in {"expired", "failed"} THEN clock ELSE pass[p].startedAt

\* Forget h's result: the pass is over when it has none left.
Delivered(p, h) ==
    LET left == DOMAIN pass[p].results \ {h}
    IN  pass' = [pass EXCEPT ![p] =
            IF left = {} THEN IdlePass
            ELSE [pass[p] EXCEPT !.results = [g \in left |-> pass[p].results[g]]]]

\* reconcileHostPayments on one check: deliver a settlement (an attempt that is
\* no longer pending is left alone), or close the attempt if the coverage began
\* late enough.
Deliver(p, h) ==
    /\ pass[p].pc = "scan"
    /\ h \in DOMAIN pass[p].results
    /\ LET status == pass[p].results[h][1]
           state == pass[p].results[h][2]
           at == VerdictTime(p, h)
       IN  /\ status # "unseen"
           /\ \/ status = "settled" /\ MarkPaidOnce(h, clock)
              \/ status # "settled" /\ RecordReconciliation(h, status, state, at)
              \/ /\ \/ rows[h].status # "pending"
                    \/ /\ status # "settled"
                       /\ reconciliationTransition(settlementExpiresAt(h), status, state, at)
                            = NoTransition
                 /\ UNCHANGED vars
    /\ Delivered(p, h)
    /\ UNCHANGED <<wallet, exposed, request>>

\* A page cap, a timeout, a failing delivery, a dead process: what the pass did
\* not deliver is left to a later one.
AbandonPass(p) ==
    /\ pass[p].pc # "idle"
    /\ pass' = [pass EXCEPT ![p] = IdlePass]
    /\ UNCHANGED <<vars, wallet, exposed, request>>

\* The notification's transaction proves finality.
ProvesFinality(h) == wallet[h] = "settled"

\* settleDirectly on a payment_received notification, however late or repeated.
Notify(h) ==
    /\ ProvesFinality(h)
    /\ MarkPaidOnce(h, clock)
    /\ UNCHANGED <<wallet, exposed, request, pass>>

\* An operator reopens what a repair report shows.
Requeue(h) ==
    /\ RequeueAttempt(h, rows[h].status, rows[h].updatedAt, clock)
    /\ UNCHANGED <<wallet, exposed, request, pass>>

FlowTick == Tick /\ UNCHANGED <<wallet, exposed, request, pass>>

-----------------------------------------------------------------------------
FlowNext ==
    \/ \E r \in Ref, rail \in Rail : Reserve(r, rail)
    \/ \E q \in Request :
        \/ \E r \in Ref, rail \in Rail : Resolve(q, r, rail)
        \/ Mint(q)
        \/ Persist(q)
        \/ Respond(q)
        \/ AbandonRequest(q)
    \/ \E h \in Hash : Pay(h) \/ EndHold(h) \/ Notify(h) \/ Requeue(h)
    \/ \E p \in Pass :
        \/ StartPass(p)
        \/ \E h \in Hash : Observe(p, h) \/ Deliver(p, h)
        \/ AbandonPass(p)
    \/ FlowTick

FlowSpec == FlowInit /\ [][FlowNext]_flowVars

\* Passes keep coming (the background worker, or any later payment request), and
\* no attempt's page or delivery is cut off forever.
FairFlowSpec ==
    /\ FlowSpec
    /\ \A p \in Pass :
        /\ WF_flowVars(StartPass(p))
        /\ \A h \in Hash : SF_flowVars(Observe(p, h)) /\ SF_flowVars(Deliver(p, h))

-----------------------------------------------------------------------------
FlowTypeOK ==
    /\ TypeOK
    /\ wallet \in [Hash -> WalletState]
    /\ exposed \subseteq Hash
    /\ \A q \in Request : request[q] \in
            {IdleRequest} \cup [pc : {"mint"}, ref : Ref, rail : Rail]
            \cup [pc : {"persist", "respond"}, h : Hash]
    /\ \A p \in Pass :
        pass[p] # IdlePass =>
            /\ pass[p].startedAt \in 0..clock
            /\ \A h \in DOMAIN pass[p].results :
                pass[p].results[h] \in (Verdict \X TransactionState)

\* No payer is shown an invoice the ledger does not hold, so every payment has a
\* row; and while money has arrived or is in flight the row stays where a scan,
\* a notification or the operator's repair report finds it: a stale verdict, the
\* host's clock or a superseding request never closes it
\* (reconciliationTransition on coverageStartedAt, commitAttempt's supersede).
NoPaymentIsLost ==
    \A h \in Hash :
        /\ h \in exposed => rows[h].status # "absent"
        /\ wallet[h] \in {"held", "settled"} =>
            rows[h].status \in {"pending", "settled", "attention"}

\* The host fulfills an order only for money the wallet has: neither a payment
\* in flight nor another invoice's verdict settles an attempt.
FulfilledIsPaid ==
    \A r \in Ref : \A i \in DOMAIN fulfilled[r] : wallet[fulfilled[r][i]] = "settled"

\* A payer has one place to pay: of the invoices shown for one order and rail
\* that are still offered, no two are distinct, however many requests raced to
\* resolve and mint.
OneOfferShown ==
    \A g, h \in exposed :
        /\ Minted[g].ref = Minted[h].ref
        /\ Minted[g].rail = Minted[h].rail
        /\ isLivePaymentAttempt(rows[g], Minted[g].instrExp, clock)
        /\ isLivePaymentAttempt(rows[h], Minted[h].instrExp, clock)
        => g = h

\* A payment the wallet has received is eventually recorded and its order
\* fulfilled, unless the attempt was handed to the operator while the payment
\* was in flight: no notification is needed, and no failed pass is final.
PaymentsAreServed ==
    \A h \in Hash :
        wallet[h] = "settled" ~>
            \/ rows[h].status = "settled" /\ fulfilled[Minted[h].ref] # <<>>
            \/ rows[h].status = "attention"
=============================================================================
