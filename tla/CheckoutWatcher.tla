---------------------------- MODULE CheckoutWatcher ----------------------------
(***************************************************************************)
(* The payer's screen of one checkout: the browser's CheckoutWatcher (its  *)
(* poll and countdown timers, the status request they share with           *)
(* reloadState, the swap refund address the payer is reviewing) and the    *)
(* BrowserCheckoutController that drives it, against a server whose answer *)
(* may be read early and delivered late.                                   *)
(*                                                                         *)
(* A snapshot is what the server tells of the displayed attempt: whether   *)
(* it is paid, how far its swap provider is, and the refund address the    *)
(* provider was given.  The attempt has a payment hash, so it can be       *)
(* polled; lock placeholders, labels and logs are left out.  A generation   *)
(* counter is the set of requests made since it last moved: a request is   *)
(* of the current generation when it is in that set.                       *)
(***************************************************************************)
EXTENDS Integers, FiniteSets

CONSTANTS
    Addresses,      \* the refund addresses a payer may type
    NoAddress,
    Rails,          \* {"none"} for Lightning attempts, {"running"} for swaps
    MaxRequests,    \* bound: status requests in flight at once
    MaxRefunds      \* bound: refund calls in flight at once

WatcherAssumption ==
    /\ NoAddress \notin Addresses
    /\ Rails \subseteq {"none", "running"}
    /\ MaxRequests \in Nat \ {0} /\ MaxRefunds \in Nat

\* "none": a Lightning attempt, or a swap whose provider is done.  "running" is
\* any provider state before a deposit is finished or needs a refund.
Provider == {"none", "running", "refund_required", "refund_pending"}

Snapshot == [pay : {"pending", "settled", "closed"},
             provider : Provider,
             address : Addresses \cup {NoAddress}]

\* What the payer sees is a snapshot and whether they cancelled.
NoScreen == [shown |-> FALSE]

VARIABLES
    server,      \* the snapshot /payments/check would answer with
    options,     \* the snapshot the controller was created with
    watcher,     \* CheckoutWatcher's fields
    requests,    \* the status requests in flight
    controller,  \* the refund calls of the controller's generation
    refunds,     \* the swap refund calls in flight
    pastDeadline \* the payer instructions expired

watcherVars == <<server, options, watcher, requests, controller, refunds, pastDeadline>>

Screens ==
    {NoScreen} \cup
    [shown : {TRUE}, of : Snapshot, cancelled : BOOLEAN]

StatusRead == [id : 1 .. MaxRequests, polled : BOOLEAN, reloading : BOOLEAN,
            outcome : {"none", "answered", "failed", "null"}, answer : Snapshot]

\* Types, and the request later reads would join is one in flight: a promise
\* that settled is never the pendingRefresh of the next read.
WatcherTypeOK ==
    /\ server \in Snapshot /\ options \in Snapshot
    /\ watcher \in [running : BOOLEAN, generation : SUBSET (1 .. MaxRequests),
                    pollInFlight : BOOLEAN, pending : 0 .. MaxRequests,
                    pollTimer : BOOLEAN, countdown : BOOLEAN, backoff : BOOLEAN,
                    snapshot : Snapshot, state : Screens,
                    staged : Addresses \cup {NoAddress}]
    /\ requests \subseteq StatusRead
    /\ controller \subseteq 1 .. MaxRefunds
    /\ refunds \subseteq [id : 1 .. MaxRefunds, address : Addresses, confirm : BOOLEAN,
                          outcome : {"none", "answered", "failed"}]
    /\ pastDeadline \in BOOLEAN
    /\ watcher.pending # 0 => \E r \in requests : r.id = watcher.pending

-----------------------------------------------------------------------------
\* Neither the payment nor the provider has anything left to report.
terminal(screen) ==
    \/ screen.cancelled
    \/ /\ screen.of.pay # "pending"
       /\ \/ screen.of.provider = "none"
          \/ screen.of.provider = "running" /\ screen.of.pay = "settled"

createCheckoutState(snapshot) == [shown |-> TRUE, of |-> snapshot, cancelled |-> FALSE]

\* The address the server was given wins over the one under review.
overlaySwapRefundStaging(snapshot, staged) ==
    IF snapshot.provider = "none" \/ snapshot.address # NoAddress
    THEN snapshot ELSE [snapshot EXCEPT !.address = staged]

ScreenOf(snapshot, staged) ==
    createCheckoutState(overlaySwapRefundStaging(snapshot, staged))

\* MUTANT: the published snapshot is the one remembered.
MutantRemembered(snapshot, staged) == overlaySwapRefundStaging(snapshot, staged)

\* The snapshot that is remembered is the one without the overlay.
Remembered(snapshot, staged) == snapshot

Stopped(w) ==
    [w EXCEPT !.running = FALSE, !.generation = {}, !.pollInFlight = FALSE,
              !.pending = 0, !.pollTimer = FALSE, !.countdown = FALSE]

syncWatchers(w) ==
    IF terminal(w.state) THEN Stopped(w)
    ELSE [w EXCEPT !.countdown = w.state.of.pay # "settled" /\ ~pastDeadline,
                   !.pollTimer = TRUE]

\* A stopped watcher keeps the state without calling the host back.
applyState(w, screen) ==
    LET shown == [w EXCEPT !.state = screen]
    IN  IF w.running THEN syncWatchers(shown) ELSE shown

\* publishSnapshot and the state derived from what it returns.
publishSnapshot(w, snapshot) ==
    applyState([w EXCEPT !.snapshot = Remembered(snapshot, w.staged)],
               ScreenOf(snapshot, w.staged))

\* MUTANT: staging shows the snapshot the controller was created with.
MutantStage(w, address) == publishSnapshot([w EXCEPT !.staged = address], options)

stageSwapInvoice(w, address) ==
    publishSnapshot([w EXCEPT !.staged = address], w.snapshot)

-----------------------------------------------------------------------------
WatcherInit ==
    /\ server \in [pay : {"pending"}, provider : Rails, address : {NoAddress}]
    /\ options = server
    /\ watcher = [running |-> FALSE, generation |-> {}, pollInFlight |-> FALSE,
                  pending |-> 0, pollTimer |-> FALSE, countdown |-> FALSE,
                  backoff |-> FALSE, snapshot |-> server, state |-> NoScreen,
                  staged |-> NoAddress]
    /\ requests = {} /\ refunds = {}
    /\ controller = {}
    /\ pastDeadline = FALSE

start ==
    /\ watcher' = publishSnapshot([Stopped(watcher) EXCEPT !.running = TRUE], options)
    /\ UNCHANGED <<server, options, requests, controller, refunds, pastDeadline>>

stop ==
    /\ controller' = {}
    /\ watcher' = Stopped(watcher)
    /\ UNCHANGED <<server, options, requests, refunds, pastDeadline>>

cancel ==
    LET current == IF watcher.state.shown THEN watcher.state ELSE createCheckoutState(options)
    IN  /\ controller' = {}
        /\ watcher' = [Stopped(watcher) EXCEPT
                          !.state = [current EXCEPT !.cancelled = @ \/ current.of.pay # "settled"]]
        /\ UNCHANGED <<server, options, requests, refunds, pastDeadline>>

-----------------------------------------------------------------------------
\* The request in flight of this generation, or none.
Shared == {r \in requests : r.id = watcher.pending}

\* Join the request in flight, or send one.
fetchSnapshot(polled, reloading) ==
    IF Shared # {}
    THEN /\ requests' = {IF r \in Shared
                         THEN [r EXCEPT !.polled = @ \/ polled, !.reloading = @ \/ reloading]
                         ELSE r : r \in requests}
         /\ watcher' = [watcher EXCEPT !.pollInFlight = @ \/ polled]
    ELSE \E id \in 1 .. MaxRequests :
         /\ \A r \in requests : r.id # id
         /\ requests' = requests \cup
                {[id |-> id, polled |-> polled, reloading |-> reloading, outcome |-> "none", answer |-> options]}
         /\ watcher' = [watcher EXCEPT !.pending = id, !.generation = @ \cup {id},
                                    !.pollInFlight = @ \/ polled]

reloadState ==
    /\ fetchSnapshot(FALSE, TRUE)
    /\ UNCHANGED <<server, options, controller, refunds, pastDeadline>>

poll ==
    /\ watcher.pollTimer /\ watcher.running
    /\ ~watcher.pollInFlight /\ ~watcher.backoff
    /\ fetchSnapshot(TRUE, FALSE)
    /\ UNCHANGED <<server, options, controller, refunds, pastDeadline>>

\* The countdown derives the state it shows again, against a later clock.
countdown ==
    /\ watcher.countdown
    /\ watcher' = applyState(watcher, createCheckoutState(watcher.state.of))
    /\ UNCHANGED <<server, options, requests, controller, refunds, pastDeadline>>

\* The server reads what it answers with; the answer may still travel.
AnswerRequest(r) ==
    /\ r.outcome = "none"
    /\ \E outcome \in {"answered", "failed", "null"} :
           requests' = (requests \ {r}) \cup
               {[r EXCEPT !.outcome = outcome,
                          !.answer = IF outcome = "answered" THEN server ELSE @]}
    /\ UNCHANGED <<server, options, watcher, controller, refunds, pastDeadline>>

\* Nothing stopped the watcher since the request was made.
isCurrentRead(r) == r.id \in watcher.generation

\* The request is over, with the flags its continuations reset.
Settled(r, failed) ==
    [watcher EXCEPT !.generation = @ \ {r.id},
                    !.pending = IF @ = r.id THEN 0 ELSE @,
                    !.pollInFlight = @ /\ ~r.polled,
                    !.backoff = IF r.polled THEN failed ELSE @]

DeliverRead(r) ==
    /\ r.outcome # "none"
    /\ requests' = requests \ {r}
    /\ watcher' =
           CASE ~isCurrentRead(r) -> watcher
             [] isCurrentRead(r) /\ r.outcome # "answered" ->
                    Settled(r, r.outcome = "failed")
             [] OTHER -> publishSnapshot(Settled(r, FALSE), r.answer)
    /\ UNCHANGED <<server, options, controller, refunds, pastDeadline>>

\* The back-off of failed polls, or the server's Retry-After, is over.
BackoffOver ==
    /\ watcher.backoff
    /\ watcher' = [watcher EXCEPT !.backoff = FALSE]
    /\ UNCHANGED <<server, options, requests, controller, refunds, pastDeadline>>

-----------------------------------------------------------------------------
\* stageSwapRefund and confirmSwapRefund: only the second reaches the provider.
submitSwapRefund(address, confirm) ==
    /\ watcher.snapshot.provider # "none"
    /\ \E id \in 1 .. MaxRefunds :
           /\ \A call \in refunds : call.id # id
           /\ refunds' = refunds \cup
                {[id |-> id, address |-> address, confirm |-> confirm, outcome |-> "none"]}
           /\ controller' = controller \cup {id}
    /\ UNCHANGED <<server, options, watcher, requests, pastDeadline>>

\* The server answers with the address it was given; a confirmed one starts the
\* refund.
AnswerRefund(call) ==
    /\ call.outcome = "none"
    /\ \E outcome \in {"answered", "failed"} :
           LET refused == call.confirm /\ server.provider # "refund_required"
               result == IF refused THEN "failed" ELSE outcome
           IN  /\ refunds' = (refunds \ {call}) \cup {[call EXCEPT !.outcome = result]}
               /\ server' = IF call.confirm /\ result = "answered"
                            THEN [server EXCEPT !.provider = "refund_pending",
                                                !.address = call.address]
                            ELSE server
    /\ UNCHANGED <<options, watcher, requests, controller, pastDeadline>>

\* A stop() or cancel() of the controller meanwhile drops the answer.
DeliverRefund(call) ==
    /\ call.outcome # "none"
    /\ refunds' = refunds \ {call}
    /\ controller' = controller \ {call.id}
    /\ watcher' = IF call.outcome = "failed" \/ call.id \notin controller
                  THEN watcher ELSE stageSwapInvoice(watcher, call.address)
    /\ UNCHANGED <<server, options, requests, pastDeadline>>

clearSwapRefundStaging ==
    /\ watcher.staged # NoAddress
    /\ watcher' = stageSwapInvoice(watcher, NoAddress)
    /\ UNCHANGED <<server, options, requests, controller, refunds, pastDeadline>>

-----------------------------------------------------------------------------
\* What the server learns meanwhile.  A closed attempt can be requeued by an
\* operator; a settled one stays settled.
ServerMoves ==
    /\ \/ server.pay = "pending" /\ server' = [server EXCEPT !.pay = "closed"]
       \/ server.pay = "pending" /\ server' = [server EXCEPT !.pay = "settled"]
       \/ server.pay = "closed" /\ server' = [server EXCEPT !.pay = "pending"]
       \/ server.provider = "running" /\ server' = [server EXCEPT !.provider = "refund_required"]
       \/ server.provider \in {"running", "refund_pending"}
          /\ server' = [server EXCEPT !.provider = "none"]
    /\ UNCHANGED <<options, watcher, requests, controller, refunds, pastDeadline>>

DeadlinePasses ==
    /\ ~pastDeadline /\ pastDeadline' = TRUE
    /\ UNCHANGED <<server, options, watcher, requests, controller, refunds>>

WatcherNext ==
    \/ start \/ stop \/ cancel \/ reloadState \/ poll \/ countdown \/ BackoffOver
    \/ \E r \in requests : AnswerRequest(r) \/ DeliverRead(r)
    \/ \E address \in Addresses, confirm \in BOOLEAN : submitSwapRefund(address, confirm)
    \/ \E call \in refunds : AnswerRefund(call) \/ DeliverRefund(call)
    \/ clearSwapRefundStaging
    \/ ServerMoves \/ DeadlinePasses

WatcherSpec == WatcherInit /\ [][WatcherNext]_watcherVars

-----------------------------------------------------------------------------
(***************************************************************************)
(* Properties.                                                             *)
(***************************************************************************)

\* A paid screen never flips back to waiting (checkout-watcher.ts:290): not by
\* an answer read before the settlement, not by a request another call of the
\* watcher sent, not by staging a refund.  A new start() begins again from the
\* snapshot the controller was created with.
PaidScreen(w) == w.state.shown /\ w.state.of.pay = "settled" /\ ~w.state.cancelled

KeepsPaidScreen == PaidScreen(watcher) => PaidScreen(watcher') \/ start

PaidNeverFlipsBack == [][KeepsPaidScreen]_watcherVars

\* The refund address on the screen is the one under review or the one the
\* server was given, never one the payer took back; and while one is under
\* review no poll, reload or restart blanks it.
RefundAddressIsCurrent ==
    watcher.state.shown /\ watcher.state.of.provider # "none" =>
        /\ watcher.state.of.address \in {NoAddress, watcher.staged, server.address}
        /\ watcher.staged # NoAddress => watcher.state.of.address # NoAddress

\* cancel(): "the returned state (and every later getState()) carries the
\* terminal cancelled phase" (checkout-types.ts:720).  reloadState() and
\* clearSwapRefundStaging() are still accepted and replace it.
CancelledStaysCancelled ==
    [][watcher.state.shown /\ watcher.state.cancelled
           => watcher'.state.cancelled \/ start]_watcherVars

================================================================================
