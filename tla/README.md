# OpenReceive in TLA+

OpenReceive lets a merchant's server take Lightning payments (and swaps into
Lightning) without custody: the server mints invoices at the merchant's own
wallet over NWC, shows them to a payer, and finds out later, by scanning the
wallet or from a notification, which of them were paid. Its core is a small
**settlement state machine** over one table, `openreceive_payments`, run by any
number of processes that share a database and nothing else. Around it stand the
wallet scan and its scheduler, the in-memory caches and limits of a server
process, the payer's browser, and a BTCPay plugin with a wallet memory and swap
rows of its own. What must not go wrong: an order fulfilled twice, a payment
nobody can match to an order, two invoices offered for one order, a paid invoice
closed as unpaid, a paid screen that goes back to waiting.

This directory specifies those parts, model-checks them with TLC and proves,
with TLAPS, that the ledger keeps its promises, that the SQL and the Supabase
repository implement it, and what the checkout flow, the durable gate, the
wallet walks, the memory of one server process, the payer's browser and the
plugin's wallet memo and swap rows rest on. The reference is the JavaScript engine under `packages/js`
(the other languages are ports held to it by `spec/test-vectors`) and, for the
plugin, `packages/dotnet/BTCPayServer.Plugins.OpenReceive`. Paths below are
relative to `packages/js`, those of `.cs` files to the plugin.

## 1. Inventory

| Component | State | Operations | Talks to | What is hard | Correct means |
|---|---|---|---|---|---|
| Attempt decisions (`http/src/payment-repository.ts`, `payment-rows.ts`) | none | reuse, commit decision, reconciliation transition, repair classification | everyone | two expiries per swap, boundaries of the reuse buffer and grace | the ledger's properties |
| SQL repository (`sql-payments.ts`, `sql-adapters.ts`) | attempt rows, repair audit, meta rows | `commitAttempt`, `recordReconciliation`, `markPaidOnce`, `requeueAttempt`, gate | database, the host's `onPaid` inside the transaction | concurrent transactions, isolation levels, rollback, lost answers | each operation atomic on current rows; one fulfillment per order |
| Supabase repository (`supabase-payments.ts`, `core/src/payments-supabase.ts`) | the same tables | the same, as optimistic writes over HTTPS | PostgREST functions | stale snapshots, retries, requests that land late | implements the same ledger |
| Durable gate (`meta-gate.ts`) | one `openreceive_meta` row with a revision | claim, checkpoint | meta store | CAS races, leases, clock skew, stores that cannot count rows | one walker at a time, spaced scans, no lost progress |
| Reconcile pass and scheduler (`reconcile-gate.ts`, `reconcile-loop.ts`) | cursor and scan windows inside the gate row | one bounded pass; background loop | gate, wallet scan, repository | crash between checkpoint and delivery, late verdicts, starvation | every pending attempt scanned again; no attempt closed on stale evidence |
| Wallet scan (`core/src/payment-scan.ts`, `payments.ts`, `settlement/`) | a window's offset, view, observations | one slice of a paged walk; one walk without durable state | NWC wallet | offsets into a moving history, deadlines | absence is certified only by a fresh complete walk |
| Checkout resolution and handler (`host-payments.ts`, `handler.ts`, `node/src/service/checkouts.ts`) | none of its own | resolve, mint, record, expose | repository, wallet, swap provider | requests racing between resolve and commit; failure after the mint | nothing exposed that is not recorded; one offer per order and rail |
| Notifications and worker (`notifications.ts`) | running / queued / stopped flags, two promise chains | settle directly, wake a pass, periodic pass, stop | repository, pass | lost, late, duplicate notifications; coalescing; stop racing a late settlement | no wake lost; nothing runs after stop |
| Swap service and client (`node/src/service/swaps.ts`, `node/src/swap/`) | weight window, 429 back-off, transient cache | list, quote, create, read, refund, fail over | swap provider | rolling windows, late 429s, feeds that come and go | polls always have weight; feeds spared; backups only in outages |
| Rate limiting (`rate-limit.ts`) | none (counts rows) | check before minting | repository | check-then-act | bounded overshoot |
| Exchange rates (`core/src/rates/cache.ts`, `http.ts`) | one entry, a claim, a back-off stamp | read, refresh from two feeds, probe | price feeds | a joined or stale answer, concurrent refreshes, a clock stepped back | what prices a checkout is younger than the quote TTL |
| Browser watcher (`browser/src/internal/checkout-watcher.ts`) | generation, poll in flight, staged refund address, terminal state | poll, refresh, stage, stop, cancel | HTTP routes | answers of an earlier generation | a paid screen never goes back |
| Checkout session and element (`browser/src/internal/checkout-session.ts`, `elements/src/element-checkout-session.ts`) | identity, generation, selected swap, flags of a run | prepare, mint, quote, start, withdraw, start over, re-point | HTTP routes, the host page | answers for an order or a panel the payer has left | the order asked for last is the one shown |
| BTCPay wallet memo and recovery (`Nwc/ScanMemo.cs`, `NwcInvoiceListeners.cs`, `HistoricalInvoiceRecovery.cs`) | watched hashes, remembered rows, covered windows, a listener queue; durable minted rows and a cursor | scan, ask by hash, listen, prune; restore, judge and close rows | NWC wallet, BTCPay's listener | one walk shared by callers with different questions, restarts | nothing is dropped or closed that the wallet settled |
| BTCPay swap rows (`Swaps/SwapService.cs`, `ISwapStore.cs`) | `openreceive_swaps` rows with versions and leases | create, replace, poll, refund, stamp | swap provider, BTCPay's events | workers that write over each other between awaits | one refund address; no stamp undone; no funded order retired |
| Schema, NWC client, adapters and UI, other plugins and languages, CLI and docs | - | - | - | - | not modelled, see section 9 |

`PROJECT.json` lists the same components with their files and, under
`hazards`, each hard behaviour at the line where it bites with the property that
covers it.

## 2. Modules

    SettleOnce            what a host is promised                       (abstract)
      ^ ImplementsSettleOnce
    AttemptRules --> AttemptLedger    every repository operation atomic
                       ^ ImplementsLedger                ^ uses its actions
                     SqlLedger, SupabaseLedger         CheckoutFlow
                     by statement / by request         requests, wallet, passes
    ReconcileGate         the meta row, by statement
    ReconcileScheduler    what the gate's row keeps: cursor, windows, split
    WalletHistory --> PaymentScan, ReconcileWalk    the two walks of the wallet
    NotificationListener  the worker around a pass
    RateCache  SwapBudget  SwapCache  SwapProviders  MintLimit    one process
    CheckoutWatcher       CheckoutSession --> ElementCheckout     one browser
    WalletMemo --> InvoiceRecovery       PluginSwaps              BTCPay plugin
    *Proofs               theorems about AttemptLedger, SqlLedger, SupabaseLedger,
                          CheckoutFlow, CheckoutWatcher and ElementCheckout (in
                          CheckoutProofs), ReconcileGate and ReconcileScheduler
                          (in ReconcileGateProofs), the walks (WalletScan),
                          WalletMemo, InvoiceRecovery and PluginSwaps (in
                          PluginProofs) and, in ServiceProofs, RateCache,
                          SwapBudget, SwapCache, SwapProviders, MintLimit and
                          NotificationListener
    MC*                   instances for TLC

`-->` is EXTENDS, `^` a refinement or a use through INSTANCE.

**The ledger**

* **AttemptRules** translates the pure decisions: `isReusablePaymentAttempt`,
  `isLivePaymentAttempt`, `liveAttemptCommitDecision`,
  `reconciliationTransition`, `repairCandidate`.
* **AttemptLedger** is the attempt table as callers see it. `rows[h]` is the row
  of payment hash `h` (`absent` before its insert); `Minted[h]` is what
  `paymentInsert` stores once and never changes: order, rail, the expiry of the
  payer instructions and that of the wallet invoice (`settlementExpiresAt`).
  `fulfilled[r]` is the sequence of hashes whose settlement ran the host's
  `onPaid` for order `r`; `audited` the repair audit keys; `clock` the furthest
  host clock. One action per write: `CommitAttempt`, `RecordReconciliation`,
  `MarkPaidOnce`, `RequeueAttempt`. Refusals and rollbacks stutter. The clock an
  operation read is a parameter `now <= clock`, because it is read before the
  lock is waited for and because other hosts run behind.
* **SettleOnce** is the promise, nine lines of behaviour: payments are recorded
  once, the first of an order serves it in the same step.
* **SqlLedger** runs those operations as `sql-payments.ts` does: read the
  reference, take its lock, read the rows, write, call `onPaid`, commit, with
  `pc` per caller, uncommitted writes in `draft`, and an abort before any commit.
  `Dialect` decides three things and nothing else: where the reference is looked
  up, what the lock is, and whether a transaction's reads are a snapshot of its
  first one (`Seen`). `acked` records what callers were told.
* **SupabaseLedger** runs them over HTTPS: read rows, decide, send a function call
  that compares the snapshot and writes or answers "stale", retry while stale. A
  request outlives its caller's timeout (`requests`), so it may be carried out
  after the caller has retried. Its variables are the ledger's and the callers',
  and it states the same `ImplementsLedger`.
* **CheckoutFlow** puts the ledger into the world: requests resolve, mint,
  persist and only then respond; a payer pays what was shown until the wallet's
  clock ends it; passes list pending attempts, observe them one at a time and
  deliver verdicts later; a notification settles at any time or never; an
  operator requeues. Requests, passes and deliveries may stop at any point.

**Finding payments**

* **ReconcileGate** runs `claimMetaGate` and `checkpointMetaGate` by statement.
  The SQL store answers `undefined` ("cannot tell") and Supabase a row count, so
  both continuations of every write are modelled. The stored scheduler is opaque:
  the set of claims whose progress is in it.
* **ReconcileScheduler** is that scheduler: the keyset cursor over pending
  attempts, the cohorts of wallet-timed and host-timed ones, windows split and
  reopened, slices that fail, the checkpoint before the delivery and a process
  that stops between them. A claim is one step here, because `ReconcileGate` shows
  that no progress is lost between claims.
* **WalletHistory** is the wallet's list as paging sees it: invoices settle, get
  purged, or newer ones appear while an offset is held. **PaymentScan** walks it
  in slices with a durable window: default view, then inclusive view, overlap,
  deadline, `absence_safe`. **ReconcileWalk** is `reconcilePaymentAttempts`, the
  walk without durable state.
* **NotificationListener** is the worker process await by await: `running` and
  `queued` coalesce wakes, `settling` is the chain of direct settlements, and
  `stop()` aborts the loop and waits. `unserved` remembers what was heard and
  neither settled nor followed by a pass.

**One server process** (`RateCache`, `SwapBudget`, `SwapCache`, `SwapProviders`,
`MintLimit`): each is the class or function it is named after, with one action per
stretch of code between two awaits. Stamps are kept as ages, so that time is
finite.

**One browser**: **CheckoutWatcher** is the class with its generation counter (a
request is current when it is in the set of requests made since the counter last
moved) and the controller around it; **CheckoutSession** the session that mints
and starts swaps; **ElementCheckout** extends it with the custom element's create
mode: prepare, resume, start over, connect and re-point.

**The BTCPay plugin**: **WalletMemo** is `ScanMemo` with the callers that share
its walks, `GetInvoice` and the two listeners; **InvoiceRecovery** extends it
with the durable rows of minted invoices and the pass that restores and closes
them; **PluginSwaps** is the swap rows under optimistic versions: `current` holds
the actors whose loaded copy is still the stored version.

The wallet, payer, provider and database are environment and marked external in
the map.

**Instances.** Components that share no state but one deployment unit are checked
in one run: `MCReconcileWorker`, `MCBrowser`, `MCService`, `MCPlugin`,
`MCWalletScan` and `MCStores` choose a `part` in Init, and a behaviour is one of
that part's module while the other variables stay as they start. This is the same as
a run per part; nothing is composed that does not interact in the code. Each of them
EXTENDS the modules of its parts, as the proof modules do, so a run checks the very
property that a theorem states: the names of those modules' `Init`, `Next`, `Spec` and
type invariants carry the component (`BudgetInit`, `WalkNext`, `SwapsTypeOK`). A
second instance of a part, with other constants, is an INSTANCE beside it (`CurrencyTable`,
`Reads`, `Invoice`).

## 3. Properties

Ledger:

* `FulfilledOnce`: at most one fulfillment per order, exactly when a payment is
  recorded, every later one marked `duplicate_settlement`.
* `OneLiveOffer`: at most one live attempt per order and rail, although commits
  use an old clock and operators reopen rows.
* `SettledIsFinal`: no step touches a settled row or takes back a fulfillment.
* `ImplementsSettleOnce`, `ImplementsLedger`: the refinements. The second says
  that every transaction, on each dialect and over Supabase, is one ledger
  operation applied to the rows as they are when it commits.
* `DecidesOnCurrentRows`: what a transaction read is still what is committed when
  it writes: the reason `withAttemptLock` reads the reference before `BEGIN` on
  MySQL.
* `AnswersAreTrue`: whatever a caller was told holds ever after.
* `EveryCallEnds` (liveness): no lock is kept by a transaction that failed.
* `NoPaymentIsLost`: what is shown has a row; while money has arrived or is in
  flight its row stays where a scan, a notification or the repair report finds it.
* `OneOfferShown`: no two offered invoices of one order and rail were both shown.
* `PaymentsAreServed` (liveness): a received payment is eventually recorded and
  its order served, or in the operator's hands.

Finding payments:

* `NoProgressLost`, `ToldProgressIsStored`: scan progress is never overwritten by
  a stale claim or an expired holder, whether writes are answered by a count or
  by reading back.
* `LeaseIsHonouredWithinSkew`: while a lease runs on every clock nobody else has
  the gate, as long as no call looks at the row with a clock reading more than the
  tolerated skew old (`ClaimsArePrompt`).
* `ScansAreSpaced`: a claim is an interval after the last claim and the last
  pass's end, or comes from a clock more than the skew behind.
* `EveryAttemptIsWalked`, `PaymentIsRecorded` (liveness): no pending attempt
  starves behind the cursor; once failures have ended, a payment only the wallet
  knows of is recorded although deliveries were lost before.
* `AbsenceIsProven`: what a clock may close was not paid when the walk's window
  was created. `CompleteWalkFindsPayments`: a walk that ran to its end reported
  every payment that was there when it began. `UnpaidWhenScanned`: what the walk
  without durable state leaves to a clock was not paid when it began, wherever its
  page cap cuts it. `CheckoutFlow` assumes the first of a scan (`Reports`), see
  section 5.
* `SlowWalksEnd` (liveness): a walk whose every slice is cut after one page ends; it does
  not spend each slice on the page it reads again.
* `NoWakeIsLost` (liveness), `QuietAfterStop`: what was heard is settled or
  followed by a pass that starts afterwards; after `stop()` nothing runs.

One process: `RatesAreQuotable` (what prices a checkout is within the quote TTL on
every path, and a failed refresh never takes a quotable rate away),
`BackoffIsHonoured` and `CreatesLeaveRoomForPolls` (the provider's weight),
`FeedIsSpared` (a feed is asked again when the life of its last
value, or the claim of its last failure, is over, whichever of the two it ended in),
`BackupIsForOutages`,
`OvershootIsBounded` (concurrent mints exceed the per-IP limit by at most the
requests handled at once).

Browser: `PaidNeverFlipsBack`, `RefundAddressIsCurrent` (the address on the screen
is the one under review or the one the server has, never one taken back),
`ShowsTheOrderAsked` (and nothing an earlier order's request brings),
`PanelFollowsThePayer`.

Plugin:

* `DroppedIsUnpaid`: a walk that ends gives up no hash the wallet has settled, whether
  the memo has a pending row of it or none, unless the memo knows that it settled.
  Exempt is one case, a pending hash the walk never looked for because it was watched
  too late; what becomes of it is `ClosedIsUnpaid`'s subject.
* `OnlyOverIsClosed`: recovery closes a row only when its invoice is over (expired, or
  past its grace and not settled), whoever else walks the memo. Exempt are the two races
  the code has: the hash was dropped by a walk that never looked for it (`strays`), or
  the memo learnt of the settlement after the pass had read its row as pending. Each is
  what a definition in section 6 shows: `ClosedIsUnpaid` and `KnownIsAcknowledged`.
* `OneRefundAddress`, `StampsStay` (nobody's write undoes another's), `RetiredUnfunded`.

Every module also states a type invariant. `AttemptLedger`'s is checked and
proved; the others document the state and are the starting point of the proofs in
section 7.

Each property of each passing run has a mutant in `PROJECT.json`: a plausible bug
(definitions marked "Mutant" in the modules) under which TLC finds the property
violated. Two of them are bugs the project had or guards against by comment:
`InstructionsExpireAt` (closing a swap on its deposit expiry,
`docs/guides/payment-safety-upgrade.md`) and `FindsInside` (the MySQL snapshot,
`sql-payments.ts:263`).

## 4. Runs and bounds

| Run | Instance | Why it is enough |
|---|---|---|
| `attempt_ledger` | one order; swaps `h1`, `h2` of one asset whose instructions overlap and outlive their invoice by the grace; `h3` of another asset, closed early by an earlier release; clock 2..4, grace 1, buffer 1 | both `conflict` and `supersede` happen, both expiries bite on both sides of the grace, two rails can both be paid, a reopened row meets a replacement |
| `stores` | two callers, one order, two overlapping Lightning invoices, in three parts: MySQL's transactions with snapshot reads; Supabase's requests one at a time while time passes; Supabase's commits and settlements two at a time with a retry, at one moment | any two operations interleave; a stale snapshot, a stale clock, a late request and a lost answer each happen |
| `sql_postgres` | two callers, one order, a repairable swap and an invoice, at one moment, fairness, no symmetry | the requeue transaction, no snapshot, liveness |
| `reconcile_gate` | two workers, one a second ahead; up to 3 claims, revision 4, clock 1..4, tolerated skew 1; lease 2, interval 1 or 2, two tries | a claim can expire, be taken over and answered late; a call may stall until its clock looks rewound, and the lease is checked on the behaviours where none does |
| `checkout_flow` | two requests, one pass, two overlapping invoices of one order | resolve/mint/commit races, late verdicts across the expiry |
| `checkout_flow_passes` | two passes, one request, one swap whose invoice outlives its instructions, fairness | stale verdicts against settlement, notification and repair |
| `wallet_scan` | two attempts among invoices of others: pages of one row ("steady"), pages of two over five rows that are purged or unreadable, with slices that fail ("moving"), and the walk without state ("short", pages of one row, page cap 3 below the four rows); fairness | every offset is held while a row appears, disappears or changes view; the cap cuts either view before its end, and the walk also reaches it; any slice may end after the overlap page alone |
| `reconcile_worker` | scheduler: two attempts pending and one still to come, batch 2, one arrival between selections, a walk of up to two slices, a cohort of each kind, fairness. Listener: two notifications of one payment, two callers of `stop()`, fairness | wrap-around, split and starvation are reachable; the second notification arrives in every state of the first |
| `browser` | four parts: one swap with two refund addresses; two status requests at once; an element between two orders with a remembered swap; an element with a remembered invoice and two mints | every request can be answered after the state it was made for is gone |
| `service` | seven parts: three callers of the rate cache; two callers with probes and a clock stepped back by 2; three provider calls; three requests of one address; three callers of the currency table (life 5, claim 4, served stale) and of the bulk rates (life 3, claim 4, never stale); two providers that each list an asset the other omits | windows, claims and TTLs roll while calls are on their way |
| `plugin` | seven parts, listed in `MCPlugin`: memory; recovery of two invoices, and of one beside a listener's walks and notifications, with a failed request and a restart; GetInvoice and a listener on one invoice of unknown age, with a failed request; four casts of actors on one invoice's swaps, with one crash and a lapsed lease in one of them | any two writers of a row, the reload limit of 3, a crash between any two writes |
| `invoice_recovery_shared` | recovery of two invoices while GetInvoice asks about one of them | shows a disagreement, section 6 |

`MaxClock`, `MaxClaims`, `MaxRev`, `MaxRequests`, `MaxRefunds`, `MaxArrivals`,
`MaxSlices`, `MaxNotes`, `MaxFailures`, `MaxRestarts`, `MaxCrashes`, `MaxEvents`
bound counters and environment actions and appear in the guards they bound; the
capped ages (`Cap`, `OldestCounted`) bound time where no comparison tells older
ages apart. Sets of ids (`Callers`, `Refreshes`, `Slots`, `ActionIds`, `Order`...)
bound what is in flight at once. `ScanResult` limits what a scan reports in the
stores to one explicit failure and one in-flight result, because the writing
statement does not depend on which transition it carries. Times are scaled: grace
900 s and buffer 60 s become 0 or 1, the rate cache's 60 s and 600 s become 2 and
4 or 5, and the order of thresholds is kept, with at least one tick on each side
of each. The provider budget keeps the order create weight < gate < soft cap. Sqlite
is not run: `BEGIN IMMEDIATE` puts whole transactions one after the other, which is
the Postgres instance with fewer interleavings. Callers may all be idle when
everything is settled, ids are used up or a bound is reached, so the runs do not
check deadlock.

## 5. Assumptions

* `instrExp <= invExp + grace`: `createCheckout` refuses a wallet that does not
  honour a swap's required invoice expiry by more than its tolerance
  (`node/src/service/checkouts.ts:99`), far below the grace.
  `OneLiveOffer` needs it: it is what keeps a reopened row from being live.
* Host clocks are never ahead of `clock` and an operation's `now` is at most
  `clock`; they may be arbitrarily behind. In `ReconcileGate` each worker has a
  constant offset from true time.
* Postgres transactions run at its default READ COMMITTED, MySQL's at REPEATABLE
  READ; an UPDATE's WHERE clause sees the latest committed rows under its lock. A
  Supabase function is one transaction.
* The wallet may still be paid for at most the grace after the expiry it reported
  (`WalletLag <= ExpiryGrace`; in `WalletMemo` no invoice is paid once past expiry
  plus grace), reports `expired` or `failed` only when that is final, and lists a
  payment in flight with an in-flight state. A wallet that lists it without a
  state is closed as expired by design (`payment-repository.ts:261`).
* The wallet lists newest first by creation. Settled rows stay; only unpaid ones
  are purged. Two different pages have different fingerprints. A wallet that
  ignores the offset repeats a page, which the walks recognise; that is the
  "stalled" end of a view.
* `CheckoutFlow` lets a scan say `not_found` of no invoice whose payment is held. A
  wallet that drops newer unpaid rows can bring the code to it
  (`core/src/payment-scan.ts:163`), as `PaymentScan` does, where `AbsenceIsProven` still
  holds: the payment was not final when the walk began. `Reports` is stricter there.
* A view of `WalletMemo` reports only hashes the walk looks for. `ScanMemo` keeps every
  row of a page it reads (`ScanMemo.cs:376`, `:421`); such a row is the wallet's word on
  a hash nobody asked about, so leaving it out only leaves the memo knowing less.
* `onPaid` either returns or throws.
* In the plugin an advisory lock keeps recovery passes one at a time across
  processes (`HistoricalInvoiceRecovery.cs`), mapping problems and failed writes of
  a pass are one kind of failure, and a row's deadline is judged when it is loaded.

**Fairness.** `SqlFairness`: the database serves each started statement (WF) and
grants a contended lock to a waiter that asks again and again (SF: both databases
queue lock requests). Nothing forces a call to be made, and `Abort` is not fair.
`FairFlowSpec`: passes keep starting (WF: the background reconciler's loop, or any
later request, runs one), and no attempt is cut off by page cap, timeout or failed
delivery in every pass forever (SF on `Observe` and `Deliver`). Requests,
payments, notifications and repairs have no fairness: `PaymentsAreServed` holds
without a single notification. `FairScanSpec`: a window is resumed by a later pass, and a
slice that runs gets its page, is cut after at least one, or fails; the deadline is set
when the slice begins (`reconcile-gate.ts:233`), so there is time to ask for a page. `ReconcileScheduler`: passes start (`RunPass`), a
slice ends (`EndSlice`, by its deadline at the latest) and a process that does not
stop delivers (`Deliver`), each WF; failures may go on forever in
`EveryAttemptIsWalked` and end at some unknown time in `PaymentIsRecorded`
(`healthy`, which nothing forces). `NotificationListener`: WF of what the event loop
resumes (`Settle`, `EndPass`, `PeriodicLoop`, `StopStep`); no notification is ever
forced to come.

**A limit of the lease.** A worker that stops for longer than
`META_CLOCK_SKEW_SECONDS` between reading its clock and reading the row presents a
time so old that the current claim looks stamped by a clock ahead, and takes the gate
over. Two workers then walk the wallet at once; the displaced one's checkpoints fail,
so nothing is lost (`NoProgressLost` and `ToldProgressIsStored` hold of every
behaviour), only the scan budget suffers. So `LeaseIsHonouredWithinSkew` says that
leases are honoured in every behaviour without such a stall.

## 6. Where code and claim disagree

Modelling met fifteen places where a comment, interface or guide says more than
the code does. The first is kept as a run; for the others the definition or the
constant that shows it is named, and an instance with it finds the
counterexample in seconds. In the passing runs those constants are set so that
the rest of the behaviour is checked.

| Code | The claim | What the model shows | Where |
|---|---|---|---|
| `Nwc/ScanMemo.cs:512` | "expiry alone (or an incomplete/failed scan) never closes the durable row" (`HistoricalInvoiceRecovery.cs:149`) | `Prune` also judges a hash that was watched after the walk had fixed what it looks for; recovery then closes a paid row | run `invoice_recovery_shared` |
| `Nwc/HistoricalInvoiceRecovery.cs:146` | "Listener channels are only hints; the host payment row is acknowledgment" (`:23`) | recovery reads a pending row, a notification records its settlement and a walk prunes the hash; recovery then finds it unwatched and closes it as unpaid while only the listener's channel carries the payment | `KnownIsAcknowledged` of one stored invoice with `Callers = {"recover", "sweep"}` |
| `Nwc/ScanMemo.cs:360` | the window is "never a correctness bound on a watched invoice" (`ScanMemo.cs:67`) | a hash of unknown age, seen pending by its one unbounded walk, is dropped by a later walk of a newer window | `DroppedIsUnpaid` with an undated and a dated hash (`Dated`) |
| `Nwc/HistoricalInvoiceRecovery.cs:145` | the same as of the first (`:149`) | the settled row of a payment whose delivery failed ages out of the memo during the refresh of a later pass, which then finds no row, no watch and a covering walk, and closes it | `OnlyOverIsClosed` with `Forgets = TRUE` and a failed delivery (`MaxFailures = 1`) |
| `http/src/notifications.ts:175` | `stop()` waits for in-flight work (`:189`) | a second caller of `stop()` returns while a pass still runs | `EveryStopWaits` |
| `browser/src/internal/checkout-watcher.ts:167` | every later `getState()` is cancelled (`checkout-types.ts:719`) | `reloadState()` and `clearSwapRefundStaging()` replace the cancelled state | `CancelledStaysCancelled` |
| `elements/src/element-checkout-session.ts:283` | an older order's attributes are never applied (`:272`) | after the mint of a resumed Lightning attempt the run no longer asks whether it is current | `ShowsTheOrderAsked` with `Resume = "lightning"` and two orders |
| `core/src/rates/cache.ts:262` | the entry cannot be raced (`:72`), a failed refresh keeps it (`:156`) | a failed `healthCheck()` puts back the entry it found, over a newer one | `KeepsObservation` with `Probes = TRUE` |
| `core/src/rates/http.ts:106` | one caller at a time fetches (`cache.ts:7`) | the timeout ends with the headers; a body that stalls outlives the claim | `OneCallerFetches` with `BodyStalls = TRUE` |
| `node/src/swap/fixedfloat-transport.ts:172` | the module accounts 429s (`:4`, `transport-error.ts:35`) | a 429 whose body is not JSON is thrown before it is counted | `BackoffIsHonoured` with `BodiesParse = FALSE` |
| `http/src/rate-limit.ts:120` | at most `limitPerHour` (`:17`) | requests counted together exceed it | `AtMostTheLimit`; `OvershootIsBounded` holds |
| `node/src/service/swaps.ts:95` | a dead rates feed fails over (`swap/fixedfloat.ts:233`) | a quote does not: only the currency table is asked before the provider is chosen | `QuoteFailsOver` |
| `node/src/service/swaps.ts:226` | "exactly one live provider" (`:367`) | the catalog is the backup's and the order goes to the primary | `OneLiveProvider` |
| `Swaps/SwapService.cs:497` | "this write must land" (`:331`) | it gives up after three lost races, and one poll loses it three | `AcceptedIsStored` |
| `Swaps/SwapService.cs:336` | the same | an expired row that is refunded becomes live again beside a newer order, and the unique index refuses it | `AcceptedIsStored` with a `Creator` |

## 7. Proofs

Every theorem holds for all constants that satisfy the named assumptions of its
module (`RulesAssumption`, `LedgerAssumption`, `GateAssumption`, ...), which TLC
evaluates in the runs. Each inductive invariant was checked by TLC on an instance
before it was proved.

**`AttemptLedgerProofs`**, the ledger.

* `TypeCorrect`: `Spec => []TypeOK`.
* `FulfilsOnce`: `Spec => []FulfilledOnce`. Not inductive with `TypeOK` alone in
  the form it is stated; the invariant used says, per order, that either nothing
  is settled and nothing fulfilled, or exactly one settled row is the fulfilled
  one and all others are duplicates. `PaymentEffect` reduces every step to "no
  settled row changes" or "one pending row settles".
* `SettledStaysSettled`: `Spec => SettledIsFinal`, from the guards `Pending` and
  `repairCandidate`.
* `OffersOneAttempt`: `Spec => []OneLiveOffer`. A commit leaves one live attempt
  of its rail (`CommitLeavesOne`), although it decided with an older clock: an
  attempt live now was live then. The strengthening is that a closed row was
  closed so late that reopening it cannot make it live (`ClosedLateStep`,
  `RepairedIsNotLive`), which is where `instrExp <= invExp + grace` enters.
* `RefinesSettleOnce`: `Spec => ImplementsSettleOnce`. From the same invariant as
  `FulfilsOnce`: a first settlement appends to an empty list, so what the
  abstract step writes is what `markPaidOnce` writes; the other operations are
  stutters (`StepKinds`).

**`SqlLedgerProofs`**, the transactions of `sql-payments.ts`, on every dialect, for
any number of callers and any mapping of references to locks.

* `SqlImplementsLedger`: `SqlSpec => ImplementsLedger`: the step that commits is one
  action of `AttemptLedger`, every other step a stutter. `SqlInv` says per caller
  which program counter holds which lock (`LockInv`), that what it has read since
  is what is committed (`ViewInv`), and that its draft is exactly what the ledger
  operation would write (`DraftInv`). The lemmas it rests on: an operation's
  decision depends on the rows of its order only (`SameSettled` and the ones after
  it), and two callers inside a transaction of one order hold the same lock, so no
  commit of another changes what was read. On MySQL this needs that the reference
  is found before the snapshot begins, which is `FindsInside`'s mutant.
* `DecisionsAreCurrent`: `[]DecidesOnCurrentRows`, from `ViewInv`.
* `AnswersStayTrue`: `[]AnswersAreTrue`: true when given, because an answer is given
  by the step that commits, and ever after, because the ledger deletes no row and
  takes back no fulfillment.
* `SqlTypeCorrect`, and the corollary `SqlKeepsTheLedgersPromises`: `FulfilledOnce`,
  `OneLiveOffer` and `SettledIsFinal` hold of the transactions.

**`SupabaseLedgerProofs`**, the same of optimistic writes. There is no lock: the
invariant is about every request that was ever sent (`RequestHolds`): what it would
write follows from the snapshot it carries, so when the function finds the snapshot
unchanged, the write is the ledger's operation on the current rows, however long
the request was on its way and whatever its caller has done since.
`SupabaseImplementsLedger` is `SupabaseSpec => Spec`; `SupabaseAnswersStayTrue`,
`SupabaseTypeCorrect` and `SupabaseKeepsTheLedgersPromises` are as above.

**`CheckoutProofs`**, the checkout on the server, for any number of orders, requests
and passes, and in the browser, for any number of requests, orders and assets.

* `FlowImplementsLedger`: `FlowSpec => Spec`: whatever is composed around it changes
  the ledger by its operations only, so its theorems hold of the flow.
* `PaymentsAreKept`: `[]NoPaymentIsLost`, and `ServedWasPaid`: `[]FulfilledIsPaid`.
  Neither is inductive: a pass decides on what it saw long ago. The invariant adds
  `Unpayable(h)`, a fact no later step undoes (the invoice's time in the wallet is
  over, its payment failed, or it was never minted and no longer can be), and
  `ResultHolds`: a verdict in a pass's hands that may close `h` implies
  `Unpayable(h)` at the time it will be judged. `WalletLag <= ExpiryGrace` enters here.
* `OneOfferIsShown`: `[]OneOfferShown`, from the ledger's `OneLiveOffer` and "what is
  shown has a row".
* The watcher: `PaidStaysPaid` (`PaidNeverFlipsBack`) and `AddressIsCurrent`
  (`RefundAddressIsCurrent`). The invariant (`WatcherInv`) says that one request is
  current at a time, the one later reads join (`OneIsCurrent`); so no older answer can
  overtake the one that made the screen paid, and an answer to the current request was
  read no earlier than what is remembered (`AnswersAreNewer`). A server that has a
  refund address has it for good (`RefundIsForGood`), and the screen is always the
  remembered snapshot with the address under review over it (`ScreenIsRemembered`).
  `WatcherTypes` is `[]WatcherTypeOK`.
* The element: `OrderAskedIsShown` (`ShowsTheOrderAsked`).
  Nothing is current but what was asked for the order now shown
  (`CurrentIsOfThisOrder`), and nothing is asked for before the one run that prepares
  the order ends (`PreparedFirst`). It assumes `Resume # "lightning"`, for the reason
  section 6 gives. `OpenPanelIsWanted` (`PanelFollowsThePayer`) needs no such
  assumption: at most one quote or start is current, and it is of the asset the payer
  wants (`OneStart`).

**`ReconcileGateProofs`**, for any number of workers and any offsets of their clocks.

* `ToldProgressStays`: `[]ToldProgressIsStored`; `ProgressIsNeverLost`:
  `Spec => NoProgressLost`. The invariant (`GateInv`) says that a token is issued once
  and held by one worker (`OneHolderPerToken`), that what a worker read is still the
  row when the revision is unchanged (`ReadIsCurrent`), and that a holder whose token
  is still in the row knows all that is stored (`SchedulerIsNewest`).
* `ClaimsAreSpaced`: `Spec => ScansAreSpaced`: a claim that is about to be written was
  due when its caller read the row (`ClaimIsDue`), and the row has not changed since.
* `LeasesAreHonoured`: `Spec => LeaseIsHonouredWithinSkew`, a theorem about behaviours:
  whenever all claims are prompt, all leases are honoured (section 5 says why the
  first part is needed). `LeaseInv` keeps every holder's lease in the row and every
  stamp within the skew of the clocks; it is inductive where `ClaimsArePrompt` holds.
* `GateTypes`: `Spec => []TypeOK`.
* The scheduler that the row keeps, for any attempts and kinds, batch size, arrivals and
  number of slices: `WalksStayApart` (`[]WalksAreApart`): no attempt is looked for by two
  walks at a time, or twice by one, although the cursor wraps over attempts still queued
  and walks come back whole or in halves. `SchedulerInv` says of the queue that its walks
  are apart (`Apart`) and of the walk under way that it shares nothing with the queue and
  has left its place there, so what is put back fits (`RequeuedIs`, `HalvesAre`). A
  selection admits only what is queued nowhere, in cohorts of different kinds
  (`AdmittedIs`); that a cohort is made of the candidates picked, each once (`CohortIs`),
  and that a prefix fills the slots (`TakenIs`) are inductions in the set form described
  under `ServiceProofs`. The lemmas about `SubSeq`, `RemoveAt` and `Append` on sequences
  without repetitions stand before them. `SchedulerTypes` is `[]SchedulerTypeOK`: the
  cursor stays among the pending rows, the queue within its two slots. No run lists these
  two properties; `reconcile_worker`'s instance satisfies both.

**`WalletScanProofs`**, for every finite history, page limit, page cap and number of
slices.

* `AbsenceIsCertain` (`AbsenceIsProven`), `NoPaymentIsSkipped`
  (`CompleteWalkFindsPayments`) and `ShortWalkClosesUnpaid` (`UnpaidWhenScanned`, of
  the walk without durable state). A row of a view is addressed by its rank, the number of newer
  rows. Ranks have no gaps (`RankOnto`), so a page holds every row between its offset
  and the next one (`PageSkipsNoRow`) and an empty page is the end
  (`EmptyPageIsTheEnd`); in the settled view they only grow
  (`SettledRowsArePushedBack`), because payments are final. So a payment not yet
  reported is at or behind the offset (`PaidIsAhead`, `PaidIsFound`). That only the
  slice that began a walk certifies absence is `FreshHasReportedNothing`.
* `ScanTypes`: `[]ScanTypeOK`.

**`PluginProofs`**, the plugin: its swap rows for any number of orders, pollers, payers
and crashes, whether or not a poll outlasts its lease, and its wallet memo for any
wallet, callers, failures and restarts.

* `OneAddressAccepted` (`OneRefundAddress`), `WritesKeepStamps` (`StampsStay`) and
  `RetiredIsUnfunded` (`RetiredUnfunded`). The invariant (`SwapInv`) says of every
  actor at once: a copy that is `current` is the stored row (`IsCurrent`), what is
  about to be saved keeps the stamps of that copy (`Works`), a creation holds the
  creation's lock (`Creates`), and a refund holds its swap's lock from its first read
  to its last write, with no address stored and, while it asks, none accepted
  (`Refunds`). Every write of a row is then one of five kinds (`RowStep`), none of
  which undoes a stamp; and a step leaves every other actor's part of the invariant
  alone (`OthersUntouched`), because whoever could disturb it would hold the same lock.
  That poll leases may overlap does not matter here: a lease spares provider calls, the
  version protects the row.
* `SwapRowTypes`: `[]SwapsTypeOK`.
* `LeavesUnpaid` (`DroppedIsUnpaid`). The invariant (`MemoInv`) follows one hash through a
  walk: as long as it is settled, looked for by the walk (`LookedFor`) and not known to
  be settled (`Late`), it is in the part of the wallet that is still to be read, by the bounded
  views, the single-hash path or the unbounded walk, or the walk knows that it was cut
  short (`Sought`). What makes that inductive is the cursor a failed unbounded walk
  leaves behind: whatever it claims to be done with is no longer unseen
  (`CursorIsTrue`), and one that may have skipped rows says so (`Doubted`). Assumed are
  `MemoKeepsRows` (rows do not age out, `~Forgets`) and `AgesAreKnown` (every watched
  row says when its invoice was created, as those recovery restores do, or none does
  and all are recent); with a mixture the statement is false, as section 6 shows.
  A hash without a row leaves only when it was proved absent, and what is proved absent
  the wallet does not have: only a walk that was neither cut nor resumed proves it.
* `ClosesOnlyOver` (`OnlyOverIsClosed`), with the same assumptions and any other callers
  of the memo. A hash of the pass is watched, or there is a reason why it no longer is
  (`ReadyIsKnown`): it is known to be settled, it is over, or it is a stray. Those
  reasons stay (`Going`), so they still stand when the pass, reads later, finds the
  hash unwatched. What each end of a walk may drop is `DroppedIsKnown`, the same lemma
  `LeavesUnpaid` rests on.

**`ServiceProofs`**, what one process keeps in memory, for any number of concurrent
callers and any limits.

* The request budget: `PollsKeepTheirRoom` (`CreatesLeaveRoomForPolls`) and
  `BackoffHolds` (`BackoffIsHonoured`). What is charged need not be what was sent: a
  429 fills the account, and the window rolls while the back-off lasts. The invariant
  says that both agree unless the window is over no later than the back-off
  (`ChargedIsSent`). The second theorem assumes `BodiesParse`, for the reason section 6
  gives: then every 429 heard is the 429 marked (`HeardIsMarked`).
* The transient cache: `FeedsAreSpared` (`FeedIsSpared`). What matters is the age of the
  last question and what came of it, which the model keeps as `asked`; the running
  fetch, the value or the failure carries that age, each with its own outcome
  (`StampedWhenAsked`). The run has a life shorter than the claim, as the bulk rates
  have; the theorem covers the currency table's longer one as well.
* The choice of a provider: `BackupsAreForOutages` (`BackupIsForOutages`): a call that
  has come to the n-th provider has passed over the ones before because each was out
  while it ran (`PassedOver`).
* The rate cache: `RatesAreYoung` (`ServedIsYoung`), with probes and a clock that steps
  back, under `FetchesEnd`: the timeouts together are below the quote TTL (15 s and
  600 s by default) and bodies do not stall. `ObservationsAreKept`
  (`KeepsObservation`, and at most one refresh at a time) needs `ClaimOutlivesFetch` as
  well: the timeouts are below `cacheSeconds`, the clock steps back within the skew, and
  no probe runs. Without it the statement is false, as section 6 shows. The reason it
  holds: the stamp of the claim is that of the running refresh (`ClaimIsSole`), so as
  long as the refresh runs its claim is seen (`ClaimIsSeen`), and what a failure puts
  back is what is there.
* The listener: `StoppedIsQuiet` (`QuietAfterStop`). Each await of `stop()` leaves
  something behind for good (`LeftBehind`): once `stopped` is set no wake starts a pass
  and nothing begins to settle, so what an await has seen to be over stays over
  (`OverStaysOver`).
* The per-IP limit: `SurplusIsBounded` (`OvershootIsBounded`). Neither the count nor
  the bound is inductive by itself: a request that has counted may still store a row.
  The invariant (`RoomIsLeft`) says that the rows of a window and the requests past its
  count are together fewer than the limit plus the slots, and each step moves one of
  them or lets time take rows away. A count is a sum over ages (`UpTo`); what the sum of
  shifted or extended ages is (`IsSum`) is an induction over the age, carried out on the
  set of ages where the fact would fail: it has no least element (`WFMin`).
* `BudgetTypes`, `CacheTypes`, `ChoiceTypes`, `RatesTypes`, `LimitTypesHold`: the type
  invariant of each.

Only model-checked: liveness (`EveryCallEnds`, `PaymentsAreServed`, `SlowWalksEnd`,
`EveryAttemptIsWalked`, `PaymentIsRecorded`, `NoWakeIsLost`), which TLAPS does not
support here.

Every other property of a passing run is stated, as the same definition, by a theorem
above. The one exception is `RatesAreQuotable`, which joins two instances of the rate
cache: `RatesAreYoung` and `ObservationsAreKept` state its parts for every choice of
constants. `FulfilledIsPaid` (the order is served only for money the wallet has) is
proved and no longer run. The run `stores` checks the ledger's definitions of two repositories; each
has theorems of its own.

## 8. Plan

Every safety property the runs check is proved. What is left: the types of
`WalletMemo`'s recovery pass, `ElementCheckout` and `ReconcileWalk` as theorems of their
own; they are conjuncts of invariants that are proved.

The liveness properties stay with TLC.

## 9. Not modelled

* **NWC transport and normalisation**, relay connections and the lookup of
  capabilities: input and output; the wallet is the environment of four modules.
* **Money**: decimal arithmetic, currency parsing, the pricing chain, amounts and
  limits of swaps: data transformations without state, covered by the test vectors.
* **Provider clients beyond the request budget**: the tables that map provider
  states, and the refund relay of node swaps, whose two concurrent requests only the
  provider can order (`node/src/service/swaps.ts:199`). In the plugin, availability,
  provider choice, poll cadence, the re-mint mark (the same `MutateAsync` on another
  column), and an order left at the provider by a process that died before its row
  was written.
* **In modelled parts**: the watcher's lock placeholders, and a refund answer that
  re-stages after the payer cleared the address; the `creating` flag of an element
  with a remembered Lightning attempt; rows without an amount, dates a later list
  row adds and `RefreshHashAsync` in the memo; the pg connect probe and pool
  detection; schema-version and storage-status probes; read-only routes,
  authorization, price hooks and metadata.
* **Rendering, framework bindings and the wizard's layout**, commerce plugins other
  than BTCPay, and the PHP, Python, Ruby and .NET ports: hosts, or
  re-implementations held to the engine by `spec/test-vectors`.
* **Schema DDL, code generation, documentation tools, demos and the scaffold CLI**:
  no run-time state. These, the ports and the rendering are most of the repository's
  lines, so the modelled lines are a small share of it although nearly all code that
  keeps settlement state is among them.
