-------------------------- MODULE ReconcileScheduler ------------------------
(***************************************************************************)
(* What the durable gate stores: the keyset cursor over the pending        *)
(* attempts and at most two walks of the wallet's history.  Each pass      *)
(* admits attempts behind the cursor, takes one walk out of the queue      *)
(* before any I/O, runs one slice of it and puts back what is left.        *)
(*                                                                         *)
(* The gate makes a pass's claim and its checkpoints atomic and exclusive  *)
(* (ReconcileGate); what a slice finds is the promise of PaymentScan.      *)
(* Deliveries run after the gate was released, beside the next pass.       *)
(***************************************************************************)
EXTENDS Integers, Sequences, FiniteSets, SequencesExt

CONSTANTS
    Attempt,       \* attempts; one that left the ledger stands for the next to come
    Kind,          \* [Attempt -> {"wallet", "host"}], createdAtSource
    Old,           \* the attempts pending at first, in keyset order
    Payable,       \* attempts a payer may pay
    Batch,         \* OPENRECEIVE_RECONCILE_BATCH_SIZE
    MaxArrivals,   \* attempts that arrive between two selections
    MaxSlices      \* slices a walk takes beyond its first

SchedulerAssumption ==
    /\ Kind \in [Attempt -> {"wallet", "host"}]
    /\ Old \in Seq(Attempt) /\ IsInjective(Old)
    /\ Payable \subseteq Attempt
    /\ Batch \in Nat \ {0} /\ MaxArrivals \in Nat /\ MaxArrivals < Batch
    /\ MaxSlices \in Nat

VARIABLES
    ledger,       \* pending attempts in keyset order
    cursor,       \* how many of them lie at or before the stored cursor; 0 is null
    windows,      \* scheduler.windows
    pass,         \* the walk the running pass has taken out
    delivering,   \* attempts found paid whose settlement is being delivered
    received,     \* pending attempts whose payment is in the wallet
    arrivals,     \* attempts that arrived since the last selection
    healthy       \* from here on, nothing fails

schedulerVars == <<ledger, cursor, windows, pass, delivering, received, arrivals, healthy>>

\* A walk: its attempts, the slices left, and those paid when it was created.
Walk(attempts, left) == [attempts |-> attempts, left |-> left,
                         due |-> ToSet(attempts) \cap received]
NoPass == [attempts |-> <<>>, left |-> 0, due |-> {}]

Idle == pass = NoPass
Walking == ToSet(pass.attempts)
Queued == UNION {ToSet(windows[k].attempts) : k \in DOMAIN windows}

-----------------------------------------------------------------------------
SchedulerInit ==
    /\ ledger = Old
    /\ cursor = 0
    /\ windows = <<>>
    /\ pass = NoPass
    /\ delivering = {}
    /\ received = {}
    /\ arrivals = 0
    /\ healthy = FALSE

\* listReconcilableAttempts(after).
ListAfter(after) ==
    SubSeq(ledger, after + 1, IF after + Batch < Len(ledger) THEN after + Batch ELSE Len(ledger))

\* The kinds of the cohorts the first k candidates need.
CohortKinds(candidates, k) == {Kind[candidates[j]] : j \in {j \in 1..k : candidates[j] \notin Queued}}

\* How many candidates are admitted: up to the first whose kind has no slot.
Taken(candidates) ==
    Max({k \in 0..Len(candidates) :
            Len(windows) + Cardinality(CohortKinds(candidates, k)) <= 2})

\* Mutant: a short batch does not wrap; the next query has to come back empty.
CursorAtLast(from, taken, candidates) == IF taken = 0 THEN 0 ELSE from + taken

\* The cursor after a selection; a short batch taken whole wraps at once.
CursorAfter(from, taken, candidates) ==
    IF taken = Len(candidates) /\ taken < Batch THEN 0 ELSE from + taken

\* The candidates of a kind that were taken and are in no walk yet, in their order.
Cohort(candidates, taken, kind) ==
    LET cohort[k \in 0..taken] ==
            IF k = 0 THEN <<>>
            ELSE IF Kind[candidates[k]] = kind /\ candidates[k] \notin Queued
                 THEN Append(cohort[k - 1], candidates[k])
                 ELSE cohort[k - 1]
    IN  cohort[taken]

WalkOf(cohort, left) == IF cohort = <<>> THEN <<>> ELSE <<Walk(cohort, left)>>

\* One walk per cohort that was taken, the wallet-timed one first.
Admitted(candidates, taken, left) ==
    WalkOf(Cohort(candidates, taken, "wallet"), left)
        \o WalkOf(Cohort(candidates, taken, "host"), left)

\* Mutant: the walk stays in the queue while it is walked.
QueueKeepsWalk(queue) == queue

\* The checkpoint before I/O takes the walk out, so that a pass that fails or
\* dies frees its slot.
QueueWithoutWalk(queue) == Tail(queue)

\* The pass up to its checkpoint before I/O: admit attempts unless both walks are
\* under way, then take the first walk out of the queue.
Select(left) ==
    LET listed == ListAfter(cursor)
        from == IF listed = <<>> THEN 0 ELSE cursor
        candidates == IF listed = <<>> THEN ListAfter(0) ELSE listed
        taken == Taken(candidates)
        queue == IF Len(windows) < 2 THEN windows \o Admitted(candidates, taken, left)
                 ELSE windows
    IN  /\ Idle
        /\ IF Len(windows) < 2
           THEN cursor' = CursorAfter(from, taken, candidates) /\ arrivals' = 0
           ELSE UNCHANGED <<cursor, arrivals>>
        /\ IF queue = <<>>
           THEN UNCHANGED <<windows, pass>>
           ELSE windows' = QueueWithoutWalk(queue) /\ pass' = Head(queue)
        /\ UNCHANGED <<ledger, delivering, received, healthy>>

\* The release checkpoint, and the checks it hands on for delivery.
Release(queue, checks) ==
    /\ windows' = queue
    /\ pass' = NoPass
    /\ delivering' = delivering \cup checks
    /\ UNCHANGED <<ledger, cursor, received, arrivals, healthy>>

\* A complete slice has found what was paid when its walk was created; it may
\* have found later payments, too.
Complete ==
    /\ ~Idle
    /\ pass.left = 0
    /\ \E checks \in {pass.due \cap received, Walking \cap received} : Release(windows, checks)

\* splitWindow: two fresh walks, cut at a creation time.
Halves(left) ==
    LET middle == Len(pass.attempts) \div 2
    IN  <<Walk(SubSeq(pass.attempts, 1, middle), left),
          Walk(SubSeq(pass.attempts, middle + 1, Len(pass.attempts)), left)>>

Splittable == Len(pass.attempts) > 1 /\ \A a \in Walking : Kind[a] = "wallet"

\* Only a walk that is alone is split.
Alone == windows = <<>>

\* A continued walk goes to the end of the queue, or in halves when it is alone
\* and its attempts were not all created in the same second.
Continue(left) ==
    /\ ~Idle
    /\ pass.left > 0
    /\ \E checks \in {{}, Walking \cap received} :
        \/ Release(Append(windows, [pass EXCEPT !.left = @ - 1]), checks)
        \/ Alone /\ Splittable /\ Release(windows \o Halves(left), checks)

\* The slice fails, stalls or outlives its lease, or the process stops: nothing
\* is put back.
Fail ==
    /\ ~healthy
    /\ ~Idle
    /\ Release(windows, {})

\* An attempt leaves the pending rows; the cursor keeps its place among them.
LeavePending(a) ==
    LET place == CHOOSE k \in DOMAIN ledger : ledger[k] = a
    IN  /\ ledger' = RemoveAt(ledger, place)
        /\ cursor' = IF place <= cursor THEN cursor - 1 ELSE cursor
        /\ received' = received \ {a}

\* onPaid for one check, by streaming or after the release; an attempt settled
\* meanwhile is left alone.
Deliver(a) ==
    /\ a \in delivering
    /\ delivering' = delivering \ {a}
    /\ IF a \in received THEN LeavePending(a) ELSE UNCHANGED <<ledger, cursor, received>>
    /\ UNCHANGED <<windows, pass, arrivals, healthy>>

\* A delivery throws or its process stops; the attempt stays pending.
LoseDelivery(a) ==
    /\ ~healthy
    /\ a \in delivering
    /\ delivering' = delivering \ {a}
    /\ UNCHANGED <<ledger, cursor, windows, pass, received, arrivals, healthy>>

\* onFinality: a payment is delivered while its walk goes on.
Stream(a) ==
    /\ a \in Walking \cap received
    /\ LeavePending(a)
    /\ UNCHANGED <<windows, pass, delivering, arrivals, healthy>>

\* Requests, payers, notifications, clocks.
Arrive(a) ==
    /\ arrivals < MaxArrivals
    /\ a \notin ToSet(ledger) \cup Queued \cup Walking \cup delivering
    /\ ledger' = Append(ledger, a)
    /\ arrivals' = arrivals + 1
    /\ UNCHANGED <<cursor, windows, pass, delivering, received, healthy>>

Pay(a) ==
    /\ a \in (Payable \cap ToSet(ledger)) \ received
    /\ received' = received \cup {a}
    /\ UNCHANGED <<ledger, cursor, windows, pass, delivering, arrivals, healthy>>

SettledElsewhere(a) ==
    /\ a \in ToSet(ledger)
    /\ LeavePending(a)
    /\ UNCHANGED <<windows, pass, delivering, arrivals, healthy>>

Recover ==
    /\ ~healthy
    /\ healthy' = TRUE
    /\ UNCHANGED <<ledger, cursor, windows, pass, delivering, received, arrivals>>

RunPass == \E left \in 0..MaxSlices : Select(left)
EndSlice == Complete \/ Fail \/ \E left \in 0..MaxSlices : Continue(left)

SchedulerNext ==
    \/ RunPass \/ EndSlice \/ Recover
    \/ \E a \in Attempt :
        Deliver(a) \/ LoseDelivery(a) \/ Stream(a) \/ Arrive(a) \/ Pay(a) \/ SettledElsewhere(a)

SchedulerSpec == SchedulerInit /\ [][SchedulerNext]_schedulerVars

\* Passes keep starting (the background reconciler, or any later request), a
\* slice is cut by its timeout, and a process that does not stop delivers.
SchedulerFairSpec ==
    /\ SchedulerSpec
    /\ WF_schedulerVars(RunPass)
    /\ WF_schedulerVars(EndSlice)
    /\ \A a \in Payable : WF_schedulerVars(Deliver(a))

-----------------------------------------------------------------------------
SchedulerTypeOK ==
    /\ ledger \in Seq(Attempt) /\ IsInjective(ledger)
    /\ cursor \in 0..Len(ledger)
    /\ Len(windows) <= 2
    /\ \A k \in DOMAIN windows :
        /\ windows[k].attempts \in Seq(Attempt) \ {<<>>}
        /\ windows[k].left \in 0..MaxSlices
    /\ pass.attempts \in Seq(Attempt)
    /\ delivering \subseteq Attempt /\ received \subseteq ToSet(ledger)
    /\ arrivals \in 0..MaxArrivals
    /\ healthy \in BOOLEAN

\* No attempt is looked for twice at a time: the queued walks and the one under way
\* share none, and none names it twice, although a walk comes back whole or in halves
\* and the cursor wraps over what is still queued (maybeReconcilePayments).
WalksAreApart ==
    /\ \A k \in DOMAIN windows : IsInjective(windows[k].attempts)
    /\ \A j, k \in DOMAIN windows :
        j # k => ToSet(windows[j].attempts) \cap ToSet(windows[k].attempts) = {}
    /\ IsInjective(pass.attempts)
    /\ Walking \cap Queued = {}

\* No pending attempt starves, although others keep arriving behind the cursor,
\* walks take several slices, and every slice may fail.
EveryAttemptIsWalked ==
    \A a \in Attempt : a \in ToSet(ledger) ~> a \notin ToSet(ledger) \/ a \in Walking

\* Once failures have ended, a payment that only the wallet knows of is recorded:
\* what a lost delivery or a failed slice forgot comes back with the cursor.
PaymentIsRecorded ==
    \A a \in Payable : healthy /\ a \in received ~> a \notin received
=============================================================================
