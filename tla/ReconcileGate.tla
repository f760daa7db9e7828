---------------------------- MODULE ReconcileGate ---------------------------
(***************************************************************************)
(* The durable gate that lets one worker at a time scan the wallet: one    *)
(* row of openreceive_meta with a revision, claimed and checkpointed by    *)
(* compare-and-set.  Every read, write and read-back is a step of its own, *)
(* a worker may stop between any two, and each worker has its own clock.   *)
(*                                                                         *)
(* The scheduler kept in the row is opaque here: the set of the claims     *)
(* that have checkpointed progress into it.  ReconcileScheduler opens it.  *)
(***************************************************************************)
EXTENDS Integers

CONSTANTS
    Worker,       \* application workers sharing the database
    Offset,       \* [Worker -> Int], how far a worker's clock is from the true one
    MinInterval,  \* the configured interval between scans
    Intervals,    \* the intervals reconcileIntervalSeconds may ask for
    Lease,        \* leaseSeconds
    Skew,         \* META_CLOCK_SKEW_SECONDS
    Retries,      \* RECONCILE_GATE_CAS_RETRIES
    StartClock, MaxClock,  \* bounds on the true clock
    MaxClaims,    \* bound on the claims granted
    MaxRev        \* bound on the row's revision

ASSUME GateAssumption ==
    /\ Offset \in [Worker -> Int]
    /\ MinInterval \in Nat /\ Intervals \subseteq Nat
    /\ Lease \in Nat \ {0} /\ Skew \in Nat /\ Retries \in Nat \ {0}
    /\ StartClock \in Nat /\ MaxClock \in Nat /\ MaxClaims \in Nat /\ MaxRev \in Nat
    /\ StartClock <= MaxClock
    /\ \A w \in Worker : StartClock + Offset[w] >= 1

VARIABLES
    gate,    \* the row's value
    rev,     \* the row's revision
    issued,  \* claims written so far; a claim's token is its number
    pc,      \* where each worker is in claimMetaGate or checkpointMetaGate
    call,    \* what it keeps between the statements of that call
    saved,   \* claims whose worker was told its progress is stored
    clock    \* the true time

workerVars == <<pc, call>>
vars == <<gate, rev, issued, pc, call, saved, clock>>

Step == {"idle", "claimRead", "claimWrite", "claimReadback",
         "holding", "checkpointRead", "checkpointWrite", "checkpointReadback"}

\* No row yet; the value of an earlier release, which is discarded; or a gate.
NoGate == [kind |-> "absent"]
LegacyGate == [kind |-> "legacy"]
Gate == [kind : {"gate"}, token : 1..MaxClaims, claimed_at : Int, lease_until : Int,
         interval_seconds : Nat, finished_at : SUBSET Int, scheduler : SUBSET (1..MaxClaims)]

\* What a call keeps: the clock it read, the tries it made, the row and revision
\* it read, the value it wants to write, its claim's token and lease.
Call == [now |-> 0, tries |-> 0, read |-> NoGate, rev |-> 0, value |-> NoGate,
         token |-> 0, lease_until |-> 0, scheduler |-> {}, release |-> FALSE]

Now(w) == clock + Offset[w]

\* parseGate: nothing is known of a row that is absent or of an earlier release.
Known(g) == g.kind = "gate"
SchedulerOf(g) == IF Known(g) THEN g.scheduler ELSE {}

-----------------------------------------------------------------------------
\* Inside the window, allowing for skew.
isFreshTimestamp(now, timestamp, window) ==
    /\ now - timestamp >= -Skew
    /\ now - timestamp < window

ClaimInterval(g) ==
    LET stored == IF Known(g) THEN g.interval_seconds ELSE 2
    IN  IF stored > MinInterval THEN stored ELSE MinInterval

\* Mutant: the end of a long pass is forgotten.
ClaimedRecently(g, now) ==
    /\ Known(g)
    /\ isFreshTimestamp(now, g.claimed_at, ClaimInterval(g))

\* A scan started or finished within the interval.
ScannedRecently(g, now) ==
    /\ Known(g)
    /\ \/ isFreshTimestamp(now, g.claimed_at, ClaimInterval(g))
       \/ \E t \in g.finished_at : isFreshTimestamp(now, t, ClaimInterval(g))

\* Mutant: the lease is not looked at.
LeaseIgnored(g, now) == FALSE

\* Another worker's lease runs, unless it was stamped by a clock far ahead.
Leased(g, now) ==
    /\ Known(g)
    /\ g.claimed_at <= now + Skew
    /\ g.lease_until > now

ClaimValue(g, token, now) ==
    [kind |-> "gate", token |-> token, claimed_at |-> now, lease_until |-> now + Lease,
     interval_seconds |-> MinInterval, finished_at |-> {}, scheduler |-> SchedulerOf(g)]

\* The holder's scheduler replaces the stored one.
CheckpointValue(g, scheduler, now, release, interval) ==
    [g EXCEPT !.scheduler = scheduler,
              !.lease_until = IF release THEN 0 ELSE @,
              !.interval_seconds = interval,
              !.finished_at = IF release THEN {now} ELSE @]

\* Mutant: the UPDATE does not compare the revision.
AppliesAlways(read, r) == IF read = NoGate THEN gate = NoGate ELSE gate # NoGate

\* insertIfAbsent (the row must still be absent) or compareAndSet.
Applies(read, r) == IF read = NoGate THEN gate = NoGate ELSE gate # NoGate /\ rev = r

-----------------------------------------------------------------------------
Init ==
    /\ gate \in {NoGate, LegacyGate}
    /\ rev = 0
    /\ issued = 0
    /\ pc = [w \in Worker |-> "idle"]
    /\ call = [w \in Worker |-> Call]
    /\ saved = {}
    /\ clock = StartClock

Goto(w, step) == pc' = [pc EXCEPT ![w] = step]

\* The pass ends: refused, lost or finished.
Leave(w) ==
    /\ Goto(w, "idle")
    /\ call' = [call EXCEPT ![w] = Call]

\* maybeReconcilePayments reads its clock, then asks for the gate.
AskClaim(w) ==
    /\ pc[w] = "idle"
    /\ Goto(w, "claimRead")
    /\ call' = [call EXCEPT ![w].now = Now(w)]
    /\ UNCHANGED <<gate, rev, issued, saved, clock>>

ClaimRead(w) ==
    /\ pc[w] = "claimRead"
    /\ IF ScannedRecently(gate, call[w].now) \/ Leased(gate, call[w].now)
       THEN Leave(w)
       ELSE /\ Goto(w, "claimWrite")
            /\ call' = [call EXCEPT ![w].read = gate, ![w].rev = rev]
    /\ UNCHANGED <<gate, rev, issued, saved, clock>>

Granted(w, c) ==
    /\ Goto(w, "holding")
    /\ call' = [call EXCEPT ![w] =
                    [Call EXCEPT !.token = c.token, !.lease_until = c.lease_until,
                                 !.scheduler = c.scheduler]]

TryAgain(w) ==
    IF call[w].tries + 1 < Retries
    THEN /\ Goto(w, "claimRead")
         /\ call' = [call EXCEPT ![w] = [Call EXCEPT !.now = call[w].now,
                                                     !.tries = call[w].tries + 1]]
    ELSE Leave(w)

\* The write of the claim; an insert starts the row at revision 0.  A store that
\* cannot tell whether it took effect is asked for the row again.
ClaimWrite(w) ==
    LET value == ClaimValue(call[w].read, issued + 1, call[w].now)
        applies == Applies(call[w].read, call[w].rev)
    IN  /\ pc[w] = "claimWrite"
        /\ issued < MaxClaims /\ rev < MaxRev
        /\ IF applies
           THEN /\ gate' = value
                /\ rev' = IF gate = NoGate THEN 0 ELSE rev + 1
                /\ issued' = issued + 1
           ELSE UNCHANGED <<gate, rev, issued>>
        /\ \/ /\ Goto(w, "claimReadback")
              /\ call' = [call EXCEPT ![w].value = IF applies THEN value ELSE NoGate]
           \/ IF applies THEN Granted(w, value) ELSE TryAgain(w)
        /\ UNCHANGED <<saved, clock>>

ClaimReadback(w) ==
    /\ pc[w] = "claimReadback"
    /\ IF call[w].value # NoGate /\ gate = call[w].value
       THEN Granted(w, call[w].value)
       ELSE TryAgain(w)
    /\ UNCHANGED <<gate, rev, issued, saved, clock>>

-----------------------------------------------------------------------------
\* The holder moves its scheduler on and stores it: before it scans, before it
\* delivers a payment and, releasing the gate, when its slice is done.
AskCheckpoint(w, release) ==
    /\ pc[w] = "holding"
    /\ Goto(w, "checkpointRead")
    /\ call' = [call EXCEPT ![w].now = Now(w), ![w].release = release,
                            ![w].scheduler = @ \cup {call[w].token}]
    /\ UNCHANGED <<gate, rev, issued, saved, clock>>

\* Mutant: any gate on a running lease will do.
HoldsAny(w, g, now) ==
    /\ Known(g)
    /\ g.lease_until > now

\* Still the gate of w's claim, on a running lease.
Holds(w, g, now) ==
    /\ Known(g)
    /\ g.token = call[w].token
    /\ g.lease_until > now

CheckpointRead(w) ==
    /\ pc[w] = "checkpointRead"
    /\ IF Holds(w, gate, call[w].now)
       THEN \E interval \in Intervals :
                /\ Goto(w, "checkpointWrite")
                /\ call' = [call EXCEPT
                        ![w].read = gate, ![w].rev = rev,
                        ![w].value = CheckpointValue(gate, call[w].scheduler, call[w].now,
                                                     call[w].release, interval)]
       ELSE Leave(w)
    /\ UNCHANGED <<gate, rev, issued, saved, clock>>

\* The worker learns whether its checkpoint is stored; if it is not, its pass is
\* over.
Stored(w, stored) ==
    /\ saved' = IF stored THEN saved \cup {call[w].token} ELSE saved
    /\ IF stored /\ ~call[w].release THEN Granted(w, call[w]) ELSE Leave(w)

CheckpointWrite(w) ==
    LET applies == Applies(call[w].read, call[w].rev)
    IN  /\ pc[w] = "checkpointWrite"
        /\ rev < MaxRev
        /\ IF applies
           THEN gate' = call[w].value /\ rev' = rev + 1
           ELSE UNCHANGED <<gate, rev>>
        /\ \/ /\ Goto(w, "checkpointReadback")
              /\ UNCHANGED <<call, saved>>
           \/ Stored(w, applies)
        /\ UNCHANGED <<issued, clock>>

CheckpointReadback(w) ==
    /\ pc[w] = "checkpointReadback"
    /\ Stored(w, gate = call[w].value)
    /\ UNCHANGED <<gate, rev, issued, clock>>

-----------------------------------------------------------------------------
\* The process dies, the scan fails or times out, a statement throws: nothing
\* releases the lease.
Abandon(w) ==
    /\ pc[w] # "idle"
    /\ Leave(w)
    /\ UNCHANGED <<gate, rev, issued, saved, clock>>

Tick ==
    /\ clock < MaxClock
    /\ clock' = clock + 1
    /\ UNCHANGED <<gate, rev, issued, pc, call, saved>>

Serve(w) ==
    \/ ClaimRead(w) \/ ClaimWrite(w) \/ ClaimReadback(w)
    \/ CheckpointRead(w) \/ CheckpointWrite(w) \/ CheckpointReadback(w)

Next ==
    \/ \E w \in Worker :
        \/ AskClaim(w)
        \/ \E release \in BOOLEAN : AskCheckpoint(w, release)
        \/ Serve(w)
        \/ Abandon(w)
    \/ Tick

Spec == Init /\ [][Next]_vars

-----------------------------------------------------------------------------
TypeOK ==
    /\ gate \in Gate \cup {NoGate, LegacyGate}
    /\ rev \in 0..MaxRev
    /\ issued \in 0..MaxClaims
    /\ pc \in [Worker -> Step]
    /\ DOMAIN call = Worker
    /\ saved \subseteq 1..MaxClaims
    /\ clock \in StartClock..MaxClock

\* No worker overwrites scan progress another one stored: neither a claim made
\* from a row that has moved on nor a holder whose lease ran out
\* (compareAndSet on the revision that was read).
NoProgressLost == [][SchedulerOf(gate) \subseteq SchedulerOf(gate')]_vars

\* Progress a worker was told is stored stays in the row every later claim gets
\* (checkpointMetaGate's answer, by row count or by reading back).
ToldProgressIsStored == saved \subseteq SchedulerOf(gate)

\* Scans respect the budget: a claim is stamped at least an interval after the
\* last claim and after the end of the last pass, or more than the tolerated
\* skew before one of them, the rewound clock that must not freeze the gate.
ScansAreSpaced ==
    [][issued' > issued /\ Known(gate) =>
        \A t \in {gate.claimed_at} \cup gate.finished_at :
            \/ gate'.claimed_at >= t + ClaimInterval(gate)
            \/ gate'.claimed_at < t - Skew]_vars

\* While a worker's lease runs on every worker's clock, no other worker is given
\* the gate: it alone walks the wallet.
LeaseIsHonoured ==
    \A w \in Worker :
        pc[w] = "holding" /\ (\A v \in Worker : Now(v) < call[w].lease_until) =>
            Known(gate) /\ gate.token = call[w].token

\* The clock a call has read is not behind any worker's by more than the tolerated
\* skew when the call looks at the row.
ClaimsArePrompt ==
    \A v, w \in Worker : pc[w] = "claimRead" => Now(v) <= call[w].now + Skew

\* Leases are honoured as long as calls are prompt: one that stalls between
\* reading its clock and the row looks like one whose clock was rewound, and the
\* lease of a stamp that far ahead is not looked at (claimMetaGate).
LeaseIsHonouredWithinSkew == []ClaimsArePrompt => []LeaseIsHonoured
=============================================================================
