------------------------ MODULE SupabaseLedgerProofs ------------------------
(***************************************************************************)
(* The repository over Supabase implements AttemptLedger although it       *)
(* decides outside the lock: a decision depends only on the statuses and   *)
(* reasons of the reference's rows, which is what the write functions      *)
(* compare.  So a request that is carried out, however late, writes what   *)
(* it would have decided then.                                             *)
(***************************************************************************)
EXTENDS SupabaseLedger, AttemptLedgerProofs

USE RulesAssumption, LedgerAssumption

-----------------------------------------------------------------------------
(***************************************************************************)
(* Decisions are a function of the snapshot.                               *)
(***************************************************************************)
LEMMA OwnSibling == \A h \in Hash : h \in Siblings(h)
  BY DEF Siblings, HashesOf

LEMMA SnapshotRows ==
    ASSUME NEW S, NEW T, NEW h, Snapshot(S, h) = Snapshot(T, h), NEW g \in Siblings(h)
    PROVE  S[g].status = T[g].status /\ S[g].reason = T[g].reason
<1>1. Snapshot(S, h)[g] = Snapshot(T, h)[g]
  OBVIOUS
<1>2. <<S[g].status, S[g].reason>> = <<T[g].status, T[g].reason>>
  BY <1>1 DEF Snapshot
<1> QED
  BY <1>2

LEMMA SameSettled ==
    ASSUME NEW S, NEW T, NEW h \in Hash, Snapshot(S, h) = Snapshot(T, h)
    PROVE  SettledSiblings(S, h) = SettledSiblings(T, h)
<1>1. \A g \in Siblings(h) : S[g].status = T[g].status
  BY SnapshotRows
<1> QED
  BY <1>1 DEF SettledSiblings

LEMMA SameLive ==
    ASSUME NEW S, NEW T, NEW h \in Hash, NEW n, Snapshot(S, h) = Snapshot(T, h)
    PROVE  LiveSiblings(S, h, n) = LiveSiblings(T, h, n)
<1>1. \A g \in Siblings(h) : S[g].status = T[g].status /\ S[g].reason = T[g].reason
  BY SnapshotRows
<1> QED
  BY <1>1 DEF LiveSiblings, isLivePaymentAttempt

LEMMA SameSuperseded ==
    ASSUME NEW S, NEW T, NEW h \in Hash, NEW n, Snapshot(S, h) = Snapshot(T, h)
    PROVE  Superseded(S, h, n) = Superseded(T, h, n)
  BY SameLive DEF Superseded

LEMMA SameAllowed ==
    ASSUME NEW S, NEW T, NEW h \in Hash, NEW n, Snapshot(S, h) = Snapshot(T, h),
           CommitAllowed(S, h, n)
    PROVE  CommitAllowed(T, h, n)
<1>1. S[h].status = T[h].status
  BY SnapshotRows, OwnSibling
<1>2. LiveSiblings(S, h, n) = LiveSiblings(T, h, n)
  BY SameLive
<1>3. SettledSiblings(S, h) = SettledSiblings(T, h)
  BY SameSettled
<1> QED
  BY <1>1, <1>2, <1>3 DEF CommitAllowed

-----------------------------------------------------------------------------
\* What a caller is called with: times that have passed, and for a closure the
\* transition of a scan.
JobHolds(j) ==
    /\ j \in Job
    /\ j.op \in {"commit", "reconcile"} => j.at <= clock
    /\ j.op = "reconcile" =>
        \E s \in ScanStatus, st \in TransactionState :
            LET transition == reconciliationTransition(settlementExpiresAt(j.h), s, st, j.at)
            IN  /\ transition # NoTransition
                /\ j.status = transition.status
                /\ j.reason = transition.reason

\* What a request asks for follows from its own snapshot, for any table that
\* still matches it.
RequestHolds(R) ==
    /\ R = [from |-> R.from, job |-> R.job, snapshot |-> R.snapshot, old |-> R.old,
            first |-> R.first, now |-> R.now]
    /\ R.from \in Worker \cup {NoWorker}
    /\ JobHolds(R.job)
    /\ R.now \in Nat /\ R.now <= clock
    /\ R.first \in BOOLEAN
    /\ R.job.op # "settle" => ~R.first
    /\ R.job.op \in {"commit", "reconcile"} => R.now = R.job.at
    /\ R.job.op = "commit" =>
        \A table : Snapshot(table, R.job.h) = R.snapshot =>
            /\ CommitAllowed(table, R.job.h, R.now)
            /\ R.old = Superseded(table, R.job.h, R.now)
    /\ R.job.op = "settle" =>
        \A table : Snapshot(table, R.job.h) = R.snapshot =>
            (R.first <=> SettledSiblings(table, R.job.h) = {})

CallHolds(w) ==
    /\ pc[w] # "idle" => JobHolds(job[w])
    /\ pc[w] = "send" => job[w].op = "reconcile"
    /\ pc[w] \in {"idle", "read", "send"} => tries[w] < StaleRetries

\* A caller waits for one request at a time.
Awaited ==
    /\ \A R \in requests : R.from \in Worker => pc[R.from] = "sent"
    /\ \A R, S \in requests : R.from = S.from /\ R.from \in Worker => R = S

CallTypes ==
    /\ pc \in [Worker -> {"idle", "read", "send", "sent"}]
    /\ DOMAIN job = Worker
    /\ \A w \in Worker : job[w] \in Job \cup {NoJob}
    /\ tries \in [Worker -> 0..StaleRetries]
    /\ acked \subseteq (Op \X Hash)

SupabaseInv ==
    /\ TypeOK
    /\ CallTypes
    /\ \A w \in Worker : CallHolds(w)
    /\ \A R \in requests : RequestHolds(R)
    /\ Awaited

-----------------------------------------------------------------------------
(***************************************************************************)
(* What is believed of jobs and requests survives every step.              *)
(***************************************************************************)
LEMMA JobStays ==
    ASSUME NEW j, clock \in Nat, clock' \in Nat, clock <= clock', JobHolds(j)
    PROVE  JobHolds(j)'
<1>1. j.at \in Nat
  BY DEF JobHolds, Job
<1> QED
  BY <1>1 DEF JobHolds

LEMMA RequestStays ==
    ASSUME NEW R, clock \in Nat, clock' \in Nat, clock <= clock', RequestHolds(R)
    PROVE  RequestHolds(R)'
<1>1. JobHolds(R.job)'
  BY JobStays DEF RequestHolds
<1>2. R.now <= clock'
  BY DEF RequestHolds
<1> QED
  BY <1>1, <1>2 DEF RequestHolds

\* A request that nobody waits for any more asks for the same.
LEMMA OrphanHolds ==
    ASSUME NEW R, RequestHolds(R)
    PROVE  RequestHolds([R EXCEPT !.from = NoWorker])
<1> DEFINE S == [R EXCEPT !.from = NoWorker]
<1>1. /\ S = [from |-> NoWorker, job |-> R.job, snapshot |-> R.snapshot, old |-> R.old,
              first |-> R.first, now |-> R.now]
  BY DEF RequestHolds
<1>2. /\ S.from = NoWorker /\ S.job = R.job /\ S.snapshot = R.snapshot /\ S.old = R.old
      /\ S.first = R.first /\ S.now = R.now
  BY <1>1
<1> HIDE DEF S
<1>3. RequestHolds(S)
  BY <1>1, <1>2 DEF RequestHolds
<1> QED
  BY <1>3 DEF S

-----------------------------------------------------------------------------
(***************************************************************************)
(* A request that is carried out is one step of the ledger.                *)
(***************************************************************************)
LEMMA CarriedCommit ==
    ASSUME NEW R, RequestHolds(R), clock \in Nat, R.job.op = "commit", StillHolds(R),
           rows' = WithCommitted(rows, R.job.h, R.old, R.now),
           UNCHANGED <<fulfilled, audited, clock>>
    PROVE  Next
<1>1. R.job.h \in Hash /\ R.now \in 0..clock
  BY DEF RequestHolds, JobHolds, Job
<1>2. Snapshot(rows, R.job.h) = R.snapshot
  BY DEF StillHolds
<1>3. CommitAllowed(rows, R.job.h, R.now) /\ R.old = Superseded(rows, R.job.h, R.now)
  BY <1>2 DEF RequestHolds
<1>4. CommitAttempt(R.job.h, R.now)
  BY <1>3 DEF CommitAttempt
<1> QED
  BY <1>1, <1>4 DEF Next

LEMMA CarriedSettle ==
    ASSUME NEW R, RequestHolds(R), clock \in Nat, R.job.op = "settle", StillHolds(R),
           Pending(R.job.h),
           rows' = WithSettled(rows, R.job.h, R.first, R.now),
           fulfilled' = FulfilledBy(R.job.h, R.first),
           UNCHANGED <<audited, clock>>
    PROVE  Next
<1>1. R.job.h \in Hash /\ R.now \in 0..clock /\ R.first \in BOOLEAN
  BY DEF RequestHolds, JobHolds, Job
<1>2. Snapshot(rows, R.job.h) = R.snapshot
  BY DEF StillHolds
<1>3. R.first <=> SettledSiblings(rows, R.job.h) = {}
  BY <1>2 DEF RequestHolds
<1>4. R.first = (SettledSiblings(rows, R.job.h) = {})
  BY <1>1, <1>3
<1>5. MarkPaidOnce(R.job.h, R.now)
  BY <1>4 DEF MarkPaidOnce
<1> QED
  BY <1>1, <1>5 DEF Next

LEMMA CarriedReconcile ==
    ASSUME NEW R, RequestHolds(R), clock \in Nat, R.job.op = "reconcile",
           Pending(R.job.h), rows' = WithClosed(rows, R.job.h, R.job, R.now),
           UNCHANGED <<fulfilled, audited, clock>>
    PROVE  Next
<1>1. R.job.h \in Hash /\ R.now \in 0..clock /\ R.now = R.job.at
  BY DEF RequestHolds, JobHolds, Job
<1>2. PICK s \in ScanStatus, st \in TransactionState :
        LET transition == reconciliationTransition(settlementExpiresAt(R.job.h), s, st, R.now)
        IN  /\ transition # NoTransition
            /\ R.job.status = transition.status
            /\ R.job.reason = transition.reason
  BY <1>1 DEF RequestHolds, JobHolds
<1>3. RecordReconciliation(R.job.h, s, st, R.now)
  BY <1>2 DEF RecordReconciliation, WithClosed
<1> QED
  BY <1>1, <1>3 DEF Next

LEMMA CarryIsStep ==
    ASSUME NEW R, RequestHolds(R), clock \in Nat, NEW heard, Carry(R, heard)
    PROVE  [Next]_vars
<1>1. Writes(R) /\ UNCHANGED <<audited, clock>>
  BY DEF Carry
<1>2. CASE /\ R.job.op = "commit" /\ StillHolds(R)
           /\ rows' = WithCommitted(rows, R.job.h, R.old, R.now)
           /\ UNCHANGED fulfilled
  BY <1>1, <1>2, CarriedCommit
<1>3. CASE /\ R.job.op = "settle" /\ StillHolds(R) /\ Pending(R.job.h)
           /\ rows' = WithSettled(rows, R.job.h, R.first, R.now)
           /\ fulfilled' = FulfilledBy(R.job.h, R.first)
  BY <1>1, <1>3, CarriedSettle
<1>4. CASE /\ R.job.op = "reconcile" /\ Pending(R.job.h)
           /\ rows' = WithClosed(rows, R.job.h, R.job, R.now)
           /\ UNCHANGED fulfilled
  BY <1>1, <1>4, CarriedReconcile
<1>5. CASE R.job.op = "reconcile" /\ ~Pending(R.job.h) /\ rows' = rows /\ UNCHANGED fulfilled
  BY <1>1, <1>5 DEF vars
<1> QED
  BY <1>1, <1>2, <1>3, <1>4, <1>5 DEF Writes

LEMMA SupabaseIsStep ==
    ASSUME SupabaseInv, [SupabaseNext]_supabaseVars
    PROVE  [Next]_vars
<1>1. clock \in Nat
  BY DEF SupabaseInv, TypeOK
<1>2. ASSUME NEW R \in requests, NEW heard \in BOOLEAN, Carry(R, heard)
      PROVE  [Next]_vars
  BY <1>1, <1>2, CarryIsStep DEF SupabaseInv
<1>3. CASE TimePasses
  BY <1>3 DEF TimePasses, Next
<1>4. CASE UNCHANGED vars
  BY <1>4
<1>5. ASSUME NEW w \in Worker,
             \/ \E h \in Hash : CallCommit(w, h) \/ CallSettle(w, h)
             \/ \E h \in Hash, result \in ScanResult : CallReconcile(w, h, result)
             \/ DecideCommit(w) \/ DecideSettle(w) \/ SendReconcile(w) \/ FailRead(w)
      PROVE  UNCHANGED vars
  BY <1>5 DEF CallCommit, CallSettle, CallReconcile, Call, DecideCommit, DecideSettle,
              SendReconcile, FailRead, vars
<1>6. ASSUME NEW R \in requests, Refuse(R) \/ Lose(R) \/ TimeOut(R)
      PROVE  UNCHANGED vars
  BY <1>6 DEF Refuse, Lose, TimeOut, vars
<1>7. CASE UNCHANGED supabaseVars
  BY <1>7 DEF supabaseVars, vars
<1> QED
  BY <1>2, <1>3, <1>4, <1>5, <1>6, <1>7 DEF SupabaseNext

-----------------------------------------------------------------------------
(***************************************************************************)
(* The calls: what a return, a read and a send leave true of every caller. *)
(***************************************************************************)
TimeGrows == clock \in Nat /\ clock' \in Nat /\ clock <= clock'

CallsHold == CallTypes /\ \A w \in Worker : CallHolds(w)

LEMMA ReturnHolds ==
    ASSUME SupabaseAssumption, TimeGrows, CallsHold, NEW w \in Worker,
           NEW told \in SUBSET (Op \X Hash), Return(w, told)
    PROVE  CallsHold'
<1> USE DEF CallTypes, CallsHold, Return
<1>1. CallTypes'
  BY DEF SupabaseAssumption
<1>2. ASSUME NEW v \in Worker
      PROVE  CallHolds(v)'
  <2>1. CASE v = w
    BY <2>1 DEF CallHolds, SupabaseAssumption
  <2>2. CASE v # w
    <3>1. pc'[v] = pc[v] /\ job'[v] = job[v] /\ tries'[v] = tries[v]
      BY <2>2
    <3>2. JobHolds(job[v]) => (JobHolds(job[v]))'
      <4>1. PICK j : j = job[v]
        OBVIOUS
      <4>2. JobHolds(j) => JobHolds(j)'
        BY JobStays DEF TimeGrows
      <4>3. j = job'[v]
        BY <3>1, <4>1
      <4> QED
        BY <4>1, <4>2, <4>3
    <3> QED
      BY <3>1, <3>2 DEF CallHolds
  <2> QED
    BY <2>1, <2>2
<1> QED
  BY <1>1, <1>2

LEMMA SendHolds ==
    ASSUME SupabaseAssumption, TimeGrows, CallsHold, NEW w \in Worker, NEW R,
           pc[w] \in {"read", "send"}, Send(w, R)
    PROVE  CallsHold'
<1> USE DEF CallTypes, CallsHold, Send
<1>1. tries[w] < StaleRetries
  BY DEF CallHolds
<1>2. CallTypes'
  BY <1>1 DEF SupabaseAssumption
<1>3. ASSUME NEW v \in Worker
      PROVE  CallHolds(v)'
  <2>1. JobHolds(job[v]) => (JobHolds(job[v]))'
    <3>1. PICK j : j = job[v]
      OBVIOUS
    <3>2. JobHolds(j) => JobHolds(j)'
      BY JobStays DEF TimeGrows
    <3>3. j = job'[v]
      BY <3>1
    <3> QED
      BY <3>1, <3>2, <3>3
  <2>2. CASE v = w
    BY <2>1, <2>2 DEF CallHolds
  <2>3. CASE v # w
    <3>1. pc'[v] = pc[v] /\ job'[v] = job[v] /\ tries'[v] = tries[v]
      BY <2>3
    <3> QED
      BY <2>1, <3>1 DEF CallHolds
  <2> QED
    BY <2>2, <2>3
<1> QED
  BY <1>2, <1>3

\* A caller that a stale answer sends back to its read still has a try left.
LEMMA RetryHolds ==
    ASSUME SupabaseAssumption, TimeGrows, CallsHold, NEW w \in Worker,
           pc[w] = "sent", MayRetry(w),
           pc' = [pc EXCEPT ![w] = "read"], UNCHANGED <<job, tries, acked>>
    PROVE  CallsHold'
<1> USE DEF CallTypes, CallsHold
<1>1. CallTypes'
  OBVIOUS
<1>2. ASSUME NEW v \in Worker
      PROVE  CallHolds(v)'
  <2>1. JobHolds(job[v]) => (JobHolds(job[v]))'
    <3>1. PICK j : j = job[v]
      OBVIOUS
    <3>2. JobHolds(j) => JobHolds(j)'
      BY JobStays DEF TimeGrows
    <3>3. j = job'[v]
      BY <3>1
    <3> QED
      BY <3>1, <3>2, <3>3
  <2>2. CASE v = w
    BY <2>1, <2>2 DEF CallHolds, MayRetry
  <2>3. CASE v # w
    BY <2>1, <2>3 DEF CallHolds
  <2> QED
    BY <2>2, <2>3
<1> QED
  BY <1>1, <1>2

LEMMA IdleCallsHold ==
    ASSUME TimeGrows, CallsHold, UNCHANGED <<pc, job, tries, acked>>
    PROVE  CallsHold'
<1> USE DEF CallTypes, CallsHold
<1>1. ASSUME NEW v \in Worker
      PROVE  CallHolds(v)'
  <2>1. JobHolds(job[v]) => (JobHolds(job[v]))'
    <3>1. PICK j : j = job[v]
      OBVIOUS
    <3>2. JobHolds(j) => JobHolds(j)'
      BY JobStays DEF TimeGrows
    <3>3. j = job'[v]
      BY <3>1
    <3> QED
      BY <3>1, <3>2, <3>3
  <2> QED
    BY <2>1 DEF CallHolds
<1> QED
  BY <1>1

\* A new call: its job is believed, and it has all its tries.
LEMMA CallStarts ==
    ASSUME TimeGrows, CallsHold, NEW w \in Worker, NEW op, NEW h, NEW status, NEW reason,
           NEW at, Call(w, op, h, status, reason, at),
           JobHolds([op |-> op, h |-> h, status |-> status, reason |-> reason, at |-> at])'
    PROVE  CallsHold'
<1> USE DEF CallTypes, CallsHold
<1> DEFINE j == [op |-> op, h |-> h, status |-> status, reason |-> reason, at |-> at]
<1>1. job' = [job EXCEPT ![w] = j] /\ pc[w] = "idle" /\ UNCHANGED <<tries, acked>>
  BY DEF Call
<1>2. pc' = [pc EXCEPT ![w] = IF op = "reconcile" THEN "send" ELSE "read"]
  BY DEF Call
<1>3. JobHolds(j)' /\ j \in Job /\ j.op = op
  BY DEF JobHolds
<1> HIDE DEF j
<1>4. CallTypes'
  BY <1>1, <1>2, <1>3
<1>5. ASSUME NEW v \in Worker
      PROVE  CallHolds(v)'
  <2>1. JobHolds(job[v]) => (v = w \/ (JobHolds(job[v]))')
    <3>1. PICK k : k = job[v]
      OBVIOUS
    <3>2. JobHolds(k) => JobHolds(k)'
      BY JobStays DEF TimeGrows
    <3>3. v = w \/ k = job'[v]
      BY <1>1, <3>1
    <3> QED
      BY <3>1, <3>2, <3>3
  <2>2. CASE v = w
    <3>1. job'[w] = j
      BY <1>1
    <3>2. PICK k : k = j
      OBVIOUS
    <3> QED
      BY <1>1, <1>2, <1>3, <2>2, <3>1, <3>2 DEF CallHolds
  <2>3. CASE v # w
    BY <1>1, <1>2, <2>1, <2>3 DEF CallHolds
  <2> QED
    BY <2>2, <2>3
<1> QED
  BY <1>4, <1>5

-----------------------------------------------------------------------------
(***************************************************************************)
(* The requests: what is sent follows from what was read.                  *)
(***************************************************************************)
RequestsHold == \A R \in requests : RequestHolds(R)

LEMMA OldRequestsHold ==
    ASSUME TimeGrows, RequestsHold, requests' \subseteq requests
    PROVE  RequestsHold'
<1>1. ASSUME NEW R \in requests'
      PROVE  RequestHolds(R)'
  BY <1>1, RequestStays DEF TimeGrows, RequestsHold
<1> QED
  BY <1>1 DEF RequestsHold

LEMMA NewRequestHolds ==
    ASSUME TimeGrows, RequestsHold, NEW R, RequestHolds(R), requests' = requests \cup {R}
    PROVE  RequestsHold'
<1>1. ASSUME NEW S \in requests'
      PROVE  RequestHolds(S)'
  BY <1>1, RequestStays DEF TimeGrows, RequestsHold
<1> QED
  BY <1>1 DEF RequestsHold

LEMMA CommitRequest ==
    ASSUME TimeGrows, NEW w \in Worker, JobHolds(job[w]), job[w].op = "commit",
           NEW h, h = job[w].h, NEW n, n = job[w].at, CommitAllowed(rows, h, n)
    PROVE  RequestHolds(Request(w, Snapshot(rows, h), Superseded(rows, h, n), FALSE, n))
<1> DEFINE R == Request(w, Snapshot(rows, h), Superseded(rows, h, n), FALSE, n)
<1>1. /\ R = [from |-> R.from, job |-> R.job, snapshot |-> R.snapshot, old |-> R.old,
              first |-> R.first, now |-> R.now]
      /\ R.from = w /\ R.job = job[w] /\ R.snapshot = Snapshot(rows, h)
      /\ R.old = Superseded(rows, h, n) /\ R.first = FALSE /\ R.now = n
  BY DEF Request
<1>2. h \in Hash /\ n \in Nat /\ n <= clock
  BY DEF JobHolds, Job
<1>3. ASSUME NEW table, Snapshot(table, h) = Snapshot(rows, h)
      PROVE  /\ CommitAllowed(table, h, n)
             /\ Superseded(rows, h, n) = Superseded(table, h, n)
  BY <1>2, <1>3, SameAllowed, SameSuperseded
<1> HIDE DEF R
<1>4. RequestHolds(R)
  BY <1>1, <1>2, <1>3 DEF RequestHolds
<1> QED
  BY <1>4 DEF R

LEMMA SettleRequest ==
    ASSUME TimeGrows, NEW w \in Worker, JobHolds(job[w]), job[w].op = "settle",
           NEW h, h = job[w].h
    PROVE  RequestHolds(Request(w, Snapshot(rows, h), {}, SettledSiblings(rows, h) = {},
                                clock))
<1> DEFINE R == Request(w, Snapshot(rows, h), {}, SettledSiblings(rows, h) = {}, clock)
<1>1. /\ R = [from |-> R.from, job |-> R.job, snapshot |-> R.snapshot, old |-> R.old,
              first |-> R.first, now |-> R.now]
      /\ R.from = w /\ R.job = job[w] /\ R.snapshot = Snapshot(rows, h)
      /\ R.first = (SettledSiblings(rows, h) = {}) /\ R.now = clock
  BY DEF Request
<1>2. h \in Hash /\ clock \in Nat
  BY DEF JobHolds, Job, TimeGrows
<1>3. ASSUME NEW table, Snapshot(table, h) = Snapshot(rows, h)
      PROVE  SettledSiblings(rows, h) = SettledSiblings(table, h)
  BY <1>2, <1>3, SameSettled
<1>4. R.first \in BOOLEAN
  BY <1>1
<1> HIDE DEF R
<1>5. ASSUME NEW table, Snapshot(table, R.job.h) = R.snapshot
      PROVE  R.first <=> SettledSiblings(table, R.job.h) = {}
  <2>1. SettledSiblings(rows, h) = SettledSiblings(table, h)
    BY <1>1, <1>3, <1>5
  <2> QED
    BY <1>1, <2>1
<1>6. RequestHolds(R)
  BY <1>1, <1>2, <1>4, <1>5 DEF RequestHolds
<1> QED
  BY <1>6 DEF R

LEMMA ReconcileRequest ==
    ASSUME TimeGrows, NEW w \in Worker, JobHolds(job[w]), job[w].op = "reconcile",
           NEW snapshot
    PROVE  RequestHolds(Request(w, snapshot, {}, FALSE, job[w].at))
<1> DEFINE R == Request(w, snapshot, {}, FALSE, job[w].at)
<1>1. /\ R = [from |-> R.from, job |-> R.job, snapshot |-> R.snapshot, old |-> R.old,
              first |-> R.first, now |-> R.now]
      /\ R.from = w /\ R.job = job[w] /\ R.first = FALSE /\ R.now = job[w].at
  BY DEF Request
<1>2. job[w].at \in Nat /\ job[w].at <= clock
  BY DEF JobHolds, Job
<1> HIDE DEF R
<1>3. RequestHolds(R)
  BY <1>1, <1>2 DEF RequestHolds
<1> QED
  BY <1>3 DEF R

-----------------------------------------------------------------------------
(***************************************************************************)
(* Every step keeps the invariant.                                         *)
(***************************************************************************)
\* A call whose job is believed.
NewCall(w) ==
    \E op, h, status, reason, at :
        /\ Call(w, op, h, status, reason, at)
        /\ JobHolds([op |-> op, h |-> h, status |-> status, reason |-> reason, at |-> at])

LEMMA CommitCalls ==
    ASSUME clock \in Nat, NEW w \in Worker, NEW h \in Hash, CallCommit(w, h)
    PROVE  NewCall(w)
<1>1. PICK n : n = clock
  OBVIOUS
<1>2. JobHolds([op |-> "commit", h |-> h, status |-> "pending", reason |-> "none",
                at |-> n])
  BY <1>1 DEF JobHolds, Job, Op, AttemptStatus, StatusReason
<1>3. Call(w, "commit", h, "pending", "none", n)
  BY <1>1 DEF CallCommit
<1> QED
  BY <1>2, <1>3 DEF NewCall

LEMMA SettleCalls ==
    ASSUME clock \in Nat, NEW w \in Worker, NEW h \in Hash, CallSettle(w, h)
    PROVE  NewCall(w)
<1>1. JobHolds([op |-> "settle", h |-> h, status |-> "settled", reason |-> "none",
                at |-> 0])
  BY DEF JobHolds, Job, Op, AttemptStatus, StatusReason
<1>2. Call(w, "settle", h, "settled", "none", 0)
  BY DEF CallSettle
<1> QED
  BY <1>1, <1>2 DEF NewCall

LEMMA ReconcileCalls ==
    ASSUME SupabaseAssumption, clock \in Nat, NEW w \in Worker, NEW h \in Hash,
           NEW result \in ScanResult, CallReconcile(w, h, result)
    PROVE  NewCall(w)
<1>1. PICK n : n = clock
  OBVIOUS
<1> DEFINE t == reconciliationTransition(settlementExpiresAt(h), result[1], result[2], n)
<1>2. /\ t # NoTransition
      /\ Call(w, "reconcile", h, t.status, t.reason, n)
  BY <1>1 DEF CallReconcile
<1>3. /\ result[1] \in ScanStatus /\ result[2] \in TransactionState
      /\ settlementExpiresAt(h) \in Nat /\ n \in Nat
  BY <1>1 DEF SupabaseAssumption, settlementExpiresAt, MintedAttempt
<1>4. t.status \in ClosedStatus /\ t.reason \in StatusReason
  BY <1>2, <1>3, TransitionType
<1>5. t.status \in AttemptStatus
  BY <1>4 DEF AttemptStatus
<1> HIDE DEF t
<1>6. PICK ts, tr : ts = t.status /\ tr = t.reason
  OBVIOUS
<1> DEFINE j == [op |-> "reconcile", h |-> h, status |-> ts, reason |-> tr, at |-> n]
<1>7. j \in Job
  BY <1>3, <1>4, <1>5, <1>6 DEF Job, Op
<1>8. /\ j.op = "reconcile" /\ j.h = h /\ j.status = ts /\ j.reason = tr /\ j.at = n
  OBVIOUS
<1> HIDE DEF j
<1>9. \E s \in ScanStatus, st \in TransactionState :
        LET transition == reconciliationTransition(settlementExpiresAt(j.h), s, st, j.at)
        IN  /\ transition # NoTransition
            /\ j.status = transition.status
            /\ j.reason = transition.reason
  BY <1>2, <1>3, <1>6, <1>8 DEF t
<1>10. JobHolds(j)
  BY <1>1, <1>3, <1>7, <1>8, <1>9 DEF JobHolds
<1> QED
  BY <1>2, <1>6, <1>10 DEF NewCall, j

\* What a step leaves true of the calls and their requests.
CallsKeep == CallsHold' /\ RequestsHold' /\ Awaited'

LEMMA CallKeeps ==
    ASSUME TimeGrows, CallsHold, RequestsHold, Awaited, NEW w \in Worker, NewCall(w)
    PROVE  CallsKeep
<1>1. PICK op, h, status, reason, at :
        /\ Call(w, op, h, status, reason, at)
        /\ JobHolds([op |-> op, h |-> h, status |-> status, reason |-> reason, at |-> at])
  BY DEF NewCall
<1>2. CallsHold'
  <2> DEFINE j == [op |-> op, h |-> h, status |-> status, reason |-> reason, at |-> at]
  <2>1. PICK k : k = j
    OBVIOUS
  <2>2. JobHolds(k)'
    BY <1>1, <2>1, JobStays DEF TimeGrows
  <2>3. JobHolds(j)'
    BY <2>1, <2>2
  <2> QED
    BY <1>1, <2>3, CallStarts
<1>3. RequestsHold'
  BY <1>1, OldRequestsHold DEF Call
<1>4. Awaited'
  BY <1>1 DEF Call, Awaited, CallsHold, CallTypes
<1> QED
  BY <1>2, <1>3, <1>4 DEF CallsKeep

\* The caller is back; whatever request it waited for is gone or waited for by
\* nobody.
LEMMA ReturnAwaits ==
    ASSUME CallsHold, Awaited, NEW w \in Worker, NEW told, Return(w, told),
           requests' \subseteq requests, \A R \in requests' : R.from # w
    PROVE  Awaited'
  BY DEF Awaited, Return, CallsHold, CallTypes

LEMMA NobodyWaits ==
    ASSUME Awaited, NEW w \in Worker, pc[w] # "sent"
    PROVE  \A R \in requests : R.from # w
  BY DEF Awaited

LEMMA SendAwaits ==
    ASSUME CallsHold, Awaited, NEW w \in Worker, pc[w] # "sent", NEW R, R.from = w, Send(w, R)
    PROVE  Awaited'
  BY NobodyWaits DEF Awaited, Send, CallsHold, CallTypes

\* A call that returns without a request, or before one was sent.
LEMMA ReturnKeeps ==
    ASSUME SupabaseAssumption, TimeGrows, CallsHold, RequestsHold, Awaited,
           NEW w \in Worker, NEW told \in SUBSET (Op \X Hash), Return(w, told),
           requests' \subseteq requests, \A R \in requests' : R.from # w
    PROVE  CallsKeep
<1>1. CallsHold'
  BY ReturnHolds
<1>2. RequestsHold'
  BY OldRequestsHold
<1>3. Awaited'
  BY ReturnAwaits
<1> QED
  BY <1>1, <1>2, <1>3 DEF CallsKeep

LEMMA SendKeeps ==
    ASSUME SupabaseAssumption, TimeGrows, CallsHold, RequestsHold, Awaited,
           NEW w \in Worker, pc[w] \in {"read", "send"}, NEW R, R.from = w,
           RequestHolds(R), Send(w, R)
    PROVE  CallsKeep
<1>1. CallsHold'
  BY SendHolds
<1>2. RequestsHold'
  BY NewRequestHolds DEF Send
<1>3. Awaited'
  BY SendAwaits
<1> QED
  BY <1>1, <1>2, <1>3 DEF CallsKeep

LEMMA DecideKeeps ==
    ASSUME SupabaseAssumption, TimeGrows, CallsHold, RequestsHold, Awaited,
           NEW w \in Worker,
           DecideCommit(w) \/ DecideSettle(w) \/ SendReconcile(w) \/ FailRead(w)
    PROVE  CallsKeep
<1>1. PICK h, n : h = job[w].h /\ n = job[w].at
  OBVIOUS
<1>2. pc[w] \in {"read", "send"} /\ pc[w] # "sent"
  BY DEF DecideCommit, DecideSettle, SendReconcile, FailRead
<1>3. JobHolds(job[w]) /\ h \in Hash
  BY <1>1, <1>2 DEF CallsHold, CallHolds, JobHolds, Job
<1>4. \A R \in requests : R.from # w
  BY <1>2, NobodyWaits
<1>5. ASSUME NEW told \in SUBSET (Op \X Hash), Return(w, told), UNCHANGED requests
      PROVE  CallsKeep
  BY <1>4, <1>5, ReturnKeeps
<1>6. CASE DecideCommit(w)
  <2>1. CASE rows[h].status # "absent" /\ Return(w, {<<"commit", h>>}) /\ UNCHANGED requests
    <3>1. {<<"commit", h>>} \in SUBSET (Op \X Hash)
      BY <1>3 DEF Op
    <3> QED
      BY <1>5, <2>1, <3>1
  <2>2. CASE Return(w, {}) /\ UNCHANGED requests
    BY <1>5, <2>2
  <2>3. CASE /\ CommitAllowed(rows, h, n)
             /\ Send(w, Request(w, Snapshot(rows, h), Superseded(rows, h, n), FALSE, n))
    <3>1. PICK R : R = Request(w, Snapshot(rows, h), Superseded(rows, h, n), FALSE, n)
      OBVIOUS
    <3>2. RequestHolds(R)
      BY <1>1, <1>3, <1>6, <2>3, <3>1, CommitRequest DEF DecideCommit
    <3>3. R.from = w
      BY <3>1 DEF Request
    <3>4. Send(w, R)
      BY <2>3, <3>1
    <3> QED
      BY <1>2, <3>2, <3>3, <3>4, SendKeeps
  <2> QED
    BY <1>1, <1>6, <2>1, <2>2, <2>3 DEF DecideCommit
<1>7. CASE DecideSettle(w)
  <2>1. CASE Return(w, {}) /\ UNCHANGED requests
    BY <1>5, <2>1
  <2>2. CASE Send(w, Request(w, Snapshot(rows, h), {}, SettledSiblings(rows, h) = {}, clock))
    <3>1. PICK R : R = Request(w, Snapshot(rows, h), {}, SettledSiblings(rows, h) = {}, clock)
      OBVIOUS
    <3>2. RequestHolds(R)
      BY <1>1, <1>3, <1>7, <3>1, SettleRequest DEF DecideSettle
    <3>3. R.from = w
      BY <3>1 DEF Request
    <3>4. Send(w, R)
      BY <2>2, <3>1
    <3> QED
      BY <1>2, <3>2, <3>3, <3>4, SendKeeps
  <2> QED
    BY <1>1, <1>7, <2>1, <2>2 DEF DecideSettle
<1>8. CASE SendReconcile(w)
  <2>1. PICK R : R = Request(w, Snapshot(rows, h), {}, FALSE, job[w].at)
    OBVIOUS
  <2>2. job[w].op = "reconcile"
    BY <1>8 DEF SendReconcile, CallsHold, CallHolds
  <2>3. RequestHolds(R)
    BY <1>3, <2>1, <2>2, ReconcileRequest
  <2>4. R.from = w
    BY <2>1 DEF Request
  <2>5. Send(w, R)
    BY <1>1, <1>8, <2>1 DEF SendReconcile
  <2> QED
    BY <1>2, <2>3, <2>4, <2>5, SendKeeps
<1>9. CASE FailRead(w)
  BY <1>5, <1>9 DEF FailRead
<1> QED
  BY <1>6, <1>7, <1>8, <1>9

\* The answer to a request, or none: only the caller that waits for it moves.
LEMMA AnswerKeeps ==
    ASSUME SupabaseAssumption, TimeGrows, CallsHold, RequestsHold, Awaited,
           NEW R \in requests,
           \/ \E heard \in BOOLEAN : Carry(R, heard)
           \/ Refuse(R) \/ Lose(R) \/ TimeOut(R)
    PROVE  CallsKeep
<1>1. /\ RequestHolds(R) /\ R.from \in Worker \cup {NoWorker}
      /\ NoWorker \notin Worker /\ R.job \in Job
  BY DEF RequestsHold, RequestHolds, JobHolds, SupabaseAssumption
<1>2. CASE R.from \in Worker /\ requests' = requests \ {R} /\
           \E told \in SUBSET (Op \X Hash) : Return(R.from, told)
  <2>1. \A S \in requests' : S.from # R.from
    BY <1>2 DEF Awaited
  <2> QED
    BY <1>2, <2>1, ReturnKeeps
<1>3. CASE requests' = requests \ {R} /\ UNCHANGED <<pc, job, tries, acked>>
  <2>1. CallsHold'
    BY <1>3, IdleCallsHold
  <2>2. RequestsHold'
    BY <1>3, OldRequestsHold
  <2>3. Awaited'
    BY <1>3 DEF Awaited
  <2> QED
    BY <2>1, <2>2, <2>3 DEF CallsKeep
<1>4. CASE \E heard \in BOOLEAN : Carry(R, heard)
  <2>1. Told(R) \in SUBSET (Op \X Hash)
    BY <1>1 DEF Told, Job
  <2>2. {} \in SUBSET (Op \X Hash)
    OBVIOUS
  <2> QED
    BY <1>1, <1>2, <1>3, <1>4, <2>1, <2>2 DEF Carry
<1>5. CASE Lose(R)
  BY <1>1, <1>2, <1>3, <1>5 DEF Lose
<1>6. CASE Refuse(R)
  <2>1. CASE /\ R.from \in Worker /\ MayRetry(R.from)
             /\ pc' = [pc EXCEPT ![R.from] = "read"] /\ UNCHANGED <<job, tries, acked>>
    <3>1. requests' = requests \ {R} /\ pc[R.from] = "sent"
      BY <1>6, <2>1 DEF Refuse, Awaited
    <3>2. CallsHold'
      BY <2>1, <3>1, RetryHolds
    <3>3. RequestsHold'
      BY <3>1, OldRequestsHold
    <3>4. Awaited'
      BY <2>1, <3>1 DEF Awaited, CallsHold, CallTypes
    <3> QED
      BY <3>2, <3>3, <3>4 DEF CallsKeep
  <2> QED
    BY <1>1, <1>2, <1>3, <1>6, <2>1 DEF Refuse
<1>7. CASE TimeOut(R)
  <2>1. PICK S : S = [R EXCEPT !.from = NoWorker]
    OBVIOUS
  <2>2. RequestHolds(S)
    BY <1>1, <2>1, OrphanHolds
  <2>3. S.from = NoWorker
    BY <1>1, <2>1 DEF RequestHolds
  <2>4. R.from \in Worker /\ requests' = (requests \ {R}) \cup {S} /\ Return(R.from, {})
    BY <1>7, <2>1 DEF TimeOut
  <2>5. CallsHold'
    BY <2>4, ReturnHolds
  <2>6. RequestsHold'
    BY <2>2, <2>4, RequestStays DEF RequestsHold, TimeGrows
  <2>7. Awaited'
    <3>1. pc' = [pc EXCEPT ![R.from] = "idle"]
      BY <2>4 DEF Return
    <3>2. \A T \in requests' : T.from \in Worker => T \in requests /\ T.from # R.from
      BY <1>1, <2>3, <2>4 DEF Awaited
    <3> QED
      BY <3>1, <3>2 DEF Awaited, CallsHold, CallTypes
  <2> QED
    BY <2>5, <2>6, <2>7 DEF CallsKeep
<1> QED
  BY <1>4, <1>5, <1>6, <1>7

LEMMA SupabaseInvStep ==
    ASSUME SupabaseAssumption, SupabaseInv, [SupabaseNext]_supabaseVars
    PROVE  SupabaseInv'
<1>1. [Next]_vars
  BY SupabaseIsStep
<1>2. TypeOK /\ CallsHold /\ RequestsHold /\ Awaited
  BY DEF SupabaseInv, CallsHold, RequestsHold
<1>3. TypeOK'
  BY <1>1, <1>2, TypeStep
<1>4. TimeGrows
  <2>1. clock' = clock \/ clock' = clock + 1
    BY <1>1 DEF Next, vars, CommitAttempt, RecordReconciliation, MarkPaidOnce,
                RequeueAttempt, Tick
  <2> QED
    BY <1>2, <2>1 DEF TimeGrows, TypeOK
<1>5. CallsKeep
  <2>1. ASSUME NEW w \in Worker,
               \/ \E h \in Hash : CallCommit(w, h) \/ CallSettle(w, h)
               \/ \E h \in Hash, result \in ScanResult : CallReconcile(w, h, result)
        PROVE  CallsKeep
    <3>1. NewCall(w)
      BY <1>4, <2>1, CommitCalls, SettleCalls, ReconcileCalls DEF TimeGrows
    <3> QED
      BY <1>2, <1>4, <3>1, CallKeeps
  <2>2. ASSUME NEW w \in Worker,
               DecideCommit(w) \/ DecideSettle(w) \/ SendReconcile(w) \/ FailRead(w)
        PROVE  CallsKeep
    BY <1>2, <1>4, <2>2, DecideKeeps
  <2>3. ASSUME NEW R \in requests,
               \/ \E heard \in BOOLEAN : Carry(R, heard)
               \/ Refuse(R) \/ Lose(R) \/ TimeOut(R)
        PROVE  CallsKeep
    BY <1>2, <1>4, <2>3, AnswerKeeps
  <2>4. CASE TimePasses \/ UNCHANGED supabaseVars
    <3>1. UNCHANGED <<pc, job, tries, requests, acked>>
      BY <2>4 DEF TimePasses, supabaseVars, callVars
    <3>2. CallsHold'
      BY <1>2, <1>4, <3>1, IdleCallsHold
    <3>3. RequestsHold'
      BY <1>2, <1>4, <3>1, OldRequestsHold
    <3>4. Awaited'
      BY <1>2, <3>1 DEF Awaited
    <3> QED
      BY <3>2, <3>3, <3>4 DEF CallsKeep
  <2> QED
    BY <2>1, <2>2, <2>3, <2>4 DEF SupabaseNext
<1> QED
  BY <1>3, <1>5 DEF CallsKeep, CallsHold, RequestsHold, SupabaseInv

LEMMA SupabaseInvInit == ASSUME SupabaseAssumption PROVE SupabaseInit => SupabaseInv
<1> SUFFICES ASSUME SupabaseInit
             PROVE  SupabaseInv
  OBVIOUS
<1>1. TypeOK
  BY DEF SupabaseInit, Init, TypeOK, Row, NoRow, AttemptStatus, ClosedStatus,
         StatusReason, ClockReason, MintedAttempt
<1> QED
  BY <1>1 DEF SupabaseInit, SupabaseInv, CallTypes, CallHolds, Awaited,
              SupabaseAssumption

LEMMA SupabaseInvariant == ASSUME SupabaseAssumption PROVE SupabaseSpec => []SupabaseInv
<1>1. SupabaseInit => SupabaseInv
  BY SupabaseInvInit
<1>2. SupabaseInv /\ [SupabaseNext]_supabaseVars => SupabaseInv'
  BY SupabaseInvStep
<1> QED
  BY <1>1, <1>2, PTL DEF SupabaseSpec

\* Callers, requests and answers keep their types, and a caller never decides
\* more than STALE_RETRIES times.
THEOREM SupabaseTypeCorrect ==
    ASSUME SupabaseAssumption
    PROVE  SupabaseSpec => []SupabaseTypeOK
<1>1. SupabaseInv => SupabaseTypeOK
  BY DEF SupabaseInv, CallTypes, Awaited, SupabaseTypeOK
<1> QED
  BY <1>1, SupabaseInvariant, PTL

\* Every request that the write functions carry out is one atomic operation of
\* the ledger on the rows as they are by then, although it was decided outside
\* the lock and may arrive late, after its caller gave up, or never.
THEOREM SupabaseImplementsLedger ==
    ASSUME SupabaseAssumption
    PROVE  SupabaseSpec => Spec
<1>1. SupabaseInit => Init
  BY DEF SupabaseInit
<1>2. SupabaseInv /\ [SupabaseNext]_supabaseVars => [Next]_vars
  BY SupabaseIsStep
<1> QED
  BY <1>1, <1>2, SupabaseInvariant, PTL DEF SupabaseSpec, Spec

-----------------------------------------------------------------------------
(***************************************************************************)
(* What a caller was told stays true.                                      *)
(***************************************************************************)
\* An answered commit is recorded; an answered first payment is the one the
\* host acted on.
Holds(a) ==
    /\ rows[a[2]].status # "absent"
    /\ a[1] = "settle" => fulfilled[Minted[a[2]].ref] = <<a[2]>>

AnswersHold == \A a \in acked : Holds(a)

LEMMA ToldHolds ==
    ASSUME TypeOK, FulfilledInv, NEW R, RequestHolds(R), NEW heard, Carry(R, heard),
           NEW a \in Told(R)
    PROVE  Holds(a)'
<1>1. PICK op, h : op = R.job.op /\ h = R.job.h
  OBVIOUS
<1>2. /\ h \in Hash /\ op \in Op /\ Minted[h].ref \in Ref
      /\ a = <<op, h>> /\ (op = "commit" \/ R.first)
      /\ op # "settle" => ~R.first
  BY <1>1 DEF RequestHolds, JobHolds, Job, Told, MintedAttempt
<1>3. a[1] = op /\ a[2] = h
  BY <1>2
<1>4. CASE op = "commit"
  <2>1. rows' = WithCommitted(rows, h, R.old, R.now)
    BY <1>1, <1>4 DEF Carry, Writes
  <2>2. rows'[h].status = "pending"
    BY <1>2, <2>1 DEF WithCommitted
  <2> QED
    BY <1>3, <1>4, <2>2 DEF Holds
<1>5. CASE op = "settle" /\ R.first
  <2>1. /\ rows' = WithSettled(rows, h, R.first, R.now)
        /\ fulfilled' = FulfilledBy(h, R.first)
        /\ StillHolds(R)
    BY <1>1, <1>5 DEF Carry, Writes
  <2>2. SettledSiblings(rows, h) = {}
    BY <1>1, <1>5, <2>1 DEF StillHolds, RequestHolds
  <2>3. fulfilled[Minted[h].ref] = <<>>
    <3>1. OrderConsistent(Minted[h].ref)
      BY <1>2, ConsistentIsFulfilledInv DEF OrdersConsistent
    <3> QED
      BY <2>2, <3>1 DEF OrderConsistent, SettledSiblings, Siblings
  <2>4. fulfilled'[Minted[h].ref] = <<h>>
    BY <1>2, <1>5, <2>1, <2>3 DEF FulfilledBy, TypeOK
  <2>5. rows'[h].status = "settled"
    BY <1>2, <2>1 DEF WithSettled, TypeOK
  <2> QED
    BY <1>3, <2>4, <2>5 DEF Holds
<1> QED
  BY <1>2, <1>4, <1>5

\* The only answers a step adds are of a row that was found, and of a request
\* that was carried out.
LEMMA NewAnswers ==
    ASSUME SupabaseInv, FulfilledInv, [SupabaseNext]_supabaseVars, NEW a \in acked' \ acked
    PROVE  Holds(a)'
<1>1. ASSUME NEW w \in Worker, DecideCommit(w)
      PROVE  Holds(a)'
  <2>1. a = <<"commit", job[w].h>> /\ rows[job[w].h].status # "absent" /\ rows' = rows
    BY <1>1 DEF DecideCommit, Return, Send, vars
  <2>2. PICK h : h = job[w].h
    OBVIOUS
  <2> QED
    BY <2>1, <2>2 DEF Holds
<1>2. ASSUME NEW R \in requests, NEW heard \in BOOLEAN, Carry(R, heard)
      PROVE  Holds(a)'
  <2>1. a \in Told(R)
    BY <1>2 DEF Carry, Return
  <2> QED
    BY <1>2, <2>1, ToldHolds DEF SupabaseInv
<1>3. ASSUME NEW w \in Worker,
             \/ \E h \in Hash : CallCommit(w, h) \/ CallSettle(w, h)
             \/ \E h \in Hash, result \in ScanResult : CallReconcile(w, h, result)
             \/ DecideSettle(w) \/ SendReconcile(w) \/ FailRead(w)
      PROVE  acked' = acked
  BY <1>3 DEF CallCommit, CallSettle, CallReconcile, Call, DecideSettle, SendReconcile,
              FailRead, Return, Send
<1>4. ASSUME NEW R \in requests, Refuse(R) \/ Lose(R) \/ TimeOut(R)
      PROVE  acked' = acked
  BY <1>4 DEF Refuse, Lose, TimeOut, Return
<1>5. CASE TimePasses \/ UNCHANGED supabaseVars
  BY <1>5 DEF TimePasses, supabaseVars, callVars
<1> QED
  BY <1>1, <1>2, <1>3, <1>4, <1>5 DEF SupabaseNext

LEMMA AnswersStep ==
    ASSUME SupabaseInv, FulfilledInv, AnswersHold, [SupabaseNext]_supabaseVars
    PROVE  AnswersHold'
<1>1. TypeOK /\ acked \subseteq Op \X Hash /\ [Next]_vars
  BY SupabaseIsStep DEF SupabaseInv, CallTypes
<1>2. ASSUME NEW a \in acked
      PROVE  Holds(a)'
  <2>1. a[2] \in Hash /\ Minted[a[2]].ref \in Ref /\ Holds(a)
    BY <1>1 DEF AnswersHold, MintedAttempt
  <2>2. rows'[a[2]].status # "absent"
    BY <1>1, <2>1, RowsStay DEF Holds
  <2>3. a[1] = "settle" => fulfilled'[Minted[a[2]].ref] = fulfilled[Minted[a[2]].ref]
    <3>1. PaymentsKept
      BY <1>1, PaymentsKeptStep
    <3>2. <<a[2]>> # <<>>
      OBVIOUS
    <3> QED
      BY <2>1, <3>1, <3>2 DEF PaymentsKept, Holds
  <2> QED
    BY <2>1, <2>2, <2>3 DEF Holds
<1>3. \A a \in acked' : Holds(a)'
  BY <1>2, NewAnswers
<1> QED
  BY <1>3 DEF AnswersHold

\* A caller that was told its attempt is recorded, or its payment is the order's
\* first, can rely on it for ever: no request that is still on its way undoes it.
THEOREM SupabaseAnswersStayTrue ==
    ASSUME SupabaseAssumption
    PROVE  SupabaseSpec => []AnswersHold
<1>1. SupabaseInit => AnswersHold
  BY DEF SupabaseInit, AnswersHold
<1>2. SupabaseInv /\ FulfilledInv /\ AnswersHold /\ [SupabaseNext]_supabaseVars => AnswersHold'
  BY AnswersStep
<1> QED
  BY <1>1, <1>2, SupabaseInvariant, SupabaseImplementsLedger, FulfilledInvariant, PTL
     DEF SupabaseSpec

\* What is proved of the ledger holds of its requests: an order is fulfilled
\* once, and offers one live attempt per rail (AttemptLedger's theorems).
COROLLARY SupabaseKeepsTheLedgersPromises ==
    ASSUME SupabaseAssumption
    PROVE  SupabaseSpec => [](FulfilledOnce /\ OneLiveOffer) /\ SettledIsFinal
  BY SupabaseImplementsLedger, FulfilsOnce, OffersOneAttempt, SettledStaysSettled, PTL
=============================================================================
