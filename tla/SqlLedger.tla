------------------------------ MODULE SqlLedger -----------------------------
(***************************************************************************)
(* The transactions of the SQL repository, statement by statement, run by  *)
(* any number of concurrent callers (request handlers, the reconcile pass, *)
(* notification and check triggers, an operator): find the reference, take *)
(* its lock, read, write, fulfill, commit.  Any transaction can fail or    *)
(* lose its process, and a commit's answer can be lost.                    *)
(*                                                                         *)
(* The committed tables are AttemptLedger's variables, so refinement is    *)
(* its Spec with no mapping.  Only one statement decides what a dialect    *)
(* lets a transaction see: Seen.                                           *)
(***************************************************************************)
EXTENDS AttemptLedger

CONSTANTS
    Worker,      \* concurrent callers
    ScanResult,  \* the <<status, transaction state>> a wallet scan may report
    Dialect,     \* "sqlite", "postgres" (READ COMMITTED) or "mysql" (REPEATABLE READ)
    Lock,        \* the database, a reference's advisory lock, or a lock bucket
    LockOf,      \* [Ref -> Lock]
    NoWorker     \* owner of a free lock

\* One writer per sqlite database; postgres and mysql lock per reference, and
\* references may share a bucket.
ASSUME SqlAssumption ==
    /\ Dialect \in {"sqlite", "postgres", "mysql"}
    /\ LockOf \in [Ref -> Lock]
    /\ NoWorker \notin Worker
    /\ ScanResult \subseteq ScanStatus \X TransactionState
    /\ Dialect = "sqlite" => \A q, r \in Ref : LockOf[q] = LockOf[r]

VARIABLES
    pc,     \* where each caller is
    job,    \* what it was called for
    view,   \* <<the tables its decision is made from>>, <<>> before it has read
    draft,  \* rows its transaction has written and not committed
    also,   \* what else it has written: the host's onPaid, or a repair audit
    owner,  \* [Lock -> Worker \cup {NoWorker}]
    acked   \* <<op, hash>> pairs whose caller was told they took effect

callVars == <<pc, job, view, draft, also, owner, acked>>
sqlVars == <<vars, callVars>>

Op == {"commit", "settle", "reconcile", "requeue"}
Step == {"idle", "find", "lock", "read", "write", "fulfill", "commit"}

\* at: the clock commitAttempt read, the time a result was observed, or the
\* updated_at an operator reviewed.  status, reason: the transition, or the
\* status an operator reviewed.
Job == [op : Op, h : Hash, status : AttemptStatus, reason : StatusReason, at : Nat]
NoJob == [op |-> "none"]

LockFor(w) == LockOf[Minted[job[w].h].ref]

-----------------------------------------------------------------------------
SqlInit ==
    /\ Init
    /\ pc = [w \in Worker |-> "idle"]
    /\ job = [w \in Worker |-> NoJob]
    /\ view = [w \in Worker |-> <<>>]
    /\ draft = [w \in Worker |-> <<>>]
    /\ also = [w \in Worker |-> "nothing"]
    /\ owner = [l \in Lock |-> NoWorker]
    /\ acked = {}

\* commitAttempt knows its reference, and on sqlite the whole call is inside
\* BEGIN IMMEDIATE; the others look the reference up first (withAttemptLock).
Call(w, j) ==
    /\ pc[w] = "idle"
    /\ job' = [job EXCEPT ![w] = j]
    /\ pc' = [pc EXCEPT ![w] =
                IF j.op = "commit" \/ Dialect = "sqlite" THEN "lock" ELSE "find"]
    /\ UNCHANGED <<vars, view, draft, also, owner, acked>>

\* commitAttempt reads its clock before it asks for the lock.
CallCommit(w, h) ==
    Call(w, [op |-> "commit", h |-> h, status |-> "pending", reason |-> "none",
             at |-> clock])

CallSettle(w, h) ==
    Call(w, [op |-> "settle", h |-> h, status |-> "settled", reason |-> "none",
             at |-> 0])

\* A row that was pending when it was scanned, with the result of that scan.
CallReconcile(w, h, result) ==
    LET transition ==
            reconciliationTransition(settlementExpiresAt(h), result[1], result[2], clock)
    IN  /\ transition # NoTransition
        /\ rows[h].status = "pending"
        /\ Call(w, [op |-> "reconcile", h |-> h, status |-> transition.status,
                    reason |-> transition.reason, at |-> clock])

\* The operator asks for a version of the row that a report shows, or repeats a
\* request that was carried out.
CallRequeue(w, h) ==
    \E version \in {<<h, rows[h].status, rows[h].updatedAt>>} \cup audited :
        /\ version[1] = h
        /\ version[2] \in {"expired", "attention"}
        /\ Call(w, [op |-> "requeue", h |-> h, status |-> version[2],
                    reason |-> "none", at |-> version[3]])

\* Mutant: the named lock is never released.
LeaveLocked(w) ==
    /\ pc' = [pc EXCEPT ![w] = "idle"]
    /\ job' = [job EXCEPT ![w] = NoJob]
    /\ view' = [view EXCEPT ![w] = <<>>]
    /\ draft' = [draft EXCEPT ![w] = <<>>]
    /\ also' = [also EXCEPT ![w] = "nothing"]
    /\ UNCHANGED owner

\* The call is over: nothing held, nothing left uncommitted.
Leave(w) ==
    /\ pc' = [pc EXCEPT ![w] = "idle"]
    /\ job' = [job EXCEPT ![w] = NoJob]
    /\ view' = [view EXCEPT ![w] = <<>>]
    /\ draft' = [draft EXCEPT ![w] = <<>>]
    /\ also' = [also EXCEPT ![w] = "nothing"]
    /\ owner' = [l \in Lock |-> IF owner[l] = w THEN NoWorker ELSE owner[l]]

\* REPEATABLE READ: a transaction's first read fixes what its reads see.
KeepsSnapshot == Dialect = "mysql"

\* Mutant: the reference is read inside the transaction, which fixes a snapshot
\* before the lock is waited for.
FindsInside == TRUE

\* On mysql the reference is read before the transaction begins.
FindsInTransaction == Dialect # "mysql"

\* What a SELECT of w sees.
Seen(w) ==
    IF KeepsSnapshot /\ view[w] # <<>>
    THEN view[w][1]
    ELSE [rows |-> rows, audited |-> audited]

\* referenceOf: no such row ends the call.
Find(w) ==
    /\ pc[w] = "find"
    /\ \/ /\ rows[job[w].h].status = "absent"
          /\ Leave(w)
       \/ /\ rows[job[w].h].status # "absent"
          /\ pc' = [pc EXCEPT ![w] = "lock"]
          /\ view' = IF FindsInTransaction /\ KeepsSnapshot
                     THEN [view EXCEPT ![w] = <<Seen(w)>>]
                     ELSE view
          /\ UNCHANGED <<job, draft, also, owner>>
    /\ UNCHANGED <<vars, acked>>

\* Mutant: the lock is not waited for.
TakeLockAtOnce(w) ==
    /\ pc[w] = "lock"
    /\ owner' = [owner EXCEPT ![LockFor(w)] = w]
    /\ pc' = [pc EXCEPT ![w] = IF job[w].op = "reconcile" THEN "write" ELSE "read"]
    /\ UNCHANGED <<vars, job, view, draft, also, acked>>

\* lockReference, or BEGIN IMMEDIATE.  recordReconciliation reads nothing.
TakeLock(w) ==
    /\ pc[w] = "lock"
    /\ owner[LockFor(w)] = NoWorker
    /\ owner' = [owner EXCEPT ![LockFor(w)] = w]
    /\ pc' = [pc EXCEPT ![w] = IF job[w].op = "reconcile" THEN "write" ELSE "read"]
    /\ UNCHANGED <<vars, job, view, draft, also, acked>>

\* rowsForReference, or the row requeueAttempt reviews.
Read(w) ==
    /\ pc[w] = "read"
    /\ view' = [view EXCEPT ![w] = <<Seen(w)>>]
    /\ pc' = [pc EXCEPT ![w] = "write"]
    /\ UNCHANGED <<vars, job, draft, also, owner, acked>>

-----------------------------------------------------------------------------
\* The transaction of w writes table's rows of hs (an UPDATE that matches no row
\* writes none) and goes to step next.
Writes(w, table, hs, next, extra) ==
    /\ draft' = [draft EXCEPT ![w] = [g \in hs |-> table[g]]]
    /\ also' = [also EXCEPT ![w] = extra]
    /\ pc' = [pc EXCEPT ![w] = next]
    /\ UNCHANGED <<job, view, owner>>

\* An early return: the transaction commits without a write.
WritesNothing(w) == Writes(w, rows, {}, "commit", "nothing")

\* Decide from the rows read; each UPDATE's own WHERE clause sees the rows as
\* they are.  A refusal (409) or a payment_hash already inserted rolls back.
WriteCommit(w) ==
    LET h == job[w].h
        now == job[w].at
        existing == view[w][1].rows
        old == Superseded(existing, h, now)
        written == WithCommitted(rows, h, old, now)
    IN  /\ job[w].op = "commit"
        /\ \/ /\ existing[h].status # "absent"
              /\ WritesNothing(w)
           \/ /\ CommitAllowed(existing, h, now)
              /\ rows[h].status = "absent"
              /\ Writes(w, written, {g \in Hash : written[g] # rows[g]}, "commit", "nothing")
           \/ /\ existing[h].status = "absent"
              /\ ~CommitAllowed(existing, h, now) \/ rows[h].status # "absent"
              /\ Leave(w)

\* The settling UPDATE matches the hash alone.
WriteSettle(w) ==
    LET h == job[w].h
        existing == view[w][1].rows
        first == SettledSiblings(existing, h) = {}
    IN  /\ job[w].op = "settle"
        /\ IF existing[h].status # "pending"
           THEN WritesNothing(w)
           ELSE Writes(w, WithSettled(rows, h, first, clock), {h},
                       IF first THEN "fulfill" ELSE "commit", "nothing")

WriteReconcile(w) ==
    LET h == job[w].h
    IN  /\ job[w].op = "reconcile"
        /\ IF Pending(h)
           THEN Writes(w, WithClosed(rows, h, job[w], job[w].at), {h}, "commit", "nothing")
           ELSE WritesNothing(w)

\* The prior-audit SELECT is a read of its own; a second INSERT of the audit key
\* rolls back.
WriteRequeue(w) ==
    LET h == job[w].h
        allowed == RequeueAllowed(view[w][1].rows, Seen(w).audited, h,
                                  job[w].status, job[w].at)
        matches == rows[h].status = job[w].status /\ rows[h].updatedAt = job[w].at
    IN  /\ job[w].op = "requeue"
        /\ IF ~allowed THEN WritesNothing(w)
           ELSE IF <<h, job[w].status, job[w].at>> \in audited THEN Leave(w)
           ELSE Writes(w, WithRequeued(rows, h, clock),
                       IF matches THEN {h} ELSE {}, "commit", "audit")

Write(w) ==
    /\ pc[w] = "write"
    /\ WriteCommit(w) \/ WriteSettle(w) \/ WriteReconcile(w) \/ WriteRequeue(w)
    /\ UNCHANGED <<vars, acked>>

\* The host's onPaid runs its statements in the transaction.
Fulfill(w) ==
    /\ pc[w] = "fulfill"
    /\ also' = [also EXCEPT ![w] = "onPaid"]
    /\ pc' = [pc EXCEPT ![w] = "commit"]
    /\ UNCHANGED <<vars, job, view, draft, owner, acked>>

\* Mutant: every settlement is answered as the first one.
AnswersYes(w) == job[w].op \in {"commit", "settle"}

\* What the caller of w is told: the attempt is recorded, or this payment is the
\* first of its reference.
TookEffect(w) == job[w].op = "commit" \/ also[w] = "onPaid"

\* The database commits; the caller may never hear of it (answered = FALSE).
Commit(w, answered) ==
    LET h == job[w].h
    IN  /\ pc[w] = "commit"
        /\ rows' = [g \in Hash |-> IF g \in DOMAIN draft[w] THEN draft[w][g] ELSE rows[g]]
        /\ fulfilled' = FulfilledBy(h, also[w] = "onPaid")
        /\ audited' = IF also[w] = "audit"
                      THEN audited \cup {<<h, job[w].status, job[w].at>>}
                      ELSE audited
        /\ acked' = IF answered /\ TookEffect(w)
                    THEN acked \cup {<<job[w].op, h>>}
                    ELSE acked
        /\ Leave(w)
        /\ UNCHANGED clock

\* A throwing onPaid, a driver error or a dead process, anywhere before the
\* commit: the database rolls the transaction back.
Abort(w) ==
    /\ pc[w] # "idle"
    /\ Leave(w)
    /\ UNCHANGED <<vars, acked>>

-----------------------------------------------------------------------------
Advance(w) ==
    \/ Find(w)
    \/ Read(w)
    \/ Write(w)
    \/ Fulfill(w)
    \/ \E answered \in BOOLEAN : Commit(w, answered)

TimePasses == Tick /\ UNCHANGED callVars

SqlStep ==
    \E w \in Worker :
        \/ \E h \in Hash : CallCommit(w, h)
        \/ \E h \in Hash : CallSettle(w, h)
        \/ \E h \in Hash, result \in ScanResult : CallReconcile(w, h, result)
        \/ \E h \in Hash : CallRequeue(w, h)
        \/ Advance(w)
        \/ TakeLock(w)
        \/ Abort(w)

SqlNext == SqlStep \/ TimePasses

SqlSpec == SqlInit /\ [][SqlNext]_sqlVars

\* The database serves every statement, and grants its locks in the order they
\* were asked for.
SqlFairness == \A w \in Worker : WF_sqlVars(Advance(w)) /\ SF_sqlVars(TakeLock(w))

-----------------------------------------------------------------------------
SqlTypeOK ==
    /\ TypeOK
    /\ pc \in [Worker -> Step]
    /\ \A w \in Worker : job[w] \in Job \cup {NoJob}
    /\ \A w \in Worker : DOMAIN draft[w] \subseteq Hash
    /\ also \in [Worker -> {"nothing", "onPaid", "audit"}]
    /\ owner \in [Lock -> Worker \cup {NoWorker}]
    /\ acked \subseteq (Op \X Hash)

\* Between its read and its commit a transaction's view of its reference is
\* still the committed state: no other transaction, and no snapshot taken before
\* the wait for the lock, gets between a decision and its commit
\* (withAttemptLock's order of reads on MySQL).
DecidesOnCurrentRows ==
    \A w \in Worker :
        pc[w] \in {"write", "fulfill", "commit"} /\ job[w].op # "reconcile" =>
            \A g \in Siblings(job[w].h) : view[w][1].rows[g] = rows[g]

\* Every commit of a transaction is one atomic operation of AttemptLedger, made
\* on the rows as they are at that moment; everything else a caller does,
\* rollbacks and lost answers included, changes no table.
ImplementsLedger == Spec

\* A caller that was told yes can rely on it forever: the attempt it may now
\* show a payer is recorded, and the payment it was told was first is the one
\* the host acted on (commitAttempt, markPaidOnce).
AnswersAreTrue ==
    \A a \in acked :
        LET h == a[2]
        IN  /\ rows[h].status # "absent"
            /\ a[1] = "settle" => fulfilled[Minted[h].ref] = <<h>>

\* No call waits forever: whatever fails, the locks it held are free again.
EveryCallEnds == \A w \in Worker : pc[w] # "idle" ~> pc[w] = "idle"
=============================================================================
