---------------------------- MODULE SupabaseLedger --------------------------
(***************************************************************************)
(* The repository over Supabase's HTTPS API: it reads the rows of a        *)
(* reference, decides on them in the server's process, and sends the       *)
(* decision with a snapshot of what it read to a function that takes the   *)
(* reference's lock, refuses a snapshot that no longer holds and writes.   *)
(*                                                                         *)
(* A request that timed out for its caller may still be on its way and be  *)
(* carried out later, or never.  The tables are AttemptLedger's variables. *)
(***************************************************************************)
EXTENDS AttemptLedger, FiniteSets

CONSTANTS
    Worker,        \* concurrent callers
    ScanResult,    \* the <<status, transaction state>> a wallet scan may report
    StaleRetries,  \* STALE_RETRIES
    MaxRequests,   \* bound on the write requests on their way
    NoWorker       \* nobody waits for a request's answer any more

SupabaseAssumption ==
    /\ NoWorker \notin Worker
    /\ ScanResult \subseteq ScanStatus \X TransactionState
    /\ StaleRetries \in Nat \ {0} /\ MaxRequests \in Nat

VARIABLES
    pc,        \* where each caller is
    job,       \* what it was called for
    tries,     \* reads it has decided on
    requests,  \* write requests on their way to the database
    acked      \* <<op, hash>> pairs whose caller was told they took effect

callVars == <<pc, job, tries, requests, acked>>
supabaseVars == <<vars, callVars>>
Op == {"commit", "settle", "reconcile"}
NoJob == [op |-> "none"]
Job == [op : Op, h : Hash, status : AttemptStatus, reason : StatusReason, at : Nat]

\* What the write functions compare: status and reason of the reference's rows.
Snapshot(table, h) == [g \in Siblings(h) |-> <<table[g].status, table[g].reason>>]

\* A write request: p_snapshot, p_supersede, p_first and p_now of its function.
Request(w, snapshot, old, first, now) ==
    [from |-> w, job |-> job[w], snapshot |-> snapshot, old |-> old, first |-> first, now |-> now]

-----------------------------------------------------------------------------
SupabaseInit ==
    /\ Init
    /\ pc = [w \in Worker |-> "idle"]
    /\ job = [w \in Worker |-> NoJob]
    /\ tries = [w \in Worker |-> 0]
    /\ requests = {}
    /\ acked = {}

Call(w, op, h, status, reason, at) ==
    /\ pc[w] = "idle"
    /\ job' = [job EXCEPT ![w] = [op |-> op, h |-> h, status |-> status,
                                  reason |-> reason, at |-> at]]
    /\ pc' = [pc EXCEPT ![w] = IF op = "reconcile" THEN "send" ELSE "read"]
    /\ UNCHANGED <<vars, tries, requests, acked>>

\* commitAttempt reads its clock once, before the first read.
CallCommit(w, h) == Call(w, "commit", h, "pending", "none", clock)

CallSettle(w, h) == Call(w, "settle", h, "settled", "none", 0)

CallReconcile(w, h, result) ==
    LET transition ==
            reconciliationTransition(settlementExpiresAt(h), result[1], result[2], clock)
    IN  /\ transition # NoTransition
        /\ Pending(h)
        /\ Call(w, "reconcile", h, transition.status, transition.reason, clock)

\* The call of w returns or throws.
Return(w, told) ==
    /\ pc' = [pc EXCEPT ![w] = "idle"]
    /\ job' = [job EXCEPT ![w] = NoJob]
    /\ tries' = [tries EXCEPT ![w] = 0]
    /\ acked' = acked \cup told

Send(w, request) ==
    /\ Cardinality(requests) < MaxRequests
    /\ requests' = requests \cup {request}
    /\ pc' = [pc EXCEPT ![w] = "sent"]
    /\ tries' = [tries EXCEPT ![w] = @ + 1]
    /\ UNCHANGED <<job, acked>>

\* commitAttempt, from its read to its request: recorded already, refused (409),
\* or decided.
DecideCommit(w) ==
    LET h == job[w].h
        now == job[w].at
    IN  /\ pc[w] = "read" /\ job[w].op = "commit"
        /\ \/ /\ rows[h].status # "absent"
              /\ Return(w, {<<"commit", h>>}) /\ UNCHANGED requests
           \/ /\ rows[h].status = "absent" /\ ~CommitAllowed(rows, h, now)
              /\ Return(w, {}) /\ UNCHANGED requests
           \/ /\ CommitAllowed(rows, h, now)
              /\ Send(w, Request(w, Snapshot(rows, h), Superseded(rows, h, now), FALSE, now))
        /\ UNCHANGED vars

\* recordSettlement, from its second read to its request; a row that is not
\* pending at the first is not at the second.
DecideSettle(w) ==
    LET h == job[w].h
    IN  /\ pc[w] = "read" /\ job[w].op = "settle"
        /\ IF Pending(h)
           THEN Send(w, Request(w, Snapshot(rows, h), {}, SettledSiblings(rows, h) = {}, clock))
           ELSE Return(w, {}) /\ UNCHANGED requests
        /\ UNCHANGED vars

SendReconcile(w) ==
    /\ pc[w] = "send"
    /\ Send(w, Request(w, Snapshot(rows, job[w].h), {}, FALSE, job[w].at))
    /\ UNCHANGED vars

-----------------------------------------------------------------------------
\* Mutant: the function looks at the attempt's own row only.
StillHoldsForRow(request) ==
    request.snapshot[request.job.h] = Snapshot(rows, request.job.h)[request.job.h]

\* openreceive_reference_snapshot(p_reference) is what the caller read.
StillHolds(request) == request.snapshot = Snapshot(rows, request.job.h)

\* What each function writes, under the reference's lock.
Writes(request) ==
    LET h == request.job.h
    IN  \/ /\ request.job.op = "commit"
           /\ StillHolds(request)
           /\ rows' = WithCommitted(rows, h, request.old, request.now)
           /\ UNCHANGED fulfilled
        \/ /\ request.job.op = "settle"
           /\ StillHolds(request) /\ Pending(h)
           /\ rows' = WithSettled(rows, h, request.first, request.now)
           /\ fulfilled' = FulfilledBy(h, request.first)
        \/ /\ request.job.op = "reconcile"
           /\ rows' = IF Pending(h) THEN WithClosed(rows, h, request.job, request.now) ELSE rows
           /\ UNCHANGED fulfilled

\* What the answer tells the caller: the attempt is recorded, or this payment was
\* the reference's first.
Told(request) ==
    IF request.job.op = "commit" \/ request.first
    THEN {<<request.job.op, request.job.h>>} ELSE {}

\* The function commits; its answer may be lost, or be heard by nobody.
Carry(request, heard) ==
    /\ Writes(request)
    /\ requests' = requests \ {request}
    /\ IF request.from \in Worker
       THEN Return(request.from, IF heard THEN Told(request) ELSE {})
       ELSE UNCHANGED <<pc, job, tries, acked>>
    /\ UNCHANGED <<audited, clock>>

Stale(request) ==
    /\ request.job.op # "reconcile"
    /\ ~StillHolds(request) \/ (request.job.op = "settle" /\ ~Pending(request.job.h))

MayRetry(w) == tries[w] < StaleRetries

\* PT409: read again and decide again, a bounded number of times.
Refuse(request) ==
    LET w == request.from
    IN  /\ Stale(request)
        /\ requests' = requests \ {request}
        /\ IF w = NoWorker THEN UNCHANGED <<pc, job, tries, acked>>
           ELSE IF MayRetry(w)
                THEN pc' = [pc EXCEPT ![w] = "read"] /\ UNCHANGED <<job, tries, acked>>
                ELSE Return(w, {})
        /\ UNCHANGED vars

\* The request is lost, or openreceive_on_paid raises: nothing is recorded.
Lose(request) ==
    /\ requests' = requests \ {request}
    /\ IF request.from \in Worker THEN Return(request.from, {})
       ELSE UNCHANGED <<pc, job, tries, acked>>
    /\ UNCHANGED vars

\* The caller gives up or dies; its request is still on its way.
TimeOut(request) ==
    /\ request.from \in Worker
    /\ requests' = (requests \ {request}) \cup {[request EXCEPT !.from = NoWorker]}
    /\ Return(request.from, {})
    /\ UNCHANGED vars

FailRead(w) ==
    /\ pc[w] \in {"read", "send"}
    /\ Return(w, {})
    /\ UNCHANGED <<vars, requests>>

TimePasses == Tick /\ UNCHANGED callVars

SupabaseNext ==
    \/ \E w \in Worker :
        \/ \E h \in Hash : CallCommit(w, h) \/ CallSettle(w, h)
        \/ \E h \in Hash, result \in ScanResult : CallReconcile(w, h, result)
        \/ DecideCommit(w) \/ DecideSettle(w) \/ SendReconcile(w) \/ FailRead(w)
    \/ \E request \in requests :
        \/ \E heard \in BOOLEAN : Carry(request, heard)
        \/ Refuse(request) \/ Lose(request) \/ TimeOut(request)
    \/ TimePasses

SupabaseSpec == SupabaseInit /\ [][SupabaseNext]_supabaseVars

-----------------------------------------------------------------------------
SupabaseTypeOK ==
    /\ TypeOK
    /\ pc \in [Worker -> {"idle", "read", "send", "sent"}]
    /\ \A w \in Worker : job[w] \in Job \cup {NoJob}
    /\ tries \in [Worker -> 0..StaleRetries]
    /\ \A request \in requests :
        request.from \in Worker => pc[request.from] = "sent"
    /\ acked \subseteq (Op \X Hash)

=============================================================================
