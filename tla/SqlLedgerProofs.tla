--------------------------- MODULE SqlLedgerProofs --------------------------
(***************************************************************************)
(* The transactions of the SQL repository implement AttemptLedger, for any *)
(* callers, orders sharing any locks, and each dialect.  What a caller has *)
(* read and drafted stays true of the rows of its own order, because no    *)
(* other caller commits to that order while it holds the order's lock.     *)
(***************************************************************************)
EXTENDS SqlLedger, AttemptLedgerProofs

USE RulesAssumption, LedgerAssumption, SqlAssumption

\* The steps of a call between taking its lock and committing.
Inside == {"read", "write", "fulfill", "commit"}

\* What a call was made with: a result that is a transition, times that have
\* passed, a version an operator may reopen.
JobInv(w) ==
    pc[w] # "idle" =>
        /\ job[w] \in Job
        /\ job[w].op \in {"commit", "reconcile"} => job[w].at <= clock
        /\ job[w].op = "requeue" => job[w].status \in {"expired", "attention"}
        /\ job[w].op = "reconcile" =>
            \E s \in ScanStatus, st \in TransactionState :
                LET transition == reconciliationTransition(settlementExpiresAt(job[w].h),
                                                           s, st, job[w].at)
                IN  /\ transition # NoTransition
                    /\ job[w].status = transition.status
                    /\ job[w].reason = transition.reason

LockInv(w) == pc[w] \in Inside => owner[LockFor(w)] = w

\* Nothing is read before the lock is held, and what is read stays current.
ViewInv(w) ==
    /\ pc[w] \in {"idle", "find", "lock", "read"} => view[w] = <<>>
    /\ pc[w] \in {"write", "fulfill", "commit"} /\ job[w].op # "reconcile" =>
        \A g \in Siblings(job[w].h) : view[w][1].rows[g] = rows[g]

\* The row of g once w's transaction has committed.
Drafted(w, g) == IF g \in DOMAIN draft[w] THEN draft[w][g] ELSE rows[g]

\* What the transaction of w has written since its decision: nothing, or one
\* operation of AttemptLedger on the rows as they are.
NoDraft(w) ==
    /\ pc[w] = "commit" /\ also[w] = "nothing"
    /\ DOMAIN draft[w] = {}
    /\ job[w].op = "commit" => rows[job[w].h].status # "absent"

CommitDraft(w) ==
    LET h == job[w].h
        at == job[w].at
    IN  /\ job[w].op = "commit" /\ pc[w] = "commit" /\ also[w] = "nothing"
        /\ CommitAllowed(rows, h, at)
        /\ \A g \in Siblings(h) :
            Drafted(w, g) = WithCommitted(rows, h, Superseded(rows, h, at), at)[g]

SettleDraft(w) ==
    LET h == job[w].h
        first == SettledSiblings(rows, h) = {}
    IN  /\ job[w].op = "settle"
        /\ Pending(h)
        /\ \/ pc[w] = "fulfill" /\ first
           \/ pc[w] = "commit" /\ (also[w] = "onPaid" <=> first) /\ also[w] # "audit"
        /\ \E now \in 0..clock : \A g \in Siblings(h) :
            Drafted(w, g) = WithSettled(rows, h, first, now)[g]

ReconcileDraft(w) ==
    LET h == job[w].h
    IN  /\ job[w].op = "reconcile" /\ pc[w] = "commit" /\ also[w] = "nothing"
        /\ Pending(h)
        /\ \A g \in Siblings(h) : Drafted(w, g) = WithClosed(rows, h, job[w], job[w].at)[g]

RequeueDraft(w) ==
    LET h == job[w].h
    IN  /\ job[w].op = "requeue" /\ pc[w] = "commit" /\ also[w] = "audit"
        /\ RequeueAllowed(rows, audited, h, job[w].status, job[w].at)
        /\ \E now \in 0..clock : \A g \in Siblings(h) :
            Drafted(w, g) = WithRequeued(rows, h, now)[g]

DraftInv(w) ==
    pc[w] \in {"fulfill", "commit"} =>
        /\ DOMAIN draft[w] \subseteq Siblings(job[w].h)
        /\ NoDraft(w) \/ CommitDraft(w) \/ SettleDraft(w) \/ ReconcileDraft(w) \/ RequeueDraft(w)

CallInv(w) == JobInv(w) /\ LockInv(w) /\ ViewInv(w) /\ DraftInv(w)

SqlTypes ==
    /\ SqlTypeOK
    /\ DOMAIN job = Worker /\ DOMAIN view = Worker /\ DOMAIN draft = Worker

SqlInv ==
    /\ SqlTypes
    /\ ClosedLate
    /\ \A w \in Worker : CallInv(w)

-----------------------------------------------------------------------------
(***************************************************************************)
(* The decisions of a transaction depend on the rows of its order only.    *)
(***************************************************************************)
LEMMA OwnSibling == \A h \in Hash : h \in Siblings(h)
  BY DEF Siblings, HashesOf

LEMMA SameSettled ==
    ASSUME NEW S, NEW T, NEW h \in Hash, \A g \in Siblings(h) : S[g] = T[g]
    PROVE  SettledSiblings(S, h) = SettledSiblings(T, h)
  BY DEF SettledSiblings

LEMMA SameSuperseded ==
    ASSUME NEW S, NEW T, NEW h \in Hash, NEW n, \A g \in Siblings(h) : S[g] = T[g]
    PROVE  Superseded(S, h, n) = Superseded(T, h, n)
<1> LiveSiblings(S, h, n) = LiveSiblings(T, h, n)
  BY DEF LiveSiblings, isLivePaymentAttempt
<1> QED
  BY DEF Superseded

LEMMA SameAllowed ==
    ASSUME NEW S, NEW T, NEW h \in Hash, NEW n, \A g \in Siblings(h) : S[g] = T[g],
           CommitAllowed(S, h, n)
    PROVE  CommitAllowed(T, h, n)
<1> LiveSiblings(S, h, n) = LiveSiblings(T, h, n)
  BY DEF LiveSiblings, isLivePaymentAttempt
<1> S[h] = T[h]
  BY OwnSibling
<1> QED
  BY SameSettled DEF CommitAllowed

\* The writes of a commit, row by row.
LEMMA CommittedRows ==
    ASSUME NEW S, NEW T, NEW h \in Hash, NEW old, NEW n,
           \A g \in Siblings(h) : S[g] = T[g]
    PROVE  \A g \in Siblings(h) :
                WithCommitted(S, h, old, n)[g] = WithCommitted(T, h, old, n)[g]
<1> SUFFICES ASSUME NEW g \in Siblings(h)
             PROVE  WithCommitted(S, h, old, n)[g] = WithCommitted(T, h, old, n)[g]
  OBVIOUS
<1>1. g \in Hash /\ S[g] = T[g]
  BY DEF Siblings, HashesOf
<1> QED
  BY <1>1 DEF WithCommitted

\* A commit writes no row of another order.
LEMMA CommitsOwnRows ==
    ASSUME NEW T, NEW h \in Hash, NEW old \in SUBSET Siblings(h), NEW n, NEW g \in Hash,
           g \notin Siblings(h)
    PROVE  WithCommitted(T, h, old, n)[g] = T[g]
  BY OwnSibling DEF WithCommitted

-----------------------------------------------------------------------------
(***************************************************************************)
(* What a step of w leaves alone: the other calls, and the locks they own. *)
(***************************************************************************)
OthersAlone(w) ==
    /\ \A v \in Worker \ {w} :
        /\ pc'[v] = pc[v] /\ job'[v] = job[v] /\ view'[v] = view[v]
        /\ draft'[v] = draft[v] /\ also'[v] = also[v]
    /\ \A l \in Lock : owner[l] \in Worker \ {w} => owner'[l] = owner[l]

CallsOf(w) ==
    \/ \E h \in Hash : CallCommit(w, h)
    \/ \E h \in Hash : CallSettle(w, h)
    \/ \E h \in Hash, result \in ScanResult : CallReconcile(w, h, result)
    \/ \E h \in Hash : CallRequeue(w, h)

StepOf(w) == CallsOf(w) \/ Advance(w) \/ TakeLock(w) \/ Abort(w)

LEMMA NextIsStep ==
    [SqlNext]_sqlVars <=>
        (\E w \in Worker : StepOf(w)) \/ TimePasses \/ UNCHANGED sqlVars
  BY DEF SqlNext, SqlStep, StepOf, CallsOf

CallTypes ==
    /\ pc \in [Worker -> Step]
    /\ \A w \in Worker : job[w] \in Job \cup {NoJob}
    /\ \A w \in Worker : DOMAIN draft[w] \subseteq Hash
    /\ also \in [Worker -> {"nothing", "onPaid", "audit"}]
    /\ owner \in [Lock -> Worker \cup {NoWorker}]
    /\ DOMAIN job = Worker /\ DOMAIN view = Worker /\ DOMAIN draft = Worker

LEMMA TypesAreCallTypes == SqlTypes <=> TypeOK /\ CallTypes /\ acked \subseteq Op \X Hash
  BY DEF SqlTypes, SqlTypeOK, CallTypes

LEMMA LeaveTypes ==
    ASSUME CallTypes, NEW w \in Worker, Leave(w)
    PROVE  /\ CallTypes' /\ OthersAlone(w)
           /\ pc'[w] = "idle" /\ view'[w] = <<>>
  BY DEF CallTypes, Leave, OthersAlone, Step

\* What every call starts with.
LEMMA CallEffect ==
    ASSUME CallTypes, NEW w \in Worker, NEW j \in Job, Call(w, j)
    PROVE  /\ CallTypes' /\ OthersAlone(w)
           /\ pc[w] = "idle" /\ pc'[w] \in {"lock", "find"}
           /\ job'[w] = j /\ view'[w] = view[w]
           /\ UNCHANGED <<vars, acked>>
  BY DEF CallTypes, Call, OthersAlone, Step

LEMMA CallsMade ==
    ASSUME TypeOK, CallTypes, NEW w \in Worker, CallsOf(w)
    PROVE  /\ CallTypes' /\ OthersAlone(w)
           /\ pc[w] = "idle" /\ pc'[w] \in {"lock", "find"} /\ view'[w] = view[w]
           /\ UNCHANGED <<vars, acked>>
           /\ JobInv(w)'
<1> USE DEF vars
<1>1. ASSUME NEW h \in Hash, CallCommit(w, h)
      PROVE  /\ CallTypes' /\ OthersAlone(w)
             /\ pc[w] = "idle" /\ pc'[w] \in {"lock", "find"} /\ view'[w] = view[w]
             /\ UNCHANGED <<vars, acked>>
             /\ JobInv(w)'
  <2> DEFINE j == [op |-> "commit", h |-> h, status |-> "pending", reason |-> "none",
                   at |-> clock]
  <2>1. j \in Job /\ j.op = "commit" /\ j.at = clock /\ clock \in Nat
    BY DEF TypeOK, Job, Op, AttemptStatus, StatusReason
  <2>2. Call(w, j)
    BY <1>1 DEF CallCommit
  <2> HIDE DEF j
  <2> QED
    BY <2>1, <2>2, CallEffect DEF JobInv
<1>2. ASSUME NEW h \in Hash, CallSettle(w, h)
      PROVE  /\ CallTypes' /\ OthersAlone(w)
             /\ pc[w] = "idle" /\ pc'[w] \in {"lock", "find"} /\ view'[w] = view[w]
             /\ UNCHANGED <<vars, acked>>
             /\ JobInv(w)'
  <2> DEFINE j == [op |-> "settle", h |-> h, status |-> "settled", reason |-> "none",
                   at |-> 0]
  <2>1. j \in Job /\ j.op = "settle"
    BY DEF Job, Op, AttemptStatus, StatusReason
  <2>2. Call(w, j)
    BY <1>2 DEF CallSettle
  <2> HIDE DEF j
  <2> QED
    BY <2>1, <2>2, CallEffect DEF JobInv
<1>3. ASSUME NEW h \in Hash, NEW result \in ScanResult, CallReconcile(w, h, result)
      PROVE  /\ CallTypes' /\ OthersAlone(w)
             /\ pc[w] = "idle" /\ pc'[w] \in {"lock", "find"} /\ view'[w] = view[w]
             /\ UNCHANGED <<vars, acked>>
             /\ JobInv(w)'
  <2> DEFINE t == reconciliationTransition(settlementExpiresAt(h), result[1], result[2], clock)
             j == [op |-> "reconcile", h |-> h, status |-> t.status, reason |-> t.reason,
                   at |-> clock]
  <2>1. /\ result[1] \in ScanStatus /\ result[2] \in TransactionState
        /\ clock \in Nat /\ Minted[h].invExp \in Nat
    BY DEF TypeOK, MintedAttempt
  <2>2. t # NoTransition /\ Call(w, j)
    BY <1>3 DEF CallReconcile
  <2>3. t.status \in ClosedStatus /\ t.reason \in StatusReason
    BY <2>1, <2>2, TransitionType DEF settlementExpiresAt
  <2>4. /\ j \in Job /\ j.op = "reconcile" /\ j.h = h /\ j.at = clock
        /\ j.status = t.status /\ j.reason = t.reason
    BY <2>1, <2>3 DEF Job, Op, AttemptStatus
  <2> HIDE DEF j
  <2>5. /\ CallTypes' /\ OthersAlone(w)
        /\ pc[w] = "idle" /\ pc'[w] \in {"lock", "find"} /\ view'[w] = view[w]
        /\ job'[w] = j /\ UNCHANGED <<vars, acked>>
    BY <2>2, <2>4, CallEffect
  <2>6. \E s \in ScanStatus, st \in TransactionState :
            LET transition == reconciliationTransition(settlementExpiresAt(h), s, st, clock)
            IN  /\ transition # NoTransition
                /\ j.status = transition.status
                /\ j.reason = transition.reason
    BY <2>1, <2>2, <2>4
  <2> HIDE DEF t
  <2> QED
    BY <2>1, <2>4, <2>5, <2>6 DEF JobInv
<1>4. ASSUME NEW h \in Hash, CallRequeue(w, h)
      PROVE  /\ CallTypes' /\ OthersAlone(w)
             /\ pc[w] = "idle" /\ pc'[w] \in {"lock", "find"} /\ view'[w] = view[w]
             /\ UNCHANGED <<vars, acked>>
             /\ JobInv(w)'
  <2>1. PICK version \in {<<h, rows[h].status, rows[h].updatedAt>>} \cup audited :
            /\ version[1] = h
            /\ version[2] \in {"expired", "attention"}
            /\ Call(w, [op |-> "requeue", h |-> h, status |-> version[2],
                        reason |-> "none", at |-> version[3]])
    BY <1>4 DEF CallRequeue
  <2> DEFINE j == [op |-> "requeue", h |-> h, status |-> version[2], reason |-> "none",
                   at |-> version[3]]
  <2>2. version[3] \in Nat
    BY DEF TypeOK, Row
  <2>3. /\ j \in Job /\ j.op = "requeue"
        /\ j.status \in {"expired", "attention"}
    BY <2>1, <2>2 DEF Job, Op, AttemptStatus, ClosedStatus, StatusReason
  <2>4. Call(w, j)
    BY <2>1
  <2> HIDE DEF j
  <2> QED
    BY <2>3, <2>4, CallEffect DEF JobInv
<1> QED
  BY <1>1, <1>2, <1>3, <1>4 DEF CallsOf

-----------------------------------------------------------------------------
\* Callers inside the lock work on different orders.
LEMMA DifferentOrders ==
    ASSUME NEW v \in Worker, NEW w \in Worker, v # w,
           pc[v] \in Inside, pc[w] \in Inside, LockInv(v), LockInv(w)
    PROVE  \A g \in Siblings(job[v].h) : g \notin Siblings(job[w].h)
  BY DEF LockInv, LockFor, Siblings, HashesOf

\* A call that does nothing keeps what it believes, as long as it keeps its lock
\* and nothing is written to its order.
LEMMA CallStays ==
    ASSUME TypeOK, TypeOK', CallTypes, NEW v \in Worker, CallInv(v),
           pc'[v] = pc[v], job'[v] = job[v], view'[v] = view[v],
           draft'[v] = draft[v], also'[v] = also[v],
           clock <= clock',
           pc[v] \in Inside =>
                /\ owner[LockFor(v)] = v => owner'[LockFor(v)] = v
                /\ \A g \in Siblings(job[v].h) : rows'[g] = rows[g]
                /\ \A s, u : <<job[v].h, s, u>> \in audited' => <<job[v].h, s, u>> \in audited
    PROVE  CallInv(v)'
<1> DEFINE h == job[v].h
           S == Siblings(h)
<1>1. clock \in Nat /\ clock' \in Nat /\ rows \in [Hash -> Row] /\ rows' \in [Hash -> Row]
  BY DEF TypeOK
<1>2. JobInv(v)'
  <2>1. pc[v] # "idle" => job[v].at \in Nat
    BY DEF CallInv, JobInv, Job
  <2> QED
    BY <1>1, <2>1 DEF CallInv, JobInv
<1>3. LockInv(v)'
  BY DEF CallInv, LockInv, LockFor
<1>4. ViewInv(v)'
  BY DEF CallInv, ViewInv, Inside
<1>5. DraftInv(v)'
  <2> SUFFICES ASSUME pc[v] \in {"fulfill", "commit"}
               PROVE  DraftInv(v)'
    BY DEF DraftInv
  <2>1. /\ DOMAIN draft[v] \subseteq S
        /\ NoDraft(v) \/ CommitDraft(v) \/ SettleDraft(v) \/ ReconcileDraft(v) \/ RequeueDraft(v)
    BY DEF CallInv, DraftInv
  <2>2. h \in Hash
    BY DEF CallInv, JobInv, Job
  <2>3. /\ S \subseteq Hash /\ h \in S
        /\ \A g \in S : rows'[g] = rows[g]
        /\ \A g \in S : Drafted(v, g)' = Drafted(v, g)
        /\ \A s, u : <<h, s, u>> \in audited' => <<h, s, u>> \in audited
    BY <2>2, OwnSibling DEF Inside, Drafted, Siblings, HashesOf
  <2>4. rows'[h] = rows[h]
    BY <2>3
  <2>5. SettledSiblings(rows', h) = SettledSiblings(rows, h)
    BY <2>2, <2>3, SameSettled
  <2>6. ASSUME NoDraft(v)
        PROVE  NoDraft(v)'
    BY <2>4, <2>6 DEF NoDraft
  <2>7. ASSUME CommitDraft(v)
        PROVE  CommitDraft(v)'
    <3> DEFINE at == job[v].at
               old == Superseded(rows, h, at)
    <3>1. /\ Superseded(rows', h, at) = old
          /\ CommitAllowed(rows', h, at)
      <4>1. CommitAllowed(rows, h, at)
        BY <2>7 DEF CommitDraft
      <4> HIDE DEF at
      <4> HIDE DEF h
      <4>2. Superseded(rows', h, at) = Superseded(rows, h, at)
        BY <2>2, <2>3, SameSuperseded
      <4>3. CommitAllowed(rows', h, at)
        BY <2>2, <2>3, <4>1, SameAllowed
      <4> QED
        BY <4>2, <4>3
    <3>2. \A g \in S : WithCommitted(rows', h, old, job[v].at)[g]
                        = WithCommitted(rows, h, old, job[v].at)[g]
      <4> HIDE DEF at, old
      <4> HIDE DEF h
      <4>1. \A g \in S : WithCommitted(rows', h, old, at)[g] = WithCommitted(rows, h, old, at)[g]
        BY <2>2, <2>3, CommittedRows
      <4> QED
        BY <4>1 DEF at
    <3> QED
      BY <2>3, <2>7, <3>1, <3>2 DEF CommitDraft
  <2>8. ASSUME SettleDraft(v)
        PROVE  SettleDraft(v)'
    <3> DEFINE first == SettledSiblings(rows, h) = {}
    <3>1. PICK now \in 0..clock : \A g \in S : Drafted(v, g) = WithSettled(rows, h, first, now)[g]
      BY <2>8 DEF SettleDraft
    <3>2. \A g \in S : WithSettled(rows', h, first, now)[g] = WithSettled(rows, h, first, now)[g]
      BY <1>1, <2>3 DEF WithSettled
    <3>3. now \in 0..clock'
      BY <1>1
    <3>4. Pending(h)'
      BY <2>4, <2>8 DEF SettleDraft, Pending
    <3>5. \E n \in 0..clock' : \A g \in S :
                Drafted(v, g)' = WithSettled(rows', h, SettledSiblings(rows', h) = {}, n)[g]
      BY <2>3, <2>5, <3>1, <3>2, <3>3
    <3> QED
      BY <2>5, <2>8, <3>4, <3>5 DEF SettleDraft
  <2>9. ASSUME ReconcileDraft(v)
        PROVE  ReconcileDraft(v)'
    <3>1. \A g \in S : WithClosed(rows', h, job[v], job[v].at)[g]
                        = WithClosed(rows, h, job[v], job[v].at)[g]
      BY <1>1, <2>3 DEF WithClosed
    <3>2. Pending(h)'
      BY <2>4, <2>9 DEF ReconcileDraft, Pending
    <3> QED
      BY <2>3, <2>9, <3>1, <3>2 DEF ReconcileDraft
  <2>10. ASSUME RequeueDraft(v)
         PROVE  RequeueDraft(v)'
    <3>1. PICK now \in 0..clock : \A g \in S : Drafted(v, g) = WithRequeued(rows, h, now)[g]
      BY <2>10 DEF RequeueDraft
    <3>2. \A g \in S : WithRequeued(rows', h, now)[g] = WithRequeued(rows, h, now)[g]
      BY <1>1, <2>3 DEF WithRequeued
    <3>3. now \in 0..clock'
      BY <1>1
    <3>4. RequeueAllowed(rows', audited', h, job[v].status, job[v].at)
      BY <2>3, <2>4, <2>10 DEF RequeueDraft, RequeueAllowed
    <3> QED
      BY <2>3, <2>10, <3>1, <3>2, <3>3, <3>4 DEF RequeueDraft
  <2> QED
    BY <2>1, <2>6, <2>7, <2>8, <2>9, <2>10 DEF DraftInv
<1> QED
  BY <1>2, <1>3, <1>4, <1>5 DEF CallInv

-----------------------------------------------------------------------------
(***************************************************************************)
(* What w's own statements leave true of its call.                         *)
(***************************************************************************)
\* A transaction that has written nothing.
LEMMA NothingWritten ==
    ASSUME SqlInv, NEW w \in Worker, pc[w] = "write", UNCHANGED <<vars, acked>>,
           job[w].op = "commit" => rows[job[w].h].status # "absent",
           WritesNothing(w)
    PROVE  CallTypes' /\ OthersAlone(w) /\ CallInv(w)'
<1>1. CallTypes /\ CallInv(w)
  BY TypesAreCallTypes DEF SqlInv
<1>2. {} \in SUBSET Hash /\ "commit" \in Step /\ "nothing" \in {"nothing", "onPaid", "audit"}
  BY DEF Step
<1>3. /\ CallTypes' /\ OthersAlone(w)
      /\ pc'[w] = "commit" /\ also'[w] = "nothing"
      /\ UNCHANGED <<job, view, owner>>
      /\ DOMAIN draft'[w] = {}
  BY <1>1, <1>2 DEF CallTypes, WritesNothing, Writes, OthersAlone
<1>4. NoDraft(w)'
  BY <1>3 DEF NoDraft, vars
<1> QED
  BY <1>1, <1>3, <1>4 DEF CallInv, JobInv, LockInv, LockFor, ViewInv, DraftInv, Inside, vars

\* A transaction that has written rows of its order.
LEMMA OrderWritten ==
    ASSUME SqlInv, NEW w \in Worker, pc[w] = "write", UNCHANGED <<vars, acked>>,
           NEW table, NEW hs \in SUBSET Siblings(job[w].h), NEW next \in {"fulfill", "commit"},
           NEW extra \in {"nothing", "onPaid", "audit"},
           Writes(w, table, hs, next, extra)
    PROVE  /\ CallTypes' /\ OthersAlone(w)
           /\ pc'[w] = next /\ also'[w] = extra
           /\ UNCHANGED <<job, rows, audited, clock>>
           /\ \A g : Drafted(w, g)' = IF g \in hs THEN table[g] ELSE rows[g]
           /\ (CommitDraft(w) \/ SettleDraft(w) \/ ReconcileDraft(w) \/ RequeueDraft(w))'
                => CallInv(w)'
<1>1. CallTypes /\ CallInv(w)
  BY TypesAreCallTypes DEF SqlInv
<1>2. hs \in SUBSET Hash /\ next \in Step
  BY DEF Step, Siblings, HashesOf
<1>3. /\ CallTypes' /\ OthersAlone(w)
      /\ pc'[w] = next /\ also'[w] = extra
      /\ UNCHANGED <<job, view, owner>>
      /\ DOMAIN draft'[w] = hs
      /\ \A g \in hs : draft'[w][g] = table[g]
  BY <1>1, <1>2 DEF CallTypes, Writes, OthersAlone
<1>4. UNCHANGED <<job, rows, audited, clock>>
  BY <1>3 DEF vars
<1>5. \A g : Drafted(w, g)' = IF g \in hs THEN table[g] ELSE rows[g]
  BY <1>3, <1>4 DEF Drafted
<1>6. JobInv(w)' /\ LockInv(w)' /\ ViewInv(w)'
  BY <1>1, <1>3, <1>4 DEF CallInv, JobInv, LockInv, LockFor, ViewInv, Inside
<1>7. DOMAIN draft'[w] \subseteq Siblings(job'[w].h)
  BY <1>3
<1> QED
  BY <1>3, <1>4, <1>5, <1>6, <1>7 DEF CallInv, DraftInv

LEMMA CommitWritten ==
    ASSUME SqlInv, NEW w \in Worker, pc[w] = "write", UNCHANGED <<vars, acked>>,
           WriteCommit(w)
    PROVE  CallTypes' /\ OthersAlone(w) /\ CallInv(w)'
<1> DEFINE h == job[w].h
           now == job[w].at
           existing == view[w][1].rows
           old == Superseded(existing, h, now)
           written == WithCommitted(rows, h, old, now)
           hs == {g \in Hash : written[g] # rows[g]}
<1>1. /\ CallTypes /\ h \in Hash /\ job[w].op = "commit"
      /\ \A g \in Siblings(h) : existing[g] = rows[g]
  BY TypesAreCallTypes DEF SqlInv, CallInv, JobInv, Job, ViewInv, WriteCommit
<1>2. existing[h] = rows[h]
  BY <1>1, OwnSibling
<1>3. CASE existing[h].status # "absent" /\ WritesNothing(w)
  BY <1>2, <1>3, NothingWritten
<1>4. CASE /\ CommitAllowed(existing, h, now)
           /\ Writes(w, written, hs, "commit", "nothing")
  <2> HIDE DEF now
  <2>1. /\ old = Superseded(rows, h, now)
        /\ old \in SUBSET Siblings(h)
        /\ CommitAllowed(rows, h, now)
    <3>1. h \in Hash /\ \A g \in Siblings(h) : existing[g] = rows[g]
      BY <1>1
    <3>2. CommitAllowed(existing, h, now)
      BY <1>4
    <3> HIDE DEF h, existing
    <3>3. Superseded(existing, h, now) = Superseded(rows, h, now)
      BY <3>1, SameSuperseded
    <3>4. CommitAllowed(rows, h, now)
      BY <3>1, <3>2, SameAllowed
    <3>5. Superseded(existing, h, now) \subseteq Siblings(h)
      BY DEF Superseded, LiveSiblings
    <3> QED
      BY <3>3, <3>4, <3>5
  <2>2. hs \in SUBSET Siblings(h)
    <3> HIDE DEF old, h
    <3> QED
      BY <1>1, <2>1, CommitsOwnRows
  <2>3. "commit" \in {"fulfill", "commit"} /\ "nothing" \in {"nothing", "onPaid", "audit"}
    OBVIOUS
  <2> HIDE DEF written, hs
  <2>4. /\ CallTypes' /\ OthersAlone(w)
        /\ pc'[w] = "commit" /\ also'[w] = "nothing"
        /\ UNCHANGED <<job, rows, audited, clock>>
        /\ \A g : Drafted(w, g)' = IF g \in hs THEN written[g] ELSE rows[g]
        /\ (CommitDraft(w) \/ SettleDraft(w) \/ ReconcileDraft(w) \/ RequeueDraft(w))'
             => CallInv(w)'
    BY <1>4, <2>2, <2>3, OrderWritten
  <2>5. \A g \in Siblings(h) : Drafted(w, g)' = written[g]
    BY <2>4 DEF hs, Siblings, HashesOf
  <2>6. CommitDraft(w)'
    BY <1>1, <2>1, <2>4, <2>5 DEF CommitDraft, written, now
  <2> QED
    BY <2>4, <2>6
<1>5. CASE Leave(w)
  BY <1>1, <1>5, LeaveTypes DEF CallInv, JobInv, LockInv, ViewInv, DraftInv, Inside
<1> QED
  BY <1>3, <1>4, <1>5 DEF WriteCommit

LEMMA SettleWritten ==
    ASSUME SqlInv, NEW w \in Worker, pc[w] = "write", UNCHANGED <<vars, acked>>,
           WriteSettle(w)
    PROVE  CallTypes' /\ OthersAlone(w) /\ CallInv(w)'
<1> DEFINE h == job[w].h
           existing == view[w][1].rows
           first == SettledSiblings(rows, h) = {}
           next == IF first THEN "fulfill" ELSE "commit"
           table == WithSettled(rows, h, first, clock)
<1>1. /\ h \in Hash /\ job[w].op = "settle" /\ rows \in [Hash -> Row] /\ clock \in Nat
      /\ \A g \in Siblings(h) : existing[g] = rows[g]
  BY TypesAreCallTypes DEF SqlInv, CallInv, JobInv, Job, ViewInv, WriteSettle, TypeOK
<1>2. existing[h] = rows[h]
  BY <1>1, OwnSibling
<1>3. SettledSiblings(existing, h) = SettledSiblings(rows, h)
  <2>1. h \in Hash /\ \A g \in Siblings(h) : existing[g] = rows[g]
    BY <1>1
  <2> HIDE DEF h, existing
  <2> QED
    BY <2>1, SameSettled
<1>4. CASE existing[h].status # "pending"
  <2>1. WritesNothing(w)
    BY <1>4 DEF WriteSettle
  <2> QED
    BY <1>1, <2>1, NothingWritten
<1>5. CASE existing[h].status = "pending"
  <2>1. Writes(w, table, {h}, next, "nothing")
    BY <1>3, <1>5 DEF WriteSettle
  <2>2. /\ next \in {"fulfill", "commit"} /\ "nothing" \in {"nothing", "onPaid", "audit"}
        /\ {h} \in SUBSET Siblings(h)
    BY <1>1, OwnSibling
  <2> HIDE DEF table, next
  <2>3. /\ CallTypes' /\ OthersAlone(w)
        /\ pc'[w] = next /\ also'[w] = "nothing"
        /\ UNCHANGED <<job, rows, audited, clock>>
        /\ \A g : Drafted(w, g)' = IF g \in {h} THEN table[g] ELSE rows[g]
        /\ (CommitDraft(w) \/ SettleDraft(w) \/ ReconcileDraft(w) \/ RequeueDraft(w))'
             => CallInv(w)'
    BY <2>1, <2>2, OrderWritten
  <2>4. \A g \in Siblings(h) : Drafted(w, g)' = table[g]
    BY <1>1, <2>3 DEF table, WithSettled, Siblings, HashesOf
  <2>5. clock \in 0..clock'
    BY <1>1, <2>3
  <2>6. \E now \in 0..clock' : \A g \in Siblings(h) :
            Drafted(w, g)' = WithSettled(rows, h, first, now)[g]
    BY <2>4, <2>5 DEF table
  <2>7. Pending(h)
    BY <1>2, <1>5 DEF Pending
  <2>8. \/ pc'[w] = "fulfill" /\ first
        \/ pc'[w] = "commit" /\ (also'[w] = "onPaid" <=> first) /\ also'[w] # "audit"
    BY <2>3 DEF next
  <2>9. SettleDraft(w)'
    BY <1>1, <2>3, <2>6, <2>7, <2>8 DEF SettleDraft, Pending
  <2> QED
    BY <2>3, <2>9
<1> QED
  BY <1>4, <1>5

LEMMA ReconcileWritten ==
    ASSUME SqlInv, NEW w \in Worker, pc[w] = "write", UNCHANGED <<vars, acked>>,
           WriteReconcile(w)
    PROVE  CallTypes' /\ OthersAlone(w) /\ CallInv(w)'
<1> DEFINE h == job[w].h
           table == WithClosed(rows, h, job[w], job[w].at)
<1>1. h \in Hash /\ job[w].op = "reconcile" /\ rows \in [Hash -> Row]
  BY TypesAreCallTypes DEF SqlInv, CallInv, JobInv, Job, WriteReconcile, TypeOK
<1>2. CASE ~Pending(h)
  <2>1. WritesNothing(w)
    BY <1>2 DEF WriteReconcile
  <2> QED
    BY <1>1, <2>1, NothingWritten
<1>3. CASE Pending(h)
  <2>1. Writes(w, table, {h}, "commit", "nothing")
    BY <1>3 DEF WriteReconcile
  <2>2. /\ "commit" \in {"fulfill", "commit"} /\ "nothing" \in {"nothing", "onPaid", "audit"}
        /\ {h} \in SUBSET Siblings(h)
    BY <1>1, OwnSibling
  <2> HIDE DEF table
  <2>3. /\ CallTypes' /\ OthersAlone(w)
        /\ pc'[w] = "commit" /\ also'[w] = "nothing"
        /\ UNCHANGED <<job, rows, audited, clock>>
        /\ \A g : Drafted(w, g)' = IF g \in {h} THEN table[g] ELSE rows[g]
        /\ (CommitDraft(w) \/ SettleDraft(w) \/ ReconcileDraft(w) \/ RequeueDraft(w))'
             => CallInv(w)'
    BY <2>1, <2>2, OrderWritten
  <2>4. \A g \in Siblings(h) : Drafted(w, g)' = table[g]
    BY <1>1, <2>3 DEF table, WithClosed, Siblings, HashesOf
  <2>5. ReconcileDraft(w)'
    BY <1>1, <1>3, <2>3, <2>4 DEF ReconcileDraft, Pending, table
  <2> QED
    BY <2>3, <2>5
<1> QED
  BY <1>2, <1>3

\* The row reviewed is still at the version reviewed, so the UPDATE matches it.
LEMMA RequeueWritten ==
    ASSUME SqlInv, NEW w \in Worker, pc[w] = "write", UNCHANGED <<vars, acked>>,
           WriteRequeue(w)
    PROVE  CallTypes' /\ OthersAlone(w) /\ CallInv(w)'
<1> DEFINE h == job[w].h
           existing == view[w][1].rows
           allowed == RequeueAllowed(existing, Seen(w).audited, h, job[w].status, job[w].at)
           matches == rows[h].status = job[w].status /\ rows[h].updatedAt = job[w].at
           table == WithRequeued(rows, h, clock)
<1>0. CallTypes /\ CallInv(w)
  BY TypesAreCallTypes DEF SqlInv
<1>1. /\ h \in Hash /\ job[w].op = "requeue" /\ rows \in [Hash -> Row] /\ clock \in Nat
      /\ \A g \in Siblings(h) : existing[g] = rows[g]
  BY TypesAreCallTypes DEF SqlInv, CallInv, JobInv, Job, ViewInv, WriteRequeue, TypeOK
<1>2. existing[h] = rows[h]
  BY <1>1, OwnSibling
<1>3. CASE ~allowed
  <2>1. WritesNothing(w)
    BY <1>3 DEF WriteRequeue
  <2> QED
    BY <1>1, <2>1, NothingWritten
<1>4. CASE allowed /\ <<h, job[w].status, job[w].at>> \in audited
  <2>1. Leave(w)
    BY <1>4 DEF WriteRequeue
  <2> QED
    BY <1>0, <2>1, LeaveTypes DEF CallInv, JobInv, LockInv, ViewInv, DraftInv, Inside
<1>5. CASE allowed /\ <<h, job[w].status, job[w].at>> \notin audited
  <2>1. matches /\ RequeueAllowed(rows, audited, h, job[w].status, job[w].at)
    BY <1>2, <1>5 DEF RequeueAllowed
  <2>2. Writes(w, table, {h}, "commit", "audit")
    BY <1>5, <2>1 DEF WriteRequeue
  <2>3. /\ "commit" \in {"fulfill", "commit"} /\ "audit" \in {"nothing", "onPaid", "audit"}
        /\ {h} \in SUBSET Siblings(h)
    BY <1>1, OwnSibling
  <2> HIDE DEF table
  <2>4. /\ CallTypes' /\ OthersAlone(w)
        /\ pc'[w] = "commit" /\ also'[w] = "audit"
        /\ UNCHANGED <<job, rows, audited, clock>>
        /\ \A g : Drafted(w, g)' = IF g \in {h} THEN table[g] ELSE rows[g]
        /\ (CommitDraft(w) \/ SettleDraft(w) \/ ReconcileDraft(w) \/ RequeueDraft(w))'
             => CallInv(w)'
    BY <2>2, <2>3, OrderWritten
  <2>5. \A g \in Siblings(h) : Drafted(w, g)' = table[g]
    BY <1>1, <2>4 DEF table, WithRequeued, Siblings, HashesOf
  <2>6. clock \in 0..clock'
    BY <1>1, <2>4
  <2>7. \E now \in 0..clock' : \A g \in Siblings(h) :
            Drafted(w, g)' = WithRequeued(rows, h, now)[g]
    BY <2>5, <2>6 DEF table
  <2>8. RequeueDraft(w)'
    BY <1>1, <2>1, <2>4, <2>7 DEF RequeueDraft
  <2> QED
    BY <2>4, <2>8
<1> QED
  BY <1>3, <1>4, <1>5

\* A rollback leaves nothing behind.
LEMMA CallLeft ==
    ASSUME SqlInv, NEW w \in Worker, Leave(w)
    PROVE  CallTypes' /\ OthersAlone(w) /\ CallInv(w)'
<1>1. CallTypes
  BY TypesAreCallTypes DEF SqlInv
<1> QED
  BY <1>1, LeaveTypes DEF CallInv, JobInv, LockInv, ViewInv, DraftInv, Inside

LEMMA FindEffect ==
    ASSUME SqlInv, NEW w \in Worker, Find(w)
    PROVE  CallTypes' /\ OthersAlone(w) /\ CallInv(w)'
<1>1. CallTypes /\ CallInv(w)
  BY TypesAreCallTypes DEF SqlInv
<1>2. CASE Leave(w)
  BY <1>2, CallLeft
<1>3. CASE /\ pc' = [pc EXCEPT ![w] = "lock"]
           /\ view' = IF FindsInTransaction /\ KeepsSnapshot
                      THEN [view EXCEPT ![w] = <<Seen(w)>>]
                      ELSE view
           /\ UNCHANGED <<job, draft, also, owner>>
  <2>1. /\ pc[w] = "find" /\ pc' = [pc EXCEPT ![w] = "lock"]
        /\ UNCHANGED <<view, job, draft, also, owner, vars>>
    BY <1>3 DEF Find, FindsInTransaction, KeepsSnapshot
  <2>2. CallTypes' /\ OthersAlone(w)
    BY <1>1, <2>1 DEF CallTypes, OthersAlone, Step
  <2>3. pc'[w] = "lock" /\ view[w] = <<>>
    BY <1>1, <2>1 DEF CallTypes, CallInv, ViewInv
  <2>4. CallInv(w)'
    BY <1>1, <2>1, <2>3 DEF CallInv, JobInv, LockInv, ViewInv, DraftInv, Inside, vars
  <2> QED
    BY <2>2, <2>4
<1> QED
  BY <1>2, <1>3 DEF Find

\* A lock that is taken was free, so no other call loses its own.
LEMMA TakeLockEffect ==
    ASSUME SqlInv, NEW w \in Worker, TakeLock(w)
    PROVE  CallTypes' /\ OthersAlone(w) /\ CallInv(w)'
<1>1. CallTypes /\ CallInv(w)
  BY TypesAreCallTypes DEF SqlInv
<1>2. job[w] \in Job
  BY <1>1 DEF CallInv, JobInv, TakeLock
<1>3. LockFor(w) \in Lock
  <2>1. Minted[job[w].h].ref \in Ref
    BY <1>2 DEF Job, MintedAttempt
  <2> QED
    BY <2>1 DEF LockFor
<1>4. CallTypes' /\ OthersAlone(w)
  BY <1>1, <1>3 DEF TakeLock, CallTypes, OthersAlone, Step
<1>5. /\ pc'[w] = IF job[w].op = "reconcile" THEN "write" ELSE "read"
      /\ owner'[LockFor(w)] = w
      /\ view[w] = <<>>
      /\ UNCHANGED <<job, view, draft, clock>>
  BY <1>1, <1>3 DEF TakeLock, CallTypes, CallInv, ViewInv, vars
<1>6. LockInv(w)' /\ DraftInv(w)' /\ ViewInv(w)'
  BY <1>5 DEF LockInv, LockFor, DraftInv, ViewInv
<1>7. JobInv(w)'
  BY <1>1, <1>5 DEF CallInv, JobInv, TakeLock
<1> QED
  BY <1>4, <1>6, <1>7 DEF CallInv

LEMMA ReadEffect ==
    ASSUME SqlInv, NEW w \in Worker, Read(w)
    PROVE  CallTypes' /\ OthersAlone(w) /\ CallInv(w)'
<1>1. CallTypes /\ CallInv(w)
  BY TypesAreCallTypes DEF SqlInv
<1>2. CallTypes' /\ OthersAlone(w)
  BY <1>1 DEF Read, CallTypes, OthersAlone, Step
<1>3. Seen(w).rows = rows
  BY <1>1 DEF Read, Seen, CallInv, ViewInv
<1>4. /\ pc'[w] = "write" /\ view'[w] = <<Seen(w)>> /\ view'[w][1] = Seen(w)
      /\ pc[w] = "read" /\ UNCHANGED <<job, draft, owner, rows, clock>>
  BY <1>1 DEF Read, CallTypes, vars
<1>5. ViewInv(w)' /\ DraftInv(w)'
  BY <1>3, <1>4 DEF ViewInv, DraftInv
<1>6. JobInv(w)' /\ LockInv(w)'
  BY <1>1, <1>4 DEF CallInv, JobInv, LockInv, LockFor, Inside
<1> QED
  BY <1>2, <1>5, <1>6 DEF CallInv

LEMMA WriteEffect ==
    ASSUME SqlInv, NEW w \in Worker, Write(w)
    PROVE  CallTypes' /\ OthersAlone(w) /\ CallInv(w)'
  BY CommitWritten, SettleWritten, ReconcileWritten, RequeueWritten DEF Write

LEMMA FulfillEffect ==
    ASSUME SqlInv, NEW w \in Worker, Fulfill(w)
    PROVE  CallTypes' /\ OthersAlone(w) /\ CallInv(w)'
<1>1. CallTypes /\ CallInv(w)
  BY TypesAreCallTypes DEF SqlInv
<1>2. CallTypes' /\ OthersAlone(w)
  BY <1>1 DEF Fulfill, CallTypes, OthersAlone, Step
<1>3. /\ pc[w] = "fulfill" /\ pc'[w] = "commit" /\ also'[w] = "onPaid"
      /\ UNCHANGED <<job, view, draft, owner, rows, audited, clock>>
  BY <1>1 DEF Fulfill, CallTypes, vars
<1>4. /\ DOMAIN draft[w] \subseteq Siblings(job[w].h)
      /\ SettleDraft(w)
  BY <1>1, <1>3 DEF CallInv, DraftInv, NoDraft, CommitDraft, ReconcileDraft, RequeueDraft
<1>5. SettleDraft(w)'
  <2>1. \A g : Drafted(w, g)' = Drafted(w, g)
    BY <1>3 DEF Drafted
  <2> QED
    BY <1>3, <1>4, <2>1 DEF SettleDraft, Pending
<1>6. JobInv(w)' /\ LockInv(w)' /\ ViewInv(w)'
  BY <1>1, <1>3 DEF CallInv, JobInv, LockInv, LockFor, ViewInv, Inside
<1> QED
  BY <1>2, <1>3, <1>4, <1>5, <1>6 DEF CallInv, DraftInv

-----------------------------------------------------------------------------
(***************************************************************************)
(* A commit is one operation of AttemptLedger.                             *)
(***************************************************************************)
LEMMA CommitIsStep ==
    ASSUME SqlInv, NEW w \in Worker, NEW answered \in BOOLEAN, Commit(w, answered)
    PROVE  /\ [Next]_vars
           /\ \A g \in Hash : g \notin Siblings(job[w].h) => rows'[g] = rows[g]
           /\ \A a \in audited' : a \in audited \/ a[1] = job[w].h
<1> DEFINE h == job[w].h
           at == job[w].at
<1>1. TypeOK /\ CallTypes /\ CallInv(w) /\ ClosedLate
  BY TypesAreCallTypes DEF SqlInv
<1>2. pc[w] = "commit"
  BY DEF Commit
<1>3. /\ job[w] \in Job /\ h \in Hash /\ at \in Nat
      /\ rows \in [Hash -> Row] /\ clock \in Nat
  BY <1>1, <1>2 DEF CallInv, JobInv, Job, TypeOK
<1>4. /\ DOMAIN draft[w] \subseteq Siblings(h)
      /\ NoDraft(w) \/ CommitDraft(w) \/ SettleDraft(w) \/ ReconcileDraft(w) \/ RequeueDraft(w)
  BY <1>1, <1>2 DEF CallInv, DraftInv
<1>5. /\ rows' = [g \in Hash |-> Drafted(w, g)]
      /\ fulfilled' = FulfilledBy(h, also[w] = "onPaid")
      /\ audited' = IF also[w] = "audit"
                    THEN audited \cup {<<h, job[w].status, at>>}
                    ELSE audited
      /\ clock' = clock
  BY DEF Commit, Drafted
<1>6. \A g \in Hash : g \notin Siblings(h) => Drafted(w, g) = rows[g]
  BY <1>4 DEF Drafted
<1>7. \A a \in audited' : a \in audited \/ a[1] = h
  BY <1>5
<1>8. ASSUME NoDraft(w)
      PROVE  [Next]_vars
  <2>1. rows' = rows
    BY <1>3, <1>5, <1>8 DEF NoDraft, Drafted
  <2>2. fulfilled' = fulfilled /\ audited' = audited
    BY <1>5, <1>8 DEF NoDraft, FulfilledBy
  <2> QED
    BY <1>5, <2>1, <2>2 DEF vars
<1>9. ASSUME CommitDraft(w)
      PROVE  [Next]_vars
  <2> DEFINE old == Superseded(rows, h, at)
             table == WithCommitted(rows, h, old, at)
  <2>1. /\ CommitAllowed(rows, h, at) /\ also[w] = "nothing" /\ job[w].op = "commit"
        /\ \A g \in Siblings(h) : Drafted(w, g) = table[g]
    BY <1>9 DEF CommitDraft
  <2>2. table = [g \in Hash |-> table[g]]
    BY DEF WithCommitted
  <2>3. old \in SUBSET Siblings(h)
    BY DEF Superseded, LiveSiblings
  <2>4. \A g \in Hash : g \notin Siblings(h) => table[g] = rows[g]
    <3> HIDE DEF old, h, at
    <3> QED
      BY <1>3, <2>3, CommitsOwnRows
  <2>5. rows' = table
    <3> HIDE DEF table
    <3>1. \A g \in Hash : Drafted(w, g) = table[g]
      BY <1>6, <2>1, <2>4
    <3>2. rows' = [g \in Hash |-> Drafted(w, g)]
      BY <1>5
    <3> QED
      BY <2>2, <3>1, <3>2
  <2>6. at \in 0..clock
    BY <1>1, <1>2, <1>3, <2>1 DEF CallInv, JobInv
  <2>7. CommitAttempt(h, at)
    BY <1>5, <2>1, <2>5 DEF CommitAttempt, FulfilledBy
  <2> QED
    BY <1>3, <2>6, <2>7 DEF Next
<1>10. ASSUME SettleDraft(w)
       PROVE  [Next]_vars
  <2> DEFINE first == SettledSiblings(rows, h) = {}
  <2>1. PICK now \in 0..clock : \A g \in Siblings(h) :
            Drafted(w, g) = WithSettled(rows, h, first, now)[g]
    BY <1>10 DEF SettleDraft
  <2>2. Pending(h) /\ (also[w] = "onPaid" <=> first) /\ also[w] # "audit"
    BY <1>2, <1>10 DEF SettleDraft
  <2> DEFINE table == WithSettled(rows, h, first, now)
  <2>3. table = [g \in Hash |-> table[g]]
    BY <1>3 DEF WithSettled
  <2>4. \A g \in Hash : g \notin Siblings(h) => table[g] = rows[g]
    BY <1>3, OwnSibling DEF WithSettled
  <2>5. rows' = table
    <3>1. \A g \in Siblings(h) : Drafted(w, g) = table[g]
      BY <2>1
    <3> HIDE DEF table
    <3>2. \A g \in Hash : Drafted(w, g) = table[g]
      BY <1>6, <2>4, <3>1
    <3>3. rows' = [g \in Hash |-> Drafted(w, g)]
      BY <1>5
    <3> QED
      BY <2>3, <3>2, <3>3
  <2>6. fulfilled' = FulfilledBy(h, first)
    BY <1>5, <2>2 DEF FulfilledBy
  <2>7. MarkPaidOnce(h, now)
    BY <1>5, <2>2, <2>5, <2>6 DEF MarkPaidOnce
  <2> QED
    BY <1>3, <2>7 DEF Next
<1>11. ASSUME ReconcileDraft(w)
       PROVE  [Next]_vars
  <2>1. /\ Pending(h) /\ also[w] = "nothing" /\ job[w].op = "reconcile"
        /\ \A g \in Siblings(h) : Drafted(w, g) = WithClosed(rows, h, job[w], at)[g]
    BY <1>11 DEF ReconcileDraft
  <2>2. PICK s \in ScanStatus, st \in TransactionState :
            LET transition == reconciliationTransition(settlementExpiresAt(h), s, st, at)
            IN  /\ transition # NoTransition
                /\ job[w].status = transition.status
                /\ job[w].reason = transition.reason
    BY <1>1, <1>2, <2>1 DEF CallInv, JobInv
  <2> DEFINE t == reconciliationTransition(settlementExpiresAt(h), s, st, at)
             table == WithClosed(rows, h, t, at)
  <2>3. \A g \in Siblings(h) : Drafted(w, g) = table[g]
    BY <2>1, <2>2 DEF WithClosed
  <2>4. table = [g \in Hash |-> table[g]]
    BY <1>3 DEF WithClosed
  <2>5. \A g \in Hash : g \notin Siblings(h) => table[g] = rows[g]
    BY <1>3, OwnSibling DEF WithClosed
  <2>6. rows' = table
    <3> HIDE DEF table
    <3>1. \A g \in Hash : Drafted(w, g) = table[g]
      BY <1>6, <2>3, <2>5
    <3>2. rows' = [g \in Hash |-> Drafted(w, g)]
      BY <1>5
    <3> QED
      BY <2>4, <3>1, <3>2
  <2>7. at \in 0..clock
    BY <1>1, <1>2, <1>3, <2>1 DEF CallInv, JobInv
  <2>8. RecordReconciliation(h, s, st, at)
    BY <1>5, <2>1, <2>2, <2>6 DEF RecordReconciliation, FulfilledBy
  <2> QED
    BY <1>3, <2>7, <2>8 DEF Next
<1>12. ASSUME RequeueDraft(w)
       PROVE  [Next]_vars
  <2> DEFINE status == job[w].status
  <2>1. PICK now \in 0..clock : \A g \in Siblings(h) :
            Drafted(w, g) = WithRequeued(rows, h, now)[g]
    BY <1>12 DEF RequeueDraft
  <2>2. /\ RequeueAllowed(rows, audited, h, status, at)
        /\ also[w] = "audit" /\ job[w].op = "requeue"
    BY <1>12 DEF RequeueDraft
  <2> DEFINE table == WithRequeued(rows, h, now)
  <2>3. table = [g \in Hash |-> table[g]]
    BY <1>3 DEF WithRequeued
  <2>4. \A g \in Hash : g \notin Siblings(h) => table[g] = rows[g]
    BY <1>3, OwnSibling DEF WithRequeued
  <2>5. rows' = table
    <3>1. \A g \in Siblings(h) : Drafted(w, g) = table[g]
      BY <2>1
    <3> HIDE DEF table
    <3>2. \A g \in Hash : Drafted(w, g) = table[g]
      BY <1>6, <2>4, <3>1
    <3>3. rows' = [g \in Hash |-> Drafted(w, g)]
      BY <1>5
    <3> QED
      BY <2>3, <3>2, <3>3
  <2>6. status \in {"expired", "attention"}
    BY <1>1, <1>2, <2>2 DEF CallInv, JobInv
  <2>7. at \in 0..clock
    BY <1>1, <1>3, <2>2 DEF RequeueAllowed, ClosedLate
  <2>8. RequeueAttempt(h, status, at, now)
    BY <1>5, <2>2, <2>5 DEF RequeueAttempt, FulfilledBy
  <2> QED
    BY <1>3, <2>6, <2>7, <2>8 DEF Next
<1>13. \A g \in Hash : g \notin Siblings(h) => rows'[g] = rows[g]
  BY <1>5, <1>6
<1> QED
  BY <1>4, <1>7, <1>8, <1>9, <1>10, <1>11, <1>12, <1>13

LEMMA CommitEffect ==
    ASSUME SqlInv, NEW w \in Worker, NEW answered \in BOOLEAN, Commit(w, answered)
    PROVE  CallTypes' /\ OthersAlone(w) /\ CallInv(w)' /\ acked' \subseteq Op \X Hash
<1>1. CallInv(w) /\ acked \subseteq Op \X Hash
  BY DEF SqlInv, SqlTypes, SqlTypeOK
<1>2. job[w].op \in Op /\ job[w].h \in Hash
  BY <1>1 DEF Commit, CallInv, JobInv, Job
<1>3. acked' \subseteq Op \X Hash
  BY <1>1, <1>2 DEF Commit
<1> QED
  BY <1>3, CallLeft DEF Commit

\* A statement that commits nothing: it touches its own call, and at most frees
\* its own locks or takes a free one.
LEMMA CallEffects ==
    ASSUME SqlInv, NEW w \in Worker, StepOf(w)
    PROVE  /\ [Next]_vars
           /\ CallTypes' /\ OthersAlone(w) /\ CallInv(w)'
           /\ acked' \subseteq Op \X Hash
           /\ clock' = clock
           /\ \/ UNCHANGED vars
              \/ /\ pc[w] \in Inside
                 /\ \A g \in Hash : g \notin Siblings(job[w].h) => rows'[g] = rows[g]
                 /\ \A a \in audited' : a \in audited \/ a[1] = job[w].h
<1>1. TypeOK /\ CallTypes /\ CallInv(w) /\ acked \subseteq Op \X Hash
  BY TypesAreCallTypes DEF SqlInv
<1>2. CASE CallsOf(w)
  <2>1. /\ CallTypes' /\ OthersAlone(w)
        /\ pc[w] = "idle" /\ pc'[w] \in {"lock", "find"} /\ view'[w] = view[w]
        /\ UNCHANGED <<vars, acked>>
        /\ JobInv(w)'
    BY <1>1, <1>2, CallsMade
  <2>2. CallInv(w)'
    BY <1>1, <2>1 DEF CallInv, LockInv, ViewInv, DraftInv, Inside
  <2> QED
    BY <1>1, <2>1, <2>2 DEF vars
<1>3. CASE \E answered \in BOOLEAN : Commit(w, answered)
  <2>1. PICK answered \in BOOLEAN : Commit(w, answered)
    BY <1>3
  <2>2. pc[w] \in Inside /\ clock' = clock
    BY <2>1 DEF Commit, Inside
  <2>3. /\ [Next]_vars
        /\ \A g \in Hash : g \notin Siblings(job[w].h) => rows'[g] = rows[g]
        /\ \A a \in audited' : a \in audited \/ a[1] = job[w].h
    BY <2>1, CommitIsStep
  <2>4. CallTypes' /\ OthersAlone(w) /\ CallInv(w)' /\ acked' \subseteq Op \X Hash
    BY <2>1, CommitEffect
  <2> QED
    BY <2>2, <2>3, <2>4
<1>4. CASE Find(w) \/ Read(w) \/ Write(w) \/ Fulfill(w) \/ TakeLock(w) \/ Abort(w)
  <2>1. UNCHANGED <<vars, acked>>
    BY <1>4 DEF Find, Read, Write, Fulfill, TakeLock, Abort
  <2>2. CallTypes' /\ OthersAlone(w) /\ CallInv(w)'
    BY <1>4, FindEffect, ReadEffect, WriteEffect, FulfillEffect, TakeLockEffect, CallLeft
       DEF Abort
  <2> QED
    BY <1>1, <2>1, <2>2 DEF vars
<1> QED
  BY <1>2, <1>3, <1>4 DEF StepOf, Advance

\* Every step of the transactions is one step of the ledger, or changes no
\* table, and leaves every call as SqlInv describes it.
LEMMA SqlInvStep ==
    ASSUME SqlInv, [SqlNext]_sqlVars
    PROVE  [Next]_vars /\ SqlInv'
<1>1. /\ TypeOK /\ CallTypes /\ ClosedLate /\ acked \subseteq Op \X Hash
      /\ \A v \in Worker : CallInv(v)
  BY TypesAreCallTypes DEF SqlInv
<1>2. ASSUME NEW w \in Worker, StepOf(w)
      PROVE  [Next]_vars /\ SqlInv'
  <2>1. /\ [Next]_vars
        /\ CallTypes' /\ OthersAlone(w) /\ CallInv(w)'
        /\ acked' \subseteq Op \X Hash
        /\ clock' = clock
        /\ \/ UNCHANGED vars
           \/ /\ pc[w] \in Inside
              /\ \A g \in Hash : g \notin Siblings(job[w].h) => rows'[g] = rows[g]
              /\ \A a \in audited' : a \in audited \/ a[1] = job[w].h
    BY <1>2, CallEffects
  <2>2. TypeOK' /\ ClosedLate'
    BY <1>1, <2>1, TypeStep, ClosedLateStep
  <2>3. ASSUME NEW v \in Worker, v # w
        PROVE  CallInv(v)'
    <3>1. /\ pc'[v] = pc[v] /\ job'[v] = job[v] /\ view'[v] = view[v]
          /\ draft'[v] = draft[v] /\ also'[v] = also[v]
      BY <2>1, <2>3 DEF OthersAlone
    <3>2. clock <= clock'
      BY <1>1, <2>1 DEF TypeOK
    <3>3. ASSUME pc[v] \in Inside
          PROVE  /\ owner[LockFor(v)] = v => owner'[LockFor(v)] = v
                 /\ \A g \in Siblings(job[v].h) : rows'[g] = rows[g]
                 /\ \A s, u : <<job[v].h, s, u>> \in audited' => <<job[v].h, s, u>> \in audited
      <4>1. job[v].h \in Hash
        BY <1>1, <3>3 DEF CallInv, JobInv, Job, Inside
      <4>2. LockFor(v) \in Lock
        <5>1. Minted[job[v].h].ref \in Ref
          BY <4>1 DEF MintedAttempt
        <5> QED
          BY <5>1 DEF LockFor
      <4>3. owner[LockFor(v)] = v => owner'[LockFor(v)] = v
        BY <2>1, <2>3, <4>2 DEF OthersAlone
      <4>4. CASE UNCHANGED vars
        BY <4>3, <4>4 DEF vars
      <4>5. CASE /\ pc[w] \in Inside
                 /\ \A g \in Hash : g \notin Siblings(job[w].h) => rows'[g] = rows[g]
                 /\ \A a \in audited' : a \in audited \/ a[1] = job[w].h
        <5>1. \A g \in Siblings(job[v].h) : g \notin Siblings(job[w].h)
          BY <1>1, <2>3, <3>3, <4>5, DifferentOrders DEF CallInv
        <5>2. \A g \in Siblings(job[v].h) : rows'[g] = rows[g]
          BY <4>5, <5>1 DEF Siblings, HashesOf
        <5>3. job[w].h \in Hash
          BY <1>1, <4>5 DEF CallInv, JobInv, Job, Inside
        <5>4. job[v].h # job[w].h
          BY <4>1, <5>1, <5>3, OwnSibling
        <5>5. \A s, u : <<job[v].h, s, u>> \in audited' => <<job[v].h, s, u>> \in audited
          BY <4>5, <5>4
        <5> QED
          BY <4>3, <5>2, <5>5
      <4> QED
        BY <2>1, <4>4, <4>5
    <3> QED
      BY <1>1, <2>2, <3>1, <3>2, <3>3, CallStays
  <2>4. \A v \in Worker : CallInv(v)'
    BY <2>1, <2>3
  <2>5. SqlTypes'
    BY <2>1, <2>2 DEF SqlTypes, SqlTypeOK, CallTypes
  <2> QED
    BY <2>1, <2>2, <2>4, <2>5 DEF SqlInv
<1>3. CASE TimePasses \/ UNCHANGED sqlVars
  <2>1. /\ [Next]_vars
        /\ UNCHANGED <<callVars, rows, audited>>
    BY <1>3 DEF TimePasses, Next, Tick, sqlVars, vars
  <2>2. clock <= clock'
    BY <1>1, <1>3 DEF TimePasses, Tick, TypeOK, sqlVars, vars
  <2>3. TypeOK' /\ ClosedLate'
    BY <1>1, <2>1, TypeStep, ClosedLateStep
  <2>4. CallTypes' /\ acked' \subseteq Op \X Hash
    BY <1>1, <2>1 DEF CallTypes, callVars
  <2>5. ASSUME NEW v \in Worker
        PROVE  CallInv(v)'
    <3>1. /\ pc'[v] = pc[v] /\ job'[v] = job[v] /\ view'[v] = view[v]
          /\ draft'[v] = draft[v] /\ also'[v] = also[v]
          /\ owner' = owner /\ rows' = rows /\ audited' = audited
      BY <2>1 DEF callVars
    <3> QED
      BY <1>1, <2>2, <2>3, <3>1, CallStays
  <2>6. SqlTypes'
    BY <2>3, <2>4 DEF SqlTypes, SqlTypeOK, CallTypes
  <2> QED
    BY <2>1, <2>3, <2>5, <2>6 DEF SqlInv
<1> QED
  BY <1>2, <1>3, NextIsStep

LEMMA SqlInvariant == SqlSpec => []SqlInv
<1>1. SqlInit => SqlInv
  <2> SUFFICES ASSUME SqlInit
               PROVE  SqlInv
    OBVIOUS
  <2>1. TypeOK /\ ClosedLate
    BY LiveInit DEF SqlInit, LiveInv
  <2>2. SqlTypes
    BY <2>1 DEF SqlInit, SqlTypes, SqlTypeOK, Step
  <2>3. \A w \in Worker : pc[w] = "idle" /\ view[w] = <<>>
    BY DEF SqlInit
  <2>4. \A w \in Worker : CallInv(w)
    BY <2>3 DEF CallInv, JobInv, LockInv, ViewInv, DraftInv, Inside
  <2> QED
    BY <2>1, <2>2, <2>4 DEF SqlInv
<1>2. SqlInv /\ [SqlNext]_sqlVars => SqlInv'
  BY SqlInvStep
<1> QED
  BY <1>1, <1>2, PTL DEF SqlSpec

-----------------------------------------------------------------------------
\* The transactions of the SQL repository keep the types of their state.
THEOREM SqlTypeCorrect == SqlSpec => []SqlTypeOK
<1>1. SqlInv => SqlTypeOK
  BY DEF SqlInv, SqlTypes
<1> QED
  BY <1>1, SqlInvariant, PTL

\* Each transaction is one atomic operation of AttemptLedger, or changes nothing
\* (withAttemptLock and the statements inside it): on every dialect, for any
\* callers and any assignment of references to locks, whatever fails.
THEOREM SqlImplementsLedger == SqlSpec => ImplementsLedger
<1>1. SqlInit => Init
  BY DEF SqlInit
<1>2. SqlInv /\ [SqlNext]_sqlVars => [Next]_vars
  BY SqlInvStep
<1> QED
  BY <1>1, <1>2, SqlInvariant, PTL DEF SqlSpec, Spec, ImplementsLedger

\* What a transaction decides from is still the committed state of its reference
\* when it writes and when it commits (lockReference before rowsForReference, and
\* on MySQL no read of the transaction before the lock).
THEOREM DecisionsAreCurrent == SqlSpec => []DecidesOnCurrentRows
<1>1. SqlInv => DecidesOnCurrentRows
  BY DEF SqlInv, CallInv, ViewInv, DecidesOnCurrentRows
<1> QED
  BY <1>1, SqlInvariant, PTL

-----------------------------------------------------------------------------
(***************************************************************************)
(* Answers stay true because the ledger never deletes a row and never      *)
(* takes back a fulfillment; they are true when given because a commit is  *)
(* one operation of the ledger.                                            *)
(***************************************************************************)
Holds(a) ==
    /\ rows[a[2]].status # "absent"
    /\ a[1] = "settle" => fulfilled[Minted[a[2]].ref] = <<a[2]>>

LEMMA AnsweredStep ==
    ASSUME [SqlNext]_sqlVars
    PROVE  \/ acked' = acked
           \/ \E w \in Worker :
                /\ Commit(w, TRUE) /\ TookEffect(w)
                /\ acked' = acked \cup {<<job[w].op, job[w].h>>}
<1>1. ASSUME NEW w \in Worker, StepOf(w)
      PROVE  \/ acked' = acked
             \/ /\ Commit(w, TRUE) /\ TookEffect(w)
                /\ acked' = acked \cup {<<job[w].op, job[w].h>>}
  <2>1. CASE CallsOf(w)
    BY <2>1 DEF CallsOf, CallCommit, CallSettle, CallReconcile, CallRequeue, Call
  <2>2. CASE Commit(w, TRUE)
    BY <2>2 DEF Commit
  <2>3. CASE Commit(w, FALSE)
    BY <2>3 DEF Commit
  <2>4. CASE Find(w) \/ Read(w) \/ Write(w) \/ Fulfill(w) \/ TakeLock(w) \/ Abort(w)
    BY <2>4 DEF Find, Read, Write, Fulfill, TakeLock, Abort
  <2> QED
    BY <1>1, <2>1, <2>2, <2>3, <2>4 DEF StepOf, Advance
<1>2. CASE TimePasses \/ UNCHANGED sqlVars
  BY <1>2 DEF TimePasses, callVars, sqlVars
<1> QED
  BY <1>1, <1>2, NextIsStep

\* The answer a commit gives is true of the state it leaves.
LEMMA AnswerHolds ==
    ASSUME SqlInv, SqlInv', FulfilledInv, NEW w \in Worker,
           Commit(w, TRUE), TookEffect(w), NEW a, a = <<job[w].op, job[w].h>>
    PROVE  Holds(a)'
<1> DEFINE h == job[w].h
<1>1. TypeOK /\ CallInv(w) /\ pc[w] = "commit"
  BY DEF SqlInv, SqlTypes, SqlTypeOK, Commit
<1>2. /\ h \in Hash /\ h \in Siblings(h)
      /\ rows' = [g \in Hash |-> Drafted(w, g)]
      /\ fulfilled' = FulfilledBy(h, also[w] = "onPaid")
  BY <1>1, OwnSibling DEF CallInv, JobInv, Job, Commit, Drafted
<1>3. rows'[h] = Drafted(w, h)
  BY <1>2
<1>4. job[w].op = "commit" \/ also[w] = "onPaid"
  BY DEF TookEffect
<1>a. a[1] = job[w].op /\ a[2] = h
  OBVIOUS
<1>5. CASE NoDraft(w)
  BY <1>a, <1>2, <1>3, <1>4, <1>5 DEF NoDraft, Drafted, Holds
<1>6. CASE CommitDraft(w)
  <2> DEFINE old == Superseded(rows, h, job[w].at)
  <2>1. Drafted(w, h) = WithCommitted(rows, h, old, job[w].at)[h] /\ job[w].op = "commit"
    BY <1>2, <1>6 DEF CommitDraft
  <2>2. WithCommitted(rows, h, old, job[w].at)[h].status = "pending"
    BY <1>2 DEF WithCommitted
  <2> QED
    BY <1>a, <1>3, <2>1, <2>2 DEF Holds
<1>7. CASE SettleDraft(w)
  <2> DEFINE first == SettledSiblings(rows, h) = {}
  <2>1. PICK now \in 0..clock : Drafted(w, h) = WithSettled(rows, h, first, now)[h]
    BY <1>2, <1>7 DEF SettleDraft
  <2>2. first /\ also[w] = "onPaid"
    BY <1>1, <1>4, <1>7 DEF SettleDraft
  <2>3. rows'[h].status = "settled"
    BY <1>1, <1>2, <1>3, <2>1 DEF WithSettled, TypeOK
  <2>4. Minted[h].ref \in Ref
    BY <1>2 DEF MintedAttempt
  <2>5. OrderConsistent(Minted[h].ref)
    BY <1>1, <2>4, ConsistentIsFulfilledInv DEF OrdersConsistent
  <2>6. fulfilled[Minted[h].ref] = <<>>
    BY <2>2, <2>5 DEF OrderConsistent, SettledSiblings, Siblings
  <2>7. fulfilled'[Minted[h].ref] = <<h>>
    BY <1>1, <1>2, <2>2, <2>4, <2>6 DEF FulfilledBy, TypeOK
  <2> QED
    BY <1>a, <2>3, <2>7 DEF Holds
<1>8. CASE ReconcileDraft(w) \/ RequeueDraft(w)
  BY <1>1, <1>4, <1>8 DEF ReconcileDraft, RequeueDraft
<1> QED
  BY <1>1, <1>5, <1>6, <1>7, <1>8 DEF CallInv, DraftInv

LEMMA AnswersStep ==
    ASSUME SqlInv, SqlInv', FulfilledInv, AnswersAreTrue, [SqlNext]_sqlVars
    PROVE  AnswersAreTrue'
<1>1. TypeOK /\ acked \subseteq Op \X Hash /\ [Next]_vars
  BY SqlInvStep DEF SqlInv, SqlTypes, SqlTypeOK
<1>2. ASSUME NEW a \in acked
      PROVE  Holds(a)'
  <2>1. a[2] \in Hash /\ Minted[a[2]].ref \in Ref /\ Holds(a)
    BY <1>1 DEF AnswersAreTrue, Holds, MintedAttempt
  <2>2. rows'[a[2]].status # "absent"
    BY <1>1, <2>1, RowsStay DEF Holds
  <2>3. a[1] = "settle" => fulfilled'[Minted[a[2]].ref] = fulfilled[Minted[a[2]].ref]
    <3>1. PaymentsKept
      BY <1>1, PaymentsKeptStep
    <3>2. a[1] = "settle" => fulfilled[Minted[a[2]].ref] # <<>>
      BY <2>1 DEF Holds
    <3> QED
      BY <2>1, <3>1, <3>2 DEF PaymentsKept
  <2>4. (a[1] = "settle" => fulfilled[Minted[a[2]].ref] = <<a[2]>>)'
    BY <2>1, <2>3 DEF Holds
  <2>5. (rows[a[2]].status # "absent")'
    BY <2>2
  <2> QED
    BY <2>4, <2>5 DEF Holds
<1>3. \A a \in acked' : Holds(a)'
  BY <1>2, AnsweredStep, AnswerHolds
<1> QED
  BY <1>3 DEF AnswersAreTrue, Holds

\* A caller that was told yes can rely on it for ever (commitAttempt's return,
\* markPaidOnce's answer that this payment is the first), whatever other
\* transactions, failures and lost answers follow.
THEOREM AnswersStayTrue == SqlSpec => []AnswersAreTrue
<1>1. SqlInit => AnswersAreTrue
  BY DEF SqlInit, AnswersAreTrue
<1>2. SqlInv /\ SqlInv' /\ FulfilledInv /\ AnswersAreTrue /\ [SqlNext]_sqlVars => AnswersAreTrue'
  BY AnswersStep
<1>3. SqlSpec => Spec
  BY SqlImplementsLedger DEF ImplementsLedger
<1> QED
  BY <1>1, <1>2, <1>3, SqlInvariant, FulfilledInvariant, PTL DEF SqlSpec

\* What is proved of the ledger holds of its transactions: an order is fulfilled
\* once, and offers one live attempt per rail (AttemptLedger's theorems).
COROLLARY SqlKeepsTheLedgersPromises ==
    SqlSpec => [](FulfilledOnce /\ OneLiveOffer) /\ SettledIsFinal
<1>1. SqlSpec => Spec
  BY SqlImplementsLedger DEF ImplementsLedger
<1> QED
  BY <1>1, FulfilsOnce, OffersOneAttempt, SettledStaysSettled, PTL
=============================================================================
