------------------------------ MODULE WalletMemo ------------------------------
(***************************************************************************)
(* ScanMemo of the BTCPay plugin: what one process remembers of a wallet,  *)
(* which hashes it watches, and the walks that look for them; with         *)
(* GetInvoice, which asks it, and a listener, which carries what it sees   *)
(* settled to BTCPay.  Callers share a walk or queue one behind it, and    *)
(* hashes are watched, rows recorded and invoices paid between any two of  *)
(* its requests.                                                           *)
(*                                                                         *)
(* Paging is PaymentScan's subject (WalletScan is its C# twin), so a view  *)
(* is read at one moment here: it reports a set of hashes and whether it   *)
(* was cut short.  Time is the set of hashes whose expiry plus grace has   *)
(* passed, and the cadence having run out or not.                          *)
(***************************************************************************)
EXTENDS Naturals, FiniteSets

CONSTANTS
    Hash,       \* payment hashes
    Dated,      \* those whose rows say when the invoice was created
    Recent,     \* those created within the fallback window
    Stored,     \* those with a row in openreceive_invoices
    Asked,      \* those BTCPay asks GetInvoice about
    Callers,    \* who asks for refreshes
    CanLookUp,  \* the wallet grants lookup_invoice
    CutsShort,  \* the wallet may cut a view short (ignored offset, page cap)
    Forgets,    \* rows may age out between walks
    MaxFailures, MaxRestarts  \* bounds

WalletMemoAssumption ==
    /\ Dated \subseteq Hash /\ Recent \subseteq Hash
    /\ Stored \subseteq Hash /\ Asked \subseteq Hash
    /\ CanLookUp \in BOOLEAN /\ CutsShort \in BOOLEAN /\ Forgets \in BOOLEAN
    /\ MaxFailures \in Nat /\ MaxRestarts \in Nat

VARIABLES
    wallet,     \* the wallet's row of each hash
    past,       \* hashes whose expiry plus grace has passed
    rows,       \* _rows: the memo's row of each hash
    watched,    \* _watched
    deepWalked, \* those watched that had their unbounded walk (DeepWalked)
    announced,  \* _settledAnnounced
    queue,      \* _newlySettled
    touched,    \* rows written since the running walk began (_touched)
    walk,       \* the running walk
    waiting,    \* walks queued behind it
    fresh,      \* the last walk is younger than the cadence (_walkedAt)
    cursor,     \* _deep
    complete,   \* _complete
    covered,    \* hashes already past when the last refresh finished (_refreshedAt)
    call,       \* where each caller's refresh stands
    ask,        \* the GetInvoice being served
    channel,    \* the listener's channel
    host,       \* what BTCPay believes of each invoice
    failures, restarts

memo == <<rows, watched, deepWalked, announced, queue, touched>>

walking == <<walk, waiting, fresh, cursor, complete, covered, failures>>

world == <<wallet, past, restarts>>

memoVars == <<wallet, past, memo, walking, call, ask, channel, host, restarts>>

Status == {"none", "pending", "settled", "expired"}

NoWalk == [at |-> "none"]

(* `skips` is the wallet's side of `resumed`: rows may have moved past it. *)
NoCursor == [hashes |-> {}, seen |-> {}, unpaid |-> FALSE, moved |-> FALSE,
             resumed |-> FALSE, skips |-> FALSE]

NoCall == [at |-> "idle", behind |-> 0]

NoAsk == [at |-> "idle"]

Terminal(h) == rows[h] \in {"settled", "expired"}

UnknownAge(h) == rows[h] = "none" \/ (h \notin Dated /\ rows[h] = "pending")

(* The walks a caller that joins now would wait for. *)

Outstanding == waiting + IF walk = NoWalk THEN 0 ELSE 1

Resting == walk = NoWalk /\ waiting = 0

MemoTypeOK ==
    /\ wallet \in [Hash -> Status] /\ rows \in [Hash -> Status]
    /\ past \subseteq Hash /\ watched \subseteq Hash /\ deepWalked \subseteq watched
    /\ queue \cup channel \subseteq Hash /\ announced \subseteq Hash
    /\ walk.at \in {"none", "ask", "settled", "unpaid", "learn", "lookup",
                    "deep settled", "deep unpaid", "judge", "finish"}
    /\ cursor.seen \subseteq Hash /\ cursor.hashes \subseteq Hash
    /\ fresh \in BOOLEAN /\ complete \in BOOLEAN /\ covered \subseteq past
    /\ waiting <= Cardinality(Callers) + MaxRestarts
    /\ \A c \in Callers :
        /\ call[c].at \in {"idle", "waits", "fresh", "ok", "failed"}
        /\ call[c].behind <= Outstanding
        /\ (call[c].at = "waits") = (call[c].behind > 0)
    /\ ask \in {NoAsk} \cup [at : {"watched", "refreshing", "forcing"}, hash : Asked]
    /\ host \in [Hash -> {"unpaid", "paid", "dropped"}]

MemoInit ==
    /\ wallet \in [Hash -> {"none", "pending"}]
    /\ \A h \in Stored : wallet[h] = "pending"
    /\ past = {}
    /\ rows = [h \in Hash |-> "none"]
    /\ watched = {} /\ deepWalked = {} /\ announced = {} /\ queue = {} /\ touched = {}
    /\ walk = NoWalk /\ waiting = 0 /\ fresh = FALSE
    /\ cursor = NoCursor /\ complete = TRUE /\ covered = {}
    /\ call = [c \in Callers |-> NoCall]
    /\ ask = NoAsk /\ channel = {}
    /\ host = [h \in Hash |-> "unpaid"]
    /\ failures = 0 /\ restarts = 0

-----------------------------------------------------------------------------
(* Upsert, for the rows of `found`: a settled fact is final, and a hash    *)
(* that is watched when it is seen settled is announced.                   *)

Upserted(found) ==
    [h \in Hash |-> IF h \in DOMAIN found /\ rows[h] # "settled"
                    THEN found[h] ELSE rows[h]]

News(found) ==
    {h \in DOMAIN found \ announced : found[h] = "settled" /\ h \in watched}

Upsert(found) ==
    /\ rows' = Upserted(found)
    /\ announced' = announced \cup News(found)
    /\ queue' = queue \cup News(found)
    /\ touched' = touched \cup DOMAIN found
    /\ UNCHANGED deepWalked

Seen(hashes) == [h \in hashes |-> wallet[h]]

-----------------------------------------------------------------------------
(* A walk begins; the single-hash path is asked about hashes of unknown    *)
(* age first.                                                              *)

Begin ==
    [at |-> "ask", past |-> past, old |-> watched,
     todo |-> IF CanLookUp THEN {h \in watched : UnknownAge(h)} ELSE {},
     looked |-> {}, absent |-> {}, expected |-> {}, known |-> {}, deep |-> {},
     got |-> Seen({}), missing |-> {}, cut |-> FALSE, targets |-> {},
     deepCut |-> FALSE]

(* RefreshAsync: the caller shares the running walk and its queue, queues  *)
(* its own behind them when forced, starts one, or finds the memo fresh.   *)

Share(c, force) ==
    LET more == IF force THEN 1 ELSE 0
    IN /\ ~Resting
       /\ waiting' = waiting + more
       /\ call' = [call EXCEPT ![c] = [at |-> "waits", behind |-> Outstanding + more]]
       /\ UNCHANGED <<memo, walk>>

Start(c, force) ==
    /\ Resting
    /\ force \/ ~fresh
    /\ walk' = Begin
    /\ call' = [call EXCEPT ![c] = [at |-> "waits", behind |-> 1]]
    /\ touched' = {}
    /\ UNCHANGED <<rows, watched, deepWalked, announced, queue, waiting>>

FindFresh(c, force) ==
    /\ Resting
    /\ fresh /\ ~force
    /\ call' = [call EXCEPT ![c] = [at |-> "fresh", behind |-> 0]]
    /\ UNCHANGED <<memo, walk, waiting>>

Refresh(c, force) ==
    /\ Share(c, force) \/ Start(c, force) \/ FindFresh(c, force)
    /\ UNCHANGED <<world, fresh, cursor, complete, covered, failures>>

StartQueued ==
    /\ walk = NoWalk /\ waiting > 0
    /\ walk' = Begin
    /\ waiting' = waiting - 1
    /\ touched' = {}
    /\ UNCHANGED <<world, rows, watched, deepWalked, announced, queue, fresh, cursor,
                   complete, covered, failures, call, ask, channel, host>>

(* The walk ends for whoever waited for it. *)
Ended(result) ==
    [c \in Callers |->
        IF call[c].at # "waits" THEN call[c]
        ELSE IF call[c].behind = 1 THEN [at |-> result, behind |-> 0]
        ELSE [call[c] EXCEPT !.behind = @ - 1]]

-----------------------------------------------------------------------------
(* The single-hash path, before the views for hashes of unknown age and    *)
(* after them for whatever they did not reach.                             *)

LookUp(h) ==
    /\ walk.at \in {"ask", "lookup"} /\ h \in walk.todo
    /\ \/ /\ wallet[h] # "none"
          /\ Upsert(Seen({h}))
          /\ walk' = [walk EXCEPT !.todo = @ \ {h}, !.looked = @ \cup {h},
                                  !.missing = @ \ {h}]
       \/ /\ wallet[h] = "none"
          /\ walk' = [walk EXCEPT !.todo = @ \ {h}, !.looked = @ \cup {h},
                                  !.missing = @ \ {h}, !.absent = @ \cup {h}]
          /\ UNCHANGED memo
       \/ /\ walk' = [walk EXCEPT !.todo = {}]
          /\ UNCHANGED memo
    /\ UNCHANGED <<world, watched, waiting, fresh, cursor, complete, covered,
                   failures, call, ask, channel, host>>

Expect ==
    LET expected == {h \in watched \ walk.absent : ~Terminal(h)}
        unknown == {h \in expected : UnknownAge(h)}
    IN /\ walk.at = "ask" /\ walk.todo = {}
       /\ walk' = [walk EXCEPT
            !.at = IF expected = {} THEN "finish" ELSE "settled",
            !.expected = expected,
            !.known = expected \ unknown,
            !.deep = unknown \ (deepWalked \cup walk.looked)]
       /\ UNCHANGED <<world, memo, waiting, fresh, cursor, complete, covered,
                      failures, call, ask, channel, host>>

-----------------------------------------------------------------------------
(* The bounded walk.  Its window begins at the oldest known creation time, *)
(* or at the fallback window when nothing watched has one.                 *)

InWindow == IF walk.known # {} THEN walk.known ELSE Recent

(* What a view that is meant to show `listed` may report of `asked`. *)
View(asked, listed, seen, cut) ==
    /\ seen \subseteq asked \cap listed
    /\ cut => CutsShort /\ seen # asked
    /\ ~cut => asked \cap listed \cap InWindow \subseteq seen

Settled == {h \in Hash : wallet[h] = "settled"}

Listed == {h \in Hash : wallet[h] # "none"}

SettledView ==
    /\ walk.at = "settled"
    /\ \E seen \in SUBSET walk.expected, cut \in BOOLEAN :
        /\ View(walk.expected, Settled, seen, cut)
        /\ walk' = [walk EXCEPT
             !.at = IF seen = walk.expected THEN "learn" ELSE "unpaid",
             !.got = Seen(seen),
             !.missing = walk.expected \ seen,
             !.cut = cut]
    /\ UNCHANGED <<world, memo, waiting, fresh, cursor, complete, covered, failures,
                   call, ask, channel, host>>

(* The rows of both views: what the first one reported is not read again. *)
Learnt(seen) ==
    [h \in DOMAIN walk.got \cup seen |->
        IF h \in DOMAIN walk.got THEN walk.got[h] ELSE wallet[h]]

UnpaidView ==
    /\ walk.at = "unpaid"
    /\ \E seen \in SUBSET walk.missing, cut \in BOOLEAN :
        /\ View(walk.missing, Listed, seen, cut)
        /\ walk' = [walk EXCEPT
             !.at = "learn",
             !.got = Learnt(seen),
             !.missing = @ \ seen,
             !.cut = @ \/ cut]
    /\ UNCHANGED <<world, memo, waiting, fresh, cursor, complete, covered, failures,
                   call, ask, channel, host>>

LearnViews ==
    /\ walk.at = "learn"
    /\ Upsert(walk.got)
    /\ walk' = [walk EXCEPT
         !.at = "lookup",
         !.got = Seen({}),
         !.todo = IF CanLookUp THEN walk.missing \ walk.looked ELSE {}]
    /\ UNCHANGED <<world, watched, waiting, fresh, cursor, complete, covered,
                   failures, call, ask, channel, host>>

-----------------------------------------------------------------------------
(* The unbounded walk for hashes of unknown age, and its cursor.  A cursor *)
(* whose hashes all turned up is spent; one with work left is resumed.     *)

Carried(saved) ==
    [saved EXCEPT !.resumed = @ \/ saved.moved \/ saved.unpaid]

NextCursor(missing, deep) ==
    IF cursor.hashes \cap missing # {}
    THEN [Carried(cursor) EXCEPT !.skips = @ \/ cursor.moved \/ cursor.unpaid]
    ELSE [NoCursor EXCEPT !.hashes = deep]

TakeCursor ==
    LET deep == walk.deep \cap walk.missing
        next == NextCursor(walk.missing, deep)
        targets == (next.hashes \cap walk.missing) \ next.seen
    IN /\ walk.at = "lookup" /\ walk.todo = {}
       /\ cursor' = next
       /\ walk' = [walk EXCEPT
            !.at = IF next = NoCursor THEN "finish"
                   ELSE IF targets = {} THEN "judge"
                   ELSE IF next.unpaid THEN "deep unpaid" ELSE "deep settled",
            !.deep = deep,
            !.targets = targets]
       /\ UNCHANGED <<world, memo, waiting, fresh, complete, covered, failures,
                      call, ask, channel, host>>

DeepListed == IF walk.at = "deep settled" THEN Settled ELSE Listed

(* A page is answered and kept; from the second one on the cursor moves. *)
DeepPage ==
    /\ walk.at \in {"deep settled", "deep unpaid"}
    /\ \E seen \in SUBSET (walk.targets \cap DeepListed), moved \in {cursor.moved, TRUE} :
        /\ seen # walk.targets
        /\ seen \ cursor.seen # {} \/ moved # cursor.moved
        /\ Upsert(Seen(seen))
        /\ cursor' = [cursor EXCEPT !.seen = @ \cup seen, !.moved = moved]
    /\ UNCHANGED <<world, watched, walk, waiting, fresh, complete, covered, failures,
                   call, ask, channel, host>>

(* The view ends: a resumed one may have skipped rows, an uninterrupted    *)
(* one that was not cut short has not.                                     *)
DeepEnd ==
    /\ walk.at \in {"deep settled", "deep unpaid"}
    /\ \E seen \in SUBSET (walk.targets \cap DeepListed), cut \in BOOLEAN :
        LET left == walk.targets \ (cursor.seen \cup seen)
        IN /\ cut => CutsShort /\ left # {}
           /\ ~cut /\ ~cursor.skips => left \cap DeepListed = {}
           /\ Upsert(Seen(seen))
           /\ cursor' = [cursor EXCEPT !.seen = @ \cup seen, !.unpaid = TRUE,
                                       !.moved = FALSE]
           /\ walk' = [walk EXCEPT
                !.at = IF walk.at = "deep settled" /\ left # {}
                       THEN "deep unpaid" ELSE "judge",
                !.targets = left,
                !.deepCut = @ \/ cut]
    /\ UNCHANGED <<world, watched, waiting, fresh, complete, covered, failures,
                   call, ask, channel, host>>

(* Absent only by one uninterrupted walk; a hash it did not find otherwise *)
(* stays unreached, like one that joined after the cursor was taken.       *)

(* MUTANT: a walk resumed from a cursor proves an absence. *)
MutantProven == ~walk.deepCut

Proven == ~walk.deepCut /\ ~cursor.resumed

Judge ==
    LET unproven == IF Proven THEN {} ELSE walk.targets
    IN /\ walk.at = "judge"
       /\ deepWalked' = deepWalked \cup ((cursor.hashes \ unproven) \cap watched)
       /\ walk' = [walk EXCEPT
            !.at = "finish",
            !.missing = (@ \ cursor.hashes) \cup unproven,
            !.absent = @ \cup (walk.targets \ unproven),
            !.cut = @ \/ walk.deepCut \/ unproven # {} \/ ~(walk.deep \subseteq cursor.hashes)]
       /\ cursor' = NoCursor
       /\ UNCHANGED <<world, rows, watched, announced, queue, touched, waiting, fresh,
                      complete, covered, failures, call, ask, channel, host>>

-----------------------------------------------------------------------------
(* Prune.  A pending row leaves only after a walk that was not cut short   *)
(* and began when the row's expiry plus grace had passed.                  *)

MutantDecided(h) == rows[h] # "none" /\ (Terminal(h) \/ (~walk.cut /\ h \in past))

Decided(h) == rows[h] # "none" /\ (Terminal(h) \/ (~walk.cut /\ h \in walk.past))

Pruned(aged) ==
    {h \in watched :
        \/ Decided(h)
        \/ rows[h] = "none" /\ (h \in walk.absent \/ (~walk.cut /\ h \in aged))}

Finish ==
    /\ walk.at = "finish"
    /\ \E aged \in SUBSET (IF Forgets THEN walk.old \cap walk.past ELSE {}) :
        /\ watched' = watched \ Pruned(aged)
        /\ deepWalked' = deepWalked \cap watched'
    /\ \E forgotten \in SUBSET (IF Forgets THEN Hash \ (watched' \cup touched) ELSE {}) :
        /\ rows' = [h \in Hash |-> IF h \in forgotten THEN "none" ELSE rows[h]]
        /\ announced' = announced \ forgotten
    /\ complete' = (~walk.cut \/ walk.missing = {})
    /\ covered' = past
    /\ walk' = NoWalk
    /\ fresh' = TRUE
    /\ touched' = {}
    /\ call' = Ended("ok")
    /\ UNCHANGED <<world, queue, waiting, cursor, failures, ask, channel, host>>

(* A request of the walk fails: the cadence is spent, the cursor stays. *)
RequestFails ==
    /\ walk.at \in {"settled", "unpaid", "deep settled", "deep unpaid"}
        \/ (walk.at \in {"ask", "lookup"} /\ walk.todo # {})
    /\ failures < MaxFailures
    /\ failures' = failures + 1
    /\ walk' = NoWalk
    /\ fresh' = TRUE
    /\ touched' = {}
    /\ call' = Ended("failed")
    /\ UNCHANGED <<world, rows, watched, deepWalked, announced, queue, waiting, cursor,
                   complete, covered, ask, channel, host>>

-----------------------------------------------------------------------------
(* RestoreAsync and Watch: the stored row comes back as a pending one, and *)
(* a hash whose row is terminal is not watched again.                      *)

RestoreAndWatch(h) ==
    LET restored == [g \in {h} \cap {g \in Stored : rows[g] = "none"} |-> "pending"]
    IN /\ rows' = Upserted(restored)
       /\ touched' = touched \cup DOMAIN restored
       /\ watched' = watched \cup {g \in {h} : ~Terminal(h)}
       /\ UNCHANGED <<deepWalked, announced, queue>>

(* GetInvoiceByHash. *)

GetInvoice(h) ==
    /\ "ask" \in Callers /\ ask = NoAsk
    /\ host[h] = "unpaid"
    /\ RestoreAndWatch(h)
    /\ ask' = [at |-> "watched", hash |-> h]
    /\ UNCHANGED <<world, walking, call, channel, host>>

AskRefreshes ==
    /\ \/ ask.at = "watched" /\ Refresh("ask", FALSE)
          /\ ask' = [ask EXCEPT !.at = "refreshing"]
       \/ /\ ask.at = "refreshing" /\ call["ask"].at = "fresh"
          /\ rows[ask.hash] = "none"
          /\ Refresh("ask", TRUE)
          /\ ask' = [ask EXCEPT !.at = "forcing"]
    /\ UNCHANGED <<channel, host>>

(* What BTCPay makes of the answer: an expired invoice it stops asking about. *)
Heard(h) ==
    CASE rows[h] = "settled" -> "paid"
      [] rows[h] = "expired" -> "dropped"
      [] OTHER -> host[h]

AskAnswers ==
    /\ ask # NoAsk
    /\ \/ /\ call["ask"].at = "failed"
          /\ UNCHANGED host
       \/ /\ \/ call["ask"].at = "ok"
             \/ call["ask"].at = "fresh" /\ rows[ask.hash] # "none"
          /\ host' = [host EXCEPT ![ask.hash] = IF @ = "paid" THEN @ ELSE Heard(ask.hash)]
    /\ call' = [call EXCEPT !["ask"] = NoCall]
    /\ ask' = NoAsk
    /\ UNCHANGED <<world, memo, walking, channel>>

-----------------------------------------------------------------------------
(* The listener: periodic sweeps (forced ones for a push that says too     *)
(* little), pushes that carry the settlement, and its channel.             *)

Sweep ==
    /\ "sweep" \in Callers /\ call["sweep"].at = "idle"
    /\ \E force \in BOOLEAN : Refresh("sweep", force)
    /\ UNCHANGED <<ask, channel, host>>

Emit ==
    /\ "sweep" \in Callers /\ call["sweep"].at \in {"ok", "fresh", "failed"}
    /\ IF call["sweep"].at = "failed"
       THEN UNCHANGED <<queue, channel>>
       ELSE /\ channel' = channel \cup queue
            /\ queue' = {}
    /\ call' = [call EXCEPT !["sweep"] = NoCall]
    /\ UNCHANGED <<world, rows, watched, deepWalked, announced, touched, walking, ask, host>>

Push(h) ==
    LET found == Seen({h})
    IN /\ "sweep" \in Callers /\ wallet[h] = "settled" /\ rows[h] # "settled"
       /\ rows' = Upserted(found)
       /\ announced' = announced \cup News(found)
       /\ touched' = touched \cup {h}
       /\ channel' = channel \cup queue \cup News(found)
       /\ queue' = {}
       /\ UNCHANGED <<world, watched, deepWalked, walking, call, ask, host>>

Receive(h) ==
    /\ h \in channel
    /\ channel' = channel \ {h}
    /\ host' = [host EXCEPT ![h] = "paid"]
    /\ UNCHANGED <<world, memo, walking, call, ask>>

-----------------------------------------------------------------------------
(* The wallet, time, and the process. *)

(* No invoice is paid once its expiry and grace have passed. *)
Pays(h) ==
    /\ wallet[h] = "pending" /\ h \notin past
    /\ wallet' = [wallet EXCEPT ![h] = "settled"]
    /\ UNCHANGED <<past, restarts, memo, walking, call, ask, channel, host>>

Lapses(h) ==
    /\ wallet[h] = "pending"
    /\ wallet' = [wallet EXCEPT ![h] = "expired"]
    /\ UNCHANGED <<past, restarts, memo, walking, call, ask, channel, host>>

GraceEnds(h) ==
    /\ h \notin past
    /\ past' = past \cup {h}
    /\ UNCHANGED <<wallet, restarts, memo, walking, call, ask, channel, host>>

CadenceRunsOut ==
    /\ fresh
    /\ fresh' = FALSE
    /\ UNCHANGED <<world, memo, walk, waiting, cursor, complete, covered, failures,
                   call, ask, channel, host>>

(* The process dies, or only the listener's session does. *)
MemoIsLost ==
    /\ rows' = [h \in Hash |-> "none"]
    /\ watched' = {} /\ deepWalked' = {} /\ announced' = {} /\ queue' = {}
    /\ touched' = {} /\ walk' = NoWalk /\ waiting' = 0 /\ fresh' = FALSE
    /\ cursor' = NoCursor /\ complete' = TRUE /\ covered' = {}
    /\ call' = [c \in Callers |-> NoCall]
    /\ ask' = NoAsk /\ channel' = {}

Restart ==
    /\ restarts < MaxRestarts
    /\ restarts' = restarts + 1
    /\ MemoIsLost
    /\ UNCHANGED <<wallet, past, failures, host>>

ListenerEnds ==
    /\ "sweep" \in Callers /\ restarts < MaxRestarts
    /\ restarts' = restarts + 1
    /\ channel' = {}
    /\ call' = [call EXCEPT !["sweep"] = NoCall]
    /\ UNCHANGED <<wallet, past, memo, walking, ask, host>>

WalkStep ==
    \/ StartQueued \/ Expect \/ SettledView \/ UnpaidView \/ LearnViews
    \/ TakeCursor \/ DeepEnd \/ Judge \/ Finish
    \/ \E h \in Hash : LookUp(h)

MemoStep ==
    \/ WalkStep \/ DeepPage \/ RequestFails
    \/ AskRefreshes \/ AskAnswers \/ Sweep \/ Emit
    \/ CadenceRunsOut \/ ListenerEnds
    \/ \E h \in Asked : GetInvoice(h)
    \/ \E h \in Hash : Push(h) \/ Receive(h) \/ Pays(h) \/ Lapses(h) \/ GraceEnds(h)

MemoNext == MemoStep \/ Restart

MemoSpec == MemoInit /\ [][MemoNext]_memoVars

-----------------------------------------------------------------------------
(* A walk gives up a hash the wallet has settled only when the memo knows  *)
(* it settled: one it decided, for its grace was over, it looked for, and  *)
(* one without a row it proved absent.  Exempt is a minted hash that was   *)
(* watched only after the walk had fixed what it looks for (ScanMemo,      *)
(* Prune reads _watched and _rows as they are when the walk ends).         *)
LookedFor == walk.old \cup walk.expected

DropsUnpaid ==
    walk # NoWalk /\ walk' = NoWalk /\ restarts' = restarts =>
        \A h \in watched \ watched' :
            wallet[h] = "settled" =>
                \/ rows[h] = "settled"
                \/ rows[h] = "pending" /\ h \notin LookedFor

DroppedIsUnpaid == [][DropsUnpaid]_memoVars

=============================================================================
