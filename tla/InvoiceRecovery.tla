---------------------------- MODULE InvoiceRecovery ----------------------------
(***************************************************************************)
(* HistoricalInvoiceRecovery of the BTCPay plugin, with the memo it asks:  *)
(* a pass restores and watches every minted invoice that is due, refreshes *)
(* the memo once, and then delivers, closes or leaves each of them.  Rows, *)
(* checkpoints and the host's payments survive a crash; the memo, the pass *)
(* and the events it published do not.  An advisory lock keeps passes one  *)
(* at a time; the other callers of the memo take no part in it.            *)
(***************************************************************************)
EXTENDS WalletMemo

VARIABLES
    durable,    \* the recovery state of each row in openreceive_invoices
    checkpoint, \* rows whose host_update_required is stored
    later,      \* rows whose next_recovery_at has not come
    events,     \* InvoiceNeedUpdateEvents published and not yet served
    accounted,  \* invoices BTCPay recalculated with their payment
    pass,       \* the pass that runs
    strays      \* history: hashes last dropped by a walk that never looked for them

recovery == <<durable, checkpoint, later, events, accounted, pass>>

recoveryVars == <<memoVars, recovery, strays>>

NoPass == [at |-> "none"]

Due == {h \in Stored : durable[h] = "open"} \ later

RecoveryTypeOK ==
    /\ durable \in [Stored -> {"open", "terminal", "unpaid"}]
    /\ checkpoint \subseteq Stored /\ later \subseteq Stored
    /\ events \subseteq checkpoint /\ accounted \subseteq checkpoint
    /\ pass.at \in {"none", "restore", "refresh", "judge", "close", "unwatched",
                    "covered", "checkpoint", "pay", "confirm"}
    /\ strays \subseteq Stored
    /\ pass # NoPass => pass.ready \cup pass.todo \subseteq Stored
    /\ call["recover"].at # "idle" => pass.at = "refresh"

PassInit ==
    /\ durable = [h \in Stored |-> "open"]
    /\ checkpoint = {} /\ later = {} /\ events = {} /\ accounted = {}
    /\ pass = NoPass /\ strays = {}

RecoveryInit == MemoInit /\ PassInit

-----------------------------------------------------------------------------
(* The first half of a pass, row by row. *)

BeginPass ==
    /\ pass = NoPass /\ Due # {}
    /\ pass' = [at |-> "restore", todo |-> Due, ready |-> {}, hash |-> "none",
              row |-> "none"]
    /\ UNCHANGED <<memoVars, durable, checkpoint, later, events, accounted>>

(* The host has the payment already: only its accounting is asked for.     *)
Acknowledge(h) ==
    /\ pass.at = "restore" /\ h \in pass.todo
    /\ host[h] = "paid"
    /\ checkpoint' = checkpoint \cup {h}
    /\ later' = later \cup {h}
    /\ events' = events \cup {h}
    /\ pass' = [pass EXCEPT !.todo = @ \ {h}]
    /\ UNCHANGED <<memoVars, durable, accounted>>

(* Its memo row is restored and watched; the host invoice read here is the *)
(* one the second half uses.                                               *)
Take(h) ==
    /\ pass.at = "restore" /\ h \in pass.todo
    /\ host[h] # "paid"
    /\ later' = later \cup {h}
    /\ RestoreAndWatch(h)
    /\ pass' = [pass EXCEPT !.todo = @ \ {h}, !.ready = @ \cup {h}]
    /\ UNCHANGED <<world, walking, call, ask, channel, host, durable, checkpoint,
                   events, accounted>>

(* No single host invoice, another wallet configured, or a write that      *)
(* fails: the row is left for a later pass.                                *)
SetAside(h) ==
    /\ pass.at = "restore" /\ h \in pass.todo
    /\ failures < MaxFailures
    /\ failures' = failures + 1
    /\ later' \in {later, later \cup {h}}
    /\ pass' = [pass EXCEPT !.todo = @ \ {h}]
    /\ UNCHANGED <<world, memo, walk, waiting, fresh, cursor, complete, covered, call,
                   ask, channel, host, durable, checkpoint, events, accounted>>

-----------------------------------------------------------------------------
(* One refresh for all of them, which shares a walk already running. *)

RecoverRefreshes ==
    /\ pass.at = "restore" /\ pass.todo = {}
    /\ IF pass.ready = {}
       THEN pass' = NoPass /\ UNCHANGED memoVars
       ELSE /\ Refresh("recover", FALSE)
            /\ pass' = [pass EXCEPT !.at = "refresh"]
            /\ UNCHANGED <<ask, channel, host>>
    /\ UNCHANGED <<durable, checkpoint, later, events, accounted>>

Refreshed ==
    /\ pass.at = "refresh" /\ call["recover"].at \in {"ok", "fresh", "failed"}
    /\ pass' = IF call["recover"].at = "failed" THEN NoPass
               ELSE [pass EXCEPT !.at = "judge", !.todo = pass.ready]
    /\ call' = [call EXCEPT !["recover"] = NoCall]
    /\ UNCHANGED <<world, memo, walking, ask, channel, host, durable, checkpoint, later,
                   events, accounted>>

-----------------------------------------------------------------------------
(* The second half: the memo's row is read, and then, for one that is      *)
(* still pending, what the memo says of its last walk.                     *)

Look(h) ==
    /\ pass.at = "judge" /\ h \in pass.todo
    /\ pass' = [pass EXCEPT
         !.at = CASE rows[h] = "settled" -> "checkpoint"
                  [] rows[h] = "expired" -> "judge"
                  [] OTHER -> "close",
         !.todo = @ \ {h},
         !.hash = h,
         !.row = rows[h]]
    /\ durable' = IF rows[h] = "expired" THEN [durable EXCEPT ![h] = "terminal"] ELSE durable
    /\ UNCHANGED <<memoVars, checkpoint, later, events, accounted>>

(* The memo's three answers are read one after the other, and walks of other  *)
(* callers end in between.                                                    *)
MovesOn(answer, stage) ==
    /\ pass' = [pass EXCEPT !.at = IF answer THEN stage ELSE "judge"]
    /\ UNCHANGED <<memoVars, checkpoint, later, events, accounted>>

AskComplete ==
    /\ pass.at = "close"
    /\ MovesOn(complete, "unwatched")
    /\ UNCHANGED durable

(* MUTANT: the row of an invoice the memo still watches is closed. *)
MutantUnwatched(h) == TRUE

Unwatched(h) == h \notin watched

AskWatched ==
    /\ pass.at = "unwatched"
    /\ MovesOn(Unwatched(pass.hash), "covered")
    /\ UNCHANGED durable

Close ==
    /\ pass.at = "covered"
    /\ durable' = IF pass.hash \in covered THEN [durable EXCEPT ![pass.hash] = "unpaid"]
                  ELSE durable
    /\ MovesOn(TRUE, "judge")

EndPass ==
    /\ pass.at = "judge" /\ pass.todo = {}
    /\ pass' = NoPass
    /\ UNCHANGED <<memoVars, durable, checkpoint, later, events, accounted>>

-----------------------------------------------------------------------------
(* DeliverAsync. *)

StoreCheckpoint ==
    /\ pass.at = "checkpoint"
    /\ checkpoint' = checkpoint \cup {pass.hash}
    /\ pass' = [pass EXCEPT !.at = "pay"]
    /\ UNCHANGED <<memoVars, durable, later, events, accounted>>

(* AddPayment answers null, and stores nothing, when its database fails.   *)
AddPayment ==
    /\ pass.at = "pay"
    /\ \/ /\ host' = [host EXCEPT ![pass.hash] = "paid"]
          /\ UNCHANGED failures
       \/ /\ failures < MaxFailures
          /\ failures' = failures + 1
          /\ UNCHANGED host
    /\ pass' = [pass EXCEPT !.at = "confirm"]
    /\ UNCHANGED <<world, memo, walk, waiting, fresh, cursor, complete, covered, call,
                   ask, channel, durable, checkpoint, later, events, accounted>>

(* The row stays open: publishing an event is no acknowledgement. *)
PutOff(h) == later' = later \cup {h} /\ UNCHANGED durable

Confirm ==
    /\ pass.at = "confirm"
    /\ \/ /\ host[pass.hash] = "paid"
          /\ events' = events \cup {pass.hash}
          /\ PutOff(pass.hash)
       \/ /\ host[pass.hash] # "paid"
          /\ UNCHANGED <<events, later, durable>>
    /\ pass' = [pass EXCEPT !.at = "judge"]
    /\ UNCHANGED <<memoVars, checkpoint, accounted>>

-----------------------------------------------------------------------------
(* The host, time and a crash. *)

ServeEvent(h) ==
    /\ h \in events
    /\ events' = events \ {h}
    /\ accounted' = accounted \cup {h}
    /\ UNCHANGED <<memoVars, durable, checkpoint, later, pass>>

ComesDue(h) ==
    /\ h \in later
    /\ later' = later \ {h}
    /\ UNCHANGED <<memoVars, durable, checkpoint, events, accounted, pass>>

RestartAll ==
    /\ Restart
    /\ pass' = NoPass /\ events' = {} /\ strays' = {}
    /\ UNCHANGED <<durable, checkpoint, later, accounted>>

PassStep ==
    \/ BeginPass \/ RecoverRefreshes \/ Refreshed
    \/ AskComplete \/ AskWatched \/ Close \/ EndPass
    \/ StoreCheckpoint \/ AddPayment \/ Confirm
    \/ \E h \in Stored : Acknowledge(h) \/ Take(h) \/ Look(h)

(* The history a step of the memo leaves: a hash it drops is a stray or not. *)
Dropped == watched \ watched'

Strays ==
    (strays \ Dropped) \cup {h \in Dropped : rows[h] = "pending" /\ h \notin LookedFor}

RecoveryNext ==
    \/ MemoStep /\ strays' = Strays /\ UNCHANGED recovery
    \/ PassStep /\ UNCHANGED strays
    \/ RestartAll
    \/ \E h \in Stored : (SetAside(h) \/ ServeEvent(h) \/ ComesDue(h)) /\ UNCHANGED strays

RecoverySpec == RecoveryInit /\ [][RecoveryNext]_recoveryVars

-----------------------------------------------------------------------------
(* The invoice is not paid and cannot be any more. *)
Over(h) == wallet[h] = "expired" \/ (h \in past /\ wallet[h] # "settled")

(* Whoever else walks the memo, a row is closed for good only when its     *)
(* invoice is over.  Two ways to close a paid one are left, each a race    *)
(* the code does not exclude: a walk that never looked for its hash        *)
(* dropped it, or the memo learnt that it settled after the pass had read  *)
(* its row as pending.                                                     *)
ClosesJudged ==
    \A h \in DOMAIN durable :
        durable[h] = "open" /\ durable'[h] # "open" =>
            \/ Over(h)
            \/ h \in strays
            \/ rows[h] = "settled" /\ pass.row # "settled"

OnlyOverIsClosed == [][ClosesJudged]_recoveryVars

(* A row is closed for good only if the wallet never settled its invoice.  *)
ClosedIsUnpaid ==
    \A h \in DOMAIN durable : durable[h] # "open" => wallet[h] # "settled"

(* Listener channels are only hints, and the host's payment row is the     *)
(* acknowledgment (HistoricalInvoiceRecovery): a row whose invoice the     *)
(* memo knows to be settled is not closed as unpaid before the host has    *)
(* the payment.  That of a stray is ClosedIsUnpaid's subject.              *)
ClosesAcknowledged ==
    \A h \in DOMAIN durable \ strays :
        durable[h] = "open" /\ durable'[h] = "unpaid" /\ rows[h] = "settled" =>
            host[h] = "paid"

KnownIsAcknowledged == [][ClosesAcknowledged]_recoveryVars

=============================================================================
