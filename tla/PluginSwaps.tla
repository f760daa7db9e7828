------------------------------ MODULE PluginSwaps ------------------------------
(***************************************************************************)
(* The swap rows of the BTCPay plugin: SwapService over EfSwapStore, for   *)
(* one invoice and asset.  Pollers of several workers, payers who create   *)
(* and who ask for refunds, and BTCPay's payment event all load a row,     *)
(* wait for the provider or not, and write it back if its xmin is still    *)
(* the one they loaded.                                                    *)
(*                                                                         *)
(* A version is modelled by what it decides: `current` holds the actors    *)
(* whose copy is the stored version, and every write of a row empties it   *)
(* of the others.  Time is whether an order's deadline is near, and        *)
(* whether its grace is over.                                              *)
(***************************************************************************)
EXTENDS Naturals, FiniteSets

CONSTANTS
    Order,          \* provider orders
    Offered,        \* those whose row exists at the start
    Poller,         \* workers' pollers
    Creator,        \* payers asking for an order
    Refunder,       \* payers asking for a refund, each with its own address
    MutateAttempts, \* reloads of a write that must land
    LeaseOutlasts,  \* a poll that is not cut off ends within its lease
    MaxCrashes, MaxEvents  \* bounds

PluginSwapsAssumption ==
    /\ Offered \subseteq Order
    /\ Poller \cap (Creator \cup Refunder) = {} /\ Creator \cap Refunder = {}
    /\ {"hook", "none"} \cap (Poller \cup Creator \cup Refunder) = {}
    /\ LeaseOutlasts \in BOOLEAN
    /\ MutateAttempts \in Nat \ {0} /\ MaxCrashes \in Nat /\ MaxEvents \in Nat

VARIABLES
    order,    \* the provider's side of each order
    row,      \* openreceive_swaps
    lease,    \* poll_lease_owner of each row
    lapsed,   \* rows whose poll_lease_until has passed
    near,     \* orders within ReserveWindowSeconds of their deadline
    over,     \* orders past their deadline and NoDepositGraceSeconds
    aged,     \* rows completed for CompletedWithoutSettlementSeconds
    act,      \* what each actor is doing
    current,  \* actors whose loaded copy is the stored version
    locks,    \* refund:{id} and create:{invoice}:{asset}
    crashes, paid

swapVars == <<order, row, lease, lapsed, near, over, aged, act, current, locks, crashes, paid>>

clock == <<near, over, aged>>

Hook == "hook"

Actor == Poller \cup Creator \cup Refunder \cup {Hook}

NoOne == "none"

State == {"awaiting_deposit", "confirming", "completed", "refund_required",
          "refund_pending", "expired", "attention"}

TerminalState == {"expired", "attention"}

NoOrder == [phase |-> "none", deposit |-> FALSE, inTime |-> FALSE, accepted |-> {}]

NoRow == [state |-> "none"]

NewRow == [state |-> "awaiting_deposit", deposit |-> FALSE, refund |-> NoOne,
           settled |-> FALSE, retired |-> FALSE]

Idle == [at |-> "idle"]

Rows == {o \in Order : row[o] # NoRow}

Rowlike ==
    [state : State, deposit : BOOLEAN, refund : Refunder \cup {NoOne},
     settled : BOOLEAN, retired : BOOLEAN]

(* What an actor does with the row it loaded: `next` is what it would write. *)
Doing(at, o, copy) ==
    [at |-> at, order |-> o, copy |-> copy, next |-> copy, seen |-> NoOrder,
     over |-> o \in over, aged |-> o \in aged, tries |-> 0, todo |-> {}, new |-> NoOne]

SwapsTypeOK ==
    /\ \A o \in Order :
        /\ order[o].phase \in State \cup {"none"} /\ order[o].accepted \subseteq Refunder
        /\ row[o] # NoRow => row[o] \in Rowlike /\ order[o].phase # "none"
        /\ lease[o] \in Poller \cup {NoOne}
    /\ lapsed \cup aged \cup near \subseteq Order /\ over \subseteq near
    /\ \A a \in Actor : act[a].at \in {"idle", "lock", "refresh", "save", "release",
                         "reload", "create", "persist", "status", "ask", "load", "write"}
    /\ \A k \in DOMAIN locks : locks[k] # NoOne => act[locks[k]] # Idle
    /\ \A a \in current : act[a] # Idle /\ act[a].copy = row[act[a].order]

SwapsInit ==
    /\ order = [o \in Order |->
                  [NoOrder EXCEPT !.phase = IF o \in Offered THEN "awaiting_deposit" ELSE @]]
    /\ row = [o \in Order |-> IF o \in Offered THEN NewRow ELSE NoRow]
    /\ lease = [o \in Order |-> NoOne] /\ lapsed = {}
    /\ near = {} /\ over = {} /\ aged = {}
    /\ act = [a \in Actor |-> Idle] /\ current = {}
    /\ locks = [k \in Order \cup {"create"} |-> NoOne]
    /\ crashes = 0 /\ paid = 0

-----------------------------------------------------------------------------
(* Loads and writes. *)

Outdated(o) == {a \in current : act[a].order = o}

(* UpdateAsync lands only on the version that was loaded. *)

MutantLands(a) == act[a] # Idle

Lands(a) == a \in current

Live(o) == o \in Rows /\ ~row[o].retired /\ row[o].state \notin TerminalState

Fits(next, others) ==
    next.retired \/ next.state \in TerminalState \/ \A o \in Order \ others : ~Live(o)

Write(o, next) ==
    /\ row' = [row EXCEPT ![o] = next]
    /\ current' = current \ Outdated(o)
    /\ aged' = IF next.state = row[o].state THEN aged ELSE aged \ {o}

Goes(a, at) == act' = [act EXCEPT ![a].at = at]

Locked(a) == {k \in DOMAIN locks : locks[k] = a}

(* The request answers; leaving its scope releases its advisory locks. *)
Done(a) ==
    /\ act' = [act EXCEPT ![a] = Idle]
    /\ locks' = [k \in DOMAIN locks |-> IF k \in Locked(a) THEN NoOne ELSE locks[k]]

(* Apply: the provider's state, and a deposit once seen stays seen. *)
Applied(copy, seen) == [copy EXCEPT !.state = seen.phase, !.deposit = @ \/ seen.deposit]

(* RefreshRowAsync reads its clock before it asks the provider, and judges *)
(* what the provider answers by that clock.                                *)

RefreshedRow(a) ==
    LET o == act[a].order
        fresh == Applied(act[a].copy, order[o])
        unfunded == fresh.state = "awaiting_deposit" /\ ~fresh.deposit /\ act[a].over
        unsettled == /\ fresh.state = "completed" /\ act[a].copy.state = "completed"
                     /\ ~fresh.settled /\ act[a].aged
    IN [fresh EXCEPT !.state = IF unfunded THEN "expired"
                               ELSE IF unsettled THEN "attention" ELSE @]

-----------------------------------------------------------------------------
(* PollOnceAsync, for one row: claim it, ask the provider, save, release.  *)

Polled(o) ==
    /\ o \in Rows /\ row[o].state \notin TerminalState
    /\ ~(row[o].state = "completed" /\ row[o].settled)

MayClaim(o) == lease[o] = NoOne \/ o \in lapsed

ClaimPoll(p, o) ==
    /\ act[p] = Idle
    /\ Polled(o) /\ MayClaim(o)
    /\ lease' = [lease EXCEPT ![o] = p]
    /\ lapsed' = lapsed \ {o}
    /\ act' = [act EXCEPT ![p] = Doing("refresh", o, row[o])]
    /\ current' = (current \ Outdated(o)) \cup {p}
    /\ UNCHANGED <<order, row, clock, locks, crashes, paid>>

(* RefreshRowAsync up to its write.  For a poller a provider that fails    *)
(* only moves the cadence; a creation is refused.                          *)
RefreshRow(a) ==
    /\ act[a].at = "refresh"
    /\ \/ /\ act' = [act EXCEPT ![a].at = "save", ![a].next = RefreshedRow(a)]
          /\ UNCHANGED locks
       \/ /\ a \in Poller
          /\ Goes(a, "save")
          /\ UNCHANGED locks
       \/ a \in Creator /\ Done(a)
    /\ current' = IF a \in Creator /\ act'[a] = Idle THEN current \ {a} ELSE current
    /\ UNCHANGED <<order, row, lease, lapsed, clock, crashes, paid>>

(* Whoever loses the race leaves it: a poller for the next tick, a         *)
(* creation or a refused refund with an answer to its payer.               *)
Save(a) ==
    /\ act[a].at = "save"
    /\ LET o == act[a].order
           saves == Lands(a) /\ Fits(act[a].next, {o})
       IN /\ IF saves THEN Write(o, act[a].next)
             ELSE row' = row /\ aged' = aged /\ current' = current \ {a}
          /\ \/ a \in Poller /\ Goes(a, "release") /\ UNCHANGED locks
             \/ a \in Creator /\ saves /\ Goes(a, "reload") /\ UNCHANGED locks
             \/ a \in Creator /\ ~saves /\ Done(a)
             \/ a \in Refunder /\ Done(a)
    /\ UNCHANGED <<order, lease, lapsed, near, over, crashes, paid>>

ReleasePoll(p) ==
    LET o == act[p].order
    IN /\ act[p].at = "release"
       /\ IF lease[o] = p
          THEN /\ lease' = [lease EXCEPT ![o] = NoOne]
               /\ lapsed' = lapsed \ {o}
               /\ current' = current \ Outdated(o)
          ELSE UNCHANGED <<lease, lapsed, current>>
       /\ act' = [act EXCEPT ![p] = Idle]
       /\ UNCHANGED <<order, row, clock, locks, crashes, paid>>

-----------------------------------------------------------------------------
(* CreateAsync: inside the creation's lock, an order that is near its      *)
(* deadline and unfunded is refreshed, under its refund lock, before it is *)
(* retired for a new one.                                                  *)

Supersedable(o, r) ==
    ~r.retired /\ r.state = "awaiting_deposit" /\ ~r.deposit /\ o \in near

Create(c) ==
    /\ act[c] = Idle /\ locks["create"] = NoOne
    /\ \E o \in Order :
        \/ /\ Live(o) /\ Supersedable(o, row[o])
           /\ act' = [act EXCEPT ![c] = Doing("lock", o, row[o])]
        \/ /\ \A other \in Order : ~Live(other)
           /\ order[o].phase = "none"
           /\ act' = [act EXCEPT ![c] = Doing("create", o, NoRow)]
    /\ locks' = [locks EXCEPT !["create"] = c]
    /\ UNCHANGED <<order, row, lease, lapsed, clock, current, crashes, paid>>

LockRecovery(c) ==
    LET o == act[c].order
    IN /\ act[c].at = "lock" /\ locks[o] = NoOne
       /\ locks' = [locks EXCEPT ![o] = c]
       /\ act' = [act EXCEPT ![c] = Doing("refresh", o, row[o])]
       /\ current' = current \cup {c}
       /\ UNCHANGED <<order, row, lease, lapsed, clock, crashes, paid>>

MutantReplaceable(o) == TRUE

Replaceable(o) == Supersedable(o, row[o]) \/ row[o].state \in TerminalState

Reload(c) ==
    LET o == act[c].order
    IN /\ act[c].at = "reload"
       /\ \/ /\ Replaceable(o)
             /\ act' = [act EXCEPT ![c] = Doing("create", o, row[o])]
             /\ current' = current \cup {c}
             /\ UNCHANGED locks
          \/ /\ ~Replaceable(o)
             /\ Done(c)
             /\ UNCHANGED current
       /\ UNCHANGED <<order, row, lease, lapsed, clock, crashes, paid>>

(* The provider mints an order, or refuses. *)
CreateOrder(c) ==
    /\ act[c].at = "create"
    /\ \/ \E o \in Order :
           /\ order[o].phase = "none"
           /\ order' = [order EXCEPT ![o].phase = "awaiting_deposit"]
           /\ act' = [act EXCEPT ![c].at = "persist", ![c].new = o]
           /\ UNCHANGED <<locks, current>>
       \/ /\ Done(c)
          /\ current' = current \ {c}
          /\ UNCHANGED order
    /\ UNCHANGED <<row, lease, lapsed, clock, crashes, paid>>

(* InsertAsync, or ReplaceAsync: one transaction retires the exact version *)
(* that was loaded and inserts its replacement.                            *)
Persist(c) ==
    LET old == act[c].order
        new == act[c].new
    IN /\ act[c].at = "persist"
       /\ \/ /\ act[c].copy = NoRow
             /\ row' = IF Fits(NewRow, {new}) THEN [row EXCEPT ![new] = NewRow] ELSE row
             /\ UNCHANGED current
          \/ /\ act[c].copy # NoRow /\ Lands(c) /\ Fits(NewRow, {old, new})
             /\ row' = [row EXCEPT ![old] = [act[c].copy EXCEPT !.retired = TRUE],
                                   ![new] = NewRow]
             /\ current' = current \ Outdated(old)
          \/ /\ act[c].copy # NoRow /\ ~(Lands(c) /\ Fits(NewRow, {old, new}))
             /\ current' = current \ {c}
             /\ UNCHANGED row
       /\ Done(c)
       /\ UNCHANGED <<order, lease, lapsed, clock, crashes, paid>>

-----------------------------------------------------------------------------
(* RefundAsync: one request at a time per swap, on a row read inside the   *)
(* lock and a status asked for inside it.                                  *)

AskRefund(r, o) ==
    /\ act[r] = Idle /\ o \in Rows /\ locks[o] = NoOne
    /\ row[o].refund = NoOne
    /\ locks' = [locks EXCEPT ![o] = r]
    /\ act' = [act EXCEPT ![r] = Doing("status", o, row[o])]
    /\ current' = current \cup {r}
    /\ UNCHANGED <<order, row, lease, lapsed, clock, crashes, paid>>

MutantNeedsRefund(copy, seen) == copy.state = "refund_required" \/ seen.phase = "refund_required"

NeedsRefund(copy, seen) == seen.phase = "refund_required"

RefundStatus(r) ==
    LET seen == order[act[r].order]
    IN /\ act[r].at = "status"
       /\ \/ /\ act' = [act EXCEPT
                  ![r].at = IF NeedsRefund(act[r].copy, seen) THEN "ask" ELSE "save",
                  ![r].seen = seen,
                  ![r].next = Applied(act[r].copy, seen)]
             /\ UNCHANGED <<locks, current>>
          \/ Done(r) /\ current' = current \ {r}
       /\ UNCHANGED <<order, row, lease, lapsed, clock, crashes, paid>>

(* The provider takes the address, or refuses it; its answer may be lost.  *)
RequestRefund(r) ==
    /\ act[r].at = "ask"
    /\ current' = current \ {r}
    /\ \/ /\ order[act[r].order].phase \in {"refund_required", "refund_pending"}
          /\ order' = [order EXCEPT ![act[r].order].phase = "refund_pending",
                                    ![act[r].order].accepted = @ \cup {r}]
          /\ \/ Goes(r, "load") /\ UNCHANGED <<locks, crashes>>
             \/ /\ crashes < MaxCrashes
                /\ crashes' = crashes + 1
                /\ Done(r)
       \/ /\ Done(r)
          /\ UNCHANGED <<order, crashes>>
    /\ UNCHANGED <<row, lease, lapsed, clock, paid>>

-----------------------------------------------------------------------------
(* MutateAsync, for an accepted refund address and for BTCPay's payment    *)
(* event: reload, apply, write, and again when the race was lost.  A row   *)
(* that may not be offered beside another is not written at all.           *)

LoadRow(a) ==
    /\ act[a].at = "load"
    /\ act' = [act EXCEPT ![a].at = "write", ![a].copy = row[act[a].order]]
    /\ current' = current \cup {a}
    /\ UNCHANGED <<order, row, lease, lapsed, clock, locks, crashes, paid>>

Mutated(a) ==
    IF a = Hook THEN [act[a].copy EXCEPT !.settled = TRUE]
    ELSE [Applied(act[a].copy, act[a].seen) EXCEPT !.refund = a, !.state = "refund_pending"]

(* The hook goes on to the next row aimed at the hash. *)
Mutates(a) ==
    IF act[a].todo = {} THEN Done(a)
    ELSE /\ \E o \in act[a].todo :
             act' = [act EXCEPT ![a] = [Doing("load", o, NoRow) EXCEPT
                                          !.todo = act[a].todo \ {o}]]
         /\ UNCHANGED locks

MutateRow(a) ==
    /\ act[a].at = "write"
    /\ \/ /\ Lands(a) /\ Fits(Mutated(a), {act[a].order})
          /\ Write(act[a].order, Mutated(a))
          /\ Mutates(a)
       \/ /\ Lands(a) /\ ~Fits(Mutated(a), {act[a].order})
          /\ current' = current \ {a}
          /\ Done(a)
          /\ UNCHANGED <<row, aged>>
       \/ /\ ~Lands(a)
          /\ UNCHANGED <<row, current, aged>>
          /\ IF act[a].tries + 1 < MutateAttempts
             THEN /\ act' = [act EXCEPT ![a].at = "load", ![a].tries = @ + 1]
                  /\ UNCHANGED locks
             ELSE Done(a)
    /\ UNCHANGED <<order, lease, lapsed, near, over, crashes, paid>>

(* The invoice's Lightning side settled: every row not stamped yet. *)
LightningPayment ==
    LET open == {o \in Rows : ~row[o].settled}
    IN /\ act[Hook] = Idle /\ open # {} /\ paid < MaxEvents
       /\ paid' = paid + 1
       /\ \E o \in open :
            act' = [act EXCEPT ![Hook] = [Doing("load", o, NoRow) EXCEPT !.todo = open \ {o}]]
       /\ UNCHANGED <<order, row, lease, lapsed, clock, current, locks, crashes>>

-----------------------------------------------------------------------------
(* The provider, the clock, and a crash. *)

Deposit(o) ==
    /\ order[o].phase \in {"awaiting_deposit", "expired"}
    /\ \E phase \in {"confirming", "refund_required"} :
        /\ phase = "confirming" => order[o].phase = "awaiting_deposit"
        /\ order' = [order EXCEPT ![o].phase = phase, ![o].deposit = TRUE,
             ![o].inTime = order[o].phase = "awaiting_deposit" /\ o \notin over]
    /\ UNCHANGED <<row, lease, lapsed, clock, act, current, locks, crashes, paid>>

ProviderMoves(o) ==
    /\ \/ /\ order[o].phase = "confirming"
          /\ order' = [order EXCEPT ![o].phase = "completed"]
       \/ /\ order[o].phase = "awaiting_deposit" /\ o \in near
          /\ order' = [order EXCEPT ![o].phase = "expired"]
    /\ UNCHANGED <<row, lease, lapsed, clock, act, current, locks, crashes, paid>>

TimePasses(o) ==
    /\ \/ /\ order[o].phase # "none" /\ o \notin near
          /\ near' = near \cup {o}
          /\ UNCHANGED <<over, aged>>
       \/ /\ o \in near \ over
          /\ over' = over \cup {o}
          /\ UNCHANGED <<near, aged>>
       \/ /\ o \in Rows \ aged /\ row[o].state = "completed"
          /\ aged' = aged \cup {o}
          /\ UNCHANGED <<near, over>>
    /\ UNCHANGED <<order, row, lease, lapsed, act, current, locks, crashes, paid>>

BeingPolled(o) == \E p \in Poller : lease[o] = p /\ act[p] # Idle /\ act[p].order = o

LeaseLapses(o) ==
    /\ lease[o] # NoOne /\ o \notin lapsed
    /\ LeaseOutlasts => ~BeingPolled(o)
    /\ lapsed' = lapsed \cup {o}
    /\ UNCHANGED <<order, row, lease, clock, act, current, locks, crashes, paid>>

Crash(a) ==
    /\ act[a] # Idle /\ crashes < MaxCrashes
    /\ crashes' = crashes + 1
    /\ Done(a)
    /\ current' = current \ {a}
    /\ UNCHANGED <<order, row, lease, lapsed, clock, paid>>

PollStep(p) ==
    \/ RefreshRow(p) \/ Save(p) \/ ReleasePoll(p)
    \/ \E o \in Order : ClaimPoll(p, o)

SwapsNext ==
    \/ \E p \in Poller : PollStep(p)
    \/ \E c \in Creator : Create(c) \/ LockRecovery(c) \/ RefreshRow(c) \/ Save(c)
                          \/ Reload(c) \/ CreateOrder(c) \/ Persist(c)
    \/ \E r \in Refunder : RefundStatus(r) \/ Save(r) \/ RequestRefund(r)
                           \/ LoadRow(r) \/ MutateRow(r) \/ \E o \in Order : AskRefund(r, o)
    \/ LightningPayment \/ LoadRow(Hook) \/ MutateRow(Hook)
    \/ \E o \in Order : Deposit(o) \/ ProviderMoves(o) \/ TimePasses(o) \/ LeaseLapses(o)
    \/ \E a \in Actor : Crash(a)

SwapsSpec == SwapsInit /\ [][SwapsNext]_swapVars

-----------------------------------------------------------------------------
(* The provider never takes two refund addresses of one order, whichever   *)
(* request crashed after it had taken the first.                           *)
OneRefundAddress == \A o \in Order : Cardinality(order[o].accepted) <= 1

(* Nobody's write undoes another's: a stamp, an accepted address, a seen   *)
(* deposit and a retirement stay, whatever copy a later write came from.   *)
KeepsStamps ==
    \A o \in Rows :
        /\ row[o].settled => row'[o].settled
        /\ row[o].refund # NoOne => row'[o].refund = row[o].refund
        /\ row[o].deposit => row'[o].deposit
        /\ row[o].retired => row'[o].retired

StampsStay == [][KeepsStamps]_swapVars

(* An order's instructions are retired only while no deposit is known for  *)
(* it, or once it is over, though a poller may learn of a deposit at any   *)
(* step of the creation.                                                   *)
RetiresUnfunded ==
    \A o \in Rows : row'[o].retired /\ ~row[o].retired =>
        row[o].state \in TerminalState \/ (row[o].state = "awaiting_deposit" /\ ~row[o].deposit)

RetiredUnfunded == [][RetiresUnfunded]_swapVars

(* btcpay-reference.md: a write that must land is applied again.  An       *)
(* accepted address is in the row once its request has answered.           *)
AcceptedIsStored ==
    crashes = 0 =>
        \A o \in Order : \A r \in order[o].accepted :
            act[r] = Idle => row[o].refund = r
=============================================================================
