------------------------------ MODULE PluginProofs ----------------------------
(***************************************************************************)
(* Theorems about the BTCPay plugin.                                       *)
(*                                                                         *)
(* Its swap rows, for any number of orders, pollers, payers and crashes: a *)
(* write lands only on the version it was made from, so what it keeps of   *)
(* its copy it keeps of the row; and a refund holds its swap's lock from   *)
(* its first read to its last write, so what it saw of the provider's      *)
(* accepted address is still so when it sends its own.                     *)
(*                                                                         *)
(* Its wallet memo, for any wallet, callers, failures and restarts: a hash *)
(* that was settled before the walk that judges it began is, at every      *)
(* stage of that walk, in what is still to be read, or the walk knows that *)
(* it was cut short.                                                       *)
(***************************************************************************)
EXTENDS PluginSwaps, InvoiceRecovery, FiniteSetTheorems, TLAPS

-----------------------------------------------------------------------------
(***************************************************************************)
(* The invariant.                                                          *)
(***************************************************************************)
ProviderOrder ==
    [phase : State \cup {"none"}, deposit : BOOLEAN, inTime : BOOLEAN,
     accepted : SUBSET Refunder]

PollerAt == {"refresh", "save", "release"}
CreatorAt == {"lock", "refresh", "save", "reload", "create", "persist"}
RefunderAt == {"status", "ask", "save", "load", "write"}
HookAt == {"load", "write"}

AtOf(a) ==
    IF a = Hook THEN HookAt ELSE IF a \in Poller THEN PollerAt
    ELSE IF a \in Creator THEN CreatorAt ELSE RefunderAt

Task(a) ==
    [at : AtOf(a), order : Order, copy : Rowlike \cup {NoRow}, next : Rowlike \cup {NoRow},
     seen : ProviderOrder, over : BOOLEAN, aged : BOOLEAN, tries : Nat,
     todo : SUBSET Order, new : Order \cup {NoOne}]

\* What a write that is not a refund keeps of the copy it was made from.
Keeps(old, new) ==
    /\ old \in Rowlike /\ new \in Rowlike
    /\ new.refund = old.refund /\ new.retired = old.retired
    /\ old.settled => new.settled
    /\ old.deposit => new.deposit

Retirable(copy) ==
    \/ copy.state \in TerminalState
    \/ copy.state = "awaiting_deposit" /\ ~copy.deposit

\* What an actor has in hand.
Works(a) ==
    LET d == act[a]
    IN  act[a] # Idle =>
            /\ d \in Task(a)
            /\ d.todo \subseteq Rows /\ (a # Hook => d.todo = {})
            /\ d.at \notin {"create", "persist"} => d.order \in Rows
            /\ d.at \in {"refresh", "status", "save", "write"} => d.copy \in Rowlike
            /\ d.at = "refresh" => d.next = d.copy
            /\ d.at = "save" => Keeps(d.copy, d.next)
            /\ d.at \in {"create", "persist"} /\ d.copy # NoRow => Retirable(d.copy)
            /\ d.at = "persist" =>
                d.new \in Order /\ row[d.new] = NoRow /\ order[d.new].phase # "none"

\* Where an actor has no copy of the stored version.
Unloaded == {"lock", "reload", "load", "release"}

IsCurrent(a) ==
    a \in current =>
        /\ act[a] # Idle /\ act[a].at \notin Unloaded
        /\ act[a].copy = row[act[a].order] /\ act[a].copy # NoRow

\* A refund holds its swap's lock, and nobody else has an address accepted or stored.
Refunds(r) ==
    act[r] # Idle =>
        /\ locks[act[r].order] = r
        /\ row[act[r].order].refund = NoOne
        /\ act[r].at = "ask" => order[act[r].order].accepted = {}

Creates(c) == act[c] # Idle => locks["create"] = c

ActorInv(a) ==
    /\ Works(a)
    /\ IsCurrent(a)
    /\ a \in Refunder => Refunds(a)
    /\ a \in Creator => Creates(a)

SwapTypes ==
    /\ order \in [Order -> ProviderOrder]
    /\ row \in [Order -> Rowlike \cup {NoRow}]
    /\ lease \in [Order -> Poller \cup {NoOne}]
    /\ lapsed \subseteq Order /\ aged \subseteq Order /\ near \subseteq Order /\ over \subseteq near
    /\ DOMAIN act = Actor
    /\ current \subseteq Actor
    /\ locks \in [Order \cup {"create"} -> Creator \cup Refunder \cup {NoOne}]
    /\ \A k \in Order \cup {"create"} : locks[k] # NoOne => act[locks[k]] # Idle
    /\ \A o \in Rows : order[o].phase # "none"

AcceptedOnce ==
    \A o \in Order :
        /\ order[o].accepted # {} => order[o].phase = "refund_pending"
        /\ order[o].accepted = {} \/ \E r \in Refunder : order[o].accepted = {r}

SwapInv == SwapTypes /\ AcceptedOnce /\ \A a \in Actor : ActorInv(a)

-----------------------------------------------------------------------------
(***************************************************************************)
(* Roles and tasks.                                                        *)
(***************************************************************************)
LEMMA Roles ==
    ASSUME PluginSwapsAssumption
    PROVE  /\ \A p \in Poller : /\ AtOf(p) = PollerAt
                                /\ p \notin Creator \cup Refunder \cup {Hook, NoOne}
           /\ \A c \in Creator : /\ AtOf(c) = CreatorAt
                                 /\ c \notin Poller \cup Refunder \cup {Hook, NoOne}
           /\ \A r \in Refunder : /\ AtOf(r) = RefunderAt
                                  /\ r \notin Poller \cup Creator \cup {Hook, NoOne}
           /\ AtOf(Hook) = HookAt
           /\ Hook \notin Poller \cup Creator \cup Refunder \cup {NoOne}
  BY DEF PluginSwapsAssumption, AtOf, Hook, NoOne

LEMMA TaskIsNotIdle == \A a : \A d \in Task(a) : d # Idle
<1> SUFFICES ASSUME NEW a, NEW d \in Task(a), d = Idle
             PROVE  FALSE
  OBVIOUS
<1>1. d.at \in AtOf(a)
  BY DEF Task
<1>2. d.at = "idle"
  BY DEF Idle
<1> QED
  BY <1>1, <1>2 DEF AtOf, PollerAt, CreatorAt, RefunderAt, HookAt

LEMMA DoingIs ==
    \A a : \A at \in AtOf(a), o \in Order, copy \in Rowlike \cup {NoRow} :
        Doing(at, o, copy) \in Task(a)
  BY DEF Doing, Task, ProviderOrder, NoOrder

LEMMA RowTypes ==
    /\ NewRow \in Rowlike
    /\ \A r \in Rowlike : r # NoRow /\ Keeps(r, r)
<1>1. NewRow \in Rowlike
  BY DEF NewRow, Rowlike, State
<1>2. ASSUME NEW r \in Rowlike, r = NoRow
      PROVE  FALSE
  <2>1. r.state \in State /\ r.state = "none"
    BY <1>2 DEF Rowlike, NoRow
  <2> QED
    BY <2>1 DEF State
<1> QED
  BY <1>1, <1>2 DEF Keeps

-----------------------------------------------------------------------------
(***************************************************************************)
(* What a step does to the actors that do not take it.                     *)
(***************************************************************************)
Untouched(a) ==
    /\ act'[a] = act[a]
    /\ a \in current' => a \in current /\ row'[act[a].order] = row[act[a].order]
    /\ \A k \in Order \cup {"create"} : locks[k] = a => locks'[k] = a
    /\ \A o \in Order : /\ row[o] # NoRow => row'[o] # NoRow
                        /\ order[o].phase # "none" => order'[o].phase # "none"
    /\ act[a] # Idle /\ act[a].at = "persist" /\ row[act[a].new] = NoRow => row'[act[a].new] = NoRow
    /\ a \in Refunder /\ act[a] # Idle =>
        /\ row'[act[a].order].refund = row[act[a].order].refund
        /\ order'[act[a].order].accepted = order[act[a].order].accepted

LEMMA UntouchedKeeps ==
    ASSUME NEW a \in Actor, ActorInv(a), Untouched(a)
    PROVE  ActorInv(a)'
<1>1. act'[a] = act[a]
  BY DEF Untouched
<1>2. Rows \subseteq Rows'
  BY DEF Untouched, Rows
<1>3. Works(a)'
  BY <1>1, <1>2 DEF ActorInv, Works, Untouched, Rows
<1>4. IsCurrent(a)'
  BY <1>1 DEF ActorInv, IsCurrent, Untouched
<1>5. a \in Refunder => Refunds(a)'
  <2> SUFFICES ASSUME a \in Refunder, act[a] # Idle
               PROVE  /\ locks'[act[a].order] = a
                      /\ row'[act[a].order].refund = NoOne
                      /\ act[a].at = "ask" => order'[act[a].order].accepted = {}
    BY <1>1 DEF Refunds
  <2>1. Refunds(a) /\ act[a].order \in Order
    BY DEF ActorInv, Works, Task
  <2> QED
    BY <2>1 DEF Refunds, Untouched
<1>6. a \in Creator => Creates(a)'
  BY <1>1 DEF ActorInv, Creates, Untouched
<1> QED
  BY <1>3, <1>4, <1>5, <1>6 DEF ActorInv

\* What b's step may do to a row: insert it, keep what it must, retire an order
\* that has no deposit, or store the address of b's own refund.
RowStep(b, o) ==
    \/ row'[o] = row[o]
    \/ /\ row[o] = NoRow /\ row'[o] = NewRow
       /\ b \in Creator /\ act[b] # Idle /\ act[b].at = "persist" /\ o = act[b].new
    \/ Keeps(row[o], row'[o])
    \/ /\ row[o] \in Rowlike /\ Retirable(row[o])
       /\ row'[o] = [row[o] EXCEPT !.retired = TRUE]
    \/ /\ b \in Refunder /\ act[b] # Idle /\ o = act[b].order
       /\ row[o] \in Rowlike /\ row'[o] \in Rowlike
       /\ row'[o].refund = b /\ row'[o].retired = row[o].retired
       /\ row[o].settled => row'[o].settled
       /\ row[o].deposit => row'[o].deposit

OrderStep(b, o) ==
    /\ order'[o] \in ProviderOrder
    /\ order[o].phase # "none" => order'[o].phase # "none"
    /\ \/ order'[o].accepted = order[o].accepted
       \/ b \in Refunder /\ act[b] # Idle /\ o = act[b].order

OthersAlone(b) ==
    \A a \in Actor \ {b} :
        /\ act'[a] = act[a]
        /\ a \in current' => a \in current /\ row'[act[a].order] = row[act[a].order]
        /\ \A k \in Order \cup {"create"} : locks[k] = a => locks'[k] = a

LEMMA OthersUntouched ==
    ASSUME PluginSwapsAssumption, SwapInv, NEW b \in Actor, OthersAlone(b),
           \A o \in Order : RowStep(b, o) /\ OrderStep(b, o),
           NEW a \in Actor \ {b}
    PROVE  ActorInv(a)'
<1>1. ActorInv(a) /\ ActorInv(b)
  BY DEF SwapInv
<1>2. \A o \in Order : row[o] # NoRow => row'[o] # NoRow
  <2> TAKE o \in Order
  <2>1. CASE row[o] \in Rowlike /\ row'[o] = [row[o] EXCEPT !.retired = TRUE]
    <3>1. row'[o] \in Rowlike
      BY <2>1 DEF Rowlike
    <3> QED
      BY <3>1, RowTypes
  <2> QED
    BY <2>1, RowTypes DEF RowStep, Keeps
<1>3. ASSUME act[a] # Idle, act[a].at = "persist", row[act[a].new] = NoRow
      PROVE  row'[act[a].new] = NoRow
  <2>1. act[a] \in Task(a) /\ act[a].new \in Order
    BY <1>1, <1>3 DEF ActorInv, Works
  <2>2. a \in Creator
    <3>1. act[a].at \in AtOf(a)
      BY <2>1 DEF Task
    <3> QED
      BY <1>3, <3>1, Roles DEF Actor, PollerAt, RefunderAt, HookAt
  <2>3. locks["create"] = a
    BY <1>1, <1>3, <2>2 DEF ActorInv, Creates
  <2>4. ~(b \in Creator /\ act[b] # Idle)
    BY <1>1, <2>3 DEF ActorInv, Creates
  <2>5. row[act[a].new] \notin Rowlike
    BY <1>3, RowTypes
  <2> QED
    BY <1>3, <2>1, <2>4, <2>5 DEF RowStep, Keeps
<1>4. ASSUME a \in Refunder, act[a] # Idle
      PROVE  /\ row'[act[a].order].refund = row[act[a].order].refund
             /\ order'[act[a].order].accepted = order[act[a].order].accepted
  <2> DEFINE o == act[a].order
  <2>1. act[a] \in Task(a) /\ o \in Rows
    <3>1. act[a] \in Task(a) /\ act[a].at \in AtOf(a)
      BY <1>1, <1>4 DEF ActorInv, Works, Task
    <3>2. act[a].at \notin {"create", "persist"}
      BY <1>4, <3>1, Roles DEF RefunderAt
    <3> QED
      BY <1>1, <1>4, <3>1, <3>2 DEF ActorInv, Works
  <2>2. o \in Order /\ row[o] # NoRow
    BY <2>1 DEF Rows
  <2>3. ~(b \in Refunder /\ act[b] # Idle /\ o = act[b].order)
    <3>1. locks[o] = a
      BY <1>1, <1>4 DEF ActorInv, Refunds
    <3> QED
      BY <1>1, <3>1 DEF ActorInv, Refunds
  <2>4. order'[o].accepted = order[o].accepted
    BY <2>2, <2>3 DEF OrderStep
  <2>5. row'[o].refund = row[o].refund
    <3>1. CASE row[o] \in Rowlike /\ row'[o] = [row[o] EXCEPT !.retired = TRUE]
      BY <3>1 DEF Rowlike
    <3> QED
      BY <2>2, <2>3, <3>1 DEF RowStep, Keeps
  <2> QED
    BY <2>4, <2>5
<1>5. Untouched(a)
  BY <1>2, <1>3, <1>4 DEF Untouched, OthersAlone, OrderStep
<1> QED
  BY <1>1, <1>5, UntouchedKeeps

LEMMA IdleHolds ==
    ASSUME NEW b \in Actor, act'[b] = Idle, b \notin current'
    PROVE  ActorInv(b)'
  BY DEF ActorInv, Works, IsCurrent, Refunds, Creates

\* The locks after b's step.
LocksOK ==
    /\ locks \in [Order \cup {"create"} -> Creator \cup Refunder \cup {NoOne}]
    /\ \A k \in Order \cup {"create"} : locks[k] # NoOne => act[locks[k]] # Idle

LEMMA LocksAfter ==
    ASSUME SwapTypes, NEW b \in Actor, OthersAlone(b),
           locks' \in [Order \cup {"create"} -> Creator \cup Refunder \cup {NoOne}],
           \A k \in Order \cup {"create"} : locks'[k] \in {locks[k], NoOne, b},
           act'[b] = Idle => \A k \in Order \cup {"create"} : locks'[k] # b
    PROVE  LocksOK'
<1> SUFFICES ASSUME NEW k \in Order \cup {"create"}, locks'[k] # NoOne
             PROVE  act'[locks'[k]] # Idle
  BY DEF LocksOK
<1>1. CASE locks'[k] = b
  BY <1>1
<1>2. CASE locks'[k] = locks[k] /\ locks[k] # b
  <2>1. locks[k] \in Actor \ {b} /\ act[locks[k]] # Idle
    BY <1>2 DEF SwapTypes, Actor
  <2> QED
    BY <1>2, <2>1 DEF OthersAlone
<1> QED
  BY <1>1, <1>2

\* An actor that keeps its task, or has no lock to give back, leaves the locks alone.
LEMMA LocksKept ==
    ASSUME PluginSwapsAssumption, SwapTypes, NEW b \in Actor, OthersAlone(b), locks' = locks,
           act'[b] # Idle \/ b \in Poller \cup {Hook}
    PROVE  LocksOK'
<1>1. locks' \in [Order \cup {"create"} -> Creator \cup Refunder \cup {NoOne}]
  BY DEF SwapTypes
<1>2. b \in Poller \cup {Hook} => \A k \in Order \cup {"create"} : locks'[k] # b
  BY <1>1, Roles
<1> QED
  BY <1>1, <1>2, LocksAfter

LEMMA DoneIs ==
    ASSUME SwapTypes, NEW b \in Actor, Done(b)
    PROVE  /\ DOMAIN act' = Actor
           /\ act'[b] = Idle
           /\ \A a \in Actor \ {b} : act'[a] = act[a]
           /\ \A a \in Actor \ {b} : \A k \in Order \cup {"create"} : locks[k] = a => locks'[k] = a
<1>1. act' = [act EXCEPT ![b] = Idle] /\ DOMAIN act = Actor
  BY DEF Done, SwapTypes
<1>2. locks' = [k \in Order \cup {"create"} |-> IF locks[k] = b THEN NoOne ELSE locks[k]]
  BY DEF Done, SwapTypes, Locked
<1> QED
  BY <1>1, <1>2

LEMMA LocksReleased ==
    ASSUME PluginSwapsAssumption, SwapTypes, NEW b \in Actor, Done(b), OthersAlone(b)
    PROVE  LocksOK'
<1>1. locks' = [k \in Order \cup {"create"} |-> IF locks[k] = b THEN NoOne ELSE locks[k]]
  BY DEF Done, SwapTypes, Locked
<1>2. b # NoOne
  BY Roles DEF Actor
<1>3. locks' \in [Order \cup {"create"} -> Creator \cup Refunder \cup {NoOne}]
  BY <1>1 DEF SwapTypes
<1> QED
  BY <1>1, <1>2, <1>3, LocksAfter

\* The rest of the invariant after b's step.
BoardOK ==
    /\ lease \in [Order -> Poller \cup {NoOne}]
    /\ lapsed \subseteq Order /\ aged \subseteq Order /\ near \subseteq Order /\ over \subseteq near

LEMMA StepKeeps ==
    ASSUME PluginSwapsAssumption, SwapInv, NEW b \in Actor, OthersAlone(b),
           \A o \in Order : RowStep(b, o) /\ OrderStep(b, o),
           DOMAIN row' = Order /\ row' = [o \in Order |-> row'[o]],
           DOMAIN order' = Order /\ order' = [o \in Order |-> order'[o]],
           BoardOK', DOMAIN act' = Actor, current' \subseteq Actor,
           LocksOK', AcceptedOnce', ActorInv(b)'
    PROVE  SwapInv'
<1>1. order' \in [Order -> ProviderOrder]
  BY DEF OrderStep
<1>2. \A o \in Order : row'[o] \in Rowlike \cup {NoRow}
  <2> TAKE o \in Order
  <2>1. row[o] \in Rowlike \cup {NoRow}
    BY DEF SwapInv, SwapTypes
  <2>2. CASE row[o] \in Rowlike /\ row'[o] = [row[o] EXCEPT !.retired = TRUE]
    BY <2>2 DEF Rowlike
  <2> QED
    BY <2>1, <2>2, RowTypes DEF RowStep, Keeps
<1>3. row' \in [Order -> Rowlike \cup {NoRow}]
  BY <1>2
<1>4. \A o \in Rows' : order'[o].phase # "none"
  <2> SUFFICES ASSUME NEW o \in Order, row'[o] # NoRow
               PROVE  order[o].phase # "none"
    BY DEF Rows, OrderStep
  <2>1. CASE row[o] # NoRow
    BY <2>1 DEF SwapInv, SwapTypes, Rows
  <2>2. CASE row[o] = NoRow
    <3>1. row[o] \notin Rowlike
      BY <2>2, RowTypes
    <3>2. act[b] # Idle /\ act[b].at = "persist" /\ o = act[b].new
      BY <2>2, <3>1 DEF RowStep, Keeps
    <3> QED
      BY <3>2 DEF SwapInv, ActorInv, Works
  <2> QED
    BY <2>1, <2>2
<1>5. SwapTypes'
  BY <1>1, <1>3, <1>4 DEF SwapTypes, BoardOK, LocksOK
<1>6. \A a \in Actor : ActorInv(a)'
  BY OthersUntouched
<1> QED
  BY <1>5, <1>6 DEF SwapInv

\* A step that writes no row and asks nothing of the provider.
LEMMA QuietStep ==
    ASSUME PluginSwapsAssumption, SwapInv, NEW b \in Actor, OthersAlone(b),
           UNCHANGED <<row, order>>, BoardOK', DOMAIN act' = Actor, current' \subseteq Actor,
           LocksOK', ActorInv(b)'
    PROVE  SwapInv'
<1>1. row \in [Order -> Rowlike \cup {NoRow}] /\ order \in [Order -> ProviderOrder]
  BY DEF SwapInv, SwapTypes
<1>2. AcceptedOnce'
  BY DEF SwapInv, AcceptedOnce
<1>3. \A o \in Order : RowStep(b, o) /\ OrderStep(b, o)
  BY <1>1 DEF RowStep, OrderStep
<1>4. DOMAIN row' = Order /\ row' = [o \in Order |-> row'[o]]
  BY <1>1
<1>5. DOMAIN order' = Order /\ order' = [o \in Order |-> order'[o]]
  BY <1>1
<1> QED
  BY <1>2, <1>3, <1>4, <1>5, StepKeeps

-----------------------------------------------------------------------------
(***************************************************************************)
(* Steps that load a row and begin with it.                                *)
(***************************************************************************)
LEMMA Begins ==
    ASSUME PluginSwapsAssumption, SwapInv, NEW b \in Actor,
           NEW at \in AtOf(b), NEW o \in Order, NEW copy \in Rowlike \cup {NoRow},
           act' = [act EXCEPT ![b] = Doing(at, o, copy)], UNCHANGED <<row, order>>,
           at \notin {"save", "persist", "ask"},
           at # "create" => o \in Rows,
           at \in {"refresh", "status", "write"} => copy \in Rowlike,
           at = "create" /\ copy # NoRow => Retirable(copy),
           b \in current' => copy = row[o] /\ copy # NoRow /\ at \notin Unloaded,
           b \in Refunder => locks'[o] = b /\ row[o].refund = NoOne,
           b \in Creator => locks'["create"] = b
    PROVE  /\ DOMAIN act' = Actor
           /\ act'[b] # Idle
           /\ \A a \in Actor \ {b} : act'[a] = act[a]
           /\ ActorInv(b)'
<1>1. PICK d : d = Doing(at, o, copy)
  OBVIOUS
<1>2. /\ d.at = at /\ d.order = o /\ d.copy = copy /\ d.next = copy /\ d.todo = {}
  BY <1>1 DEF Doing
<1>3. d \in Task(b) /\ d # Idle
  BY <1>1, DoingIs, TaskIsNotIdle
<1>4. DOMAIN act = Actor
  BY DEF SwapInv, SwapTypes
<1>5. /\ DOMAIN act' = Actor /\ act'[b] = d
      /\ \A a \in Actor \ {b} : act'[a] = act[a]
  BY <1>1, <1>4
<1>6. Rows' = Rows
  BY DEF Rows
<1>7. Works(b)'
  BY <1>2, <1>3, <1>5, <1>6 DEF Works
<1>8. IsCurrent(b)'
  BY <1>2, <1>3, <1>5 DEF IsCurrent
<1>9. (b \in Refunder => Refunds(b)') /\ (b \in Creator => Creates(b)')
  BY <1>2, <1>5 DEF Refunds, Creates
<1> QED
  BY <1>3, <1>5, <1>7, <1>8, <1>9 DEF ActorInv

LEMMA ClaimPollKeeps ==
    ASSUME PluginSwapsAssumption, SwapInv, NEW p \in Poller, NEW o \in Order, ClaimPoll(p, o)
    PROVE  SwapInv'
<1>1. p \in Actor /\ "refresh" \in AtOf(p) /\ p \notin Refunder /\ p \notin Creator
  BY Roles DEF Actor, PollerAt
<1>2. o \in Rows /\ row[o] \in Rowlike
  BY DEF ClaimPoll, Polled, SwapInv, SwapTypes, Rows
<1>3. /\ act' = [act EXCEPT ![p] = Doing("refresh", o, row[o])]
      /\ UNCHANGED <<row, order, near, over, aged, locks>>
      /\ current' = (current \ Outdated(o)) \cup {p}
      /\ lease' = [lease EXCEPT ![o] = p] /\ lapsed' = lapsed \ {o}
  BY DEF ClaimPoll, clock
<1>4. /\ DOMAIN act' = Actor
      /\ act'[p] # Idle
      /\ \A a \in Actor \ {p} : act'[a] = act[a]
      /\ ActorInv(p)'
  BY <1>1, <1>2, <1>3, RowTypes, Begins DEF Unloaded
<1>5. OthersAlone(p)
  BY <1>3, <1>4 DEF OthersAlone
<1>6. LocksOK'
  BY <1>1, <1>3, <1>4, <1>5, LocksKept DEF SwapInv
<1>7. BoardOK' /\ current' \subseteq Actor
  BY <1>1, <1>3 DEF SwapInv, SwapTypes, BoardOK
<1> QED
  BY <1>1, <1>3, <1>4, <1>5, <1>6, <1>7, QuietStep

\* The advisory lock k is free, and b takes it.
LEMMA TakesLock ==
    ASSUME PluginSwapsAssumption, SwapInv, NEW b \in Creator \cup Refunder,
           NEW k \in Order \cup {"create"}, locks[k] = NoOne, locks' = [locks EXCEPT ![k] = b],
           DOMAIN act' = Actor, act'[b] # Idle, \A a \in Actor \ {b} : act'[a] = act[a],
           UNCHANGED row, \A a \in Actor \ {b} : a \in current' => a \in current
    PROVE  OthersAlone(b) /\ LocksOK'
<1>1. b \in Actor
  BY DEF Actor
<1>2. locks \in [Order \cup {"create"} -> Creator \cup Refunder \cup {NoOne}]
  BY DEF SwapInv, SwapTypes
<1>3. \A a \in Actor : a # NoOne
  BY Roles DEF Actor
<1>4. OthersAlone(b)
  BY <1>2, <1>3 DEF OthersAlone
<1> QED
  BY <1>1, <1>2, <1>4, LocksAfter DEF SwapInv

LEMMA CreateKeeps ==
    ASSUME PluginSwapsAssumption, SwapInv, NEW c \in Creator, Create(c)
    PROVE  SwapInv'
<1>1. c \in Actor /\ {"lock", "create"} \subseteq AtOf(c) /\ c \notin Refunder
  BY Roles DEF Actor, CreatorAt
<1>2. /\ UNCHANGED <<row, order, lease, lapsed, near, over, aged, current>>
      /\ locks["create"] = NoOne /\ locks' = [locks EXCEPT !["create"] = c]
      /\ act[c] = Idle
  BY DEF Create, clock
<1>3. locks'["create"] = c
  BY <1>2 DEF SwapInv, SwapTypes
<1>4. c \notin current'
  BY <1>1, <1>2 DEF SwapInv, ActorInv, IsCurrent
<1>5. PICK o \in Order :
        \/ /\ Live(o)
           /\ act' = [act EXCEPT ![c] = Doing("lock", o, row[o])]
        \/ act' = [act EXCEPT ![c] = Doing("create", o, NoRow)]
  BY DEF Create
<1>6. /\ DOMAIN act' = Actor
      /\ act'[c] # Idle
      /\ \A a \in Actor \ {c} : act'[a] = act[a]
      /\ ActorInv(c)'
  <2>1. CASE Live(o) /\ act' = [act EXCEPT ![c] = Doing("lock", o, row[o])]
    <3>1. o \in Rows /\ row[o] \in Rowlike \cup {NoRow}
      BY <2>1 DEF Live, SwapInv, SwapTypes
    <3> QED
      BY <1>1, <1>2, <1>3, <1>4, <2>1, <3>1, Begins
  <2>2. CASE act' = [act EXCEPT ![c] = Doing("create", o, NoRow)]
    BY <1>1, <1>2, <1>3, <1>4, <2>2, Begins
  <2> QED
    BY <1>5, <2>1, <2>2
<1>7. OthersAlone(c) /\ LocksOK'
  BY <1>2, <1>6, TakesLock
<1>8. BoardOK' /\ current' \subseteq Actor
  BY <1>2 DEF SwapInv, SwapTypes, BoardOK
<1> QED
  BY <1>1, <1>2, <1>6, <1>7, <1>8, QuietStep

LEMMA LockRecoveryKeeps ==
    ASSUME PluginSwapsAssumption, SwapInv, NEW c \in Creator, LockRecovery(c)
    PROVE  SwapInv'
<1> DEFINE o == act[c].order
<1>1. c \in Actor /\ "refresh" \in AtOf(c) /\ c \notin Refunder
  BY Roles DEF Actor, CreatorAt
<1>2. /\ UNCHANGED <<row, order, lease, lapsed, near, over, aged>>
      /\ locks[o] = NoOne /\ locks' = [locks EXCEPT ![o] = c]
      /\ act' = [act EXCEPT ![c] = Doing("refresh", o, row[o])]
      /\ current' = current \cup {c}
      /\ act[c].at = "lock"
  BY DEF LockRecovery, clock
<1>3. act[c] # Idle
  BY <1>2 DEF Idle
<1>4. o \in Rows /\ o \in Order /\ row[o] \in Rowlike
  BY <1>1, <1>2, <1>3 DEF SwapInv, SwapTypes, ActorInv, Works, Rows
<1>5. locks'["create"] = c
  <2>1. locks["create"] = c
    BY <1>1, <1>3 DEF SwapInv, ActorInv, Creates
  <2> QED
    BY <1>2, <2>1 DEF SwapInv, SwapTypes
<1> HIDE DEF o
<1>6. /\ DOMAIN act' = Actor
      /\ act'[c] # Idle
      /\ \A a \in Actor \ {c} : act'[a] = act[a]
      /\ ActorInv(c)'
  BY <1>1, <1>2, <1>4, <1>5, RowTypes, Begins DEF Unloaded
<1>7. OthersAlone(c) /\ LocksOK'
  BY <1>2, <1>4, <1>6, TakesLock
<1>8. BoardOK' /\ current' \subseteq Actor
  BY <1>1, <1>2 DEF SwapInv, SwapTypes, BoardOK
<1> QED
  BY <1>1, <1>2, <1>6, <1>7, <1>8, QuietStep

LEMMA AskRefundKeeps ==
    ASSUME PluginSwapsAssumption, SwapInv, NEW r \in Refunder, NEW o \in Order, AskRefund(r, o)
    PROVE  SwapInv'
<1>1. r \in Actor /\ "status" \in AtOf(r) /\ r \notin Creator
  BY Roles DEF Actor, RefunderAt
<1>2. /\ UNCHANGED <<row, order, lease, lapsed, near, over, aged>>
      /\ locks[o] = NoOne /\ locks' = [locks EXCEPT ![o] = r]
      /\ act' = [act EXCEPT ![r] = Doing("status", o, row[o])]
      /\ current' = current \cup {r}
      /\ o \in Rows /\ row[o].refund = NoOne
  BY DEF AskRefund, clock
<1>3. row[o] \in Rowlike
  BY <1>2 DEF SwapInv, SwapTypes, Rows
<1>4. locks'[o] = r
  BY <1>2 DEF SwapInv, SwapTypes
<1>5. /\ DOMAIN act' = Actor
      /\ act'[r] # Idle
      /\ \A a \in Actor \ {r} : act'[a] = act[a]
      /\ ActorInv(r)'
  BY <1>1, <1>2, <1>3, <1>4, RowTypes, Begins DEF Unloaded
<1>6. OthersAlone(r) /\ LocksOK'
  BY <1>2, <1>5, TakesLock
<1>7. BoardOK' /\ current' \subseteq Actor
  BY <1>1, <1>2 DEF SwapInv, SwapTypes, BoardOK
<1> QED
  BY <1>1, <1>2, <1>5, <1>6, <1>7, QuietStep

LEMMA ReloadKeeps ==
    ASSUME PluginSwapsAssumption, SwapInv, NEW c \in Creator, Reload(c)
    PROVE  SwapInv'
<1>0. PICK o : o = act[c].order
  OBVIOUS
<1>1. c \in Actor /\ "create" \in AtOf(c) /\ c \notin Refunder
  BY Roles DEF Actor, CreatorAt
<1>2. UNCHANGED <<row, order, lease, lapsed, near, over, aged>> /\ act[c].at = "reload"
  BY DEF Reload, clock
<1>3. act[c] # Idle
  BY <1>2 DEF Idle
<1>4. o \in Rows /\ o \in Order /\ row[o] \in Rowlike
  BY <1>0, <1>1, <1>2, <1>3 DEF SwapInv, SwapTypes, ActorInv, Works, Rows
<1>5. locks["create"] = c
  BY <1>1, <1>3 DEF SwapInv, ActorInv, Creates
<1>6. CASE /\ Replaceable(o)
           /\ act' = [act EXCEPT ![c] = Doing("create", o, row[o])]
           /\ current' = current \cup {c}
           /\ UNCHANGED locks
  <2>1. Retirable(row[o])
    BY <1>6 DEF Replaceable, Supersedable, Retirable
  <2>2. locks'["create"] = c
    BY <1>5, <1>6
  <2>3. /\ DOMAIN act' = Actor
        /\ act'[c] # Idle
        /\ \A a \in Actor \ {c} : act'[a] = act[a]
        /\ ActorInv(c)'
    <3>1. "create" \in AtOf(c) /\ row[o] \in Rowlike \cup {NoRow} /\ "create" \notin Unloaded
      BY <1>1, <1>4 DEF Unloaded
    <3>2. PICK copy : copy = row[o]
      OBVIOUS
    <3>3. /\ act' = [act EXCEPT ![c] = Doing("create", o, copy)]
          /\ UNCHANGED <<row, order>>
          /\ copy \in Rowlike \cup {NoRow} /\ Retirable(copy)
      BY <1>2, <1>6, <2>1, <3>1, <3>2
    <3>4. /\ "create" \notin {"save", "persist", "ask"}
          /\ "create" \notin {"refresh", "status", "write"}
          /\ (c \in current' => copy = row[o] /\ copy # NoRow /\ "create" \notin Unloaded)
      BY <1>4, <3>1, <3>2, RowTypes
    <3> QED
      BY <1>1, <1>4, <2>2, <3>1, <3>3, <3>4, Begins
  <2>4. OthersAlone(c)
    BY <1>2, <1>6, <2>3 DEF OthersAlone
  <2>5. LocksOK'
    BY <1>1, <1>6, <2>3, <2>4, LocksKept DEF SwapInv
  <2>6. BoardOK' /\ current' \subseteq Actor
    BY <1>1, <1>2, <1>6 DEF SwapInv, SwapTypes, BoardOK
  <2> QED
    BY <1>1, <1>2, <2>3, <2>4, <2>5, <2>6, QuietStep
<1>7. CASE Done(c) /\ UNCHANGED current
  <2>1. /\ DOMAIN act' = Actor /\ act'[c] = Idle
        /\ \A a \in Actor \ {c} : act'[a] = act[a]
        /\ \A a \in Actor \ {c} : \A k \in Order \cup {"create"} : locks[k] = a => locks'[k] = a
    BY <1>1, <1>7, DoneIs DEF SwapInv
  <2>2. OthersAlone(c)
    BY <1>2, <1>7, <2>1 DEF OthersAlone
  <2>3. LocksOK'
    BY <1>1, <1>7, <2>2, LocksReleased DEF SwapInv
  <2>4. c \notin current'
    BY <1>1, <1>2, <1>7 DEF SwapInv, ActorInv, IsCurrent, Unloaded
  <2>5. ActorInv(c)' /\ BoardOK' /\ current' \subseteq Actor
    BY <1>1, <1>2, <1>7, <2>1, <2>4, IdleHolds DEF SwapInv, SwapTypes, BoardOK
  <2> QED
    BY <1>1, <1>2, <2>1, <2>2, <2>3, <2>5, QuietStep
<1> QED
  BY <1>0, <1>6, <1>7 DEF Reload

-----------------------------------------------------------------------------
(***************************************************************************)
(* Steps that give up, and steps that go on with the task in hand.         *)
(***************************************************************************)
LEMMA QuietDone ==
    ASSUME PluginSwapsAssumption, SwapInv, NEW b \in Actor, Done(b),
           UNCHANGED <<row, order, lease, lapsed, near, over, aged>>,
           current' = current \ {b}
    PROVE  SwapInv'
<1>1. /\ DOMAIN act' = Actor /\ act'[b] = Idle
      /\ \A a \in Actor \ {b} : act'[a] = act[a]
      /\ \A a \in Actor \ {b} : \A k \in Order \cup {"create"} : locks[k] = a => locks'[k] = a
  BY DoneIs DEF SwapInv
<1>2. OthersAlone(b)
  BY <1>1 DEF OthersAlone
<1>3. LocksOK'
  BY <1>2, LocksReleased DEF SwapInv
<1>4. ActorInv(b)'
  BY <1>1, IdleHolds
<1>5. BoardOK' /\ current' \subseteq Actor
  BY DEF SwapInv, SwapTypes, BoardOK
<1> QED
  BY <1>1, <1>2, <1>3, <1>4, <1>5, QuietStep

LEMMA Holds ==
    ASSUME SwapInv, NEW b \in Actor, act[b].at # "idle"
    PROVE  /\ act[b] # Idle /\ act[b] \in Task(b) /\ act[b].at \in AtOf(b)
           /\ act[b].order \in Order
           /\ Works(b) /\ IsCurrent(b)
<1>1. act[b] # Idle
  BY DEF Idle
<1> QED
  BY <1>1 DEF SwapInv, ActorInv, Works, Task

\* The fields of a task of which one changed.
Same(d, e) ==
    /\ e.order = d.order /\ e.todo = d.todo /\ e.new = d.new /\ e.copy = d.copy
    /\ e.next = d.next

LEMMA AtSet ==
    \A a : \A d \in Task(a), at \in AtOf(a) :
        /\ [d EXCEPT !.at = at] \in Task(a)
        /\ [d EXCEPT !.at = at].at = at
        /\ Same(d, [d EXCEPT !.at = at])
  BY DEF Task, Same

LEMMA GoesOn ==
    ASSUME PluginSwapsAssumption, SwapInv, NEW b \in Actor, act[b] # Idle,
           NEW d \in Task(b), act' = [act EXCEPT ![b] = d], d.order = act[b].order,
           UNCHANGED <<row, order, locks, lease, lapsed, near, over, aged>>,
           current' \subseteq Actor, \A a \in Actor \ {b} : a \in current' => a \in current,
           Works(b)', IsCurrent(b)',
           b \in Refunder /\ d.at = "ask" => order[d.order].accepted = {}
    PROVE  SwapInv'
<1>1. /\ DOMAIN act' = Actor /\ act'[b] = d /\ d # Idle
      /\ \A a \in Actor \ {b} : act'[a] = act[a]
  BY TaskIsNotIdle DEF SwapInv, SwapTypes
<1>2. OthersAlone(b)
  BY <1>1 DEF OthersAlone
<1>3. LocksOK'
  BY <1>1, <1>2, LocksKept DEF SwapInv
<1>4. BoardOK'
  BY DEF SwapInv, SwapTypes, BoardOK
<1>5. (b \in Refunder => Refunds(b)') /\ (b \in Creator => Creates(b)')
  BY <1>1 DEF SwapInv, ActorInv, Refunds, Creates
<1>6. ActorInv(b)'
  BY <1>5 DEF ActorInv
<1> QED
  BY <1>1, <1>2, <1>3, <1>4, <1>6, QuietStep

\* What the provider says of an order changes its row's state and no stamp.
LEMMA AppliedKeeps ==
    ASSUME NEW copy \in Rowlike, NEW seen \in ProviderOrder, seen.phase # "none"
    PROVE  Applied(copy, seen) \in Rowlike /\ Keeps(copy, Applied(copy, seen))
  BY DEF Applied, Keeps, Rowlike, ProviderOrder

LEMMA StateSetKeeps ==
    ASSUME NEW copy \in Rowlike, NEW r \in Rowlike, Keeps(copy, r), NEW st \in State
    PROVE  [r EXCEPT !.state = st] \in Rowlike /\ Keeps(copy, [r EXCEPT !.state = st])
  BY DEF Keeps, Rowlike

LEMMA RefreshedKeeps ==
    ASSUME SwapInv, NEW a \in Actor, act[a].at = "refresh"
    PROVE  Keeps(act[a].copy, RefreshedRow(a))
<1>1. act[a].copy \in Rowlike /\ act[a].order \in Rows
  BY Holds DEF Works
<1>2. order[act[a].order] \in ProviderOrder /\ order[act[a].order].phase # "none"
  BY <1>1 DEF SwapInv, SwapTypes, Rows
<1>3. PICK refreshed : refreshed = Applied(act[a].copy, order[act[a].order])
  OBVIOUS
<1>4. refreshed \in Rowlike /\ Keeps(act[a].copy, refreshed)
  BY <1>1, <1>2, <1>3, AppliedKeeps
<1>5. PICK st \in State : RefreshedRow(a) = [refreshed EXCEPT !.state = st]
  <2>1. PICK st : RefreshedRow(a) = [refreshed EXCEPT !.state = st]
                  /\ st \in {"expired", "attention", refreshed.state}
    BY <1>3 DEF RefreshedRow
  <2>2. st \in State
    BY <1>4, <2>1 DEF Rowlike, State
  <2> QED
    BY <2>1, <2>2
<1> QED
  BY <1>1, <1>4, <1>5, StateSetKeeps

LEMMA RefreshKeeps ==
    ASSUME PluginSwapsAssumption, SwapInv, NEW a \in Poller \cup Creator, RefreshRow(a)
    PROVE  SwapInv'
<1>1. a \in Actor /\ "save" \in AtOf(a) /\ a \notin Refunder
  BY Roles DEF Actor, PollerAt, CreatorAt
<1>2. act[a].at = "refresh"
      /\ UNCHANGED <<row, order, lease, lapsed, near, over, aged>>
  BY DEF RefreshRow, clock
<1>3. /\ act[a] # Idle /\ act[a] \in Task(a)
      /\ Works(a) /\ IsCurrent(a)
  BY <1>1, <1>2, Holds
<1>4. DOMAIN act = Actor
  BY DEF SwapInv, SwapTypes
<1>5. ASSUME NEW next \in Rowlike, Keeps(act[a].copy, next), UNCHANGED <<locks, current>>,
             NEW d, d = [act[a] EXCEPT !.at = "save", !.next = next],
             act' = [act EXCEPT ![a] = d]
      PROVE  SwapInv'
  <2>1. d \in Task(a) /\ d.at = "save" /\ d.next = next
        /\ d.order = act[a].order /\ d.copy = act[a].copy /\ d.todo = act[a].todo
    BY <1>1, <1>3, <1>5 DEF Task
  <2>2. act'[a] = d
    BY <1>1, <1>4, <1>5
  <2>3. Works(a)'
    BY <1>2, <1>3, <1>5, <2>1, <2>2 DEF Works, Rows
  <2>4. IsCurrent(a)'
    BY <1>2, <1>3, <1>5, <2>1, <2>2, TaskIsNotIdle DEF IsCurrent, Unloaded
  <2>5. current' \subseteq Actor
    BY <1>5 DEF SwapInv, SwapTypes
  <2> QED
    BY <1>1, <1>2, <1>3, <1>5, <2>1, <2>3, <2>4, <2>5, GoesOn
<1>6. CASE Done(a) /\ a \in Creator
  <2>1. act'[a] = Idle
    BY <1>1, <1>6, DoneIs DEF SwapInv
  <2>2. current' = current \ {a}
    BY <1>6, <2>1 DEF RefreshRow
  <2> QED
    BY <1>1, <1>2, <1>6, <2>2, QuietDone
<1>7. ASSUME NEW next \in Rowlike, Keeps(act[a].copy, next), UNCHANGED locks,
             act' = [act EXCEPT ![a].at = "save", ![a].next = next]
      PROVE  SwapInv'
  <2>1. PICK d : d = [act[a] EXCEPT !.at = "save", !.next = next]
    OBVIOUS
  <2>2. act' = [act EXCEPT ![a] = d]
    BY <1>7, <2>1
  <2>3. d \in Task(a)
    BY <1>1, <1>3, <1>7, <2>1 DEF Task
  <2>4. act'[a] # Idle
    BY <1>1, <1>4, <2>2, <2>3, TaskIsNotIdle
  <2>5. current' = current
    BY <2>4 DEF RefreshRow
  <2> QED
    BY <1>5, <1>7, <2>1, <2>2, <2>5
<1>8. CASE act' = [act EXCEPT ![a].at = "save", ![a].next = RefreshedRow(a)] /\ UNCHANGED locks
  <2>1. Keeps(act[a].copy, RefreshedRow(a)) /\ RefreshedRow(a) \in Rowlike
    BY <1>1, <1>2, RefreshedKeeps DEF Keeps
  <2> QED
    BY <1>7, <1>8, <2>1
<1>9. CASE Goes(a, "save") /\ UNCHANGED locks
  <2>1. act[a].copy \in Rowlike /\ act[a].next = act[a].copy
    BY <1>2, <1>3 DEF Works
  <2>2. Keeps(act[a].copy, act[a].next)
    BY <2>1, RowTypes
  <2>3. [act[a] EXCEPT !.at = "save", !.next = act[a].next] = [act[a] EXCEPT !.at = "save"]
    BY <1>3 DEF Task
  <2>4. act' = [act EXCEPT ![a].at = "save", ![a].next = act[a].next]
    BY <1>9, <2>3 DEF Goes
  <2> QED
    BY <1>7, <1>9, <2>1, <2>2, <2>4
<1> QED
  BY <1>6, <1>8, <1>9 DEF RefreshRow

LEMMA ReleasePollKeeps ==
    ASSUME PluginSwapsAssumption, SwapInv, NEW p \in Poller, ReleasePoll(p)
    PROVE  SwapInv'
<1>1. p \in Actor /\ p \notin Refunder /\ p \notin Creator
  BY Roles DEF Actor
<1>2. /\ act[p].at = "release" /\ act' = [act EXCEPT ![p] = Idle]
      /\ UNCHANGED <<row, order, near, over, aged, locks>>
  BY DEF ReleasePoll, clock
<1>3. act[p].order \in Order /\ IsCurrent(p)
  BY <1>1, <1>2, Holds
<1>4. current' \subseteq current /\ p \notin current
  BY <1>2, <1>3 DEF ReleasePoll, IsCurrent, Unloaded
<1>5. /\ DOMAIN act' = Actor /\ act'[p] = Idle
      /\ \A a \in Actor \ {p} : act'[a] = act[a]
  BY <1>1, <1>2 DEF SwapInv, SwapTypes
<1>6. OthersAlone(p)
  BY <1>2, <1>4, <1>5 DEF OthersAlone
<1>7. LocksOK'
  BY <1>1, <1>2, <1>6, LocksKept DEF SwapInv
<1>8. BoardOK' /\ current' \subseteq Actor
  <2>1. /\ lease' \in [Order -> Poller \cup {NoOne}] /\ lapsed' \subseteq Order
    BY <1>3 DEF ReleasePoll, SwapInv, SwapTypes
  <2> QED
    BY <1>2, <1>4, <2>1 DEF SwapInv, SwapTypes, BoardOK
<1>9. ActorInv(p)'
  BY <1>1, <1>4, <1>5, IdleHolds
<1> QED
  BY <1>1, <1>2, <1>5, <1>6, <1>7, <1>8, <1>9, QuietStep

LEMMA RefundStatusKeeps ==
    ASSUME PluginSwapsAssumption, SwapInv, NEW r \in Refunder, RefundStatus(r)
    PROVE  SwapInv'
<1>1. r \in Actor /\ {"ask", "save"} \subseteq AtOf(r)
  BY Roles DEF Actor, RefunderAt
<1>2. act[r].at = "status"
      /\ UNCHANGED <<row, order, lease, lapsed, near, over, aged>>
  BY DEF RefundStatus, clock
<1>3. /\ act[r] # Idle /\ act[r] \in Task(r) /\ act[r].order \in Order
      /\ Works(r) /\ IsCurrent(r)
  BY <1>1, <1>2, Holds
<1>4. PICK seen : seen = order[act[r].order]
  OBVIOUS
<1>5. act[r].order \in Rows /\ act[r].copy \in Rowlike
  BY <1>2, <1>3 DEF Works
<1>6. seen \in ProviderOrder /\ seen.phase # "none"
  BY <1>4, <1>5 DEF SwapInv, SwapTypes, Rows
<1>7. CASE /\ act' = [act EXCEPT
                  ![r].at = IF NeedsRefund(act[r].copy, seen) THEN "ask" ELSE "save",
                  ![r].seen = seen,
                  ![r].next = Applied(act[r].copy, seen)]
           /\ UNCHANGED <<locks, current>>
  <2>1. PICK next : next = Applied(act[r].copy, seen)
    OBVIOUS
  <2>2. next \in Rowlike /\ Keeps(act[r].copy, next)
    BY <1>5, <1>6, <2>1, AppliedKeeps
  <2>3. PICK at \in {"ask", "save"} : at = IF NeedsRefund(act[r].copy, seen) THEN "ask" ELSE "save"
    OBVIOUS
  <2>4. PICK d : d = [act[r] EXCEPT !.at = at, !.seen = seen, !.next = next]
    OBVIOUS
  <2>5. act' = [act EXCEPT ![r] = d]
    BY <1>7, <2>1, <2>3, <2>4
  <2>6. d \in Task(r) /\ d.at = at /\ d.next = next
        /\ d.order = act[r].order /\ d.copy = act[r].copy /\ d.todo = act[r].todo
    BY <1>1, <1>3, <1>6, <2>2, <2>4 DEF Task
  <2>7. act'[r] = d
    BY <1>1, <2>5 DEF SwapInv, SwapTypes
  <2>8. Works(r)'
    BY <1>2, <1>3, <1>5, <2>2, <2>6, <2>7 DEF Works, Rows
  <2>9. IsCurrent(r)'
    BY <1>2, <1>3, <1>7, <2>6, <2>7, TaskIsNotIdle DEF IsCurrent, Unloaded
  <2>10. d.at = "ask" => order[d.order].accepted = {}
    <3>1. d.at = "ask" => order[d.order].phase = "refund_required"
      BY <1>4, <2>3, <2>6 DEF NeedsRefund
    <3> QED
      BY <1>3, <2>6, <3>1 DEF SwapInv, AcceptedOnce
  <2>11. current' \subseteq Actor
    BY <1>7 DEF SwapInv, SwapTypes
  <2> QED
    BY <1>1, <1>2, <1>3, <1>7, <2>5, <2>6, <2>8, <2>9, <2>10, <2>11, GoesOn
<1>8. CASE Done(r) /\ current' = current \ {r}
  BY <1>1, <1>2, <1>8, QuietDone
<1> QED
  BY <1>4, <1>7, <1>8 DEF RefundStatus

LEMMA LoadRowKeeps ==
    ASSUME PluginSwapsAssumption, SwapInv, NEW a \in Refunder \cup {Hook}, LoadRow(a)
    PROVE  SwapInv'
<1>1. a \in Actor /\ "write" \in AtOf(a)
  BY Roles DEF Actor, RefunderAt, HookAt
<1>2. /\ act[a].at = "load" /\ current' = current \cup {a}
      /\ UNCHANGED <<row, order, locks, lease, lapsed, near, over, aged>>
  BY DEF LoadRow, clock
<1>3. /\ act[a] # Idle /\ act[a] \in Task(a) /\ act[a].order \in Order
      /\ Works(a)
  BY <1>1, <1>2, Holds
<1>4. PICK copy : copy = row[act[a].order]
  OBVIOUS
<1>5. act[a].order \in Rows /\ copy \in Rowlike
  BY <1>2, <1>3, <1>4 DEF Works, Rows, SwapInv, SwapTypes
<1>6. PICK d : d = [act[a] EXCEPT !.at = "write", !.copy = copy]
  OBVIOUS
<1>7. act' = [act EXCEPT ![a] = d]
  BY <1>4, <1>6 DEF LoadRow
<1>8. d \in Task(a) /\ d.at = "write" /\ d.copy = copy
      /\ d.order = act[a].order /\ d.todo = act[a].todo
  BY <1>1, <1>3, <1>5, <1>6 DEF Task
<1>9. act'[a] = d
  BY <1>1, <1>7 DEF SwapInv, SwapTypes
<1>10. Works(a)'
  BY <1>2, <1>3, <1>5, <1>8, <1>9 DEF Works, Rows
<1>11. IsCurrent(a)'
  BY <1>2, <1>4, <1>5, <1>8, <1>9, TaskIsNotIdle, RowTypes DEF IsCurrent, Unloaded
<1>12. current' \subseteq Actor
  BY <1>1, <1>2 DEF SwapInv, SwapTypes
<1> QED
  BY <1>1, <1>2, <1>3, <1>7, <1>8, <1>10, <1>11, <1>12, GoesOn

LEMMA CrashKeeps ==
    ASSUME PluginSwapsAssumption, SwapInv, NEW a \in Actor, Crash(a)
    PROVE  SwapInv'
  BY QuietDone DEF Crash, clock

-----------------------------------------------------------------------------
(***************************************************************************)
(* The provider, the clock, and orders that are made or refunded.          *)
(***************************************************************************)
LEMMA ClockKeeps ==
    ASSUME PluginSwapsAssumption, SwapInv, BoardOK',
           UNCHANGED <<row, order, act, current, locks>>
    PROVE  SwapInv'
<1>1. Hook \in Actor
  BY DEF Actor
<1>2. OthersAlone(Hook)
  BY DEF OthersAlone
<1>3. ActorInv(Hook)'
  <2>1. Untouched(Hook)
    BY DEF Untouched
  <2> QED
    BY <1>1, <2>1, UntouchedKeeps DEF SwapInv
<1>4. LocksOK'
  BY DEF SwapInv, SwapTypes, LocksOK
<1>5. DOMAIN act' = Actor /\ current' \subseteq Actor
  BY DEF SwapInv, SwapTypes
<1> QED
  BY <1>1, <1>2, <1>3, <1>4, <1>5, QuietStep

LEMMA TimeKeeps ==
    ASSUME PluginSwapsAssumption, SwapInv, NEW o \in Order, TimePasses(o) \/ LeaseLapses(o)
    PROVE  SwapInv'
<1>1. BoardOK'
  BY DEF TimePasses, LeaseLapses, clock, SwapInv, SwapTypes, BoardOK, Rows
<1> QED
  BY <1>1, ClockKeeps DEF TimePasses, LeaseLapses

\* The provider moves an order on that nobody is refunded for.
LEMMA ProviderStep ==
    ASSUME SwapInv, NEW o \in Order, NEW e \in ProviderOrder,
           order' = [order EXCEPT ![o] = e],
           order[o].phase # "refund_pending", e.phase # "none",
           e.accepted = order[o].accepted
    PROVE  /\ AcceptedOnce'
           /\ DOMAIN order' = Order /\ order' = [x \in Order |-> order'[x]]
           /\ \A b : \A x \in Order : OrderStep(b, x)
<1>1. order \in [Order -> ProviderOrder] /\ AcceptedOnce
  BY DEF SwapInv, SwapTypes
<1>2. e.accepted = {}
  BY <1>1 DEF AcceptedOnce
<1>3. AcceptedOnce'
  BY <1>1, <1>2 DEF AcceptedOnce
<1> QED
  BY <1>1, <1>3 DEF OrderStep

LEMMA RowsStand ==
    ASSUME SwapInv, UNCHANGED row
    PROVE  /\ DOMAIN row' = Order /\ row' = [o \in Order |-> row'[o]]
           /\ \A b : \A o \in Order : RowStep(b, o)
  BY DEF SwapInv, SwapTypes, RowStep

LEMMA ProviderKeeps ==
    ASSUME PluginSwapsAssumption, SwapInv, NEW o \in Order, Deposit(o) \/ ProviderMoves(o)
    PROVE  SwapInv'
<1>1. UNCHANGED <<row, lease, lapsed, near, over, aged, act, current, locks>>
  BY DEF Deposit, ProviderMoves, clock
<1>2. order[o] \in ProviderOrder
  BY DEF SwapInv, SwapTypes
<1>3. PICK e \in ProviderOrder :
        /\ order' = [order EXCEPT ![o] = e]
        /\ order[o].phase # "refund_pending" /\ e.phase # "none"
        /\ e.accepted = order[o].accepted
  <2>1. CASE Deposit(o)
    <3>1. PICK phase \in {"confirming", "refund_required"} :
            /\ order[o].phase \in {"awaiting_deposit", "expired"}
            /\ order' = [order EXCEPT ![o].phase = phase, ![o].deposit = TRUE,
                 ![o].inTime = order[o].phase = "awaiting_deposit" /\ o \notin over]
      BY <2>1 DEF Deposit
    <3>2. PICK inTime \in BOOLEAN : inTime = (order[o].phase = "awaiting_deposit" /\ o \notin over)
      OBVIOUS
    <3>3. PICK e : e = [order[o] EXCEPT !.phase = phase, !.deposit = TRUE, !.inTime = inTime]
      OBVIOUS
    <3>4. order' = [order EXCEPT ![o] = e]
      BY <3>1, <3>2, <3>3
    <3>5. e \in ProviderOrder /\ e.phase = phase /\ e.accepted = order[o].accepted
      BY <1>2, <3>3 DEF ProviderOrder, State
    <3> QED
      BY <3>1, <3>4, <3>5
  <2>2. CASE ProviderMoves(o)
    <3>1. PICK phase \in {"completed", "expired"} :
            /\ order[o].phase \in {"awaiting_deposit", "confirming"}
            /\ order' = [order EXCEPT ![o].phase = phase]
      BY <2>2 DEF ProviderMoves
    <3>2. PICK e : e = [order[o] EXCEPT !.phase = phase]
      OBVIOUS
    <3>3. order' = [order EXCEPT ![o] = e]
      BY <3>1, <3>2
    <3>4. e \in ProviderOrder /\ e.phase = phase /\ e.accepted = order[o].accepted
      BY <1>2, <3>2 DEF ProviderOrder, State
    <3> QED
      BY <3>1, <3>3, <3>4
  <2> QED
    BY <2>1, <2>2
<1>4. /\ AcceptedOnce'
      /\ DOMAIN order' = Order /\ order' = [x \in Order |-> order'[x]]
      /\ \A x \in Order : OrderStep(Hook, x)
  BY <1>3, ProviderStep
<1>5. /\ DOMAIN row' = Order /\ row' = [x \in Order |-> row'[x]]
      /\ \A x \in Order : RowStep(Hook, x)
  BY <1>1, RowsStand
<1>6. Hook \in Actor /\ OthersAlone(Hook) /\ LocksOK' /\ BoardOK'
      /\ DOMAIN act' = Actor /\ current' \subseteq Actor
  BY <1>1 DEF Actor, OthersAlone, SwapInv, SwapTypes, LocksOK, BoardOK
<1>7. ActorInv(Hook)'
  <2>1. Untouched(Hook)
    BY <1>1, <1>4, Roles DEF Untouched, OrderStep
  <2> QED
    BY <1>6, <2>1, UntouchedKeeps DEF SwapInv
<1> QED
  BY <1>4, <1>5, <1>6, <1>7, StepKeeps

LEMMA CreateOrderKeeps ==
    ASSUME PluginSwapsAssumption, SwapInv, NEW c \in Creator, CreateOrder(c)
    PROVE  SwapInv'
<1>1. c \in Actor /\ "persist" \in AtOf(c) /\ c \notin Refunder
  BY Roles DEF Actor, CreatorAt
<1>2. act[c].at = "create" /\ UNCHANGED <<row, lease, lapsed, near, over, aged>>
  BY DEF CreateOrder, clock
<1>3. /\ act[c] # Idle /\ act[c] \in Task(c) /\ act[c].order \in Order
      /\ Works(c) /\ IsCurrent(c)
  BY <1>1, <1>2, Holds
<1>4. CASE Done(c) /\ current' = current \ {c} /\ UNCHANGED order
  BY <1>1, <1>2, <1>4, QuietDone
<1>5. CASE \E o \in Order :
           /\ order[o].phase = "none"
           /\ order' = [order EXCEPT ![o].phase = "awaiting_deposit"]
           /\ act' = [act EXCEPT ![c].at = "persist", ![c].new = o]
           /\ UNCHANGED <<locks, current>>
  <2>1. PICK o \in Order :
           /\ order[o].phase = "none"
           /\ order' = [order EXCEPT ![o].phase = "awaiting_deposit"]
           /\ act' = [act EXCEPT ![c].at = "persist", ![c].new = o]
           /\ UNCHANGED <<locks, current>>
    BY <1>5
  <2>2. order[o] \in ProviderOrder /\ row[o] = NoRow
    BY <2>1 DEF SwapInv, SwapTypes, Rows
  <2>3. PICK e : e = [order[o] EXCEPT !.phase = "awaiting_deposit"]
    OBVIOUS
  <2>4. order' = [order EXCEPT ![o] = e]
    BY <2>1, <2>3
  <2>5. e \in ProviderOrder /\ e.phase = "awaiting_deposit" /\ e.accepted = order[o].accepted
    BY <2>2, <2>3 DEF ProviderOrder, State
  <2>6. /\ AcceptedOnce'
        /\ DOMAIN order' = Order /\ order' = [x \in Order |-> order'[x]]
        /\ \A x \in Order : OrderStep(c, x)
    BY <2>1, <2>4, <2>5, ProviderStep
  <2>7. /\ DOMAIN row' = Order /\ row' = [x \in Order |-> row'[x]]
        /\ \A x \in Order : RowStep(c, x)
    BY <1>2, RowsStand
  <2>8. PICK d : d = [act[c] EXCEPT !.at = "persist", !.new = o]
    OBVIOUS
  <2>9. act' = [act EXCEPT ![c] = d]
    BY <2>1, <2>8
  <2>10. /\ d \in Task(c) /\ d.at = "persist" /\ d.new = o
         /\ d.order = act[c].order /\ d.copy = act[c].copy /\ d.todo = act[c].todo
    BY <1>1, <1>3, <2>8 DEF Task
  <2>11. /\ DOMAIN act' = Actor /\ act'[c] = d /\ d # Idle
         /\ \A a \in Actor \ {c} : act'[a] = act[a]
    BY <1>1, <2>9, <2>10, TaskIsNotIdle DEF SwapInv, SwapTypes
  <2>12. order'[o].phase # "none"
    BY <2>4, <2>5 DEF SwapInv, SwapTypes
  <2>13. Works(c)'
    BY <1>2, <1>3, <2>2, <2>10, <2>11, <2>12 DEF Works, Rows
  <2>14. IsCurrent(c)'
    BY <1>2, <1>3, <2>1, <2>10, <2>11 DEF IsCurrent, Unloaded
  <2>15. ActorInv(c)'
    BY <1>1, <1>3, <2>1, <2>11, <2>13, <2>14 DEF SwapInv, ActorInv, Creates
  <2>16. OthersAlone(c)
    BY <1>2, <2>1, <2>11 DEF OthersAlone
  <2>17. LocksOK'
    BY <1>1, <2>1, <2>11, <2>16, LocksKept DEF SwapInv
  <2>18. BoardOK' /\ current' \subseteq Actor
    BY <1>2, <2>1 DEF SwapInv, SwapTypes, BoardOK
  <2> QED
    BY <1>1, <2>6, <2>7, <2>11, <2>15, <2>16, <2>17, <2>18, StepKeeps
<1> QED
  BY <1>4, <1>5 DEF CreateOrder

\* An actor holds its locks only while it works, and its own step keeps the others'.
LEMMA DoneAlone ==
    ASSUME PluginSwapsAssumption, SwapInv, NEW b \in Actor, Done(b),
           \A a \in Actor \ {b} : a \in current' =>
                a \in current /\ row'[act[a].order] = row[act[a].order]
    PROVE  OthersAlone(b) /\ LocksOK' /\ DOMAIN act' = Actor /\ act'[b] = Idle
<1>1. /\ DOMAIN act' = Actor /\ act'[b] = Idle
      /\ \A a \in Actor \ {b} : act'[a] = act[a]
      /\ \A a \in Actor \ {b} : \A k \in Order \cup {"create"} : locks[k] = a => locks'[k] = a
  BY DoneIs DEF SwapInv
<1>2. OthersAlone(b)
  BY <1>1 DEF OthersAlone
<1>3. LocksOK'
  BY <1>2, LocksReleased DEF SwapInv
<1> QED
  BY <1>1, <1>2, <1>3

\* The provider takes r's address: r holds the lock, and nobody's was taken before.
LEMMA RequestRefundKeeps ==
    ASSUME PluginSwapsAssumption, SwapInv, NEW r \in Refunder, RequestRefund(r)
    PROVE  SwapInv'
<1>1. r \in Actor /\ "load" \in AtOf(r) /\ r \notin Creator
  BY Roles DEF Actor, RefunderAt
<1>2. /\ act[r].at = "ask" /\ current' = current \ {r}
      /\ UNCHANGED <<row, lease, lapsed, near, over, aged>>
  BY DEF RequestRefund, clock
<1>3. /\ act[r] # Idle /\ act[r] \in Task(r) /\ act[r].order \in Order
      /\ Works(r)
  BY <1>1, <1>2, Holds
<1>4. PICK o \in Order : o = act[r].order
  BY <1>3
<1>5. o \in Rows /\ locks[o] = r /\ row[o].refund = NoOne /\ order[o].accepted = {}
  BY <1>1, <1>2, <1>3, <1>4 DEF SwapInv, ActorInv, Works, Refunds
<1>6. CASE Done(r) /\ UNCHANGED order
  BY <1>1, <1>2, <1>6, QuietDone
<1>7. CASE /\ order' = [order EXCEPT ![o].phase = "refund_pending", ![o].accepted = @ \cup {r}]
           /\ (Goes(r, "load") /\ UNCHANGED locks) \/ Done(r)
  <2>1. order[o] \in ProviderOrder
    BY DEF SwapInv, SwapTypes
  <2>2. PICK e : e = [order[o] EXCEPT !.phase = "refund_pending", !.accepted = {r}]
    OBVIOUS
  <2>3. order' = [order EXCEPT ![o] = e]
    BY <1>5, <1>7, <2>1, <2>2
  <2>4. e \in ProviderOrder /\ e.phase = "refund_pending" /\ e.accepted = {r}
    BY <2>1, <2>2 DEF ProviderOrder, State
  <2>5. order \in [Order -> ProviderOrder] /\ AcceptedOnce
    BY DEF SwapInv, SwapTypes
  <2>6. /\ DOMAIN order' = Order /\ order' = [x \in Order |-> order'[x]]
        /\ AcceptedOnce'
    BY <2>3, <2>4, <2>5 DEF AcceptedOnce
  <2>7. \A x \in Order : OrderStep(r, x)
    BY <1>3, <1>4, <2>3, <2>4, <2>5 DEF OrderStep
  <2>8. /\ DOMAIN row' = Order /\ row' = [x \in Order |-> row'[x]]
        /\ \A x \in Order : RowStep(r, x)
    BY <1>2, RowsStand
  <2>9. BoardOK' /\ current' \subseteq Actor
    BY <1>2 DEF SwapInv, SwapTypes, BoardOK
  <2>10. CASE Done(r)
    <3>1. OthersAlone(r) /\ LocksOK' /\ DOMAIN act' = Actor /\ act'[r] = Idle
      BY <1>1, <1>2, <2>10, DoneAlone
    <3>2. ActorInv(r)'
      BY <1>1, <1>2, <3>1, IdleHolds
    <3> QED
      BY <1>1, <2>6, <2>7, <2>8, <2>9, <3>1, <3>2, StepKeeps
  <2>11. CASE Goes(r, "load") /\ UNCHANGED locks
    <3>1. PICK d : d = [act[r] EXCEPT !.at = "load"]
      OBVIOUS
    <3>2. act' = [act EXCEPT ![r] = d]
      BY <2>11, <3>1 DEF Goes
    <3>3. d \in Task(r) /\ d.at = "load" /\ Same(act[r], d)
      BY <1>1, <1>3, <3>1, AtSet
    <3>4. /\ DOMAIN act' = Actor /\ act'[r] = d /\ d # Idle
          /\ \A a \in Actor \ {r} : act'[a] = act[a]
      BY <1>1, <3>2, <3>3, TaskIsNotIdle DEF SwapInv, SwapTypes
    <3>5. Works(r)'
      BY <1>2, <1>3, <1>4, <1>5, <3>3, <3>4 DEF Works, Rows, Same
    <3>6. IsCurrent(r)' /\ Refunds(r)'
      BY <1>2, <1>4, <1>5, <2>11, <3>3, <3>4 DEF IsCurrent, Refunds, Same
    <3>7. ActorInv(r)'
      BY <1>1, <3>5, <3>6 DEF ActorInv
    <3>8. OthersAlone(r)
      BY <1>2, <2>11, <3>4 DEF OthersAlone
    <3>9. LocksOK'
      BY <1>1, <2>11, <3>4, <3>8, LocksKept DEF SwapInv
    <3> QED
      BY <1>1, <2>6, <2>7, <2>8, <2>9, <3>4, <3>7, <3>8, <3>9, StepKeeps
  <2> QED
    BY <1>7, <2>10, <2>11
<1> QED
  BY <1>4, <1>6, <1>7 DEF RequestRefund

-----------------------------------------------------------------------------
(***************************************************************************)
(* Writes: they land on the version they were made from.                   *)
(***************************************************************************)
LEMMA Written ==
    ASSUME SwapInv, NEW o \in Order, NEW next \in Rowlike, Write(o, next)
    PROVE  /\ DOMAIN row' = Order /\ row' = [x \in Order |-> row'[x]]
           /\ row'[o] = next
           /\ \A x \in Order \ {o} : row'[x] = row[x]
           /\ aged' \subseteq Order /\ current' \subseteq current
           /\ \A a \in current' : act[a].order # o /\ row'[act[a].order] = row[act[a].order]
<1>1. row \in [Order -> Rowlike \cup {NoRow}] /\ aged \subseteq Order
  BY DEF SwapInv, SwapTypes
<1>2. row' = [row EXCEPT ![o] = next] /\ current' = current \ Outdated(o) /\ aged' \subseteq aged
  BY DEF Write
<1>3. ASSUME NEW a \in current'
      PROVE  act[a].order \in Order \ {o}
  <2>1. a \in current /\ a \in Actor /\ act[a].order # o
    BY <1>2, <1>3 DEF Outdated, SwapInv, SwapTypes
  <2>2. act[a] # Idle
    BY <2>1 DEF SwapInv, ActorInv, IsCurrent
  <2>3. act[a].order \in Order
    BY <2>1, <2>2 DEF SwapInv, ActorInv, Works, Task
  <2> QED
    BY <2>1, <2>3
<1> QED
  BY <1>1, <1>2, <1>3

LEMMA OrdersStand ==
    ASSUME SwapInv, UNCHANGED order
    PROVE  /\ DOMAIN order' = Order /\ order' = [o \in Order |-> order'[o]]
           /\ \A b : \A o \in Order : OrderStep(b, o)
           /\ AcceptedOnce'
  BY DEF SwapInv, SwapTypes, OrderStep, AcceptedOnce

\* b's write landed; what is left is what b does next.
LEMMA WriteKeeps ==
    ASSUME PluginSwapsAssumption, SwapInv, NEW b \in Actor, act[b] # Idle,
           NEW o \in Order, o = act[b].order, NEW next \in Rowlike, Write(o, next), RowStep(b, o),
           UNCHANGED <<order, lease, lapsed, near, over>>,
           DOMAIN act' = Actor, OthersAlone(b), LocksOK', ActorInv(b)'
    PROVE  SwapInv'
<1>1. /\ DOMAIN row' = Order /\ row' = [x \in Order |-> row'[x]]
      /\ \A x \in Order \ {o} : row'[x] = row[x]
      /\ aged' \subseteq Order /\ current' \subseteq current
  BY Written
<1>2. \A x \in Order : RowStep(b, x)
  BY <1>1 DEF RowStep
<1>3. BoardOK' /\ current' \subseteq Actor
  BY <1>1 DEF SwapInv, SwapTypes, BoardOK
<1>4. /\ DOMAIN order' = Order /\ order' = [x \in Order |-> order'[x]]
      /\ \A x \in Order : OrderStep(b, x)
      /\ AcceptedOnce'
  BY OrdersStand
<1> QED
  BY <1>1, <1>2, <1>3, <1>4, StepKeeps

\* The stored row, and nobody's copy, is what b has in hand.
LEMMA LandsOnCopy ==
    ASSUME SwapInv, NEW b \in Actor, act[b].at # "idle", Lands(b)
    PROVE  row[act[b].order] = act[b].copy
  BY Holds DEF Lands, IsCurrent

LEMMA SaveLands ==
    ASSUME PluginSwapsAssumption, SwapInv, NEW a \in Actor \ {Hook}, Save(a), Lands(a),
           Write(act[a].order, act[a].next)
    PROVE  SwapInv'
<1>1. act[a].at = "save" /\ UNCHANGED <<order, lease, lapsed, near, over>>
  BY DEF Save
<1>2. /\ act[a] # Idle /\ act[a] \in Task(a) /\ act[a].order \in Order
      /\ Works(a) /\ IsCurrent(a)
  BY <1>1, Holds
<1>3. PICK o \in Order : o = act[a].order
  BY <1>2
<1>4. PICK next \in Rowlike : next = act[a].next /\ Keeps(row[o], next)
  <2>1. Keeps(act[a].copy, act[a].next) /\ row[o] = act[a].copy
    BY <1>1, <1>2, <1>3, LandsOnCopy DEF Works
  <2> QED
    BY <2>1 DEF Keeps
<1>5. Write(o, next)
  BY <1>3, <1>4
<1>6. /\ row'[o] = next
      /\ \A x \in Order \ {o} : row'[x] = row[x]
      /\ current' \subseteq current
      /\ \A b \in current' : act[b].order # o /\ row'[act[b].order] = row[act[b].order]
  BY <1>5, Written
<1>7. RowStep(a, o)
  BY <1>4, <1>6 DEF RowStep
<1>8. a \notin current'
  BY <1>3, <1>6
<1>9. CASE Done(a)
  <2>1. OthersAlone(a) /\ LocksOK' /\ DOMAIN act' = Actor /\ act'[a] = Idle
    BY <1>6, <1>9, DoneAlone
  <2>2. ActorInv(a)'
    BY <1>8, <2>1, IdleHolds
  <2> QED
    BY <1>1, <1>2, <1>3, <1>5, <1>7, <2>1, <2>2, WriteKeeps
<1>10. ASSUME NEW at \in {"release", "reload"}, at \in AtOf(a), Goes(a, at), UNCHANGED locks,
              a \notin Refunder
       PROVE  SwapInv'
  <2>1. PICK d : d = [act[a] EXCEPT !.at = at]
    OBVIOUS
  <2>2. act' = [act EXCEPT ![a] = d]
    BY <1>10, <2>1 DEF Goes
  <2>3. d \in Task(a) /\ d.at = at /\ Same(act[a], d)
    BY <1>2, <1>10, <2>1, AtSet
  <2>4. /\ DOMAIN act' = Actor /\ act'[a] = d /\ d # Idle
        /\ \A b \in Actor \ {a} : act'[b] = act[b]
    BY <2>2, <2>3, TaskIsNotIdle DEF SwapInv, SwapTypes
  <2>5. Rows \subseteq Rows'
    BY <1>4, <1>6, RowTypes DEF Rows
  <2>6. Works(a)'
    BY <1>1, <1>2, <2>3, <2>4, <2>5 DEF Works, Same
  <2>7. IsCurrent(a)' /\ (a \in Creator => Creates(a)')
    BY <1>2, <1>8, <1>10 DEF IsCurrent, Creates, SwapInv, ActorInv
  <2>8. ActorInv(a)'
    BY <1>10, <2>6, <2>7 DEF ActorInv
  <2>9. OthersAlone(a)
    BY <1>6, <1>10, <2>4 DEF OthersAlone
  <2>10. LocksOK'
    BY <1>10, <2>4, <2>9, LocksKept DEF SwapInv
  <2> QED
    BY <1>1, <1>2, <1>3, <1>5, <1>7, <2>4, <2>8, <2>9, <2>10, WriteKeeps
<1>11. \/ a \in Poller /\ Goes(a, "release") /\ UNCHANGED locks
       \/ a \in Creator /\ Goes(a, "reload") /\ UNCHANGED locks
       \/ Done(a)
  BY DEF Save
<1>12. CASE a \in Poller /\ Goes(a, "release") /\ UNCHANGED locks
  <2>1. "release" \in AtOf(a) /\ a \notin Refunder
    BY <1>12, Roles DEF PollerAt
  <2> QED
    BY <1>10, <1>12, <2>1
<1>13. CASE a \in Creator /\ Goes(a, "reload") /\ UNCHANGED locks
  <2>1. "reload" \in AtOf(a) /\ a \notin Refunder
    BY <1>13, Roles DEF CreatorAt
  <2> QED
    BY <1>10, <1>13, <2>1
<1> QED
  BY <1>9, <1>11, <1>12, <1>13

LEMMA SaveKeeps ==
    ASSUME PluginSwapsAssumption, SwapInv, NEW a \in Actor \ {Hook}, Save(a)
    PROVE  SwapInv'
<1>1. CASE Lands(a) /\ Fits(act[a].next, {act[a].order})
  <2>1. Write(act[a].order, act[a].next)
    BY <1>1 DEF Save
  <2> QED
    BY <1>1, <2>1, SaveLands
<1>2. CASE ~(Lands(a) /\ Fits(act[a].next, {act[a].order}))
  <2>1. /\ act[a].at = "save" /\ current' = current \ {a}
        /\ UNCHANGED <<row, order, lease, lapsed, near, over, aged>>
        /\ (a \in Poller /\ Goes(a, "release") /\ UNCHANGED locks) \/ Done(a)
    BY <1>2 DEF Save
  <2>2. CASE Done(a)
    BY <2>1, <2>2, QuietDone
  <2>3. CASE a \in Poller /\ Goes(a, "release") /\ UNCHANGED locks
    <3>1. "release" \in AtOf(a) /\ a \notin Refunder
      BY <2>3, Roles DEF PollerAt
    <3>2. act[a] # Idle /\ act[a] \in Task(a) /\ Works(a)
      BY <2>1, Holds
    <3>3. PICK d : d = [act[a] EXCEPT !.at = "release"]
      OBVIOUS
    <3>4. act' = [act EXCEPT ![a] = d]
      BY <2>3, <3>3 DEF Goes
    <3>5. d \in Task(a) /\ d.at = "release" /\ Same(act[a], d)
      BY <3>1, <3>2, <3>3, AtSet
    <3>6. act'[a] = d
      BY <3>4 DEF SwapInv, SwapTypes
    <3>7. Works(a)' /\ IsCurrent(a)'
      BY <2>1, <3>2, <3>5, <3>6 DEF Works, Rows, IsCurrent, Same
    <3>8. current' \subseteq Actor
      BY <2>1 DEF SwapInv, SwapTypes
    <3> QED
      BY <2>1, <2>3, <3>1, <3>2, <3>4, <3>5, <3>7, <3>8, GoesOn DEF Same
  <2> QED
    BY <2>1, <2>2, <2>3
<1> QED
  BY <1>1, <1>2

\* A creation's transaction inserts its order's row and retires the version it loaded.
LEMMA PersistRows ==
    ASSUME PluginSwapsAssumption, SwapInv, NEW c \in Creator, Persist(c)
    PROVE  /\ DOMAIN row' = Order /\ row' = [x \in Order |-> row'[x]]
           /\ \A x \in Order : RowStep(c, x)
           /\ current' \subseteq current
           /\ \A a \in Actor \ {c} : a \in current' => row'[act[a].order] = row[act[a].order]
           /\ c \notin current'
<1>1. c \in Actor /\ act[c].at = "persist"
  BY DEF Actor, Persist
<1>2. /\ act[c] # Idle /\ act[c] \in Task(c) /\ act[c].order \in Order
      /\ Works(c) /\ IsCurrent(c)
  BY <1>1, Holds
<1>3. PICK old \in Order : old = act[c].order
  BY <1>2
<1>4. PICK new \in Order : new = act[c].new
  BY <1>1, <1>2 DEF Works
<1>5. row[new] = NoRow /\ row \in [Order -> Rowlike \cup {NoRow}]
  BY <1>1, <1>2, <1>4 DEF Works, SwapInv, SwapTypes
<1>6. \A a \in current : /\ act[a].order \in Order /\ row[act[a].order] # NoRow
                          /\ act[a].copy = row[act[a].order]
  BY DEF SwapInv, SwapTypes, ActorInv, IsCurrent, Works, Task
<1>7. CASE UNCHANGED row /\ current' \subseteq current /\ (act[c].copy # NoRow => c \notin current')
  BY <1>2, <1>5, <1>7 DEF RowStep, IsCurrent
<1>8. CASE /\ act[c].copy = NoRow /\ row' = [row EXCEPT ![new] = NewRow] /\ UNCHANGED current
  <2>1. \A x \in Order : RowStep(c, x)
    BY <1>1, <1>2, <1>4, <1>5, <1>8 DEF RowStep
  <2>2. \A a \in current : act[a].order # new
    BY <1>5, <1>6
  <2> QED
    BY <1>2, <1>5, <1>6, <1>8, <2>1, <2>2 DEF IsCurrent
<1>9. CASE /\ act[c].copy # NoRow /\ Lands(c)
           /\ row' = [row EXCEPT ![old] = [act[c].copy EXCEPT !.retired = TRUE],
                                 ![new] = NewRow]
           /\ current' = current \ Outdated(old)
  <2>1. row[old] = act[c].copy /\ row[old] \in Rowlike /\ Retirable(row[old])
    BY <1>1, <1>2, <1>3, <1>5, <1>9, LandsOnCopy DEF Works
  <2>2. old # new
    BY <1>5, <2>1, RowTypes
  <2>3. PICK gone : gone = [row[old] EXCEPT !.retired = TRUE]
    OBVIOUS
  <2>4. row' = [row EXCEPT ![old] = gone, ![new] = NewRow]
    BY <1>9, <2>1, <2>3
  <2>5. row'[old] = gone /\ row'[new] = NewRow /\ \A x \in Order \ {old, new} : row'[x] = row[x]
    BY <1>5, <2>2, <2>4
  <2>6. \A x \in Order : RowStep(c, x)
    BY <1>1, <1>2, <1>4, <1>5, <2>1, <2>3, <2>5 DEF RowStep
  <2>7. \A a \in current' : a \in current /\ act[a].order # old
    BY <1>9 DEF Outdated
  <2>8. \A a \in current : act[a].order # new
    BY <1>5, <1>6
  <2>9. c \in current /\ c \notin current'
    BY <1>3, <1>9 DEF Lands, Outdated
  <2>10. current' \subseteq current /\ DOMAIN row' = Order /\ row' = [x \in Order |-> row'[x]]
    BY <1>5, <1>9, <2>4
  <2>11. \A a \in Actor \ {c} : a \in current' => row'[act[a].order] = row[act[a].order]
    BY <1>6, <2>5, <2>7, <2>8
  <2> QED
    BY <2>6, <2>9, <2>10, <2>11
<1> QED
  BY <1>3, <1>4, <1>7, <1>8, <1>9 DEF Persist

LEMMA PersistKeeps ==
    ASSUME PluginSwapsAssumption, SwapInv, NEW c \in Creator, Persist(c)
    PROVE  SwapInv'
<1>1. c \in Actor /\ act[c].at = "persist" /\ Done(c)
      /\ UNCHANGED <<order, lease, lapsed, near, over, aged>>
  BY DEF Actor, Persist, clock
<1>2. /\ DOMAIN row' = Order /\ row' = [x \in Order |-> row'[x]]
      /\ \A x \in Order : RowStep(c, x)
      /\ current' \subseteq current
      /\ \A a \in Actor \ {c} : a \in current' => row'[act[a].order] = row[act[a].order]
      /\ c \notin current'
  BY PersistRows
<1>3. OthersAlone(c) /\ LocksOK' /\ DOMAIN act' = Actor /\ act'[c] = Idle
  BY <1>1, <1>2, DoneAlone
<1>5. ActorInv(c)'
  BY <1>1, <1>2, <1>3, IdleHolds
<1>6. BoardOK' /\ current' \subseteq Actor
  BY <1>1, <1>2 DEF SwapInv, SwapTypes, BoardOK
<1>7. /\ DOMAIN order' = Order /\ order' = [x \in Order |-> order'[x]]
      /\ \A x \in Order : OrderStep(c, x)
      /\ AcceptedOnce'
  BY <1>1, OrdersStand
<1> QED
  BY <1>1, <1>2, <1>3, <1>5, <1>6, <1>7, StepKeeps

\* What MutateAsync writes over the copy it loaded.
LEMMA MutatedIs ==
    ASSUME PluginSwapsAssumption, SwapInv, NEW a \in Refunder \cup {Hook}, act[a].at = "write",
           Lands(a), NEW o \in Order, o = act[a].order
    PROVE  /\ row[o] \in Rowlike /\ Mutated(a) \in Rowlike
           /\ row'[o] = Mutated(a) => RowStep(a, o)
<1>1. a \in Actor
  BY DEF Actor
<1>2. /\ act[a] # Idle /\ act[a] \in Task(a) /\ Works(a)
  BY <1>1, Holds
<1>3. PICK copy \in Rowlike : copy = act[a].copy /\ row[o] = copy
  BY <1>1, <1>2, LandsOnCopy DEF Works
<1>4. CASE a = Hook
  <2>1. Mutated(a) = [copy EXCEPT !.settled = TRUE]
    BY <1>3, <1>4 DEF Mutated
  <2>2. Mutated(a) \in Rowlike /\ Keeps(copy, Mutated(a))
    BY <2>1 DEF Rowlike, Keeps
  <2> QED
    BY <1>3, <2>2 DEF RowStep
<1>5. CASE a \in Refunder
  <2>1. PICK seen \in ProviderOrder : seen = act[a].seen
    BY <1>2 DEF Task
  <2>2. PICK deposit \in BOOLEAN : deposit = (copy.deposit \/ seen.deposit)
    OBVIOUS
  <2>3. a # Hook
    BY <1>5, Roles
  <2>4. PICK next : next = [copy EXCEPT !.state = "refund_pending", !.deposit = deposit, !.refund = a]
    OBVIOUS
  <2>5. Applied(copy, seen) = [copy EXCEPT !.state = seen.phase, !.deposit = deposit]
    BY <2>2 DEF Applied, Rowlike
  <2>6. Mutated(a) = [Applied(copy, seen) EXCEPT !.refund = a, !.state = "refund_pending"]
    BY <1>3, <2>1, <2>3 DEF Mutated
  <2>7. Mutated(a) = next
    BY <2>4, <2>5, <2>6 DEF Rowlike
  <2>8. /\ next \in Rowlike /\ next.refund = a /\ next.retired = copy.retired
        /\ next.settled = copy.settled /\ next.deposit = deposit
    BY <1>5, <2>4 DEF Rowlike, State
  <2>9. row'[o] = next => RowStep(a, o)
    BY <1>2, <1>3, <1>5, <2>2, <2>8 DEF RowStep
  <2> QED
    BY <1>3, <2>7, <2>8, <2>9
<1> QED
  BY <1>4, <1>5

\* The hook turns to a row: the one it begins with, or the next of those it has left.
LEMMA HookGoesOn ==
    ASSUME PluginSwapsAssumption, SwapInv, NEW o \in Order, NEW todo \in SUBSET Order,
           act' = [act EXCEPT ![Hook] = [Doing("load", o, NoRow) EXCEPT !.todo = todo]],
           {o} \cup todo \subseteq Rows', Hook \notin current'
    PROVE  /\ DOMAIN act' = Actor /\ act'[Hook] # Idle
           /\ \A a \in Actor \ {Hook} : act'[a] = act[a]
           /\ ActorInv(Hook)'
<1>1. Hook \in Actor /\ "load" \in AtOf(Hook) /\ Hook \notin Creator \cup Refunder
  BY Roles DEF Actor, HookAt
<1>2. PICK begun : begun = Doing("load", o, NoRow)
  OBVIOUS
<1>3. begun \in Task(Hook) /\ begun.at = "load" /\ begun.order = o
  BY <1>1, <1>2, DoingIs DEF Doing
<1>4. PICK d : d = [begun EXCEPT !.todo = todo]
  OBVIOUS
<1>5. d \in Task(Hook) /\ d.at = "load" /\ d.order = o /\ d.todo = todo
  BY <1>3, <1>4 DEF Task
<1>6. act' = [act EXCEPT ![Hook] = d]
  BY <1>2, <1>4
<1>7. /\ DOMAIN act' = Actor /\ act'[Hook] = d /\ d # Idle
      /\ \A a \in Actor \ {Hook} : act'[a] = act[a]
  BY <1>1, <1>5, <1>6, TaskIsNotIdle DEF SwapInv, SwapTypes
<1>8. Works(Hook)'
  BY <1>5, <1>7 DEF Works
<1>9. IsCurrent(Hook)'
  BY DEF IsCurrent
<1> QED
  BY <1>1, <1>7, <1>8, <1>9 DEF ActorInv

LEMMA LightningPaymentKeeps ==
    ASSUME PluginSwapsAssumption, SwapInv, LightningPayment
    PROVE  SwapInv'
<1>1. Hook \in Actor
  BY DEF Actor
<1>2. /\ UNCHANGED <<order, row, lease, lapsed, near, over, aged, current, locks>>
      /\ act[Hook] = Idle
  BY DEF LightningPayment, clock
<1>3. PICK open \in SUBSET Rows : open = {o \in Rows : ~row[o].settled}
  OBVIOUS
<1>4. PICK o \in open :
        act' = [act EXCEPT ![Hook] = [Doing("load", o, NoRow) EXCEPT !.todo = open \ {o}]]
  BY <1>3 DEF LightningPayment
<1>5. PICK todo \in SUBSET Order : todo = open \ {o} /\ {o} \cup todo \subseteq Rows /\ o \in Order
  <2>1. open \ {o} \in SUBSET Order /\ {o} \cup (open \ {o}) \subseteq Rows /\ o \in Order
    BY <1>3, <1>4 DEF Rows
  <2> QED
    BY <2>1
<1>6. {o} \cup todo \subseteq Rows'
  BY <1>2, <1>5 DEF Rows
<1>7. Hook \notin current'
  BY <1>1, <1>2 DEF SwapInv, ActorInv, IsCurrent
<1>8. act' = [act EXCEPT ![Hook] = [Doing("load", o, NoRow) EXCEPT !.todo = todo]]
  BY <1>4, <1>5
<1>9. /\ DOMAIN act' = Actor /\ act'[Hook] # Idle
      /\ \A a \in Actor \ {Hook} : act'[a] = act[a]
      /\ ActorInv(Hook)'
  BY <1>5, <1>6, <1>7, <1>8, HookGoesOn
<1>10. OthersAlone(Hook)
  BY <1>2, <1>9 DEF OthersAlone
<1>11. LocksOK'
  BY <1>1, <1>2, <1>9, <1>10, LocksKept DEF SwapInv
<1>12. BoardOK' /\ current' \subseteq Actor
  BY <1>2 DEF SwapInv, SwapTypes, BoardOK
<1> QED
  BY <1>1, <1>2, <1>9, <1>10, <1>11, <1>12, QuietStep

LEMMA MutateLands ==
    ASSUME PluginSwapsAssumption, SwapInv, NEW a \in Refunder \cup {Hook}, act[a].at = "write",
           Lands(a), Write(act[a].order, Mutated(a)), Mutates(a),
           UNCHANGED <<order, lease, lapsed, near, over>>
    PROVE  SwapInv'
<1>1. a \in Actor
  BY DEF Actor
<1>2. /\ act[a] # Idle /\ act[a] \in Task(a) /\ act[a].order \in Order /\ Works(a)
  BY <1>1, Holds
<1>3. PICK o \in Order : o = act[a].order
  BY <1>2
<1>4. PICK next : next = Mutated(a)
  OBVIOUS
<1>5. row[o] \in Rowlike /\ next \in Rowlike /\ (row'[o] = next => RowStep(a, o))
  BY <1>3, <1>4, MutatedIs
<1>6. Write(o, next)
  BY <1>3, <1>4
<1>7. /\ row'[o] = next
      /\ \A x \in Order \ {o} : row'[x] = row[x]
      /\ current' \subseteq current
      /\ \A b \in current' : act[b].order # o /\ row'[act[b].order] = row[act[b].order]
  BY <1>5, <1>6, Written
<1>8. a \notin current' /\ RowStep(a, o)
  BY <1>3, <1>5, <1>7
<1>9. CASE Done(a)
  <2>1. OthersAlone(a) /\ LocksOK' /\ DOMAIN act' = Actor /\ act'[a] = Idle
    BY <1>1, <1>7, <1>9, DoneAlone
  <2>2. ActorInv(a)'
    BY <1>1, <1>8, <2>1, IdleHolds
  <2> QED
    BY <1>1, <1>2, <1>3, <1>5, <1>6, <1>8, <2>1, <2>2, WriteKeeps
<1>10. CASE act[a].todo # {}
  <2>1. a = Hook /\ act[a].todo \subseteq Rows
    BY <1>2, <1>10 DEF Works
  <2>2. PICK next2 \in act[a].todo :
          act' = [act EXCEPT ![a] = [Doing("load", next2, NoRow) EXCEPT
                                        !.todo = act[a].todo \ {next2}]]
    BY <1>10 DEF Mutates
  <2>3. PICK todo \in SUBSET Order : todo = act[a].todo \ {next2} /\ next2 \in Order
    BY <2>1 DEF Rows
  <2>4. Rows \subseteq Rows'
    BY <1>5, <1>7, RowTypes DEF Rows
  <2>5. {next2} \cup todo \subseteq Rows'
    BY <2>1, <2>3, <2>4
  <2>6. act' = [act EXCEPT ![Hook] = [Doing("load", next2, NoRow) EXCEPT !.todo = todo]]
    BY <2>1, <2>2, <2>3
  <2>7. /\ DOMAIN act' = Actor /\ act'[a] # Idle
        /\ \A b \in Actor \ {a} : act'[b] = act[b]
        /\ ActorInv(a)'
    <3>1. next2 \in Order /\ Hook \notin current'
      BY <1>8, <2>1, <2>3
    <3>2. /\ DOMAIN act' = Actor /\ act'[Hook] # Idle
          /\ \A b \in Actor \ {Hook} : act'[b] = act[b]
          /\ ActorInv(Hook)'
      BY <2>5, <2>6, <3>1, HookGoesOn
    <3> QED
      BY <2>1, <3>2 DEF ActorInv, Works, IsCurrent, Refunds, Creates
  <2>8. UNCHANGED locks
    BY <1>10 DEF Mutates
  <2>9. OthersAlone(a)
    BY <1>7, <2>7, <2>8 DEF OthersAlone
  <2>10. LocksOK'
    BY <1>1, <2>7, <2>8, <2>9, LocksKept DEF SwapInv
  <2> QED
    BY <1>1, <1>2, <1>3, <1>5, <1>6, <1>8, <2>7, <2>9, <2>10, WriteKeeps
<1> QED
  BY <1>9, <1>10 DEF Mutates

LEMMA MutateRowKeeps ==
    ASSUME PluginSwapsAssumption, SwapInv, NEW a \in Refunder \cup {Hook}, MutateRow(a)
    PROVE  SwapInv'
<1>1. a \in Actor /\ "load" \in AtOf(a)
  BY Roles DEF Actor, RefunderAt, HookAt
<1>2. act[a].at = "write" /\ UNCHANGED <<order, lease, lapsed, near, over>>
  BY DEF MutateRow
<1>3. CASE Lands(a) /\ Write(act[a].order, Mutated(a)) /\ Mutates(a)
  BY <1>2, <1>3, MutateLands
<1>4. CASE current' = current \ {a} /\ Done(a) /\ UNCHANGED <<row, aged>>
  BY <1>1, <1>2, <1>4, QuietDone
<1>5. CASE ~Lands(a) /\ UNCHANGED <<row, current, aged>> /\ Done(a)
  <2>1. current' = current \ {a}
    BY <1>5 DEF Lands
  <2> QED
    BY <1>1, <1>2, <1>5, <2>1, QuietDone
<1>6. CASE /\ ~Lands(a) /\ UNCHANGED <<row, current, aged, locks>>
           /\ act' = [act EXCEPT ![a].at = "load", ![a].tries = @ + 1]
  <2>1. act[a] # Idle /\ act[a] \in Task(a) /\ Works(a)
    BY <1>1, <1>2, Holds
  <2>2. PICK d : d = [act[a] EXCEPT !.at = "load", !.tries = act[a].tries + 1]
    OBVIOUS
  <2>3. act' = [act EXCEPT ![a] = d]
    BY <1>6, <2>1, <2>2 DEF Task
  <2>4. d \in Task(a) /\ d.at = "load" /\ d.order = act[a].order /\ d.todo = act[a].todo
    <3>1. act[a].tries + 1 \in Nat
      BY <2>1 DEF Task
    <3> QED
      BY <1>1, <2>1, <2>2, <3>1 DEF Task
  <2>5. act'[a] = d
    BY <1>1, <2>3 DEF SwapInv, SwapTypes
  <2>6. Works(a)'
    BY <1>2, <1>6, <2>1, <2>4, <2>5 DEF Works, Rows
  <2>7. IsCurrent(a)' /\ current' \subseteq Actor
    BY <1>6 DEF IsCurrent, Lands, SwapInv, SwapTypes
  <2> QED
    BY <1>1, <1>2, <1>6, <2>1, <2>3, <2>4, <2>6, <2>7, GoesOn
<1> QED
  BY <1>3, <1>4, <1>5, <1>6 DEF MutateRow

-----------------------------------------------------------------------------
(***************************************************************************)
(* The invariant holds at the start and every step keeps it.               *)
(***************************************************************************)
LEMMA SwapInvInit == PluginSwapsAssumption /\ SwapsInit => SwapInv
<1> SUFFICES ASSUME PluginSwapsAssumption, SwapsInit
             PROVE  SwapInv
  OBVIOUS
<1>1. NewRow \in Rowlike /\ NewRow # NoRow
  BY RowTypes
<1>2. order \in [Order -> ProviderOrder] /\ \A o \in Order : order[o].accepted = {}
  BY DEF SwapsInit, NoOrder, ProviderOrder, State
<1>3. \A o \in Rows : order[o].phase # "none"
  BY DEF SwapsInit, Rows, NoOrder
<1>4. row \in [Order -> Rowlike \cup {NoRow}]
  BY <1>1 DEF SwapsInit
<1>5. SwapTypes
  BY <1>2, <1>3, <1>4 DEF SwapsInit, SwapTypes
<1>6. AcceptedOnce
  BY <1>2 DEF AcceptedOnce
<1>7. \A a \in Actor : ActorInv(a)
  BY DEF SwapsInit, ActorInv, Works, IsCurrent, Refunds, Creates
<1> QED
  BY <1>5, <1>6, <1>7 DEF SwapInv

LEMMA SwapInvStep == PluginSwapsAssumption /\ SwapInv /\ [SwapsNext]_swapVars => SwapInv'
<1> SUFFICES ASSUME PluginSwapsAssumption, SwapInv, [SwapsNext]_swapVars
             PROVE  SwapInv'
  OBVIOUS
<1>1. CASE UNCHANGED swapVars
  BY <1>1, ClockKeeps DEF swapVars, SwapInv, SwapTypes, BoardOK
<1>2. ASSUME NEW p \in Poller, PollStep(p)
      PROVE  SwapInv'
  <2>1. p \in Actor \ {Hook}
    BY Roles DEF Actor
  <2> QED
    BY <1>2, <2>1, RefreshKeeps, SaveKeeps, ReleasePollKeeps, ClaimPollKeeps DEF PollStep
<1>3. ASSUME NEW c \in Creator,
             Create(c) \/ LockRecovery(c) \/ RefreshRow(c) \/ Save(c)
             \/ Reload(c) \/ CreateOrder(c) \/ Persist(c)
      PROVE  SwapInv'
  <2>1. c \in Actor \ {Hook}
    BY Roles DEF Actor
  <2> QED
    BY <1>3, <2>1, CreateKeeps, LockRecoveryKeeps, RefreshKeeps, SaveKeeps, ReloadKeeps,
       CreateOrderKeeps, PersistKeeps
<1>4. ASSUME NEW r \in Refunder,
             RefundStatus(r) \/ Save(r) \/ RequestRefund(r) \/ LoadRow(r) \/ MutateRow(r)
             \/ \E o \in Order : AskRefund(r, o)
      PROVE  SwapInv'
  <2>1. r \in Actor \ {Hook}
    BY Roles DEF Actor
  <2> QED
    BY <1>4, <2>1, RefundStatusKeeps, SaveKeeps, RequestRefundKeeps, LoadRowKeeps,
       MutateRowKeeps, AskRefundKeeps
<1>5. CASE LightningPayment \/ LoadRow(Hook) \/ MutateRow(Hook)
  BY <1>5, LightningPaymentKeeps, LoadRowKeeps, MutateRowKeeps
<1>6. ASSUME NEW o \in Order, Deposit(o) \/ ProviderMoves(o) \/ TimePasses(o) \/ LeaseLapses(o)
      PROVE  SwapInv'
  BY <1>6, ProviderKeeps, TimeKeeps
<1>7. ASSUME NEW a \in Actor, Crash(a)
      PROVE  SwapInv'
  BY <1>7, CrashKeeps
<1> QED
  BY <1>1, <1>2, <1>3, <1>4, <1>5, <1>6, <1>7 DEF SwapsNext

\* Every write of a row is its actor's, and one of those an actor may make.
LEMMA SaveRows ==
    ASSUME PluginSwapsAssumption, SwapInv, NEW a \in Actor, Save(a)
    PROVE  \A x \in Order : RowStep(a, x)
<1>1. act[a].at = "save" /\ act[a].order \in Order /\ Works(a)
  BY Holds DEF Save
<1>2. CASE Lands(a) /\ Write(act[a].order, act[a].next)
  <2>1. PICK o \in Order : o = act[a].order
    BY <1>1
  <2>2. PICK next \in Rowlike : next = act[a].next /\ Keeps(row[o], next)
    <3>1. act[a] # Idle /\ row[o] = act[a].copy
      BY <1>1, <1>2, <2>1, LandsOnCopy DEF Idle
    <3>2. Keeps(act[a].copy, act[a].next)
      BY <1>1, <3>1 DEF Works
    <3> QED
      BY <3>1, <3>2 DEF Keeps
  <2>3. row'[o] = next /\ \A x \in Order \ {o} : row'[x] = row[x]
    BY <1>2, <2>1, <2>2, Written
  <2> QED
    BY <2>2, <2>3 DEF RowStep
<1> QED
  BY <1>2 DEF Save, RowStep

LEMMA MutateRows ==
    ASSUME PluginSwapsAssumption, SwapInv, NEW a \in Refunder \cup {Hook}, MutateRow(a)
    PROVE  \A x \in Order : RowStep(a, x)
<1>1. a \in Actor /\ act[a].at = "write"
  BY DEF Actor, MutateRow
<1>2. CASE Lands(a) /\ Write(act[a].order, Mutated(a))
  <2>1. PICK o \in Order : o = act[a].order
    BY <1>1, Holds
  <2>2. PICK next : next = Mutated(a)
    OBVIOUS
  <2>3. next \in Rowlike /\ (row'[o] = next => RowStep(a, o))
    BY <1>1, <1>2, <2>1, <2>2, MutatedIs
  <2>4. row'[o] = next /\ \A x \in Order \ {o} : row'[x] = row[x]
    BY <1>2, <2>1, <2>2, <2>3, Written
  <2> QED
    BY <2>3, <2>4 DEF RowStep
<1> QED
  BY <1>2 DEF MutateRow, RowStep

LEMMA RowSteps ==
    ASSUME PluginSwapsAssumption, SwapInv, [SwapsNext]_swapVars
    PROVE  \E b \in Actor : \A o \in Order : RowStep(b, o)
<1>1. CASE UNCHANGED row
  <2>1. Hook \in Actor
    BY DEF Actor
  <2> QED
    BY <1>1, <2>1 DEF RowStep
<1>2. CASE \/ \E a \in Actor : Save(a)
           \/ \E c \in Creator : Persist(c)
           \/ \E a \in Refunder \cup {Hook} : MutateRow(a)
  BY <1>2, SaveRows, PersistRows, MutateRows DEF Actor
<1>3. \/ UNCHANGED row
      \/ \E a \in Actor : Save(a)
      \/ \E c \in Creator : Persist(c)
      \/ \E a \in Refunder \cup {Hook} : MutateRow(a)
  BY DEF SwapsNext, PollStep, swapVars, Actor, RefreshRow, ReleasePoll, ClaimPoll, Create, LockRecovery,
     Reload, CreateOrder, RefundStatus, RequestRefund, LoadRow, AskRefund, LightningPayment,
     Deposit, ProviderMoves, TimePasses, LeaseLapses, Crash
<1> QED
  BY <1>1, <1>2, <1>3

LEMMA StampsKept ==
    ASSUME PluginSwapsAssumption, SwapInv, [SwapsNext]_swapVars
    PROVE  KeepsStamps /\ RetiresUnfunded
<1>1. PICK b \in Actor : \A o \in Order : RowStep(b, o)
  BY RowSteps
<1>2. b \in Refunder /\ act[b] # Idle => row[act[b].order].refund = NoOne
  BY DEF SwapInv, ActorInv, Refunds
<1> SUFFICES ASSUME NEW o \in Rows
             PROVE  /\ row[o].settled => row'[o].settled
                    /\ row[o].refund # NoOne => row'[o].refund = row[o].refund
                    /\ row[o].deposit => row'[o].deposit
                    /\ row[o].retired => row'[o].retired
                    /\ row'[o].retired /\ ~row[o].retired => Retirable(row[o])
  BY DEF KeepsStamps, RetiresUnfunded, Retirable
<1>3. o \in Order /\ row[o] \in Rowlike /\ row[o] # NoRow /\ RowStep(b, o)
  BY <1>1 DEF Rows, SwapInv, SwapTypes
<1>4. CASE row'[o] = row[o]
  BY <1>4
<1>5. CASE Keeps(row[o], row'[o])
  BY <1>5 DEF Keeps
<1>6. CASE Retirable(row[o]) /\ row'[o] = [row[o] EXCEPT !.retired = TRUE]
  BY <1>3, <1>6 DEF Rowlike
<1>7. CASE /\ b \in Refunder /\ act[b] # Idle /\ o = act[b].order
           /\ row'[o].retired = row[o].retired
           /\ row[o].settled => row'[o].settled
           /\ row[o].deposit => row'[o].deposit
  BY <1>2, <1>7
<1> QED
  BY <1>3, <1>4, <1>5, <1>6, <1>7 DEF RowStep

\* An actor's copy, while it is current, is the stored row; an accepted
\* address is its swap's lock holder's, or the first of it.
LEMMA SwapInvariant ==
    ASSUME PluginSwapsAssumption
    PROVE  SwapsSpec => []SwapInv
<1>1. SwapsInit => SwapInv
  BY SwapInvInit
<1>2. SwapInv /\ [SwapsNext]_swapVars => SwapInv'
  BY SwapInvStep
<1> QED
  BY <1>1, <1>2, PTL DEF SwapsSpec

-----------------------------------------------------------------------------
(***************************************************************************)
(* Theorems.                                                               *)
(***************************************************************************)
\* Every variable has its type: a row stands beside a provider's order, a
\* held advisory lock's holder is at work, and a current copy is the stored row.
THEOREM SwapRowTypes ==
    ASSUME PluginSwapsAssumption
    PROVE  SwapsSpec => []SwapsTypeOK
<1>1. SwapInv => SwapsTypeOK
  <2> SUFFICES ASSUME SwapInv
               PROVE  SwapsTypeOK
    OBVIOUS
  <2>1. \A o \in Order :
          /\ order[o].phase \in State \cup {"none"} /\ order[o].accepted \subseteq Refunder
          /\ row[o] # NoRow => row[o] \in Rowlike /\ order[o].phase # "none"
          /\ lease[o] \in Poller \cup {NoOne}
    BY DEF SwapInv, SwapTypes, ProviderOrder, Rows
  <2>2. lapsed \cup aged \cup near \subseteq Order /\ over \subseteq near
    BY DEF SwapInv, SwapTypes
  <2>3. ASSUME NEW a \in Actor
        PROVE  act[a].at \in {"idle", "lock", "refresh", "save", "release",
                         "reload", "create", "persist", "status", "ask", "load", "write"}
    <3>1. CASE act[a] = Idle
      BY <3>1 DEF Idle
    <3>2. CASE act[a] # Idle
      <4>1. act[a].at \in AtOf(a)
        BY <3>2 DEF SwapInv, ActorInv, Works, Task
      <4> QED
        BY <4>1 DEF AtOf, PollerAt, CreatorAt, RefunderAt, HookAt
    <3> QED
      BY <3>1, <3>2
  <2>4. \A k \in DOMAIN locks : locks[k] # NoOne => act[locks[k]] # Idle
    BY DEF SwapInv, SwapTypes
  <2>5. \A a \in current : act[a] # Idle /\ act[a].copy = row[act[a].order]
    BY DEF SwapInv, SwapTypes, ActorInv, IsCurrent
  <2> QED
    BY <2>1, <2>2, <2>3, <2>4, <2>5 DEF SwapsTypeOK
<1> QED
  BY <1>1, SwapInvariant, PTL

\* The provider never takes two refund addresses of one order, whichever
\* request crashed after it had taken the first (RefundAsync's advisory lock
\* and the status it asks for inside it).
THEOREM OneAddressAccepted ==
    ASSUME PluginSwapsAssumption
    PROVE  SwapsSpec => []OneRefundAddress
<1>1. SwapInv => OneRefundAddress
  <2> SUFFICES ASSUME SwapInv, NEW o \in Order
               PROVE  Cardinality(order[o].accepted) <= 1
    BY DEF OneRefundAddress
  <2>1. order[o].accepted = {} \/ \E r \in Refunder : order[o].accepted = {r}
    BY DEF SwapInv, AcceptedOnce
  <2>2. CASE order[o].accepted = {}
    BY <2>2, FS_EmptySet
  <2>3. ASSUME NEW r \in Refunder, order[o].accepted = {r}
        PROVE  Cardinality(order[o].accepted) <= 1
    <3>1. Cardinality({r}) = 1
      BY FS_Singleton
    <3> QED
      BY <2>3, <3>1
  <2> QED
    BY <2>1, <2>2, <2>3
<1> QED
  BY <1>1, SwapInvariant, PTL

\* No write of a poller, a creation, a refund or the payment event undoes a
\* settled stamp, an accepted address, a seen deposit or a retirement
\* (UpdateAsync lands only on the version that was loaded).
THEOREM WritesKeepStamps ==
    ASSUME PluginSwapsAssumption
    PROVE  SwapsSpec => StampsStay
<1>1. SwapInv /\ [SwapsNext]_swapVars => [KeepsStamps]_swapVars
  BY StampsKept
<1> QED
  BY <1>1, SwapInvariant, PTL DEF SwapsSpec, StampsStay

\* A creation retires an order only while no deposit is known for it or once
\* it is over (ReplaceAsync retires the exact version the creation judged).
THEOREM RetiredIsUnfunded ==
    ASSUME PluginSwapsAssumption
    PROVE  SwapsSpec => RetiredUnfunded
<1>1. SwapInv /\ [SwapsNext]_swapVars => [RetiresUnfunded]_swapVars
  BY StampsKept
<1> QED
  BY <1>1, SwapInvariant, PTL DEF SwapsSpec, RetiredUnfunded

-----------------------------------------------------------------------------
(***************************************************************************)
(* What the process remembers of a wallet, and the recovery that asks it.  *)
(***************************************************************************)
\* Rows do not age out within the run.
MemoKeepsRows == ~Forgets

\* A watched row says when its invoice was created; or none does, and all were
\* created within the fallback window.
AgesAreKnown == Hash \subseteq Dated \/ (Dated = {} /\ Hash \subseteq Recent)

Stages == {"ask", "settled", "unpaid", "learn", "lookup", "deep settled", "deep unpaid",
           "judge", "finish"}

Finds == UNION {[found -> Status] : found \in SUBSET Hash}

Walks == [at : Stages, past : SUBSET Hash, old : SUBSET Hash, todo : SUBSET Hash,
          looked : SUBSET Hash, absent : SUBSET Hash, expected : SUBSET Hash,
          known : SUBSET Hash, deep : SUBSET Hash,
          got : Finds,
          missing : SUBSET Hash, cut : BOOLEAN, targets : SUBSET Hash, deepCut : BOOLEAN]

Cursors == [hashes : SUBSET Hash, seen : SUBSET Hash, unpaid : BOOLEAN, moved : BOOLEAN,
            resumed : BOOLEAN, skips : BOOLEAN]

Asks == {NoAsk} \cup [at : {"watched", "refreshing", "forcing"}, hash : Hash]

MemoTypes ==
    /\ wallet \in [Hash -> Status] /\ rows \in [Hash -> Status]
    /\ past \subseteq Hash /\ watched \subseteq Hash /\ deepWalked \subseteq Hash
    /\ covered \subseteq past
    /\ walk \in Walks \cup {NoWalk} /\ cursor \in Cursors
    /\ ask \in Asks
    /\ restarts \in Nat

\* What the memo says of a hash, the wallet said before, and a minted invoice is in it.
RowsAreTrue ==
    /\ \A h \in Hash : rows[h] \in {"settled", "expired"} => wallet[h] = rows[h]
    /\ \A h \in Stored : wallet[h] # "none"

\* The wallet has this hash, and the memo does not know it.
Unseen(h) == rows[h] = "none" /\ wallet[h] # "none"

\* What is left of a failed unbounded walk: nothing it is done with is unseen.
CursorIsTrue ==
    /\ \A h \in cursor.seen : ~Unseen(h)
    /\ \A h \in cursor.hashes : Unseen(h) => h \in watched
    /\ \A h \in deepWalked : ~Unseen(h)
    /\ cursor.skips => cursor.resumed

\* The hashes of the cursor that are unseen are still looked for.
Tracked(h) ==
    /\ walk.at = "settled" => h \in walk.expected
    /\ walk.at \in {"unpaid", "learn"} => h \in walk.missing \cup DOMAIN walk.got
    /\ walk.at = "lookup" => h \in walk.missing
    /\ walk.at \in {"deep settled", "deep unpaid", "judge"} => h \in walk.targets

\* Its grace was over when the walk began, the walk looks for it, and it is
\* settled without the memo knowing.
Late(h) ==
    /\ h \in LookedFor /\ h \in walk.past
    /\ wallet[h] = "settled" /\ rows[h] # "settled"

ForDeepWalk(h) == h \in walk.missing /\ h \in walk.deep /\ h \notin cursor.seen

\* No walk that failed or was cut short vouches for this one.
Doubted == walk.deepCut \/ cursor.resumed

\* Such a hash is in the part of the wallet that is still to be read, or the walk
\* knows that it was cut short.
Sought(h) ==
    /\ walk.at = "ask" => h \notin walk.looked
    /\ walk.at = "settled" =>
           /\ h \in walk.expected
           /\ h \in InWindow \/ (h \in walk.deep /\ h \notin cursor.seen)
    /\ walk.at \in {"unpaid", "learn"} =>
           \/ walk.cut \/ ForDeepWalk(h)
           \/ h \in DOMAIN walk.got /\ walk.got[h] = "settled"
    /\ walk.at = "lookup" => walk.cut \/ ForDeepWalk(h)
    /\ walk.at \in {"deep settled", "deep unpaid", "judge"} =>
           \/ walk.cut \/ (h \in walk.deep /\ h \notin cursor.hashes)
           \/ /\ h \in walk.targets
              /\ walk.at \in {"deep settled", "deep unpaid"} => h \notin cursor.seen
              /\ walk.at \in {"deep unpaid", "judge"} => Doubted
    /\ walk.at = "finish" => walk.cut

WalkIsTrue ==
    walk # NoWalk =>
        /\ walk.old \subseteq watched /\ walk.past \subseteq past
        /\ walk.expected \subseteq watched /\ walk.deep \subseteq walk.expected
        /\ walk.at = "ask" => walk.todo \cup walk.looked \subseteq walk.old
        /\ \A h \in walk.absent : wallet[h] = "none"
        /\ \A h \in DOMAIN walk.got :
               /\ walk.got[h] # "none"
               /\ walk.got[h] \in {"settled", "expired"} => wallet[h] = walk.got[h]
        /\ walk.at = "unpaid" => \A h \in DOMAIN walk.got : walk.got[h] = "settled"
        /\ walk.at = "judge" => \A h \in walk.targets : wallet[h] = "none" \/ Doubted
        /\ \A h \in cursor.hashes : Unseen(h) => Tracked(h)
        /\ \A h \in Hash : Late(h) => Sought(h)

MemoInv == MemoTypes /\ RowsAreTrue /\ CursorIsTrue /\ WalkIsTrue

\* The wallet, time and the memo's rows only go on.
Onward ==
    /\ watched \subseteq watched' /\ past \subseteq past'
    /\ \A h \in Hash :
           /\ wallet'[h] = "none" <=> wallet[h] = "none"
           /\ wallet[h] \in {"settled", "expired"} => wallet'[h] = wallet[h]
           /\ wallet'[h] = "settled" /\ h \in past => wallet[h] = "settled"
           /\ rows[h] # "none" => rows'[h] # "none"
           /\ rows[h] = "settled" => rows'[h] = "settled"

\* A step that leaves the walk and its cursor alone keeps the invariant.
LEMMA OnwardKeeps ==
    ASSUME MemoInv, MemoTypes', RowsAreTrue', Onward, UNCHANGED <<walk, cursor, deepWalked>>
    PROVE  MemoInv'
<1> USE DEF MemoInv
<1>1. \A h \in Hash : Unseen(h)' => Unseen(h)
  BY DEF Onward, Unseen
<1>2. walk # NoWalk => \A h \in Hash : Late(h)' => Late(h)
  BY DEF Late, LookedFor, Onward, WalkIsTrue
<1>3. cursor \in Cursors /\ deepWalked \subseteq Hash
  BY DEF MemoTypes
<1>4. CursorIsTrue'
  BY <1>1, <1>3 DEF CursorIsTrue, Cursors, Onward
<1>5. WalkIsTrue'
  <2> SUFFICES ASSUME walk' # NoWalk
               PROVE  /\ walk'.old \subseteq watched' /\ walk'.past \subseteq past'
                      /\ walk'.expected \subseteq watched' /\ walk'.deep \subseteq walk'.expected
                      /\ walk'.at = "ask" => walk'.todo \cup walk'.looked \subseteq walk'.old
                      /\ \A h \in walk'.absent : wallet'[h] = "none"
                      /\ \A h \in DOMAIN walk'.got :
                             /\ walk'.got[h] # "none"
                             /\ walk'.got[h] \in {"settled", "expired"}
                                    => wallet'[h] = walk'.got[h]
                      /\ walk'.at = "unpaid" =>
                             \A h \in DOMAIN walk'.got : walk'.got[h] = "settled"
                      /\ walk'.at = "judge" =>
                             \A h \in walk'.targets : wallet'[h] = "none" \/ Doubted'
                      /\ \A h \in cursor'.hashes : Unseen(h)' => Tracked(h)'
                      /\ \A h \in Hash : Late(h)' => Sought(h)'
    BY DEF WalkIsTrue
  <2>1. walk' = walk /\ cursor' = cursor /\ walk \in Walks
    BY DEF MemoTypes
  <2>2. walk.absent \subseteq Hash /\ walk.targets \subseteq Hash /\ DOMAIN walk.got \subseteq Hash
    BY <2>1 DEF Walks, Finds
  <2>3. /\ walk.old \subseteq watched' /\ walk.past \subseteq past'
        /\ walk.expected \subseteq watched' /\ walk.deep \subseteq walk.expected
        /\ walk.at = "ask" => walk.todo \cup walk.looked \subseteq walk.old
    BY <2>1 DEF WalkIsTrue, Onward
  <2>4. \A h \in walk.absent : wallet'[h] = "none"
    BY <2>1, <2>2 DEF WalkIsTrue, Onward
  <2>5. \A h \in DOMAIN walk.got :
            /\ walk.got[h] # "none"
            /\ walk.got[h] \in {"settled", "expired"} => wallet'[h] = walk.got[h]
    BY <2>1, <2>2 DEF WalkIsTrue, Onward
  <2>6. walk.at = "judge" => \A h \in walk.targets : wallet'[h] = "none" \/ Doubted'
    BY <2>1, <2>2 DEF WalkIsTrue, Onward, Doubted
  <2>7. \A h \in cursor.hashes : Unseen(h)' => Tracked(h)'
    BY <1>1, <1>3, <2>1 DEF WalkIsTrue, Tracked, Cursors
  <2>8. \A h \in Hash : Late(h)' => Sought(h)'
    BY <1>2, <2>1 DEF WalkIsTrue, Sought, ForDeepWalk, Doubted, InWindow
  <2>9. walk.at = "unpaid" => \A h \in DOMAIN walk.got : walk.got[h] = "settled"
    BY <2>1 DEF WalkIsTrue
  <2> QED
    BY <2>1, <2>3, <2>4, <2>5, <2>6, <2>7, <2>8, <2>9
<1> QED
  BY <1>4, <1>5

\* What Seen reports, and that it is a report.
LEMMA SeenIs ==
    ASSUME NEW S
    PROVE  DOMAIN Seen(S) = S /\ \A h \in S : Seen(S)[h] = wallet[h]
  BY DEF Seen

LEMMA SeenIsFound ==
    ASSUME MemoTypes, NEW S \in SUBSET Hash
    PROVE  Seen(S) \in Finds
<1>1. Seen(S) \in [S -> Status]
  BY DEF Seen, MemoTypes
<1> QED
  BY <1>1 DEF Finds

\* What the memo records of `found` is true when `found` is.
LEMMA Recorded ==
    ASSUME MemoTypes, RowsAreTrue, NEW found, rows' = Upserted(found), wallet' = wallet,
           DOMAIN found \subseteq Hash,
           \A h \in DOMAIN found :
               /\ found[h] \in Status \ {"none"}
               /\ found[h] \in {"settled", "expired"} => wallet[h] = found[h]
    PROVE  /\ rows' \in [Hash -> Status] /\ RowsAreTrue'
           /\ \A h \in Hash :
                  /\ rows[h] # "none" => rows'[h] # "none"
                  /\ rows[h] = "settled" => rows'[h] = "settled"
           /\ \A h \in DOMAIN found :
                  /\ rows'[h] # "none"
                  /\ found[h] = "settled" => rows'[h] = "settled"
<1>1. rows' = [h \in Hash |-> IF h \in DOMAIN found /\ rows[h] # "settled"
                              THEN found[h] ELSE rows[h]]
  BY DEF Upserted
<1>2. rows \in [Hash -> Status]
  BY DEF MemoTypes
<1>3. rows' \in [Hash -> Status]
  BY <1>1, <1>2
<1>4. \A h \in Hash : rows'[h] = IF h \in DOMAIN found /\ rows[h] # "settled"
                                 THEN found[h] ELSE rows[h]
  BY <1>1
<1>5. RowsAreTrue'
  BY <1>4 DEF RowsAreTrue
<1> QED
  BY <1>3, <1>4, <1>5

\* Steps beside the walks and the rows.
LEMMA BesideKeeps ==
    ASSUME MemoInv,
           UNCHANGED <<wallet, past, rows, watched, deepWalked, walk, cursor, covered>>,
           ask' \in Asks, restarts' \in Nat
    PROVE  MemoInv'
<1>1. MemoTypes' /\ RowsAreTrue'
  BY DEF MemoInv, MemoTypes, RowsAreTrue
<1>2. Onward
  BY DEF Onward
<1> QED
  BY <1>1, <1>2, OnwardKeeps

\* GetInvoice and a pass restore a row and watch it (NwcConnectionState.RestoreAsync).
LEMMA WatchKeeps ==
    ASSUME WalletMemoAssumption, MemoInv, NEW h \in Hash, RestoreAndWatch(h),
           UNCHANGED <<wallet, past, walk, cursor, covered>>,
           ask' \in Asks, restarts' \in Nat
    PROVE  MemoInv'
<1>1. PICK restored : restored = [g \in {h} \cap {g \in Stored : rows[g] = "none"} |-> "pending"]
  OBVIOUS
<1>2. /\ rows' = Upserted(restored)
      /\ watched' = watched \cup {g \in {h} : ~Terminal(h)}
      /\ UNCHANGED deepWalked
  BY <1>1 DEF RestoreAndWatch
<1>3. /\ DOMAIN restored \subseteq Hash
      /\ \A g \in DOMAIN restored : restored[g] \in Status \ {"none"}
                                     /\ restored[g] \notin {"settled", "expired"}
  BY <1>1 DEF Status
<1>4. MemoTypes /\ RowsAreTrue
  BY DEF MemoInv
<1>5. /\ rows' \in [Hash -> Status] /\ RowsAreTrue'
      /\ \A g \in Hash :
             /\ rows[g] # "none" => rows'[g] # "none"
             /\ rows[g] = "settled" => rows'[g] = "settled"
  BY <1>2, <1>3, <1>4, Recorded
<1>6. MemoTypes'
  BY <1>2, <1>4, <1>5 DEF MemoTypes
<1>7. Onward
  BY <1>2, <1>5 DEF Onward
<1> QED
  BY <1>2, <1>5, <1>6, <1>7, OnwardKeeps

\* The wallet, time and a push.
LEMMA WorldKeeps ==
    ASSUME WalletMemoAssumption, MemoInv, NEW h \in Hash,
           Push(h) \/ Pays(h) \/ Lapses(h) \/ GraceEnds(h)
    PROVE  MemoInv'
<1>1. /\ MemoTypes /\ RowsAreTrue /\ wallet \in [Hash -> Status]
      /\ past \subseteq Hash
  BY DEF MemoInv, MemoTypes
<1>2. CASE Push(h)
  <2>1. /\ rows' = Upserted(Seen({h})) /\ wallet[h] = "settled"
        /\ UNCHANGED <<wallet, past, watched, deepWalked, walk, cursor, covered, ask, restarts>>
    BY <1>2 DEF Push, world, walking
  <2>2. /\ rows' \in [Hash -> Status] /\ RowsAreTrue'
        /\ \A g \in Hash :
               /\ rows[g] # "none" => rows'[g] # "none"
               /\ rows[g] = "settled" => rows'[g] = "settled"
    <3>1. /\ DOMAIN Seen({h}) \subseteq Hash
          /\ \A g \in DOMAIN Seen({h}) :
                 /\ Seen({h})[g] \in Status \ {"none"}
                 /\ Seen({h})[g] \in {"settled", "expired"}
                        => wallet[g] = Seen({h})[g]
      BY <2>1, SeenIs DEF Status
    <3> QED
      BY <1>1, <2>1, <3>1, Recorded
  <2>3. MemoTypes' /\ Onward
    BY <1>1, <2>1, <2>2 DEF MemoTypes, Onward
  <2> QED
    BY <2>1, <2>2, <2>3, OnwardKeeps
<1>3. ASSUME NEW status \in {"settled", "expired"}, wallet[h] = "pending",
             wallet' = [wallet EXCEPT ![h] = status], status = "settled" => h \notin past,
             UNCHANGED <<past, rows, watched, deepWalked, walk, cursor, covered, ask, restarts>>
      PROVE  MemoInv'
  <2>1. wallet' \in [Hash -> Status]
        /\ \A g \in Hash : wallet'[g] = IF g = h THEN status ELSE wallet[g]
    BY <1>1, <1>3 DEF Status
  <2>2. MemoTypes'
    BY <1>1, <1>3, <2>1 DEF MemoTypes
  <2>3. RowsAreTrue'
    <3>1. Stored \subseteq Hash
      BY DEF WalletMemoAssumption
    <3> QED
      BY <1>1, <1>3, <2>1, <3>1 DEF RowsAreTrue
  <2>4. Onward
    BY <1>1, <1>3, <2>1 DEF Onward
  <2> QED
    BY <1>3, <2>2, <2>3, <2>4, OnwardKeeps
<1>4. CASE Pays(h)
  BY <1>3, <1>4 DEF Pays, memo, walking
<1>5. CASE Lapses(h)
  BY <1>3, <1>5 DEF Lapses, memo, walking
<1>6. CASE GraceEnds(h)
  <2>1. /\ past' = past \cup {h}
        /\ UNCHANGED <<wallet, rows, watched, deepWalked, walk, cursor, covered, ask, restarts>>
    BY <1>6 DEF GraceEnds, memo, walking
  <2>2. MemoTypes' /\ RowsAreTrue' /\ Onward
    BY <1>1, <2>1 DEF MemoTypes, RowsAreTrue, Onward
  <2> QED
    BY <2>1, <2>2, OnwardKeeps
<1> QED
  BY <1>2, <1>4, <1>5, <1>6

\* A walk that begins has read nothing, so whatever is late is still sought.
LEMMA WalkStarts ==
    ASSUME MemoInv, walk = NoWalk, walk' = Begin,
           UNCHANGED <<wallet, past, rows, watched, deepWalked, cursor, covered, restarts>>,
           ask' \in Asks
    PROVE  MemoInv'
<1>1. PICK todo \in SUBSET watched : walk' =
        [at |-> "ask", past |-> past, old |-> watched, todo |-> todo,
         looked |-> {}, absent |-> {}, expected |-> {}, known |-> {}, deep |-> {},
         got |-> Seen({}), missing |-> {}, cut |-> FALSE, targets |-> {},
         deepCut |-> FALSE]
  BY DEF Begin, MemoInv, MemoTypes
<1>2. Seen({}) \in Finds /\ DOMAIN Seen({}) = {}
  BY SeenIs, SeenIsFound DEF MemoInv
<1>3. /\ walk' \in Walks /\ walk'.at = "ask" /\ walk'.past = past /\ walk'.old = watched
      /\ walk'.looked = {} /\ walk'.absent = {} /\ walk'.expected = {} /\ walk'.deep = {}
      /\ walk'.todo \subseteq watched
      /\ DOMAIN walk'.got = {}
  BY <1>1, <1>2 DEF Walks, Stages, MemoInv, MemoTypes
<1>4. MemoTypes' /\ RowsAreTrue' /\ CursorIsTrue'
  BY <1>3 DEF MemoInv, MemoTypes, RowsAreTrue, CursorIsTrue, Unseen
<1>5. WalkIsTrue'
  <2>1. /\ walk'.at # "judge" /\ \A h : Tracked(h)' /\ Sought(h)'
    BY <1>3 DEF Tracked, Sought
  <2>2. /\ walk'.old \subseteq watched' /\ walk'.past \subseteq past'
        /\ walk'.expected \subseteq watched' /\ walk'.deep \subseteq walk'.expected
        /\ walk'.todo \cup walk'.looked \subseteq walk'.old
    BY <1>3
  <2> QED
    BY <1>3, <2>1, <2>2 DEF WalkIsTrue
<1> QED
  BY <1>4, <1>5 DEF MemoInv

\* RefreshAsync shares a walk, starts one or finds the memo fresh.
LEMMA MemoRefreshKeeps ==
    ASSUME MemoInv, NEW c, NEW force \in BOOLEAN, Refresh(c, force),
           ask' \in Asks
    PROVE  MemoInv'
<1>1. UNCHANGED <<wallet, past, restarts, cursor, covered, rows, watched, deepWalked>>
  BY DEF Refresh, Share, Start, FindFresh, memo, world
<1>2. restarts \in Nat
  BY DEF MemoInv, MemoTypes
<1>3. CASE Start(c, force)
  <2>1. walk = NoWalk /\ walk' = Begin
    BY <1>3 DEF Start, Resting
  <2> QED
    BY <1>1, <2>1, WalkStarts
<1>4. CASE Share(c, force) \/ FindFresh(c, force)
  BY <1>1, <1>2, <1>4, BesideKeeps DEF Share, FindFresh
<1> QED
  BY <1>3, <1>4 DEF Refresh

-----------------------------------------------------------------------------
\* A step of a walk reads what the walk holds; what it has to show.
WalkGoesOn ==
    /\ walk # NoWalk /\ walk' \in Walks /\ cursor' \in Cursors
    /\ UNCHANGED <<wallet, past, watched, covered, ask, restarts>>
    /\ walk'.old = walk.old /\ walk'.past = walk.past

RowsGoOn ==
    /\ rows' \in [Hash -> Status] /\ RowsAreTrue'
    /\ \A h \in Hash :
           /\ rows[h] # "none" => rows'[h] # "none"
           /\ rows[h] = "settled" => rows'[h] = "settled"

\* The proof obligations of a step of a walk.
LEMMA WalkStepKeeps ==
    ASSUME MemoInv, WalkGoesOn, RowsGoOn, deepWalked' \subseteq Hash, CursorIsTrue',
           walk'.expected \subseteq watched, walk'.deep \subseteq walk'.expected,
           walk'.at = "ask" => walk'.todo \cup walk'.looked \subseteq walk.old,
           \A h \in walk'.absent : wallet[h] = "none",
           \A h \in DOMAIN walk'.got :
               /\ walk'.got[h] # "none"
               /\ walk'.got[h] \in {"settled", "expired"} => wallet[h] = walk'.got[h],
           walk'.at = "unpaid" => \A h \in DOMAIN walk'.got : walk'.got[h] = "settled",
           walk'.at = "judge" => \A h \in walk'.targets : wallet[h] = "none" \/ Doubted',
           \A h \in cursor'.hashes : Unseen(h) /\ Unseen(h)' => Tracked(h)',
           \A h \in Hash :
               Late(h)' /\ (walk'.expected = walk.expected => Late(h)) => Sought(h)'
    PROVE  MemoInv'
<1>1. MemoTypes'
  BY DEF MemoInv, MemoTypes, WalkGoesOn, RowsGoOn
<1>2. \A h \in Hash : /\ Unseen(h)' => Unseen(h)
                      /\ Late(h)' => (walk'.expected = walk.expected => Late(h))
  BY DEF WalkGoesOn, RowsGoOn, Unseen, Late, LookedFor
<1>3. walk'.old \subseteq watched' /\ walk'.past \subseteq past' /\ wallet' = wallet
      /\ watched' = watched
  BY DEF WalkGoesOn, MemoInv, WalkIsTrue
<1>4. cursor'.hashes \subseteq Hash
  BY DEF WalkGoesOn, Cursors
<1>5. WalkIsTrue'
  <2>1. \A h \in cursor'.hashes : Unseen(h)' => Tracked(h)'
    BY <1>2, <1>4
  <2>2. \A h \in Hash : Late(h)' => Sought(h)'
    BY <1>2
  <2>3. /\ walk'.expected \subseteq watched' /\ walk'.deep \subseteq walk'.expected
        /\ walk'.at = "ask" => walk'.todo \cup walk'.looked \subseteq walk'.old
        /\ \A h \in walk'.absent : wallet'[h] = "none"
        /\ \A h \in DOMAIN walk'.got :
               /\ walk'.got[h] # "none"
               /\ walk'.got[h] \in {"settled", "expired"} => wallet'[h] = walk'.got[h]
        /\ walk'.at = "unpaid" => \A h \in DOMAIN walk'.got : walk'.got[h] = "settled"
        /\ walk'.at = "judge" => \A h \in walk'.targets : wallet'[h] = "none" \/ Doubted'
    BY <1>3 DEF WalkGoesOn
  <2> QED
    BY <1>3, <2>1, <2>2, <2>3 DEF WalkIsTrue
<1> QED
  BY <1>1, <1>5 DEF MemoInv, RowsGoOn

\* What a running walk may be relied on for.
LEMMA Walking ==
    ASSUME MemoInv, walk.at # "none"
    PROVE  /\ walk # NoWalk /\ walk \in Walks /\ cursor \in Cursors
           /\ DOMAIN walk.got \subseteq Hash
           /\ \A h \in DOMAIN walk.got : walk.got[h] \in Status
  BY DEF MemoInv, MemoTypes, NoWalk, Walks, Finds

\* Steps that record nothing, and those that leave the cursor.
LEMMA SameRows ==
    ASSUME MemoInv, UNCHANGED <<rows, wallet>>
    PROVE  RowsGoOn
  BY DEF RowsGoOn, MemoInv, MemoTypes, RowsAreTrue

LEMMA SameCursor ==
    ASSUME MemoInv, RowsGoOn, UNCHANGED <<wallet, watched, cursor, deepWalked>>
    PROVE  CursorIsTrue' /\ deepWalked' \subseteq Hash
<1>1. \A h \in Hash : Unseen(h)' => Unseen(h)
  BY DEF RowsGoOn, Unseen
<1> QED
  BY <1>1 DEF MemoInv, MemoTypes, CursorIsTrue, Cursors

\* A late hash is expected, in the window or for the unbounded walk (ScanMemo.cs:324).
LEMMA ExpectKeeps ==
    ASSUME WalletMemoAssumption, AgesAreKnown, MemoInv, Expect
    PROVE  MemoInv' /\ WalkGoesOn /\ RowsGoOn
<1>1. PICK expected, unknown :
        /\ expected = {h \in watched \ walk.absent : ~Terminal(h)}
        /\ unknown = {h \in expected : UnknownAge(h)}
        /\ walk' = [walk EXCEPT
             !.at = IF expected = {} THEN "finish" ELSE "settled",
             !.expected = expected,
             !.known = expected \ unknown,
             !.deep = unknown \ (deepWalked \cup walk.looked)]
  BY DEF Expect
<1>2. /\ walk.at = "ask"
      /\ UNCHANGED <<wallet, past, rows, watched, deepWalked, covered, ask, restarts, cursor>>
  BY DEF Expect, memo, world
<1>3. /\ walk # NoWalk /\ walk \in Walks /\ cursor \in Cursors
      /\ \A h \in DOMAIN walk.got : walk.got[h] \in Status
  BY <1>2, Walking
<1>4. expected \subseteq watched /\ unknown \subseteq expected /\ watched \subseteq Hash
  BY <1>1 DEF MemoInv, MemoTypes
<1>5. /\ walk' \in Walks /\ walk'.old = walk.old /\ walk'.past = walk.past
      /\ walk'.at = IF expected = {} THEN "finish" ELSE "settled"
      /\ walk'.expected = expected /\ walk'.known = expected \ unknown
      /\ walk'.deep = unknown \ (deepWalked \cup walk.looked)
      /\ walk'.absent = walk.absent /\ walk'.got = walk.got
  <2>1. PICK stage, known, deep :
          /\ stage = IF expected = {} THEN "finish" ELSE "settled"
          /\ known = expected \ unknown
          /\ deep = unknown \ (deepWalked \cup walk.looked)
    OBVIOUS
  <2>2. walk' = [walk EXCEPT !.at = stage, !.expected = expected, !.known = known, !.deep = deep]
    BY <1>1, <2>1
  <2>3. /\ stage \in Stages /\ expected \in SUBSET Hash /\ known \in SUBSET Hash
        /\ deep \in SUBSET Hash
    BY <1>4, <2>1 DEF Stages
  <2> QED
    BY <1>3, <2>1, <2>2, <2>3 DEF Walks
<1>6. WalkGoesOn /\ RowsGoOn /\ CursorIsTrue' /\ deepWalked' \subseteq Hash
  BY <1>2, <1>3, <1>5, SameRows, SameCursor DEF WalkGoesOn
<1>7. \A h \in cursor.hashes : Unseen(h) => h \in expected
  BY <1>1, <1>2, <1>3 DEF MemoInv, CursorIsTrue, WalkIsTrue, Unseen, Terminal
<1>8. \A h \in Hash : Late(h)' => h \in expected /\ h \notin walk.looked
                                    /\ wallet[h] = "settled"
  <2> SUFFICES ASSUME NEW h \in Hash, Late(h)'
               PROVE  h \in expected /\ h \notin walk.looked /\ wallet[h] = "settled"
    OBVIOUS
  <2>1. /\ h \in walk.old \/ h \in expected
        /\ h \in walk.past /\ wallet[h] = "settled" /\ rows[h] # "settled"
    BY <1>2, <1>5 DEF Late, LookedFor
  <2>2. CASE h \in walk.old
    <3>1. Late(h)
      BY <2>1, <2>2 DEF Late, LookedFor
    <3> QED
      BY <1>1, <1>2, <1>3, <2>1, <2>2, <3>1
         DEF MemoInv, RowsAreTrue, WalkIsTrue, Terminal, Sought
  <2>3. CASE h \notin walk.old
    BY <1>2, <1>3, <2>1, <2>3 DEF MemoInv, WalkIsTrue
  <2> QED
    BY <2>2, <2>3
<1>9. \A h \in Hash : Late(h)' => Sought(h)'
  <2> SUFFICES ASSUME NEW h \in Hash, Late(h)'
               PROVE  Sought(h)'
    OBVIOUS
  <2>1. h \in expected /\ walk'.at = "settled"
    BY <1>5, <1>8
  <2>2. h \notin walk.looked /\ wallet[h] = "settled"
    BY <1>8
  <2>3. rows[h] \in {"none", "pending"}
    BY <2>1, <1>1 DEF MemoInv, MemoTypes, Status, Terminal
  <2>4. CASE Hash \subseteq Dated
    <3>1. CASE rows[h] = "none"
      <4>1. Unseen(h)
        BY <2>2, <3>1 DEF Unseen
      <4>2. h \notin deepWalked /\ h \notin cursor.seen
        BY <4>1 DEF MemoInv, CursorIsTrue
      <4>3. h \in walk'.deep
        BY <1>1, <1>5, <2>1, <2>2, <3>1, <4>2 DEF UnknownAge
      <4> QED
        BY <1>2, <1>5, <2>1, <4>2, <4>3 DEF Sought
    <3>2. CASE rows[h] = "pending"
      <4>1. h \in walk'.known
        BY <1>1, <1>5, <2>1, <2>4, <3>2 DEF UnknownAge
      <4> QED
        BY <1>5, <2>1, <4>1 DEF Sought, InWindow
    <3> QED
      BY <2>3, <3>1, <3>2
  <2>5. CASE Dated = {} /\ Hash \subseteq Recent
    <3>1. walk'.known = {}
      BY <1>1, <1>4, <1>5, <2>5 DEF UnknownAge, Terminal, MemoInv, MemoTypes, Status
    <3> QED
      BY <1>5, <2>1, <2>5, <3>1 DEF Sought, InWindow
  <2> QED
    BY <2>4, <2>5 DEF AgesAreKnown
<1>10. \A h \in cursor'.hashes : Unseen(h) => Tracked(h)'
  BY <1>2, <1>5, <1>7 DEF Tracked
<1>11. /\ walk'.at \notin {"ask", "unpaid", "judge"}
       /\ walk'.expected \subseteq watched /\ walk'.deep \subseteq walk'.expected
       /\ \A h \in walk'.absent : wallet[h] = "none"
       /\ \A h \in DOMAIN walk'.got :
              /\ walk'.got[h] # "none"
              /\ walk'.got[h] \in {"settled", "expired"} => wallet[h] = walk'.got[h]
  BY <1>3, <1>4, <1>5 DEF MemoInv, WalkIsTrue
<1> QED
  BY <1>6, <1>9, <1>10, <1>11, WalkStepKeeps

\* A view that was not cut short reports what is settled in its window.
LEMMA SettledViewKeeps ==
    ASSUME MemoInv, SettledView
    PROVE  MemoInv' /\ WalkGoesOn /\ RowsGoOn
<1>1. PICK seen \in SUBSET walk.expected, cut \in BOOLEAN :
        /\ View(walk.expected, Settled, seen, cut)
        /\ walk' = [walk EXCEPT
             !.at = IF seen = walk.expected THEN "learn" ELSE "unpaid",
             !.got = Seen(seen),
             !.missing = walk.expected \ seen,
             !.cut = cut]
  BY DEF SettledView
<1>2. /\ walk.at = "settled"
      /\ UNCHANGED <<wallet, past, rows, watched, deepWalked, covered, ask, restarts, cursor>>
  BY DEF SettledView, memo, world
<1>3. walk # NoWalk /\ walk \in Walks /\ cursor \in Cursors
  BY <1>2, Walking
<1>4. /\ walk.expected \subseteq Hash /\ seen \in SUBSET Hash
      /\ \A h \in seen : wallet[h] = "settled"
      /\ ~cut => walk.expected \cap Settled \cap InWindow \subseteq seen
  BY <1>1, <1>3 DEF Walks, View, Settled
<1>5. /\ walk' \in Walks /\ walk'.old = walk.old /\ walk'.past = walk.past
      /\ walk'.at \in {"learn", "unpaid"} /\ walk'.cut = cut
      /\ walk'.got = Seen(seen) /\ walk'.missing = walk.expected \ seen
      /\ walk'.absent = walk.absent /\ walk'.expected = walk.expected
      /\ walk'.deep = walk.deep
  <2>1. PICK stage, got, missing :
          /\ stage \in {"learn", "unpaid"} /\ stage = (IF seen = walk.expected THEN "learn" ELSE "unpaid")
          /\ got = Seen(seen) /\ missing = walk.expected \ seen
    OBVIOUS
  <2>2. walk' = [walk EXCEPT !.at = stage, !.got = got, !.missing = missing, !.cut = cut]
    BY <1>1, <2>1
  <2>3. stage \in Stages /\ got \in Finds /\ missing \in SUBSET Hash
    BY <1>4, <2>1, SeenIsFound DEF Stages, MemoInv
  <2> QED
    BY <1>3, <2>1, <2>2, <2>3 DEF Walks
<1>6. WalkGoesOn /\ RowsGoOn /\ CursorIsTrue' /\ deepWalked' \subseteq Hash
  BY <1>2, <1>3, <1>5, SameRows, SameCursor DEF WalkGoesOn
<1>7. DOMAIN walk'.got = seen /\ \A h \in seen : walk'.got[h] = "settled"
  BY <1>4, <1>5, SeenIs
<1>8. \A h \in cursor'.hashes : Unseen(h) => Tracked(h)'
  BY <1>2, <1>3, <1>5, <1>7 DEF MemoInv, WalkIsTrue, Tracked
<1>9. ASSUME NEW h \in Hash, Late(h)
      PROVE  Sought(h)'
  <2>1. h \in walk.expected /\ (h \in InWindow \/ (h \in walk.deep /\ h \notin cursor.seen))
    BY <1>2, <1>3, <1>9 DEF MemoInv, WalkIsTrue, Sought
  <2>2. CASE h \in seen
    BY <1>5, <1>7, <2>2 DEF Sought
  <2>3. CASE h \notin seen
    <3>1. h \in walk'.missing
      BY <1>5, <2>1, <2>3
    <3>2. walk'.cut \/ h \notin InWindow
      BY <1>1, <1>4, <1>5, <1>9, <2>1, <2>3 DEF Late, Settled
    <3> QED
      BY <1>2, <1>5, <2>1, <3>1, <3>2 DEF Sought, ForDeepWalk
  <2> QED
    BY <2>2, <2>3
<1>10. /\ walk'.expected \subseteq watched /\ walk'.deep \subseteq walk'.expected
       /\ \A h \in walk'.absent : wallet[h] = "none"
       /\ \A h \in DOMAIN walk'.got : walk'.got[h] = "settled" /\ wallet[h] = walk'.got[h]
       /\ walk'.at # "judge"
  BY <1>3, <1>4, <1>5, <1>7 DEF MemoInv, WalkIsTrue
<1> QED
  BY <1>5, <1>6, <1>8, <1>9, <1>10, WalkStepKeeps

\* The second view adds to what the first one found.
LEMMA UnpaidViewKeeps ==
    ASSUME MemoInv, UnpaidView
    PROVE  MemoInv' /\ WalkGoesOn /\ RowsGoOn
<1>1. PICK seen \in SUBSET walk.missing, cut \in BOOLEAN :
        /\ View(walk.missing, Listed, seen, cut)
        /\ walk' = [walk EXCEPT
             !.at = "learn",
             !.got = Learnt(seen),
             !.missing = @ \ seen,
             !.cut = @ \/ cut]
  BY DEF UnpaidView
<1>2. /\ walk.at = "unpaid"
      /\ UNCHANGED <<wallet, past, rows, watched, deepWalked, covered, ask, restarts, cursor>>
  BY DEF UnpaidView, memo, world
<1>3. /\ walk # NoWalk /\ walk \in Walks /\ cursor \in Cursors
      /\ DOMAIN walk.got \subseteq Hash
      /\ wallet \in [Hash -> Status]
  BY <1>2, Walking DEF MemoInv, MemoTypes
<1>4. /\ walk.missing \subseteq Hash /\ seen \in SUBSET Hash
      /\ \A h \in seen : wallet[h] # "none"
  BY <1>1, <1>3 DEF Walks, View, Listed
<1>5. /\ \A h \in DOMAIN walk.got : walk.got[h] = "settled" /\ wallet[h] = "settled"
  BY <1>2, <1>3 DEF MemoInv, WalkIsTrue
<1>6. PICK got : /\ got = Learnt(seen)
                 /\ got \in Finds /\ DOMAIN got = DOMAIN walk.got \cup seen
                 /\ \A h \in DOMAIN got : got[h] = wallet[h] /\ got[h] # "none"
  <2>1. PICK got : got = Learnt(seen)
    OBVIOUS
  <2>2. /\ DOMAIN got = DOMAIN walk.got \cup seen
        /\ \A h \in DOMAIN got : got[h] = wallet[h] /\ got[h] # "none"
    BY <1>4, <1>5, <2>1 DEF Learnt
  <2>3. got \in [DOMAIN walk.got \cup seen -> Status]
    BY <1>3, <1>4, <2>1, <2>2 DEF Learnt
  <2>4. DOMAIN walk.got \cup seen \in SUBSET Hash
    BY <1>3, <1>4
  <2>5. got \in Finds
    BY <2>3, <2>4 DEF Finds
  <2> QED
    BY <2>1, <2>2, <2>5
<1>7. /\ walk' \in Walks /\ walk'.old = walk.old /\ walk'.past = walk.past
      /\ walk'.at = "learn" /\ (walk'.cut = (walk.cut \/ cut))
      /\ walk'.got = got /\ walk'.missing = walk.missing \ seen
      /\ walk'.absent = walk.absent /\ walk'.expected = walk.expected
      /\ walk'.deep = walk.deep
  <2>1. PICK missing, doubt : missing = walk.missing \ seen /\ (doubt = (walk.cut \/ cut))
    OBVIOUS
  <2>2. walk' = [walk EXCEPT !.at = "learn", !.got = got, !.missing = missing, !.cut = doubt]
    BY <1>1, <1>6, <2>1
  <2>3. "learn" \in Stages /\ missing \in SUBSET Hash /\ doubt \in BOOLEAN
    BY <1>3, <1>4, <2>1 DEF Stages, Walks
  <2> QED
    BY <1>3, <1>6, <2>1, <2>2, <2>3 DEF Walks
<1>8. WalkGoesOn /\ RowsGoOn /\ CursorIsTrue' /\ deepWalked' \subseteq Hash
  BY <1>2, <1>3, <1>7, SameRows, SameCursor DEF WalkGoesOn
<1>9. \A h \in cursor'.hashes : Unseen(h) => Tracked(h)'
  BY <1>2, <1>3, <1>6, <1>7 DEF MemoInv, WalkIsTrue, Tracked
<1>10. ASSUME NEW h \in Hash, Late(h)
       PROVE  Sought(h)'
  <2>1. walk.cut \/ ForDeepWalk(h) \/ h \in DOMAIN walk.got
    BY <1>2, <1>3, <1>10 DEF MemoInv, WalkIsTrue, Sought
  <2>2. h \in DOMAIN got => walk'.got[h] = "settled"
    BY <1>6, <1>7, <1>10 DEF Late
  <2> QED
    BY <1>2, <1>6, <1>7, <2>1, <2>2 DEF Sought, ForDeepWalk
<1>11. /\ walk'.expected \subseteq watched /\ walk'.deep \subseteq walk'.expected
       /\ \A h \in walk'.absent : wallet[h] = "none"
       /\ \A h \in DOMAIN walk'.got : walk'.got[h] # "none" /\ wallet[h] = walk'.got[h]
       /\ walk'.at \notin {"judge", "unpaid"}
  BY <1>3, <1>6, <1>7 DEF MemoInv, WalkIsTrue
<1> QED
  BY <1>7, <1>8, <1>9, <1>10, <1>11, WalkStepKeeps

\* What one request reports of `found`, recorded while the walk goes on.
LEMMA UpsertGoesOn ==
    ASSUME MemoInv, NEW found, Upsert(found), wallet' = wallet,
           DOMAIN found \subseteq Hash,
           \A h \in DOMAIN found :
               /\ found[h] \in Status \ {"none"}
               /\ found[h] \in {"settled", "expired"} => wallet[h] = found[h]
    PROVE  /\ RowsGoOn /\ UNCHANGED deepWalked
           /\ \A h \in DOMAIN found :
                  /\ rows'[h] # "none"
                  /\ found[h] = "settled" => rows'[h] = "settled"
<1>1. rows' = Upserted(found) /\ UNCHANGED deepWalked
  BY DEF Upsert
<1>2. MemoTypes /\ RowsAreTrue
  BY DEF MemoInv
<1> QED
  BY <1>1, <1>2, Recorded DEF RowsGoOn

\* The same of what the wallet answers at once: it is neither unseen nor late any more.
LEMMA SeenGoesOn ==
    ASSUME MemoInv, NEW S \in SUBSET Hash, Upsert(Seen(S)), wallet' = wallet,
           \A h \in S : wallet[h] # "none"
    PROVE  /\ RowsGoOn /\ UNCHANGED deepWalked
           /\ \A h \in S : ~Unseen(h)' /\ ~Late(h)'
<1>1. wallet \in [Hash -> Status]
  BY DEF MemoInv, MemoTypes
<1>2. PICK found : found = Seen(S)
  OBVIOUS
<1>3. DOMAIN found = S /\ \A h \in S : found[h] = wallet[h]
  BY <1>2, SeenIs
<1>4. /\ Upsert(found) /\ DOMAIN found \subseteq Hash
      /\ \A h \in DOMAIN found :
             /\ found[h] \in Status \ {"none"}
             /\ found[h] \in {"settled", "expired"} => wallet[h] = found[h]
  BY <1>1, <1>2, <1>3
<1>5. /\ RowsGoOn /\ UNCHANGED deepWalked
      /\ \A h \in DOMAIN found :
             /\ rows'[h] # "none"
             /\ found[h] = "settled" => rows'[h] = "settled"
  BY <1>4, UpsertGoesOn
<1> QED
  BY <1>3, <1>5 DEF Unseen, Late

\* The single-hash path: found and recorded, absent for good, or given up.
LEMMA LookUpKeeps ==
    ASSUME MemoInv, NEW h \in Hash, LookUp(h)
    PROVE  MemoInv' /\ WalkGoesOn /\ RowsGoOn
<1>1. /\ walk.at \in {"ask", "lookup"}
      /\ UNCHANGED <<wallet, past, watched, covered, ask, restarts, cursor>>
  BY DEF LookUp, world
<1>2. /\ walk # NoWalk /\ walk \in Walks /\ cursor \in Cursors
      /\ DOMAIN walk.got \subseteq Hash /\ h \in walk.todo
  BY <1>1, Walking DEF LookUp
<1>3. ASSUME NEW todo \in SUBSET walk.todo, NEW answered \in {{}, {h}}, NEW absent \in {{}, {h}},
             walk' = [walk EXCEPT !.todo = todo, !.looked = @ \cup answered,
                                  !.missing = @ \ answered, !.absent = @ \cup absent],
             \A g \in absent : wallet[g] = "none",
             \A g \in answered : ~Unseen(g)' /\ ~Late(g)',
             RowsGoOn, UNCHANGED deepWalked
      PROVE  MemoInv' /\ WalkGoesOn /\ RowsGoOn
  <2>1. /\ walk' \in Walks /\ walk'.old = walk.old /\ walk'.past = walk.past
        /\ walk'.at = walk.at /\ walk'.todo = todo /\ walk'.looked = walk.looked \cup answered
        /\ walk'.absent = walk.absent \cup absent
        /\ walk'.missing = walk.missing \ answered
        /\ walk'.expected = walk.expected /\ walk'.deep = walk.deep
        /\ walk'.got = walk.got /\ walk'.cut = walk.cut
    <3>1. PICK looked, missing, none :
            /\ looked = walk.looked \cup answered /\ missing = walk.missing \ answered
            /\ none = walk.absent \cup absent
      OBVIOUS
    <3>2. walk' = [walk EXCEPT !.todo = todo, !.looked = looked, !.missing = missing,
                               !.absent = none]
      BY <1>3, <3>1
    <3>3. todo \in SUBSET Hash /\ looked \in SUBSET Hash /\ missing \in SUBSET Hash /\ none \in SUBSET Hash
      BY <1>2, <3>1 DEF Walks
    <3> QED
      BY <1>2, <3>1, <3>2, <3>3 DEF Walks
  <2>2. WalkGoesOn /\ RowsGoOn /\ CursorIsTrue' /\ deepWalked' \subseteq Hash
    BY <1>1, <1>2, <1>3, <2>1, SameCursor DEF WalkGoesOn
  <2>3. \A g \in cursor'.hashes : Unseen(g) /\ Unseen(g)' => Tracked(g)'
    <3>1. \A g \in cursor.hashes : Unseen(g) => Tracked(g)
      BY <1>2 DEF MemoInv, WalkIsTrue
    <3> QED
      BY <1>1, <1>3, <2>1, <3>1 DEF Tracked
  <2>4. \A g \in Hash : Late(g) /\ Late(g)' => Sought(g)'
    <3>1. \A g \in Hash : Late(g) => Sought(g)
      BY <1>2 DEF MemoInv, WalkIsTrue
    <3> QED
      BY <1>1, <1>3, <2>1, <3>1 DEF Sought, ForDeepWalk
  <2>5. /\ walk'.expected \subseteq watched /\ walk'.deep \subseteq walk'.expected
        /\ \A g \in walk'.absent : wallet[g] = "none"
        /\ \A g \in DOMAIN walk'.got :
               /\ walk'.got[g] # "none"
               /\ walk'.got[g] \in {"settled", "expired"} => wallet[g] = walk'.got[g]
        /\ walk'.at \notin {"judge", "unpaid"}
        /\ walk'.at = "ask" => walk'.todo \cup walk'.looked \subseteq walk.old
    BY <1>1, <1>2, <1>3, <2>1 DEF MemoInv, WalkIsTrue
  <2> QED
    BY <2>1, <2>2, <2>3, <2>4, <2>5, WalkStepKeeps
<1>4. walk.todo \in SUBSET Hash /\ walk.looked \in SUBSET Hash /\ walk.missing \in SUBSET Hash
      /\ walk.absent \in SUBSET Hash
  BY <1>2 DEF Walks
<1>5. CASE /\ wallet[h] # "none" /\ Upsert(Seen({h}))
           /\ walk' = [walk EXCEPT !.todo = @ \ {h}, !.looked = @ \cup {h},
                                   !.missing = @ \ {h}]
  <2>1. RowsGoOn /\ UNCHANGED deepWalked /\ ~Unseen(h)' /\ ~Late(h)'
    BY <1>1, <1>5, SeenGoesOn
  <2>2. walk' = [walk EXCEPT !.todo = walk.todo \ {h}, !.looked = @ \cup {h},
                             !.missing = @ \ {h}, !.absent = @ \cup {}]
    BY <1>2, <1>5 DEF Walks
  <2> QED
    BY <1>3, <1>4, <2>1, <2>2
<1>6. CASE /\ wallet[h] = "none" /\ UNCHANGED memo
           /\ walk' = [walk EXCEPT !.todo = @ \ {h}, !.looked = @ \cup {h},
                                   !.missing = @ \ {h}, !.absent = @ \cup {h}]
  <2>1. RowsGoOn /\ UNCHANGED deepWalked /\ ~Unseen(h)' /\ ~Late(h)'
    BY <1>1, <1>6, SameRows DEF memo, Unseen, Late
  <2>2. walk' = [walk EXCEPT !.todo = walk.todo \ {h}, !.looked = @ \cup {h},
                             !.missing = @ \ {h}, !.absent = @ \cup {h}]
    BY <1>6
  <2> QED
    BY <1>3, <1>4, <1>6, <2>1, <2>2
<1>7. CASE walk' = [walk EXCEPT !.todo = {}] /\ UNCHANGED memo
  <2>1. RowsGoOn /\ UNCHANGED deepWalked
    BY <1>1, <1>7, SameRows DEF memo
  <2>2. walk' = [walk EXCEPT !.todo = {}, !.looked = @ \cup {},
                             !.missing = @ \ {}, !.absent = @ \cup {}]
    BY <1>2, <1>7 DEF Walks
  <2> QED
    BY <1>3, <2>1, <2>2
<1> QED
  BY <1>5, <1>6, <1>7 DEF LookUp

\* Both views are recorded; what is still late was missed by them.
LEMMA LearnViewsKeeps ==
    ASSUME MemoInv, LearnViews
    PROVE  MemoInv' /\ WalkGoesOn /\ RowsGoOn
<1>1. PICK todo :
        walk' = [walk EXCEPT !.at = "lookup", !.got = Seen({}), !.todo = todo]
        /\ todo = (IF CanLookUp THEN walk.missing \ walk.looked ELSE {})
  BY DEF LearnViews
<1>2. /\ walk.at = "learn" /\ Upsert(walk.got)
      /\ UNCHANGED <<wallet, past, watched, covered, ask, restarts, cursor>>
  BY DEF LearnViews, world
<1>3. /\ walk # NoWalk /\ walk \in Walks /\ cursor \in Cursors
      /\ DOMAIN walk.got \subseteq Hash
      /\ \A h \in DOMAIN walk.got : walk.got[h] \in Status
  BY <1>2, Walking
<1>4. /\ RowsGoOn /\ UNCHANGED deepWalked
      /\ \A h \in DOMAIN walk.got :
             /\ rows'[h] # "none"
             /\ walk.got[h] = "settled" => rows'[h] = "settled"
  <2>1. \A h \in DOMAIN walk.got :
            /\ walk.got[h] \in Status \ {"none"}
            /\ walk.got[h] \in {"settled", "expired"} => wallet[h] = walk.got[h]
    BY <1>3 DEF MemoInv, WalkIsTrue
  <2> QED
    BY <1>2, <1>3, <2>1, UpsertGoesOn
<1>5. /\ walk' \in Walks /\ walk'.old = walk.old /\ walk'.past = walk.past
      /\ walk'.at = "lookup" /\ walk'.cut = walk.cut /\ walk'.missing = walk.missing
      /\ walk'.absent = walk.absent /\ walk'.expected = walk.expected
      /\ walk'.deep = walk.deep /\ DOMAIN walk'.got = {}
  <2>1. todo \in SUBSET Hash /\ "lookup" \in Stages
    BY <1>1, <1>3 DEF Walks, Stages
  <2>2. PICK got : got = Seen({}) /\ got \in Finds /\ DOMAIN got = {}
    BY SeenIs, SeenIsFound DEF MemoInv
  <2>3. walk' = [walk EXCEPT !.at = "lookup", !.got = got, !.todo = todo]
    BY <1>1, <2>2
  <2> QED
    BY <1>3, <2>1, <2>2, <2>3 DEF Walks
<1>6. WalkGoesOn /\ RowsGoOn /\ CursorIsTrue' /\ deepWalked' \subseteq Hash
  BY <1>2, <1>3, <1>4, <1>5, SameCursor DEF WalkGoesOn
<1>7. \A h \in cursor'.hashes : Unseen(h) /\ Unseen(h)' => Tracked(h)'
  <2>1. \A h \in cursor.hashes : Unseen(h) => h \in walk.missing \cup DOMAIN walk.got
    BY <1>2, <1>3 DEF MemoInv, WalkIsTrue, Tracked
  <2> QED
    BY <1>2, <1>4, <1>5, <2>1 DEF Tracked, Unseen
<1>8. \A h \in Hash : Late(h) /\ Late(h)' => Sought(h)'
  <2>1. \A h \in Hash : Late(h) => \/ walk.cut \/ ForDeepWalk(h)
                                   \/ h \in DOMAIN walk.got /\ walk.got[h] = "settled"
    BY <1>2, <1>3 DEF MemoInv, WalkIsTrue, Sought
  <2> QED
    BY <1>2, <1>4, <1>5, <2>1 DEF Sought, ForDeepWalk, Late
<1>9. /\ walk'.expected \subseteq watched /\ walk'.deep \subseteq walk'.expected
      /\ \A h \in walk'.absent : wallet[h] = "none"
      /\ walk'.at \notin {"judge", "unpaid"}
  BY <1>3, <1>5 DEF MemoInv, WalkIsTrue
<1> QED
  BY <1>5, <1>6, <1>7, <1>8, <1>9, WalkStepKeeps

-----------------------------------------------------------------------------
\* The cursor of a failed walk is resumed, or a new one made for what is missing.
LEMMA TakeCursorKeeps ==
    ASSUME MemoInv, TakeCursor
    PROVE  MemoInv' /\ WalkGoesOn /\ RowsGoOn
<1>1. PICK deep, next, targets :
        /\ deep = walk.deep \cap walk.missing
        /\ next = NextCursor(walk.missing, deep)
        /\ targets = (next.hashes \cap walk.missing) \ next.seen
        /\ cursor' = next
        /\ walk' = [walk EXCEPT
             !.at = IF next = NoCursor THEN "finish"
                    ELSE IF targets = {} THEN "judge"
                    ELSE IF next.unpaid THEN "deep unpaid" ELSE "deep settled",
             !.deep = deep,
             !.targets = targets]
  BY DEF TakeCursor
<1>2. /\ walk.at = "lookup"
      /\ UNCHANGED <<wallet, past, rows, watched, deepWalked, covered, ask, restarts>>
  BY DEF TakeCursor, memo, world
<1>3. /\ walk # NoWalk /\ walk \in Walks /\ cursor \in Cursors
      /\ DOMAIN walk.got \subseteq Hash
  BY <1>2, Walking
<1>4. /\ walk.deep \subseteq walk.expected /\ walk.expected \subseteq watched
      /\ watched \subseteq Hash /\ deep \subseteq watched
  BY <1>1, <1>3 DEF MemoInv, MemoTypes, WalkIsTrue
<1>5. /\ next \in Cursors
      /\ \/ /\ next.hashes = cursor.hashes /\ next.seen = cursor.seen
            /\ cursor.hashes \cap walk.missing # {}
            /\ next.unpaid \/ next.skips => next.resumed
         \/ /\ next.hashes = deep /\ next.seen = {}
            /\ next.unpaid = FALSE /\ next.skips = FALSE
            /\ cursor.hashes \cap walk.missing = {}
  <2>1. CASE cursor.hashes \cap walk.missing # {}
    <3>1. next = [Carried(cursor) EXCEPT !.skips = @ \/ cursor.moved \/ cursor.unpaid]
      BY <1>1, <2>1 DEF NextCursor
    <3>2. PICK resumed, skips : /\ (resumed = (cursor.resumed \/ cursor.moved \/ cursor.unpaid))
                                /\ (skips = (cursor.skips \/ cursor.moved \/ cursor.unpaid))
      OBVIOUS
    <3>3. resumed \in BOOLEAN /\ skips \in BOOLEAN
      BY <3>2
    <3>4. Carried(cursor) = [cursor EXCEPT !.resumed = resumed]
      BY <1>3, <3>2 DEF Carried, Cursors
    <3>5. next = [cursor EXCEPT !.resumed = resumed, !.skips = skips]
      BY <1>3, <3>1, <3>2, <3>4 DEF Cursors
    <3>6. /\ next \in Cursors /\ next.hashes = cursor.hashes /\ next.seen = cursor.seen
          /\ next.unpaid = cursor.unpaid /\ next.resumed = resumed /\ next.skips = skips
      BY <1>3, <3>3, <3>5 DEF Cursors
    <3>7. cursor.unpaid \/ skips => resumed
      BY <3>2 DEF MemoInv, CursorIsTrue
    <3> QED
      BY <2>1, <3>6, <3>7
  <2>2. CASE cursor.hashes \cap walk.missing = {}
    <3>1. next = [NoCursor EXCEPT !.hashes = deep]
      BY <1>1, <2>2 DEF NextCursor
    <3> QED
      BY <1>4, <2>2, <3>1 DEF NoCursor, Cursors
  <2> QED
    BY <2>1, <2>2
<1>6. next \in Cursors
  BY <1>5
<1>7. /\ walk' \in Walks /\ walk'.old = walk.old /\ walk'.past = walk.past
      /\ walk'.at = (IF next = NoCursor THEN "finish"
                     ELSE IF targets = {} THEN "judge"
                     ELSE IF next.unpaid THEN "deep unpaid" ELSE "deep settled")
      /\ walk'.deep = deep /\ walk'.targets = targets /\ walk'.cut = walk.cut
      /\ walk'.absent = walk.absent /\ walk'.expected = walk.expected
      /\ walk'.got = walk.got
  <2>1. PICK stage :
          stage = (IF next = NoCursor THEN "finish"
                   ELSE IF targets = {} THEN "judge"
                   ELSE IF next.unpaid THEN "deep unpaid" ELSE "deep settled")
    OBVIOUS
  <2>2. walk' = [walk EXCEPT !.at = stage, !.deep = deep, !.targets = targets]
    BY <1>1, <2>1
  <2>3. stage \in Stages /\ deep \in SUBSET Hash /\ targets \in SUBSET Hash
    BY <1>1, <1>4, <1>6, <2>1 DEF Stages, Cursors
  <2> QED
    BY <1>3, <2>1, <2>2, <2>3 DEF Walks
<1>8. next.hashes \cup next.seen \subseteq Hash
  BY <1>6 DEF Cursors
<1>9. CursorIsTrue'
  <2>1. \A h \in cursor.seen : ~Unseen(h)
    BY DEF MemoInv, CursorIsTrue
  <2>2. \A h \in next.hashes : Unseen(h) => h \in watched
    BY <1>4, <1>5 DEF MemoInv, CursorIsTrue
  <2>3. \A h \in deepWalked : ~Unseen(h)
    BY DEF MemoInv, CursorIsTrue
  <2>4. next.skips => next.resumed
    BY <1>5
  <2>5. \A h \in next.seen : ~Unseen(h)
    BY <1>5, <2>1
  <2> QED
    BY <1>1, <1>2, <2>2, <2>3, <2>4, <2>5 DEF CursorIsTrue, Unseen
<1>10. WalkGoesOn /\ RowsGoOn /\ deepWalked' \subseteq Hash
  BY <1>1, <1>2, <1>3, <1>6, <1>7, SameRows DEF WalkGoesOn, MemoInv, MemoTypes
<1>11. \A h \in cursor'.hashes : Unseen(h) => Tracked(h)'
  <2>1. \A h \in cursor.hashes : Unseen(h) => h \in walk.missing /\ h \notin cursor.seen
    BY <1>2, <1>3 DEF MemoInv, WalkIsTrue, CursorIsTrue, Tracked
  <2>2. \A h \in next.hashes : Unseen(h) => h \in targets
    BY <1>1, <1>5, <2>1
  <2> QED
    BY <1>1, <1>7, <2>2 DEF Tracked
<1>12. ASSUME NEW h \in Hash, Late(h)
       PROVE  Sought(h)'
  <2>1. walk.cut \/ ForDeepWalk(h)
    BY <1>2, <1>3, <1>12 DEF MemoInv, WalkIsTrue, Sought
  <2>2. CASE walk.cut
    BY <1>7, <2>2 DEF Sought
  <2>3. CASE ForDeepWalk(h)
    <3>1. h \in deep /\ h \in walk.missing /\ h \notin next.seen /\ next # NoCursor
      <4>1. h \in deep /\ h \in walk.missing /\ h \notin cursor.seen
        BY <1>1, <2>3 DEF ForDeepWalk
      <4>2. h \notin next.seen /\ next.hashes # {}
        BY <1>5, <4>1
      <4>3. NoCursor.hashes = {}
        BY DEF NoCursor
      <4> QED
        BY <4>1, <4>2, <4>3
    <3>2. walk'.at \in {"judge", "deep unpaid", "deep settled"} /\ h \in walk'.deep
      BY <1>7, <3>1
    <3>3. CASE h \notin next.hashes
      BY <1>1, <3>2, <3>3 DEF Sought
    <3>4. CASE h \in next.hashes
      <4>1. h \in targets /\ walk'.at # "judge"
        BY <1>1, <1>7, <3>1, <3>4
      <4>2. walk'.at = "deep unpaid" => next.unpaid
        BY <1>7
      <4>3. next.unpaid => next.resumed
        BY <1>5
      <4> QED
        BY <1>1, <1>7, <3>1, <3>2, <4>1, <4>2, <4>3 DEF Sought, Doubted
    <3> QED
      BY <3>3, <3>4
  <2> QED
    BY <2>1, <2>2, <2>3
<1>13. /\ walk'.expected \subseteq watched /\ walk'.deep \subseteq walk'.expected
       /\ \A h \in walk'.absent : wallet[h] = "none"
       /\ \A h \in DOMAIN walk'.got :
              /\ walk'.got[h] # "none"
              /\ walk'.got[h] \in {"settled", "expired"} => wallet[h] = walk'.got[h]
       /\ walk'.at # "unpaid"
       /\ walk'.at = "judge" => walk'.targets = {}
  <2>1. walk.expected \subseteq watched /\ walk.deep \subseteq walk.expected
    BY <1>3 DEF MemoInv, WalkIsTrue
  <2>2. deep \subseteq walk.expected
    BY <1>1, <2>1
  <2>3. /\ \A h \in walk.absent : wallet[h] = "none"
        /\ \A h \in DOMAIN walk.got :
               /\ walk.got[h] # "none"
               /\ walk.got[h] \in {"settled", "expired"} => wallet[h] = walk.got[h]
    BY <1>3 DEF MemoInv, WalkIsTrue
  <2>4. walk'.at # "unpaid" /\ (walk'.at = "judge" => walk'.targets = {})
    BY <1>7
  <2> QED
    BY <1>7, <2>1, <2>2, <2>3, <2>4
<1> QED
  BY <1>7, <1>9, <1>10, <1>11, <1>12, <1>13, WalkStepKeeps

\* A page of the unbounded walk is kept with the cursor on it.
LEMMA DeepPageKeeps ==
    ASSUME MemoInv, DeepPage
    PROVE  MemoInv' /\ WalkGoesOn /\ RowsGoOn
<1>1. PICK seen \in SUBSET (walk.targets \cap DeepListed), moved \in {cursor.moved, TRUE} :
        /\ Upsert(Seen(seen))
        /\ cursor' = [cursor EXCEPT !.seen = @ \cup seen, !.moved = moved]
  BY DEF DeepPage
<1>2. /\ walk.at \in {"deep settled", "deep unpaid"}
      /\ UNCHANGED <<wallet, past, watched, walk, covered, ask, restarts>>
  BY DEF DeepPage, world
<1>3. /\ walk # NoWalk /\ walk \in Walks /\ cursor \in Cursors
  BY <1>2, Walking
<1>4. seen \in SUBSET Hash /\ \A h \in seen : wallet[h] # "none"
  BY <1>1, <1>3 DEF Walks, DeepListed, Settled, Listed
<1>5. RowsGoOn /\ UNCHANGED deepWalked /\ \A h \in seen : ~Unseen(h)' /\ ~Late(h)'
  BY <1>1, <1>2, <1>4, SeenGoesOn
<1>6. /\ cursor' \in Cursors /\ cursor'.seen = cursor.seen \cup seen
      /\ cursor'.hashes = cursor.hashes /\ cursor'.resumed = cursor.resumed
      /\ cursor'.skips = cursor.skips
  <2>1. PICK found : found = cursor.seen \cup seen
    OBVIOUS
  <2>2. cursor' = [cursor EXCEPT !.seen = found, !.moved = moved]
    BY <1>1, <2>1
  <2>3. found \in SUBSET Hash /\ moved \in BOOLEAN
    BY <1>1, <1>3, <1>4, <2>1 DEF Cursors
  <2> QED
    BY <1>3, <2>1, <2>2, <2>3 DEF Cursors
<1>7. \A h \in Hash : Unseen(h)' => Unseen(h)
  BY <1>2, <1>5 DEF RowsGoOn, Unseen
<1>8. /\ cursor.hashes \subseteq Hash /\ cursor.seen \subseteq Hash /\ deepWalked \subseteq Hash
  BY <1>3 DEF Cursors, MemoInv, MemoTypes
<1>9. CursorIsTrue' /\ deepWalked' \subseteq Hash
  BY <1>2, <1>5, <1>6, <1>7, <1>8 DEF MemoInv, CursorIsTrue
<1>10. WalkGoesOn
  BY <1>2, <1>3, <1>6 DEF WalkGoesOn
<1>11. \A h \in cursor'.hashes : Unseen(h) => Tracked(h)'
  BY <1>2, <1>3, <1>6 DEF MemoInv, WalkIsTrue, Tracked
<1>12. \A h \in Hash : Late(h) /\ Late(h)' => Sought(h)'
  <2>1. \A h \in Hash : Late(h) => Sought(h)
    BY <1>3 DEF MemoInv, WalkIsTrue
  <2> QED
    BY <1>2, <1>5, <1>6, <2>1 DEF Sought, Doubted
<1>13. /\ walk'.expected \subseteq watched /\ walk'.deep \subseteq walk'.expected
       /\ \A h \in walk'.absent : wallet[h] = "none"
       /\ \A h \in DOMAIN walk'.got :
              /\ walk'.got[h] # "none"
              /\ walk'.got[h] \in {"settled", "expired"} => wallet[h] = walk'.got[h]
       /\ walk'.at \notin {"unpaid", "judge"}
  BY <1>2, <1>3 DEF MemoInv, WalkIsTrue
<1> QED
  BY <1>2, <1>5, <1>9, <1>10, <1>11, <1>12, <1>13, WalkStepKeeps

\* A view of the unbounded walk ends: what it did not find is not there, or doubted.
LEMMA DeepEndKeeps ==
    ASSUME MemoInv, DeepEnd
    PROVE  MemoInv' /\ WalkGoesOn /\ RowsGoOn
<1>1. PICK seen \in SUBSET (walk.targets \cap DeepListed), cut \in BOOLEAN :
        /\ ~cut /\ ~cursor.skips =>
               (walk.targets \ (cursor.seen \cup seen)) \cap DeepListed = {}
        /\ Upsert(Seen(seen))
        /\ cursor' = [cursor EXCEPT !.seen = @ \cup seen, !.unpaid = TRUE, !.moved = FALSE]
        /\ walk' = [walk EXCEPT
             !.at = IF walk.at = "deep settled" /\ walk.targets \ (cursor.seen \cup seen) # {}
                    THEN "deep unpaid" ELSE "judge",
             !.targets = walk.targets \ (cursor.seen \cup seen),
             !.deepCut = @ \/ cut]
  BY Zenon DEF DeepEnd
<1>2. PICK left : left = walk.targets \ (cursor.seen \cup seen)
  OBVIOUS
<1>3. /\ walk.at \in {"deep settled", "deep unpaid"}
      /\ UNCHANGED <<wallet, past, watched, covered, ask, restarts>>
  BY DEF DeepEnd, world
<1>4. /\ walk # NoWalk /\ walk \in Walks /\ cursor \in Cursors
  BY <1>3, Walking
<1>5. seen \in SUBSET Hash /\ \A h \in seen : wallet[h] # "none"
  BY <1>1, <1>4 DEF Walks, DeepListed, Settled, Listed
<1>6. RowsGoOn /\ UNCHANGED deepWalked /\ \A h \in seen : ~Unseen(h)' /\ ~Late(h)'
  BY <1>1, <1>3, <1>5, SeenGoesOn
<1>7. /\ cursor' \in Cursors /\ cursor'.seen = cursor.seen \cup seen
      /\ cursor'.hashes = cursor.hashes /\ cursor'.resumed = cursor.resumed
      /\ cursor'.skips = cursor.skips
  <2>1. PICK found : found = cursor.seen \cup seen
    OBVIOUS
  <2>2. cursor' = [cursor EXCEPT !.seen = found, !.unpaid = TRUE, !.moved = FALSE]
    BY <1>1, <2>1
  <2>3. found \in SUBSET Hash
    BY <1>4, <1>5, <2>1 DEF Cursors
  <2> QED
    BY <1>4, <2>1, <2>2, <2>3 DEF Cursors
<1>8. /\ walk' \in Walks /\ walk'.old = walk.old /\ walk'.past = walk.past
      /\ walk'.at = (IF walk.at = "deep settled" /\ left # {} THEN "deep unpaid" ELSE "judge")
      /\ walk'.targets = left /\ (walk'.deepCut = (walk.deepCut \/ cut))
      /\ walk'.cut = walk.cut /\ walk'.deep = walk.deep /\ walk'.got = walk.got
      /\ walk'.absent = walk.absent /\ walk'.expected = walk.expected
  <2>1. PICK stage, doubt :
          /\ stage = (IF walk.at = "deep settled" /\ left # {} THEN "deep unpaid" ELSE "judge")
          /\ (doubt = (walk.deepCut \/ cut))
    OBVIOUS
  <2>2. walk' = [walk EXCEPT !.at = stage, !.targets = left, !.deepCut = doubt]
    BY <1>1, <1>2, <2>1
  <2>3. stage \in Stages /\ left \in SUBSET Hash /\ doubt \in BOOLEAN
    BY <1>2, <1>4, <2>1 DEF Stages, Walks
  <2> QED
    BY <1>4, <2>1, <2>2, <2>3 DEF Walks
<1>9. \A h \in Hash : Unseen(h)' => Unseen(h)
  BY <1>3, <1>6 DEF RowsGoOn, Unseen
<1>10. /\ cursor.hashes \subseteq Hash /\ cursor.seen \subseteq Hash /\ deepWalked \subseteq Hash
       /\ left \subseteq Hash
  BY <1>2, <1>4 DEF Cursors, Walks, MemoInv, MemoTypes
<1>11. CursorIsTrue' /\ deepWalked' \subseteq Hash
  BY <1>3, <1>6, <1>7, <1>9, <1>10 DEF MemoInv, CursorIsTrue
<1>12. WalkGoesOn
  BY <1>3, <1>4, <1>7, <1>8 DEF WalkGoesOn
<1>13. \A h \in left \cap DeepListed : Doubted'
  BY <1>1, <1>2, <1>7, <1>8 DEF MemoInv, CursorIsTrue, Doubted
<1>14. \A h \in cursor'.hashes : Unseen(h) /\ Unseen(h)' => Tracked(h)'
  <2>1. \A h \in cursor.hashes : Unseen(h) => h \in walk.targets /\ h \notin cursor.seen
    BY <1>3, <1>4 DEF MemoInv, CursorIsTrue, WalkIsTrue, Tracked
  <2>2. \A h \in cursor.hashes : Unseen(h) /\ Unseen(h)' => h \in left
    BY <1>2, <1>6, <2>1
  <2> QED
    BY <1>7, <1>8, <2>2 DEF Tracked
<1>15. ASSUME NEW h \in Hash, Late(h), Late(h)'
       PROVE  Sought(h)'
  <2>1. \/ walk.cut \/ (h \in walk.deep /\ h \notin cursor.hashes)
        \/ h \in walk.targets /\ h \notin cursor.seen
    BY <1>3, <1>4, <1>15 DEF MemoInv, WalkIsTrue, Sought
  <2>2. CASE walk.cut \/ (h \in walk.deep /\ h \notin cursor.hashes)
    BY <1>7, <1>8, <2>2 DEF Sought
  <2>3. CASE h \in walk.targets /\ h \notin cursor.seen
    <3>1. h \in left /\ h \notin cursor'.seen /\ h \in DeepListed
      BY <1>2, <1>6, <1>7, <1>15, <2>3 DEF Late, DeepListed, Settled, Listed
    <3>2. Doubted'
      BY <1>13, <3>1
    <3> QED
      BY <1>8, <3>1, <3>2 DEF Sought
  <2> QED
    BY <2>1, <2>2, <2>3
<1>16. walk'.at = "judge" => \A h \in walk'.targets : wallet[h] = "none" \/ Doubted'
  <2> SUFFICES ASSUME walk'.at = "judge", NEW h \in left, wallet[h] # "none"
               PROVE  Doubted'
    BY <1>8
  <2>1. walk.at = "deep unpaid" /\ h \in DeepListed
    BY <1>3, <1>8, <1>10 DEF DeepListed, Listed
  <2> QED
    BY <1>13, <2>1
<1>17. /\ walk'.expected \subseteq watched /\ walk'.deep \subseteq walk'.expected
       /\ \A h \in walk'.absent : wallet[h] = "none"
       /\ \A h \in DOMAIN walk'.got :
              /\ walk'.got[h] # "none"
              /\ walk'.got[h] \in {"settled", "expired"} => wallet[h] = walk'.got[h]
       /\ walk'.at # "unpaid"
  BY <1>4, <1>8 DEF MemoInv, WalkIsTrue
<1> QED
  BY <1>6, <1>8, <1>11, <1>12, <1>14, <1>15, <1>16, <1>17, WalkStepKeeps

\* Only an uninterrupted walk proves absence; any other counts as cut short.
LEMMA JudgeKeeps ==
    ASSUME MemoInv, Judge
    PROVE  MemoInv' /\ WalkGoesOn /\ RowsGoOn
<1>1. PICK unproven :
        /\ unproven = (IF Proven THEN {} ELSE walk.targets)
        /\ deepWalked' = deepWalked \cup ((cursor.hashes \ unproven) \cap watched)
        /\ walk' = [walk EXCEPT
             !.at = "finish",
             !.missing = (@ \ cursor.hashes) \cup unproven,
             !.absent = @ \cup (walk.targets \ unproven),
             !.cut = @ \/ walk.deepCut \/ unproven # {} \/ ~(walk.deep \subseteq cursor.hashes)]
        /\ cursor' = NoCursor
  BY DEF Judge
<1>2. /\ walk.at = "judge"
      /\ UNCHANGED <<wallet, past, rows, watched, covered, ask, restarts>>
  BY DEF Judge, world
<1>3. /\ walk # NoWalk /\ walk \in Walks /\ cursor \in Cursors
  BY <1>2, Walking
<1>4. Proven <=> ~Doubted
  BY DEF Proven, Doubted
<1>5. /\ unproven \subseteq walk.targets /\ walk.targets \subseteq Hash
      /\ unproven = {} \/ (Doubted /\ unproven = walk.targets)
      /\ ~Doubted => unproven = {}
  BY <1>1, <1>3, <1>4 DEF Walks
<1>6. /\ walk' \in Walks /\ walk'.old = walk.old /\ walk'.past = walk.past
      /\ walk'.at = "finish" /\ walk'.absent = walk.absent \cup (walk.targets \ unproven)
      /\ (walk'.cut = (walk.cut \/ walk.deepCut \/ unproven # {}
                         \/ ~(walk.deep \subseteq cursor.hashes)))
      /\ walk'.deep = walk.deep /\ walk'.got = walk.got /\ walk'.expected = walk.expected
  <2>1. PICK missing, none, doubt :
          /\ missing = (walk.missing \ cursor.hashes) \cup unproven
          /\ none = walk.absent \cup (walk.targets \ unproven)
          /\ (doubt = (walk.cut \/ walk.deepCut \/ unproven # {}
                         \/ ~(walk.deep \subseteq cursor.hashes)))
    OBVIOUS
  <2>2. walk' = [walk EXCEPT !.at = "finish", !.missing = missing, !.absent = none, !.cut = doubt]
    BY <1>1, <2>1
  <2>3. /\ "finish" \in Stages /\ missing \in SUBSET Hash /\ none \in SUBSET Hash
        /\ doubt \in BOOLEAN
    BY <1>3, <1>5, <2>1 DEF Stages, Walks
  <2> QED
    BY <1>3, <2>1, <2>2, <2>3 DEF Walks
<1>7. \A h \in cursor.hashes \ unproven : ~Unseen(h)
  <2>1. \A h \in cursor.hashes : Unseen(h) => h \in walk.targets
    BY <1>2, <1>3 DEF MemoInv, WalkIsTrue, Tracked
  <2>2. \A h \in walk.targets : Unseen(h) => Doubted
    BY <1>2, <1>3 DEF MemoInv, WalkIsTrue, Unseen
  <2>3. Doubted => unproven = walk.targets
    BY <1>1, <1>4
  <2> QED
    BY <2>1, <2>2, <2>3
<1>8. /\ cursor' \in Cursors /\ cursor'.hashes = {} /\ cursor'.seen = {}
      /\ cursor'.skips = FALSE
  BY <1>1 DEF Cursors, NoCursor
<1>9. CursorIsTrue' /\ deepWalked' \subseteq Hash
  BY <1>1, <1>2, <1>3, <1>7, <1>8 DEF MemoInv, MemoTypes, CursorIsTrue, Unseen, Cursors
<1>10. WalkGoesOn /\ RowsGoOn
  BY <1>2, <1>3, <1>6, <1>8, SameRows DEF WalkGoesOn
<1>11. ASSUME NEW h \in Hash, Late(h)
       PROVE  Sought(h)'
  <2>1. \/ walk.cut \/ (h \in walk.deep /\ h \notin cursor.hashes)
        \/ h \in walk.targets /\ Doubted
    BY <1>2, <1>3, <1>11 DEF MemoInv, WalkIsTrue, Sought
  <2>2. h \in walk.targets /\ Doubted => unproven # {}
    BY <1>1, <1>4
  <2>3. walk'.cut
    BY <1>6, <2>1, <2>2
  <2> QED
    BY <1>6, <2>3 DEF Sought
<1>12. /\ walk'.expected \subseteq watched /\ walk'.deep \subseteq walk'.expected
       /\ \A h \in walk'.absent : wallet[h] = "none"
       /\ \A h \in DOMAIN walk'.got :
              /\ walk'.got[h] # "none"
              /\ walk'.got[h] \in {"settled", "expired"} => wallet[h] = walk'.got[h]
       /\ walk'.at \notin {"unpaid", "judge"}
  <2>1. \A h \in walk.targets \ unproven : wallet[h] = "none"
    BY <1>2, <1>3, <1>1, <1>4 DEF MemoInv, WalkIsTrue
  <2> QED
    BY <1>3, <1>6, <2>1 DEF MemoInv, WalkIsTrue
<1> QED
  BY <1>6, <1>8, <1>9, <1>10, <1>11, <1>12, WalkStepKeeps

\* A walk that ends leaves the cursor for the next one.
LEMMA WalkEnds ==
    ASSUME MemoInv, walk' = NoWalk, UNCHANGED <<wallet, past, rows, cursor, ask, restarts>>,
           watched' \subseteq watched, deepWalked' \subseteq deepWalked,
           covered' \in {covered, past},
           \A h \in watched \ watched' : ~Unseen(h)
    PROVE  MemoInv'
<1>1. MemoTypes' /\ RowsAreTrue'
  BY DEF MemoInv, MemoTypes, RowsAreTrue
<1>2. CursorIsTrue'
  BY DEF MemoInv, CursorIsTrue, Unseen
<1>3. WalkIsTrue'
  BY DEF WalkIsTrue
<1> QED
  BY <1>1, <1>2, <1>3 DEF MemoInv

\* Finish, when no row ages out.
LEMMA FinishIs ==
    ASSUME MemoKeepsRows, MemoInv, Finish
    PROVE  /\ walk.at = "finish" /\ walk' = NoWalk /\ covered' = past
           /\ UNCHANGED <<wallet, past, rows, cursor, ask, restarts, waiting>>
           /\ watched' = watched \ Pruned({})
           /\ deepWalked' = deepWalked \cap watched'
           /\ call' = Ended("ok")
           /\ (complete' = (~walk.cut \/ walk.missing = {}))
<1>1. PICK gone \in SUBSET (IF Forgets THEN walk.old \cap walk.past ELSE {}) :
        /\ watched' = watched \ Pruned(gone)
        /\ deepWalked' = deepWalked \cap watched'
  BY DEF Finish
<1>2. PICK forgotten \in SUBSET (IF Forgets THEN Hash \ (watched' \cup touched) ELSE {}) :
        rows' = [h \in Hash |-> IF h \in forgotten THEN "none" ELSE rows[h]]
  BY DEF Finish
<1>3. gone = {} /\ forgotten = {}
  BY <1>1, <1>2 DEF MemoKeepsRows
<1>4. rows' = rows
  BY <1>2, <1>3 DEF MemoInv, MemoTypes
<1> QED
  BY <1>1, <1>3, <1>4 DEF Finish, world

\* Prune drops nothing that is unseen.
LEMMA FinishKeeps ==
    ASSUME MemoKeepsRows, MemoInv, Finish
    PROVE  MemoInv'
<1>1. /\ walk.at = "finish" /\ walk' = NoWalk /\ covered' = past
      /\ UNCHANGED <<wallet, past, rows, cursor, ask, restarts>>
      /\ watched' = watched \ Pruned({})
      /\ deepWalked' = deepWalked \cap watched'
  BY FinishIs
<1>2. walk # NoWalk
  BY <1>1, Walking
<1>3. \A h \in Pruned({}) : ~Unseen(h)
  BY <1>2 DEF MemoInv, WalkIsTrue, Pruned, Decided, Unseen
<1> QED
  BY <1>1, <1>3, WalkEnds

\* A walk that fails leaves its cursor.
LEMMA RequestFailsKeeps ==
    ASSUME MemoInv, RequestFails
    PROVE  MemoInv'
  BY WalkEnds DEF RequestFails, world

\* A new process knows nothing.
LEMMA RestartKeeps ==
    ASSUME MemoInv, MemoIsLost, UNCHANGED <<wallet, past>>, restarts' \in Nat
    PROVE  MemoInv'
<1>1. /\ rows' = [h \in Hash |-> "none"] /\ watched' = {} /\ deepWalked' = {}
      /\ walk' = NoWalk /\ cursor' = NoCursor /\ covered' = {}
      /\ ask' = NoAsk
  BY DEF MemoIsLost
<1>2. /\ cursor' \in Cursors /\ cursor'.hashes = {} /\ cursor'.seen = {}
      /\ cursor'.skips = FALSE
  BY <1>1 DEF Cursors, NoCursor
<1>3. MemoTypes' /\ RowsAreTrue'
  BY <1>1, <1>2 DEF MemoInv, MemoTypes, RowsAreTrue, Status, Asks
<1>4. CursorIsTrue' /\ WalkIsTrue'
  BY <1>1, <1>2 DEF CursorIsTrue, WalkIsTrue
<1> QED
  BY <1>3, <1>4 DEF MemoInv

\* The invariant holds at first.
LEMMA MemoStarts ==
    ASSUME WalletMemoAssumption, MemoInit
    PROVE  MemoInv
<1>1. /\ wallet \in [Hash -> {"none", "pending"}] /\ \A h \in Stored : wallet[h] = "pending"
      /\ past = {} /\ rows = [h \in Hash |-> "none"] /\ watched = {} /\ deepWalked = {}
      /\ walk = NoWalk /\ cursor = NoCursor /\ covered = {}
      /\ ask = NoAsk /\ restarts = 0
  BY DEF MemoInit
<1>2. /\ cursor \in Cursors /\ cursor.hashes = {} /\ cursor.seen = {}
      /\ cursor.skips = FALSE
  BY <1>1 DEF Cursors, NoCursor
<1>3. MemoTypes /\ RowsAreTrue
  BY <1>1, <1>2 DEF MemoTypes, RowsAreTrue, Status, Asks
<1>4. CursorIsTrue /\ WalkIsTrue
  BY <1>1, <1>2 DEF CursorIsTrue, WalkIsTrue
<1> QED
  BY <1>3, <1>4 DEF MemoInv

-----------------------------------------------------------------------------
\* GetInvoice refreshes, and once more by force.
LEMMA AskKeeps ==
    ASSUME MemoInv, AskRefreshes
    PROVE  MemoInv'
<1>1. ask' \in Asks
  <2>1. ask \in Asks /\ ask.at \in {"watched", "refreshing"}
    BY DEF AskRefreshes, MemoInv, MemoTypes
  <2>2. ask \in [at : {"watched", "refreshing", "forcing"}, hash : Hash]
    BY <2>1 DEF Asks, NoAsk
  <2>3. PICK stage \in {"refreshing", "forcing"} : ask' = [ask EXCEPT !.at = stage]
    BY DEF AskRefreshes
  <2> QED
    BY <2>2, <2>3 DEF Asks
<1> QED
  BY <1>1, MemoRefreshKeeps DEF AskRefreshes

\* Every step of the memo keeps the invariant.
LEMMA MemoStepKeeps ==
    ASSUME WalletMemoAssumption, MemoKeepsRows, AgesAreKnown, MemoInv, MemoStep
    PROVE  MemoInv'
<1>1. ask \in Asks /\ restarts \in Nat
  BY DEF MemoInv, MemoTypes
<1>2. CASE StartQueued
  BY <1>1, <1>2, WalkStarts DEF StartQueued, world
<1>3. CASE \E h \in Hash : LookUp(h)
  BY <1>3, LookUpKeeps
<1>4. CASE Expect
  BY <1>4, ExpectKeeps
<1>5. CASE SettledView \/ UnpaidView \/ LearnViews
  BY <1>5, SettledViewKeeps, UnpaidViewKeeps, LearnViewsKeeps
<1>6. CASE TakeCursor \/ DeepPage \/ DeepEnd \/ Judge
  BY <1>6, TakeCursorKeeps, DeepPageKeeps, DeepEndKeeps, JudgeKeeps
<1>7. CASE Finish \/ RequestFails
  BY <1>7, FinishKeeps, RequestFailsKeeps
<1>8. CASE AskRefreshes
  BY <1>8, AskKeeps
<1>9. CASE AskAnswers
  BY <1>1, <1>9, BesideKeeps DEF AskAnswers, world, memo, walking, Asks
<1>13. CASE Emit \/ CadenceRunsOut \/ ListenerEnds
           \/ \E h \in Hash : Receive(h)
  BY <1>1, <1>13, BesideKeeps
     DEF Emit, CadenceRunsOut, ListenerEnds, Receive,
         world, memo, walking
<1>10. CASE Sweep
  BY <1>1, <1>10, MemoRefreshKeeps DEF Sweep
<1>11. CASE \E h \in Asked : GetInvoice(h)
  <2>1. PICK h \in Asked : GetInvoice(h)
    BY <1>11
  <2>2. h \in Hash
    BY DEF WalletMemoAssumption
  <2>3. ask' \in Asks /\ RestoreAndWatch(h)
        /\ UNCHANGED <<wallet, past, walk, cursor, covered, restarts>>
    BY <2>1, <2>2 DEF Asks, GetInvoice, world, walking
  <2> QED
    BY <1>1, <2>2, <2>3, WatchKeeps
<1>12. CASE \E h \in Hash : Push(h) \/ Pays(h) \/ Lapses(h) \/ GraceEnds(h)
  BY <1>12, WorldKeeps
<1> QED
  BY <1>2, <1>3, <1>4, <1>5, <1>6, <1>7, <1>8, <1>9, <1>10, <1>11, <1>12, <1>13
     DEF MemoStep, WalkStep

\* What a walk drops is known to be settled, or is not, or was never looked for.
LEMMA DroppedIsKnown ==
    ASSUME MemoKeepsRows, MemoInv, Finish, NEW h \in watched \ watched'
    PROVE  /\ h \in Hash /\ walk # NoWalk
           /\ \/ rows[h] = "settled" \/ wallet[h] = "expired"
              \/ wallet[h] = "none"
              \/ h \in past /\ wallet[h] # "settled"
              \/ rows[h] = "pending" /\ h \notin LookedFor
<1>1. walk.at = "finish" /\ watched' = watched \ Pruned({})
  BY FinishIs
<1>2. walk # NoWalk /\ h \in Hash /\ h \in Pruned({}) /\ rows[h] \in Status
  BY <1>1, Walking DEF MemoInv, MemoTypes
<1>3. CASE rows[h] = "none"
  BY <1>2, <1>3 DEF Pruned, Decided, MemoInv, WalkIsTrue
<1>4. CASE Terminal(h)
  BY <1>2, <1>4 DEF Terminal, MemoInv, RowsAreTrue
<1>5. CASE rows[h] = "pending" /\ ~walk.cut /\ h \in walk.past
  <2>1. h \in past
    BY <1>2, <1>5 DEF MemoInv, WalkIsTrue
  <2>2. ~Sought(h)
    BY <1>1, <1>5 DEF Sought
  <2>3. ~Late(h)
    BY <1>2, <2>2 DEF MemoInv, WalkIsTrue
  <2> QED
    BY <1>2, <1>5, <2>1, <2>3 DEF Late
<1> QED
  BY <1>2, <1>3, <1>4, <1>5 DEF Pruned, Decided, Terminal, Status

\* The memo never gives up a hash the wallet has settled without knowing that it
\* settled, one it has no row of included, unless its row was restored after the
\* walk had fixed what it looks for (ScanMemo.Prune).
THEOREM LeavesUnpaid ==
    ASSUME WalletMemoAssumption, MemoKeepsRows, AgesAreKnown
    PROVE  MemoSpec => DroppedIsUnpaid
<1>1. MemoInit => MemoInv
  BY MemoStarts
<1>2. MemoInv /\ [MemoNext]_memoVars => MemoInv'
  <2> SUFFICES ASSUME MemoInv, [MemoNext]_memoVars
               PROVE  MemoInv'
    OBVIOUS
  <2>1. ask \in Asks /\ restarts \in Nat
    BY DEF MemoInv, MemoTypes
  <2>2. CASE Restart
    BY <2>1, <2>2, RestartKeeps DEF Restart
  <2>3. CASE UNCHANGED memoVars
    BY <2>1, <2>3, BesideKeeps DEF memoVars, memo, walking
  <2> QED
    BY <2>2, <2>3, MemoStepKeeps DEF MemoNext
<1>3. MemoInv /\ [MemoNext]_memoVars => [DropsUnpaid]_memoVars
  <2> SUFFICES ASSUME MemoInv, MemoNext,
                      walk # NoWalk, walk' = NoWalk, restarts' = restarts,
                      NEW h \in watched \ watched', wallet[h] = "settled"
               PROVE  \/ rows[h] = "settled"
                      \/ rows[h] = "pending" /\ h \notin LookedFor
    BY DEF DropsUnpaid
  <2>1. restarts \in Nat /\ h \in Hash
    BY DEF MemoInv, MemoTypes
  <2>2. ~Restart
    BY <2>1 DEF Restart
  <2>3. Finish
    <3>1. ~(watched \subseteq watched')
      OBVIOUS
    <3>2. ~(\E g \in Hash : LookUp(g) \/ Push(g) \/ Receive(g) \/ Pays(g)
                            \/ Lapses(g) \/ GraceEnds(g))
      BY <3>1 DEF LookUp, Push, Receive, Pays, Lapses, GraceEnds,
                  memo
    <3>3. ~(\E g \in Asked : GetInvoice(g))
      BY <3>1 DEF GetInvoice, RestoreAndWatch
    <3>4. ~(AskRefreshes \/ AskAnswers \/ Sweep \/ Emit
            \/ CadenceRunsOut \/ ListenerEnds \/ RequestFails)
      BY <3>1 DEF AskRefreshes, AskAnswers, Sweep, Emit, CadenceRunsOut,
                  ListenerEnds, RequestFails, Refresh, Share, Start,
                  FindFresh, memo
    <3>5. ~(StartQueued \/ Expect \/ SettledView \/ UnpaidView
            \/ LearnViews \/ TakeCursor \/ DeepEnd \/ DeepPage \/ Judge)
      BY <3>1 DEF StartQueued, Expect, SettledView, UnpaidView,
                  LearnViews, TakeCursor, DeepEnd, DeepPage, Judge, memo
    <3> QED
      BY <2>2, <3>2, <3>3, <3>4, <3>5 DEF MemoNext, MemoStep, WalkStep
  <2> QED
    BY <2>3, DroppedIsKnown
<1> QED
  BY <1>1, <1>2, <1>3, PTL DEF MemoSpec, DroppedIsUnpaid

-----------------------------------------------------------------------------
(***************************************************************************)
(* Recovery, whoever else walks the memo.                                  *)
(***************************************************************************)
Closing == {"close", "unwatched", "covered"}

Deciding == Closing \cup {"checkpoint", "pay", "confirm"}

Passes == [at : {"restore", "refresh", "judge"} \cup Deciding,
           todo : SUBSET Stored, ready : SUBSET Stored, hash : Stored \cup {"none"},
           row : Status]

PassTypes ==
    /\ pass \in Passes \cup {NoPass}
    /\ durable \in [Stored -> {"open", "terminal", "unpaid"}]

\* Why the memo may have given up a hash.
Gone(h) == rows[h] = "settled" \/ Over(h) \/ h \in strays

\* What the memo no longer watches of the pass's hashes it gave up for a reason;
\* the reason stands when the pass has found the hash unwatched.
ReadyIsKnown ==
    pass # NoPass =>
        /\ \A h \in pass.ready : h \in watched \/ Gone(h)
        /\ pass.at # "restore" => pass.todo \subseteq pass.ready
        /\ pass.at \in Deciding => pass.hash \in pass.ready
        /\ pass.at \in Closing => pass.row # "settled"
        /\ pass.at = "covered" => Gone(pass.hash)

PassInv == MemoInv /\ PassTypes /\ ReadyIsKnown

\* A pass runs or does not.
LEMMA PassStages ==
    ASSUME PassTypes
    PROVE  /\ pass # NoPass <=> pass \in Passes
           /\ pass.at # "none" <=> pass # NoPass
  BY DEF PassTypes, Passes, NoPass, Deciding, Closing

\* What the memo, the wallet and time do to a reason: it stays.
Going ==
    /\ watched \subseteq watched' /\ strays' = strays
    /\ \A h \in Hash : /\ rows[h] = "settled" => rows'[h] = "settled"
                       /\ Over(h) => Over(h)'

\* Steps that leave the pass where it is.
LEMMA PassStays ==
    ASSUME WalletMemoAssumption, PassInv, MemoInv', UNCHANGED <<pass, durable>>,
           \A h \in Stored : /\ Gone(h) => Gone(h)'
                             /\ h \in watched => h \in watched' \/ Gone(h)'
    PROVE  PassInv'
<1>1. PassTypes'
  BY DEF PassInv, PassTypes
<1>2. pass # NoPass => pass.ready \subseteq Stored
  BY PassStages DEF PassInv, Passes
<1>3. ReadyIsKnown'
  <2> SUFFICES ASSUME pass # NoPass
               PROVE  ReadyIsKnown'
    BY DEF ReadyIsKnown
  <2>1. pass' = pass /\ ReadyIsKnown
    BY DEF PassInv
  <2>2. \A h \in pass.ready : h \in watched' \/ Gone(h)'
    BY <1>2, <2>1 DEF ReadyIsKnown
  <2>3. pass.at = "covered" => Gone(pass.hash)'
    <3>1. pass.at = "covered" => pass.hash \in Stored /\ Gone(pass.hash)
      BY <1>2, <2>1 DEF ReadyIsKnown, Deciding, Closing
    <3> QED
      BY <3>1
  <2> QED
    BY <2>1, <2>2, <2>3 DEF ReadyIsKnown
<1> QED
  BY <1>1, <1>3 DEF PassInv

LEMMA GoingStays ==
    ASSUME WalletMemoAssumption, PassInv, MemoInv', UNCHANGED <<pass, durable>>, Going
    PROVE  PassInv'
<1>1. Stored \subseteq Hash
  BY DEF WalletMemoAssumption
<1>2. \A h \in Stored : /\ Gone(h) => Gone(h)'
                        /\ h \in watched => h \in watched' \/ Gone(h)'
  BY <1>1 DEF Going, Gone
<1> QED
  BY <1>2, PassStays

\* Steps beside the memo, and those that only begin or share a walk.
BesideMemo ==
    UNCHANGED <<wallet, past, rows, watched, deepWalked, walk, cursor, covered, ask, restarts>>

LEMMA BesideGoes ==
    ASSUME PassInv, BesideMemo
    PROVE  MemoInv'
  BY BesideKeeps DEF BesideMemo, PassInv, MemoInv, MemoTypes

\* A pass goes to its next row or stage.
LEMMA PassMoves ==
    ASSUME PassInv, MemoInv', UNCHANGED <<wallet, past, rows, watched, strays>>,
           pass # NoPass, pass' \in Passes, pass'.ready = pass.ready,
           durable' \in [Stored -> {"open", "terminal", "unpaid"}],
           pass'.at # "restore" => pass'.todo \subseteq pass.ready,
           pass'.at \in Deciding => pass'.hash \in pass.ready,
           pass'.at \in Closing => pass'.row # "settled",
           pass'.at = "covered" => Gone(pass'.hash)
    PROVE  PassInv'
<1>1. PassTypes'
  BY DEF PassTypes
<1>2. \A h : Gone(h)' <=> Gone(h)
  BY DEF Gone, Over
<1>3. ReadyIsKnown'
  BY <1>2 DEF PassInv, ReadyIsKnown
<1> QED
  BY <1>1, <1>3 DEF PassInv

\* The pass ends; its refresh may have failed, and the process may have died.
LEMMA PassEnds ==
    ASSUME PassInv, MemoInv', pass' = NoPass, UNCHANGED durable
    PROVE  PassInv'
  BY DEF PassInv, PassTypes, ReadyIsKnown

-----------------------------------------------------------------------------
\* Every step of the memo, of whoever walks it, leaves a reason or adds one: the
\* walk that drops a hash has judged it, or makes a stray of it.
LEMMA FinishLeaves ==
    ASSUME WalletMemoAssumption, MemoKeepsRows, PassInv, MemoInv', Finish, strays' = Strays,
           UNCHANGED recovery
    PROVE  PassInv'
<1>1. MemoInv /\ UNCHANGED <<wallet, past, rows, pass, durable>>
  BY FinishIs DEF PassInv, recovery
<1>2. \A h \in Dropped : h \in Hash /\ (h \in Stored => Gone(h)')
  <2> SUFFICES ASSUME NEW h \in watched \ watched'
               PROVE  h \in Hash /\ (h \in Stored => Gone(h)')
    BY DEF Dropped
  <2>1. /\ h \in Hash
        /\ \/ rows[h] = "settled" \/ wallet[h] = "expired" \/ wallet[h] = "none"
           \/ h \in past /\ wallet[h] # "settled"
           \/ rows[h] = "pending" /\ h \notin LookedFor
    BY <1>1, DroppedIsKnown
  <2>2. h \in Stored => wallet[h] # "none"
    BY <1>1 DEF MemoInv, RowsAreTrue
  <2>3. rows[h] = "pending" /\ h \notin LookedFor => h \in strays'
    BY DEF Strays, Dropped
  <2> QED
    BY <1>1, <2>1, <2>2, <2>3 DEF Gone, Over
<1>3. \A h \in Stored : /\ Gone(h) => Gone(h)'
                        /\ h \in watched => h \in watched' \/ Gone(h)'
  <2> SUFFICES ASSUME NEW h \in Stored
               PROVE  /\ Gone(h) => Gone(h)'
                      /\ h \in watched => h \in watched' \/ Gone(h)'
    OBVIOUS
  <2>1. CASE h \in Dropped
    BY <1>2, <2>1
  <2>2. CASE h \notin Dropped
    BY <1>1, <2>2 DEF Gone, Over, Strays, Dropped
  <2> QED
    BY <2>1, <2>2
<1> QED
  BY <1>1, <1>3, PassStays

LEMMA MemoStepStays ==
    ASSUME WalletMemoAssumption, MemoKeepsRows, AgesAreKnown, PassInv, MemoStep,
           strays' = Strays, UNCHANGED recovery
    PROVE  PassInv'
<1>1. MemoInv /\ MemoInv' /\ UNCHANGED <<pass, durable>>
  BY MemoStepKeeps DEF PassInv, recovery
<1>2. wallet \in [Hash -> Status] /\ rows \in [Hash -> Status] /\ Asked \subseteq Hash
  BY <1>1 DEF MemoInv, MemoTypes, WalletMemoAssumption
<1>3. watched \subseteq watched' => strays' = strays
  BY DEF Strays, Dropped
<1>4. ASSUME watched \subseteq watched',
             \A h \in Hash : /\ rows[h] = "settled" => rows'[h] = "settled"
                             /\ Over(h) => Over(h)'
      PROVE  PassInv'
  BY <1>1, <1>3, <1>4, GoingStays DEF Going
<1>5. CASE \/ Expect \/ SettledView \/ UnpaidView \/ LearnViews
           \/ TakeCursor \/ DeepPage \/ DeepEnd \/ Judge
           \/ \E h \in Hash : LookUp(h)
  <2>1. WalkGoesOn /\ RowsGoOn
    BY <1>1, <1>5, ExpectKeeps, SettledViewKeeps, UnpaidViewKeeps, LearnViewsKeeps, TakeCursorKeeps,
       DeepPageKeeps, DeepEndKeeps, JudgeKeeps, LookUpKeeps
  <2> QED
    BY <1>4, <2>1 DEF WalkGoesOn, RowsGoOn, Over
<1>6. CASE \/ StartQueued \/ AskRefreshes \/ AskAnswers \/ Sweep \/ Emit
           \/ CadenceRunsOut \/ ListenerEnds \/ RequestFails
           \/ \E h \in Hash : Receive(h)
  <2>1. UNCHANGED <<wallet, past, rows, watched>>
    BY <1>6 DEF StartQueued, AskRefreshes, AskAnswers, Sweep, Emit, CadenceRunsOut, ListenerEnds,
                RequestFails, Receive, Refresh, Share, Start, FindFresh, memo, world
  <2> QED
    BY <1>4, <2>1 DEF Over
<1>7. ASSUME NEW found, rows' = Upserted(found), watched \subseteq watched',
             UNCHANGED <<wallet, past>>
      PROVE  PassInv'
  <2>1. \A h \in Hash : rows[h] = "settled" => rows'[h] = "settled"
    BY <1>7 DEF Upserted
  <2> QED
    BY <1>4, <1>7, <2>1 DEF Over
<1>8. CASE \E h \in Hash : Push(h)
  BY <1>7, <1>8 DEF Push, world
<1>9. CASE \E h \in Asked : GetInvoice(h)
  BY <1>7, <1>9 DEF GetInvoice, RestoreAndWatch, world
<1>10. CASE \E h \in Hash : Pays(h) \/ Lapses(h) \/ GraceEnds(h)
  <2>1. PICK h \in Hash : Pays(h) \/ Lapses(h) \/ GraceEnds(h)
    BY <1>10
  <2>2. UNCHANGED <<rows, watched>>
    BY <2>1 DEF Pays, Lapses, GraceEnds, memo
  <2>3. CASE Pays(h)
    BY <1>2, <1>4, <2>2, <2>3 DEF Pays, Over
  <2>4. CASE Lapses(h)
    BY <1>2, <1>4, <2>2, <2>4 DEF Lapses, Over
  <2>5. CASE GraceEnds(h)
    BY <1>2, <1>4, <2>2, <2>5 DEF GraceEnds, Over
  <2> QED
    BY <2>1, <2>3, <2>4, <2>5
<1>11. CASE Finish
  BY <1>1, <1>11, FinishLeaves
<1> QED
  BY <1>5, <1>6, <1>8, <1>9, <1>10, <1>11 DEF MemoStep, WalkStep

-----------------------------------------------------------------------------
\* One lemma for each step of a pass.
LEMMA BeginPassKeeps ==
    ASSUME PassInv, BeginPass, UNCHANGED strays
    PROVE  PassInv'
<1>1. PICK due : /\ due = Due
                 /\ pass' = [at |-> "restore", todo |-> due, ready |-> {}, hash |-> "none",
                             row |-> "none"]
  BY DEF BeginPass
<1>2. due \subseteq Stored
  BY <1>1 DEF Due
<1>3. pass' \in Passes /\ pass'.at = "restore" /\ pass'.ready = {}
  BY <1>1, <1>2 DEF Passes, Status
<1>4. BesideMemo /\ UNCHANGED durable
  BY DEF BeginPass, BesideMemo, memoVars, memo, walking
<1>5. MemoInv'
  BY <1>4, BesideGoes
<1>6. PassTypes'
  BY <1>3, <1>4 DEF PassTypes, PassInv
<1>7. ReadyIsKnown'
  BY <1>3 DEF ReadyIsKnown, Deciding, Closing
<1> QED
  BY <1>5, <1>6, <1>7 DEF PassInv

LEMMA TakeKeeps ==
    ASSUME WalletMemoAssumption, PassInv, NEW h \in Stored, Take(h), UNCHANGED strays
    PROVE  PassInv'
<1>1. /\ pass.at = "restore" /\ pass' = [pass EXCEPT !.todo = @ \ {h}, !.ready = @ \cup {h}]
      /\ RestoreAndWatch(h)
      /\ UNCHANGED <<wallet, past, restarts, walk, cursor, covered, ask, durable>>
  BY DEF Take, world, walking
<1>2. h \in Hash /\ Stored \subseteq Hash
  BY DEF WalletMemoAssumption
<1>3. MemoInv /\ MemoInv'
  BY <1>1, <1>2, WatchKeeps DEF PassInv, MemoInv, MemoTypes
<1>4. pass \in Passes /\ pass # NoPass
  BY <1>1, PassStages DEF PassInv, NoPass
<1>5. pass' \in Passes /\ pass'.at = "restore" /\ pass'.ready = pass.ready \cup {h}
  BY <1>1, <1>4 DEF Passes
<1>6. PassTypes'
  BY <1>1, <1>5 DEF PassTypes, PassInv
<1>7. /\ watched' = watched \cup {g \in {h} : ~Terminal(g)}
      /\ \A g \in Hash : rows[g] = "settled" => rows'[g] = "settled"
      /\ \A g \in Hash : Over(g) => Over(g)'
  BY <1>1 DEF RestoreAndWatch, Upserted, Over
<1>8. \A g \in Stored : g \in watched \/ Gone(g) => g \in watched' \/ Gone(g)'
  BY <1>2, <1>7 DEF Gone
<1>9. h \in watched' \/ Gone(h)'
  BY <1>2, <1>3, <1>7 DEF Terminal, MemoInv, RowsAreTrue, Gone, Over
<1>10. \A g \in pass'.ready : g \in watched' \/ Gone(g)'
  BY <1>4, <1>5, <1>8, <1>9 DEF PassInv, ReadyIsKnown, Passes
<1>11. ReadyIsKnown'
  BY <1>5, <1>10 DEF ReadyIsKnown, Deciding, Closing
<1> QED
  BY <1>3, <1>6, <1>11 DEF PassInv

LEMMA RecoverRefreshesKeeps ==
    ASSUME PassInv, RecoverRefreshes, UNCHANGED strays
    PROVE  PassInv'
<1>1. pass.at = "restore" /\ pass.todo = {} /\ UNCHANGED durable
  BY DEF RecoverRefreshes
<1>2. pass \in Passes /\ pass # NoPass /\ MemoInv /\ ask \in Asks
  BY <1>1, PassStages DEF PassInv, NoPass, MemoInv, MemoTypes
<1>3. CASE pass.ready = {}
  <2>1. pass' = NoPass /\ BesideMemo
    BY <1>3 DEF RecoverRefreshes, BesideMemo, memoVars, memo, walking
  <2> QED
    BY <1>1, <2>1, BesideGoes, PassEnds
<1>4. CASE pass.ready # {}
  <2>1. /\ Refresh("recover", FALSE) /\ pass' = [pass EXCEPT !.at = "refresh"]
        /\ UNCHANGED ask
    BY <1>4 DEF RecoverRefreshes
  <2>2. MemoInv'
    BY <1>2, <2>1, MemoRefreshKeeps
  <2>3. /\ pass' \in Passes /\ pass'.at = "refresh" /\ pass'.ready = pass.ready
        /\ pass'.todo = {}
    BY <1>1, <1>2, <2>1 DEF Passes
  <2>4. UNCHANGED <<wallet, past, rows, watched>>
    BY <2>1 DEF Refresh, Share, Start, FindFresh, memo, world
  <2>5. durable' \in [Stored -> {"open", "terminal", "unpaid"}]
    BY <1>1 DEF PassInv, PassTypes
  <2> QED
    BY <1>2, <2>2, <2>3, <2>4, <2>5, PassMoves DEF Deciding, Closing
<1> QED
  BY <1>3, <1>4

LEMMA PassRefreshedKeeps ==
    ASSUME PassInv, Refreshed, UNCHANGED strays
    PROVE  PassInv'
<1>1. /\ pass.at = "refresh" /\ UNCHANGED durable /\ BesideMemo
      /\ \/ pass' = NoPass
         \/ pass' = [pass EXCEPT !.at = "judge", !.todo = pass.ready]
  BY DEF Refreshed, BesideMemo, world, memo, walking
<1>2. pass \in Passes /\ pass # NoPass
  BY <1>1, PassStages DEF PassInv, NoPass
<1>3. MemoInv' /\ durable' \in [Stored -> {"open", "terminal", "unpaid"}]
  BY <1>1, BesideGoes DEF PassInv, PassTypes
<1>4. CASE pass' = NoPass
  BY <1>1, <1>3, <1>4, PassEnds
<1>5. CASE pass' = [pass EXCEPT !.at = "judge", !.todo = pass.ready]
  <2>1. /\ pass' \in Passes /\ pass'.at = "judge" /\ pass'.todo = pass.ready
        /\ pass'.ready = pass.ready
    BY <1>2, <1>5 DEF Passes
  <2> QED
    BY <1>1, <1>2, <1>3, <2>1, PassMoves DEF BesideMemo, Deciding, Closing
<1> QED
  BY <1>1, <1>4, <1>5

\* A row is looked at; what it says is kept until the row is decided.
LEMMA LookKeeps ==
    ASSUME WalletMemoAssumption, PassInv, NEW h \in Stored, Look(h), UNCHANGED strays
    PROVE  PassInv' /\ ClosesJudged
<1>1. /\ pass.at = "judge" /\ h \in pass.todo /\ BesideMemo
      /\ durable' = (IF rows[h] = "expired" THEN [durable EXCEPT ![h] = "terminal"] ELSE durable)
  BY DEF Look, BesideMemo, memoVars, memo, walking
<1>2. pass \in Passes /\ pass # NoPass
  BY <1>1, PassStages DEF PassInv, NoPass
<1>3. /\ MemoInv /\ MemoInv' /\ rows[h] \in Status
      /\ durable \in [Stored -> {"open", "terminal", "unpaid"}]
      /\ h \in pass.ready /\ h \in Hash
  BY <1>1, <1>2, BesideGoes
     DEF PassInv, PassTypes, ReadyIsKnown, MemoInv, MemoTypes, WalletMemoAssumption
<1>4. PICK stage \in {"checkpoint", "judge", "close"}, read \in Status :
        /\ pass' = [pass EXCEPT !.at = stage, !.todo = @ \ {h}, !.hash = h, !.row = read]
        /\ stage = "close" => read # "settled"
  BY <1>3 DEF Look
<1>5. /\ pass' \in Passes /\ pass'.at = stage /\ pass'.todo \subseteq pass.todo
      /\ pass'.ready = pass.ready /\ pass'.hash = h /\ pass'.row = read
  BY <1>2, <1>4 DEF Passes, Deciding, Closing
<1>6. durable' \in [Stored -> {"open", "terminal", "unpaid"}]
  BY <1>1, <1>3
<1>7. PassInv'
  BY <1>1, <1>2, <1>3, <1>4, <1>5, <1>6, PassMoves
     DEF BesideMemo, PassInv, ReadyIsKnown, Deciding, Closing
<1>8. rows[h] = "expired" => Over(h)
  BY <1>3 DEF MemoInv, RowsAreTrue, Over
<1>9. ClosesJudged
  BY <1>1, <1>3, <1>8 DEF ClosesJudged
<1> QED
  BY <1>7, <1>9

\* The memo's three answers: a hash found unwatched was given up for a reason.
LEMMA AnswersKeep ==
    ASSUME WalletMemoAssumption, PassInv, AskComplete \/ AskWatched \/ Close, UNCHANGED strays
    PROVE  PassInv' /\ ClosesJudged
<1>1. pass.at \in Closing /\ BesideMemo
  BY DEF AskComplete, AskWatched, Close, MovesOn, BesideMemo, memoVars, memo, walking, Closing
<1>2. pass \in Passes /\ pass # NoPass
  BY <1>1, PassStages DEF PassInv, NoPass, Closing
<1>3. /\ MemoInv' /\ durable \in [Stored -> {"open", "terminal", "unpaid"}]
      /\ pass.hash \in pass.ready /\ pass.ready \subseteq Stored /\ pass.row # "settled"
      /\ pass.todo \subseteq pass.ready
      /\ pass.hash \in watched \/ Gone(pass.hash)
      /\ pass.at = "covered" => Gone(pass.hash)
  BY <1>1, <1>2, BesideGoes DEF PassInv, PassTypes, ReadyIsKnown, Passes, Closing, Deciding
<1>4. ASSUME NEW stage \in {"judge", "unwatched", "covered"}, pass' = [pass EXCEPT !.at = stage],
             durable' \in [Stored -> {"open", "terminal", "unpaid"}],
             stage = "covered" => Gone(pass.hash)
      PROVE  PassInv'
  <2>1. /\ pass' \in Passes /\ pass'.at = stage /\ pass'.todo = pass.todo
        /\ pass'.ready = pass.ready /\ pass'.hash = pass.hash /\ pass'.row = pass.row
    BY <1>2, <1>4 DEF Passes, Deciding, Closing
  <2> QED
    BY <1>1, <1>2, <1>3, <1>4, <2>1, PassMoves DEF BesideMemo
<1>5. CASE AskComplete
  <2>1. PICK stage \in {"judge", "unwatched"} : pass' = [pass EXCEPT !.at = stage]
    BY <1>5 DEF AskComplete, MovesOn
  <2> QED
    BY <1>3, <1>4, <1>5, <2>1 DEF AskComplete, ClosesJudged
<1>6. CASE AskWatched
  <2>1. PICK stage \in {"judge", "covered"} :
          /\ pass' = [pass EXCEPT !.at = stage]
          /\ stage = "covered" => pass.hash \notin watched
    BY <1>6 DEF AskWatched, MovesOn, Unwatched
  <2> QED
    BY <1>3, <1>4, <1>6, <2>1 DEF AskWatched, ClosesJudged
<1>7. CASE Close
  <2>1. /\ pass' = [pass EXCEPT !.at = "judge"] /\ Gone(pass.hash)
        /\ durable' \in {durable, [durable EXCEPT ![pass.hash] = "unpaid"]}
    BY <1>3, <1>7 DEF Close, MovesOn
  <2>2. durable' \in [Stored -> {"open", "terminal", "unpaid"}]
    BY <1>3, <2>1
  <2>3. ClosesJudged
    BY <1>3, <2>1 DEF ClosesJudged, Gone
  <2> QED
    BY <1>4, <2>1, <2>2, <2>3
<1> QED
  BY <1>5, <1>6, <1>7

\* The other steps of the second half, and those of the first that only set a row
\* aside.
LEMMA DeliveringKeeps ==
    ASSUME PassInv, UNCHANGED strays,
           \/ EndPass \/ StoreCheckpoint \/ AddPayment \/ Confirm
           \/ \E h \in Stored : Acknowledge(h) \/ SetAside(h)
    PROVE  PassInv' /\ UNCHANGED durable
<1>1. BesideMemo /\ UNCHANGED durable
  BY DEF BesideMemo, EndPass, StoreCheckpoint, AddPayment, Confirm, PutOff,
         Acknowledge, SetAside, memoVars, memo, walking, world
<1>2. pass.at \in {"restore", "judge", "checkpoint", "pay", "confirm"}
  BY DEF EndPass, StoreCheckpoint, AddPayment, Confirm, Acknowledge, SetAside
<1>3. pass \in Passes /\ pass # NoPass
  BY <1>2, PassStages DEF PassInv, NoPass
<1>4. /\ MemoInv' /\ durable' \in [Stored -> {"open", "terminal", "unpaid"}]
      /\ pass.at # "restore" => pass.todo \subseteq pass.ready
      /\ pass.at \in Deciding => pass.hash \in pass.ready
  BY <1>1, <1>3, BesideGoes DEF PassInv, PassTypes, ReadyIsKnown
<1>5. CASE EndPass
  BY <1>1, <1>4, <1>5, PassEnds DEF EndPass
<1>6. CASE StoreCheckpoint \/ AddPayment \/ Confirm
  <2>1. PICK stage \in {"judge", "pay", "confirm"} : pass' = [pass EXCEPT !.at = stage]
    BY <1>6 DEF StoreCheckpoint, AddPayment, Confirm
  <2>2. /\ pass' \in Passes /\ pass'.at = stage /\ pass'.todo = pass.todo
        /\ pass'.ready = pass.ready /\ pass'.hash = pass.hash
    BY <1>3, <2>1 DEF Passes, Deciding, Closing
  <2>3. pass.at \in Deciding /\ pass.at # "restore"
    BY <1>6 DEF StoreCheckpoint, AddPayment, Confirm, Deciding, Closing
  <2> QED
    BY <1>1, <1>3, <1>4, <2>2, <2>3, PassMoves DEF BesideMemo, Closing
<1>7. CASE \E h \in Stored : Acknowledge(h) \/ SetAside(h)
  <2>1. PICK h \in Stored : /\ pass' = [pass EXCEPT !.todo = @ \ {h}]
                            /\ pass.at = "restore"
    BY <1>7 DEF Acknowledge, SetAside
  <2>2. pass' \in Passes /\ pass'.at = "restore" /\ pass'.ready = pass.ready
    BY <1>3, <2>1 DEF Passes
  <2> QED
    BY <1>1, <1>3, <1>4, <2>2, PassMoves DEF BesideMemo, Deciding, Closing
<1> QED
  BY <1>1, <1>5, <1>6, <1>7

LEMMA RestartAllKeeps ==
    ASSUME PassInv, RestartAll
    PROVE  PassInv'
<1>1. /\ MemoIsLost /\ UNCHANGED <<wallet, past, durable>> /\ restarts' = restarts + 1
      /\ pass' = NoPass
  BY DEF RestartAll, Restart
<1>2. MemoInv'
  BY <1>1, RestartKeeps DEF PassInv, MemoInv, MemoTypes
<1> QED
  BY <1>1, <1>2, PassEnds

\* A row is closed for good only when its invoice is over, whoever else walks the
\* memo, but for the two races that are named in the property
\* (HistoricalInvoiceRecovery.Do, ScanMemo.Prune).
THEOREM ClosesOnlyOver ==
    ASSUME WalletMemoAssumption, MemoKeepsRows, AgesAreKnown
    PROVE  RecoverySpec => OnlyOverIsClosed
<1>1. RecoveryInit => PassInv
  <2> SUFFICES ASSUME RecoveryInit
               PROVE  PassInv
    OBVIOUS
  <2>1. MemoInv
    BY MemoStarts DEF RecoveryInit
  <2>2. pass = NoPass /\ durable = [h \in Stored |-> "open"]
    BY DEF RecoveryInit, PassInit
  <2> QED
    BY <2>1, <2>2 DEF PassInv, PassTypes, ReadyIsKnown
<1>2. PassInv /\ [RecoveryNext]_recoveryVars => PassInv' /\ [ClosesJudged]_recoveryVars
  <2> SUFFICES ASSUME PassInv, [RecoveryNext]_recoveryVars
               PROVE  PassInv' /\ ClosesJudged
    BY DEF recoveryVars
  <2>1. UNCHANGED durable => ClosesJudged
    BY DEF ClosesJudged
  <2>2. CASE MemoStep /\ strays' = Strays /\ UNCHANGED recovery
    BY <2>1, <2>2, MemoStepStays DEF recovery
  <2>3. CASE (BeginPass \/ RecoverRefreshes \/ Refreshed) /\ UNCHANGED strays
    <3>1. UNCHANGED durable
      BY <2>3 DEF BeginPass, RecoverRefreshes, Refreshed
    <3> QED
      BY <2>1, <2>3, <3>1, BeginPassKeeps, RecoverRefreshesKeeps, PassRefreshedKeeps
  <2>4. CASE (\E h \in Stored : Take(h)) /\ UNCHANGED strays
    <3>1. UNCHANGED durable
      BY <2>4 DEF Take
    <3> QED
      BY <2>1, <2>4, <3>1, TakeKeeps
  <2>5. CASE /\ UNCHANGED strays
             /\ \/ AskComplete \/ AskWatched \/ Close
                \/ \E h \in Stored : Look(h)
    BY <2>5, AnswersKeep, LookKeeps
  <2>6. CASE /\ UNCHANGED strays
             /\ \/ EndPass \/ StoreCheckpoint \/ AddPayment \/ Confirm
                \/ \E h \in Stored : Acknowledge(h) \/ SetAside(h)
    BY <2>1, <2>6, DeliveringKeeps
  <2>7. CASE RestartAll
    <3>1. UNCHANGED durable
      BY <2>7 DEF RestartAll
    <3> QED
      BY <2>1, <2>7, <3>1, RestartAllKeeps
  <2>8. CASE \/ UNCHANGED recoveryVars
             \/ (\E h \in Stored : ServeEvent(h) \/ ComesDue(h)) /\ UNCHANGED strays
    <3>1. BesideMemo /\ UNCHANGED <<pass, durable, strays>>
      BY <2>8 DEF BesideMemo, ServeEvent, ComesDue, recoveryVars, recovery,
                  memoVars, memo, walking
    <3>2. MemoInv' /\ Going
      BY <3>1, BesideGoes DEF Going, BesideMemo, Over
    <3> QED
      BY <2>1, <3>1, <3>2, GoingStays
  <2> QED
    BY <2>2, <2>3, <2>4, <2>5, <2>6, <2>7, <2>8 DEF RecoveryNext, PassStep
<1> QED
  BY <1>1, <1>2, PTL DEF RecoverySpec, OnlyOverIsClosed
================================================================================
