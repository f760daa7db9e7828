------------------------- MODULE NotificationListener -----------------------
(***************************************************************************)
(* startNotificationListener and the worker around it: one process that    *)
(* hears the wallet, settles what a notification proves, wakes a pass for  *)
(* everything else, runs a periodic pass as its safety net, and stops.     *)
(*                                                                         *)
(* Every await is a step boundary; what runs between two awaits is one     *)
(* step.  Passes go through the durable gate and may find it busy.         *)
(***************************************************************************)
EXTENDS Naturals, Sequences, FiniteSets

CONSTANTS
    Hash,       \* payment hashes a notification may name
    Caller,     \* callers of stop()
    MaxNotes    \* notifications the wallet sends

MaxNotesAssumption == MaxNotes \in Nat

VARIABLES
    row,          \* [Hash -> the attempt's row]
    paid,         \* hashes whose payment is in the wallet
    subscribed,   \* whether the wallet's notifications reach the handler
    notes,        \* notifications heard so far
    stopped, running, queued,   \* the listener's flags
    passes,       \* passes of the listener under way
    settling,     \* notifications behind the one being settled
    settler,      \* the direct settlement under way
    unserved,     \* hashes heard of, neither settled nor followed by a pass
    loop,         \* the periodic reconciler
    aborted,      \* its abort signal
    stop,         \* [Caller -> where its stop() call is]
    first         \* callers whose stop() found the worker running

world == <<row, paid>>
listener == <<stopped, running, queued, passes, unserved>>
chain == <<settling, settler>>
worker == <<loop, aborted>>
stopping == <<stop, first>>
listenerVars == <<world, subscribed, notes, listener, chain, worker, stopping>>

\* What a notification carries: a final transaction, one that is not, or none.
Carries == {"final", "hint", "nothing"}
Note == [hash : Hash, carries : Carries]
NoSettler == [at |-> "idle"]

-----------------------------------------------------------------------------
\* The worker starts; a wallet without notifications has the periodic pass alone.
ListenerInit ==
    /\ row \in [Hash -> {"absent", "pending"}]
    /\ paid = {}
    /\ subscribed \in BOOLEAN
    /\ notes = 0
    /\ stopped = ~subscribed
    /\ running = FALSE /\ queued = FALSE /\ passes = 0
    /\ settling = <<>> /\ settler = NoSettler
    /\ unserved = {}
    /\ loop = "passing" /\ aborted = FALSE
    /\ stop = [c \in Caller |-> "none"] /\ first = {}

\* Mutant: a wake during a pass is dropped, as that pass is thought to cover it.
WakeWhenIdle(heard) ==
    \/ /\ (stopped \/ running) /\ unserved' = heard
       /\ UNCHANGED <<stopped, running, queued, passes>>
    \/ /\ ~stopped /\ ~running
       /\ running' = TRUE /\ queued' = FALSE /\ passes' = passes + 1 /\ unserved' = {}
       /\ UNCHANGED stopped

\* wakeReconciliation, up to the pass's first await.
Wake(heard) ==
    \/ /\ stopped
       /\ unserved' = heard
       /\ UNCHANGED <<stopped, running, queued, passes>>
    \/ /\ ~stopped /\ running
       /\ queued' = TRUE
       /\ unserved' = heard
       /\ UNCHANGED <<stopped, running, passes>>
    \/ /\ ~stopped /\ ~running
       /\ running' = TRUE /\ queued' = FALSE /\ passes' = passes + 1
       /\ unserved' = {}
       /\ UNCHANGED stopped

\* The handler given to subscribeWalletNotifications.
Hear(h, carries) ==
    /\ subscribed /\ notes < MaxNotes
    /\ carries = "final" => h \in paid
    /\ notes' = notes + 1
    /\ IF carries = "nothing"
       THEN Wake(unserved \cup {h}) /\ UNCHANGED chain
       ELSE /\ settling' = Append(settling, [hash |-> h, carries |-> carries])
            /\ unserved' = unserved \cup {h}
            /\ UNCHANGED <<stopped, running, queued, passes, settler>>
    /\ UNCHANGED <<world, subscribed, worker, stopping>>

\* classifyTransactionSettlement: finality, never a preimage alone.
IsFinal(note) == note.carries = "final"

\* settleDirectly, up to its first await.
BeginSettling ==
    /\ settler = NoSettler /\ settling # <<>>
    /\ settling' = Tail(settling)
    /\ IF ~stopped /\ IsFinal(Head(settling))
       THEN settler' = [at |-> "checking", hash |-> Head(settling).hash] /\ UNCHANGED listener
       ELSE Wake(unserved) /\ UNCHANGED settler
    /\ UNCHANGED <<world, subscribed, notes, worker, stopping>>

\* isPendingAttempt answers, or fails; only a scan may act on an unknown or
\* terminal hash.
CheckPending ==
    /\ settler.at = "checking"
    /\ \/ /\ row[settler.hash] = "pending"
          /\ settler' = [settler EXCEPT !.at = "paying"]
          /\ UNCHANGED listener
       \/ settler' = NoSettler /\ Wake(unserved)
    /\ UNCHANGED <<world, subscribed, notes, settling, worker, stopping>>

\* host.onPaid: markPaidOnce settles a pending row; or it throws.
SettleDirectly ==
    /\ settler.at = "paying"
    /\ settler' = NoSettler
    /\ \/ /\ row' = [row EXCEPT ![settler.hash] = IF @ = "pending" THEN "settled" ELSE @]
          /\ unserved' = unserved \ {settler.hash}
          /\ UNCHANGED <<stopped, running, queued, passes>>
       \/ Wake(unserved) /\ UNCHANGED row
    /\ UNCHANGED <<paid, subscribed, notes, settling, worker, stopping>>

\* What a pass settles: everything paid, or nothing when its gate is busy.
PassSettles ==
    \E found \in {{}, paid} :
        row' = [h \in Hash |-> IF h \in found /\ row[h] = "pending" THEN "settled" ELSE row[h]]

FollowUp == queued /\ ~stopped

\* A pass of the listener ends; a queued follow-up starts at once.
EndPass ==
    /\ passes > 0
    /\ PassSettles
    /\ IF FollowUp
       THEN queued' = FALSE /\ unserved' = {} /\ UNCHANGED <<running, passes>>
       ELSE running' = FALSE /\ passes' = passes - 1 /\ UNCHANGED <<queued, unserved>>
    /\ UNCHANGED <<paid, subscribed, notes, stopped, chain, worker, stopping>>

-----------------------------------------------------------------------------
\* The periodic reconciler: a pass, then a delay that the abort signal ends.
LoopPass ==
    /\ loop = "passing"
    /\ PassSettles
    /\ loop' = "waiting"
    /\ UNCHANGED <<paid, subscribed, notes, listener, chain, aborted, stopping>>

LoopWait ==
    /\ loop = "waiting"
    /\ loop' = IF aborted THEN "done" ELSE "passing"
    /\ UNCHANGED <<world, subscribed, notes, listener, chain, aborted, stopping>>

\* stop() of the worker, await by await.
CallStop(c) ==
    /\ stop[c] = "none"
    /\ IF stopped
       THEN stop' = [stop EXCEPT ![c] = "listener stopped"]
       ELSE stop' = [stop EXCEPT ![c] = "unsubscribing"]
    /\ stopped' = TRUE
    /\ first' = IF stopped THEN first ELSE first \cup {c}
    /\ UNCHANGED <<world, subscribed, notes, running, queued, passes, unserved, chain, worker>>

\* unsubscribe returns, or throws and notifications keep coming.
Unsubscribed(c) ==
    /\ stop[c] = "unsubscribing"
    /\ stop' = [stop EXCEPT ![c] = "settling"]
    /\ subscribed' \in {FALSE, subscribed}
    /\ UNCHANGED <<world, notes, listener, chain, worker, first>>

\* Mutant: stop() does not wait for a direct settlement.
SettlingIsNotAwaited == TRUE

\* await settling: what has not begun yet returns at once when its turn comes.
SettlingIsOver == settler = NoSettler

AwaitSettling(c) ==
    /\ stop[c] = "settling"
    /\ SettlingIsOver
    /\ stop' = [stop EXCEPT ![c] = "in flight"]
    /\ UNCHANGED <<world, subscribed, notes, listener, chain, worker, first>>

AwaitInFlight(c) ==
    /\ stop[c] = "in flight"
    /\ ~running
    /\ stop' = [stop EXCEPT ![c] = "listener stopped"]
    /\ UNCHANGED <<world, subscribed, notes, listener, chain, worker, first>>

AbortLoop(c) ==
    /\ stop[c] = "listener stopped"
    /\ stop' = [stop EXCEPT ![c] = "draining"]
    /\ aborted' = TRUE
    /\ UNCHANGED <<world, subscribed, notes, listener, chain, loop, first>>

AwaitLoop(c) ==
    /\ stop[c] = "draining"
    /\ loop = "done"
    /\ stop' = [stop EXCEPT ![c] = "returned"]
    /\ UNCHANGED <<world, subscribed, notes, listener, chain, worker, first>>

StopStep(c) ==
    Unsubscribed(c) \/ AwaitSettling(c) \/ AwaitInFlight(c) \/ AbortLoop(c) \/ AwaitLoop(c)

\* A payment arrives in the wallet; another process settles or closes a row.
Receive(h) ==
    /\ h \notin paid /\ row[h] # "closed"
    /\ paid' = paid \cup {h}
    /\ UNCHANGED <<row, subscribed, notes, listener, chain, worker, stopping>>

OtherProcess(h) ==
    /\ row[h] = "pending"
    /\ row' = [row EXCEPT ![h] = IF h \in paid THEN "settled" ELSE "closed"]
    /\ UNCHANGED <<paid, subscribed, notes, listener, chain, worker, stopping>>

Settle == BeginSettling \/ CheckPending \/ SettleDirectly
PeriodicLoop == LoopPass \/ LoopWait

ListenerNext ==
    \/ Settle \/ EndPass \/ PeriodicLoop
    \/ \E c \in Caller : CallStop(c) \/ StopStep(c)
    \/ \E h \in Hash :
        Receive(h) \/ OtherProcess(h) \/ \E carries \in Carries : Hear(h, carries)

ListenerSpec == ListenerInit /\ [][ListenerNext]_listenerVars

\* Calls return: the event loop runs what is ready, passes are bounded by their
\* timeout, the database answers.
ListenerFairSpec ==
    /\ ListenerSpec
    /\ WF_listenerVars(Settle) /\ WF_listenerVars(EndPass) /\ WF_listenerVars(PeriodicLoop)
    /\ \A c \in Caller : WF_listenerVars(StopStep(c))

-----------------------------------------------------------------------------
ListenerTypeOK ==
    /\ row \in [Hash -> {"absent", "pending", "settled", "closed"}]
    /\ paid \subseteq Hash /\ unserved \subseteq Hash
    /\ notes \in 0..MaxNotes
    /\ {subscribed, stopped, running, queued, aborted} \subseteq BOOLEAN
    /\ passes \in 0..1
    /\ settling \in Seq(Note)
    /\ settler \in [at : {"idle"}] \cup [at : {"checking", "paying"}, hash : Hash]
    /\ loop \in {"passing", "waiting", "done"}
    /\ first \subseteq Caller

Quiet == ~running /\ passes = 0 /\ settler = NoSettler /\ loop = "done"

\* When the stop() that stopped the worker has returned, nothing of it runs, or
\* ever runs again: the process may close its database.
QuietAfterStop == \A c \in first : stop[c] = "returned" => Quiet

\* The same of every stop(), as NotificationWorker.stop promises: "Unsubscribe,
\* stop the periodic pass, and wait for in-flight work."
EveryStopWaits == \A c \in Caller : stop[c] = "returned" => Quiet

\* No wake is lost: what was heard is settled directly or followed by a pass that
\* starts afterwards, a burst during a pass included.
NoWakeIsLost == \A h \in Hash : h \in unserved ~> h \notin unserved \/ stopped

=============================================================================
