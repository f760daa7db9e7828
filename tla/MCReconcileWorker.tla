--------------------------- MODULE MCReconcileWorker ---------------------------
(***************************************************************************)
(* What a worker does between the wallet's hints: the scheduler of passes  *)
(* and the notification listener.  A behaviour is of one of them, `part`:  *)
(* the other has nothing to do.                                            *)
(*                                                                         *)
(* Scheduler: an attempt of each kind, and wallet-timed ones that keep     *)
(* arriving.  Listener: notifications of one payment, two calls of stop(). *)
(***************************************************************************)
EXTENDS ReconcileScheduler, NotificationListener

CONSTANTS old, host, next

VARIABLE part

MCKind == [a \in Attempt |-> IF a = host THEN "host" ELSE "wallet"]
MCOld == <<old, host>>

ASSUME SchedulerAssumption /\ MaxNotesAssumption

vars == <<part, schedulerVars, listenerVars>>

NoAttempts ==
    /\ ledger = <<>> /\ cursor = 0 /\ windows = <<>> /\ pass = NoPass
    /\ delivering = {} /\ received = {} /\ arrivals = 0 /\ healthy = FALSE

NoWorker ==
    /\ row = [h \in Hash |-> "absent"] /\ paid = {}
    /\ subscribed = FALSE /\ notes = 0 /\ stopped = TRUE
    /\ running = FALSE /\ queued = FALSE /\ passes = 0
    /\ settling = <<>> /\ settler = NoSettler /\ unserved = {}
    /\ loop = "done" /\ aborted = TRUE
    /\ stop = [c \in Caller |-> "none"] /\ first = {}

Init ==
    \/ part = "scheduler" /\ SchedulerInit /\ NoWorker
    \/ part = "listener" /\ ListenerInit /\ NoAttempts

Only(p) == part = p /\ UNCHANGED part

SchedulerDoes(action) == Only("scheduler") /\ action /\ UNCHANGED listenerVars
ListenerDoes(action) == Only("listener") /\ action /\ UNCHANGED schedulerVars

Next == SchedulerDoes(SchedulerNext) \/ ListenerDoes(ListenerNext)

Spec == Init /\ [][Next]_vars

\* The fairness the two modules state: passes keep starting and end, a
\* process that does not stop delivers, and what the event loop can run, it runs.
FairSpec ==
    /\ Spec
    /\ WF_vars(SchedulerDoes(RunPass))
    /\ WF_vars(SchedulerDoes(EndSlice))
    /\ WF_vars(SchedulerDoes(Deliver(old)))
    /\ WF_vars(ListenerDoes(Settle))
    /\ WF_vars(ListenerDoes(EndPass))
    /\ WF_vars(ListenerDoes(PeriodicLoop))
    /\ \A c \in Caller : WF_vars(ListenerDoes(StopStep(c)))
================================================================================
