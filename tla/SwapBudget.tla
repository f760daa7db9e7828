------------------------------ MODULE SwapBudget ------------------------------
(***************************************************************************)
(* The signed calls to the swap provider (FixedFloatTransport.post) under  *)
(* the process's own request-weight guard (SwapProviderWeightBudget): a    *)
(* window of weight that rolls, a gate that keeps creates from using it    *)
(* up, and a back-off after the provider's 429, which may be read while    *)
(* later calls are already on their way.                                   *)
(*                                                                         *)
(* Window start and back-off are kept as ages, capped where no comparison  *)
(* tells older ones apart.                                                 *)
(***************************************************************************)
EXTENDS Naturals

CONSTANTS
    Calls,           \* names of calls: how many are on their way at once
    WindowSeconds,   \* SWAP_PROVIDER_WEIGHT_WINDOW_SECONDS
    BackoffSeconds,  \* SWAP_PROVIDER_WEIGHT_BACKOFF_SECONDS
    CreateWeight,    \* SWAP_PROVIDER_CREATE_WEIGHT, every other call weighs 1
    CreateGate,      \* SWAP_PROVIDER_CREATE_WEIGHT_GATE
    SoftCap,         \* SWAP_PROVIDER_WEIGHT_SOFT_CAP
    BodiesParse      \* every 429 of the provider carries a JSON body

SwapBudgetAssumption ==
    /\ {WindowSeconds, BackoffSeconds, CreateWeight, CreateGate, SoftCap} \subseteq Nat \ {0}
    /\ CreateGate < SoftCap
    /\ WindowSeconds <= BackoffSeconds
    /\ BodiesParse \in BOOLEAN

Paths == {"create", "order"}

VARIABLES
    budget,   \* #used, and how long ago #windowStart and the last 429 were
    calls,    \* the calls the provider has not answered
    refused,  \* the last call reserve() denied, and why
    sent,     \* ghost: the weight sent on each path in this window
    heard     \* ghost: how long ago the provider last answered 429

budgetVars == <<budget, calls, refused, sent, heard>>

BudgetTypeOK ==
    /\ budget \in [used : 0..SoftCap, windowAge : 0..WindowSeconds,
                   limitedAge : 0..BackoffSeconds]
    /\ calls \in SUBSET [id : Calls, path : Paths]
    /\ refused \in [path : Paths \cup {"none"}, reason : {"none", "backoff", "exhausted"}]
    /\ sent \in [Paths -> 0..SoftCap]
    /\ heard \in 0..BackoffSeconds

Granted == [path |-> "none", reason |-> "none"]

BudgetInit ==
    /\ budget = [used |-> 0, windowAge |-> 0, limitedAge |-> BackoffSeconds]
    /\ calls = {}
    /\ refused = Granted
    /\ sent = [path \in Paths |-> 0]
    /\ heard = BackoffSeconds

-----------------------------------------------------------------------------
weightForPath(path) == IF path = "create" THEN CreateWeight ELSE 1

\* MUTANT: one gate for every path.
MutantGate(path) == SoftCap

gate(path) == IF path = "create" THEN CreateGate ELSE SoftCap

Full == budget.windowAge >= WindowSeconds

\* MUTANT: rolling the window forgives the back-off.
MutantRolled ==
    IF Full THEN [used |-> 0, windowAge |-> 0, limitedAge |-> BackoffSeconds] ELSE budget

\* #rollWindow: the window starts again; the back-off keeps its own clock.
Rolled == IF Full THEN [budget EXCEPT !.used = 0, !.windowAge = 0] ELSE budget

SentNow == IF Full THEN [path \in Paths |-> 0] ELSE sent

InBackoff == budget.limitedAge < BackoffSeconds

\* reserve: denied in back-off, denied past the path's gate, otherwise charged
\* and sent.
Deny(path, reason) ==
    /\ refused' = [path |-> path, reason |-> reason]
    /\ budget' = Rolled
    /\ sent' = SentNow
    /\ UNCHANGED calls

post(path) ==
    /\ \/ InBackoff /\ Deny(path, "backoff")
       \/ /\ ~InBackoff /\ Rolled.used + weightForPath(path) > gate(path)
          /\ Deny(path, "exhausted")
       \/ /\ ~InBackoff /\ Rolled.used + weightForPath(path) <= gate(path)
          /\ \E id \in Calls :
                 /\ \A call \in calls : call.id # id
                 /\ calls' = calls \cup {[id |-> id, path |-> path]}
          /\ budget' = [Rolled EXCEPT !.used = @ + weightForPath(path)]
          /\ sent' = [SentNow EXCEPT ![path] = @ + weightForPath(path)]
          /\ refused' = Granted
    /\ UNCHANGED heard

\* markRateLimited: whatever the window is, the provider says it is full.
Marked == [budget EXCEPT !.used = IF @ < SoftCap THEN SoftCap ELSE @, !.limitedAge = 0]

Answered(call) == calls' = calls \ {call}

ProviderAnswers(call) ==
    /\ Answered(call)
    /\ UNCHANGED <<budget, refused, sent, heard>>

\* A 429 marks the budget, once its body was parsed.
ProviderRateLimits(call) ==
    /\ Answered(call)
    /\ \/ budget' = Marked
       \/ ~BodiesParse /\ UNCHANGED budget  \* thrown as invalid_json before the status is read
    /\ heard' = 0
    /\ UNCHANGED <<refused, sent>>

Older(age, cap) == IF age < cap THEN age + 1 ELSE cap

BudgetTick ==
    /\ budget' = [budget EXCEPT !.windowAge = Older(@, WindowSeconds),
                                !.limitedAge = Older(@, BackoffSeconds)]
    /\ heard' = Older(heard, BackoffSeconds)
    /\ UNCHANGED <<calls, refused, sent>>

BudgetNext ==
    \/ \E path \in Paths : post(path)
    \/ \E call \in calls : ProviderAnswers(call) \/ ProviderRateLimits(call)
    \/ BudgetTick

BudgetSpec == BudgetInit /\ [][BudgetNext]_budgetVars

-----------------------------------------------------------------------------
(***************************************************************************)
(* Properties.                                                             *)
(***************************************************************************)

\* After a 429 nothing is sent for the whole back-off, counted from the last one
\* read, although windows roll meanwhile and answers of earlier calls arrive
\* (weight-budget.ts:78: a 429 at second 59 was forgiven one second later).
BackoffIsHonoured ==
    [][calls' \subseteq calls \/ heard = BackoffSeconds]_budgetVars

\* Creates never starve polls: a poll is refused as exhausted only when polls
\* used the room that is theirs, never because creates or an old 429 did.
CreatesLeaveRoomForPolls ==
    refused = [path |-> "order", reason |-> "exhausted"] =>
        sent["order"] >= SoftCap - CreateGate
================================================================================
