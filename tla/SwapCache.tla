------------------------------- MODULE SwapCache -------------------------------
(***************************************************************************)
(* One key of the swap providers' transient cache (TransientSwapCache):    *)
(* the currency table, served stale while its feed is down, or the bulk    *)
(* rates, which fail closed so that the next provider is tried.  Callers   *)
(* join a fetch that runs; a failed one is not repeated for a while.       *)
(*                                                                         *)
(* Times are ages in ticks, counted from when a fetch began, as the code   *)
(* stamps what it got then.                                                *)
(***************************************************************************)
EXTENDS Integers

CONSTANTS
    Callers,
    None,
    RefreshSeconds,   \* how long a value is served without asking the feed
    MaxStaleSeconds,  \* how long it may be served when the feed fails
    ClaimSeconds,     \* how long a failed fetch keeps others from starting
    ServeStale,       \* serveStaleOnFailure
    FetchTime         \* bound: a fetch ends within this many ticks

Cap == MaxStaleSeconds + FetchTime
CacheAges == 0..Cap
Stamps == CacheAges \cup {None}
Fetches == [age : 0..FetchTime, found : Stamps]

SwapCacheAssumption ==
    /\ {RefreshSeconds, MaxStaleSeconds, ClaimSeconds, FetchTime} \subseteq Nat \ {0}
    /\ RefreshSeconds <= MaxStaleSeconds
    /\ ServeStale \in BOOLEAN
    /\ None \notin Int /\ None \notin Fetches

VARIABLES
    state,    \* #states: the ages of value and failedAt
    fetch,    \* #inflight: how long the fetch has run, and the value it found
    callers,  \* what each caller of resolve waits for or got
    asked     \* ghost: how long ago the feed was last asked, and what came of it

cacheVars == <<state, fetch, callers, asked>>

CacheTypeOK ==
    /\ state \in [value : Stamps, failed : Stamps]
    /\ fetch \in Fetches \cup {None}
    /\ callers \in [Callers -> [phase : {"idle", "waiting", "served", "refused"}, age : Stamps]]
    /\ asked \in [age : CacheAges, outcome : {"none", "running", "answered", "failed"}]
    /\ (\E c \in Callers : callers[c].phase = "waiting") => fetch # None

CacheInit ==
    /\ state = [value |-> None, failed |-> None]
    /\ fetch = None
    /\ callers = [c \in Callers |-> [phase |-> "idle", age |-> None]]
    /\ asked = [age |-> Cap, outcome |-> "none"]

-----------------------------------------------------------------------------
Within(age, limit) == age # None /\ age < limit

Fresh == Within(state.value, RefreshSeconds)

\* #staleOrThrow, at the time a fetch of this age began.
StaleOr(value, age) ==
    IF ServeStale /\ value # None /\ value - age < MaxStaleSeconds
    THEN [phase |-> "served", age |-> value]
    ELSE [phase |-> "refused", age |-> None]

Gets(c, outcome) == callers' = [callers EXCEPT ![c] = outcome]

Waiting == [phase |-> "waiting", age |-> None]

ServeFresh(c) ==
    /\ Fresh
    /\ Gets(c, [phase |-> "served", age |-> state.value])
    /\ UNCHANGED <<state, fetch, asked>>

\* MUTANT: a failure keeps others from asking only as long as a value would.
MutantBackoff == ~Fresh /\ Within(state.failed, RefreshSeconds)

Backoff == ~Fresh /\ Within(state.failed, ClaimSeconds)

ServeInBackoff(c) ==
    /\ Backoff
    /\ Gets(c, StaleOr(state.value, 0))
    /\ UNCHANGED <<state, fetch, asked>>

Join(c) ==
    /\ ~Fresh /\ ~Backoff /\ fetch # None
    /\ Gets(c, Waiting)
    /\ UNCHANGED <<state, fetch, asked>>

MayFetch == ~Fresh /\ ~Backoff /\ fetch = None

Asking == [age |-> 0, outcome |-> "running"]

Fetch(c) ==
    /\ MayFetch
    /\ fetch' = [age |-> 0, found |-> state.value]
    /\ Gets(c, Waiting)
    /\ asked' = Asking
    /\ UNCHANGED state

resolve(c) ==
    /\ callers[c].phase # "waiting"
    /\ ServeFresh(c) \/ ServeInBackoff(c) \/ Join(c) \/ Fetch(c)

\* Everyone who joined gets what the fetch came to.
Settled(outcome) ==
    /\ callers' = [c \in Callers |-> IF callers[c].phase = "waiting" THEN outcome ELSE callers[c]]
    /\ fetch' = None

FeedAnswers ==
    /\ fetch # None
    /\ state' = [value |-> fetch.age, failed |-> None]
    /\ Settled([phase |-> "served", age |-> fetch.age])
    /\ asked' = [asked EXCEPT !.outcome = "answered"]

AfterFailure == [value |-> fetch.found, failed |-> fetch.age]

FeedFails ==
    /\ fetch # None
    /\ state' = AfterFailure
    /\ Settled(StaleOr(fetch.found, fetch.age))
    /\ asked' = [asked EXCEPT !.outcome = "failed"]

OlderStamp(age) == IF age = None \/ age = Cap THEN age ELSE age + 1

CacheTick ==
    /\ fetch # None => fetch.age < FetchTime
    /\ state' = [value |-> OlderStamp(state.value), failed |-> OlderStamp(state.failed)]
    /\ fetch' = IF fetch = None THEN None
                ELSE [age |-> fetch.age + 1, found |-> OlderStamp(fetch.found)]
    /\ callers' = [c \in Callers |-> [callers[c] EXCEPT !.phase = IF @ = "waiting" THEN @ ELSE "idle",
                                                        !.age = None]]
    /\ asked' = [asked EXCEPT !.age = OlderStamp(@)]

CacheNext ==
    \/ \E c \in Callers : resolve(c)
    \/ FeedAnswers
    \/ FeedFails
    \/ CacheTick

CacheSpec == CacheInit /\ [][CacheNext]_cacheVars

-----------------------------------------------------------------------------
(***************************************************************************)
(* Properties.                                                             *)
(***************************************************************************)

\* The feed is spared however many payers list, quote or create: it is never
\* asked while it still owes an answer, nor within the life of the value it gave
\* last, nor within the claim of its last failure, each counted from when it was
\* asked (resolve).
AsksInTime ==
    asked' # asked /\ asked' = Asking =>
        \/ asked.outcome = "none"
        \/ asked.outcome = "answered" /\ asked.age >= RefreshSeconds
        \/ asked.outcome = "failed" /\ asked.age >= ClaimSeconds

FeedIsSpared == [][AsksInTime]_cacheVars

================================================================================
