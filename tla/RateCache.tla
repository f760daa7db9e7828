------------------------------- MODULE RateCache -------------------------------
(***************************************************************************)
(* The fiat rate cache (CachedPriceFeed): concurrent checkouts share one   *)
(* process-local entry that is refreshed from a primary feed and then a    *)
(* fallback, a failed refresh backs off, a young enough entry is served    *)
(* meanwhile, and an operational probe (healthCheck) forces a refresh      *)
(* beside the claimed one.                                                 *)
(*                                                                         *)
(* A stamp is kept as its age by the wall clock: negative once the clock   *)
(* stepped back past it, and capped where no comparison tells older ages   *)
(* apart.  Which currencies and which feed an entry carries is left out.   *)
(***************************************************************************)
EXTENDS Integers, FiniteSets

CONSTANTS
    Callers,       \* checkouts asking for a rate
    Refreshes,     \* names of refreshes: how many can be in flight at once
    Probes,        \* BOOLEAN: healthCheck() is called
    None,
    CacheSeconds,  \* how long an entry is fresh, and how long a failure backs off
    QuoteTtl,      \* OPENRECEIVE_INVOICE_QUOTE_TTL_SECONDS
    Skew,          \* OPENRECEIVE_PRICE_FEED_CLOCK_SKEW_SECONDS
    FetchLimit,    \* the two feeds' timeouts together
    BodyStalls,    \* BOOLEAN: a body may arrive after the timeouts
    StepBack       \* how far the clock may step back, 0 for never

RateCacheAssumption ==
    /\ {CacheSeconds, QuoteTtl, Skew, FetchLimit, StepBack} \subseteq Nat
    /\ 0 < CacheSeconds /\ CacheSeconds <= QuoteTtl
    /\ {Probes, BodyStalls} \subseteq BOOLEAN
    /\ None \notin Refreshes /\ None \notin Int

Cap == QuoteTtl + StepBack
Age == -StepBack .. Cap
Stamp == Age \cup {None}

VARIABLES
    cache,      \* #state: the ages of entry, refresh_started_at, refresh_failed_at
    inFlight,   \* #inFlight
    refreshes,  \* the runs of #refresh not settled yet
    callers     \* what each caller of getBtcFiatRatesWithSource waits for or got

vars == <<cache, inFlight, refreshes, callers>>

Refresh == [id : Refreshes, kind : {"claim", "probe"}, feed : {"primary", "fallback"},
            age : Age, previous : Stamp]

TypeOK ==
    /\ cache \in [entry : Stamp, started : Stamp, failed : Stamp]
    /\ inFlight \in Refreshes \cup {None}
    /\ refreshes \subseteq Refresh
    /\ \A r, s \in refreshes : r.id = s.id => r = s
    /\ inFlight # None => \E r \in refreshes : r.id = inFlight
    /\ callers \in [Callers -> [phase : {"idle", "waiting", "served", "refused"},
                                on : Refreshes \cup {None}, age : Stamp]]

Init ==
    /\ cache = [entry |-> None, started |-> None, failed |-> None]
    /\ inFlight = None
    /\ refreshes = {}
    /\ callers = [c \in Callers |-> [phase |-> "idle", on |-> None, age |-> None]]

-----------------------------------------------------------------------------
\* #stampAge: a stamp too far in the future says nothing.
Usable(stamp) == stamp # None /\ stamp >= -Skew

Younger(stamp, limit) == Usable(stamp) /\ stamp < limit

isRecent(stamp) == Younger(stamp, CacheSeconds)

Quotable == Younger(cache.entry, QuoteTtl)

Waiting(c, id) == callers' = [callers EXCEPT ![c] =
                     [phase |-> "waiting", on |-> id, age |-> None]]
Served(c) == callers' = [callers EXCEPT ![c] =
                     [phase |-> "served", on |-> None, age |-> cache.entry]]
Refused(c) == callers' = [callers EXCEPT ![c] =
                     [phase |-> "refused", on |-> None, age |-> None]]

\* #trackedRefresh: a refresh from the primary feed is in flight.
Started(kind) ==
    \E id \in Refreshes :
        /\ \A r \in refreshes : r.id # id
        /\ inFlight' = id
        /\ refreshes' = refreshes \cup
               {[id |-> id, kind |-> kind, feed |-> "primary", age |-> 0,
                 previous |-> cache.entry]}

MayClaim == ~isRecent(cache.entry) /\ ~isRecent(cache.failed) /\ ~isRecent(cache.started)

\* getBtcFiatRatesWithSource up to its await (#readOrClaimRefresh).
ServeEntry(c) ==
    /\ isRecent(cache.entry) \/ (~MayClaim /\ Quotable)
    /\ Served(c)
    /\ UNCHANGED <<cache, inFlight, refreshes>>

RefuseInBackoff(c) ==
    /\ ~isRecent(cache.entry) /\ isRecent(cache.failed) /\ ~Quotable
    /\ Refused(c)
    /\ UNCHANGED <<cache, inFlight, refreshes>>

JoinRefresh(c) ==
    /\ ~isRecent(cache.entry) /\ ~isRecent(cache.failed)
    /\ ~MayClaim /\ ~Quotable
    /\ IF inFlight # None THEN Waiting(c, inFlight) ELSE Refused(c)
    /\ UNCHANGED <<cache, inFlight, refreshes>>

ClaimRefresh(c) ==
    /\ MayClaim
    /\ cache' = [entry |-> cache.entry, started |-> 0, failed |-> None]
    /\ Started("claim")
    /\ Waiting(c, inFlight')

getBtcFiatRates(c) ==
    /\ callers[c].phase # "waiting"
    /\ ServeEntry(c) \/ RefuseInBackoff(c) \/ JoinRefresh(c) \/ ClaimRefresh(c)

\* A probe forces a refresh beside whatever is in flight.
healthCheck ==
    /\ Probes
    /\ \A r \in refreshes : r.kind # "probe"
    /\ Started("probe")
    /\ UNCHANGED <<cache, callers>>

-----------------------------------------------------------------------------
\* The promise of a refresh settles: everyone who awaits it learns the outcome.
Settled(refresh, outcome) ==
    /\ refreshes' = refreshes \ {refresh}
    /\ inFlight' = IF inFlight = refresh.id THEN None ELSE inFlight
    /\ callers' = [c \in Callers |->
           IF callers[c].on = refresh.id
           THEN [phase |-> outcome, on |-> None,
                 age |-> IF outcome = "served" THEN refresh.age ELSE None]
           ELSE callers[c]]

FeedAnswers(refresh) ==
    /\ cache' = [entry |-> refresh.age, started |-> None, failed |-> None]
    /\ Settled(refresh, "served")

PrimaryFails(refresh) ==
    /\ refresh.feed = "primary"
    /\ refreshes' = (refreshes \ {refresh}) \cup {[refresh EXCEPT !.feed = "fallback"]}
    /\ UNCHANGED <<cache, inFlight, callers>>

\* MUTANT: a failed refresh drops the entry.
MutantAfterFailure(refresh) == [entry |-> None, started |-> refresh.age,
                                failed |-> refresh.age]

\* What a failed refresh writes: the entry it found when it started.
AfterFailure(refresh) == [entry |-> refresh.previous, started |-> refresh.age,
                          failed |-> refresh.age]

BothFail(refresh) ==
    /\ refresh.feed = "fallback"
    /\ cache' = AfterFailure(refresh)
    /\ Settled(refresh, "refused")

\* #refresh
Step(refresh) == FeedAnswers(refresh) \/ PrimaryFails(refresh) \/ BothFail(refresh)

-----------------------------------------------------------------------------
\* The wall clock moves by d: every stamp ages with it.
Shifted(stamp, d) ==
    IF stamp = None THEN None ELSE IF stamp + d > Cap THEN Cap ELSE stamp + d

Aged(refresh, d) ==
    [refresh EXCEPT !.age = Shifted(@, d), !.previous = Shifted(@, d)]

ClockMoves(d) ==
    /\ cache' = [field \in DOMAIN cache |-> Shifted(cache[field], d)]
    /\ refreshes' = {Aged(r, d) : r \in refreshes}
    /\ UNCHANGED <<inFlight, callers>>

Tick ==
    /\ BodyStalls \/ \A r \in refreshes : r.age < FetchLimit
    /\ ClockMoves(1)

ClockStepsBack ==
    /\ StepBack > 0
    /\ \A stamp \in {cache.entry, cache.started, cache.failed}
                    \cup {r.age : r \in refreshes} \cup {r.previous : r \in refreshes} :
           stamp # None => stamp >= 0
    /\ ClockMoves(-StepBack)

Next ==
    \/ \E c \in Callers : getBtcFiatRates(c)
    \/ healthCheck
    \/ \E refresh \in refreshes : Step(refresh)
    \/ Tick \/ ClockStepsBack

Spec == Init /\ [][Next]_vars

-----------------------------------------------------------------------------
(***************************************************************************)
(* Properties.                                                             *)
(***************************************************************************)

\* A rate observed longer ago than the quote TTL never prices anything, on any
\* read path: fresh, stale while a refresh runs or backs off, or joined.
ServedIsYoung ==
    \A c \in Callers : callers[c].phase = "served" => callers[c].age < QuoteTtl

\* One caller at a time fetches (cache.ts:7): expiry and a cold start cannot
\* stampede the upstream.
OneCallerFetches == Cardinality({r \in refreshes : r.kind = "claim"}) <= 1

\* A failed refresh never hard-downs quoting while a quotable observation is in
\* hand (cache.ts:160): no step takes the entry away before it is too old.
KeepsObservation == Quotable /\ cache.entry < QuoteTtl - 1 => Quotable'

================================================================================
