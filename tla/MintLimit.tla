------------------------------- MODULE MintLimit -------------------------------
(***************************************************************************)
(* The per-IP limit on new attempts: a create request counts the rows of   *)
(* its address over the last hour and then over the last day               *)
(* (createIpRateLimit), mints, and commits its own row (commitNewAttempt). *)
(* Counts, mint and commit are separate waits, so requests of one address  *)
(* overtake each other between them.  A request for an order that has an   *)
(* open attempt is answered before the limit and never gets here.          *)
(*                                                                         *)
(* Times are ages in ticks; rows too old for every count are forgotten.    *)
(***************************************************************************)
EXTENDS Naturals, FiniteSets

CONSTANTS
    Slots,         \* names of requests: how many are handled at once
    Ips,           \* address buckets (clientIpBucket)
    Unattributed,  \* a request whose address the adapter did not supply
    Hour, Day,     \* HOUR_SECONDS, DAY_SECONDS
    LimitPerHour, LimitPerDay,
    MaxWait        \* bound: ticks one wait of a request takes

MintLimitAssumption ==
    /\ {Hour, Day, LimitPerHour, LimitPerDay, MaxWait} \subseteq Nat \ {0}
    /\ Hour < Day
    /\ Unattributed \notin Ips
    /\ IsFiniteSet(Slots)

OldestCounted == Day + MaxWait

Ages == 0..OldestCounted

VARIABLES
    rows,     \* per address, how many rows were stamped at each age
    requests  \* requests past authorization, and the wait each is in

limitVars == <<rows, requests>>

LimitTypeOK ==
    /\ rows \in [Ips -> [Ages -> Nat]]
    /\ requests \in SUBSET [slot : Slots, ip : Ips \cup {Unattributed}, since : 0..MaxWait,
                            step : {"hour", "day", "mint", "commit"}]
    /\ \A q, r \in requests : q.slot = r.slot => q = r

LimitInit ==
    /\ rows = [ip \in Ips |-> [age \in Ages |-> 0]]
    /\ requests = {}

-----------------------------------------------------------------------------
\* How many rows are at most so old.
UpTo(row) ==
    LET sum[age \in Ages] == row[age] + (IF age = 0 THEN 0 ELSE sum[age - 1]) IN sum

\* MUTANT: the rows stamped at the window's first second are left out.
MutantCountAttemptsFromIp(ip, window, since) == UpTo(rows[ip])[window + since - 1]

\* countAttemptsFromIp for a window that ended `since` ticks ago.
countAttemptsFromIp(ip, window, since) == UpTo(rows[ip])[window + since]

HourIsFull(q) == countAttemptsFromIp(q.ip, Hour, q.since) >= LimitPerHour

DayIsFull(q) == countAttemptsFromIp(q.ip, Day, q.since) >= LimitPerDay

Left(q) == requests' = requests \ {q}

Continues(q, next) == requests' = (requests \ {q}) \cup {next}

Free(slot) == \A q \in requests : q.slot # slot

\* createIpRateLimit: no address, no limit; else `at` is read for both counts.
create(slot, ip) ==
    /\ Free(slot)
    /\ requests' = requests \cup {[slot |-> slot, ip |-> ip, since |-> 0,
                                  step |-> IF ip = Unattributed THEN "mint" ELSE "hour"]}
    /\ UNCHANGED rows

CountHour(q) ==
    /\ q.step = "hour"
    /\ IF HourIsFull(q) THEN Left(q) ELSE Continues(q, [q EXCEPT !.step = "day"])
    /\ UNCHANGED rows

CountDay(q) ==
    /\ q.step = "day"
    /\ IF DayIsFull(q) THEN Left(q) ELSE Continues(q, [q EXCEPT !.step = "mint", !.since = 0])
    /\ UNCHANGED rows

\* The wallet has answered: commitAttempt reads its clock, then waits for the
\* order's lock.  The mint may also fail.
Mint(q) ==
    /\ q.step = "mint"
    /\ Left(q) \/ Continues(q, [q EXCEPT !.step = "commit", !.since = 0])
    /\ UNCHANGED rows

\* The row is stored with the time read before the lock, or the commit is refused.
Commit(q) ==
    /\ q.step = "commit"
    /\ Left(q)
    /\ \/ UNCHANGED rows
       \/ q.ip \in Ips /\ rows' = [rows EXCEPT ![q.ip][q.since] = @ + 1]

Aged(row) == [age \in Ages |-> IF age = 0 THEN 0 ELSE row[age - 1]]

LimitTick ==
    /\ \A q \in requests : q.step # "mint" => q.since < MaxWait
    /\ rows' = [ip \in Ips |-> Aged(rows[ip])]
    /\ requests' = {IF q.step = "mint" THEN q ELSE [q EXCEPT !.since = @ + 1] : q \in requests}

LimitNext ==
    \/ \E slot \in Slots, ip \in Ips \cup {Unattributed} : create(slot, ip)
    \/ \E q \in requests : CountHour(q) \/ CountDay(q) \/ Mint(q) \/ Commit(q)
    \/ LimitTick

LimitSpec == LimitInit /\ [][LimitNext]_limitVars

-----------------------------------------------------------------------------
(***************************************************************************)
(* Properties.                                                             *)
(***************************************************************************)

Stamped(ip, window) == UpTo(rows[ip])[window]

\* Requests that counted before others stored their rows exceed a limit at most
\* by the requests handled at once, however long they go on and whatever they
\* wait for; the surplus does not add up over the windows.
OvershootIsBounded ==
    \A ip \in Ips :
        /\ Stamped(ip, Hour) < LimitPerHour + Cardinality(Slots)
        /\ Stamped(ip, Day) < LimitPerDay + Cardinality(Slots)

\* rate-limit.ts:17 and docs/guides/rate-limiting.md:46: at most limitPerHour
\* invoice creations per address in a rolling hour.
AtMostTheLimit == \A ip \in Ips : Stamped(ip, Hour) <= LimitPerHour
================================================================================
