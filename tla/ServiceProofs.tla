----------------------------- MODULE ServiceProofs -----------------------------
(***************************************************************************)
(* Theorems about what one process keeps in memory, for any number of      *)
(* callers, calls, feeds and notifications and any limits, ages and        *)
(* weights: the swap provider's request budget, its transient cache, the   *)
(* choice of a provider, the rate cache, the notification listener and the *)
(* per-IP limit.                                                           *)
(* They share no state; each theorem is of one of them.                    *)
(***************************************************************************)
EXTENDS SwapBudget, SwapCache, SwapProviders, NotificationListener, MintLimit,
        FiniteSetTheorems, WellFoundedInduction, TLAPS

-----------------------------------------------------------------------------
(***************************************************************************)
(* The request budget.                                                     *)
(***************************************************************************)
Charged == sent["create"] + sent["order"]

\* What is charged beyond what was sent is a 429's, and a window that saw a 429
\* is over before its back-off is.
ChargedIsSent ==
    \/ budget.used = Charged
    \/ budget.windowAge >= WindowSeconds
    \/ budget.windowAge >= budget.limitedAge

BudgetInv ==
    /\ BudgetTypeOK
    /\ Charged <= budget.used
    /\ sent["create"] <= CreateGate
    /\ ChargedIsSent
    /\ CreatesLeaveRoomForPolls

HeardIsMarked == heard = budget.limitedAge

\* The window and its account after #rollWindow.
LEMMA RolledIs ==
    ASSUME SwapBudgetAssumption, BudgetInv
    PROVE  \E w \in 0..SoftCap, age \in 0..WindowSeconds, c \in 0..CreateGate, o \in 0..SoftCap :
               /\ Rolled = [used |-> w, windowAge |-> age, limitedAge |-> budget.limitedAge]
               /\ SentNow = [path \in Paths |-> IF path = "create" THEN c ELSE o]
               /\ c + o <= w
               /\ \/ w = c + o
                  \/ age < WindowSeconds /\ age >= budget.limitedAge
<1> USE DEF SwapBudgetAssumption, Paths
<1>1. PICK w \in 0..SoftCap, age \in 0..WindowSeconds, limited \in 0..BackoffSeconds :
          budget = [used |-> w, windowAge |-> age, limitedAge |-> limited]
  BY DEF BudgetInv, BudgetTypeOK
<1>2. PICK c \in 0..SoftCap, o \in 0..SoftCap :
          /\ sent["create"] = c /\ sent["order"] = o
          /\ sent = [path \in Paths |-> IF path = "create" THEN c ELSE o]
  BY DEF BudgetInv, BudgetTypeOK
<1>3. c <= CreateGate /\ c + o <= w
      /\ (w = c + o \/ age >= WindowSeconds \/ age >= limited)
  BY <1>1, <1>2 DEF BudgetInv, Charged, ChargedIsSent
<1>4. CASE age >= WindowSeconds
  <2>1. Rolled = [used |-> 0, windowAge |-> 0, limitedAge |-> limited]
        /\ SentNow = [path \in Paths |-> IF path = "create" THEN 0 ELSE 0]
    BY <1>1, <1>4 DEF Rolled, SentNow, Full
  <2> QED
    BY <1>1, <2>1
<1>5. CASE age < WindowSeconds
  <2>1. Rolled = budget /\ SentNow = sent
    BY <1>1, <1>5 DEF Rolled, SentNow, Full
  <2>2. c \in 0..CreateGate
    BY <1>2, <1>3
  <2> QED
    BY <1>1, <1>2, <1>3, <1>5, <2>1, <2>2
<1> QED
  BY <1>4, <1>5

LEMMA BudgetStart == SwapBudgetAssumption /\ BudgetInit => BudgetInv /\ HeardIsMarked
  BY DEF SwapBudgetAssumption, BudgetInit, BudgetTypeOK, Granted, Paths,
     CreatesLeaveRoomForPolls, BudgetInv, HeardIsMarked, Charged, ChargedIsSent

\* A call is denied or sent by what the rolled window holds.
LEMMA PostKeeps ==
    ASSUME SwapBudgetAssumption, BudgetInv, NEW path \in Paths, post(path)
    PROVE  BudgetInv' /\ budget'.limitedAge = budget.limitedAge /\ heard' = heard
<1> USE DEF SwapBudgetAssumption, Paths
<1>1. PICK w \in 0..SoftCap, age \in 0..WindowSeconds, c \in 0..CreateGate, o \in 0..SoftCap :
          /\ Rolled = [used |-> w, windowAge |-> age, limitedAge |-> budget.limitedAge]
          /\ SentNow = [p \in Paths |-> IF p = "create" THEN c ELSE o]
          /\ c + o <= w
          /\ \/ w = c + o
             \/ age < WindowSeconds /\ age >= budget.limitedAge
  BY RolledIs
<1>2. budget.limitedAge \in 0..BackoffSeconds /\ heard \in 0..BackoffSeconds
      /\ calls \in SUBSET [id : Calls, path : Paths]
  BY DEF BudgetInv, BudgetTypeOK
<1>3. ASSUME NEW reason \in {"backoff", "exhausted"}, Deny(path, reason), heard' = heard,
             reason = "exhausted" => /\ budget.limitedAge >= BackoffSeconds
                                     /\ w + weightForPath(path) > gate(path)
      PROVE  BudgetInv' /\ budget'.limitedAge = budget.limitedAge
  <2>1. /\ budget' = [used |-> w, windowAge |-> age, limitedAge |-> budget.limitedAge]
        /\ sent' = [p \in Paths |-> IF p = "create" THEN c ELSE o]
        /\ refused' = [path |-> path, reason |-> reason] /\ calls' = calls
    BY <1>1, <1>3 DEF Deny
  <2>2. sent'["create"] = c /\ sent'["order"] = o /\ budget'.used = w /\ budget'.windowAge = age
        /\ budget'.limitedAge = budget.limitedAge
    BY <2>1
  <2>3. BudgetTypeOK'
    BY <1>1, <1>2, <1>3, <2>1 DEF BudgetTypeOK
  <2>4. reason = "exhausted" /\ path = "order" => o >= SoftCap - CreateGate
    <3> SUFFICES ASSUME reason = "exhausted", path = "order"
                 PROVE  o >= SoftCap - CreateGate
      OBVIOUS
    <3>1. w + 1 > SoftCap
      BY <1>3 DEF weightForPath, gate
    <3>2. w = c + o
      BY <1>1, <1>2, <1>3
    <3> QED
      BY <3>1, <3>2
  <2>5. CreatesLeaveRoomForPolls'
    BY <2>1, <2>2, <2>4 DEF CreatesLeaveRoomForPolls
  <2>6. (Charged <= budget.used)' /\ (sent["create"] <= CreateGate)' /\ ChargedIsSent'
    BY <1>1, <2>2 DEF Charged, ChargedIsSent
  <2> QED
    BY <2>2, <2>3, <2>5, <2>6 DEF BudgetInv
<1>4. CASE /\ budget.limitedAge >= BackoffSeconds
           /\ w + weightForPath(path) <= gate(path)
           /\ \E id \in Calls : calls' = calls \cup {[id |-> id, path |-> path]}
           /\ budget' = [Rolled EXCEPT !.used = @ + weightForPath(path)]
           /\ sent' = [SentNow EXCEPT ![path] = @ + weightForPath(path)]
           /\ refused' = Granted /\ heard' = heard
  <2>1. PICK weight \in Nat : weight = weightForPath(path)
    BY DEF weightForPath
  <2>2. w = c + o
    BY <1>1, <1>2, <1>4
  <2>3. w + weight <= SoftCap /\ (path = "create" => w + weight <= CreateGate)
    BY <1>1, <1>4, <2>1 DEF gate
  <2>4. /\ budget' = [used |-> w + weight, windowAge |-> age, limitedAge |-> budget.limitedAge]
        /\ sent' = [p \in Paths |-> IF p = "create"
                                           THEN (IF path = "create" THEN c + weight ELSE c)
                                           ELSE (IF path = "order" THEN o + weight ELSE o)]
    BY <1>1, <1>4, <2>1
  <2>5. /\ budget'.used = w + weight /\ budget'.windowAge = age
        /\ budget'.limitedAge = budget.limitedAge
        /\ sent'["create"] = (IF path = "create" THEN c + weight ELSE c)
        /\ sent'["order"] = (IF path = "order" THEN o + weight ELSE o)
    BY <2>4
  <2>6. calls' \in SUBSET [id : Calls, path : Paths]
    BY <1>2, <1>4
  <2>7. BudgetTypeOK'
    BY <1>1, <1>2, <1>4, <2>1, <2>2, <2>3, <2>4, <2>6 DEF BudgetTypeOK, Granted
  <2>8. CreatesLeaveRoomForPolls'
    BY <1>4 DEF CreatesLeaveRoomForPolls, Granted
  <2>9. (Charged <= budget.used)' /\ (sent["create"] <= CreateGate)' /\ ChargedIsSent'
    BY <1>1, <2>1, <2>2, <2>3, <2>5 DEF Charged, ChargedIsSent
  <2> QED
    BY <1>4, <2>5, <2>7, <2>8, <2>9 DEF BudgetInv
<1>5. Rolled.used = w
  BY <1>1
<1>6. \/ Deny(path, "backoff")
      \/ /\ budget.limitedAge >= BackoffSeconds
         /\ w + weightForPath(path) > gate(path)
         /\ Deny(path, "exhausted")
      \/ /\ budget.limitedAge >= BackoffSeconds
         /\ w + weightForPath(path) <= gate(path)
         /\ \E id \in Calls : calls' = calls \cup {[id |-> id, path |-> path]}
         /\ budget' = [Rolled EXCEPT !.used = @ + weightForPath(path)]
         /\ sent' = [SentNow EXCEPT ![path] = @ + weightForPath(path)]
         /\ refused' = Granted
  BY <1>2, <1>5 DEF post, InBackoff
<1>7. heard' = heard
  BY DEF post
<1> QED
  BY <1>3, <1>4, <1>6, <1>7

LEMMA MarkKeeps ==
    ASSUME SwapBudgetAssumption, BudgetInv, budget' = Marked,
           calls' \subseteq calls, UNCHANGED <<refused, sent>>, heard' = 0
    PROVE  BudgetInv' /\ budget'.limitedAge = 0
<1> USE DEF SwapBudgetAssumption
<1>1. PICK w \in 0..SoftCap, age \in 0..WindowSeconds, limited \in 0..BackoffSeconds :
          budget = [used |-> w, windowAge |-> age, limitedAge |-> limited]
  BY DEF BudgetInv, BudgetTypeOK
<1>2. budget' = [used |-> SoftCap, windowAge |-> age, limitedAge |-> 0]
  <2>1. (IF w < SoftCap THEN SoftCap ELSE w) = SoftCap
    OBVIOUS
  <2>2. Marked = [budget EXCEPT !.used = IF w < SoftCap THEN SoftCap ELSE w,
                                       !.limitedAge = 0]
    BY <1>1 DEF Marked
  <2>3. budget' = [budget EXCEPT !.used = SoftCap, !.limitedAge = 0]
    BY <2>1, <2>2
  <2> QED
    BY <1>1, <2>3
<1>3. sent \in [Paths -> 0..SoftCap]
  BY DEF BudgetInv, BudgetTypeOK
<1>4. Charged \in Int /\ Charged <= w
  BY <1>1, <1>3 DEF BudgetInv, Charged, Paths
<1> QED
  BY <1>1, <1>2, <1>4 DEF BudgetInv, Charged, ChargedIsSent, BudgetTypeOK,
     CreatesLeaveRoomForPolls

LEMMA TimeKeepsBudget ==
    ASSUME SwapBudgetAssumption, BudgetInv, BudgetTick
    PROVE  /\ BudgetInv'
           /\ budget'.limitedAge = Older(budget.limitedAge, BackoffSeconds)
           /\ heard' = Older(heard, BackoffSeconds)
<1> USE DEF SwapBudgetAssumption
<1>1. PICK w \in 0..SoftCap, age \in 0..WindowSeconds, limited \in 0..BackoffSeconds :
          budget = [used |-> w, windowAge |-> age, limitedAge |-> limited]
  BY DEF BudgetInv, BudgetTypeOK
<1>2. PICK older \in 0..WindowSeconds, further \in 0..BackoffSeconds :
          /\ older = Older(age, WindowSeconds)
          /\ further = Older(limited, BackoffSeconds)
  BY DEF Older
<1>3. budget' = [used |-> w, windowAge |-> older, limitedAge |-> further]
  BY <1>1, <1>2 DEF BudgetTick
<1>4. /\ heard' = Older(heard, BackoffSeconds) /\ heard' \in 0..BackoffSeconds
      /\ UNCHANGED <<calls, refused, sent>>
  BY DEF BudgetTick, BudgetInv, BudgetTypeOK, Older
<1>5. /\ age >= WindowSeconds => older >= WindowSeconds
      /\ age >= limited => older >= further \/ older >= WindowSeconds
  <2>1. older = IF age < WindowSeconds THEN age + 1 ELSE WindowSeconds
    BY <1>2 DEF Older
  <2>2. further = IF limited < BackoffSeconds THEN limited + 1 ELSE BackoffSeconds
    BY <1>2 DEF Older
  <2>3. WindowSeconds \in Nat /\ BackoffSeconds \in Nat
    OBVIOUS
  <2>4. further <= limited + 1
    BY <2>2, <2>3
  <2>5. CASE age < WindowSeconds
    BY <2>1, <2>3, <2>4, <2>5
  <2>6. CASE age >= WindowSeconds
    BY <2>1, <2>3, <2>6
  <2> QED
    BY <2>3, <2>5, <2>6
<1>6. ChargedIsSent'
  BY <1>1, <1>3, <1>4, <1>5 DEF BudgetInv, ChargedIsSent, Charged
<1>7. BudgetTypeOK'
  BY <1>3, <1>4 DEF BudgetInv, BudgetTypeOK
<1>8. (Charged <= budget.used)' /\ (sent["create"] <= CreateGate)' /\ CreatesLeaveRoomForPolls'
  BY <1>1, <1>3, <1>4 DEF BudgetInv, Charged, CreatesLeaveRoomForPolls
<1> QED
  BY <1>1, <1>2, <1>3, <1>4, <1>6, <1>7, <1>8 DEF BudgetInv

LEMMA BudgetStep ==
    SwapBudgetAssumption /\ BudgetInv /\ [BudgetNext]_budgetVars => BudgetInv'
<1> SUFFICES ASSUME SwapBudgetAssumption, BudgetInv, [BudgetNext]_budgetVars
             PROVE  BudgetInv'
  OBVIOUS
<1>1. ASSUME calls' \subseteq calls, UNCHANGED <<budget, refused, sent>>, heard' \in {0, heard}
      PROVE  BudgetInv'
  BY <1>1 DEF BudgetInv, BudgetTypeOK, Charged, ChargedIsSent, CreatesLeaveRoomForPolls,
     SwapBudgetAssumption
<1>2. CASE UNCHANGED budgetVars
  BY <1>1, <1>2 DEF budgetVars
<1>3. ASSUME NEW path \in Paths, post(path)
      PROVE  BudgetInv'
  BY <1>3, PostKeeps
<1>4. ASSUME NEW sentCall \in calls, ProviderAnswers(sentCall) \/ ProviderRateLimits(sentCall)
      PROVE  BudgetInv'
  BY <1>1, <1>4, MarkKeeps DEF ProviderAnswers, ProviderRateLimits, Answered
<1>5. CASE BudgetTick
  BY <1>5, TimeKeepsBudget
<1> QED
  BY <1>2, <1>3, <1>4, <1>5 DEF BudgetNext

LEMMA HeardStep ==
    /\ SwapBudgetAssumption /\ BodiesParse /\ BudgetInv /\ HeardIsMarked
    /\ [BudgetNext]_budgetVars
    => HeardIsMarked'
<1> SUFFICES ASSUME SwapBudgetAssumption, BodiesParse, BudgetInv, HeardIsMarked,
                    [BudgetNext]_budgetVars
             PROVE  HeardIsMarked'
  OBVIOUS
<1>1. CASE UNCHANGED <<budget, heard>>
  BY <1>1 DEF HeardIsMarked
<1>2. ASSUME NEW path \in Paths, post(path)
      PROVE  HeardIsMarked'
  BY <1>2, PostKeeps DEF HeardIsMarked
<1>3. ASSUME NEW sentCall \in calls, ProviderRateLimits(sentCall)
      PROVE  HeardIsMarked'
  BY <1>3, MarkKeeps DEF HeardIsMarked, ProviderRateLimits, Answered
<1>4. CASE BudgetTick
  BY <1>4, TimeKeepsBudget DEF HeardIsMarked
<1> QED
  BY <1>1, <1>2, <1>3, <1>4 DEF BudgetNext, budgetVars, ProviderAnswers

\* Every variable of the budget has its type, and the guard never charges more
\* than its cap (SwapProviderWeightBudget).
THEOREM BudgetTypes ==
    ASSUME SwapBudgetAssumption
    PROVE  BudgetSpec => []BudgetTypeOK
<1>1. BudgetInit => BudgetInv
  BY BudgetStart
<1>2. BudgetInv /\ [BudgetNext]_budgetVars => BudgetInv'
  BY BudgetStep
<1>3. BudgetInv => BudgetTypeOK
  BY DEF BudgetInv
<1> QED
  BY <1>1, <1>2, <1>3, PTL DEF BudgetSpec

\* Creates never use up the weight that polls of existing orders need: a poll is
\* refused as exhausted only when polls used the room that is theirs, never
\* because of creates or of a 429 that is over (reserve and its create gate).
THEOREM PollsKeepTheirRoom ==
    ASSUME SwapBudgetAssumption
    PROVE  BudgetSpec => []CreatesLeaveRoomForPolls
<1>1. BudgetInit => BudgetInv
  BY BudgetStart
<1>2. BudgetInv /\ [BudgetNext]_budgetVars => BudgetInv'
  BY BudgetStep
<1>3. BudgetInv => CreatesLeaveRoomForPolls
  BY DEF BudgetInv
<1> QED
  BY <1>1, <1>2, <1>3, PTL DEF BudgetSpec

\* After a 429 nothing is sent for the whole back-off, whatever windows roll and
\* earlier answers arrive meanwhile, provided every 429 has a body that parses
\* (markRateLimited runs after the body was read).
THEOREM BackoffHolds ==
    ASSUME SwapBudgetAssumption, BodiesParse
    PROVE  BudgetSpec => BackoffIsHonoured
<1> DEFINE Inv == BudgetInv /\ HeardIsMarked
<1>1. BudgetInit => Inv
  BY BudgetStart
<1>2. Inv /\ [BudgetNext]_budgetVars => Inv'
  BY BudgetStep, HeardStep
<1>3. Inv /\ [BudgetNext]_budgetVars
      => [calls' \subseteq calls \/ heard = BackoffSeconds]_budgetVars
  <2> SUFFICES ASSUME Inv, NEW path \in Paths, post(path)
               PROVE  calls' \subseteq calls \/ heard = BackoffSeconds
    BY DEF BudgetNext, ProviderAnswers, ProviderRateLimits, Answered,
       BudgetTick
  <2>1. heard = budget.limitedAge /\ heard \in 0..BackoffSeconds /\ BackoffSeconds \in Nat
    BY DEF HeardIsMarked, BudgetInv, BudgetTypeOK, SwapBudgetAssumption
  <2>2. CASE budget.limitedAge < BackoffSeconds
    BY <2>1, <2>2 DEF post, Deny, InBackoff
  <2> QED
    BY <2>1, <2>2
<1> QED
  BY <1>1, <1>2, <1>3, PTL DEF BudgetSpec, BackoffIsHonoured

-----------------------------------------------------------------------------
(***************************************************************************)
(* The transient cache of a feed.                                          *)
(***************************************************************************)
Questions == [age : CacheAges, outcome : {"none", "running", "answered", "failed"}]

\* The running fetch is the last the feed was asked, and what it came to, a
\* value or a failure, is stamped with the time it was asked at.
StampedWhenAsked ==
    /\ fetch # None => asked.outcome = "running" /\ fetch.age = asked.age
    /\ asked.outcome = "running" => fetch # None
    /\ asked.outcome = "answered" => state.value = asked.age /\ state.failed = None
    /\ asked.outcome = "failed" => state.failed = asked.age

CacheInv == CacheTypeOK /\ StampedWhenAsked

LEMMA CacheNumbers ==
    ASSUME SwapCacheAssumption
    PROVE  /\ RefreshSeconds \in Nat /\ MaxStaleSeconds \in Nat /\ ClaimSeconds \in Nat
           /\ FetchTime \in Nat /\ FetchTime > 0 /\ RefreshSeconds <= MaxStaleSeconds
           /\ ServeStale \in BOOLEAN
           /\ None \notin Int /\ None \notin Fetches
  BY DEF SwapCacheAssumption

LEMMA CacheStart == SwapCacheAssumption /\ CacheInit => CacheInv
  BY CacheNumbers DEF CacheInit, CacheTypeOK, Stamps, CacheAges, Cap, CacheInv,
     StampedWhenAsked

\* A fetch is no stamp, and no outcome is a caller still waiting.
LEMMA StaleOrIs ==
    ASSUME SwapCacheAssumption, NEW value \in Stamps, NEW age \in 0..FetchTime
    PROVE  /\ StaleOr(value, age) \in [phase : {"served", "refused"}, age : Stamps]
           /\ StaleOr(value, age).phase # "waiting"
<1>1. StaleOr(value, age) \in [phase : {"served", "refused"}, age : Stamps]
  BY DEF StaleOr, Stamps
<1> QED
  BY <1>1

LEMMA ResolveKeeps ==
    ASSUME SwapCacheAssumption, CacheInv, NEW c \in Callers, resolve(c)
    PROVE  CacheInv'
<1> DEFINE Outcome == [phase : {"idle", "waiting", "served", "refused"}, age : Stamps]
<1>1. /\ state \in [value : Stamps, failed : Stamps]
      /\ fetch \in Fetches \cup {None}
      /\ callers \in [Callers -> Outcome] /\ asked \in Questions
      /\ (\E b \in Callers : callers[b].phase = "waiting") => fetch # None
      /\ StampedWhenAsked
  BY DEF CacheInv, CacheTypeOK, Questions
<1>2. ASSUME NEW outcome \in Outcome, Gets(c, outcome), UNCHANGED <<state, fetch, asked>>,
             outcome.phase = "waiting" => fetch # None
      PROVE  CacheInv'
  <2>1. callers' \in [Callers -> Outcome]
        /\ ((\E b \in Callers : callers'[b].phase = "waiting") => fetch' # None)
    BY <1>1, <1>2 DEF Gets
  <2> QED
    BY <1>1, <1>2, <2>1 DEF CacheInv, CacheTypeOK, StampedWhenAsked, Questions
<1>3. CASE ServeFresh(c)
  BY <1>1, <1>2, <1>3 DEF ServeFresh
<1>4. CASE ServeInBackoff(c)
  <2>1. StaleOr(state.value, 0) \in Outcome
        /\ StaleOr(state.value, 0).phase # "waiting"
    BY <1>1, CacheNumbers, StaleOrIs
  <2> QED
    BY <1>2, <1>4, <2>1 DEF ServeInBackoff
<1>5. Waiting \in Outcome
  BY DEF Waiting, Stamps
<1>6. CASE Join(c)
  BY <1>2, <1>5, <1>6 DEF Join
<1>7. CASE Fetch(c)
  <2>1. fetch' = [age |-> 0, found |-> state.value] /\ asked' = Asking /\ state' = state
        /\ callers' = [callers EXCEPT ![c] = Waiting]
    BY <1>7 DEF Fetch, Gets
  <2>2. fetch' \in Fetches /\ asked' \in Questions
    BY <1>1, <2>1, CacheNumbers DEF Fetches, CacheAges, Cap, Questions, Asking
  <2>3. fetch'.age = asked'.age /\ asked'.outcome = "running"
    BY <2>1 DEF Asking
  <2>4. fetch' # None
    BY <2>2, CacheNumbers
  <2>5. callers' \in [Callers -> Outcome]
    BY <1>1, <1>5, <2>1
  <2> QED
    BY <1>1, <2>1, <2>2, <2>3, <2>4, <2>5 DEF CacheInv, CacheTypeOK, StampedWhenAsked, Questions
<1> QED
  BY <1>3, <1>4, <1>6, <1>7 DEF resolve

LEMMA FetchEnds ==
    ASSUME SwapCacheAssumption, CacheInv, fetch # None,
           NEW outcome \in [phase : {"served", "refused"}, age : Stamps],
           Settled(outcome),
           state' \in [value : Stamps, failed : Stamps],
           \/ /\ state'.value = fetch.age /\ state'.failed = None
              /\ asked' = [asked EXCEPT !.outcome = "answered"]
           \/ /\ state'.failed = fetch.age
              /\ asked' = [asked EXCEPT !.outcome = "failed"]
    PROVE  CacheInv'
<1>1. /\ callers \in [Callers -> [phase : {"idle", "waiting", "served", "refused"},
                                  age : Stamps]]
      /\ asked \in Questions /\ fetch.age = asked.age
  BY DEF CacheInv, CacheTypeOK, StampedWhenAsked, Questions
<1>2. /\ callers' = [c \in Callers |-> IF callers[c].phase = "waiting" THEN outcome ELSE callers[c]]
      /\ fetch' = None
  BY DEF Settled
<1>3. callers' \in [Callers -> [phase : {"idle", "waiting", "served", "refused"},
                                age : Stamps]]
  BY <1>1, <1>2
<1>4. ~ \E c \in Callers : callers'[c].phase = "waiting"
  BY <1>2
<1>5. asked' \in Questions /\ asked'.age = fetch.age
      /\ \/ asked'.outcome = "answered" /\ state'.value = fetch.age /\ state'.failed = None
         \/ asked'.outcome = "failed" /\ state'.failed = fetch.age
  BY <1>1 DEF Questions
<1> QED
  BY <1>1, <1>2, <1>3, <1>4, <1>5 DEF CacheInv, CacheTypeOK, StampedWhenAsked, Questions

LEMMA CacheTickKeeps ==
    ASSUME SwapCacheAssumption, CacheInv, CacheTick
    PROVE  CacheInv' /\ asked'.age # 0
<1> DEFINE Outcome == [phase : {"idle", "waiting", "served", "refused"}, age : Stamps]
<1> USE CacheNumbers
<1>1. /\ state \in [value : Stamps, failed : Stamps]
      /\ fetch \in Fetches \cup {None}
      /\ callers \in [Callers -> Outcome] /\ asked \in Questions
      /\ (\E b \in Callers : callers[b].phase = "waiting") => fetch # None
      /\ StampedWhenAsked
  BY DEF CacheInv, CacheTypeOK, Questions
<1>2. \A age \in Stamps : OlderStamp(age) \in Stamps
  BY DEF OlderStamp, Stamps, CacheAges, Cap
<1>3. /\ asked' \in Questions /\ asked'.age # 0 /\ asked'.outcome = asked.outcome
      /\ asked'.age = OlderStamp(asked.age)
      /\ asked.age < Cap => asked'.age = asked.age + 1
  <2>1. asked.age \in 0..Cap /\ Cap \in Nat /\ Cap > 0
    BY <1>1 DEF CacheAges, Cap, Questions
  <2>2. asked' = [asked EXCEPT !.age = OlderStamp(asked.age)]
    BY DEF CacheTick
  <2>3. /\ asked.age < Cap => OlderStamp(asked.age) = asked.age + 1
        /\ asked.age = Cap => OlderStamp(asked.age) = Cap
    BY <2>1 DEF OlderStamp
  <2>4. OlderStamp(asked.age) \in CacheAges /\ OlderStamp(asked.age) # 0
    BY <2>1, <2>3 DEF CacheAges
  <2> QED
    BY <1>1, <2>2, <2>3, <2>4 DEF Questions
<1>4. state' = [value |-> OlderStamp(state.value), failed |-> OlderStamp(state.failed)]
  BY DEF CacheTick
<1>5. state' \in [value : Stamps, failed : Stamps]
  BY <1>1, <1>2, <1>4
<1>6. callers' \in [Callers -> Outcome]
      /\ \A b \in Callers : callers'[b].phase = "waiting" => callers[b].phase = "waiting"
  <2>1. \A b \in Callers : [callers[b] EXCEPT !.phase = IF @ = "waiting" THEN @ ELSE "idle",
                                              !.age = None] \in Outcome
    BY <1>1 DEF Stamps
  <2>2. callers' = [b \in Callers |-> [callers[b] EXCEPT !.phase = IF @ = "waiting" THEN @ ELSE "idle",
                                                         !.age = None]]
    BY DEF CacheTick
  <2> QED
    BY <1>1, <2>1, <2>2
<1>7. CASE fetch = None
  <2>1. fetch' = None /\ OlderStamp(None) = None
    BY <1>7 DEF CacheTick, OlderStamp
  <2>2. StampedWhenAsked'
    BY <1>1, <1>3, <1>4, <1>7, <2>1 DEF StampedWhenAsked
  <2> QED
    BY <1>3, <1>5, <1>6, <1>7, <2>1, <2>2 DEF CacheInv, CacheTypeOK, Questions
<1>8. CASE fetch # None
  <2>1. fetch' = [age |-> fetch.age + 1, found |-> OlderStamp(fetch.found)]
        /\ fetch.age < FetchTime /\ fetch.age \in 0..FetchTime /\ fetch.found \in Stamps
    BY <1>1, <1>8 DEF CacheTick, Fetches
  <2>2. fetch' \in Fetches /\ fetch'.age = fetch.age + 1
    BY <1>2, <2>1 DEF Fetches
  <2>3. fetch' # None
    BY <2>2
  <2>4. fetch'.age = asked'.age /\ asked'.outcome = "running"
    BY <1>1, <1>3, <1>8, <2>1, <2>2 DEF StampedWhenAsked, Cap
  <2> QED
    BY <1>3, <1>5, <1>6, <2>2, <2>3, <2>4 DEF CacheInv, CacheTypeOK, StampedWhenAsked, Questions
<1> QED
  BY <1>3, <1>7, <1>8

LEMMA CacheStep ==
    SwapCacheAssumption /\ CacheInv /\ [CacheNext]_cacheVars => CacheInv'
<1> SUFFICES ASSUME SwapCacheAssumption, CacheInv, [CacheNext]_cacheVars
             PROVE  CacheInv'
  OBVIOUS
<1>1. CASE UNCHANGED cacheVars
  BY <1>1 DEF cacheVars, CacheInv, CacheTypeOK, StampedWhenAsked
<1>2. ASSUME NEW c \in Callers, resolve(c)
      PROVE  CacheInv'
  BY <1>2, ResolveKeeps
<1>3. fetch # None => fetch.age \in 0..FetchTime /\ fetch.age \in Stamps
                      /\ fetch.found \in Stamps
  BY CacheNumbers DEF CacheInv, CacheTypeOK, Fetches, Stamps, CacheAges, Cap
<1>4. CASE FeedAnswers
  <2>1. fetch # None /\ state' = [value |-> fetch.age, failed |-> None]
        /\ Settled([phase |-> "served", age |-> fetch.age])
        /\ asked' = [asked EXCEPT !.outcome = "answered"]
    BY <1>4 DEF FeedAnswers
  <2>2. state' \in [value : Stamps, failed : Stamps]
        /\ state'.value = fetch.age /\ state'.failed = None
    BY <1>3, <2>1 DEF Stamps
  <2>3. [phase |-> "served", age |-> fetch.age]
            \in [phase : {"served", "refused"}, age : Stamps]
    BY <1>3, <2>1
  <2> QED
    BY <2>1, <2>2, <2>3, FetchEnds
<1>5. CASE FeedFails
  <2>1. fetch # None /\ state' = [value |-> fetch.found, failed |-> fetch.age]
        /\ Settled(StaleOr(fetch.found, fetch.age))
        /\ asked' = [asked EXCEPT !.outcome = "failed"]
    BY <1>5 DEF FeedFails, AfterFailure
  <2>2. state' \in [value : Stamps, failed : Stamps] /\ state'.failed = fetch.age
    BY <1>3, <2>1
  <2>3. StaleOr(fetch.found, fetch.age)
            \in [phase : {"served", "refused"}, age : Stamps]
    BY <1>3, <2>1, StaleOrIs
  <2> QED
    BY <2>1, <2>2, <2>3, FetchEnds
<1>6. CASE CacheTick
  BY <1>6, CacheTickKeeps
<1> QED
  BY <1>1, <1>2, <1>4, <1>5, <1>6 DEF CacheNext

\* Every variable of a cached feed has its type, and a caller that waits has a
\* fetch to wait for (#inflight).
THEOREM CacheTypes ==
    ASSUME SwapCacheAssumption
    PROVE  CacheSpec => []CacheTypeOK
<1>1. CacheInit => CacheInv
  BY CacheStart
<1>2. CacheInv /\ [CacheNext]_cacheVars => CacheInv'
  BY CacheStep
<1>3. CacheInv => CacheTypeOK
  BY DEF CacheInv
<1> QED
  BY <1>1, <1>2, <1>3, PTL DEF CacheSpec

\* A feed is spared however many payers list, quote or create: it is never asked
\* while it owes an answer, within the life of the value it gave last or within
\* the claim of its last failure, because a value and a failure are stamped with
\* the time their fetch began (resolve).
THEOREM FeedsAreSpared ==
    ASSUME SwapCacheAssumption
    PROVE  CacheSpec => FeedIsSpared
<1>1. CacheInit => CacheInv
  BY CacheStart
<1>2. CacheInv /\ [CacheNext]_cacheVars => CacheInv'
  BY CacheStep
<1>3. CacheInv /\ [CacheNext]_cacheVars => [AsksInTime]_cacheVars
  <2> SUFFICES ASSUME CacheInv, CacheNext, asked' # asked, asked' = Asking
               PROVE  \/ asked.outcome = "none"
                      \/ asked.outcome = "answered" /\ asked.age >= RefreshSeconds
                      \/ asked.outcome = "failed" /\ asked.age >= ClaimSeconds
    BY DEF AsksInTime
  <2>1. asked'.age = 0 /\ asked'.outcome = "running"
    BY DEF Asking
  <2>2. ~ CacheTick
    BY <2>1, CacheTickKeeps
  <2>3. asked \in Questions
    BY DEF CacheInv, CacheTypeOK, Questions
  <2>4. ~ FeedAnswers /\ ~ FeedFails
    BY <2>1, <2>3 DEF FeedAnswers, FeedFails, Questions
  <2>5. PICK c \in Callers : Fetch(c)
    BY <2>2, <2>4 DEF CacheNext, resolve, ServeFresh, ServeInBackoff, Join
  <2>6. fetch = None /\ ~Fresh /\ ~Backoff
    BY <2>5 DEF Fetch, MayFetch
  <2>7. asked.age \in Nat /\ asked.age # None
    BY <2>3, CacheNumbers DEF Questions, CacheAges, Cap
  <2>8. CASE asked.outcome = "answered"
    BY <2>6, <2>7, <2>8, CacheNumbers DEF CacheInv, StampedWhenAsked, Fresh, Within
  <2>9. CASE asked.outcome = "failed"
    BY <2>6, <2>7, <2>9, CacheNumbers DEF CacheInv, StampedWhenAsked, Backoff, Within
  <2> QED
    BY <2>3, <2>6, <2>8, <2>9 DEF CacheInv, StampedWhenAsked, Questions
<1> QED
  BY <1>1, <1>2, <1>3, PTL DEF CacheSpec, FeedIsSpared

-----------------------------------------------------------------------------
(***************************************************************************)
(* The choice of a provider.                                               *)
(***************************************************************************)
\* A request has passed over a provider only in an outage of it, and an outage
\* during the request is noticed.
PassedOver ==
    call # Idle =>
        /\ \A i \in 1..(call.at - 1) : i \in outages
        /\ Down \subseteq outages

ChoiceInv == ChoiceTypeOK /\ PassedOver /\ BackupIsForOutages

ListCalls == [kind : {"list"}, at : Index, step : {"currencies", "rates"}]

UseCalls ==
    [kind : {"quote", "create"}, asset : Assets, at : Index,
     step : {"select", "currencies", "rates", "orders"}]

LEMMA IndexIs ==
    ASSUME SwapProvidersAssumption
    PROVE  /\ Len(Providers) \in Nat /\ Len(Providers) >= 1
           /\ Index = 1..Len(Providers) /\ 1 \in Index
<1>1. Providers \in Seq(STRING) /\ Providers # <<>>
  BY DEF SwapProvidersAssumption
<1>2. Len(Providers) \in Nat /\ DOMAIN Providers = 1..Len(Providers)
  BY <1>1
<1>3. Len(Providers) # 0
  BY <1>1
<1> QED
  BY <1>2, <1>3 DEF Index

LEMMA CallsAre == \A d \in ListCalls \cup UseCalls : d # Idle /\ d.kind # "idle"
<1> SUFFICES ASSUME NEW d \in ListCalls \cup UseCalls
             PROVE  d.kind # "idle"
  BY DEF Idle
<1> QED
  BY DEF ListCalls, UseCalls

LEMMA CallIs ==
    ASSUME ChoiceInv, call.kind \in {"list", "quote", "create"}
    PROVE  /\ call # Idle /\ call \in ListCalls \cup UseCalls
           /\ call.kind = "list" => call \in ListCalls
           /\ call.kind \in {"quote", "create"} => call \in UseCalls
           /\ call.at \in Index
           /\ \A i \in 1..(call.at - 1) : i \in outages
           /\ Down \subseteq outages
<1>1. call # Idle
  BY DEF Idle
<1>2. call \in ListCalls \cup UseCalls
  BY <1>1 DEF ChoiceInv, ChoiceTypeOK, RequestStages, ListCalls, UseCalls
<1>3. /\ call.kind = "list" => call \in ListCalls
      /\ call.kind \in {"quote", "create"} => call \in UseCalls
      /\ call.at \in Index
  BY <1>2 DEF ListCalls, UseCalls
<1> QED
  BY <1>1, <1>2, <1>3 DEF ChoiceInv, PassedOver

\* The request goes on.
LEMMA CallContinues ==
    ASSUME ChoiceInv, NEW next \in ListCalls \cup UseCalls, call' = next,
           UNCHANGED <<failing, outages, steady, offers, answer>>,
           \A i \in 1..(next.at - 1) : i \in outages,
           Down \subseteq outages
    PROVE  ChoiceInv'
<1>1. call' # Idle /\ call' \in RequestStages
  BY CallsAre DEF RequestStages, ListCalls, UseCalls
<1> QED
  BY <1>1 DEF ChoiceInv, ChoiceTypeOK, PassedOver, Down, BackupIsForOutages,
     JustAnswered

\* The request is answered, by a provider or by none.
LEMMA CallAnswered ==
    ASSUME SwapProvidersAssumption, ChoiceInv, call.kind \in {"list", "quote", "create"},
           NEW by \in Index \cup {0}, AnsweredBy(by), by \in {0, call.at},
           offers' \in [Assets -> Index \cup {NoOne}],
           UNCHANGED <<failing, outages, steady>>,
           by = 0 /\ call.kind # "list" /\ call.asset \in Lists[1] => 1 \in outages
    PROVE  ChoiceInv'
<1>1. /\ call \in ListCalls \cup UseCalls
      /\ call.kind = "list" => call \in ListCalls
      /\ call.kind \in {"quote", "create"} => call \in UseCalls
      /\ \A i \in 1..(call.at - 1) : i \in outages
  BY CallIs
<1>2. call' = Idle
  BY DEF AnsweredBy
<1>3. \A i \in 1..(by - 1) : i \in outages
  BY <1>1
<1>4. CASE call.kind = "list"
  <2>1. answer' = [kind |-> "list", by |-> by]
    BY <1>4 DEF AnsweredBy
  <2> QED
    BY <1>2, <1>3, <2>1 DEF ChoiceInv, ChoiceTypeOK, NoOne, PassedOver,
       BackupIsForOutages, JustAnswered
<1>5. CASE call.kind # "list"
  <2>1. answer' = [kind |-> call.kind, asset |-> call.asset, by |-> by]
    BY <1>5 DEF AnsweredBy
  <2>2. call.kind \in {"quote", "create"} /\ call.asset \in Assets
    BY <1>1, <1>5 DEF UseCalls
  <2> QED
    BY <1>2, <1>3, <1>5, <2>1, <2>2 DEF ChoiceInv, ChoiceTypeOK, NoOne, PassedOver,
       BackupIsForOutages, JustAnswered
<1> QED
  BY <1>4, <1>5

\* A provider with a failing feed is passed over, or ends the request.
LEMMA PassedOverKeeps ==
    ASSUME SwapProvidersAssumption, ChoiceInv, call.kind \in {"list", "quote", "create"},
           failing[call.at] # {},
           NEW step, step = (IF call.kind = "list" THEN "currencies" ELSE "select"),
           NextProvider(step), UNCHANGED <<failing, outages, steady>>
    PROVE  ChoiceInv'
<1>1. /\ call \in ListCalls \cup UseCalls /\ call.at \in Index
      /\ call.kind = "list" => call \in ListCalls
      /\ call.kind \in {"quote", "create"} => call \in UseCalls
      /\ \A i \in 1..(call.at - 1) : i \in outages
      /\ Down \subseteq outages
  BY CallIs
<1>2. call.at \in Nat /\ call.at >= 1 /\ call.at <= Len(Providers) /\ Len(Providers) \in Nat
  BY <1>1, IndexIs
<1>3. \A i \in 1..call.at : i \in outages
  BY <1>1, <1>2 DEF Down
<1>4. CASE call.at < Len(Providers)
  <2>1. PICK next : next = [call EXCEPT !.at = call.at + 1, !.step = step]
    OBVIOUS
  <2>2. call' = next /\ UNCHANGED <<offers, answer>>
    BY <1>1, <1>4, <2>1 DEF NextProvider, ListCalls, UseCalls
  <2>3. call.at + 1 \in Index
    BY <1>2, <1>4, IndexIs
  <2>4. next \in ListCalls \cup UseCalls /\ next.at = call.at + 1
    <3>1. CASE call.kind = "list"
      BY <1>1, <2>1, <2>3, <3>1 DEF ListCalls
    <3>2. CASE call.kind # "list"
      BY <1>1, <2>1, <2>3, <3>2 DEF UseCalls
    <3> QED
      BY <3>1, <3>2
  <2>5. \A i \in 1..(next.at - 1) : i \in outages
    BY <1>2, <1>3, <2>4
  <2> QED
    BY <1>1, <2>2, <2>4, <2>5, CallContinues
<1>5. CASE call.at >= Len(Providers)
  <2>1. AnsweredBy(0)
        /\ offers' = IF call.kind = "list" THEN [asset \in Assets |-> NoOne] ELSE offers
    BY <1>2, <1>5 DEF NextProvider, NoOne
  <2>2. offers' \in [Assets -> Index \cup {NoOne}]
    BY <2>1 DEF ChoiceInv, ChoiceTypeOK
  <2>3. 1 \in outages
    BY <1>2, <1>3
  <2> QED
    BY <2>1, <2>2, <2>3, CallAnswered
<1> QED
  BY <1>2, <1>4, <1>5

LEMMA StepContinues ==
    ASSUME ChoiceInv, call.kind \in {"list", "quote", "create"}, NEW step,
           step \in IF call.kind = "list" THEN {"currencies", "rates"}
                    ELSE {"select", "currencies", "rates", "orders"},
           Proceeds(step), UNCHANGED <<failing, outages, steady>>
    PROVE  ChoiceInv'
<1>1. /\ call \in ListCalls \cup UseCalls
      /\ call.kind = "list" => call \in ListCalls
      /\ call.kind \in {"quote", "create"} => call \in UseCalls
      /\ \A i \in 1..(call.at - 1) : i \in outages
      /\ Down \subseteq outages
  BY CallIs
<1>2. PICK next : next = [call EXCEPT !.step = step]
  OBVIOUS
<1>3. call' = next /\ UNCHANGED <<offers, answer>>
  BY <1>2 DEF Proceeds
<1>4. next \in ListCalls \cup UseCalls /\ next.at = call.at
  <2>1. CASE call.kind = "list"
    BY <1>1, <1>2, <2>1 DEF ListCalls
  <2>2. CASE call.kind # "list"
    BY <1>1, <1>2, <2>2 DEF UseCalls
  <2> QED
    BY <2>1, <2>2
<1> QED
  BY <1>1, <1>3, <1>4, CallContinues

LEMMA ServeKeeps ==
    ASSUME SwapProvidersAssumption, ChoiceInv, Serve
    PROVE  ChoiceInv'
<1>1. UNCHANGED <<failing, outages, steady>>
  BY DEF Serve
<1>2. \A feed : ~Answers(feed) => failing[call.at] # {}
  BY DEF Answers
<1>3. offers \in [Assets -> Index \cup {NoOne}]
  BY DEF ChoiceInv, ChoiceTypeOK
<1>4. CASE ListCurrencies
  BY <1>1, <1>2, <1>4, StepContinues, PassedOverKeeps DEF ListCurrencies
<1>5. CASE ListRates
  <2>1. call.kind = "list"
    BY <1>5 DEF ListRates
  <2>2. CASE ~Answers("rates") /\ NextProvider("currencies")
    BY <1>1, <1>2, <2>1, <2>2, PassedOverKeeps
  <2>3. CASE /\ AnsweredBy(call.at)
             /\ offers' = [asset \in Assets |-> IF asset \in Lists[call.at] THEN call.at
                                                ELSE NoOne]
    <3>1. call.at \in Index /\ call.at # 0
      BY <2>1, CallIs, IndexIs
    <3>2. offers' \in [Assets -> Index \cup {NoOne}]
      BY <2>3, <3>1
    <3> QED
      BY <1>1, <2>1, <2>3, <3>1, <3>2, CallAnswered
  <2> QED
    BY <1>5, <2>2, <2>3 DEF ListRates
<1>6. ASSUME call.kind \in {"quote", "create"}, AnsweredBy(0), UNCHANGED offers,
             failing[call.at] # {} \/ call.asset \notin Lists[call.at]
      PROVE  ChoiceInv'
  <2>1. /\ call.at \in Index /\ call.at \in Nat /\ call.at >= 1
        /\ \A i \in 1..(call.at - 1) : i \in outages
        /\ Down \subseteq outages
    BY <1>6, CallIs, IndexIs
  <2>2. call.asset \in Lists[1] => 1 \in outages
    <3>1. CASE call.at = 1
      BY <1>6, <2>1, <3>1 DEF Down
    <3>2. CASE call.at > 1
      BY <2>1, <3>2
    <3> QED
      BY <2>1, <3>1, <3>2
  <2> QED
    BY <1>1, <1>3, <1>6, <2>2, CallAnswered
<1>7. CASE selectProvider
  <2>1. call.kind \in {"quote", "create"}
    BY <1>7 DEF selectProvider
  <2>2. CASE ~Answers("currencies") /\ NextProvider("select")
    BY <1>1, <1>2, <2>1, <2>2, PassedOverKeeps
  <2>3. CASE Proceeds("currencies")
    BY <1>1, <2>1, <2>3, StepContinues
  <2>4. CASE call.asset \notin Lists[call.at] /\ AnsweredBy(0) /\ UNCHANGED offers
    BY <1>6, <2>1, <2>4
  <2> QED
    BY <1>7, <2>2, <2>3, <2>4 DEF selectProvider, NoOne
<1>8. ASSUME NEW step, NEW feed, NEW next \in {"rates", "orders", "done"},
             UseProvider(step, feed, next)
      PROVE  ChoiceInv'
  <2>1. call.kind \in {"quote", "create"}
    BY <1>8 DEF UseProvider
  <2>2. CASE ~Answers(feed) /\ AnsweredBy(0) /\ UNCHANGED offers
    BY <1>2, <1>6, <2>1, <2>2
  <2>3. CASE AnsweredBy(call.at) /\ UNCHANGED offers
    <3>1. call.at \in Index /\ call.at # 0
      BY <2>1, CallIs, IndexIs
    <3> QED
      BY <1>1, <1>3, <2>1, <2>3, <3>1, CallAnswered
  <2>4. CASE Proceeds(next) /\ next # "done"
    BY <1>1, <2>1, <2>4, StepContinues
  <2> QED
    BY <1>8, <2>2, <2>3, <2>4 DEF UseProvider, NoOne
<1> QED
  BY <1>4, <1>5, <1>7, <1>8 DEF Serve

LEMMA RequestKeeps ==
    ASSUME SwapProvidersAssumption, ChoiceInv, NEW request \in ListCalls \cup UseCalls,
           request.at = 1, Begins(request), steady' \in BOOLEAN
    PROVE  ChoiceInv'
<1>1. /\ call' = request /\ outages' = Down /\ answer' = NoAnswer
      /\ UNCHANGED <<failing, offers>>
  BY DEF Begins
<1>2. request # Idle /\ request \in RequestStages
  BY CallsAre DEF RequestStages, ListCalls, UseCalls
<1>3. Down \subseteq Index
  BY DEF Down
<1>4. ~JustAnswered({"list", "quote", "create"})' /\ ~JustAnswered({"quote", "create"})'
  BY <1>1, <1>2 DEF JustAnswered
<1> QED
  BY <1>1, <1>2, <1>3, <1>4 DEF ChoiceInv, ChoiceTypeOK, PassedOver, Down,
     BackupIsForOutages

LEMMA FeedChangeKeeps ==
    ASSUME SwapProvidersAssumption, ChoiceInv, FeedChanges
    PROVE  ChoiceInv'
<1>1. PICK i \in Index, feed \in Feeds :
        /\ failing' = [failing EXCEPT ![i] = IF feed \in @ THEN @ \ {feed} ELSE @ \cup {feed}]
        /\ outages' = outages \cup {j \in Index : failing'[j] # {}}
        /\ steady' = FALSE
        /\ UNCHANGED <<call, offers, answer>>
  BY DEF FeedChanges
<1>2. failing' \in [Index -> SUBSET Feeds]
  BY <1>1 DEF ChoiceInv, ChoiceTypeOK
<1>3. outages' \in SUBSET Index /\ outages \subseteq outages' /\ Down' \subseteq outages'
  BY <1>1 DEF ChoiceInv, ChoiceTypeOK, Down
<1>4. ChoiceTypeOK'
  BY <1>1, <1>2, <1>3 DEF ChoiceInv, ChoiceTypeOK
<1> QED
  BY <1>1, <1>3, <1>4 DEF ChoiceInv, PassedOver, BackupIsForOutages, JustAnswered

LEMMA ChoiceStart == SwapProvidersAssumption /\ ChoiceInit => ChoiceInv
<1> SUFFICES ASSUME ChoiceInit
             PROVE  ChoiceInv
  OBVIOUS
<1>1. call = Idle /\ answer = NoAnswer /\ outages = {} /\ steady = FALSE
      /\ offers = [asset \in Assets |-> NoOne]
      /\ failing \in [Index -> SUBSET Feeds]
  BY DEF ChoiceInit
<1>2. answer.kind = "idle"
  BY <1>1 DEF NoAnswer
<1>3. ChoiceTypeOK
  BY <1>1 DEF ChoiceTypeOK
<1>4. PassedOver /\ BackupIsForOutages
  BY <1>1, <1>2 DEF PassedOver, BackupIsForOutages, JustAnswered
<1> QED
  BY <1>3, <1>4 DEF ChoiceInv

LEMMA ChoiceStep ==
    SwapProvidersAssumption /\ ChoiceInv /\ [ChoiceNext]_choiceVars => ChoiceInv'
<1> SUFFICES ASSUME SwapProvidersAssumption, ChoiceInv, [ChoiceNext]_choiceVars
             PROVE  ChoiceInv'
  OBVIOUS
<1>1. CASE UNCHANGED choiceVars
  BY <1>1 DEF choiceVars, ChoiceInv, ChoiceTypeOK, PassedOver, BackupIsForOutages,
     JustAnswered, Down
<1>2. steady \in BOOLEAN
  BY DEF ChoiceInv, ChoiceTypeOK
<1>3. CASE listSwapOptions
  <2>1. PICK request : request = [kind |-> "list", at |-> 1, step |-> "currencies"]
    OBVIOUS
  <2>2. request \in ListCalls /\ request.at = 1
    BY <2>1, IndexIs DEF ListCalls
  <2> QED
    BY <1>3, <2>1, <2>2, RequestKeeps DEF listSwapOptions
<1>4. ASSUME NEW asset \in Assets, NEW kind \in {"quote", "create"}, steady' = steady,
             Begins([kind |-> kind, asset |-> asset, at |-> 1, step |-> "select"])
      PROVE  ChoiceInv'
  <2>1. PICK request : request = [kind |-> kind, asset |-> asset, at |-> 1, step |-> "select"]
    OBVIOUS
  <2>2. request \in UseCalls /\ request.at = 1
    BY <2>1, IndexIs DEF UseCalls
  <2> QED
    BY <1>2, <1>4, <2>1, <2>2, RequestKeeps
<1>5. ASSUME NEW asset \in Assets, quoteSwap(asset) \/ createSwap(asset)
      PROVE  ChoiceInv'
  BY <1>4, <1>5 DEF quoteSwap, createSwap
<1> QED
  BY <1>1, <1>3, <1>5, ServeKeeps, FeedChangeKeeps DEF ChoiceNext

\* Every variable of the choice has its type.
THEOREM ChoiceTypes ==
    ASSUME SwapProvidersAssumption
    PROVE  ChoiceSpec => []ChoiceTypeOK
<1>1. ChoiceInit => ChoiceInv
  BY ChoiceStart
<1>2. ChoiceInv /\ [ChoiceNext]_choiceVars => ChoiceInv'
  BY ChoiceStep
<1>3. ChoiceInv => ChoiceTypeOK
  BY DEF ChoiceInv
<1> QED
  BY <1>1, <1>2, <1>3, PTL DEF ChoiceSpec

\* Whoever answers a listing, a quote or a create, every provider before it was
\* failing at some moment of the request, and an asset of the primary is refused
\* only if the primary was (resolveSwapProviderCatalog, selectProvider).
THEOREM BackupsAreForOutages ==
    ASSUME SwapProvidersAssumption
    PROVE  ChoiceSpec => []BackupIsForOutages
<1>1. ChoiceInit => ChoiceInv
  BY ChoiceStart
<1>2. ChoiceInv /\ [ChoiceNext]_choiceVars => ChoiceInv'
  BY ChoiceStep
<1>3. ChoiceInv => BackupIsForOutages
  BY DEF ChoiceInv
<1> QED
  BY <1>1, <1>2, <1>3, PTL DEF ChoiceSpec

-----------------------------------------------------------------------------
(***************************************************************************)
(* The rate cache.                                                         *)
(***************************************************************************)
CONSTANTS Refreshes, Probes, CacheSeconds, QuoteTtl, Skew, FetchLimit, BodyStalls, StepBack

VARIABLES cache, inFlight, refreshes

Rates == INSTANCE RateCache

\* The feeds' timeouts (http.ts:81), 15 s by default, end a fetch before what it asked
\* for is too old to quote, 600 s: a body that stalls after its headers has no timeout.
FetchesEnd == ~BodyStalls /\ FetchLimit < QuoteTtl

FetchesAreYoung == \A r \in refreshes : r.age <= FetchLimit

RateInv == Rates!TypeOK /\ FetchesAreYoung /\ Rates!ServedIsYoung

\* Without probes, the claim is the only refresh, and fails back to the entry that
\* is in the cache.
ClaimIsSole ==
    \A r \in refreshes :
        /\ refreshes = {r}
        /\ cache.started = r.age /\ cache.entry = r.previous

Calling == [phase : {"idle", "waiting", "served", "refused"}, on : Refreshes \cup {None},
            age : Rates!Stamp]

LEMMA RateNumbers ==
    ASSUME Rates!RateCacheAssumption
    PROVE  /\ CacheSeconds \in Nat /\ QuoteTtl \in Nat /\ Skew \in Nat /\ FetchLimit \in Nat
           /\ StepBack \in Nat /\ 0 < CacheSeconds /\ CacheSeconds <= QuoteTtl
           /\ None \notin Refreshes /\ None \notin Int
           /\ Rates!Cap \in Nat /\ Rates!Cap >= QuoteTtl
           /\ 0 \in Rates!Age /\ Rates!Age \subseteq Int /\ None \notin Rates!Age
  BY DEF Rates!RateCacheAssumption, Rates!Cap, Rates!Age

LEMMA RateTypes ==
    ASSUME RateInv
    PROVE  /\ cache \in [entry : Rates!Stamp, started : Rates!Stamp, failed : Rates!Stamp]
           /\ refreshes \subseteq Rates!Refresh /\ callers \in [Callers -> Calling]
           /\ \A r, s \in refreshes : r.id = s.id => r = s
           /\ inFlight \in Refreshes \cup {None}
           /\ inFlight # None => \E r \in refreshes : r.id = inFlight
  BY DEF RateInv, Rates!TypeOK, Calling

LEMMA RateStart == Rates!RateCacheAssumption /\ Rates!Init => RateInv /\ ClaimIsSole
  BY DEF Rates!Init, RateInv, ClaimIsSole, Rates!TypeOK, FetchesAreYoung, Rates!ServedIsYoung,
     Rates!Stamp

\* A refresh starts, beside whatever runs.
LEMMA StartedKeeps ==
    ASSUME Rates!RateCacheAssumption, RateInv, NEW kind \in {"claim", "probe"},
           Rates!Started(kind),
           cache' \in [entry : Rates!Stamp, started : Rates!Stamp, failed : Rates!Stamp],
           callers' \in [Callers -> Calling], Rates!ServedIsYoung'
    PROVE  RateInv'
<1>1. PICK id \in Refreshes :
        /\ \A r \in refreshes : r.id # id
        /\ inFlight' = id
        /\ refreshes' = refreshes \cup
               {[id |-> id, kind |-> kind, feed |-> "primary", age |-> 0,
                 previous |-> cache.entry]}
  BY DEF Rates!Started
<1>2. PICK new : new = [id |-> id, kind |-> kind, feed |-> "primary", age |-> 0,
                        previous |-> cache.entry]
  OBVIOUS
<1>3. new \in Rates!Refresh /\ new.id = id /\ new.age = 0
  BY <1>2, RateTypes, RateNumbers DEF Rates!Refresh
<1>4. refreshes' = refreshes \cup {new}
  BY <1>1, <1>2
<1>5. /\ refreshes' \subseteq Rates!Refresh
      /\ \A r, s \in refreshes' : r.id = s.id => r = s
      /\ \E r \in refreshes' : r.id = inFlight'
  BY <1>1, <1>3, <1>4, RateTypes
<1>6. FetchesAreYoung'
  BY <1>3, <1>4, RateNumbers DEF FetchesAreYoung, RateInv
<1> QED
  BY <1>1, <1>5, <1>6 DEF RateInv, Rates!TypeOK, Calling

LEMMA CallKeeps ==
    ASSUME Rates!RateCacheAssumption, RateInv, NEW c \in Callers, Rates!getBtcFiatRates(c)
    PROVE  RateInv'
<1>1. /\ cache \in [entry : Rates!Stamp, started : Rates!Stamp, failed : Rates!Stamp]
      /\ callers \in [Callers -> Calling] /\ Rates!ServedIsYoung
      /\ inFlight \in Refreshes \cup {None}
  BY RateTypes DEF RateInv
<1>2. ASSUME NEW got \in Calling, callers' = [callers EXCEPT ![c] = got],
             got.phase = "served" => got.age < QuoteTtl
      PROVE  callers' \in [Callers -> Calling] /\ Rates!ServedIsYoung'
  BY <1>1, <1>2 DEF Rates!ServedIsYoung
<1>3. ASSUME callers' \in [Callers -> Calling], Rates!ServedIsYoung',
             UNCHANGED <<cache, inFlight, refreshes>>
      PROVE  RateInv'
  BY <1>1, <1>3, RateTypes DEF RateInv, Rates!TypeOK, FetchesAreYoung, Calling
<1>4. \A id \in Refreshes \cup {None} : [phase |-> "waiting", on |-> id, age |-> None] \in Calling
  BY DEF Calling, Rates!Stamp
<1>5. [phase |-> "refused", on |-> None, age |-> None] \in Calling
  BY DEF Calling, Rates!Stamp
<1>6. Rates!Refused(c) => callers' \in [Callers -> Calling] /\ Rates!ServedIsYoung'
  BY <1>2, <1>5 DEF Rates!Refused
<1>7. \A id \in Refreshes \cup {None} :
        Rates!Waiting(c, id) => callers' \in [Callers -> Calling] /\ Rates!ServedIsYoung'
  BY <1>2, <1>4 DEF Rates!Waiting
<1>8. CASE Rates!ServeEntry(c)
  <2>1. cache.entry \in Rates!Stamp /\ cache.entry # None /\ cache.entry < QuoteTtl
    <3>1. /\ cache.entry # None /\ cache.entry \in Int
          /\ cache.entry < CacheSeconds \/ cache.entry < QuoteTtl
      BY <1>1, <1>8, RateNumbers DEF Rates!ServeEntry, Rates!isRecent, Rates!Quotable,
         Rates!Younger, Rates!Usable, Rates!Stamp
    <3> QED
      BY <1>1, <3>1, RateNumbers
  <2>2. PICK got : got = [phase |-> "served", on |-> None, age |-> cache.entry]
    OBVIOUS
  <2>3. got \in Calling /\ got.age < QuoteTtl
    BY <2>1, <2>2 DEF Calling
  <2>4. callers' = [callers EXCEPT ![c] = got] /\ UNCHANGED <<cache, inFlight, refreshes>>
    BY <1>8, <2>2 DEF Rates!ServeEntry, Rates!Served
  <2> QED
    BY <1>2, <1>3, <2>3, <2>4
<1>9. CASE Rates!RefuseInBackoff(c)
  BY <1>3, <1>6, <1>9 DEF Rates!RefuseInBackoff
<1>10. CASE Rates!JoinRefresh(c)
  BY <1>1, <1>3, <1>6, <1>7, <1>10 DEF Rates!JoinRefresh
<1>11. CASE Rates!ClaimRefresh(c)
  <2>1. cache' = [entry |-> cache.entry, started |-> 0, failed |-> None]
        /\ Rates!Started("claim") /\ Rates!Waiting(c, inFlight')
    BY <1>11 DEF Rates!ClaimRefresh
  <2>2. cache' \in [entry : Rates!Stamp, started : Rates!Stamp, failed : Rates!Stamp]
    BY <1>1, <2>1, RateNumbers DEF Rates!Stamp
  <2>3. inFlight' \in Refreshes
    BY <2>1 DEF Rates!Started
  <2>4. callers' \in [Callers -> Calling] /\ Rates!ServedIsYoung'
    BY <1>7, <2>1, <2>3
  <2> QED
    BY <2>1, <2>2, <2>4, StartedKeeps
<1> QED
  BY <1>8, <1>9, <1>10, <1>11 DEF Rates!getBtcFiatRates

LEMMA SettledKeeps ==
    ASSUME Rates!RateCacheAssumption, FetchLimit < QuoteTtl, RateInv, NEW refresh \in refreshes,
           NEW outcome \in {"served", "refused"}, Rates!Settled(refresh, outcome),
           cache' \in [entry : Rates!Stamp, started : Rates!Stamp, failed : Rates!Stamp]
    PROVE  RateInv'
<1>1. /\ callers \in [Callers -> Calling] /\ Rates!ServedIsYoung
      /\ refresh \in Rates!Refresh /\ refresh.age \in Rates!Age /\ refresh.age <= FetchLimit
  BY RateTypes DEF RateInv, FetchesAreYoung, Rates!Refresh
<1>2. /\ refreshes' = refreshes \ {refresh}
      /\ inFlight' = IF inFlight = refresh.id THEN None ELSE inFlight
      /\ callers' = [c \in Callers |->
           IF callers[c].on = refresh.id
           THEN [phase |-> outcome, on |-> None,
                 age |-> IF outcome = "served" THEN refresh.age ELSE None]
           ELSE callers[c]]
  BY DEF Rates!Settled
<1>3. PICK got : got = [phase |-> outcome, on |-> None,
                        age |-> IF outcome = "served" THEN refresh.age ELSE None]
  OBVIOUS
<1>4. got \in Calling /\ (got.phase = "served" => got.age < QuoteTtl)
  <2>1. got.phase = outcome /\ got.age \in {refresh.age, None}
        /\ (outcome = "served" => got.age = refresh.age)
    BY <1>3
  <2>2. refresh.age < QuoteTtl
    BY <1>1, RateNumbers
  <2>3. got \in Calling
    BY <1>1, <1>3 DEF Calling, Rates!Stamp
  <2> QED
    BY <2>1, <2>2, <2>3
<1>5. callers' = [c \in Callers |-> IF callers[c].on = refresh.id THEN got ELSE callers[c]]
  BY <1>2, <1>3
<1>6. callers' \in [Callers -> Calling] /\ Rates!ServedIsYoung'
  BY <1>1, <1>4, <1>5 DEF Rates!ServedIsYoung
<1>7. inFlight' \in Refreshes \cup {None}
      /\ (inFlight' # None => \E r \in refreshes' : r.id = inFlight')
  <2> SUFFICES ASSUME inFlight' # None
               PROVE  inFlight' \in Refreshes /\ \E r \in refreshes' : r.id = inFlight'
    OBVIOUS
  <2>1. inFlight' = inFlight /\ inFlight # None /\ inFlight # refresh.id
    BY <1>2
  <2>2. PICK r \in refreshes : r.id = inFlight
    BY <2>1, RateTypes
  <2>3. r # refresh
    BY <2>1, <2>2
  <2> QED
    BY <1>2, <2>1, <2>2, <2>3, RateTypes
<1>8. /\ refreshes' \subseteq Rates!Refresh
      /\ \A r, s \in refreshes' : r.id = s.id => r = s
      /\ FetchesAreYoung'
  BY <1>2, RateTypes DEF RateInv, FetchesAreYoung
<1> QED
  BY <1>6, <1>7, <1>8 DEF RateInv, Rates!TypeOK, Calling

LEMMA ProbeKeeps ==
    ASSUME Rates!RateCacheAssumption, RateInv, Rates!healthCheck
    PROVE  RateInv'
<1>1. Rates!Started("probe") /\ UNCHANGED <<cache, callers>>
  BY DEF Rates!healthCheck
<1>2. Rates!ServedIsYoung'
  BY <1>1 DEF Rates!ServedIsYoung, RateInv
<1> QED
  BY <1>1, <1>2, RateTypes, StartedKeeps

\* The fallback is asked by the refresh that asked the primary.
LEMMA FallbackIs ==
    ASSUME Rates!RateCacheAssumption, RateInv, NEW refresh \in refreshes,
           Rates!PrimaryFails(refresh)
    PROVE  \E next \in Rates!Refresh :
               /\ next.id = refresh.id /\ next.age = refresh.age
               /\ next.previous = refresh.previous
               /\ refreshes' = (refreshes \ {refresh}) \cup {next}
<1>1. PICK next : next = [refresh EXCEPT !.feed = "fallback"]
  OBVIOUS
<1>2. refresh \in Rates!Refresh
  BY RateTypes
<1>3. next \in Rates!Refresh /\ next.id = refresh.id /\ next.age = refresh.age
      /\ next.previous = refresh.previous
  BY <1>1, <1>2 DEF Rates!Refresh
<1>4. refreshes' = (refreshes \ {refresh}) \cup {next}
  BY <1>1 DEF Rates!PrimaryFails
<1> QED
  BY <1>3, <1>4

LEMMA RefreshKeeps ==
    ASSUME Rates!RateCacheAssumption, FetchLimit < QuoteTtl, RateInv, NEW refresh \in refreshes,
           Rates!Step(refresh)
    PROVE  RateInv'
<1>1. refresh \in Rates!Refresh /\ refresh.age \in Rates!Age /\ refresh.previous \in Rates!Stamp
      /\ refresh.age \in Rates!Stamp /\ None \in Rates!Stamp
  BY RateTypes DEF Rates!Refresh, Rates!Stamp
<1>2. CASE Rates!FeedAnswers(refresh)
  <2>1. cache' \in [entry : Rates!Stamp, started : Rates!Stamp, failed : Rates!Stamp]
    BY <1>1, <1>2 DEF Rates!FeedAnswers
  <2> QED
    BY <1>2, <2>1, SettledKeeps DEF Rates!FeedAnswers
<1>3. CASE Rates!PrimaryFails(refresh)
  <2>1. PICK next \in Rates!Refresh :
            /\ next.id = refresh.id /\ next.age = refresh.age
            /\ next.previous = refresh.previous
            /\ refreshes' = (refreshes \ {refresh}) \cup {next}
    BY <1>3, FallbackIs
  <2>2. UNCHANGED <<cache, inFlight, callers>>
    BY <1>3 DEF Rates!PrimaryFails
  <2>3. refreshes' \subseteq Rates!Refresh /\ FetchesAreYoung'
    BY <2>1, RateTypes DEF RateInv, FetchesAreYoung
  <2>4. \A r, s \in refreshes' : r.id = s.id => r = s
    BY <2>1, RateTypes
  <2>5. inFlight' # None => \E r \in refreshes' : r.id = inFlight'
    BY <2>1, <2>2, RateTypes
  <2>6. Rates!ServedIsYoung'
    BY <2>2 DEF RateInv, Rates!ServedIsYoung
  <2> QED
    BY <2>2, <2>3, <2>4, <2>5, <2>6, RateTypes DEF RateInv, Rates!TypeOK, Calling
<1>4. CASE Rates!BothFail(refresh)
  <2>1. cache' \in [entry : Rates!Stamp, started : Rates!Stamp, failed : Rates!Stamp]
    BY <1>1, <1>4 DEF Rates!BothFail, Rates!AfterFailure
  <2> QED
    BY <1>4, <2>1, SettledKeeps DEF Rates!BothFail
<1> QED
  BY <1>2, <1>3, <1>4 DEF Rates!Step

\* What the clock does to the stamps of the cache and of every refresh.
LEMMA AgedIs ==
    ASSUME Rates!RateCacheAssumption, RateInv, NEW r \in refreshes, NEW d \in Int
    PROVE  Rates!Aged(r, d) =
               [id |-> r.id, kind |-> r.kind, feed |-> r.feed,
                age |-> Rates!Shifted(r.age, d), previous |-> Rates!Shifted(r.previous, d)]
<1>1. r = [id |-> r.id, kind |-> r.kind, feed |-> r.feed, age |-> r.age,
           previous |-> r.previous]
  BY RateTypes DEF Rates!Refresh
<1>2. Rates!Aged(r, d) = [r EXCEPT !.age = Rates!Shifted(@, d),
                                   !.previous = Rates!Shifted(@, d)]
  BY DEF Rates!Aged
<1> QED
  BY <1>1, <1>2

LEMMA StampsShift ==
    ASSUME Rates!RateCacheAssumption, RateInv, NEW d \in Int, Rates!ClockMoves(d)
    PROVE  /\ cache' = [entry |-> Rates!Shifted(cache.entry, d),
                        started |-> Rates!Shifted(cache.started, d),
                        failed |-> Rates!Shifted(cache.failed, d)]
           /\ refreshes' = {Rates!Aged(r, d) : r \in refreshes}
           /\ UNCHANGED <<inFlight, callers>>
<1>1. cache' = [field \in DOMAIN cache |-> Rates!Shifted(cache[field], d)]
  BY DEF Rates!ClockMoves
<1>2. DOMAIN cache = {"entry", "started", "failed"}
  BY RateTypes
<1>3. cache' = [entry |-> Rates!Shifted(cache.entry, d),
                started |-> Rates!Shifted(cache.started, d),
                failed |-> Rates!Shifted(cache.failed, d)]
  BY <1>1, <1>2
<1> QED
  BY <1>3 DEF Rates!ClockMoves

LEMMA ClockKeeps ==
    ASSUME Rates!RateCacheAssumption, FetchLimit < QuoteTtl, RateInv, NEW d \in Int,
           Rates!ClockMoves(d),
           \A stamp \in {cache.entry, cache.started, cache.failed}
                        \cup {r.age : r \in refreshes} \cup {r.previous : r \in refreshes} :
               stamp # None => stamp + d >= -StepBack,
           \A r \in refreshes : r.age + d <= FetchLimit
    PROVE  RateInv'
<1>1. \A stamp \in {cache.entry, cache.started, cache.failed}
                   \cup {r.age : r \in refreshes} \cup {r.previous : r \in refreshes} :
          /\ stamp \in Rates!Stamp
          /\ Rates!Shifted(stamp, d) \in Rates!Stamp
          /\ stamp # None => Rates!Shifted(stamp, d) \in Rates!Age
                             /\ Rates!Shifted(stamp, d) <= stamp + d
  <2> SUFFICES ASSUME NEW stamp \in {cache.entry, cache.started, cache.failed}
                         \cup {r.age : r \in refreshes} \cup {r.previous : r \in refreshes}
               PROVE  /\ stamp \in Rates!Stamp
                      /\ Rates!Shifted(stamp, d) \in Rates!Stamp
                      /\ stamp # None => Rates!Shifted(stamp, d) \in Rates!Age
                                         /\ Rates!Shifted(stamp, d) <= stamp + d
    OBVIOUS
  <2>1. stamp \in Rates!Stamp /\ (stamp # None => stamp + d >= -StepBack)
    BY RateTypes DEF Rates!Refresh, Rates!Stamp
  <2>2. CASE stamp = None
    BY <2>1, <2>2 DEF Rates!Shifted
  <2>3. CASE stamp # None
    <3>1. stamp \in Int /\ stamp + d >= -StepBack
      BY <2>1, <2>3, RateNumbers DEF Rates!Stamp
    <3>2. Rates!Shifted(stamp, d) \in Rates!Age /\ Rates!Shifted(stamp, d) <= stamp + d
      BY <2>3, <3>1, RateNumbers DEF Rates!Shifted, Rates!Age
    <3> QED
      BY <2>1, <3>2 DEF Rates!Stamp
  <2> QED
    BY <2>2, <2>3
<1>2. cache' \in [entry : Rates!Stamp, started : Rates!Stamp, failed : Rates!Stamp]
  <2>1. Rates!Shifted(cache.entry, d) \in Rates!Stamp
        /\ Rates!Shifted(cache.started, d) \in Rates!Stamp
        /\ Rates!Shifted(cache.failed, d) \in Rates!Stamp
    BY <1>1
  <2> QED
    BY <2>1, StampsShift
<1>3. \A r \in refreshes :
          /\ Rates!Aged(r, d) \in Rates!Refresh /\ Rates!Aged(r, d).id = r.id
          /\ Rates!Aged(r, d).age <= FetchLimit
  <2> SUFFICES ASSUME NEW r \in refreshes
               PROVE  /\ Rates!Aged(r, d) \in Rates!Refresh /\ Rates!Aged(r, d).id = r.id
                      /\ Rates!Aged(r, d).age <= FetchLimit
    OBVIOUS
  <2>1. r \in Rates!Refresh /\ r.age \in Rates!Age /\ r.age \in Int /\ r.age # None
    BY RateTypes, RateNumbers DEF Rates!Refresh
  <2>2. /\ Rates!Shifted(r.age, d) \in Rates!Age /\ Rates!Shifted(r.age, d) \in Int
        /\ Rates!Shifted(r.age, d) <= r.age + d
        /\ Rates!Shifted(r.previous, d) \in Rates!Stamp
    BY <1>1, <2>1, RateNumbers
  <2>3. Rates!Shifted(r.age, d) <= FetchLimit
    BY <2>1, <2>2, RateNumbers
  <2> QED
    BY <2>1, <2>2, <2>3, AgedIs DEF Rates!Refresh
<1>4. refreshes' \subseteq Rates!Refresh /\ FetchesAreYoung'
  BY <1>3, StampsShift DEF FetchesAreYoung
<1>5. \A r, s \in refreshes' : r.id = s.id => r = s
  BY <1>3, StampsShift, RateTypes
<1>6. inFlight' \in Refreshes \cup {None}
      /\ (inFlight' # None => \E r \in refreshes' : r.id = inFlight')
  BY <1>3, StampsShift, RateTypes
<1>7. callers' \in [Callers -> Calling] /\ Rates!ServedIsYoung'
  BY StampsShift, RateTypes DEF RateInv, Rates!ServedIsYoung
<1> QED
  BY <1>2, <1>4, <1>5, <1>6, <1>7 DEF RateInv, Rates!TypeOK, Calling

LEMMA TickKeeps ==
    ASSUME Rates!RateCacheAssumption, FetchesEnd, RateInv, Rates!Tick
    PROVE  RateInv'
<1>1. \A r \in refreshes : r.age < FetchLimit
  BY DEF Rates!Tick, FetchesEnd
<1>2. \A r \in refreshes : r.age + 1 <= FetchLimit
  BY <1>1, RateTypes, RateNumbers DEF Rates!Refresh
<1>3. \A stamp \in {cache.entry, cache.started, cache.failed}
                   \cup {r.age : r \in refreshes} \cup {r.previous : r \in refreshes} :
          stamp # None => stamp + 1 >= -StepBack
  <2>1. \A stamp \in {cache.entry, cache.started, cache.failed}
                     \cup {r.age : r \in refreshes} \cup {r.previous : r \in refreshes} :
            stamp \in Rates!Stamp
    BY RateTypes DEF Rates!Refresh, Rates!Stamp
  <2> QED
    BY <2>1, RateNumbers DEF Rates!Stamp, Rates!Age
<1> QED
  BY <1>2, <1>3, ClockKeeps DEF Rates!Tick, FetchesEnd

LEMMA StepBackKeeps ==
    ASSUME Rates!RateCacheAssumption, FetchesEnd, RateInv, Rates!ClockStepsBack
    PROVE  RateInv'
<1>1. \A stamp \in {cache.entry, cache.started, cache.failed}
                   \cup {r.age : r \in refreshes} \cup {r.previous : r \in refreshes} :
          /\ stamp \in Rates!Stamp /\ (stamp # None => stamp >= 0)
  BY RateTypes DEF Rates!Refresh, Rates!Stamp, Rates!ClockStepsBack
<1>2. \A stamp \in {cache.entry, cache.started, cache.failed}
                   \cup {r.age : r \in refreshes} \cup {r.previous : r \in refreshes} :
          stamp # None => stamp + (-StepBack) >= -StepBack
  <2>1. \A stamp \in Int : stamp >= 0 => stamp + (-StepBack) >= -StepBack
    BY RateNumbers
  <2>2. \A stamp \in Rates!Stamp : stamp # None => stamp \in Int
    BY RateNumbers DEF Rates!Stamp
  <2> QED
    BY <1>1, <2>1, <2>2
<1>3. \A r \in refreshes : r.age + (-StepBack) <= FetchLimit
  BY RateTypes, RateNumbers DEF Rates!Refresh, RateInv, FetchesAreYoung
<1>4. -StepBack \in Int /\ FetchLimit < QuoteTtl /\ Rates!ClockMoves(-StepBack)
  BY RateNumbers DEF Rates!ClockStepsBack, FetchesEnd
<1> QED
  BY <1>2, <1>3, <1>4, ClockKeeps

LEMMA RateStep ==
    Rates!RateCacheAssumption /\ FetchesEnd /\ RateInv /\ [Rates!Next]_(Rates!vars) => RateInv'
<1> SUFFICES ASSUME Rates!RateCacheAssumption, FetchesEnd, RateInv, [Rates!Next]_(Rates!vars)
             PROVE  RateInv'
  OBVIOUS
<1>1. CASE \E c \in Callers : Rates!getBtcFiatRates(c)
  BY <1>1, CallKeeps
<1>2. CASE Rates!healthCheck
  BY <1>2, ProbeKeeps
<1>3. CASE \E refresh \in refreshes : Rates!Step(refresh)
  BY <1>3, RefreshKeeps DEF FetchesEnd
<1>4. CASE Rates!Tick
  BY <1>4, TickKeeps
<1>5. CASE Rates!ClockStepsBack
  BY <1>5, StepBackKeeps
<1>6. CASE UNCHANGED Rates!vars
  BY <1>6 DEF Rates!vars, RateInv, Rates!TypeOK, FetchesAreYoung, Rates!ServedIsYoung
<1> QED
  BY <1>1, <1>2, <1>3, <1>4, <1>5, <1>6 DEF Rates!Next

\* The type invariant of the rate cache.
THEOREM RatesTypes ==
    ASSUME Rates!RateCacheAssumption, FetchesEnd
    PROVE  Rates!Spec => []Rates!TypeOK
<1>1. Rates!Init => RateInv
  BY RateStart
<1>2. RateInv /\ [Rates!Next]_(Rates!vars) => RateInv'
  BY RateStep
<1>3. RateInv => Rates!TypeOK
  BY DEF RateInv
<1> QED
  BY <1>1, <1>2, <1>3, PTL DEF Rates!Spec

\* A rate observed longer ago than the quote TTL never prices anything, fresh, stale or
\* joined, probes and a clock that steps back included, as long as the feeds' timeouts
\* end a fetch within the TTL.
THEOREM RatesAreYoung ==
    ASSUME Rates!RateCacheAssumption, FetchesEnd
    PROVE  Rates!Spec => []Rates!ServedIsYoung
<1>1. Rates!Init => RateInv
  BY RateStart
<1>2. RateInv /\ [Rates!Next]_(Rates!vars) => RateInv'
  BY RateStep
<1>3. RateInv => Rates!ServedIsYoung
  BY DEF RateInv
<1> QED
  BY <1>1, <1>2, <1>3, PTL DEF Rates!Spec

-----------------------------------------------------------------------------
\* A claim is seen for as long as its fetch runs: cacheSeconds, 60 s by default, exceeds
\* the timeouts, the clock steps back no further than the skew it is allowed, and no
\* probe runs beside the claim.
ClaimOutlivesFetch ==
    /\ ~BodyStalls /\ FetchLimit < CacheSeconds /\ StepBack <= Skew
    /\ ~Probes

\* While a fetch runs, nobody may claim another.
LEMMA ClaimIsSeen ==
    ASSUME Rates!RateCacheAssumption, ClaimOutlivesFetch, RateInv, ClaimIsSole,
           NEW r \in refreshes
    PROVE  ~Rates!MayClaim
<1>1. cache.started = r.age /\ r.age \in Rates!Age /\ r.age <= FetchLimit
  BY RateTypes DEF ClaimIsSole, Rates!Refresh, RateInv, FetchesAreYoung
<1>2. r.age # None /\ r.age \in Int /\ r.age >= -StepBack
  BY <1>1, RateNumbers DEF Rates!Age
<1>3. r.age >= -Skew /\ r.age < CacheSeconds
  BY <1>1, <1>2, RateNumbers DEF ClaimOutlivesFetch
<1> QED
  BY <1>1, <1>2, <1>3 DEF Rates!MayClaim, Rates!isRecent, Rates!Younger, Rates!Usable

LEMMA SoleStep ==
    Rates!RateCacheAssumption /\ ClaimOutlivesFetch /\ RateInv /\ ClaimIsSole
        /\ [Rates!Next]_(Rates!vars) => ClaimIsSole'
<1> SUFFICES ASSUME Rates!RateCacheAssumption, ClaimOutlivesFetch, RateInv, ClaimIsSole,
                    [Rates!Next]_(Rates!vars)
             PROVE  ClaimIsSole'
  OBVIOUS
<1>1. ASSUME UNCHANGED <<cache, refreshes>> PROVE ClaimIsSole'
  BY <1>1 DEF ClaimIsSole
<1>2. ASSUME NEW c \in Callers, Rates!getBtcFiatRates(c) PROVE ClaimIsSole'
  <2>1. CASE Rates!ServeEntry(c) \/ Rates!RefuseInBackoff(c) \/ Rates!JoinRefresh(c)
    BY <1>1, <2>1 DEF Rates!ServeEntry, Rates!RefuseInBackoff, Rates!JoinRefresh
  <2>2. CASE Rates!ClaimRefresh(c)
    <3>1. /\ refreshes = {}
          /\ cache' = [entry |-> cache.entry, started |-> 0, failed |-> None]
      BY <2>2, ClaimIsSeen DEF Rates!ClaimRefresh
    <3>2. PICK id \in Refreshes :
              refreshes' = refreshes \cup
                  {[id |-> id, kind |-> "claim", feed |-> "primary", age |-> 0,
                    previous |-> cache.entry]}
      BY <2>2 DEF Rates!ClaimRefresh, Rates!Started
    <3> QED
      BY <3>1, <3>2 DEF ClaimIsSole
  <2> QED
    BY <1>2, <2>1, <2>2 DEF Rates!getBtcFiatRates
<1>3. ~Rates!healthCheck
  BY DEF Rates!healthCheck, ClaimOutlivesFetch
<1>4. ASSUME NEW refresh \in refreshes, Rates!Step(refresh) PROVE ClaimIsSole'
  <2>1. refreshes = {refresh}
    BY DEF ClaimIsSole
  <2>2. CASE Rates!FeedAnswers(refresh) \/ Rates!BothFail(refresh)
    <3>1. refreshes' = {}
      BY <2>1, <2>2 DEF Rates!FeedAnswers, Rates!BothFail, Rates!Settled
    <3> QED
      BY <3>1 DEF ClaimIsSole
  <2>3. CASE Rates!PrimaryFails(refresh)
    <3>1. PICK next \in Rates!Refresh :
              /\ next.id = refresh.id /\ next.age = refresh.age
              /\ next.previous = refresh.previous
              /\ refreshes' = (refreshes \ {refresh}) \cup {next}
      BY <2>3, FallbackIs
    <3>2. refreshes' = {next} /\ cache' = cache
      BY <2>1, <2>3, <3>1 DEF Rates!PrimaryFails
    <3> QED
      BY <3>1, <3>2 DEF ClaimIsSole
  <2> QED
    BY <1>4, <2>2, <2>3 DEF Rates!Step
<1>5. ASSUME NEW d \in Int, Rates!ClockMoves(d) PROVE ClaimIsSole'
  <2> SUFFICES ASSUME NEW s \in refreshes'
               PROVE  /\ refreshes' = {s}
                      /\ cache'.started = s.age /\ cache'.entry = s.previous
    BY DEF ClaimIsSole
  <2>1. /\ cache' = [entry |-> Rates!Shifted(cache.entry, d),
                     started |-> Rates!Shifted(cache.started, d),
                     failed |-> Rates!Shifted(cache.failed, d)]
        /\ refreshes' = {Rates!Aged(r, d) : r \in refreshes}
    BY <1>5, StampsShift
  <2>2. PICK r \in refreshes : s = Rates!Aged(r, d)
    BY <2>1
  <2>3. refreshes = {r} /\ cache.started = r.age /\ cache.entry = r.previous
    BY DEF ClaimIsSole
  <2>4. s.age = Rates!Shifted(r.age, d) /\ s.previous = Rates!Shifted(r.previous, d)
    BY <2>2, AgedIs
  <2> QED
    BY <2>1, <2>2, <2>3, <2>4
<1>6. CASE Rates!Tick
  BY <1>5, <1>6 DEF Rates!Tick
<1>7. CASE Rates!ClockStepsBack
  BY <1>5, <1>7, RateNumbers DEF Rates!ClockStepsBack
<1>8. CASE UNCHANGED Rates!vars
  BY <1>1, <1>8 DEF Rates!vars
<1> QED
  BY <1>2, <1>3, <1>4, <1>6, <1>7, <1>8 DEF Rates!Next

\* No step takes a quotable observation away before it is too old.
LEMMA ObservationStep ==
    Rates!RateCacheAssumption /\ FetchesEnd /\ ClaimOutlivesFetch /\ RateInv /\ ClaimIsSole
        /\ [Rates!Next]_(Rates!vars) => [Rates!KeepsObservation]_(Rates!vars)
<1> SUFFICES ASSUME Rates!RateCacheAssumption, FetchesEnd, ClaimOutlivesFetch, RateInv,
                    ClaimIsSole, Rates!Next, Rates!Quotable, cache.entry < QuoteTtl - 1
             PROVE  Rates!Quotable'
  BY DEF Rates!KeepsObservation
<1>1. cache.entry \in Int /\ cache.entry # None /\ cache.entry >= -Skew
  BY RateTypes, RateNumbers DEF Rates!Quotable, Rates!Younger, Rates!Usable, Rates!Stamp
<1>2. ASSUME cache'.entry \in Int, cache'.entry >= -Skew, cache'.entry < QuoteTtl
      PROVE  Rates!Quotable'
  BY <1>2, RateNumbers DEF Rates!Quotable, Rates!Younger, Rates!Usable
<1>3. ASSUME cache'.entry = cache.entry PROVE Rates!Quotable'
  BY <1>3 DEF Rates!Quotable, Rates!Younger, Rates!Usable
<1>4. ASSUME NEW c \in Callers, Rates!getBtcFiatRates(c) PROVE Rates!Quotable'
  <2>1. cache'.entry = cache.entry
    BY <1>4 DEF Rates!getBtcFiatRates, Rates!ServeEntry, Rates!RefuseInBackoff,
       Rates!JoinRefresh, Rates!ClaimRefresh
  <2> QED
    BY <1>3, <2>1
<1>5. ~Rates!healthCheck
  BY DEF Rates!healthCheck, ClaimOutlivesFetch
<1>6. ASSUME NEW refresh \in refreshes, Rates!Step(refresh) PROVE Rates!Quotable'
  <2>1. CASE Rates!FeedAnswers(refresh)
    <3>1. cache'.entry = refresh.age /\ refresh.age \in Rates!Age /\ refresh.age <= FetchLimit
      BY <2>1, RateTypes DEF Rates!FeedAnswers, Rates!Refresh, RateInv, FetchesAreYoung
    <3>2. refresh.age \in Int /\ refresh.age >= -StepBack
      BY <3>1, RateNumbers DEF Rates!Age
    <3>3. refresh.age >= -Skew /\ refresh.age < QuoteTtl
      BY <3>1, <3>2, RateNumbers DEF ClaimOutlivesFetch, FetchesEnd
    <3> QED
      BY <1>2, <3>1, <3>2, <3>3
  <2>2. CASE Rates!PrimaryFails(refresh)
    BY <1>3, <2>2 DEF Rates!PrimaryFails
  <2>3. CASE Rates!BothFail(refresh)
    BY <1>3, <2>3 DEF Rates!BothFail, Rates!AfterFailure, ClaimIsSole
  <2> QED
    BY <1>6, <2>1, <2>2, <2>3 DEF Rates!Step
<1>7. CASE Rates!Tick
  <2>1. cache'.entry = Rates!Shifted(cache.entry, 1)
    BY <1>7, StampsShift DEF Rates!Tick
  <2>2. cache'.entry = cache.entry + 1
    BY <1>1, <2>1, RateNumbers DEF Rates!Shifted
  <2> QED
    BY <1>1, <1>2, <2>2, RateNumbers
<1>8. CASE Rates!ClockStepsBack
  <2>1. cache.entry >= 0 /\ -StepBack \in Int
    BY <1>1, <1>8, RateNumbers DEF Rates!ClockStepsBack
  <2>2. cache'.entry = Rates!Shifted(cache.entry, -StepBack)
    BY <1>8, <2>1, StampsShift DEF Rates!ClockStepsBack
  <2>3. cache'.entry = cache.entry - StepBack
    BY <1>1, <2>1, <2>2, RateNumbers DEF Rates!Shifted
  <2> QED
    BY <1>1, <1>2, <2>1, <2>3, RateNumbers DEF ClaimOutlivesFetch
<1> QED
  BY <1>4, <1>5, <1>6, <1>7, <1>8 DEF Rates!Next

\* One caller at a time fetches, and no failed refresh takes a quotable observation
\* away (cache.ts:160): without probes, and while a claim outlives its fetch.
THEOREM ObservationsAreKept ==
    ASSUME Rates!RateCacheAssumption, FetchesEnd, ClaimOutlivesFetch
    PROVE  Rates!Spec => [](\A r, s \in refreshes : r = s)
                         /\ [][Rates!KeepsObservation]_(Rates!vars)
<1>1. Rates!Init => RateInv /\ ClaimIsSole
  BY RateStart
<1>2. RateInv /\ [Rates!Next]_(Rates!vars) => RateInv'
  BY RateStep
<1>3. RateInv /\ ClaimIsSole /\ [Rates!Next]_(Rates!vars) => ClaimIsSole'
  BY SoleStep
<1>4. RateInv /\ ClaimIsSole /\ [Rates!Next]_(Rates!vars)
          => [Rates!KeepsObservation]_(Rates!vars)
  BY ObservationStep
<1>5. ClaimIsSole => \A r, s \in refreshes : r = s
  BY DEF ClaimIsSole
<1> QED
  BY <1>1, <1>2, <1>3, <1>4, <1>5, PTL DEF Rates!Spec

-----------------------------------------------------------------------------
(***************************************************************************)
(* The notification listener.                                              *)
(***************************************************************************)
OnePass ==
    /\ running \in BOOLEAN /\ passes \in {0, 1}
    /\ running = TRUE => passes = 1
    /\ running = FALSE => passes = 0

StopAt == {"none", "unsubscribing", "settling", "in flight", "listener stopped", "draining",
           "returned"}

\* What the await that stop() is at has left behind for good.
LeftBehind(c) ==
    /\ stopped /\ stop[c] # "none"
    /\ stop[c] \in {"in flight", "listener stopped", "draining", "returned"}
           => settler = NoSettler
    /\ stop[c] \in {"listener stopped", "draining", "returned"} => running = FALSE
    /\ stop[c] = "returned" => loop = "done"

ListenerInv ==
    /\ OnePass
    /\ stop \in [Caller -> StopAt] /\ first \subseteq Caller
    /\ \A c \in first : LeftBehind(c)

LEMMA ListenerStart == ListenerInit => ListenerInv
<1> SUFFICES ASSUME ListenerInit PROVE ListenerInv
  OBVIOUS
<1>1. running = FALSE /\ passes = 0 /\ stop = [c \in Caller |-> "none"] /\ first = {}
  BY DEF ListenerInit
<1> QED
  BY <1>1 DEF ListenerInv, OnePass, StopAt

LEMMA WakeKeeps ==
    ASSUME ListenerInv, NEW hs, Wake(hs)
    PROVE  OnePass' /\ stopped' = stopped /\ (stopped /\ running = FALSE => running' = FALSE)
<1>1. running \in BOOLEAN /\ OnePass
  BY DEF ListenerInv, OnePass
<1>2. CASE UNCHANGED <<stopped, running, passes>>
  BY <1>1, <1>2 DEF OnePass
<1>3. CASE ~stopped /\ ~running /\ running' = TRUE /\ passes' = passes + 1
           /\ UNCHANGED stopped
  <2>1. running = FALSE
    BY <1>1, <1>3
  <2>2. passes = 0
    BY <1>1, <2>1 DEF OnePass
  <2>3. passes' = 1
    BY <1>3, <2>2
  <2> QED
    BY <1>3, <2>3 DEF OnePass
<1> QED
  BY <1>2, <1>3 DEF Wake

\* Steps that are not of stop(): what is over stays over.
LEMMA OverStaysOver ==
    ASSUME ListenerInv, OnePass', UNCHANGED <<stop, first>>, stopped' = stopped,
           stopped /\ running = FALSE => running' = FALSE,
           stopped /\ settler = NoSettler => settler' = NoSettler,
           loop = "done" => loop' = "done"
    PROVE  ListenerInv'
<1>1. ASSUME NEW c \in first PROVE LeftBehind(c)'
  BY DEF ListenerInv, LeftBehind
<1> QED
  BY <1>1 DEF ListenerInv

LEMMA ListenerWorks ==
    ASSUME ListenerInv,
           \/ Settle \/ EndPass \/ PeriodicLoop
           \/ \E h \in Hash :
                  \/ Receive(h) \/ OtherProcess(h)
                  \/ \E carries \in Carries : Hear(h, carries)
    PROVE  ListenerInv'
<1>1. ASSUME UNCHANGED <<stop, first, running, passes, stopped>>,
             stopped /\ settler = NoSettler => settler' = NoSettler,
             loop = "done" => loop' = "done"
      PROVE  ListenerInv'
  <2>1. OnePass'
    BY <1>1 DEF ListenerInv, OnePass
  <2> QED
    BY <1>1, <2>1, OverStaysOver
<1>2. ASSUME NEW hs, Wake(hs), UNCHANGED <<stop, first, loop>>,
             stopped /\ settler = NoSettler => settler' = NoSettler
      PROVE  ListenerInv'
  BY <1>2, WakeKeeps, OverStaysOver
<1>3. CASE BeginSettling
  BY <1>1, <1>2, <1>3 DEF BeginSettling, listener, worker,
     stopping
<1>4. CASE CheckPending
  <2>1. settler # NoSettler
    BY <1>4 DEF CheckPending, NoSettler
  <2> QED
    BY <1>1, <1>2, <1>4, <2>1 DEF CheckPending, listener, worker,
       stopping
<1>5. CASE SettleDirectly
  BY <1>1, <1>2, <1>5 DEF SettleDirectly, worker, stopping
<1>6. CASE EndPass
  <2>1. /\ OnePass' /\ stopped' = stopped /\ (stopped /\ running = FALSE => running' = FALSE)
        /\ UNCHANGED <<stop, first, settler, loop>>
    <3>1. /\ passes > 0 /\ stopped' = stopped /\ UNCHANGED <<stop, first, settler, loop>>
          /\ \/ UNCHANGED <<running, passes>>
             \/ running' = FALSE /\ passes' = passes - 1
      BY <1>6 DEF EndPass, chain, worker, stopping
    <3>2. CASE UNCHANGED <<running, passes>>
      BY <3>1, <3>2 DEF ListenerInv, OnePass
    <3>3. CASE running' = FALSE /\ passes' = passes - 1
      <4>1. passes = 1
        BY <3>1 DEF ListenerInv, OnePass
      <4>2. passes' = 0
        BY <3>3, <4>1
      <4> QED
        BY <3>1, <3>3, <4>2 DEF OnePass
    <3> QED
      BY <3>1, <3>2, <3>3
  <2> QED
    BY <2>1, OverStaysOver
<1>7. CASE PeriodicLoop
  BY <1>1, <1>7 DEF PeriodicLoop, LoopPass, LoopWait,
     listener, chain, stopping
<1>8. ASSUME NEW h \in Hash, Receive(h) \/ OtherProcess(h)
      PROVE  ListenerInv'
  BY <1>1, <1>8 DEF Receive, OtherProcess, listener,
     chain, worker, stopping
<1>9. ASSUME NEW h \in Hash, NEW carries \in Carries, Hear(h, carries)
      PROVE  ListenerInv'
  BY <1>1, <1>2, <1>9 DEF Hear, chain, worker, stopping
<1> QED
  BY <1>3, <1>4, <1>5, <1>6, <1>7, <1>8, <1>9 DEF Settle

\* A step of stop() that leaves the listener and the loop alone.
LEMMA StopMoves ==
    ASSUME ListenerInv, NEW c \in Caller, NEW at \in StopAt \ {"none"},
           stop' = [stop EXCEPT ![c] = at],
           UNCHANGED <<first, running, passes, settler, loop, stopped>>,
           stop[c] # "none",
           at \in {"in flight", "listener stopped", "draining", "returned"} =>
               settler = NoSettler
               \/ stop[c] \in {"in flight", "listener stopped", "draining", "returned"},
           at \in {"listener stopped", "draining", "returned"} =>
               running = FALSE \/ stop[c] \in {"listener stopped", "draining", "returned"},
           at = "returned" => loop = "done"
    PROVE  ListenerInv'
<1>1. OnePass' /\ stop' \in [Caller -> StopAt]
  BY DEF ListenerInv, OnePass
<1>2. ASSUME NEW d \in first PROVE LeftBehind(d)'
  <2>1. d \in Caller /\ LeftBehind(d) /\ stop'[d] = IF d = c THEN at ELSE stop[d]
    BY DEF ListenerInv
  <2>2. CASE d = c
    BY <2>1, <2>2 DEF LeftBehind
  <2>3. CASE d # c
    BY <2>1, <2>3 DEF LeftBehind
  <2> QED
    BY <2>2, <2>3
<1> QED
  BY <1>1, <1>2 DEF ListenerInv

LEMMA StopKeeps ==
    ASSUME ListenerInv, NEW c \in Caller, StopStep(c)
    PROVE  ListenerInv'
<1>1. CASE Unsubscribed(c)
  BY <1>1, StopMoves DEF Unsubscribed, listener, chain,
     worker, StopAt
<1>2. CASE AwaitSettling(c)
  BY <1>2, StopMoves DEF AwaitSettling, SettlingIsOver, listener,
     chain, worker, StopAt
<1>3. CASE AwaitInFlight(c)
  <2>1. running = FALSE
    BY <1>3 DEF AwaitInFlight, ListenerInv, OnePass
  <2> QED
    BY <1>3, <2>1, StopMoves DEF AwaitInFlight, listener, chain,
       worker, StopAt
<1>4. CASE AbortLoop(c)
  BY <1>4, StopMoves DEF AbortLoop, listener, chain, StopAt
<1>5. CASE AwaitLoop(c)
  BY <1>5, StopMoves DEF AwaitLoop, listener, chain,
     worker, StopAt
<1> QED
  BY <1>1, <1>2, <1>3, <1>4, <1>5 DEF StopStep

\* The call that stops the listener is the first; a later one stops nothing.
LEMMA CallStopKeeps ==
    ASSUME ListenerInv, NEW c \in Caller, CallStop(c)
    PROVE  ListenerInv'
<1>1. /\ stop[c] = "none" /\ stopped' = TRUE
      /\ stop' = [stop EXCEPT ![c] = IF stopped THEN "listener stopped" ELSE "unsubscribing"]
      /\ first' = (IF stopped THEN first ELSE first \cup {c})
      /\ UNCHANGED <<running, passes, settler, loop>>
  BY DEF CallStop, chain, worker
<1>2. c \notin first
  BY <1>1 DEF ListenerInv, LeftBehind
<1>3. OnePass' /\ stop' \in [Caller -> StopAt] /\ first' \subseteq Caller
  BY <1>1 DEF ListenerInv, OnePass, StopAt
<1>4. ASSUME NEW d \in first PROVE LeftBehind(d)'
  <2>1. d # c /\ d \in Caller /\ LeftBehind(d)
    BY <1>2 DEF ListenerInv
  <2>2. stop'[d] = stop[d]
    BY <1>1, <2>1 DEF ListenerInv
  <2> QED
    BY <1>1, <2>1, <2>2 DEF LeftBehind
<1>5. CASE stopped
  BY <1>1, <1>3, <1>4, <1>5 DEF ListenerInv
<1>6. CASE ~stopped
  <2>1. stop'[c] = "unsubscribing"
    BY <1>1, <1>6 DEF ListenerInv
  <2>2. LeftBehind(c)'
    BY <1>1, <2>1 DEF LeftBehind
  <2>3. first' = first \cup {c}
    BY <1>1, <1>6
  <2> QED
    BY <1>3, <1>4, <2>2, <2>3 DEF ListenerInv
<1> QED
  BY <1>5, <1>6

LEMMA ListenerStep == ListenerInv /\ [ListenerNext]_listenerVars => ListenerInv'
<1> SUFFICES ASSUME ListenerInv, [ListenerNext]_listenerVars
             PROVE  ListenerInv'
  OBVIOUS
<1>1. CASE \/ Settle \/ EndPass \/ PeriodicLoop
           \/ \E h \in Hash :
                  \/ Receive(h) \/ OtherProcess(h)
                  \/ \E carries \in Carries : Hear(h, carries)
  BY <1>1, ListenerWorks
<1>2. CASE \E c \in Caller : CallStop(c) \/ StopStep(c)
  BY <1>2, CallStopKeeps, StopKeeps
<1>3. CASE UNCHANGED listenerVars
  <2>1. OnePass' /\ UNCHANGED <<stop, first, stopped, running, settler, loop>>
    BY <1>3 DEF listenerVars, listener, chain, worker,
       stopping, ListenerInv, OnePass
  <2> QED
    BY <2>1, OverStaysOver
<1> QED
  BY <1>1, <1>2, <1>3 DEF ListenerNext

\* When the stop() that stopped the worker has returned nothing of it runs, or ever
\* runs again, for any number of notifications, wakes and further calls of stop().
THEOREM StoppedIsQuiet == ListenerSpec => []QuietAfterStop
<1>1. ListenerInit => ListenerInv
  BY ListenerStart
<1>2. ListenerInv /\ [ListenerNext]_listenerVars => ListenerInv'
  BY ListenerStep
<1>3. ListenerInv => QuietAfterStop
  BY DEF ListenerInv, LeftBehind, OnePass, QuietAfterStop, Quiet
<1> QED
  BY <1>1, <1>2, <1>3, PTL DEF ListenerSpec

-----------------------------------------------------------------------------
(***************************************************************************)
(* The per-IP limit on new attempts.                                       *)
(***************************************************************************)
PastHour(ip) == {q \in requests : q.ip = ip /\ q.step # "hour"}

PastDay(ip) == {q \in requests : q.ip = ip /\ q.step \in {"mint", "commit"}}

\* The rows of a window and the requests that may still add one to it.
RoomIsLeft(ip) ==
    /\ Stamped(ip, Hour) + Cardinality(PastHour(ip)) < LimitPerHour + Cardinality(Slots)
    /\ Stamped(ip, Day) + Cardinality(PastDay(ip)) < LimitPerDay + Cardinality(Slots)

LimitInv == LimitTypeOK /\ \A ip \in Ips : RoomIsLeft(ip)

\* A set of naturals that is not empty has a least element.
LEMMA LeastNumber ==
    ASSUME NEW S \in SUBSET Nat, S # {}
    PROVE  \E m \in S : \A k \in S : m <= k
<1>1. PICK m \in S : \A k \in S : <<k, m>> \notin OpToRel(<, Nat)
  BY WFMin, NatLessThanWellFounded
<1>2. ASSUME NEW k \in S PROVE m <= k
  <2>1. <<k, m>> \in Nat \X Nat
    OBVIOUS
  <2>2. ~ (k < m)
    BY <1>1, <2>1 DEF OpToRel
  <2> QED
    BY <2>2
<1> QED
  BY <1>2

\* Induction, stated of a set in place of a predicate.
LEMMA Induction ==
    ASSUME NEW S, 0 \in S, \A n \in Nat : n \in S => n + 1 \in S
    PROVE  Nat \subseteq S
<1> SUFFICES ASSUME Nat \ S # {} PROVE FALSE
  OBVIOUS
<1>1. PICK m \in Nat \ S : \A k \in Nat \ S : m <= k
  BY LeastNumber
<1>2. m # 0 /\ m - 1 \in Nat /\ m - 1 \notin Nat \ S
  BY <1>1
<1> QED
  BY <1>1, <1>2

LEMMA LimitNumbers ==
    ASSUME MintLimitAssumption
    PROVE  /\ Hour \in Nat /\ Day \in Nat /\ LimitPerHour \in Nat /\ LimitPerDay \in Nat
           /\ MaxWait \in Nat /\ Hour < Day /\ LimitPerHour > 0 /\ LimitPerDay > 0
           /\ OldestCounted = Day + MaxWait /\ OldestCounted \in Nat
           /\ Ages = 0..OldestCounted
           /\ IsFiniteSet(Slots) /\ Cardinality(Slots) \in Nat /\ Unattributed \notin Ips
  BY FS_CardinalityType DEF MintLimitAssumption, OldestCounted, Ages

\* `f` counts the rows of the ages up to `n`.
IsSum(f, counts, n) == \A a \in 0..n : f[a] = counts[a] + (IF a = 0 THEN 0 ELSE f[a - 1])

LEMMA SumExists ==
    ASSUME NEW N \in Nat, NEW counts \in [0..N -> Nat]
    PROVE  \E f \in [0..N -> Nat] : IsSum(f, counts, N)
<1> DEFINE S == {n \in Nat : n <= N => \E f \in [0..n -> Nat] : IsSum(f, counts, n)}
<1>1. 0 \in S
  <2>1. [a \in 0..0 |-> counts[a]] \in [0..0 -> Nat]
    OBVIOUS
  <2>2. IsSum([a \in 0..0 |-> counts[a]], counts, 0)
    BY DEF IsSum
  <2> QED
    BY <2>1, <2>2
<1>2. ASSUME NEW n \in Nat, n \in S
      PROVE  n + 1 \in S
  <2> SUFFICES ASSUME n + 1 <= N
               PROVE  \E f \in [0..(n + 1) -> Nat] : IsSum(f, counts, n + 1)
    OBVIOUS
  <2>a. n <= N => \E f \in [0..n -> Nat] : IsSum(f, counts, n)
    BY <1>2
  <2>b. n <= N
    OBVIOUS
  <2>1. PICK f \in [0..n -> Nat] : IsSum(f, counts, n)
    BY <2>a, <2>b
  <2> DEFINE g == [a \in 0..(n + 1) |-> IF a = n + 1 THEN counts[a] + f[n] ELSE f[a]]
  <2>2. g \in [0..(n + 1) -> Nat]
    OBVIOUS
  <2>3. ASSUME NEW a \in 0..(n + 1)
        PROVE  g[a] = counts[a] + (IF a = 0 THEN 0 ELSE g[a - 1])
    <3>1. CASE a = n + 1
      BY <3>1
    <3>2. CASE a # n + 1
      <4>1. a \in 0..n
        BY <3>2
      <4>2. f[a] = counts[a] + (IF a = 0 THEN 0 ELSE f[a - 1])
        BY <2>1, <4>1 DEF IsSum
      <4>3. a # 0 => a - 1 \in 0..n
        BY <4>1
      <4> QED
        BY <4>1, <4>2, <4>3
    <3> QED
      BY <3>1, <3>2
  <2>4. IsSum(g, counts, n + 1)
    BY <2>3 DEF IsSum
  <2> QED
    BY <2>2, <2>4
<1>3. N \in S
  BY <1>1, <1>2, Induction
<1> QED
  BY <1>3

\* What UpTo defines exists, and counts.
LEMMA UpToIsSum ==
    ASSUME MintLimitAssumption, NEW counts \in [Ages -> Nat]
    PROVE  /\ UpTo(counts) \in [Ages -> Nat]
           /\ IsSum(UpTo(counts), counts, OldestCounted)
<1> DEFINE N == OldestCounted
           u == UpTo(counts)
<1>1. N \in Nat /\ Ages = 0..N
  BY LimitNumbers
<1>2. PICK f \in [0..N -> Nat] : IsSum(f, counts, N)
  BY <1>1, SumExists
<1>3. f = [age \in 0..N |-> counts[age] + (IF age = 0 THEN 0 ELSE f[age - 1])]
  BY <1>2 DEF IsSum
<1>4. u = [age \in 0..N |-> counts[age] + (IF age = 0 THEN 0 ELSE u[age - 1])]
  BY <1>1, <1>3 DEF UpTo
<1> HIDE DEF u, N
<1>5. DOMAIN u = 0..N /\ IsSum(u, counts, N)
  <2>1. \A age \in 0..N : u[age] = counts[age] + (IF age = 0 THEN 0 ELSE u[age - 1])
    BY <1>4
  <2> QED
    BY <1>4, <2>1 DEF IsSum
<1> DEFINE T == {n \in Nat : n <= N => u[n] \in Nat}
<1>6. 0 \in T
  <2>1. u[0] = counts[0]
    BY <1>1, <1>5 DEF IsSum
  <2> QED
    BY <1>1, <2>1
<1>7. ASSUME NEW n \in Nat, n \in T
      PROVE  n + 1 \in T
  <2> SUFFICES ASSUME n + 1 <= N PROVE u[n + 1] \in Nat
    OBVIOUS
  <2>1. u[n + 1] = counts[n + 1] + u[n]
    BY <1>1, <1>5 DEF IsSum
  <2>2. u[n] \in Nat /\ counts[n + 1] \in Nat
    BY <1>1, <1>7
  <2> QED
    BY <2>1, <2>2
<1>8. Nat \subseteq T
  BY <1>6, <1>7, Induction
<1>9. \A n \in 0..N : u[n] \in Nat
  BY <1>1, <1>8
<1> QED
  BY <1>1, <1>4, <1>5, <1>9 DEF u, N

\* The longer window counts no fewer rows.
LEMMA SumGrows ==
    ASSUME NEW N \in Nat, NEW counts \in [0..N -> Nat], NEW f \in [0..N -> Nat], IsSum(f, counts, N),
           NEW m \in 0..N, NEW n \in 0..N, m <= n
    PROVE  f[m] <= f[n]
<1> DEFINE S == {d \in Nat : m + d <= N => f[m] <= f[m + d]}
<1>1. 0 \in S
  OBVIOUS
<1>2. ASSUME NEW d \in Nat, d \in S
      PROVE  d + 1 \in S
  <2> SUFFICES ASSUME m + (d + 1) <= N PROVE f[m] <= f[m + (d + 1)]
    OBVIOUS
  <2>1. f[m + (d + 1)] = counts[m + (d + 1)] + f[m + d]
    BY DEF IsSum
  <2>2. f[m] <= f[m + d] /\ f[m + d] \in Nat /\ counts[m + (d + 1)] \in Nat /\ f[m] \in Nat
    BY <1>2
  <2> QED
    BY <2>1, <2>2
<1>3. Nat \subseteq S
  BY <1>1, <1>2, Induction
<1>4. \A d \in Nat : m + d <= N => f[m] <= f[m + d]
  BY <1>3
<1>5. PICK d \in Nat : m + d = n
  <2>1. n - m \in Nat /\ m + (n - m) = n
    OBVIOUS
  <2> QED
    BY <2>1
<1>6. f[m] <= f[m + d]
  BY <1>4, <1>5
<1> QED
  BY <1>5, <1>6

\* A tick later a window counts what one a tick shorter counted.
LEMMA SumAges ==
    ASSUME NEW N \in Nat, NEW counts \in [0..N -> Nat], NEW f \in [0..N -> Nat], IsSum(f, counts, N),
           NEW g \in [0..N -> Nat], IsSum(g, [age \in 0..N |-> IF age = 0 THEN 0 ELSE counts[age - 1]], N),
           NEW n \in 0..N
    PROVE  g[n] <= f[n]
<1> DEFINE aged == [age \in 0..N |-> IF age = 0 THEN 0 ELSE counts[age - 1]]
           S == {k \in Nat : k <= N => g[k] = IF k = 0 THEN 0 ELSE f[k - 1]}
<1>a. \A k \in 0..N : aged[k] = IF k = 0 THEN 0 ELSE counts[k - 1]
  OBVIOUS
<1>b. \A k \in 0..N : /\ f[k] = counts[k] + (IF k = 0 THEN 0 ELSE f[k - 1])
                      /\ g[k] = aged[k] + (IF k = 0 THEN 0 ELSE g[k - 1])
  BY DEF IsSum
<1> HIDE DEF aged
<1>1. 0 \in S
  <2>1. 0 \in 0..N
    OBVIOUS
  <2>2. g[0] = 0
    BY <1>a, <1>b, <2>1
  <2> QED
    BY <2>2
<1>2. ASSUME NEW k \in Nat, k \in S
      PROVE  k + 1 \in S
  <2> SUFFICES ASSUME k + 1 <= N PROVE g[k + 1] = f[(k + 1) - 1]
    OBVIOUS
  <2>0. k \in 0..N /\ k + 1 \in 0..N /\ k + 1 # 0 /\ (k + 1) - 1 = k
    OBVIOUS
  <2>1. g[k + 1] = counts[k] + g[k]
    BY <1>a, <1>b, <2>0
  <2>2. f[k] = counts[k] + (IF k = 0 THEN 0 ELSE f[k - 1])
    BY <1>b, <2>0
  <2>3. g[k] = IF k = 0 THEN 0 ELSE f[k - 1]
    BY <1>2, <2>0
  <2> QED
    BY <2>0, <2>1, <2>2, <2>3
<1>3. Nat \subseteq S
  <2> HIDE DEF S
  <2> QED
    BY <1>1, <1>2, Induction
<1>4. g[n] = IF n = 0 THEN 0 ELSE f[n - 1]
  <2>1. n \in Nat /\ n <= N
    OBVIOUS
  <2> QED
    BY <1>3, <2>1
<1>5. CASE n = 0
  BY <1>4, <1>5
<1>6. CASE n # 0
  <2>1. n - 1 \in 0..N /\ n - 1 <= n
    BY <1>6
  <2>2. f[n - 1] <= f[n]
    BY <2>1, SumGrows
  <2> QED
    BY <1>4, <1>6, <2>2
<1> QED
  BY <1>5, <1>6

\* One more at age `at` is counted once, from that age on.
FromThen(at, k) == IF k < at THEN 0 ELSE 1

\* One counts more adds at most one to any window.
LEMMA SumAdds ==
    ASSUME NEW N \in Nat, NEW counts \in [0..N -> Nat], NEW f \in [0..N -> Nat], IsSum(f, counts, N),
           NEW at \in 0..N, NEW g \in [0..N -> Nat], IsSum(g, [counts EXCEPT ![at] = @ + 1], N),
           NEW n \in 0..N
    PROVE  g[n] <= f[n] + 1
<1>0. PICK more : more = [counts EXCEPT ![at] = @ + 1]
  OBVIOUS
<1>a. IsSum(g, more, N)
  BY <1>0
<1>b. \A k \in 0..N : more[k] = IF k = at THEN counts[k] + 1 ELSE counts[k]
  BY <1>0
<1> DEFINE S == {k \in Nat : k <= N => g[k] = f[k] + FromThen(at, k)}
<1>1. 0 \in S
  <2>1. 0 \in 0..N /\ at \in Nat
    OBVIOUS
  <2>2. f[0] = counts[0] + 0 /\ g[0] = more[0] + 0
    BY <1>a, <2>1 DEF IsSum
  <2>3. counts[0] \in Nat /\ more[0] = IF 0 = at THEN counts[0] + 1 ELSE counts[0]
    BY <1>b, <2>1
  <2>4. ASSUME NEW c \in Nat
        PROVE  (IF 0 = at THEN c + 1 ELSE c) + 0 = (c + 0) + (IF 0 < at THEN 0 ELSE 1)
    <3>1. CASE at = 0
      BY <3>1
    <3>2. CASE at # 0
      <4>1. 0 < at
        BY <2>1, <3>2
      <4> QED
        BY <3>2, <4>1
    <3> QED
      BY <3>1, <3>2
  <2>5. g[0] = f[0] + FromThen(at, 0)
    BY <2>2, <2>3, <2>4 DEF FromThen
  <2> QED
    BY <2>5
<1>2. ASSUME NEW k \in Nat, k \in S
      PROVE  k + 1 \in S
  <2> SUFFICES ASSUME k + 1 <= N PROVE g[k + 1] = f[k + 1] + FromThen(at, k + 1)
    OBVIOUS
  <2>1. k \in 0..N /\ k + 1 \in 0..N /\ k + 1 # 0 /\ (k + 1) - 1 = k /\ at \in Nat
    OBVIOUS
  <2>2. g[k] = f[k] + (IF k < at THEN 0 ELSE 1)
    BY <1>2, <2>1 DEF FromThen
  <2>3. g[k + 1] = more[k + 1] + g[k] /\ f[k + 1] = counts[k + 1] + f[k]
    BY <1>a, <2>1 DEF IsSum
  <2>4. more[k + 1] = IF k + 1 = at THEN counts[k + 1] + 1 ELSE counts[k + 1]
    BY <1>b, <2>1
  <2>5. counts[k + 1] \in Nat /\ f[k] \in Nat
    BY <2>1
  <2> DEFINE c == counts[k + 1]
             x == f[k]
  <2>6. c \in Nat /\ x \in Nat
    BY <2>5
  <2>7. g[k + 1] = (IF k + 1 = at THEN c + 1 ELSE c) + (x + (IF k < at THEN 0 ELSE 1))
        /\ f[k + 1] = c + x
    BY <2>2, <2>3, <2>4
  <2> HIDE DEF c, x
  <2>8. (IF k + 1 = at THEN c + 1 ELSE c) + (x + (IF k < at THEN 0 ELSE 1))
           = (c + x) + (IF k + 1 < at THEN 0 ELSE 1)
    <3>1. CASE k + 1 = at
      BY <2>6, <3>1
    <3>2. CASE k + 1 < at
      BY <2>6, <3>2
    <3>3. CASE k >= at
      BY <2>6, <3>3
    <3> QED
      BY <2>1, <3>1, <3>2, <3>3
  <2> QED
    BY <2>7, <2>8 DEF FromThen
<1>3. Nat \subseteq S
  <2> HIDE DEF S
  <2> QED
    BY <1>1, <1>2, Induction
<1>4. n \in Nat /\ n <= N
  OBVIOUS
<1>5. g[n] = f[n] + FromThen(at, n)
  BY <1>3, <1>4
<1>6. ASSUME NEW x \in Nat PROVE x + FromThen(at, n) <= x + 1
  BY DEF FromThen
<1>7. f[n] \in Nat
  OBVIOUS
<1> QED
  BY <1>5, <1>6, <1>7


RequestType == [slot : Slots, ip : Ips \cup {Unattributed}, since : 0..MaxWait,
                step : {"hour", "day", "mint", "commit"}]

OnePerSlot(R) == \A q, r \in R : q.slot = r.slot => q = r

\* No more requests are handled than there are slots.
LEMMA RequestsFitSlots ==
    ASSUME MintLimitAssumption, NEW R \in SUBSET RequestType, OnePerSlot(R)
    PROVE  IsFiniteSet(R) /\ Cardinality(R) \in Nat /\ Cardinality(R) <= Cardinality(Slots)
<1> DEFINE f == [q \in R |-> q.slot]
<1>1. f \in Injection(R, Slots)
  BY DEF Injection, OnePerSlot, RequestType, IsInjective
<1> QED
  BY <1>1, FS_Injection, FS_CardinalityType, LimitNumbers

\* Exchanging a member does not make a finite set larger.
LEMMA ExchangeKeepsSize ==
    ASSUME NEW S, IsFiniteSet(S), NEW x \in S, NEW y, NEW T, T \subseteq (S \ {x}) \cup {y}
    PROVE  Cardinality(T) \in Nat /\ Cardinality(S) \in Nat /\ Cardinality(T) <= Cardinality(S)
<1>1. IsFiniteSet(S \ {x}) /\ Cardinality(S \ {x}) = Cardinality(S) - 1
  BY FS_RemoveElement
<1>2. /\ IsFiniteSet((S \ {x}) \cup {y})
      /\ Cardinality((S \ {x}) \cup {y}) \in {Cardinality(S \ {x}), Cardinality(S \ {x}) + 1}
  BY <1>1, FS_AddElement
<1>3. Cardinality(T) <= Cardinality((S \ {x}) \cup {y}) /\ IsFiniteSet(T)
  BY <1>2, FS_Subset
<1> QED
  BY <1>1, <1>2, <1>3, FS_CardinalityType

LEMMA LimitTypes ==
    ASSUME MintLimitAssumption
    PROVE  LimitTypeOK <=> /\ rows \in [Ips -> [Ages -> Nat]]
                            /\ requests \in SUBSET RequestType
                            /\ OnePerSlot(requests)
  BY DEF LimitTypeOK, RequestType, OnePerSlot


LEMMA WindowsAreAges ==
    ASSUME MintLimitAssumption
    PROVE  /\ Hour \in 0..OldestCounted /\ Day \in 0..OldestCounted
           /\ Ages = 0..OldestCounted
           /\ \A since \in 0..MaxWait : /\ Hour + since \in 0..OldestCounted
                                        /\ Day + since \in 0..OldestCounted
                                        /\ since \in Ages
  BY LimitNumbers

\* A window never counts fewer rows than a shorter one.
LEMMA WindowsGrow ==
    ASSUME MintLimitAssumption, NEW counts \in [Ages -> Nat],
           NEW m \in 0..OldestCounted, NEW n \in 0..OldestCounted, m <= n
    PROVE  /\ UpTo(counts)[m] \in Nat /\ UpTo(counts)[n] \in Nat
           /\ UpTo(counts)[m] <= UpTo(counts)[n]
<1>1. /\ UpTo(counts) \in [0..OldestCounted -> Nat]
      /\ IsSum(UpTo(counts), counts, OldestCounted)
      /\ counts \in [0..OldestCounted -> Nat]
      /\ OldestCounted \in Nat
  BY UpToIsSum, LimitNumbers
<1>2. UpTo(counts)[m] <= UpTo(counts)[n]
  BY <1>1, SumGrows
<1> QED
  BY <1>1, <1>2

LEMMA SizesFitSlots ==
    ASSUME MintLimitAssumption, NEW R \in SUBSET RequestType, OnePerSlot(R), NEW T \in SUBSET R
    PROVE  IsFiniteSet(T) /\ Cardinality(T) \in Nat /\ Cardinality(T) <= Cardinality(Slots)
<1>1. T \in SUBSET RequestType /\ OnePerSlot(T)
  BY DEF OnePerSlot
<1> QED
  BY <1>1, RequestsFitSlots

\* The numbers that are compared are naturals, before a step and after it.
LEMMA CountsAreNat ==
    ASSUME MintLimitAssumption, LimitTypeOK, NEW ip \in Ips
    PROVE  /\ Stamped(ip, Hour) \in Nat /\ Stamped(ip, Day) \in Nat
           /\ IsFiniteSet(PastHour(ip)) /\ IsFiniteSet(PastDay(ip))
           /\ Cardinality(PastHour(ip)) \in 0..Cardinality(Slots)
           /\ Cardinality(PastDay(ip)) \in 0..Cardinality(Slots)
           /\ Cardinality(Slots) \in Nat /\ LimitPerHour \in Nat /\ LimitPerDay \in Nat
<1>1. PastHour(ip) \in SUBSET requests /\ PastDay(ip) \in SUBSET requests
  BY DEF PastHour, PastDay
<1>2. rows[ip] \in [Ages -> Nat]
  BY LimitTypes
<1>3. UpTo(rows[ip])[Hour] \in Nat /\ UpTo(rows[ip])[Day] \in Nat
  BY <1>2, UpToIsSum, WindowsAreAges
<1> QED
  BY <1>1, <1>3, SizesFitSlots, LimitTypes, LimitNumbers DEF Stamped

LEMMA CountsStayNat ==
    ASSUME MintLimitAssumption, LimitTypeOK', NEW ip \in Ips
    PROVE  /\ Stamped(ip, Hour)' \in Nat /\ Stamped(ip, Day)' \in Nat
           /\ Cardinality(PastHour(ip)') \in 0..Cardinality(Slots)
           /\ Cardinality(PastDay(ip)') \in 0..Cardinality(Slots)
<1>1. PastHour(ip)' \in SUBSET requests' /\ PastDay(ip)' \in SUBSET requests'
  BY DEF PastHour, PastDay
<1>2. /\ rows'[ip] \in [Ages -> Nat]
      /\ requests' \in SUBSET RequestType /\ OnePerSlot(requests')
  BY DEF LimitTypeOK, RequestType, OnePerSlot
<1>3. UpTo(rows'[ip])[Hour] \in Nat /\ UpTo(rows'[ip])[Day] \in Nat
  BY <1>2, UpToIsSum, WindowsAreAges
<1> QED
  BY <1>1, <1>2, <1>3, SizesFitSlots, LimitNumbers DEF Stamped

\* A step that adds no counts to an address and lets none of its requests pass a
\* count leaves its room.
LEMMA RoomStays ==
    ASSUME MintLimitAssumption, LimitInv, LimitTypeOK', NEW ip \in Ips,
           Stamped(ip, Hour)' <= Stamped(ip, Hour),
           Stamped(ip, Day)' <= Stamped(ip, Day),
           Cardinality(PastHour(ip)') <= Cardinality(PastHour(ip)),
           Cardinality(PastDay(ip)') <= Cardinality(PastDay(ip))
    PROVE  RoomIsLeft(ip)'
<1>1. /\ Stamped(ip, Hour) \in Nat /\ Stamped(ip, Day) \in Nat
      /\ Cardinality(PastHour(ip)) \in Nat /\ Cardinality(PastDay(ip)) \in Nat
      /\ Cardinality(Slots) \in Nat /\ LimitPerHour \in Nat /\ LimitPerDay \in Nat
  BY CountsAreNat DEF LimitInv
<1>2. /\ Stamped(ip, Hour)' \in Nat /\ Stamped(ip, Day)' \in Nat
      /\ Cardinality(PastHour(ip)') \in Nat /\ Cardinality(PastDay(ip)') \in Nat
  BY <1>1, CountsStayNat
<1>3. RoomIsLeft(ip)
  BY DEF LimitInv
<1>4. Stamped(ip, Hour)' + Cardinality(PastHour(ip)') < LimitPerHour + Cardinality(Slots)
  BY <1>1, <1>2, <1>3 DEF RoomIsLeft
<1>5. Stamped(ip, Day)' + Cardinality(PastDay(ip)') < LimitPerDay + Cardinality(Slots)
  BY <1>1, <1>2, <1>3 DEF RoomIsLeft
<1> QED
  BY <1>4, <1>5 DEF RoomIsLeft

\* A request that leaves, or goes on in another wait, takes no room from other
\* addresses.
LEMMA OthersKeepRoom ==
    ASSUME MintLimitAssumption, LimitInv, LimitTypeOK', NEW ip \in Ips,
           rows'[ip] = rows[ip], PastHour(ip)' \subseteq PastHour(ip),
           PastDay(ip)' \subseteq PastDay(ip)
    PROVE  RoomIsLeft(ip)'
<1>1. IsFiniteSet(PastHour(ip)) /\ IsFiniteSet(PastDay(ip))
  BY CountsAreNat DEF LimitInv
<1>2. /\ Cardinality(PastHour(ip)') <= Cardinality(PastHour(ip))
      /\ Cardinality(PastDay(ip)') <= Cardinality(PastDay(ip))
  BY <1>1, FS_Subset
<1>3. /\ Stamped(ip, Hour)' = Stamped(ip, Hour)
      /\ Stamped(ip, Day)' = Stamped(ip, Day)
      /\ Stamped(ip, Hour) \in Nat /\ Stamped(ip, Day) \in Nat
  BY CountsAreNat DEF Stamped, LimitInv
<1> QED
  BY <1>2, <1>3, RoomStays

LEMMA CreateKeepsRoom ==
    ASSUME MintLimitAssumption, LimitInv, NEW slot \in Slots,
           NEW ip \in Ips \cup {Unattributed}, create(slot, ip)
    PROVE  LimitInv'
<1> DEFINE new == [slot |-> slot, ip |-> ip, since |-> 0,
                   step |-> IF ip = Unattributed THEN "mint" ELSE "hour"]
<1>1. requests' = requests \cup {new} /\ rows' = rows /\ Free(slot)
  BY DEF create
<1>2. new \in RequestType
  BY LimitNumbers DEF RequestType
<1>3. /\ rows \in [Ips -> [Ages -> Nat]] /\ requests \in SUBSET RequestType
      /\ OnePerSlot(requests)
  BY LimitTypes DEF LimitInv
<1>4. OnePerSlot(requests')
  BY <1>1, <1>3 DEF OnePerSlot, Free
<1>5. LimitTypeOK'
  BY <1>1, <1>2, <1>3, <1>4 DEF LimitTypeOK, RequestType, OnePerSlot
<1>6. ASSUME NEW other \in Ips
      PROVE  RoomIsLeft(other)'
  <2>1. new.ip = other => new.step = "hour"
    BY LimitNumbers
  <2>2. PastHour(other)' \subseteq PastHour(other) /\ PastDay(other)' \subseteq PastDay(other)
    BY <1>1, <2>1 DEF PastHour, PastDay
  <2> QED
    BY <1>1, <1>5, <2>2, OthersKeepRoom
<1> QED
  BY <1>5, <1>6 DEF LimitInv

\* What is left of the requests when one goes, or goes on.
LEMMA LeavesTyped ==
    ASSUME MintLimitAssumption, LimitInv, NEW q \in requests,
           rows' \in [Ips -> [Ages -> Nat]],
           \/ Left(q)
           \/ \E next \in RequestType : next.slot = q.slot /\ Continues(q, next)
    PROVE  LimitTypeOK'
<1>1. requests \in SUBSET RequestType /\ OnePerSlot(requests)
  BY LimitTypes DEF LimitInv
<1>2. requests' \in SUBSET RequestType /\ OnePerSlot(requests')
  BY <1>1 DEF Left, Continues, OnePerSlot
<1> QED
  BY <1>2 DEF LimitTypeOK, RequestType, OnePerSlot

LEMMA LeavingKeepsRoom ==
    ASSUME MintLimitAssumption, LimitInv, NEW q \in requests, Left(q), rows' = rows
    PROVE  LimitInv'
<1>1. LimitTypeOK'
  BY LeavesTyped, LimitTypes DEF LimitInv
<1>2. ASSUME NEW ip \in Ips
      PROVE  RoomIsLeft(ip)'
  <2>1. PastHour(ip)' \subseteq PastHour(ip) /\ PastDay(ip)' \subseteq PastDay(ip)
    BY DEF PastHour, PastDay, Left
  <2> QED
    BY <1>1, <2>1, OthersKeepRoom
<1> QED
  BY <1>1, <1>2 DEF LimitInv

LEMMA CountHourKeepsRoom ==
    ASSUME MintLimitAssumption, LimitInv, NEW q \in requests, CountHour(q)
    PROVE  LimitInv'
<1> DEFINE next == [q EXCEPT !.step = "day"]
<1>0. /\ rows \in [Ips -> [Ages -> Nat]] /\ requests \in SUBSET RequestType
      /\ rows' = rows /\ q \in RequestType /\ q.step = "hour"
  BY LimitTypes DEF LimitInv, CountHour
<1>1. CASE HourIsFull(q)
  BY <1>0, <1>1, LeavingKeepsRoom DEF CountHour
<1>2. CASE ~HourIsFull(q)
  <2>1. Continues(q, next)
    BY <1>2 DEF CountHour
  <2>2. next \in RequestType /\ next.slot = q.slot /\ next.ip = q.ip /\ next.step = "day"
    BY <1>0 DEF RequestType
  <2>3. LimitTypeOK'
    BY <1>0, <2>1, <2>2, LeavesTyped
  <2>4. ASSUME NEW ip \in Ips, ip # q.ip
        PROVE  RoomIsLeft(ip)'
    <3>1. PastHour(ip)' \subseteq PastHour(ip) /\ PastDay(ip)' \subseteq PastDay(ip)
      BY <2>1, <2>2, <2>4 DEF PastHour, PastDay, Continues
    <3> QED
      BY <1>0, <2>3, <3>1, OthersKeepRoom
  <2>5. ASSUME NEW ip \in Ips, ip = q.ip
        PROVE  RoomIsLeft(ip)'
    <3>1. Stamped(ip, Hour) < LimitPerHour
      <4>1. q.since \in 0..MaxWait /\ rows[ip] \in [Ages -> Nat]
        BY <1>0 DEF RequestType
      <4>2. /\ Hour \in 0..OldestCounted /\ Hour + q.since \in 0..OldestCounted
            /\ Hour <= Hour + q.since
        BY <4>1, WindowsAreAges, LimitNumbers
      <4>3. /\ UpTo(rows[ip])[Hour] <= UpTo(rows[ip])[Hour + q.since]
            /\ UpTo(rows[ip])[Hour] \in Nat /\ UpTo(rows[ip])[Hour + q.since] \in Nat
        BY <4>1, <4>2, WindowsGrow
      <4>4. ~ (UpTo(rows[ip])[Hour + q.since] >= LimitPerHour)
        BY <1>2, <2>5 DEF HourIsFull, countAttemptsFromIp
      <4> QED
        BY <4>3, <4>4, LimitNumbers DEF Stamped
    <3>2. Stamped(ip, Hour)' + Cardinality(PastHour(ip)') < LimitPerHour + Cardinality(Slots)
      <4>1. Stamped(ip, Hour)' = Stamped(ip, Hour)
        BY <1>0 DEF Stamped
      <4>2. Cardinality(PastHour(ip)') \in 0..Cardinality(Slots)
        BY <2>3, CountsStayNat
      <4> QED
        BY <3>1, <4>1, <4>2, CountsAreNat DEF LimitInv
    <3>3. Stamped(ip, Day)' + Cardinality(PastDay(ip)') < LimitPerDay + Cardinality(Slots)
      <4>1. PastDay(ip)' \subseteq PastDay(ip)
        BY <2>1, <2>2 DEF PastDay, Continues
      <4>2. Cardinality(PastDay(ip)') <= Cardinality(PastDay(ip))
        BY <4>1, FS_Subset, CountsAreNat DEF LimitInv
      <4>3. Stamped(ip, Day)' = Stamped(ip, Day)
        BY <1>0 DEF Stamped
      <4>4. /\ Cardinality(PastDay(ip)') \in Nat /\ Cardinality(PastDay(ip)) \in Nat
            /\ Stamped(ip, Day) \in Nat /\ LimitPerDay \in Nat /\ Cardinality(Slots) \in Nat
        BY <2>3, CountsStayNat, CountsAreNat DEF LimitInv
      <4>5. Stamped(ip, Day) + Cardinality(PastDay(ip)) < LimitPerDay + Cardinality(Slots)
        BY DEF LimitInv, RoomIsLeft
      <4> QED
        BY <4>2, <4>3, <4>4, <4>5
    <3> QED
      BY <3>2, <3>3 DEF RoomIsLeft
  <2> QED
    BY <2>3, <2>4, <2>5 DEF LimitInv
<1> QED
  BY <1>1, <1>2

\* A request that goes on past the hour's count is one request as before.
LEMMA ContinuingKeepsHour ==
    ASSUME MintLimitAssumption, LimitInv, NEW q \in requests, NEW next,
           Continues(q, next), q.step # "hour", next.ip = q.ip, NEW ip \in Ips
    PROVE  Cardinality(PastHour(ip)') <= Cardinality(PastHour(ip))
<1>1. IsFiniteSet(PastHour(ip))
  BY CountsAreNat DEF LimitInv
<1>2. CASE q.ip = ip
  <2>1. q \in PastHour(ip) /\ PastHour(ip)' \subseteq (PastHour(ip) \ {q}) \cup {next}
    BY <1>2 DEF PastHour, Continues
  <2> QED
    BY <1>1, <2>1, ExchangeKeepsSize
<1>3. CASE q.ip # ip
  <2>1. PastHour(ip)' \subseteq PastHour(ip)
    BY <1>3 DEF PastHour, Continues
  <2> QED
    BY <1>1, <2>1, FS_Subset
<1> QED
  BY <1>2, <1>3

LEMMA CountDayKeepsRoom ==
    ASSUME MintLimitAssumption, LimitInv, NEW q \in requests, CountDay(q)
    PROVE  LimitInv'
<1> DEFINE next == [q EXCEPT !.step = "mint", !.since = 0]
<1>0. /\ rows \in [Ips -> [Ages -> Nat]] /\ requests \in SUBSET RequestType
      /\ rows' = rows /\ q \in RequestType /\ q.step = "day"
  BY LimitTypes DEF LimitInv, CountDay
<1>1. CASE DayIsFull(q)
  BY <1>0, <1>1, LeavingKeepsRoom DEF CountDay
<1>2. CASE ~DayIsFull(q)
  <2>1. Continues(q, next)
    BY <1>2 DEF CountDay
  <2>2. next \in RequestType /\ next.slot = q.slot /\ next.ip = q.ip /\ next.step = "mint"
    <3>1. 0 \in 0..MaxWait
      BY LimitNumbers
    <3> QED
      BY <1>0, <3>1 DEF RequestType
  <2>3. LimitTypeOK'
    BY <1>0, <2>1, <2>2, LeavesTyped
  <2>4. ASSUME NEW ip \in Ips
        PROVE  Stamped(ip, Hour)' + Cardinality(PastHour(ip)') < LimitPerHour + Cardinality(Slots)
    <3>1. Cardinality(PastHour(ip)') <= Cardinality(PastHour(ip))
      BY <1>0, <2>1, <2>2, ContinuingKeepsHour
    <3>2. Stamped(ip, Hour)' = Stamped(ip, Hour)
      BY <1>0 DEF Stamped
    <3>3. /\ Cardinality(PastHour(ip)') \in Nat /\ Cardinality(PastHour(ip)) \in Nat
          /\ Stamped(ip, Hour) \in Nat /\ LimitPerHour \in Nat /\ Cardinality(Slots) \in Nat
      BY <2>3, CountsStayNat, CountsAreNat DEF LimitInv
    <3>4. Stamped(ip, Hour) + Cardinality(PastHour(ip)) < LimitPerHour + Cardinality(Slots)
      BY DEF LimitInv, RoomIsLeft
    <3> QED
      BY <3>1, <3>2, <3>3, <3>4
  <2>5. ASSUME NEW ip \in Ips, ip # q.ip
        PROVE  Stamped(ip, Day)' + Cardinality(PastDay(ip)') < LimitPerDay + Cardinality(Slots)
    <3>1. PastDay(ip)' \subseteq PastDay(ip)
      BY <2>1, <2>2, <2>5 DEF PastDay, Continues
    <3>2. Cardinality(PastDay(ip)') <= Cardinality(PastDay(ip))
      BY <3>1, FS_Subset, CountsAreNat DEF LimitInv
    <3>3. Stamped(ip, Day)' = Stamped(ip, Day)
      BY <1>0 DEF Stamped
    <3>4. /\ Cardinality(PastDay(ip)') \in Nat /\ Cardinality(PastDay(ip)) \in Nat
          /\ Stamped(ip, Day) \in Nat /\ LimitPerDay \in Nat /\ Cardinality(Slots) \in Nat
      BY <2>3, CountsStayNat, CountsAreNat DEF LimitInv
    <3>5. Stamped(ip, Day) + Cardinality(PastDay(ip)) < LimitPerDay + Cardinality(Slots)
      BY DEF LimitInv, RoomIsLeft
    <3> QED
      BY <3>2, <3>3, <3>4, <3>5
  <2>6. ASSUME NEW ip \in Ips, ip = q.ip
        PROVE  Stamped(ip, Day)' + Cardinality(PastDay(ip)') < LimitPerDay + Cardinality(Slots)
    <3>1. q.since \in 0..MaxWait /\ rows[ip] \in [Ages -> Nat]
      BY <1>0 DEF RequestType
    <3>2. /\ Day \in 0..OldestCounted /\ Day + q.since \in 0..OldestCounted
          /\ Day <= Day + q.since
      BY <3>1, WindowsAreAges, LimitNumbers
    <3>3. /\ UpTo(rows[ip])[Day] <= UpTo(rows[ip])[Day + q.since]
          /\ UpTo(rows[ip])[Day] \in Nat /\ UpTo(rows[ip])[Day + q.since] \in Nat
      BY <3>1, <3>2, WindowsGrow
    <3>4. ~ (UpTo(rows[ip])[Day + q.since] >= LimitPerDay)
      BY <1>2, <2>6 DEF DayIsFull, countAttemptsFromIp
    <3>5. Stamped(ip, Day)' < LimitPerDay /\ Stamped(ip, Day)' \in Nat
      BY <1>0, <3>3, <3>4, LimitNumbers DEF Stamped
    <3>6. Cardinality(PastDay(ip)') \in 0..Cardinality(Slots)
      BY <2>3, CountsStayNat
    <3> QED
      BY <3>5, <3>6, LimitNumbers
  <2> QED
    BY <2>3, <2>4, <2>5, <2>6 DEF LimitInv, RoomIsLeft
<1> QED
  BY <1>1, <1>2

LEMMA MintKeepsRoom ==
    ASSUME MintLimitAssumption, LimitInv, NEW q \in requests, Mint(q)
    PROVE  LimitInv'
<1> DEFINE next == [q EXCEPT !.step = "commit", !.since = 0]
<1>0. /\ rows \in [Ips -> [Ages -> Nat]] /\ requests \in SUBSET RequestType
      /\ rows' = rows /\ q \in RequestType /\ q.step = "mint"
  BY LimitTypes DEF LimitInv, Mint
<1>1. CASE Left(q)
  BY <1>0, <1>1, LeavingKeepsRoom
<1>2. CASE Continues(q, next)
  <2>1. next \in RequestType /\ next.slot = q.slot /\ next.ip = q.ip /\ next.step = "commit"
    <3>1. 0 \in 0..MaxWait
      BY LimitNumbers
    <3> QED
      BY <1>0, <3>1 DEF RequestType
  <2>2. LimitTypeOK'
    BY <1>0, <1>2, <2>1, LeavesTyped
  <2>3. ASSUME NEW ip \in Ips
        PROVE  RoomIsLeft(ip)'
    <3>1. Cardinality(PastHour(ip)') <= Cardinality(PastHour(ip))
      BY <1>0, <1>2, <2>1, ContinuingKeepsHour
    <3>2. Cardinality(PastDay(ip)') <= Cardinality(PastDay(ip))
      <4>1. IsFiniteSet(PastDay(ip))
        BY CountsAreNat DEF LimitInv
      <4>2. CASE q.ip = ip
        <5>1. q \in PastDay(ip) /\ PastDay(ip)' \subseteq (PastDay(ip) \ {q}) \cup {next}
          BY <1>0, <1>2, <4>2 DEF PastDay, Continues
        <5> QED
          BY <4>1, <5>1, ExchangeKeepsSize
      <4>3. CASE q.ip # ip
        <5>1. PastDay(ip)' \subseteq PastDay(ip)
          BY <1>2, <2>1, <4>3 DEF PastDay, Continues
        <5> QED
          BY <4>1, <5>1, FS_Subset
      <4> QED
        BY <4>2, <4>3
    <3>3. /\ Stamped(ip, Hour)' = Stamped(ip, Hour)
          /\ Stamped(ip, Day)' = Stamped(ip, Day)
          /\ Stamped(ip, Hour) \in Nat /\ Stamped(ip, Day) \in Nat
      BY <1>0, CountsAreNat DEF Stamped, LimitInv
    <3> QED
      BY <2>2, <3>1, <3>2, <3>3, RoomStays
  <2> QED
    BY <2>2, <2>3 DEF LimitInv
<1> QED
  BY <1>1, <1>2 DEF Mint

\* The counts that a request stores takes the place the request had.
LEMMA CommitKeepsRoom ==
    ASSUME MintLimitAssumption, LimitInv, NEW q \in requests, Commit(q)
    PROVE  LimitInv'
<1>0. /\ rows \in [Ips -> [Ages -> Nat]] /\ requests \in SUBSET RequestType
      /\ q \in RequestType /\ q.step = "commit" /\ Left(q)
  BY LimitTypes DEF LimitInv, Commit
<1>1. CASE UNCHANGED rows
  BY <1>0, <1>1, LeavingKeepsRoom
<1>2. CASE q.ip \in Ips /\ rows' = [rows EXCEPT ![q.ip][q.since] = @ + 1]
  <2>1. q.since \in Ages /\ q.since \in 0..MaxWait
    BY <1>0, WindowsAreAges DEF RequestType
  <2>2. rows' \in [Ips -> [Ages -> Nat]]
    BY <1>0, <1>2, <2>1
  <2>3. LimitTypeOK'
    BY <1>0, <2>2, LeavesTyped
  <2>4. ASSUME NEW ip \in Ips, ip # q.ip
        PROVE  RoomIsLeft(ip)'
    <3>1. PastHour(ip)' \subseteq PastHour(ip) /\ PastDay(ip)' \subseteq PastDay(ip)
      BY <1>0 DEF PastHour, PastDay, Left
    <3>2. rows'[ip] = rows[ip]
      BY <1>0, <1>2, <2>4
    <3> QED
      BY <2>3, <3>1, <3>2, OthersKeepRoom
  <2>5. ASSUME NEW ip \in Ips, ip = q.ip
        PROVE  RoomIsLeft(ip)'
    <3>1. /\ q \in PastHour(ip) /\ PastHour(ip)' = PastHour(ip) \ {q}
          /\ q \in PastDay(ip) /\ PastDay(ip)' = PastDay(ip) \ {q}
      BY <1>0, <2>5 DEF PastHour, PastDay, Left
    <3>2. /\ Cardinality(PastHour(ip)') = Cardinality(PastHour(ip)) - 1
          /\ Cardinality(PastDay(ip)') = Cardinality(PastDay(ip)) - 1
      <4>1. IsFiniteSet(PastHour(ip)) /\ IsFiniteSet(PastDay(ip))
        BY CountsAreNat DEF LimitInv
      <4>2. Cardinality(PastHour(ip)') = Cardinality(PastHour(ip)) - 1
        BY <3>1, <4>1, FS_RemoveElement
      <4>3. Cardinality(PastDay(ip)') = Cardinality(PastDay(ip)) - 1
        BY <3>1, <4>1, FS_RemoveElement
      <4> QED
        BY <4>2, <4>3
    <3>3. /\ Stamped(ip, Hour)' <= Stamped(ip, Hour) + 1
          /\ Stamped(ip, Day)' <= Stamped(ip, Day) + 1
      <4> DEFINE counts == rows[ip]
                 later == [counts EXCEPT ![q.since] = @ + 1]
      <4>1. rows'[ip] = later /\ counts \in [Ages -> Nat] /\ later \in [Ages -> Nat]
        BY <1>0, <1>2, <2>1, <2>5
      <4> HIDE DEF counts
      <4>2. /\ UpTo(counts) \in [0..OldestCounted -> Nat]
            /\ IsSum(UpTo(counts), counts, OldestCounted)
            /\ UpTo(later) \in [0..OldestCounted -> Nat]
            /\ IsSum(UpTo(later), later, OldestCounted)
            /\ counts \in [0..OldestCounted -> Nat]
            /\ OldestCounted \in Nat /\ q.since \in 0..OldestCounted
        BY <2>1, <4>1, UpToIsSum, LimitNumbers
      <4>3. \A n \in 0..OldestCounted : UpTo(later)[n] <= UpTo(counts)[n] + 1
        BY <4>2, SumAdds
      <4> QED
        BY <4>1, <4>3, WindowsAreAges DEF Stamped, counts
    <3>4. /\ Stamped(ip, Hour) \in Nat /\ Stamped(ip, Day) \in Nat
          /\ Cardinality(PastHour(ip)) \in Nat /\ Cardinality(PastDay(ip)) \in Nat
          /\ Cardinality(Slots) \in Nat /\ LimitPerHour \in Nat /\ LimitPerDay \in Nat
          /\ Stamped(ip, Hour)' \in Nat /\ Stamped(ip, Day)' \in Nat
      BY <2>3, CountsAreNat, CountsStayNat DEF LimitInv
    <3>5. RoomIsLeft(ip)
      BY DEF LimitInv
    <3>6. Stamped(ip, Hour)' + Cardinality(PastHour(ip)') < LimitPerHour + Cardinality(Slots)
      BY <3>2, <3>3, <3>4, <3>5 DEF RoomIsLeft
    <3>7. Stamped(ip, Day)' + Cardinality(PastDay(ip)') < LimitPerDay + Cardinality(Slots)
      BY <3>2, <3>3, <3>4, <3>5 DEF RoomIsLeft
    <3> QED
      BY <3>6, <3>7 DEF RoomIsLeft
  <2> QED
    BY <2>3, <2>4, <2>5 DEF LimitInv
<1> QED
  BY <1>1, <1>2 DEF Commit

\* A tick ages the rows, and the requests that hold a time.
LEMMA TickKeepsRoom ==
    ASSUME MintLimitAssumption, LimitInv, LimitTick
    PROVE  LimitInv'
<1> DEFINE older(q) == IF q.step = "mint" THEN q ELSE [q EXCEPT !.since = @ + 1]
<1>0. /\ rows \in [Ips -> [Ages -> Nat]] /\ requests \in SUBSET RequestType
      /\ OnePerSlot(requests)
      /\ requests' = {older(q) : q \in requests}
      /\ rows' = [ip \in Ips |-> Aged(rows[ip])]
  BY LimitTypes DEF LimitInv, LimitTick
<1>1. \A q \in requests : /\ older(q) \in RequestType /\ older(q).slot = q.slot
                          /\ older(q).ip = q.ip /\ older(q).step = q.step
  <2> SUFFICES ASSUME NEW q \in requests
               PROVE  /\ older(q) \in RequestType /\ older(q).slot = q.slot
                      /\ older(q).ip = q.ip /\ older(q).step = q.step
    OBVIOUS
  <2>1. q \in RequestType /\ (q.step # "mint" => q.since < MaxWait) /\ MaxWait \in Nat
    BY <1>0, LimitNumbers DEF LimitTick
  <2> QED
    BY <2>1 DEF RequestType
<1> HIDE DEF older
<1>2. \A ip \in Ips : Aged(rows[ip]) \in [Ages -> Nat]
  <2> SUFFICES ASSUME NEW ip \in Ips, NEW age \in Ages
               PROVE  (IF age = 0 THEN 0 ELSE rows[ip][age - 1]) \in Nat
    BY DEF Aged
  <2>1. age # 0 => age - 1 \in Ages
    BY LimitNumbers
  <2> QED
    BY <1>0, <2>1
<1>3. LimitTypeOK'
  <2>1. requests' \in SUBSET RequestType /\ OnePerSlot(requests')
    BY <1>0, <1>1 DEF OnePerSlot
  <2>2. rows' \in [Ips -> [Ages -> Nat]]
    BY <1>0, <1>2
  <2> QED
    BY <2>1, <2>2 DEF LimitTypeOK, RequestType, OnePerSlot
<1>4. ASSUME NEW ip \in Ips
      PROVE  RoomIsLeft(ip)'
  <2>1. /\ PastHour(ip)' = {older(q) : q \in PastHour(ip)}
        /\ PastDay(ip)' = {older(q) : q \in PastDay(ip)}
    <3>1. PastHour(ip)' = {r \in requests' : r.ip = ip /\ r.step # "hour"}
      BY DEF PastHour
    <3>2. PastDay(ip)' = {r \in requests' : r.ip = ip /\ r.step \in {"mint", "commit"}}
      BY DEF PastDay
    <3>3. PastHour(ip)' = {older(q) : q \in PastHour(ip)}
      BY <1>0, <1>1, <3>1 DEF PastHour
    <3>4. PastDay(ip)' = {older(q) : q \in PastDay(ip)}
      BY <1>0, <1>1, <3>2 DEF PastDay
    <3> QED
      BY <3>3, <3>4
  <2>2. /\ Cardinality(PastHour(ip)') <= Cardinality(PastHour(ip))
        /\ Cardinality(PastDay(ip)') <= Cardinality(PastDay(ip))
    <3>1. \A S : IsFiniteSet(S) => Cardinality({older(q) : q \in S}) <= Cardinality(S)
      <4> SUFFICES ASSUME NEW S, IsFiniteSet(S)
                   PROVE  Cardinality({older(q) : q \in S}) <= Cardinality(S)
        OBVIOUS
      <4> DEFINE f == [q \in S |-> older(q)]
                 T == {older(q) : q \in S}
      <4>1. f \in Surjection(S, T)
        BY DEF Surjection
      <4> QED
        BY <4>1, FS_Surjection
    <3> QED
      BY <2>1, <3>1, CountsAreNat DEF LimitInv
  <2>3. /\ Stamped(ip, Hour)' <= Stamped(ip, Hour)
        /\ Stamped(ip, Day)' <= Stamped(ip, Day)
    <3> DEFINE counts == rows[ip]
               later == [age \in 0..OldestCounted |-> IF age = 0 THEN 0 ELSE counts[age - 1]]
    <3>1. rows'[ip] = later /\ counts \in [Ages -> Nat] /\ later \in [Ages -> Nat]
      BY <1>0, <1>2, LimitNumbers DEF Aged
    <3> HIDE DEF counts
    <3>2. /\ UpTo(counts) \in [0..OldestCounted -> Nat]
          /\ IsSum(UpTo(counts), counts, OldestCounted)
          /\ UpTo(later) \in [0..OldestCounted -> Nat]
          /\ IsSum(UpTo(later), later, OldestCounted)
          /\ counts \in [0..OldestCounted -> Nat]
          /\ OldestCounted \in Nat
      BY <3>1, UpToIsSum, LimitNumbers
    <3>3. \A n \in 0..OldestCounted : UpTo(later)[n] <= UpTo(counts)[n]
      BY <3>2, SumAges
    <3> QED
      BY <3>1, <3>3, WindowsAreAges DEF Stamped, counts
  <2> QED
    BY <1>3, <2>2, <2>3, RoomStays
<1> QED
  BY <1>3, <1>4 DEF LimitInv

LEMMA LimitStart ==
    ASSUME MintLimitAssumption, LimitInit
    PROVE  LimitInv
<1>1. LimitTypeOK
  BY DEF LimitInit, LimitTypeOK
<1>2. ASSUME NEW ip \in Ips
      PROVE  RoomIsLeft(ip)
  <2>1. PastHour(ip) = {} /\ PastDay(ip) = {}
    BY DEF LimitInit, PastHour, PastDay
  <2>2. Cardinality(PastHour(ip)) = 0 /\ Cardinality(PastDay(ip)) = 0
    BY <2>1, FS_EmptySet
  <2>3. Stamped(ip, Hour) = 0 /\ Stamped(ip, Day) = 0
    <3> DEFINE counts == rows[ip]
               u == UpTo(counts)
               S == {n \in Nat : n <= OldestCounted => u[n] = 0}
    <3>1. counts = [age \in Ages |-> 0]
      BY DEF LimitInit
    <3>2. IsSum(u, counts, OldestCounted)
      BY <3>1, UpToIsSum
    <3>3. OldestCounted \in Nat /\ Ages = 0..OldestCounted
      BY LimitNumbers
    <3> HIDE DEF u, counts
    <3>4. 0 \in S
      BY <3>1, <3>2, <3>3 DEF IsSum
    <3>5. ASSUME NEW n \in Nat, n \in S
          PROVE  n + 1 \in S
      <4> SUFFICES ASSUME n + 1 <= OldestCounted PROVE u[n + 1] = 0
        OBVIOUS
      <4>1. u[n + 1] = counts[n + 1] + u[n]
        BY <3>2, <3>3 DEF IsSum
      <4>2. u[n] = 0 /\ counts[n + 1] = 0
        BY <3>1, <3>3, <3>5
      <4> QED
        BY <4>1, <4>2
    <3>6. Nat \subseteq S
      BY <3>4, <3>5, Induction
    <3>7. u[Hour] = 0 /\ u[Day] = 0
      BY <3>6, WindowsAreAges, LimitNumbers
    <3> QED
      BY <3>7 DEF Stamped, u, counts
  <2> QED
    BY <2>2, <2>3, LimitNumbers DEF RoomIsLeft
<1> QED
  BY <1>1, <1>2 DEF LimitInv

LEMMA LimitStep ==
    ASSUME MintLimitAssumption, LimitInv, [LimitNext]_limitVars
    PROVE  LimitInv'
<1>1. ASSUME NEW slot \in Slots, NEW ip \in Ips \cup {Unattributed}, create(slot, ip)
      PROVE  LimitInv'
  BY <1>1, CreateKeepsRoom
<1>2. ASSUME NEW q \in requests,
             CountHour(q) \/ CountDay(q) \/ Mint(q) \/ Commit(q)
      PROVE  LimitInv'
  BY <1>2, CountHourKeepsRoom, CountDayKeepsRoom, MintKeepsRoom, CommitKeepsRoom
<1>3. CASE LimitTick
  BY <1>3, TickKeepsRoom
<1>4. CASE UNCHANGED limitVars
  BY <1>4 DEF LimitInv, limitVars, LimitTypeOK, RoomIsLeft, PastHour, PastDay, Stamped
<1> QED
  BY <1>1, <1>2, <1>3, <1>4 DEF LimitNext

LEMMA LimitKeepsInv ==
    ASSUME MintLimitAssumption
    PROVE  LimitSpec => []LimitInv
<1>1. LimitInit => LimitInv
  BY LimitStart
<1>2. LimitInv /\ [LimitNext]_limitVars => LimitInv'
  BY LimitStep
<1> QED
  BY <1>1, <1>2, PTL DEF LimitSpec

\* The rows of an address, whenever they are stamped and however many requests
\* overlap, exceed a limit at most by the requests handled at once: from one count
\* that let a request through to the next, the rows of the window and the requests
\* that may still store one are together below both (createIpRateLimit).
THEOREM SurplusIsBounded ==
    ASSUME MintLimitAssumption
    PROVE  LimitSpec => []OvershootIsBounded
<1>1. LimitInv => OvershootIsBounded
  <2> SUFFICES ASSUME LimitInv, NEW ip \in Ips
               PROVE  /\ Stamped(ip, Hour) < LimitPerHour + Cardinality(Slots)
                      /\ Stamped(ip, Day) < LimitPerDay + Cardinality(Slots)
    BY DEF OvershootIsBounded
  <2>1. /\ Stamped(ip, Hour) \in Nat /\ Stamped(ip, Day) \in Nat
        /\ Cardinality(PastHour(ip)) \in Nat /\ Cardinality(PastDay(ip)) \in Nat
        /\ Cardinality(Slots) \in Nat /\ LimitPerHour \in Nat /\ LimitPerDay \in Nat
    BY CountsAreNat DEF LimitInv
  <2> QED
    BY <2>1 DEF LimitInv, RoomIsLeft
<1> QED
  BY <1>1, LimitKeepsInv, PTL

\* Ages, counts and waits are of their types, one request per slot.
THEOREM LimitTypesHold ==
    ASSUME MintLimitAssumption
    PROVE  LimitSpec => []LimitTypeOK
<1>1. LimitInv => LimitTypeOK
  BY DEF LimitInv
<1> QED
  BY <1>1, LimitKeepsInv, PTL
================================================================================
