------------------------------- MODULE MCService -------------------------------
(***************************************************************************)
(* What one server process keeps in memory to spare the services it        *)
(* depends on, and its limit on mints: the swap provider's weight budget   *)
(* and transient cache, the choice of a provider, the per-IP limit, and    *)
(* the rate cache.  They share no state, so a behaviour is of one of them, *)
(* `part`, and the others stay as they start.                              *)
(*                                                                         *)
(* The transient cache holds the bulk rates, whose life is shorter than a  *)
(* failure's claim and which are never served stale; CurrencyTable is the  *)
(* same cache of the table, with the longer life, which is.                *)
(***************************************************************************)
EXTENDS SwapBudget, SwapCache, SwapProviders, MintLimit

CONSTANTS Refreshes

VARIABLES
    part,
    cache, inFlight, refreshes, payers   \* RateCache

Rates == INSTANCE RateCache
             WITH Probes <- FALSE, CacheSeconds <- 2, QuoteTtl <- 5, Skew <- 1,
                  FetchLimit <- 1, BodyStalls <- FALSE, StepBack <- 0,
                  callers <- payers

\* Health probes run beside a claim, and the clock is stepped back.
Probed == INSTANCE RateCache
              WITH Callers <- {"first", "second"}, Refreshes <- {"one", "other"},
                   Probes <- TRUE, CacheSeconds <- 2, QuoteTtl <- 4, Skew <- 1,
                   FetchLimit <- 1, BodyStalls <- FALSE, StepBack <- 2,
                   callers <- payers

CurrencyTable == INSTANCE SwapCache
                     WITH RefreshSeconds <- 5, MaxStaleSeconds <- 7, ServeStale <- TRUE

\* Each provider lists an asset the other omits.
MCProviders == <<"primary", "backup">>
MCLists == <<{"usdt", "eth"}, {"usdt", "sol"}>>

ASSUME SwapBudgetAssumption /\ MintLimitAssumption /\ SwapProvidersAssumption
ASSUME SwapCacheAssumption /\ CurrencyTable!SwapCacheAssumption
ASSUME Rates!RateCacheAssumption /\ Probed!RateCacheAssumption

vars == <<part, Rates!vars, budgetVars, limitVars, cacheVars, choiceVars>>

Init ==
    /\ part \in {"rates", "probed", "budget", "limit", "table", "bulk", "choice"}
    /\ IF part = "probed" THEN Probed!Init ELSE Rates!Init
    /\ BudgetInit /\ LimitInit
    /\ IF part = "table" THEN CurrencyTable!CacheInit ELSE CacheInit
    /\ ChoiceInit /\ (part # "choice" => \A i \in DOMAIN failing : failing[i] = {})

Only(p) ==
    /\ part = p /\ UNCHANGED part
    /\ p \notin {"rates", "probed"} => UNCHANGED <<cache, inFlight, refreshes, payers>>
    /\ p # "budget" => UNCHANGED budgetVars
    /\ p # "limit" => UNCHANGED limitVars
    /\ p \notin {"table", "bulk"} => UNCHANGED cacheVars
    /\ p # "choice" => UNCHANGED choiceVars

Next ==
    \/ Only("rates") /\ Rates!Next
    \/ Only("probed") /\ Probed!Next
    \/ Only("budget") /\ BudgetNext
    \/ Only("limit") /\ LimitNext
    \/ Only("table") /\ CurrencyTable!CacheNext
    \/ Only("bulk") /\ CacheNext
    \/ Only("choice") /\ ChoiceNext

Spec == Init /\ [][Next]_vars

-----------------------------------------------------------------------------
\* What prices a checkout was observed within the quote TTL, on every read path,
\* and a failed refresh never takes a quotable observation away (cache.ts:160).
RatesAreQuotable ==
    /\ [](/\ part = "rates" => Rates!ServedIsYoung
          /\ part = "probed" => Probed!ServedIsYoung)
    /\ [][part = "rates" => Rates!KeepsObservation]_vars
================================================================================
