----------------------------- MODULE SwapProviders -----------------------------
(***************************************************************************)
(* Which configured provider serves a payer: the catalog of a listing      *)
(* (resolveSwapProviderCatalog), a quote and a create (selectProvider),    *)
(* each walking the providers in order and waiting for their feeds, which  *)
(* come and go meanwhile.  A feed "fails" when resolving it through the    *)
(* transient cache throws (SwapCache says when that is).                   *)
(*                                                                         *)
(* Requests share nothing but the feeds, so one at a time is followed.     *)
(***************************************************************************)
EXTENDS Naturals, Sequences

CONSTANTS
    Providers,  \* the configured providers, the primary first
    Assets,
    Lists       \* the assets in each provider's currency table

SwapProvidersAssumption ==
    /\ Providers \in Seq(STRING) /\ Providers # <<>>
    /\ \A i, j \in DOMAIN Providers : Providers[i] = Providers[j] => i = j
    /\ Lists \in [DOMAIN Providers -> SUBSET Assets]

Feeds == {"currencies", "rates", "orders"}

Index == DOMAIN Providers

NoOne == 0

VARIABLES
    failing,  \* the feeds of each provider that fail now
    call,     \* the request being served
    offers,   \* by which provider the last listing offered each asset
    answer,   \* the last answer, and which provider gave it
    outages,  \* ghost: providers with a feed failing during this request
    steady    \* ghost: no feed has changed since that listing began

choiceVars == <<failing, call, offers, answer, outages, steady>>

Idle == [kind |-> "idle"]

RequestStages ==
    [kind : {"list"}, at : Index, step : {"currencies", "rates"}] \cup
    [kind : {"quote", "create"}, asset : Assets, at : Index,
     step : {"select", "currencies", "rates", "orders"}]

NoAnswer == [kind |-> "idle"]

ChoiceTypeOK ==
    /\ failing \in [Index -> SUBSET Feeds]
    /\ call \in RequestStages \cup {Idle}
    /\ offers \in [Assets -> Index \cup {NoOne}]
    /\ answer \in [kind : {"list"}, by : Index \cup {NoOne}] \cup {NoAnswer} \cup
                  [kind : {"quote", "create"}, asset : Assets, by : Index \cup {NoOne}]
    /\ outages \in SUBSET Index
    /\ steady \in BOOLEAN

ChoiceInit ==
    /\ failing \in [Index -> SUBSET Feeds]
    /\ call = Idle
    /\ offers = [asset \in Assets |-> NoOne]
    /\ answer = NoAnswer
    /\ outages = {}
    /\ steady = FALSE

-----------------------------------------------------------------------------
Down == {i \in Index : failing[i] # {}}

Begins(request) ==
    /\ call = Idle
    /\ call' = request
    /\ outages' = Down
    /\ answer' = NoAnswer
    /\ UNCHANGED <<failing, offers>>

listSwapOptions ==
    /\ Begins([kind |-> "list", at |-> 1, step |-> "currencies"])
    /\ steady' = TRUE

quoteSwap(asset) ==
    /\ Begins([kind |-> "quote", asset |-> asset, at |-> 1, step |-> "select"])
    /\ UNCHANGED steady

createSwap(asset) ==
    /\ Begins([kind |-> "create", asset |-> asset, at |-> 1, step |-> "select"])
    /\ UNCHANGED steady

Answers(feed) == feed \notin failing[call.at]

Proceeds(step) == call' = [call EXCEPT !.step = step] /\ UNCHANGED <<offers, answer>>

AnsweredBy(i) ==
    /\ call' = Idle
    /\ answer' = IF call.kind = "list" THEN [kind |-> "list", by |-> i]
                 ELSE [kind |-> call.kind, asset |-> call.asset, by |-> i]

NextProvider(first) ==
    IF call.at < Len(Providers)
    THEN call' = [call EXCEPT !.at = @ + 1, !.step = first] /\ UNCHANGED <<offers, answer>>
    ELSE /\ AnsweredBy(NoOne)
         /\ offers' = IF call.kind = "list" THEN [asset \in Assets |-> NoOne] ELSE offers

\* resolveSwapProviderCatalog: the first provider whose currencies and rates both
\* answer is the whole catalog.
ListCurrencies ==
    /\ call.kind = "list" /\ call.step = "currencies"
    /\ IF Answers("currencies") THEN Proceeds("rates") ELSE NextProvider("currencies")

ListRates ==
    /\ call.kind = "list" /\ call.step = "rates"
    /\ IF Answers("rates")
       THEN /\ AnsweredBy(call.at)
            /\ offers' = [asset \in Assets |-> IF asset \in Lists[call.at] THEN call.at ELSE NoOne]
       ELSE NextProvider("currencies")

\* MUTANT: a provider that omits the asset is passed over like one that is down.
MutantSelectProvider ==
    /\ call.kind \in {"quote", "create"} /\ call.step = "select"
    /\ IF Answers("currencies") /\ call.asset \in Lists[call.at] THEN Proceeds("currencies")
       ELSE NextProvider("select")

\* selectProvider: only a provider whose currencies fail is passed over.
selectProvider ==
    /\ call.kind \in {"quote", "create"} /\ call.step = "select"
    /\ IF ~Answers("currencies") THEN NextProvider("select")
       ELSE IF call.asset \in Lists[call.at] THEN Proceeds("currencies")
       ELSE AnsweredBy(NoOne) /\ UNCHANGED offers

\* quote and createSwap of the chosen provider: what it throws ends the request.
UseProvider(step, feed, next) ==
    /\ call.kind \in {"quote", "create"} /\ call.step = step
    /\ IF ~Answers(feed) THEN AnsweredBy(NoOne) /\ UNCHANGED offers
       ELSE IF next = "done" THEN AnsweredBy(call.at) /\ UNCHANGED offers
       ELSE Proceeds(next)

Serve ==
    /\ \/ ListCurrencies
       \/ ListRates
       \/ selectProvider
       \/ call.kind = "quote" /\ UseProvider("currencies", "currencies", "rates")
       \/ call.kind = "quote" /\ UseProvider("rates", "rates", "done")
       \/ call.kind = "create" /\ UseProvider("currencies", "currencies", "orders")
       \/ call.kind = "create" /\ UseProvider("orders", "orders", "done")
    /\ UNCHANGED <<failing, outages, steady>>

FeedChanges ==
    \E i \in Index, feed \in Feeds :
        /\ failing' = [failing EXCEPT ![i] = IF feed \in @ THEN @ \ {feed} ELSE @ \cup {feed}]
        /\ outages' = outages \cup {j \in Index : failing'[j] # {}}
        /\ steady' = FALSE
        /\ UNCHANGED <<call, offers, answer>>

ChoiceNext ==
    \/ listSwapOptions
    \/ \E asset \in Assets : quoteSwap(asset) \/ createSwap(asset)
    \/ Serve
    \/ FeedChanges

ChoiceSpec == ChoiceInit /\ [][ChoiceNext]_choiceVars

-----------------------------------------------------------------------------
(***************************************************************************)
(* Properties.                                                             *)
(***************************************************************************)

JustAnswered(kinds) == call = Idle /\ answer.kind \in kinds

\* The backup is for outages (docs/guides/environment-variables.md): whoever
\* answers, every provider before it was failing at some moment of the request,
\* and an asset of the primary is refused only if the primary was.
BackupIsForOutages ==
    /\ JustAnswered({"list", "quote", "create"}) => \A i \in 1..(answer.by - 1) : i \in outages
    /\ JustAnswered({"quote", "create"}) /\ answer.by = NoOne /\ answer.asset \in Lists[1] =>
           1 \in outages

\* fixedfloat.ts:233: rates failures throw so that the service can skip this
\* provider and try the next one.  Unless a feed changed, an asset that a listing
\* offered can be quoted.
QuoteFailsOver ==
    JustAnswered({"quote"}) /\ steady /\ offers[answer.asset] # NoOne => answer.by # NoOne

\* swaps.ts:367: exactly one live provider serves.  Unless a feed changed, an
\* asset that a listing offered is ordered from the provider it was offered by.
OneLiveProvider ==
    JustAnswered({"create"}) /\ steady /\ answer.by # NoOne /\ offers[answer.asset] # NoOne =>
        answer.by = offers[answer.asset]
================================================================================
