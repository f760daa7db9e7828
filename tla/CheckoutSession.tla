---------------------------- MODULE CheckoutSession ----------------------------
(***************************************************************************)
(* One checkout as its renderer runs it: the deferred Lightning mint and   *)
(* the quote-then-start of a swap (createCheckoutSession), over a host     *)
(* that shows one order at a time, may be pointed at another order while   *)
(* requests are in flight, and whose payer leaves swap panels before they  *)
(* are answered.                                                           *)
(*                                                                         *)
(* The session's generation counter is the set of actions captured since   *)
(* it last moved.  A swap attempt is named by its order and pay-in asset:  *)
(* the server answers a second start with the attempt it already has.  The *)
(* error texts and the lightningRequested flag decide nothing about        *)
(* requests and are left out.                                              *)
(***************************************************************************)
EXTENDS Naturals, FiniteSets

CONSTANTS
    Orders,      \* the orders (reference and prefix) a host shows
    Assets,      \* the pay-in assets of swaps
    None,
    ActionIds,   \* names of mints and starts: how many are in flight at once
    CreateIds    \* names of the host's own captured actions

SessionAssumption ==
    /\ None \notin Orders /\ None \notin Assets
    /\ ActionIds \cap CreateIds = {}

Ids == ActionIds \cup CreateIds

VARIABLES
    reference,  \* the order the host shows: options.reference()
    session,    \* createCheckoutSession's variables
    screen,     \* the snapshot the host renders
    selection,  \* SwapSelection: the swap attempt the wizard shows
    actions,    \* the mints and starts in flight
    attempts,   \* the swap attempts the server has
    wanted      \* the asset the payer last chose and did not leave

sessionVars == <<reference, session, screen, selection, actions, attempts, wanted>>

Action == [id : ActionIds, kind : {"mint"}, order : Orders, outcome : {"open", "ok", "failed"}]
          \cup [id : ActionIds, kind : {"quote", "start"}, order : Orders, asset : Assets,
                outcome : {"open", "ok", "failed", "unavailable"}]

\* Types, and the session has the identity its host shows (syncIdentity).
SessionTypeOK ==
    /\ reference \in Orders
    /\ session.identity = reference
    /\ session \in [identity : Orders, current : SUBSET Ids,
                    mintingLightning : BOOLEAN, startingSwapAsset : Assets \cup {None},
                    unavailable : SUBSET Assets]
    /\ screen \in [order : Orders \cup {None}, invoice : {"none", "payable", "stale"}]
    /\ selection \in [started : (Orders \X Assets) \cup {None},
                      dismissed : (Orders \X Assets) \cup {None},
                      selected : Assets \cup {None}]
    /\ actions \subseteq Action
    /\ attempts \subseteq Orders \X Assets
    /\ wanted \in Assets \cup {None}

-----------------------------------------------------------------------------
\* MUTANT: leaving a panel withdraws nothing.
MutantInvalidated(s) == [s EXCEPT !.mintingLightning = FALSE, !.startingSwapAsset = None]

\* invalidateActions: nothing asked for so far is current any more.
Invalidated(s) ==
    [s EXCEPT !.current = {}, !.mintingLightning = FALSE, !.startingSwapAsset = None]

\* reset: forget everything, for the order the host shows now.
Reset(s, order) ==
    [Invalidated(s) EXCEPT !.identity = order, !.unavailable = {}]

\* MUTANT: an answer counts whatever happened since it was asked for.
MutantIsCurrent(id) == TRUE

isCurrent(id) == id \in session.current /\ reference = session.identity

FreeIds == {id \in ActionIds : \A action \in actions : action.id # id}

NothingShown == [order |-> None, invoice |-> "none"]
NothingSelected == [started |-> None, dismissed |-> None, selected |-> None]

SessionInit ==
    /\ reference \in Orders
    /\ session = [identity |-> reference, current |-> {}, mintingLightning |-> FALSE,
                  startingSwapAsset |-> None, unavailable |-> {}]
    /\ screen = NothingShown
    /\ selection = NothingSelected
    /\ actions = {}
    /\ attempts = {}
    /\ wanted = None

-----------------------------------------------------------------------------
\* What the payer left or the host forgot is not chosen any more.
Forget(order) ==
    /\ session' = Reset(session, order)
    /\ screen' = NothingShown
    /\ selection' = NothingSelected
    /\ wanted' = None
    /\ UNCHANGED <<actions, attempts>>

\* The host is pointed at another order: everything learnt of the old is dropped.
SetReference(order) ==
    /\ order # reference
    /\ reference' = order
    /\ Forget(order)

\* The host shows the prepared order (nothing minted yet).
ShowPrepared ==
    /\ screen.order = None
    /\ screen' = [order |-> reference, invoice |-> "none"]
    /\ UNCHANGED <<reference, session, selection, actions, attempts, wanted>>

InvoiceAges ==
    /\ screen.invoice = "payable"
    /\ screen' = [screen EXCEPT !.invoice = "stale"]
    /\ UNCHANGED <<reference, session, selection, actions, attempts, wanted>>

-----------------------------------------------------------------------------
MayMint == ~session.mintingLightning

\* ensureLightning up to its await: an invoice with time left is shown again
\* without a request, otherwise one mint is posted.
PostMint(id) ==
    /\ MayMint /\ screen.invoice # "payable"
    /\ id \in FreeIds
    /\ session' = [session EXCEPT !.mintingLightning = TRUE, !.current = @ \cup {id}]
    /\ actions' = actions \cup
           {[id |-> id, kind |-> "mint", order |-> reference, outcome |-> "open"]}
    /\ UNCHANGED <<reference, screen, selection, attempts, wanted>>

ensureLightning == \E id \in ActionIds : PostMint(id)

\* The answer of a mint: publish the invoice or the error, unless withdrawn.
MintAnswered(action) ==
    /\ action.kind = "mint"
    /\ actions' = actions \ {action}
    /\ IF isCurrent(action.id)
       THEN /\ action.outcome # "open"
            /\ session' = [session EXCEPT !.current = @ \ {action.id},
                                          !.mintingLightning = FALSE]
            /\ screen' = IF action.outcome = "ok"
                         THEN [order |-> action.order, invoice |-> "payable"] ELSE screen
       ELSE UNCHANGED <<session, screen>>
    /\ UNCHANGED <<reference, selection, attempts, wanted>>

-----------------------------------------------------------------------------
\* This asset's instructions are already held, and the payer did not leave them.
Holds(asset) ==
    /\ selection.started # None
    /\ selection.started[2] = asset
    /\ selection.started # selection.dismissed

\* An open panel hides the asset list, so only its own asset can be asked for.
MayAsk(asset) == screen.order # None /\ selection.selected \in {None, asset}

\* startSwap up to its first await: show what is held, or ask for a quote.
ReopenSwap(asset) ==
    /\ MayAsk(asset)
    /\ session.startingSwapAsset = None
    /\ Holds(asset)
    /\ selection' = [selection EXCEPT !.selected = asset]
    /\ wanted' = asset
    /\ UNCHANGED <<reference, session, screen, actions, attempts>>

PostQuote(asset) ==
    /\ MayAsk(asset)
    /\ session.startingSwapAsset = None
    /\ ~Holds(asset)
    /\ \E id \in FreeIds :
           /\ session' = [session EXCEPT !.startingSwapAsset = asset,
                                         !.current = @ \cup {id}]
           /\ actions' = actions \cup
                  {[id |-> id, kind |-> "quote", order |-> reference, asset |-> asset,
                    outcome |-> "open"]}
    /\ wanted' = asset
    /\ UNCHANGED <<reference, screen, selection, attempts>>

startSwap(asset) == ReopenSwap(asset) \/ PostQuote(asset)

\* The flags a start that is over leaves behind.
Ended(s, action) ==
    [s EXCEPT !.current = @ \ {action.id}, !.startingSwapAsset = None]

\* A failed quote or start opens the asset's panel: on its error, or on the
\* instructions that landed meanwhile.
SwapFailed(action) ==
    /\ action.outcome = "failed" /\ isCurrent(action.id)
    /\ actions' = actions \ {action}
    /\ session' = Ended(session, action)
    /\ selection' = [selection EXCEPT !.selected = action.asset]
    /\ UNCHANGED <<reference, screen, attempts, wanted>>

\* An amount out of range is an answer, not an error: nothing is started.
QuoteUnavailable(action) ==
    /\ action.kind = "quote" /\ action.outcome = "unavailable" /\ isCurrent(action.id)
    /\ actions' = actions \ {action}
    /\ session' = [Ended(session, action) EXCEPT !.unavailable = @ \cup {action.asset}]
    /\ UNCHANGED <<reference, screen, selection, attempts, wanted>>

\* The quote is in range: the start is posted.
PostStart(action) ==
    /\ action.kind = "quote" /\ action.outcome = "ok" /\ isCurrent(action.id)
    /\ actions' = (actions \ {action}) \cup
           {[action EXCEPT !.kind = "start", !.outcome = "open"]}
    /\ session' = [session EXCEPT !.unavailable = @ \ {action.asset}]
    /\ UNCHANGED <<reference, screen, selection, attempts, wanted>>

StartAnswered(action) ==
    /\ action.kind = "start" /\ action.outcome = "ok" /\ isCurrent(action.id)
    /\ actions' = actions \ {action}
    /\ session' = Ended(session, action)
    /\ selection' = [started |-> <<action.order, action.asset>>, dismissed |-> None,
                     selected |-> action.asset]
    /\ UNCHANGED <<reference, screen, attempts, wanted>>

\* A withdrawn quote or start: its fetch is aborted, or its answer dropped.
SwapWithdrawn(action) ==
    /\ action.kind \in {"quote", "start"} /\ ~isCurrent(action.id)
    /\ actions' = actions \ {action}
    /\ UNCHANGED <<reference, session, screen, selection, attempts, wanted>>

\* The server answers; a start leaves an attempt there even if nobody reads it.
Answer(action) ==
    /\ action.outcome = "open"
    /\ \E outcome \in {"ok", "failed"} \cup
                      (IF action.kind = "quote" THEN {"unavailable"} ELSE {}) :
           actions' = (actions \ {action}) \cup {[action EXCEPT !.outcome = outcome]}
    /\ \/ attempts' = attempts
       \/ action.kind = "start" /\ attempts' = attempts \cup {<<action.order, action.asset>>}
    /\ UNCHANGED <<reference, session, screen, selection, wanted>>

DeliverAction(action) ==
    \/ MintAnswered(action) \/ QuoteUnavailable(action) \/ PostStart(action)
    \/ StartAnswered(action) \/ SwapWithdrawn(action)
    \/ action.kind # "mint" /\ SwapFailed(action)

\* The status poll folds an attempt the server already has into the snapshot.
PollFoldsSwap ==
    /\ screen.order # None
    /\ \E attempt \in attempts :
           /\ attempt[1] = reference
           /\ selection' = [selection EXCEPT !.started = attempt]
    /\ UNCHANGED <<reference, session, screen, actions, attempts, wanted>>

-----------------------------------------------------------------------------
\* The payer leaves the panel of a swap that is shown, being started or failed:
\* back to the asset list, or back to Lightning, which dismisses the attempt.
LeaveSwap ==
    /\ wanted # None \/ selection.selected # None
    /\ session' = Invalidated(session)
    /\ \E dismissed \in {selection.dismissed, selection.started} :
           selection' = [selection EXCEPT !.selected = None, !.dismissed = dismissed]
    /\ wanted' = None
    /\ UNCHANGED <<reference, screen, actions, attempts>>

SessionNext ==
    \/ \E order \in Orders : SetReference(order)
    \/ ShowPrepared \/ InvoiceAges \/ PollFoldsSwap
    \/ screen.order # None /\ ensureLightning
    \/ \E asset \in Assets : startSwap(asset)
    \/ \E action \in actions : Answer(action) \/ DeliverAction(action)
    \/ LeaveSwap

-----------------------------------------------------------------------------
(***************************************************************************)
(* Properties.                                                             *)
(***************************************************************************)

\* Nothing of another order reaches the screen: a mint, a start or a quote that
\* was asked for before the host moved on never publishes
\* (tests/browser-payment-lifetime.test.mjs:253).
OnlyThisOrderIsShown ==
    /\ screen.order \in {None, reference}
    /\ selection.started # None => selection.started[1] = reference

\* A delayed success never reselects the asset the payer just dismissed
\* (checkout-session.ts:476): the panel that is open is the one last asked for.
PanelFollowsThePayer == selection.selected \in {None, wanted}

================================================================================
