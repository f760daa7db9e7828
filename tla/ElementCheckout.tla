---------------------------- MODULE ElementCheckout ----------------------------
(***************************************************************************)
(* The custom element's create mode: <openreceive-checkout> prepares the   *)
(* order its reference attribute names, resumes a remembered attempt,      *)
(* writes attributes back to itself, and is re-pointed, started over,      *)
(* disconnected and reconnected by its host meanwhile.  It runs the shared *)
(* session (CheckoutSession) for the mint and the swap start.              *)
(*                                                                         *)
(* "reference" is the attribute; "asked" is the order the host last set.   *)
(***************************************************************************)
EXTENDS CheckoutSession

CONSTANTS
    Resume   \* what the host remembers: "none", a "swap", or a "lightning" attempt

ElementAssumption == Resume \in {"none", "swap", "lightning"}

VARIABLES
    asked,      \* the order the host pointed the element at
    connected,  \* the element is in the document
    create,     \* createElementCheckoutSession's variables
    creates     \* the runs of createCheckout() in flight

ownVars == <<asked, connected, create, creates>>
elementVars == <<sessionVars, ownVars>>

ElementTypeOK ==
    /\ SessionTypeOK
    /\ asked \in Orders /\ connected \in BOOLEAN
    /\ create \in [creating : BOOLEAN, createdKey : Orders \cup {None},
                   createError : BOOLEAN, ignoreResume : BOOLEAN]
    /\ creates \subseteq [id : CreateIds, order : Orders,
                          step : {"prepare", "resume", "mint"},
                          mint : ActionIds \cup {None}]

-----------------------------------------------------------------------------
ElementInit ==
    /\ SessionInit
    /\ asked = reference
    /\ connected = FALSE
    /\ create = [creating |-> FALSE, createdKey |-> None, createError |-> FALSE,
                 ignoreResume |-> FALSE]
    /\ creates = {}

\* createCheckout() up to its first await, from the session and bookkeeping a
\* caller left: prepare once per order, with a session that starts again.
createCheckout(order, s, c) ==
    IF c.creating \/ c.createdKey = order
    THEN session' = s /\ create' = c /\ UNCHANGED creates
    ELSE \E id \in {i \in CreateIds : \A run \in creates : run.id # i} :
         /\ session' = [Reset(s, order) EXCEPT !.current = {id}]
         /\ create' = [c EXCEPT !.creating = TRUE, !.createdKey = order,
                                !.createError = FALSE]
         /\ creates' = creates \cup
                {[id |-> id, order |-> order, step |-> "prepare", mint |-> None]}

\* forgetCheckout and forgetCreateKey, then a new prepare of the order.
ForgetAndCreate(order, ignoreResume) ==
    LET forgotten == [creating |-> FALSE, createdKey |-> None, createError |-> FALSE,
                      ignoreResume |-> ignoreResume]
    IN  /\ IF connected THEN createCheckout(order, Reset(session, order), forgotten)
           ELSE session' = Reset(session, order) /\ create' = forgotten /\ UNCHANGED creates
        /\ screen' = NothingShown
        /\ selection' = NothingSelected
        /\ wanted' = None
        /\ UNCHANGED <<actions, attempts, connected>>

\* The host sets the reference attribute (attributeChangedCallback).
HostSetsReference(order) ==
    /\ order # reference
    /\ reference' = order /\ asked' = order
    /\ ForgetAndCreate(order, FALSE)

startOver ==
    /\ connected /\ create.createdKey # None /\ screen.order # None
    /\ ForgetAndCreate(reference, TRUE)
    /\ UNCHANGED <<reference, asked>>

retryCreateCheckout ==
    /\ connected /\ create.createError
    /\ createCheckout(reference, session,
                      [create EXCEPT !.createdKey = None, !.createError = FALSE])
    /\ UNCHANGED <<reference, screen, selection, actions, attempts, wanted, asked, connected>>

connectedCallback ==
    /\ ~connected /\ connected' = TRUE
    /\ createCheckout(reference, session, create)
    /\ UNCHANGED <<reference, screen, selection, actions, attempts, wanted, asked>>

\* dispose(): an unfinished prepare is not the one a reconnect relies on.
Disposed(c) ==
    [c EXCEPT !.creating = FALSE, !.createdKey = IF c.creating THEN None ELSE @]

disconnectedCallback ==
    /\ connected /\ connected' = FALSE
    /\ session' = Reset(session, reference)
    /\ create' = Disposed(create)
    /\ UNCHANGED <<reference, screen, selection, actions, attempts, wanted, asked, creates>>

-----------------------------------------------------------------------------
Resumes == Resume # "none" /\ ~create.ignoreResume

\* A run whose answer arrives after the element moved on ends silently.
RunWithdrawn(run) ==
    /\ run.step # "mint" /\ ~isCurrent(run.id)
    /\ creates' = creates \ {run}
    /\ UNCHANGED <<sessionVars, asked, connected, create>>

\* A prepare that fails shows its error; so does a resumed Lightning attempt.  A
\* remembered swap that cannot be read leaves the method grid (see Prepared).
RunFailed(run) ==
    /\ isCurrent(run.id)
    /\ run.step = "resume" => Resume = "lightning"
    /\ run.step # "mint"
    /\ creates' = creates \ {run}
    /\ create' = [create EXCEPT !.createError = TRUE, !.creating = FALSE]
    /\ session' = [session EXCEPT !.current = @ \ {run.id}]
    /\ UNCHANGED <<reference, screen, selection, actions, attempts, wanted, asked, connected>>

AskForResume(run) ==
    /\ run.step = "prepare" /\ isCurrent(run.id) /\ Resumes
    /\ creates' = (creates \ {run}) \cup {[run EXCEPT !.step = "resume"]}
    /\ UNCHANGED <<sessionVars, asked, connected, create>>

\* The attributes of the run's order are written, and the run is over.  The
\* in-flight flag falls only if the run is still the current one.
Finished(run, s) ==
    /\ reference' = run.order
    /\ creates' = creates \ {run}
    /\ session' = [s EXCEPT !.current = @ \ {run.id}]
    /\ create' = IF run.id \in s.current /\ run.order = s.identity
                 THEN [create EXCEPT !.creating = FALSE] ELSE create
    /\ UNCHANGED <<attempts, asked, connected>>

\* The prepared order is shown, with the remembered swap if there is one.
Prepared(run) ==
    /\ isCurrent(run.id)
    /\ \/ run.step = "prepare" /\ ~Resumes
       \/ run.step = "resume" /\ Resume = "swap"
    /\ screen' = [order |-> run.order, invoice |-> "none"]
    /\ \/ UNCHANGED <<selection, wanted>>
       \/ /\ run.step = "resume"
          /\ \E asset \in Assets :
                 /\ selection' = [started |-> <<run.order, asset>>, dismissed |-> None,
                                  selected |-> asset]
                 /\ wanted' = asset
    /\ Finished(run, session)
    /\ UNCHANGED actions

\* The remembered Lightning invoice is shown; by the browser's clock it may have
\* too little time left, and then the run waits for a mint.
ResumedLightning(run) ==
    /\ run.step = "resume" /\ Resume = "lightning" /\ isCurrent(run.id)
    /\ UNCHANGED <<selection, wanted>>
    /\ \/ /\ screen' = [order |-> run.order, invoice |-> "payable"]
          /\ Finished(run, session)
          /\ UNCHANGED actions
       \/ \E id \in FreeIds :
          /\ MayMint
          /\ screen' = [order |-> run.order, invoice |-> "stale"]
          /\ session' = [session EXCEPT !.mintingLightning = TRUE, !.current = @ \cup {id}]
          /\ actions' = actions \cup
                 {[id |-> id, kind |-> "mint", order |-> run.order, outcome |-> "open"]}
          /\ creates' = (creates \ {run}) \cup {[run EXCEPT !.step = "mint", !.mint = id]}
          /\ UNCHANGED <<reference, attempts, asked, connected, create>>

\* ensureLightning() returned, with an invoice, an error, or because it was
\* withdrawn; what follows it does not ask whether the run is still current.
AfterMint(run) ==
    /\ run.step = "mint"
    /\ \A action \in actions : action.id # run.mint
    /\ Finished(run, session)
    /\ UNCHANGED <<screen, selection, actions, wanted>>

Run(run) ==
    \/ RunWithdrawn(run) \/ RunFailed(run) \/ AskForResume(run)
    \/ Prepared(run) \/ ResumedLightning(run) \/ AfterMint(run)

-----------------------------------------------------------------------------
\* The name of a mint a run waits for is not used again before it returns.
SessionSteps ==
    /\ \/ InvoiceAges \/ PollFoldsSwap
       \/ connected /\ screen.order # None /\ ensureLightning
       \/ connected /\ \E asset \in Assets : startSwap(asset)
       \/ \E action \in actions : Answer(action) \/ DeliverAction(action)
       \/ connected /\ LeaveSwap
    /\ \A run \in creates, action \in actions' \ actions : action.id # run.mint
    /\ UNCHANGED ownVars

HostMoves == \E order \in Orders : HostSetsReference(order)

ElementNext ==
    \/ HostMoves \/ startOver \/ retryCreateCheckout
    \/ connectedCallback \/ disconnectedCallback
    \/ \E run \in creates : Run(run)
    \/ SessionSteps

ElementSpec == ElementInit /\ [][ElementNext]_elementVars

-----------------------------------------------------------------------------
(***************************************************************************)
(* Properties.                                                             *)
(***************************************************************************)

\* "Applying an older order's attributes here would silently show, and poll,
\* the wrong order" (element-checkout-session.ts:272): the attributes name the
\* order the host asked for, and nothing of another order is on the screen.
ShowsTheOrderAsked == reference = asked /\ OnlyThisOrderIsShown

================================================================================
