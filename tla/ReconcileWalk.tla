---------------------------- MODULE ReconcileWalk ---------------------------
(***************************************************************************)
(* reconcilePaymentAttempts, the walk without durable state: the settled   *)
(* view until every attempt is found, then the inclusive view for those    *)
(* that are missing.  A walk that was cut short by its page cap or by a    *)
(* wallet that repeats a page decides nothing about what it did not see.   *)
(***************************************************************************)
EXTENDS WalletHistory

VARIABLES
    walk,      \* where the walk is
    found,     \* the transaction state each attempt was last seen with
    verdict    \* the checks returned; "omitted" for an undecided attempt

listingVars == <<walk, found, verdict, atStart>>
walkVars == <<wallet, listingVars>>

NotStarted == [view |-> "none", offset |-> 0, pages |-> 0, previousPage |-> NoPage.rows,
               first |-> TRUE, outstanding |-> {}, truncated |-> FALSE]

Undecided == [i \in Attempts |-> "none"]

-----------------------------------------------------------------------------
WalkInit ==
    /\ WalletInit
    /\ walk = NotStarted
    /\ found = Unseen
    /\ verdict = Undecided
    /\ atStart = wallet

Start ==
    /\ walk.view = "none"
    /\ walk' = [NotStarted EXCEPT !.view = "default", !.outstanding = Attempts]
    /\ found' = Unseen
    /\ verdict' = Undecided
    /\ atStart' = wallet
    /\ UNCHANGED wallet

\* byHash after a page; the inclusive view only adds what the first one missed.
FoundAfter(page) ==
    [i \in Attempts |-> IF i \in page.rows /\ (walk.view = "default" \/ i \in walk.outstanding)
                        THEN wallet[i] ELSE found[i]]

\* Mutant: a walk that was cut short says not_found.
VerdictsAlways(seen, truncated) ==
    [i \in Attempts |-> IF seen[i] = "unseen" THEN "not_found" ELSE seen[i]]

\* The result per attempt: its state if it was seen, not_found only when both
\* walks reached the end of the history.
Verdicts(seen, truncated) ==
    [i \in Attempts |->
        IF seen[i] # "unseen" THEN seen[i]
        ELSE IF truncated THEN "omitted" ELSE "not_found"]

\* The end of one listIncomingTransactions.
EndWalk(seen, truncated) ==
    LET missing == {i \in Attempts : seen[i] = "unseen"}
    IN  /\ found' = seen
        /\ IF walk.view = "default" /\ missing # {}
           THEN /\ walk' = [NotStarted EXCEPT !.view = "inclusive", !.outstanding = missing,
                                              !.truncated = truncated]
                /\ UNCHANGED verdict
           ELSE /\ walk' = NotStarted
                /\ verdict' = Verdicts(seen, truncated \/ walk.truncated)

\* The wallet ran out of rows; a row the client dropped was still a row.
NoRowsLeft(page) == page.count = 0

\* One page of listIncomingTransactions.
ReadListing ==
    LET page == PageAt(walk.view, walk.offset)
        seen == FoundAfter(page)
        outstanding == walk.outstanding \ page.rows
        repeated == ~walk.first /\ page.rows = walk.previousPage
    IN  /\ walk.view # "none"
        /\ walk.pages < MaxPages
        /\ \/ /\ outstanding = {} \/ NoRowsLeft(page)
              /\ EndWalk(seen, FALSE)
           \/ /\ outstanding # {} /\ ~NoRowsLeft(page)
              /\ repeated
              /\ EndWalk(seen, TRUE)
           \/ /\ outstanding # {} /\ ~NoRowsLeft(page) /\ ~repeated
              /\ walk' = [walk EXCEPT !.offset = @ + page.count, !.pages = @ + 1,
                                      !.previousPage = page.rows, !.first = FALSE,
                                      !.outstanding = outstanding]
              /\ found' = seen
              /\ UNCHANGED verdict
        /\ UNCHANGED <<wallet, atStart>>

\* The page cap is reached with rows still to come.
HitCap ==
    /\ walk.view # "none"
    /\ walk.pages = MaxPages
    /\ EndWalk(found, TRUE)
    /\ UNCHANGED <<wallet, atStart>>

\* The wallet fails: the pass throws and nothing is decided.
Fail ==
    /\ walk.view # "none"
    /\ walk' = NotStarted
    /\ UNCHANGED <<wallet, found, verdict, atStart>>

WalkNext ==
    \/ Start \/ ReadListing \/ HitCap \/ Fail
    \/ WalletNext /\ UNCHANGED listingVars

WalkSpec == WalkInit /\ [][WalkNext]_walkVars

-----------------------------------------------------------------------------
WalkTypeOK ==
    /\ wallet \in [Invoice -> WalletState]
    /\ walk.view \in {"none", "default", "inclusive"}
    /\ walk.outstanding \subseteq Attempts
    /\ found \in [Attempts -> {"unseen", "open", "held", "settled", "failed"}]
    /\ verdict \in [Attempts -> {"none", "omitted", "not_found", "open", "held",
                                 "settled", "failed"}]

\* What reconcileHostPayments may close by the clock it read before the walk was
\* not paid at that time, however the history moved under the walk and wherever
\* it was cut.
UnpaidWhenScanned ==
    \A i \in Attempts : verdict[i] \in {"not_found", "open", "held"} => atStart[i] # "settled"

=============================================================================
