----------------------------- MODULE PaymentScan ----------------------------
(***************************************************************************)
(* The walk of the wallet's history that looks for the payments of a       *)
(* window of attempts: pages of list_transactions by offset, first the     *)
(* settled view, then the inclusive one, in slices cut by a page cap and a *)
(* deadline and resumed later.  The history changes while it is walked.    *)
(*                                                                         *)
(* What the walk promises is about the moment its window was created       *)
(* (started_at): an attempt it certifies absent or still unpaid was not    *)
(* paid then, so a clock may close it.                                     *)
(***************************************************************************)
EXTENDS WalletHistory

CONSTANT MayFail   \* whether a slice may get no answer at all

ScanAssumption == MayFail \in BOOLEAN

VARIABLES
    window,      \* the walk's durable state
    slice,       \* what the running slice keeps in memory
    reported,    \* per attempt, the verdicts this walk gave
    outcome      \* how the last slice ended

windowVars == <<window, slice, reported, outcome, atStart>>
scanVars == <<wallet, windowVars>>

\* "open" and "held" stand for a pending check with that transaction state.
Verdict == {"settled", "failed", "not_found", "open", "held"}

NoWindow == [view |-> "none", offset |-> 0, anchor |-> NoPage, anchor_offset |-> -1,
             absence_safe |-> FALSE, observations |-> Unseen]

NoSlice == [on |-> FALSE, pages |-> 0, verifyingAnchor |-> FALSE, previous |-> NoPage,
            overlapOnly |-> FALSE, checks |-> Unseen]

-----------------------------------------------------------------------------
\* The checks and observations after a page: finality replaces what was seen,
\* and a settled check is never replaced.
ChecksAfter(page) ==
    [i \in Attempts |->
        IF i \in page.rows /\ Final(i) /\ slice.checks[i] # "settled" THEN wallet[i]
        ELSE slice.checks[i]]

ObservationsAfter(page) ==
    [i \in Attempts |->
        IF i \notin page.rows THEN window.observations[i]
        ELSE IF Final(i) THEN "unseen"
        ELSE IF slice.checks[i] = "unseen" THEN wallet[i]
        ELSE window.observations[i]]

\* Mutant: a resumed walk certifies absence like a fresh one.
CertifiedEvenResumed(checks, observations, absence_safe, complete) ==
    [i \in Attempts |->
        IF checks[i] # "unseen" THEN checks[i]
        ELSE IF observations[i] # "unseen" THEN observations[i]
        ELSE IF complete THEN "not_found" ELSE "unseen"]

\* What the clock may close: pending as last observed, and, when the history was
\* read to its end, not_found.  Only a fresh walk may say so.
Certified(checks, observations, absence_safe, complete) ==
    [i \in Attempts |->
        IF checks[i] # "unseen" \/ ~absence_safe THEN checks[i]
        ELSE IF observations[i] # "unseen" THEN observations[i]
        ELSE IF complete THEN "not_found" ELSE "unseen"]

Told(checks) ==
    [i \in Attempts |-> reported[i] \cup ({checks[i]} \ {"unseen"})]

-----------------------------------------------------------------------------
ScanInit ==
    /\ WalletInit
    /\ window = NoWindow
    /\ slice = NoSlice
    /\ reported = [i \in Attempts |-> {}]
    /\ outcome = "none"
    /\ atStart = wallet

\* createPaymentScanWindow.
CreateWindow ==
    /\ window = NoWindow
    /\ window' = [NoWindow EXCEPT !.view = "default", !.absence_safe = TRUE]
    /\ reported' = [i \in Attempts |-> {}]
    /\ outcome' = "none"
    /\ atStart' = wallet
    /\ UNCHANGED <<wallet, slice>>

Resumed == window.offset > 0 \/ window.view = "inclusive"

\* scanPaymentSlice, up to its first request: a resumed walk proves no absence
\* and reads its last page again.
StartSlice ==
    /\ window # NoWindow
    /\ ~slice.on
    /\ slice' = [NoSlice EXCEPT
                    !.on = TRUE,
                    !.verifyingAnchor = /\ Resumed
                                        /\ MaxPages > 1
                                        /\ window.anchor_offset # -1,
                    !.previous = window.anchor]
    /\ window' = [window EXCEPT !.absence_safe = @ /\ ~Resumed]
    /\ UNCHANGED <<wallet, reported, outcome, atStart>>

\* The slice returns and its window goes on or is done with.
EndSlice(checks, end, next) ==
    /\ reported' = Told(checks)
    /\ outcome' = end
    /\ window' = next
    /\ slice' = NoSlice

\* The walk of the settled view is over: go on with the inclusive one.
ToInclusive(checks, observations, safe) ==
    /\ window' = [NoWindow EXCEPT !.view = "inclusive", !.absence_safe = safe,
                                  !.observations = observations]
    /\ slice' = [slice EXCEPT !.pages = @ + 1, !.verifyingAnchor = FALSE,
                              !.overlapOnly = FALSE, !.previous = NoPage,
                              !.checks = checks]
    /\ UNCHANGED <<reported, outcome>>

\* The page was the unchanged overlap: read on behind it.
PastOverlap(checks, observations) ==
    /\ window' = [window EXCEPT !.observations = observations]
    /\ slice' = [slice EXCEPT !.pages = @ + 1, !.verifyingAnchor = FALSE,
                              !.overlapOnly = TRUE, !.checks = checks]
    /\ UNCHANGED <<reported, outcome>>

\* Mutant: the walk stops at the first attempt it has seen.
SomeSeen(checks, observations) ==
    \E i \in Attempts : checks[i] # "unseen" \/ observations[i] # "unseen"

\* Every attempt of the window has been seen: no need to read on.
AllSeen(checks, observations) ==
    \A i \in Attempts : checks[i] # "unseen" \/ observations[i] # "unseen"

\* A page with rows, not seen before: remember it and move on, or stop when
\* every attempt has been seen.
Advance(page, offset, checks, observations, safe) ==
    IF AllSeen(checks, observations)
    THEN EndSlice(Certified(checks, observations, safe, FALSE), "complete", NoWindow)
    ELSE /\ window' = [window EXCEPT !.anchor = page, !.anchor_offset = offset,
                                     !.offset = offset + page.count,
                                     !.absence_safe = safe,
                                     !.observations = observations]
         /\ slice' = [slice EXCEPT !.pages = @ + 1, !.verifyingAnchor = FALSE,
                                   !.overlapOnly = FALSE, !.previous = page,
                                   !.checks = checks]
         /\ UNCHANGED <<reported, outcome>>

\* One answered page of scanPaymentSlice.
ReadPage ==
    LET offset == IF slice.verifyingAnchor THEN window.anchor_offset ELSE window.offset
        page == PageAt(window.view, offset)
        checks == ChecksAfter(page)
        observations == ObservationsAfter(page)
        overlap == slice.verifyingAnchor /\ page = window.anchor
        safe == window.absence_safe /\ ~slice.verifyingAnchor
    IN  /\ slice.on
        /\ slice.pages < MaxPages
        /\ page.count > 0 => page.rows # {}
        /\ \/ overlap /\ PastOverlap(checks, observations)
           \/ /\ ~slice.verifyingAnchor
              /\ page.count > 0 /\ page = slice.previous
              /\ EndSlice(checks, "stalled", NoWindow)
           \/ /\ ~overlap
              /\ page.count = 0 /\ window.view = "default"
              /\ ToInclusive(checks, observations, safe)
           \/ /\ ~overlap
              /\ page.count = 0 /\ window.view = "inclusive"
              /\ EndSlice(Certified(checks, observations, safe, TRUE), "complete", NoWindow)
           \/ /\ ~overlap
              /\ page.count > 0 /\ (page = slice.previous => slice.verifyingAnchor)
              /\ Advance(page, offset, checks, observations, safe)
        /\ UNCHANGED <<wallet, atStart>>

\* Mutant: a slice that ends on the overlap leaves the next one to read it again.
OverlapKept(w) == w

\* A slice that ends on the overlap has spent it.
WithOverlapSpent(w) ==
    IF slice.overlapOnly THEN [w EXCEPT !.anchor_offset = -1] ELSE w

\* The page cap is reached, or the deadline passes between two pages or cuts the
\* next one: the answered pages keep their progress.
CutSlice ==
    /\ slice.on
    /\ slice.pages > 0
    /\ EndSlice(slice.checks, "continued", WithOverlapSpent(window))
    /\ UNCHANGED <<wallet, atStart>>

\* The wallet fails, answers nothing before the deadline or only unusable rows,
\* or the process stops: the window is given up, finality already seen is told.
FailSlice ==
    /\ MayFail
    /\ slice.on
    /\ EndSlice([i \in Attempts |-> IF slice.checks[i] = "settled" THEN "settled" ELSE "unseen"],
                "failed", NoWindow)
    /\ UNCHANGED <<wallet, atStart>>

Walk == CreateWindow \/ StartSlice \/ ReadPage \/ CutSlice

ScanNext == Walk \/ FailSlice \/ (WalletNext /\ UNCHANGED windowVars)

ScanSpec == ScanInit /\ [][ScanNext]_scanVars

\* A window is resumed by a later pass, and a slice that runs gets its page, is
\* cut by its deadline or fails.
SliceGoesOn == StartSlice \/ CutSlice \/ FailSlice \/ ReadPage

FairScanSpec == ScanSpec /\ WF_scanVars(SliceGoesOn)

-----------------------------------------------------------------------------
ScanTypeOK ==
    /\ wallet \in [Invoice -> WalletState]
    /\ window.view \in {"none", "default", "inclusive"}
    /\ window.offset \in 0..Cardinality(Invoice)
    /\ window.anchor_offset \in -1..Cardinality(Invoice)
    /\ window.absence_safe \in BOOLEAN
    /\ window.observations \in [Attempts -> {"unseen", "open", "held"}]
    /\ slice.pages \in 0..MaxPages
    /\ slice.checks \in [Attempts -> {"unseen", "settled", "failed"}]
    /\ reported \in [Attempts -> SUBSET Verdict]
    /\ outcome \in {"none", "continued", "complete", "stalled", "failed"}

\* What a clock may close was not paid when the walk's window was created,
\* although the history moved between its pages and slices (coverageStartedAt:
\* the time reconcileHostPayments closes it at).
AbsenceIsProven ==
    \A i \in Attempts :
        reported[i] \cap {"not_found", "open", "held"} # {} => atStart[i] # "settled"

\* A walk that ran to its end, in however many slices, has reported every
\* payment that was there when it began: shifting offsets repeat rows of the
\* settled view but never skip one.
CompleteWalkFindsPayments ==
    outcome = "complete" =>
        \A i \in Attempts : atStart[i] = "settled" => "settled" \in reported[i]

\* A wallet so slow that every slice is cut after one page does not make the walk
\* read the same pages for ever: it ends, although each slice first reads its
\* last page again and the history moves (scanPaymentSlice, continued).
SlowWalksEnd == window # NoWindow ~> window = NoWindow

=============================================================================
