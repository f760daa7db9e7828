--------------------------- MODULE WalletScanProofs -------------------------
(***************************************************************************)
(* Theorems about the two walks of the wallet's history, for any history   *)
(* and any number of attempts, pages and slices.                           *)
(*                                                                         *)
(* A row of a view is addressed by the number of newer rows, which only    *)
(* grows in the settled view while a walk reads it: rows are repeated, and *)
(* none is skipped.                                                        *)
(***************************************************************************)
EXTENDS PaymentScan, ReconcileWalk, FiniteSetTheorems, TLAPS

-----------------------------------------------------------------------------
(***************************************************************************)
(* Positions in a set of rows.                                             *)
(***************************************************************************)
Newer(S, i) == {j \in S : Created[j] > Created[i]}
Rank(S, i) == Cardinality(Newer(S, i))
OnPage(S, offset) == {i \in S : Rank(S, i) >= offset /\ Rank(S, i) < offset + PageLimit}

LEMMA PositionIsRank == \A view, i : Position(i, view) = Rank(RowsOf(view), i)
  BY DEF Position, Rank, Newer

LEMMA FiniteRows ==
    ASSUME HistoryAssumption, NEW S \in SUBSET Invoice
    PROVE  IsFiniteSet(S) /\ Cardinality(S) \in Nat /\ Cardinality(S) <= Cardinality(Invoice)
<1>1. IsFiniteSet(Invoice)
  BY DEF HistoryAssumption
<1>2. IsFiniteSet(S) /\ Cardinality(S) <= Cardinality(Invoice)
  BY <1>1, FS_Subset
<1> QED
  BY <1>2, FS_CardinalityType

LEMMA RankType ==
    ASSUME HistoryAssumption, NEW S \in SUBSET Invoice, NEW i \in S
    PROVE  Rank(S, i) \in Nat /\ Rank(S, i) < Cardinality(S)
<1>1. Newer(S, i) \in SUBSET S /\ Newer(S, i) # S
  BY DEF Newer, HistoryAssumption
<1>2. IsFiniteSet(S) /\ Cardinality(S) \in Nat
  BY FiniteRows
<1>3. IsFiniteSet(Newer(S, i)) /\ Cardinality(Newer(S, i)) <= Cardinality(S)
  BY <1>1, <1>2, FS_Subset
<1>4. Cardinality(S) # Cardinality(Newer(S, i))
  BY <1>1, <1>2, FS_Subset
<1>5. Cardinality(Newer(S, i)) \in Nat
  BY <1>3, FS_CardinalityType
<1> QED
  BY <1>2, <1>3, <1>4, <1>5 DEF Rank

LEMMA RankStrict ==
    ASSUME HistoryAssumption, NEW S \in SUBSET Invoice, NEW i \in S, NEW j \in S,
           Created[j] > Created[i]
    PROVE  Rank(S, j) < Rank(S, i)
<1>1. Newer(S, j) \in SUBSET Newer(S, i) /\ j \in Newer(S, i) \ Newer(S, j)
  BY DEF Newer, HistoryAssumption
<1>2. Newer(S, i) \in SUBSET Invoice
  BY DEF Newer
<1>3. IsFiniteSet(Newer(S, i))
  BY <1>2, FiniteRows
<1>4. /\ Cardinality(Newer(S, j)) <= Cardinality(Newer(S, i))
      /\ Cardinality(Newer(S, i)) # Cardinality(Newer(S, j))
  BY <1>1, <1>3, FS_Subset
<1>5. Rank(S, i) \in Nat /\ Rank(S, j) \in Nat
  BY RankType
<1> QED
  BY <1>4, <1>5 DEF Rank

LEMMA RankInjective ==
    ASSUME HistoryAssumption, NEW S \in SUBSET Invoice, NEW i \in S, NEW j \in S,
           Rank(S, i) = Rank(S, j)
    PROVE  i = j
<1>1. Created[i] \in Nat /\ Created[j] \in Nat
  BY DEF HistoryAssumption
<1>2. ~(Created[i] > Created[j]) /\ ~(Created[j] > Created[i])
  <2>1. Rank(S, i) \in Nat
    BY RankType
  <2> QED
    BY <2>1, RankStrict
<1>3. Created[i] = Created[j]
  BY <1>1, <1>2
<1> QED
  BY <1>3 DEF HistoryAssumption

\* New rows only push a row back.
LEMMA RankGrows ==
    ASSUME HistoryAssumption, NEW S \in SUBSET Invoice, NEW T \in SUBSET Invoice,
           S \subseteq T, NEW i \in S
    PROVE  Rank(S, i) <= Rank(T, i)
<1>1. Newer(S, i) \in SUBSET Newer(T, i) /\ Newer(T, i) \in SUBSET Invoice
  BY DEF Newer
<1>2. IsFiniteSet(Newer(T, i))
  BY <1>1, FiniteRows
<1> QED
  BY <1>1, <1>2, FS_Subset DEF Rank

\* Positions have no gaps.
LEMMA RankOnto ==
    ASSUME HistoryAssumption, NEW S \in SUBSET Invoice, NEW n \in Nat, n < Cardinality(S)
    PROVE  \E i \in S : Rank(S, i) = n
<1> DEFINE c == Cardinality(S)
           T == 0..(c - 1)
           f == [i \in S |-> Rank(S, i)]
<1>1. IsFiniteSet(S) /\ c \in Nat
  BY FiniteRows
<1>2. IsFiniteSet(T) /\ Cardinality(T) = c
  <2>1. 0 \in Int /\ c - 1 \in Int /\ ~(0 > c - 1)
    BY <1>1
  <2>2. IsFiniteSet(0..(c - 1)) /\ Cardinality(0..(c - 1)) = IF 0 > c - 1 THEN 0 ELSE (c - 1) - 0 + 1
    BY <2>1, FS_Interval
  <2> QED
    BY <1>1, <2>1, <2>2
<1>3. \A i \in S : f[i] \in T
  <2> TAKE i \in S
  <2>1. Rank(S, i) \in Nat /\ Rank(S, i) < c
    BY RankType
  <2> QED
    BY <1>1, <2>1
<1>4. \A i, j \in S : f[i] = f[j] => i = j
  BY RankInjective
<1>5. f \in Injection(S, T)
  <2> HIDE DEF T
  <2>1. f \in [S -> T]
    BY <1>3
  <2> HIDE DEF f
  <2> QED
    BY <1>4, <2>1 DEF Injection, IsInjective
<1>6. f \in Surjection(S, T)
  <2> HIDE DEF f, T, c
  <2> QED
    BY <1>1, <1>2, <1>5, FS_Injection DEF c
<1>7. n \in T
  BY <1>1
<1> QED
  BY <1>6, <1>7 DEF Surjection

LEMMA PageSize ==
    ASSUME HistoryAssumption, NEW S \in SUBSET Invoice, NEW offset \in Nat
    PROVE  LET count == Cardinality(OnPage(S, offset))
           IN  /\ count \in Nat
               /\ count <= PageLimit
               /\ offset <= Cardinality(Invoice) => offset + count <= Cardinality(Invoice)
<1> DEFINE P == OnPage(S, offset)
           n == Cardinality(Invoice)
           f == [i \in P |-> Rank(S, i)]
<1>1. P \in SUBSET S /\ P \in SUBSET Invoice
  BY DEF OnPage
<1>2. IsFiniteSet(P) /\ Cardinality(P) \in Nat
  BY <1>1, FiniteRows
<1>3. n \in Nat /\ Cardinality(S) \in Nat /\ Cardinality(S) <= n
  <2>1. Invoice \in SUBSET Invoice
    OBVIOUS
  <2> QED
    BY <2>1, FiniteRows
<1>4. ASSUME NEW i \in P
      PROVE  /\ Rank(S, i) \in Nat
             /\ Rank(S, i) >= offset
             /\ Rank(S, i) < offset + PageLimit
             /\ Rank(S, i) < n
  <2>1. i \in S /\ Rank(S, i) >= offset /\ Rank(S, i) < offset + PageLimit
    BY DEF OnPage
  <2>2. Rank(S, i) \in Nat /\ Rank(S, i) < Cardinality(S)
    BY <2>1, RankType
  <2> QED
    BY <1>3, <2>1, <2>2
<1>5. \A i, j \in P : Rank(S, i) = Rank(S, j) => i = j
  BY <1>1, RankInjective
<1>6. PageLimit \in Nat
  BY DEF HistoryAssumption
<1>7. ASSUME NEW m \in Nat, m >= offset, \A i \in P : Rank(S, i) < m
      PROVE  Cardinality(P) <= m - offset
  <2> DEFINE T == offset..(m - 1)
  <2>1. IsFiniteSet(T) /\ Cardinality(T) = m - offset
    <3>1. offset \in Int /\ m - 1 \in Int
      BY <1>7
    <3>2. /\ IsFiniteSet(T)
          /\ Cardinality(T) = IF offset > m - 1 THEN 0 ELSE (m - 1) - offset + 1
      BY <3>1, FS_Interval
    <3> QED
      BY <1>7, <3>2
  <2>2. \A i \in P : Rank(S, i) \in T
    BY <1>4, <1>7
  <2> HIDE DEF T
  <2>3. f \in [P -> T] /\ \A i, j \in P : f[i] = f[j] => i = j
    BY <1>5, <2>2
  <2> HIDE DEF f, P
  <2>4. f \in Injection(P, T)
    BY <2>3 DEF Injection, IsInjective
  <2>5. Cardinality(P) <= Cardinality(T)
    BY <2>1, <2>4, FS_Injection
  <2> QED
    BY <2>1, <2>5
<1>8. Cardinality(P) <= PageLimit
  <2>1. Cardinality(P) <= (offset + PageLimit) - offset
    BY <1>4, <1>6, <1>7
  <2> QED
    BY <1>2, <1>6, <2>1
<1>9. offset <= n => offset + Cardinality(P) <= n
  <2>1. offset <= n => Cardinality(P) <= n - offset
    BY <1>3, <1>4, <1>7
  <2> QED
    BY <1>2, <1>3, <2>1
<1> QED
  BY <1>2, <1>8, <1>9

\* An empty page: no row is that far back.
LEMMA PageEmpty ==
    ASSUME HistoryAssumption, NEW S \in SUBSET Invoice, NEW offset \in Nat,
           Cardinality(OnPage(S, offset)) = 0, NEW i \in S
    PROVE  Rank(S, i) < offset
<1>1. OnPage(S, offset) = {}
  <2>1. OnPage(S, offset) \in SUBSET Invoice
    BY DEF OnPage
  <2> QED
    BY <2>1, FiniteRows, FS_EmptySet
<1>2. Rank(S, i) \in Nat /\ Rank(S, i) < Cardinality(S) /\ Cardinality(S) \in Nat
  BY RankType, FiniteRows
<1>3. SUFFICES ASSUME Rank(S, i) >= offset
               PROVE  FALSE
  BY <1>2
<1>4. offset < Cardinality(S)
  BY <1>2, <1>3
<1>5. PICK j \in S : Rank(S, j) = offset
  BY <1>4, RankOnto
<1>6. j \in OnPage(S, offset)
  BY <1>5 DEF OnPage, HistoryAssumption
<1> QED
  BY <1>1, <1>6

-----------------------------------------------------------------------------
(***************************************************************************)
(* Pages of a view.                                                        *)
(***************************************************************************)
LEMMA PageIs ==
    \A view, offset :
        /\ PageAt(view, offset).rows = OnPage(RowsOf(view), offset) \ Unreadable
        /\ PageAt(view, offset).count = Cardinality(OnPage(RowsOf(view), offset))
  BY PositionIsRank DEF PageAt, OnPage

LEMMA RowsAreInvoices == \A view : RowsOf(view) \in SUBSET Invoice
  BY DEF RowsOf

\* What a page says, and what a walk that goes on behind it has not missed.
LEMMA PageType ==
    ASSUME HistoryAssumption, NEW view, NEW offset \in 0..Cardinality(Invoice)
    PROVE  LET page == PageAt(view, offset)
           IN  /\ page \in [rows : SUBSET Invoice, count : Nat]
               /\ page.rows \subseteq RowsOf(view)
               /\ offset + page.count \in 0..Cardinality(Invoice)
<1>1. RowsOf(view) \in SUBSET Invoice /\ Cardinality(Invoice) \in Nat
  BY RowsAreInvoices, FiniteRows
<1>2. LET count == Cardinality(OnPage(RowsOf(view), offset))
      IN  count \in Nat /\ offset + count <= Cardinality(Invoice)
  BY <1>1, PageSize
<1>3. PageAt(view, offset) = [rows |-> PageAt(view, offset).rows,
                              count |-> PageAt(view, offset).count]
  BY DEF PageAt
<1>4. OnPage(RowsOf(view), offset) \subseteq RowsOf(view)
  BY DEF OnPage
<1> QED
  BY <1>1, <1>2, <1>3, <1>4, PageIs

LEMMA PageSkipsNoRow ==
    ASSUME HistoryAssumption, NEW view, NEW offset \in Nat,
           NEW i \in RowsOf(view) \ Unreadable, i \notin PageAt(view, offset).rows,
           Position(i, view) >= offset
    PROVE  Position(i, view) >= offset + PageAt(view, offset).count
<1> DEFINE S == RowsOf(view)
<1>1. S \in SUBSET Invoice /\ Position(i, view) = Rank(S, i) /\ Rank(S, i) \in Nat
  BY RowsAreInvoices, PositionIsRank, RankType
<1>2. i \notin OnPage(S, offset)
  BY PageIs
<1>3. Rank(S, i) >= offset + PageLimit
  BY <1>1, <1>2 DEF OnPage, HistoryAssumption
<1>4. /\ Cardinality(OnPage(S, offset)) \in Nat
      /\ Cardinality(OnPage(S, offset)) <= PageLimit
  BY <1>1, PageSize
<1> QED
  BY <1>1, <1>3, <1>4, PageIs DEF HistoryAssumption

LEMMA EmptyPageIsTheEnd ==
    ASSUME HistoryAssumption, NEW view, NEW offset \in Nat,
           PageAt(view, offset).count = 0, NEW i \in RowsOf(view)
    PROVE  Position(i, view) < offset
  BY RowsAreInvoices, PositionIsRank, PageIs, PageEmpty

-----------------------------------------------------------------------------
(***************************************************************************)
(* The wallet while it is walked: a payment is final.                      *)
(***************************************************************************)
WalletOK == wallet \in [Invoice -> WalletState]

LEMMA WalletKeeps ==
    ASSUME HistoryAssumption, WalletOK, WalletNext
    PROVE  /\ WalletOK'
           /\ \A i \in Invoice : Final(i) => wallet'[i] = wallet[i]
<1>1. ASSUME NEW i \in Invoice, NEW to \in WalletState, MoveInvoice(i, {"none"}, to)
             \/ MoveInvoice(i, {"open", "held"}, to) \/ MoveInvoice(i, {"held"}, to)
             \/ MoveInvoice(i, {"open"}, to)
      PROVE  /\ WalletOK'
             /\ \A j \in Invoice : Final(j) => wallet'[j] = wallet[j]
  BY <1>1 DEF MoveInvoice, WalletOK, Final
<1>2. LateInvoices \subseteq Invoice
  BY DEF HistoryAssumption
<1>3. CASE \E i \in LateInvoices : MoveInvoice(i, {"none"}, "open")
  BY <1>1, <1>2, <1>3 DEF WalletState
<1>4. CASE \E i \in Invoice : \/ MoveInvoice(i, {"open", "held"}, "settled")
                              \/ MoveInvoice(i, {"held"}, "failed")
  BY <1>1, <1>4 DEF WalletState
<1>5. ASSUME NEW i, MoveInvoice(i, {"open"}, "held") \/ MoveInvoice(i, {"open"}, "purged")
      PROVE  /\ WalletOK'
             /\ \A j \in Invoice : Final(j) => wallet'[j] = wallet[j]
  BY <1>5 DEF MoveInvoice, WalletOK, Final, WalletState
<1> QED
  BY <1>3, <1>4, <1>5 DEF WalletNext

\* A settled row is only ever pushed back.
LEMMA SettledRowsArePushedBack ==
    ASSUME HistoryAssumption, WalletOK, WalletNext, NEW i \in Invoice, wallet[i] = "settled"
    PROVE  /\ Position(i, "default") \in Nat
           /\ Position(i, "default")' \in Nat
           /\ Position(i, "default") <= Position(i, "default")'
<1> DEFINE S == RowsOf("default")
<1>1. \A j \in Invoice : wallet[j] = "settled" => wallet'[j] = "settled"
  BY WalletKeeps DEF Final
<1>2. PICK T : T = S'
  OBVIOUS
<1>3. S \in SUBSET Invoice /\ T \in SUBSET Invoice /\ S \subseteq T /\ i \in S
  BY <1>1, <1>2 DEF RowsOf
<1>4. Position(i, "default") = Rank(S, i)
  BY PositionIsRank
<1>5. Position(i, "default")' = Rank(T, i)
  BY <1>2 DEF Position, Rank, Newer
<1> HIDE DEF S
<1> QED
  BY <1>3, <1>4, <1>5, RankGrows, RankType

-----------------------------------------------------------------------------
(***************************************************************************)
(* PaymentScan.                                                            *)
(***************************************************************************)
Page == [rows : SUBSET Invoice, count : Nat]

WindowTypes ==
    /\ window \in [view : {"none", "default", "inclusive"},
                   offset : 0..Cardinality(Invoice), anchor : Page,
                   anchor_offset : -1..Cardinality(Invoice), absence_safe : BOOLEAN,
                   observations : [Attempts -> {"unseen", "open", "held"}]]
    /\ slice \in [on : BOOLEAN, pages : 0..MaxPages, verifyingAnchor : BOOLEAN,
                  previous : Page, overlapOnly : BOOLEAN,
                  checks : [Attempts -> {"unseen", "settled", "failed"}]]
    /\ window.view = "none" => window = NoWindow
    /\ ~slice.on => slice = NoSlice
    /\ slice.on => window.view # "none"

\* The overlap lies before the offset.
AnchorIsBehind ==
    /\ window.anchor_offset <= window.offset
    /\ slice.verifyingAnchor => window.anchor_offset >= 0

PaidAtStart(i) == atStart[i] = "settled"

\* What was seen final is final, what was observed was not paid.
SeenIsTrue ==
    /\ \A i \in Attempts : PaidAtStart(i) => wallet[i] = "settled"
    /\ \A i \in Attempts : slice.checks[i] # "unseen" => wallet[i] = slice.checks[i]
    /\ \A i \in Attempts : window.observations[i] # "unseen" => ~PaidAtStart(i)

\* A payment the walk has not reported is still ahead of it.
FoundOrAhead(i) ==
    \/ slice.checks[i] = "settled"
    \/ "settled" \in reported[i]
    \/ window.view = "default" /\ Position(i, "default") >= window.offset

PaidIsAhead ==
    window.view # "none" => \A i \in Attempts : PaidAtStart(i) => FoundOrAhead(i)

\* Only the slice that began the walk may certify absence, and it is the only
\* one: it has reported nothing before.
FreshHasReportedNothing ==
    /\ window.view # "none" /\ (~Resumed \/ (slice.on /\ window.absence_safe)) =>
        \A i \in Attempts : reported[i] = {}
    /\ slice.on /\ slice.pages > 0 => Resumed
    /\ slice.verifyingAnchor => Resumed

Reports ==
    /\ reported \in [Attempts -> SUBSET Verdict]
    /\ outcome \in {"none", "continued", "complete", "stalled", "failed"}

ScanInv ==
    /\ WalletOK /\ WindowTypes /\ Reports
    /\ AnchorIsBehind
    /\ SeenIsTrue
    /\ PaidIsAhead
    /\ FreshHasReportedNothing
    /\ AbsenceIsProven
    /\ CompleteWalkFindsPayments

LEMMA ScanInvInit ==
    ASSUME HistoryAssumption
    PROVE  ScanInit => ScanInv
<1> SUFFICES ASSUME ScanInit
             PROVE  ScanInv
  OBVIOUS
<1>1. Cardinality(Invoice) \in Nat
  <2>1. Invoice \in SUBSET Invoice
    OBVIOUS
  <2> QED
    BY <2>1, FiniteRows
<1>2. WindowTypes
  BY <1>1 DEF ScanInit, WindowTypes, NoWindow, NoSlice, NoPage, Unseen, Page, HistoryAssumption
<1>3. WalletOK /\ Reports
  BY DEF ScanInit, WalletInit, WalletOK, WalletState, Reports
<1>4. AnchorIsBehind /\ SeenIsTrue /\ PaidIsAhead /\ FreshHasReportedNothing
  BY DEF ScanInit, AnchorIsBehind, SeenIsTrue, PaidIsAhead, FreshHasReportedNothing,
         NoWindow, NoSlice, Unseen, PaidAtStart
<1>5. AbsenceIsProven /\ CompleteWalkFindsPayments
  BY DEF ScanInit, AbsenceIsProven, CompleteWalkFindsPayments
<1> QED
  BY <1>2, <1>3, <1>4, <1>5 DEF ScanInv

LEMMA CreateKeeps ==
    ASSUME HistoryAssumption, ScanInv, CreateWindow
    PROVE  ScanInv'
<1> USE DEF ScanInv, CreateWindow, NoWindow, NoSlice, Unseen
<1>1. /\ window' = [NoWindow EXCEPT !.view = "default", !.absence_safe = TRUE]
      /\ window'.view = "default" /\ window'.offset = 0 /\ window'.anchor_offset = -1
      /\ window'.observations = Unseen /\ window'.absence_safe = TRUE
      /\ window'.anchor = window.anchor
      /\ window' \in [view : {"none", "default", "inclusive"},
                   offset : 0..Cardinality(Invoice), anchor : Page,
                   anchor_offset : -1..Cardinality(Invoice), absence_safe : BOOLEAN,
                   observations : [Attempts -> {"unseen", "open", "held"}]]
  BY DEF WindowTypes
<1>2. ~slice.on /\ slice = NoSlice
  BY DEF WindowTypes
<1>3. WindowTypes' /\ AnchorIsBehind'
  BY <1>1, <1>2 DEF WindowTypes, AnchorIsBehind
<1>4. WalletOK' /\ Reports' /\ SeenIsTrue'
  BY <1>1, <1>2 DEF WalletOK, Reports, SeenIsTrue, PaidAtStart
<1>5. PaidIsAhead'
  <2> SUFFICES ASSUME NEW i \in Attempts, PaidAtStart(i)'
               PROVE  FoundOrAhead(i)'
    BY DEF PaidIsAhead
  <2>1. i \in RowsOf("default") /\ i \in Invoice
    BY DEF RowsOf, PaidAtStart, HistoryAssumption
  <2>2. Position(i, "default") \in Nat
    BY <2>1, RowsAreInvoices, PositionIsRank, RankType
  <2>3. Position(i, "default")' = Position(i, "default")
    BY DEF Position, RowsOf
  <2> QED
    BY <1>1, <2>2, <2>3 DEF FoundOrAhead
<1>6. FreshHasReportedNothing'
  BY <1>2 DEF FreshHasReportedNothing
<1>7. AbsenceIsProven' /\ CompleteWalkFindsPayments'
  BY DEF AbsenceIsProven, CompleteWalkFindsPayments
<1> QED
  BY <1>3, <1>4, <1>5, <1>6, <1>7

LEMMA StartKeeps ==
    ASSUME HistoryAssumption, ScanInv, StartSlice
    PROVE  ScanInv'
<1> USE DEF ScanInv, StartSlice
<1>1. ~slice.on /\ slice = NoSlice /\ window.view # "none"
  BY DEF WindowTypes, NoWindow
<1>2. /\ window' = [window EXCEPT !.absence_safe = @ /\ ~Resumed]
      /\ window'.view = window.view /\ window'.offset = window.offset
      /\ window'.anchor_offset = window.anchor_offset
      /\ window'.observations = window.observations
      /\ window'.absence_safe => ~Resumed
  BY DEF WindowTypes
<1>b. PICK verify \in BOOLEAN :
        verify = (Resumed /\ MaxPages > 1 /\ window.anchor_offset # -1)
  OBVIOUS
<1>3. slice' = [on |-> TRUE, pages |-> 0, verifyingAnchor |-> verify,
                previous |-> window.anchor, overlapOnly |-> FALSE, checks |-> Unseen]
  BY <1>b DEF NoSlice
<1>a. \A i \in Attempts : slice.checks[i] = "unseen" /\ slice'.checks[i] = "unseen"
  BY <1>1, <1>3 DEF NoSlice, Unseen
<1>4. Resumed' = Resumed
  BY <1>2 DEF Resumed
<1>5. WindowTypes'
  <2>1. window' \in [view : {"none", "default", "inclusive"},
                   offset : 0..Cardinality(Invoice), anchor : Page,
                   anchor_offset : -1..Cardinality(Invoice), absence_safe : BOOLEAN,
                   observations : [Attempts -> {"unseen", "open", "held"}]]
    BY <1>2 DEF WindowTypes
  <2>2. slice' \in [on : BOOLEAN, pages : 0..MaxPages, verifyingAnchor : BOOLEAN,
                  previous : Page, overlapOnly : BOOLEAN,
                  checks : [Attempts -> {"unseen", "settled", "failed"}]]
    BY <1>3 DEF WindowTypes, Unseen, HistoryAssumption
  <2> QED
    BY <1>1, <1>2, <1>3, <2>1, <2>2 DEF WindowTypes
<1>6. AnchorIsBehind'
  BY <1>2, <1>3, <1>b DEF AnchorIsBehind, WindowTypes
<1>7. WalletOK' /\ Reports' /\ SeenIsTrue'
  BY <1>2, <1>a DEF WalletOK, Reports, SeenIsTrue, PaidAtStart
<1>8. PaidIsAhead'
  <2> SUFFICES ASSUME NEW i \in Attempts, PaidAtStart(i)'
               PROVE  FoundOrAhead(i)'
    BY DEF PaidIsAhead
  <2>1. FoundOrAhead(i)
    BY <1>1 DEF PaidIsAhead, PaidAtStart
  <2>2. Position(i, "default")' = Position(i, "default")
    BY DEF Position, RowsOf
  <2>3. reported' = reported /\ window'.view = window.view /\ window'.offset = window.offset
    BY <1>2
  <2>4. \/ "settled" \in reported[i]
        \/ window.view = "default" /\ Position(i, "default") >= window.offset
    BY <1>a, <2>1 DEF FoundOrAhead
  <2> QED
    BY <2>2, <2>3, <2>4 DEF FoundOrAhead
<1>9. FreshHasReportedNothing'
  <2>1. slice'.pages = 0 /\ slice'.verifyingAnchor = verify
    <3> HIDE DEF StartSlice, ScanInv
    <3> QED
      BY <1>3
  <2>2. ~Resumed => \A i \in Attempts : reported[i] = {}
    BY <1>1 DEF FreshHasReportedNothing
  <2>3. /\ Resumed' <=> Resumed
        /\ reported' = reported
        /\ window'.absence_safe => ~Resumed
    BY <1>2, <1>4
  <2> QED
    BY <1>b, <2>1, <2>2, <2>3 DEF FreshHasReportedNothing
<1>10. AbsenceIsProven' /\ CompleteWalkFindsPayments'
  BY DEF AbsenceIsProven, CompleteWalkFindsPayments
<1> QED
  BY <1>5, <1>6, <1>7, <1>8, <1>9, <1>10

\* The walk is over: what it tells in the end must be true.
LEMMA EndKeeps ==
    ASSUME HistoryAssumption, ScanInv, UNCHANGED <<wallet, atStart>>,
           NEW checks \in [Attempts -> Verdict \cup {"unseen"}],
           NEW end \in {"complete", "stalled", "failed"},
           EndSlice(checks, end, NoWindow),
           \A i \in Attempts : checks[i] \in {"not_found", "open", "held"} => ~PaidAtStart(i),
           end = "complete" => \A i \in Attempts : PaidAtStart(i) =>
                checks[i] = "settled" \/ "settled" \in reported[i]
    PROVE  ScanInv'
<1> USE DEF ScanInv, EndSlice
<1>1. Cardinality(Invoice) \in Nat
  <2>1. Invoice \in SUBSET Invoice
    OBVIOUS
  <2> QED
    BY <2>1, FiniteRows
<1>2. WindowTypes'
  BY <1>1 DEF WindowTypes, NoWindow, NoSlice, NoPage, Unseen, Page, HistoryAssumption
<1>3. \A i \in Attempts : reported'[i] = reported[i] \cup ({checks[i]} \ {"unseen"})
  BY DEF Told
<1>4. WalletOK' /\ Reports'
  <2>1. reported' \in [Attempts -> SUBSET Verdict]
    BY DEF Told, Reports
  <2> QED
    BY <2>1 DEF WalletOK, Reports
<1>5. AnchorIsBehind' /\ SeenIsTrue' /\ PaidIsAhead' /\ FreshHasReportedNothing'
  BY DEF AnchorIsBehind, SeenIsTrue, PaidIsAhead, FreshHasReportedNothing,
         NoWindow, NoSlice, Unseen, PaidAtStart
<1>6. AbsenceIsProven'
  BY <1>3 DEF AbsenceIsProven, PaidAtStart
<1>7. CompleteWalkFindsPayments'
  BY <1>3 DEF CompleteWalkFindsPayments, PaidAtStart
<1> QED
  BY <1>2, <1>4, <1>5, <1>6, <1>7

LEMMA FailKeeps ==
    ASSUME HistoryAssumption, ScanInv, FailSlice
    PROVE  ScanInv'
<1> DEFINE checks ==
        [i \in Attempts |-> IF slice.checks[i] = "settled" THEN "settled" ELSE "unseen"]
<1>1. PICK c : c = checks
  OBVIOUS
<1>2. c \in [Attempts -> Verdict \cup {"unseen"}]
  BY <1>1 DEF Verdict
<1>3. \A i \in Attempts : c[i] \notin {"not_found", "open", "held"}
  BY <1>1
<1>4. EndSlice(c, "failed", NoWindow) /\ UNCHANGED <<wallet, atStart>>
  BY <1>1 DEF FailSlice
<1> HIDE DEF checks
<1> QED
  BY <1>2, <1>3, <1>4, EndKeeps

LEMMA CutKeeps ==
    ASSUME HistoryAssumption, ScanInv, CutSlice
    PROVE  ScanInv'
<1> USE DEF ScanInv, CutSlice, EndSlice
<1>1. /\ window'.view = window.view /\ window'.offset = window.offset
      /\ window'.anchor_offset \in {window.anchor_offset, -1}
      /\ window'.observations = window.observations
      /\ window' \in [view : {"none", "default", "inclusive"},
                   offset : 0..Cardinality(Invoice), anchor : Page,
                   anchor_offset : -1..Cardinality(Invoice), absence_safe : BOOLEAN,
                   observations : [Attempts -> {"unseen", "open", "held"}]]
  <2>1. CASE slice.overlapOnly
    <3>1. window' = [window EXCEPT !.anchor_offset = -1]
      BY <2>1 DEF WithOverlapSpent
    <3>2. Cardinality(Invoice) \in Nat
      <4>1. Invoice \in SUBSET Invoice
        OBVIOUS
      <4> QED
        BY <4>1, FiniteRows
    <3> QED
      BY <3>1, <3>2 DEF WindowTypes
  <2>2. CASE ~slice.overlapOnly
    BY <2>2 DEF WithOverlapSpent, WindowTypes
  <2> QED
    BY <2>1, <2>2
<1>2. slice' = NoSlice /\ window.view # "none"
  BY DEF WindowTypes
<1>3. \A i \in Attempts :
        reported'[i] = reported[i] \cup ({slice.checks[i]} \ {"unseen"})
  BY DEF Told
<1>4. WindowTypes'
  BY <1>1, <1>2 DEF WindowTypes, NoSlice, NoPage, Unseen, Page, HistoryAssumption
<1>5. WalletOK' /\ Reports'
  <2>1. reported' \in [Attempts -> SUBSET Verdict]
    BY DEF Told, Reports, WindowTypes, Verdict
  <2> QED
    BY <2>1 DEF WalletOK, Reports
<1>6. AnchorIsBehind' /\ SeenIsTrue'
  BY <1>1, <1>2 DEF AnchorIsBehind, SeenIsTrue, NoSlice, Unseen, PaidAtStart, WindowTypes
<1>7. PaidIsAhead'
  <2> SUFFICES ASSUME NEW i \in Attempts, PaidAtStart(i)'
               PROVE  FoundOrAhead(i)'
    BY DEF PaidIsAhead
  <2>1. FoundOrAhead(i)
    BY <1>2 DEF PaidIsAhead, PaidAtStart
  <2>2. Position(i, "default")' = Position(i, "default")
    BY DEF Position, RowsOf
  <2> QED
    BY <1>1, <1>3, <2>1, <2>2 DEF FoundOrAhead
<1>8. FreshHasReportedNothing'
  BY <1>1, <1>2 DEF FreshHasReportedNothing, Resumed, NoSlice
<1>9. AbsenceIsProven' /\ CompleteWalkFindsPayments'
  BY <1>3 DEF AbsenceIsProven, CompleteWalkFindsPayments, WindowTypes
<1> QED
  BY <1>4, <1>5, <1>6, <1>7, <1>8, <1>9

LEMMA MoveKeeps ==
    ASSUME HistoryAssumption, ScanInv, WalletNext, UNCHANGED windowVars
    PROVE  ScanInv'
<1> USE DEF ScanInv
<1>1. UNCHANGED <<window, slice, reported, outcome, atStart>>
  BY DEF windowVars
<1>2. WalletOK' /\ \A i \in Invoice : Final(i) => wallet'[i] = wallet[i]
  BY WalletKeeps
<1>3. WindowTypes' /\ Reports' /\ AnchorIsBehind' /\ FreshHasReportedNothing'
  BY <1>1 DEF WindowTypes, Reports, AnchorIsBehind, FreshHasReportedNothing, Resumed
<1>4. SeenIsTrue'
  BY <1>1, <1>2 DEF SeenIsTrue, PaidAtStart, Final, HistoryAssumption, WindowTypes
<1>5. PaidIsAhead'
  <2> SUFFICES ASSUME NEW i \in Attempts, PaidAtStart(i)', window.view # "none"
               PROVE  FoundOrAhead(i)'
    BY <1>1 DEF PaidIsAhead
  <2>1. FoundOrAhead(i) /\ wallet[i] = "settled" /\ i \in Invoice
    BY <1>1 DEF PaidIsAhead, PaidAtStart, SeenIsTrue, HistoryAssumption
  <2>2. /\ Position(i, "default") \in Nat /\ Position(i, "default")' \in Nat
        /\ Position(i, "default") <= Position(i, "default")'
    BY <2>1, SettledRowsArePushedBack
  <2> QED
    BY <1>1, <2>1, <2>2 DEF FoundOrAhead, WindowTypes
<1>6. AbsenceIsProven' /\ CompleteWalkFindsPayments'
  BY <1>1 DEF AbsenceIsProven, CompleteWalkFindsPayments
<1> QED
  BY <1>2, <1>3, <1>4, <1>5, <1>6

-----------------------------------------------------------------------------
\* An answered page, and what the slice makes of it.
PageRead(offset, page, checks, observations) ==
    /\ offset = IF slice.verifyingAnchor THEN window.anchor_offset ELSE window.offset
    /\ page = PageAt(window.view, offset)
    /\ checks = ChecksAfter(page)
    /\ observations = ObservationsAfter(page)

LEMMA PageReadTypes ==
    ASSUME HistoryAssumption, ScanInv, slice.on,
           NEW offset, NEW page, NEW checks, NEW observations,
           PageRead(offset, page, checks, observations)
    PROVE  /\ offset \in 0..Cardinality(Invoice) /\ offset <= window.offset
           /\ page \in Page /\ page.rows \subseteq RowsOf(window.view)
           /\ offset + page.count \in 0..Cardinality(Invoice)
<1>1. Cardinality(Invoice) \in Nat
  <2>1. Invoice \in SUBSET Invoice
    OBVIOUS
  <2> QED
    BY <2>1, FiniteRows
<1>2. offset \in 0..Cardinality(Invoice) /\ offset <= window.offset
  BY <1>1 DEF PageRead, ScanInv, AnchorIsBehind, WindowTypes
<1>3. PICK view : view = window.view
  OBVIOUS
<1>4. page = PageAt(view, offset)
  BY <1>3 DEF PageRead
<1> QED
  BY <1>2, <1>3, <1>4, PageType DEF Page

LEMMA ChecksAreTrue ==
    ASSUME HistoryAssumption, ScanInv, slice.on,
           NEW offset, NEW page, NEW checks, NEW observations,
           PageRead(offset, page, checks, observations)
    PROVE  /\ checks \in [Attempts -> {"unseen", "settled", "failed"}]
           /\ \A i \in Attempts :
                /\ checks[i] # "unseen" => wallet[i] = checks[i]
                /\ slice.checks[i] = "settled" => checks[i] = "settled"
                /\ PaidAtStart(i) => checks[i] # "failed"
                /\ i \in page.rows /\ PaidAtStart(i) => checks[i] = "settled"
<1>1. checks = [i \in Attempts |->
        IF i \in page.rows /\ Final(i) /\ slice.checks[i] # "settled" THEN wallet[i]
        ELSE slice.checks[i]]
  BY DEF PageRead, ChecksAfter
<1>2. /\ slice.checks \in [Attempts -> {"unseen", "settled", "failed"}]
      /\ \A i \in Attempts : slice.checks[i] # "unseen" => wallet[i] = slice.checks[i]
      /\ \A i \in Attempts : PaidAtStart(i) => wallet[i] = "settled"
  BY DEF ScanInv, WindowTypes, SeenIsTrue
<1>3. checks \in [Attempts -> {"unseen", "settled", "failed"}]
  BY <1>1, <1>2 DEF Final
<1>4. ASSUME NEW i \in Attempts
      PROVE  /\ checks[i] # "unseen" => wallet[i] = checks[i]
             /\ slice.checks[i] = "settled" => checks[i] = "settled"
  BY <1>1, <1>2 DEF Final
<1>5. ASSUME NEW i \in Attempts, PaidAtStart(i)
      PROVE  /\ checks[i] # "failed"
             /\ i \in page.rows => checks[i] = "settled"
  BY <1>1, <1>2, <1>5 DEF Final
<1> QED
  BY <1>3, <1>4, <1>5

LEMMA ObservationsAreTrue ==
    ASSUME HistoryAssumption, ScanInv, slice.on,
           NEW offset, NEW page, NEW checks, NEW observations,
           PageRead(offset, page, checks, observations)
    PROVE  /\ observations \in [Attempts -> {"unseen", "open", "held"}]
           /\ \A i \in Attempts : observations[i] # "unseen" => ~PaidAtStart(i)
<1>1. observations = [i \in Attempts |->
        IF i \notin page.rows THEN window.observations[i]
        ELSE IF Final(i) THEN "unseen"
        ELSE IF slice.checks[i] = "unseen" THEN wallet[i]
        ELSE window.observations[i]]
  BY DEF PageRead, ObservationsAfter
<1>2. /\ window.observations \in [Attempts -> {"unseen", "open", "held"}]
      /\ \A i \in Attempts : window.observations[i] # "unseen" => ~PaidAtStart(i)
      /\ \A i \in Attempts : PaidAtStart(i) => wallet[i] = "settled"
      /\ \A i \in Attempts : wallet[i] \in WalletState
      /\ window.view \in {"default", "inclusive"}
  BY DEF ScanInv, WindowTypes, SeenIsTrue, WalletOK, HistoryAssumption
<1>3. page.rows \subseteq RowsOf(window.view)
  BY PageReadTypes
<1>4. ASSUME NEW i \in Attempts, i \in page.rows, ~Final(i)
      PROVE  wallet[i] \in {"open", "held"}
  BY <1>2, <1>3, <1>4 DEF RowsOf, Final, WalletState
<1>5. ASSUME NEW i \in Attempts
      PROVE  observations[i] \in {"unseen", "open", "held"}
  BY <1>1, <1>2, <1>4
<1>6. ASSUME NEW i \in Attempts, observations[i] # "unseen"
      PROVE  ~PaidAtStart(i)
  BY <1>1, <1>2, <1>6 DEF Final
<1> QED
  BY <1>1, <1>5, <1>6

\* What the page does not show of the payments is behind it.
LEMMA PageFinds ==
    ASSUME HistoryAssumption, ScanInv, slice.on,
           NEW offset, NEW page, NEW checks, NEW observations,
           PageRead(offset, page, checks, observations),
           NEW i \in Attempts, PaidAtStart(i)
    PROVE  \/ checks[i] = "settled"
           \/ "settled" \in reported[i]
           \/ /\ window.view = "default"
              /\ page.count # 0
              /\ Position(i, "default") >= window.offset
              /\ Position(i, "default") >= offset + page.count
<1>1. FoundOrAhead(i) /\ wallet[i] = "settled" /\ window.view # "none"
  BY DEF ScanInv, PaidIsAhead, SeenIsTrue, WindowTypes
<1>2. \/ checks[i] = "settled"
      \/ "settled" \in reported[i]
      \/ window.view = "default" /\ Position(i, "default") >= window.offset
  BY <1>1, ChecksAreTrue DEF FoundOrAhead
<1>3. SUFFICES ASSUME checks[i] # "settled", window.view = "default",
                      Position(i, "default") >= window.offset
               PROVE  /\ page.count # 0
                      /\ Position(i, "default") >= offset + page.count
  BY <1>2
<1>4. i \in RowsOf("default") \ Unreadable /\ i \in Invoice
  BY <1>1 DEF RowsOf, HistoryAssumption
<1>5. i \notin page.rows
  BY <1>3, ChecksAreTrue
<1>6. /\ offset \in Nat /\ offset <= window.offset /\ window.offset \in Nat
      /\ page = PageAt("default", offset)
  <2>1. offset \in Nat /\ offset <= window.offset
    BY PageReadTypes
  <2> QED
    BY <1>3, <2>1 DEF PageRead, ScanInv, WindowTypes
<1>7. Position(i, "default") \in Nat
  BY <1>4, RowsAreInvoices, PositionIsRank, RankType
<1>8. Position(i, "default") >= offset
  BY <1>3, <1>6, <1>7
<1>9. Position(i, "default") >= offset + page.count
  BY <1>4, <1>5, <1>6, <1>8, PageSkipsNoRow
<1>10. page.count # 0
  BY <1>4, <1>6, <1>7, <1>8, EmptyPageIsTheEnd
<1> QED
  BY <1>9, <1>10

\* The slice reads on: what it must have kept of the payments.
LEMMA ReadOnKeeps ==
    ASSUME HistoryAssumption, ScanInv, slice.on, slice.pages < MaxPages,
           UNCHANGED <<wallet, reported, outcome, atStart>>,
           NEW checks \in [Attempts -> {"unseen", "settled", "failed"}],
           NEW observations \in [Attempts -> {"unseen", "open", "held"}],
           \A i \in Attempts : checks[i] # "unseen" => wallet[i] = checks[i],
           \A i \in Attempts : observations[i] # "unseen" => ~PaidAtStart(i),
           NEW view \in {"default", "inclusive"}, NEW at \in 0..Cardinality(Invoice),
           NEW anchor \in Page, NEW anchorAt \in -1..Cardinality(Invoice), anchorAt <= at,
           NEW safe \in BOOLEAN, safe => window.absence_safe,
           NEW previous \in Page, NEW only \in BOOLEAN,
           window' = [view |-> view, offset |-> at, anchor |-> anchor,
                      anchor_offset |-> anchorAt, absence_safe |-> safe,
                      observations |-> observations],
           slice' = [on |-> TRUE, pages |-> slice.pages + 1, verifyingAnchor |-> FALSE,
                     previous |-> previous, overlapOnly |-> only, checks |-> checks],
           at > 0 \/ view = "inclusive",
           \A i \in Attempts : PaidAtStart(i) =>
                \/ checks[i] = "settled" \/ "settled" \in reported[i]
                \/ view = "default" /\ Position(i, "default") >= at
    PROVE  ScanInv'
<1>1. /\ window'.view = view /\ window'.offset = at /\ window'.anchor_offset = anchorAt
      /\ window'.absence_safe = safe /\ window'.observations = observations
  OBVIOUS
<1>2. /\ slice'.on = TRUE /\ slice'.pages = slice.pages + 1
      /\ slice'.verifyingAnchor = FALSE /\ slice'.checks = checks
  OBVIOUS
<1>3. WindowTypes'
  <2>1. slice.pages + 1 \in 0..MaxPages
    BY DEF ScanInv, WindowTypes, HistoryAssumption
  <2>2. window' \in [view : {"none", "default", "inclusive"},
                   offset : 0..Cardinality(Invoice), anchor : Page,
                   anchor_offset : -1..Cardinality(Invoice), absence_safe : BOOLEAN,
                   observations : [Attempts -> {"unseen", "open", "held"}]]
    OBVIOUS
  <2>3. slice' \in [on : BOOLEAN, pages : 0..MaxPages, verifyingAnchor : BOOLEAN,
                  previous : Page, overlapOnly : BOOLEAN,
                  checks : [Attempts -> {"unseen", "settled", "failed"}]]
    BY <2>1
  <2> QED
    BY <1>1, <1>2, <2>2, <2>3 DEF WindowTypes
<1>4. WalletOK' /\ Reports' /\ AbsenceIsProven' /\ CompleteWalkFindsPayments'
  BY DEF ScanInv, WalletOK, Reports, AbsenceIsProven, CompleteWalkFindsPayments
<1>5. AnchorIsBehind' /\ SeenIsTrue'
  BY <1>1, <1>2 DEF ScanInv, AnchorIsBehind, SeenIsTrue, PaidAtStart
<1>6. PaidIsAhead'
  <2> SUFFICES ASSUME NEW i \in Attempts, PaidAtStart(i)'
               PROVE  FoundOrAhead(i)'
    BY DEF PaidIsAhead
  <2>1. \/ checks[i] = "settled" \/ "settled" \in reported[i]
        \/ view = "default" /\ Position(i, "default") >= at
    BY DEF PaidAtStart
  <2>2. Position(i, "default")' = Position(i, "default")
    BY DEF Position, RowsOf
  <2> QED
    BY <1>1, <1>2, <2>1, <2>2 DEF FoundOrAhead
<1>7. FreshHasReportedNothing'
  <2>1. Resumed'
    BY <1>1 DEF Resumed
  <2>2. window'.absence_safe => \A i \in Attempts : reported'[i] = {}
    BY <1>1 DEF ScanInv, FreshHasReportedNothing, WindowTypes
  <2> QED
    BY <1>2, <2>1, <2>2 DEF FreshHasReportedNothing
<1> QED
  BY <1>3, <1>4, <1>5, <1>6, <1>7 DEF ScanInv

LEMMA WindowFields ==
    ASSUME WindowTypes
    PROVE  /\ window = [view |-> window.view, offset |-> window.offset,
                        anchor |-> window.anchor, anchor_offset |-> window.anchor_offset,
                        absence_safe |-> window.absence_safe,
                        observations |-> window.observations]
           /\ slice = [on |-> slice.on, pages |-> slice.pages,
                       verifyingAnchor |-> slice.verifyingAnchor,
                       previous |-> slice.previous, overlapOnly |-> slice.overlapOnly,
                       checks |-> slice.checks]
  BY DEF WindowTypes

LEMMA PastOverlapKeeps ==
    ASSUME HistoryAssumption, ScanInv, slice.on, slice.pages < MaxPages,
           UNCHANGED <<wallet, atStart>>, slice.verifyingAnchor,
           NEW offset, NEW page, NEW checks, NEW observations,
           PageRead(offset, page, checks, observations),
           PastOverlap(checks, observations)
    PROVE  ScanInv'
<1>1. WindowTypes /\ window.view # "none" /\ Resumed
  BY DEF ScanInv, WindowTypes, FreshHasReportedNothing
<1>2. window' = [view |-> window.view, offset |-> window.offset,
                 anchor |-> window.anchor, anchor_offset |-> window.anchor_offset,
                 absence_safe |-> window.absence_safe, observations |-> observations]
  BY <1>1, WindowFields DEF PastOverlap
<1>3. slice' = [on |-> TRUE, pages |-> slice.pages + 1, verifyingAnchor |-> FALSE,
                previous |-> slice.previous, overlapOnly |-> TRUE, checks |-> checks]
  BY <1>1, WindowFields DEF PastOverlap, WindowTypes
<1>4. UNCHANGED <<reported, outcome>>
  BY DEF PastOverlap
<1>5. window.offset > 0 \/ window.view = "inclusive"
  BY <1>1 DEF Resumed
<1>6. \A i \in Attempts : PaidAtStart(i) =>
        \/ checks[i] = "settled" \/ "settled" \in reported[i]
        \/ window.view = "default" /\ Position(i, "default") >= window.offset
  BY PageFinds
<1>7. /\ checks \in [Attempts -> {"unseen", "settled", "failed"}]
      /\ \A i \in Attempts : checks[i] # "unseen" => wallet[i] = checks[i]
  BY ChecksAreTrue
<1>8. /\ observations \in [Attempts -> {"unseen", "open", "held"}]
      /\ \A i \in Attempts : observations[i] # "unseen" => ~PaidAtStart(i)
  BY ObservationsAreTrue
<1>9. PICK view, at, anchor, anchorAt, safe, previous :
        /\ view = window.view /\ at = window.offset /\ anchor = window.anchor
        /\ anchorAt = window.anchor_offset /\ safe = window.absence_safe
        /\ previous = slice.previous
  OBVIOUS
<1>10. /\ view \in {"default", "inclusive"} /\ at \in 0..Cardinality(Invoice)
       /\ anchor \in Page /\ anchorAt \in -1..Cardinality(Invoice) /\ anchorAt <= at
       /\ safe \in BOOLEAN /\ (safe => window.absence_safe) /\ previous \in Page
  BY <1>1, <1>9 DEF WindowTypes, ScanInv, AnchorIsBehind
<1> QED
  BY <1>2, <1>3, <1>4, <1>5, <1>6, <1>7, <1>8, <1>9, <1>10, ReadOnKeeps

LEMMA ToInclusiveKeeps ==
    ASSUME HistoryAssumption, ScanInv, slice.on, slice.pages < MaxPages,
           UNCHANGED <<wallet, atStart>>,
           NEW offset, NEW page, NEW checks, NEW observations,
           PageRead(offset, page, checks, observations), page.count = 0,
           NEW safe, safe = (window.absence_safe /\ ~slice.verifyingAnchor),
           ToInclusive(checks, observations, safe)
    PROVE  ScanInv'
<1>1. WindowTypes /\ safe \in BOOLEAN /\ (safe => window.absence_safe)
  BY DEF ScanInv
<1>2. window' = [view |-> "inclusive", offset |-> 0, anchor |-> NoPage,
                 anchor_offset |-> -1, absence_safe |-> safe,
                 observations |-> observations]
  BY DEF ToInclusive, NoWindow
<1>3. slice' = [on |-> TRUE, pages |-> slice.pages + 1, verifyingAnchor |-> FALSE,
                previous |-> NoPage, overlapOnly |-> FALSE, checks |-> checks]
  BY <1>1, WindowFields DEF ToInclusive, WindowTypes
<1>4. UNCHANGED <<reported, outcome>>
  BY DEF ToInclusive
<1>5. \A i \in Attempts : PaidAtStart(i) =>
        checks[i] = "settled" \/ "settled" \in reported[i]
  BY PageFinds
<1>6. /\ checks \in [Attempts -> {"unseen", "settled", "failed"}]
      /\ \A i \in Attempts : checks[i] # "unseen" => wallet[i] = checks[i]
  BY ChecksAreTrue
<1>7. /\ observations \in [Attempts -> {"unseen", "open", "held"}]
      /\ \A i \in Attempts : observations[i] # "unseen" => ~PaidAtStart(i)
  BY ObservationsAreTrue
<1>8. /\ NoPage \in Page /\ 0 \in 0..Cardinality(Invoice)
      /\ -1 \in -1..Cardinality(Invoice) /\ -1 <= 0
  <2>1. Invoice \in SUBSET Invoice
    OBVIOUS
  <2>2. Cardinality(Invoice) \in Nat
    BY <2>1, FiniteRows
  <2> QED
    BY <2>2 DEF NoPage, Page
<1>9. PICK anchor, anchorAt, at : anchor = NoPage /\ anchorAt = -1 /\ at = 0
  OBVIOUS
<1> QED
  BY <1>1, <1>2, <1>3, <1>4, <1>5, <1>6, <1>7, <1>8, <1>9, ReadOnKeeps

\* What is certified at the end of a walk: finality, or no payment at its start.
LEMMA CertifiedIsTrue ==
    ASSUME HistoryAssumption, ScanInv, slice.on,
           NEW offset, NEW page, NEW checks, NEW observations,
           PageRead(offset, page, checks, observations),
           NEW safe, safe = (window.absence_safe /\ ~slice.verifyingAnchor),
           NEW end \in BOOLEAN,
           end => window.view = "inclusive",
           NEW certified, certified = Certified(checks, observations, safe, end)
    PROVE  /\ certified \in [Attempts -> Verdict \cup {"unseen"}]
           /\ \A i \in Attempts : certified[i] \in {"not_found", "open", "held"} => ~PaidAtStart(i)
           /\ \A i \in Attempts : checks[i] = "settled" => certified[i] = "settled"
<1>1. checks \in [Attempts -> {"unseen", "settled", "failed"}]
  BY ChecksAreTrue
<1>2. /\ observations \in [Attempts -> {"unseen", "open", "held"}]
      /\ \A i \in Attempts : observations[i] # "unseen" => ~PaidAtStart(i)
  BY ObservationsAreTrue
<1>3. certified = [i \in Attempts |->
        IF checks[i] # "unseen" \/ ~safe THEN checks[i]
        ELSE IF observations[i] # "unseen" THEN observations[i]
        ELSE IF end THEN "not_found" ELSE "unseen"]
  BY DEF Certified
<1>4. safe => \A i \in Attempts : reported[i] = {}
  BY DEF ScanInv, FreshHasReportedNothing, WindowTypes
<1>5. ASSUME NEW i \in Attempts, certified[i] = "not_found", PaidAtStart(i)
      PROVE  FALSE
  <2>1. end /\ safe /\ checks[i] = "unseen"
    BY <1>1, <1>2, <1>3, <1>5
  <2>2. "settled" \in reported[i]
    BY <1>5, <2>1, PageFinds
  <2> QED
    BY <1>4, <2>1, <2>2
<1>6. ASSUME NEW i \in Attempts, certified[i] \in {"open", "held"}
      PROVE  ~PaidAtStart(i)
  BY <1>1, <1>2, <1>3, <1>6
<1>7. certified \in [Attempts -> Verdict \cup {"unseen"}]
  BY <1>1, <1>2, <1>3 DEF Verdict
<1>8. \A i \in Attempts : checks[i] = "settled" => certified[i] = "settled"
  BY <1>3
<1> QED
  BY <1>5, <1>6, <1>7, <1>8

LEMMA StalledKeeps ==
    ASSUME HistoryAssumption, ScanInv, slice.on,
           UNCHANGED <<wallet, atStart>>,
           NEW offset, NEW page, NEW checks, NEW observations,
           PageRead(offset, page, checks, observations),
           EndSlice(checks, "stalled", NoWindow)
    PROVE  ScanInv'
<1>1. checks \in [Attempts -> {"unseen", "settled", "failed"}]
  BY ChecksAreTrue
<1>2. checks \in [Attempts -> Verdict \cup {"unseen"}]
  BY <1>1 DEF Verdict
<1>3. \A i \in Attempts : checks[i] \notin {"not_found", "open", "held"}
  BY <1>1
<1> QED
  BY <1>2, <1>3, EndKeeps

\* The end of the inclusive view, or an attempt's state for every attempt.
LEMMA CompleteKeeps ==
    ASSUME HistoryAssumption, ScanInv, slice.on,
           UNCHANGED <<wallet, atStart>>,
           NEW offset, NEW page, NEW checks, NEW observations,
           PageRead(offset, page, checks, observations),
           NEW safe, safe = (window.absence_safe /\ ~slice.verifyingAnchor),
           NEW end \in BOOLEAN,
           end => window.view = "inclusive" /\ page.count = 0,
           ~end => AllSeen(checks, observations),
           EndSlice(Certified(checks, observations, safe, end), "complete", NoWindow)
    PROVE  ScanInv'
<1>1. PICK certified : certified = Certified(checks, observations, safe, end)
  OBVIOUS
<1>2. /\ certified \in [Attempts -> Verdict \cup {"unseen"}]
      /\ \A i \in Attempts : certified[i] \in {"not_found", "open", "held"} => ~PaidAtStart(i)
      /\ \A i \in Attempts : checks[i] = "settled" => certified[i] = "settled"
  BY <1>1, CertifiedIsTrue
<1>3. ASSUME NEW i \in Attempts, PaidAtStart(i)
      PROVE  certified[i] = "settled" \/ "settled" \in reported[i]
  <2>1. CASE end
    BY <1>2, <1>3, <2>1, PageFinds
  <2>2. CASE ~end
    <3>1. observations[i] = "unseen"
      BY <1>3, ObservationsAreTrue
    <3>2. checks[i] # "unseen" /\ checks[i] # "failed"
      BY <1>3, <2>2, <3>1, ChecksAreTrue DEF AllSeen
    <3>3. checks[i] = "settled"
      BY <3>2, ChecksAreTrue
    <3> QED
      BY <1>2, <3>3
  <2> QED
    BY <2>1, <2>2
<1> QED
  BY <1>1, <1>2, <1>3, EndKeeps

LEMMA AdvanceKeeps ==
    ASSUME HistoryAssumption, ScanInv, slice.on, slice.pages < MaxPages,
           UNCHANGED <<wallet, atStart>>,
           NEW offset, NEW page, NEW checks, NEW observations,
           PageRead(offset, page, checks, observations), page.count > 0,
           NEW safe, safe = (window.absence_safe /\ ~slice.verifyingAnchor),
           Advance(page, offset, checks, observations, safe)
    PROVE  ScanInv'
<1>1. CASE AllSeen(checks, observations)
  <2>1. EndSlice(Certified(checks, observations, safe, FALSE), "complete", NoWindow)
    BY <1>1 DEF Advance
  <2> QED
    BY <1>1, <2>1, CompleteKeeps
<1>2. CASE ~AllSeen(checks, observations)
  <2>1. WindowTypes /\ safe \in BOOLEAN /\ (safe => window.absence_safe)
    BY DEF ScanInv
  <2>2. /\ offset \in 0..Cardinality(Invoice) /\ page \in Page
        /\ offset + page.count \in 0..Cardinality(Invoice)
    BY PageReadTypes
  <2>3. window' = [view |-> window.view, offset |-> offset + page.count, anchor |-> page,
                   anchor_offset |-> offset, absence_safe |-> safe,
                   observations |-> observations]
    BY <1>2, <2>1, WindowFields DEF Advance
  <2>4. slice' = [on |-> TRUE, pages |-> slice.pages + 1, verifyingAnchor |-> FALSE,
                  previous |-> page, overlapOnly |-> FALSE, checks |-> checks]
    BY <1>2, <2>1, WindowFields DEF Advance, WindowTypes
  <2>5. UNCHANGED <<reported, outcome>>
    BY <1>2 DEF Advance
  <2>6. \A i \in Attempts : PaidAtStart(i) =>
          \/ checks[i] = "settled" \/ "settled" \in reported[i]
          \/ window.view = "default" /\ Position(i, "default") >= offset + page.count
    BY PageFinds
  <2>7. /\ checks \in [Attempts -> {"unseen", "settled", "failed"}]
        /\ \A i \in Attempts : checks[i] # "unseen" => wallet[i] = checks[i]
    BY ChecksAreTrue
  <2>8. /\ observations \in [Attempts -> {"unseen", "open", "held"}]
        /\ \A i \in Attempts : observations[i] # "unseen" => ~PaidAtStart(i)
    BY ObservationsAreTrue
  <2>9. PICK view, at : view = window.view /\ at = offset + page.count
    OBVIOUS
  <2>10. /\ view \in {"default", "inclusive"} /\ at \in 0..Cardinality(Invoice)
         /\ offset \in -1..Cardinality(Invoice) /\ offset <= at /\ at > 0
    BY <2>1, <2>2, <2>9 DEF WindowTypes, Page
  <2> QED
    BY <2>1, <2>2, <2>3, <2>4, <2>5, <2>6, <2>7, <2>8, <2>9, <2>10, ReadOnKeeps
<1> QED
  BY <1>1, <1>2

LEMMA ReadKeeps ==
    ASSUME HistoryAssumption, ScanInv, ReadPage
    PROVE  ScanInv'
<1>1. PICK offset, page, checks, observations :
        PageRead(offset, page, checks, observations)
  BY DEF PageRead
<1>2. PICK safe, overlap :
        /\ safe = (window.absence_safe /\ ~slice.verifyingAnchor)
        /\ overlap = (slice.verifyingAnchor /\ page = window.anchor)
  OBVIOUS
<1>3. /\ slice.on /\ slice.pages < MaxPages /\ UNCHANGED <<wallet, atStart>>
      /\ \/ overlap /\ PastOverlap(checks, observations)
         \/ EndSlice(checks, "stalled", NoWindow)
         \/ page.count = 0 /\ ToInclusive(checks, observations, safe)
         \/ /\ page.count = 0 /\ window.view = "inclusive"
            /\ EndSlice(Certified(checks, observations, safe, TRUE), "complete", NoWindow)
         \/ page.count > 0 /\ Advance(page, offset, checks, observations, safe)
  BY <1>1, <1>2 DEF ReadPage, PageRead
<1>4. CASE overlap /\ PastOverlap(checks, observations)
  BY <1>1, <1>2, <1>3, <1>4, PastOverlapKeeps
<1>5. CASE EndSlice(checks, "stalled", NoWindow)
  BY <1>1, <1>3, <1>5, StalledKeeps
<1>6. CASE page.count = 0 /\ ToInclusive(checks, observations, safe)
  BY <1>1, <1>2, <1>3, <1>6, ToInclusiveKeeps
<1>7. CASE /\ page.count = 0 /\ window.view = "inclusive"
           /\ EndSlice(Certified(checks, observations, safe, TRUE), "complete", NoWindow)
  BY <1>1, <1>2, <1>3, <1>7, CompleteKeeps
<1>8. CASE page.count > 0 /\ Advance(page, offset, checks, observations, safe)
  BY <1>1, <1>2, <1>3, <1>8, AdvanceKeeps
<1> QED
  BY <1>3, <1>4, <1>5, <1>6, <1>7, <1>8

LEMMA ScanInvStep ==
    ASSUME HistoryAssumption, ScanInv, [ScanNext]_scanVars
    PROVE  ScanInv'
<1>1. CASE CreateWindow
  BY <1>1, CreateKeeps
<1>2. CASE StartSlice
  BY <1>2, StartKeeps
<1>3. CASE ReadPage
  BY <1>3, ReadKeeps
<1>4. CASE CutSlice
  BY <1>4, CutKeeps
<1>5. CASE FailSlice
  BY <1>5, FailKeeps
<1>6. CASE WalletNext /\ UNCHANGED windowVars
  BY <1>6, MoveKeeps
<1>7. CASE UNCHANGED scanVars
  BY <1>7 DEF scanVars, windowVars, ScanInv, WalletOK, WindowTypes, Reports, AnchorIsBehind,
              SeenIsTrue, PaidIsAhead, FoundOrAhead, FreshHasReportedNothing, Resumed,
              AbsenceIsProven, CompleteWalkFindsPayments, PaidAtStart, Position, RowsOf
<1> QED
  BY <1>1, <1>2, <1>3, <1>4, <1>5, <1>6, <1>7 DEF ScanNext, Walk

LEMMA ScanInvariant ==
    ASSUME HistoryAssumption
    PROVE  ScanSpec => []ScanInv
<1>1. ScanInit => ScanInv
  BY ScanInvInit
<1>2. ScanInv /\ [ScanNext]_scanVars => ScanInv'
  BY ScanInvStep
<1> QED
  BY <1>1, <1>2, PTL DEF ScanSpec

\* Offsets never leave the history, the page cap is kept, and what a walk keeps
\* and tells has its type.
THEOREM ScanTypes ==
    ASSUME HistoryAssumption
    PROVE  ScanSpec => []ScanTypeOK
<1>1. ScanInv => ScanTypeOK
  BY DEF ScanInv, WalletOK, WindowTypes, Reports, ScanTypeOK
<1> QED
  BY <1>1, ScanInvariant, PTL

\* What a clock may close, because a walk certified it absent or still pending,
\* was not paid when the walk's window was created (scanPaymentSlice), however
\* the history moved and wherever the walk was cut.
THEOREM AbsenceIsCertain ==
    ASSUME HistoryAssumption
    PROVE  ScanSpec => []AbsenceIsProven
<1>1. ScanInv => AbsenceIsProven
  BY DEF ScanInv
<1> QED
  BY <1>1, ScanInvariant, PTL

\* A walk that ran to its end has reported every payment that was there when it
\* began, for any page size and any number of slices: offsets that shift under
\* it repeat rows of the settled view and never skip one.
THEOREM NoPaymentIsSkipped ==
    ASSUME HistoryAssumption
    PROVE  ScanSpec => []CompleteWalkFindsPayments
<1>1. ScanInv => CompleteWalkFindsPayments
  BY DEF ScanInv
<1> QED
  BY <1>1, ScanInvariant, PTL

-----------------------------------------------------------------------------
(***************************************************************************)
(* ReconcileWalk: the walk without durable state, over the same history.   *)
(***************************************************************************)
WalkTypes ==
    /\ walk \in [view : {"none", "default", "inclusive"}, offset : 0..Cardinality(Invoice),
                 pages : Nat, previousPage : SUBSET Invoice, first : BOOLEAN,
                 outstanding : SUBSET Attempts, truncated : BOOLEAN]
    /\ found \in [Attempts -> {"unseen", "open", "held", "settled", "failed"}]
    /\ verdict \in [Attempts -> {"none", "omitted", "not_found", "open", "held",
                                 "settled", "failed"}]

\* A payment is reported as one; in the settled view it is found or still ahead,
\* in the inclusive one it is found unless the settled view was cut short.
PaidIsFound ==
    /\ \A i \in Attempts : PaidAtStart(i) => wallet[i] = "settled"
    /\ walk.view # "none" =>
        \A i \in Attempts : PaidAtStart(i) =>
            /\ found[i] \in {"unseen", "settled"}
            /\ walk.view = "default" =>
                \/ found[i] = "settled"
                \/ i \in walk.outstanding /\ Position(i, "default") >= walk.offset
            /\ walk.view = "inclusive" => found[i] = "settled" \/ walk.truncated

WalkInv == WalletOK /\ WalkTypes /\ PaidIsFound /\ UnpaidWhenScanned

LEMMA WalkInvInit ==
    ASSUME HistoryAssumption
    PROVE  WalkInit => WalkInv
<1> SUFFICES ASSUME WalkInit
             PROVE  WalkInv
  OBVIOUS
<1>1. Cardinality(Invoice) \in Nat
  <2>1. Invoice \in SUBSET Invoice
    OBVIOUS
  <2> QED
    BY <2>1, FiniteRows
<1>2. WalkTypes
  BY <1>1 DEF WalkInit, WalkTypes, NotStarted, NoPage, Unseen,
              Undecided
<1>3. WalletOK
  BY DEF WalkInit, WalletInit, WalletOK, WalletState
<1>4. PaidIsFound /\ UnpaidWhenScanned
  BY DEF WalkInit, PaidIsFound, PaidAtStart, NotStarted, UnpaidWhenScanned,
         Undecided
<1> QED
  BY <1>2, <1>3, <1>4 DEF WalkInv

LEMMA WalkStarts ==
    ASSUME HistoryAssumption, WalkInv, Start
    PROVE  WalkInv'
<1>0. WalkInv /\ found' = Unseen /\ verdict' = Undecided
      /\ atStart' = wallet /\ wallet' = wallet
  BY DEF Start
<1>1. walk' = [view |-> "default", offset |-> 0, pages |-> 0, previousPage |-> {},
               first |-> TRUE, outstanding |-> Attempts, truncated |-> FALSE]
  BY DEF Start, NotStarted, NoPage
<1>2. Cardinality(Invoice) \in Nat
  <2>1. Invoice \in SUBSET Invoice
    OBVIOUS
  <2> QED
    BY <2>1, FiniteRows
<1>3. WalkTypes' /\ WalletOK'
  BY <1>0, <1>1, <1>2 DEF WalkInv, WalkTypes, WalletOK, Unseen, Undecided
<1>4. PaidIsFound'
  <2> SUFFICES ASSUME NEW i \in Attempts, PaidAtStart(i)'
               PROVE  /\ wallet'[i] = "settled"
                      /\ found'[i] = "unseen"
                      /\ i \in walk'.outstanding
                      /\ Position(i, "default")' >= walk'.offset
    <3>1. walk'.view = "default"
      BY <1>1
    <3> QED
      BY <3>1 DEF PaidIsFound
  <2>1. i \in RowsOf("default") /\ i \in Invoice /\ wallet'[i] = "settled"
    BY <1>0 DEF RowsOf, PaidAtStart, HistoryAssumption
  <2>2. Position(i, "default") \in Nat
    BY <2>1, RowsAreInvoices, PositionIsRank, RankType
  <2>3. Position(i, "default")' = Position(i, "default")
    BY <1>0 DEF Position, RowsOf
  <2>4. walk'.outstanding = Attempts /\ walk'.offset = 0
    BY <1>1
  <2> QED
    BY <1>0, <2>1, <2>2, <2>3, <2>4 DEF Unseen
<1>5. UnpaidWhenScanned'
  BY <1>0 DEF UnpaidWhenScanned, Undecided
<1> QED
  BY <1>3, <1>4, <1>5 DEF WalkInv

\* A view ends: on to the inclusive one, or to the verdicts.
LEMMA WalkEnds ==
    ASSUME HistoryAssumption, WalkInv, walk.view # "none", UNCHANGED <<wallet, atStart>>,
           NEW seen \in [Attempts -> {"unseen", "open", "held", "settled", "failed"}],
           NEW cut \in BOOLEAN, EndWalk(seen, cut),
           \A i \in Attempts : PaidAtStart(i) => seen[i] \in {"unseen", "settled"},
           \A i \in Attempts : PaidAtStart(i) =>
                seen[i] = "settled" \/ cut \/ (walk.view = "inclusive" /\ walk.truncated)
    PROVE  WalkInv'
<1> DEFINE missing == {i \in Attempts : seen[i] = "unseen"}
<1>1. Cardinality(Invoice) \in Nat
  <2>1. Invoice \in SUBSET Invoice
    OBVIOUS
  <2> QED
    BY <2>1, FiniteRows
<1>2. WalletOK' /\ found' = seen
  BY DEF WalkInv, WalletOK, EndWalk
<1>3. CASE walk.view = "default" /\ missing # {}
  <2>1. walk' = [view |-> "inclusive", offset |-> 0, pages |-> 0, previousPage |-> {},
                 first |-> TRUE, outstanding |-> missing, truncated |-> cut]
        /\ verdict' = verdict
    BY <1>3 DEF EndWalk, NotStarted, NoPage
  <2>2. WalkTypes'
    BY <1>1, <1>2, <2>1 DEF WalkInv, WalkTypes
  <2>3. PaidIsFound'
    <3>1. walk'.view = "inclusive" /\ walk'.truncated = cut
      BY <2>1
    <3> QED
      BY <1>2, <1>3, <3>1 DEF WalkInv, PaidIsFound, PaidAtStart
  <2>4. UnpaidWhenScanned'
    BY <2>1 DEF WalkInv, UnpaidWhenScanned
  <2> QED
    BY <1>2, <2>2, <2>3, <2>4 DEF WalkInv
<1>4. CASE ~(walk.view = "default" /\ missing # {})
  <2>1. /\ walk' = NotStarted
        /\ verdict' = Verdicts(seen, cut \/ walk.truncated)
    BY <1>4 DEF EndWalk
  <2>2. verdict' = [i \in Attempts |->
            IF seen[i] # "unseen" THEN seen[i]
            ELSE IF cut \/ walk.truncated THEN "omitted" ELSE "not_found"]
    BY <2>1 DEF Verdicts
  <2>3. WalkTypes'
    BY <1>1, <1>2, <2>1, <2>2 DEF WalkTypes, NotStarted, NoPage
  <2>4. PaidIsFound'
    BY <2>1 DEF WalkInv, PaidIsFound, PaidAtStart, NotStarted
  <2>5. UnpaidWhenScanned'
    BY <2>2 DEF UnpaidWhenScanned, PaidAtStart
  <2> QED
    BY <1>2, <2>3, <2>4, <2>5 DEF WalkInv
<1> QED
  BY <1>3, <1>4

\* What a page adds: an attempt on it is seen as the wallet has it.
LEMMA PageIsSeen ==
    ASSUME HistoryAssumption, WalkInv, walk.view # "none",
           NEW page, page = PageAt(walk.view, walk.offset),
           NEW seen, seen = FoundAfter(page)
    PROVE  /\ seen \in [Attempts -> {"unseen", "open", "held", "settled", "failed"}]
           /\ page \in Page
           /\ walk.offset + page.count \in 0..Cardinality(Invoice)
           /\ \A i \in Attempts : PaidAtStart(i) => seen[i] \in {"unseen", "settled"}
           /\ walk.view = "inclusive" =>
                \A i \in Attempts : PaidAtStart(i) => seen[i] = "settled" \/ walk.truncated
           /\ walk.view = "default" =>
                \A i \in Attempts : PaidAtStart(i) =>
                    \/ seen[i] = "settled"
                    \/ /\ i \in walk.outstanding \ page.rows
                       /\ page.count # 0
                       /\ Position(i, "default") >= walk.offset + page.count
<1>1. /\ walk.offset \in 0..Cardinality(Invoice)
      /\ wallet \in [Invoice -> WalletState]
      /\ found \in [Attempts -> {"unseen", "open", "held", "settled", "failed"}]
      /\ Attempts \subseteq Invoice
      /\ PaidIsFound
  BY DEF WalkInv, WalkTypes, WalletOK, HistoryAssumption
<1>2. /\ page \in Page
      /\ page.rows \subseteq RowsOf(walk.view)
      /\ walk.offset + page.count \in 0..Cardinality(Invoice)
  BY <1>1, PageType DEF Page
<1>3. seen = [i \in Attempts |->
                IF i \in page.rows /\ (walk.view = "default" \/ i \in walk.outstanding)
                THEN wallet[i] ELSE found[i]]
  BY DEF FoundAfter
<1>4. \A i \in page.rows : i \in Invoice /\ wallet[i] \in {"open", "held", "settled", "failed"}
  <2> TAKE i \in page.rows
  <2>1. i \in RowsOf(walk.view)
    BY <1>2
  <2>2. i \in Invoice /\ (wallet[i] = "settled" \/ wallet[i] \notin {"none", "purged"})
    BY <2>1 DEF RowsOf
  <2> QED
    BY <1>1, <2>2 DEF WalletState
<1>5. seen \in [Attempts -> {"unseen", "open", "held", "settled", "failed"}]
  BY <1>1, <1>3, <1>4
<1>6. ASSUME NEW i \in Attempts, PaidAtStart(i)
      PROVE  /\ wallet[i] = "settled"
             /\ found[i] \in {"unseen", "settled"}
             /\ seen[i] \in {"unseen", "settled"}
             /\ found[i] = "settled" => seen[i] = "settled"
  <2>1. wallet[i] = "settled" /\ found[i] \in {"unseen", "settled"}
    BY <1>1, <1>6 DEF PaidIsFound
  <2> QED
    BY <1>3, <2>1
<1>7. walk.view = "inclusive" =>
        \A i \in Attempts : PaidAtStart(i) => seen[i] = "settled" \/ walk.truncated
  BY <1>1, <1>6 DEF PaidIsFound
<1>8. ASSUME walk.view = "default", NEW i \in Attempts, PaidAtStart(i), seen[i] # "settled"
      PROVE  /\ i \in walk.outstanding \ page.rows
             /\ page.count # 0
             /\ Position(i, "default") >= walk.offset + page.count
  <2>1. i \notin page.rows
    BY <1>3, <1>6, <1>8
  <2>2. i \in walk.outstanding /\ Position(i, "default") >= walk.offset
    BY <1>1, <1>6, <1>8 DEF PaidIsFound
  <2>3. i \in RowsOf("default") \ Unreadable
    BY <1>1, <1>6, <1>8 DEF RowsOf, HistoryAssumption
  <2>4. walk.offset \in Nat /\ page = PageAt("default", walk.offset)
    <3>1. Invoice \in SUBSET Invoice
      OBVIOUS
    <3> QED
      BY <1>1, <1>8, <3>1, FiniteRows
  <2>5. Position(i, "default") >= walk.offset + page.count
    BY <2>1, <2>2, <2>3, <2>4, PageSkipsNoRow
  <2>6. page.count # 0
    <3>1. Position(i, "default") \in Nat
      BY <2>3, RowsAreInvoices, PositionIsRank, RankType
    <3>2. page.count = 0 => Position(i, "default") < walk.offset
      BY <2>3, <2>4, EmptyPageIsTheEnd
    <3> QED
      BY <2>2, <2>4, <3>1, <3>2
  <2> QED
    BY <2>1, <2>2, <2>5, <2>6
<1> QED
  BY <1>2, <1>5, <1>6, <1>7, <1>8

LEMMA WalkReads ==
    ASSUME HistoryAssumption, WalkInv, ReadListing
    PROVE  WalkInv'
<1>1. PICK page : page = PageAt(walk.view, walk.offset)
  OBVIOUS
<1>2. PICK seen : seen = FoundAfter(page)
  OBVIOUS
<1>3. PICK outstanding : outstanding = walk.outstanding \ page.rows
  OBVIOUS
<1>4. PageAt(walk.view, walk.offset) = page
  BY <1>1
<1>5. /\ walk.view # "none"
      /\ UNCHANGED <<wallet, atStart>>
      /\ \/ (outstanding = {} \/ page.count = 0) /\ EndWalk(seen, FALSE)
         \/ EndWalk(seen, TRUE)
         \/ /\ walk' = [walk EXCEPT !.offset = @ + page.count, !.pages = @ + 1,
                                     !.previousPage = page.rows, !.first = FALSE,
                                     !.outstanding = outstanding]
            /\ found' = seen
            /\ UNCHANGED verdict
  BY <1>2, <1>3, <1>4 DEF ReadListing, NoRowsLeft
<1>6. /\ seen \in [Attempts -> {"unseen", "open", "held", "settled", "failed"}]
      /\ page \in Page
      /\ walk.offset + page.count \in 0..Cardinality(Invoice)
      /\ \A i \in Attempts : PaidAtStart(i) => seen[i] \in {"unseen", "settled"}
      /\ walk.view = "inclusive" =>
            \A i \in Attempts : PaidAtStart(i) => seen[i] = "settled" \/ walk.truncated
      /\ walk.view = "default" =>
            \A i \in Attempts : PaidAtStart(i) =>
                \/ seen[i] = "settled"
                \/ /\ i \in walk.outstanding \ page.rows
                   /\ page.count # 0
                   /\ Position(i, "default") >= walk.offset + page.count
  BY <1>1, <1>2, <1>5, PageIsSeen
<1>7. walk.view \in {"default", "inclusive"}
  BY <1>5 DEF WalkInv, WalkTypes
<1>8. CASE (outstanding = {} \/ page.count = 0) /\ EndWalk(seen, FALSE)
  <2>1. \A i \in Attempts : PaidAtStart(i) =>
            seen[i] = "settled" \/ FALSE \/ (walk.view = "inclusive" /\ walk.truncated)
    BY <1>3, <1>6, <1>7, <1>8
  <2> QED
    BY <1>5, <1>6, <1>8, <2>1, WalkEnds
<1>9. CASE EndWalk(seen, TRUE)
  BY <1>5, <1>6, <1>9, WalkEnds
<1>10. CASE /\ walk' = [walk EXCEPT !.offset = @ + page.count, !.pages = @ + 1,
                                    !.previousPage = page.rows, !.first = FALSE,
                                    !.outstanding = outstanding]
            /\ found' = seen
            /\ UNCHANGED verdict
  <2>1. WalletOK' /\ WalkTypes'
    <3>1. walk' = [view |-> walk.view, offset |-> walk.offset + page.count,
                   pages |-> walk.pages + 1, previousPage |-> page.rows, first |-> FALSE,
                   outstanding |-> outstanding, truncated |-> walk.truncated]
      BY <1>10 DEF WalkInv, WalkTypes
    <3>2. /\ walk.view \in {"none", "default", "inclusive"} /\ walk.pages + 1 \in Nat
          /\ walk.truncated \in BOOLEAN /\ outstanding \subseteq Attempts
          /\ page.rows \subseteq Invoice
      BY <1>3, <1>6 DEF WalkInv, WalkTypes, Page
    <3>3. walk' \in [view : {"none", "default", "inclusive"}, offset : 0..Cardinality(Invoice),
                     pages : Nat, previousPage : SUBSET Invoice, first : BOOLEAN,
                     outstanding : SUBSET Attempts, truncated : BOOLEAN]
      BY <1>6, <3>1, <3>2
    <3> QED
      BY <1>5, <1>6, <1>10, <3>3 DEF WalkInv, WalletOK, WalkTypes
  <2>2. /\ walk'.view = walk.view /\ walk'.truncated = walk.truncated
        /\ walk'.outstanding = outstanding /\ walk'.offset = walk.offset + page.count
    BY <1>10 DEF WalkInv, WalkTypes
  <2>3. PaidIsFound'
    <3> SUFFICES ASSUME NEW i \in Attempts, PaidAtStart(i)
                 PROVE  /\ wallet'[i] = "settled"
                        /\ found'[i] \in {"unseen", "settled"}
                        /\ walk'.view = "default" =>
                            \/ found'[i] = "settled"
                            \/ i \in walk'.outstanding /\ Position(i, "default")' >= walk'.offset
                        /\ walk'.view = "inclusive" => found'[i] = "settled" \/ walk'.truncated
      BY <1>5 DEF PaidIsFound, PaidAtStart
    <3>1. wallet'[i] = "settled"
      BY <1>5 DEF WalkInv, PaidIsFound
    <3>2. Position(i, "default")' = Position(i, "default")
      BY <1>5 DEF Position, RowsOf
    <3> QED
      BY <1>3, <1>6, <1>10, <2>2, <3>1, <3>2
  <2>4. UnpaidWhenScanned'
    BY <1>5, <1>10 DEF WalkInv, UnpaidWhenScanned
  <2> QED
    BY <2>1, <2>3, <2>4 DEF WalkInv
<1> QED
  BY <1>5, <1>8, <1>9, <1>10

\* The page cap, and a wallet that fails.
LEMMA WalkStops ==
    ASSUME HistoryAssumption, WalkInv, HitCap \/ Fail
    PROVE  WalkInv'
<1>1. CASE HitCap
  <2>1. found \in [Attempts -> {"unseen", "open", "held", "settled", "failed"}]
    BY DEF WalkInv, WalkTypes
  <2>2. walk.view # "none" /\ UNCHANGED <<wallet, atStart>> /\ EndWalk(found, TRUE)
    BY <1>1 DEF HitCap
  <2>3. \A i \in Attempts : PaidAtStart(i) => found[i] \in {"unseen", "settled"}
    BY <2>2 DEF WalkInv, PaidIsFound
  <2> QED
    BY <2>1, <2>2, <2>3, WalkEnds
<1>2. CASE Fail
  <2>1. UNCHANGED <<wallet, found, verdict, atStart>> /\ walk' = NotStarted
    BY <1>2 DEF Fail
  <2>2. Cardinality(Invoice) \in Nat
    <3>1. Invoice \in SUBSET Invoice
      OBVIOUS
    <3> QED
      BY <3>1, FiniteRows
  <2>3. WalletOK' /\ WalkTypes'
    BY <2>1, <2>2 DEF WalkInv, WalletOK, WalkTypes, NotStarted, NoPage
  <2>4. PaidIsFound' /\ UnpaidWhenScanned'
    BY <2>1 DEF WalkInv, PaidIsFound, PaidAtStart, UnpaidWhenScanned, NotStarted
  <2> QED
    BY <2>3, <2>4 DEF WalkInv
<1> QED
  BY <1>1, <1>2

\* The wallet moves under the walk.
LEMMA WalkIsPushedBack ==
    ASSUME HistoryAssumption, WalkInv, WalletNext, UNCHANGED <<walk, found, verdict, atStart>>
    PROVE  WalkInv'
<1>1. WalletOK /\ Attempts \subseteq Invoice /\ walk.view \in {"none", "default", "inclusive"}
      /\ walk.offset \in 0..Cardinality(Invoice)
  BY DEF WalkInv, WalkTypes, HistoryAssumption
<1>2. WalletOK' /\ \A i \in Invoice : Final(i) => wallet'[i] = wallet[i]
  BY <1>1, WalletKeeps
<1>3. WalkTypes'
  BY DEF WalkInv, WalkTypes
<1>4. PaidIsFound'
  <2>1. ASSUME NEW i \in Attempts, PaidAtStart(i)
        PROVE  wallet[i] = "settled" /\ wallet'[i] = "settled"
    BY <1>1, <1>2, <2>1 DEF WalkInv, PaidIsFound, Final
  <2>2. ASSUME NEW i \in Attempts, PaidAtStart(i), Position(i, "default") >= walk.offset
        PROVE  Position(i, "default")' >= walk.offset
    <3>1. Cardinality(Invoice) \in Nat
      <4>1. Invoice \in SUBSET Invoice
        OBVIOUS
      <4> QED
        BY <4>1, FiniteRows
    <3>2. i \in Invoice /\ wallet[i] = "settled"
      BY <1>1, <2>1, <2>2
    <3>3. /\ Position(i, "default") \in Nat
          /\ Position(i, "default")' \in Nat
          /\ Position(i, "default") <= Position(i, "default")'
      BY <1>1, <3>2, SettledRowsArePushedBack
    <3> QED
      BY <1>1, <2>2, <3>1, <3>3
  <2> QED
    BY <2>1, <2>2 DEF WalkInv, PaidIsFound, PaidAtStart
<1>5. UnpaidWhenScanned'
  BY DEF WalkInv, UnpaidWhenScanned
<1> QED
  BY <1>2, <1>3, <1>4, <1>5 DEF WalkInv

LEMMA WalkInvStep ==
    ASSUME HistoryAssumption
    PROVE  WalkInv /\ [WalkNext]_walkVars => WalkInv'
<1> SUFFICES ASSUME WalkInv, [WalkNext]_walkVars
             PROVE  WalkInv'
  OBVIOUS
<1>1. CASE Start
  BY <1>1, WalkStarts
<1>2. CASE ReadListing
  BY <1>2, WalkReads
<1>3. CASE HitCap \/ Fail
  BY <1>3, WalkStops
<1>4. CASE WalletNext /\ UNCHANGED listingVars
  <2>1. WalletNext /\ UNCHANGED <<walk, found, verdict, atStart>>
    BY <1>4 DEF listingVars
  <2> QED
    BY <2>1, WalkIsPushedBack
<1>5. CASE UNCHANGED walkVars
  <2>1. UNCHANGED <<wallet, walk, found, verdict, atStart>>
    BY <1>5 DEF walkVars, listingVars
  <2> QED
    BY <2>1 DEF WalkInv, WalletOK, WalkTypes, PaidIsFound, PaidAtStart, Position, RowsOf,
                UnpaidWhenScanned
<1> QED
  BY <1>1, <1>2, <1>3, <1>4, <1>5 DEF WalkNext

\* What reconcilePaymentAttempts calls open, held or not found was not paid when its
\* caller read the clock, however long the history is, however it moves under the
\* walk and wherever the page cap, a repeated page or a failure cuts it.
THEOREM ShortWalkClosesUnpaid ==
    ASSUME HistoryAssumption
    PROVE  WalkSpec => []UnpaidWhenScanned
<1>1. WalkInit => WalkInv
  BY WalkInvInit
<1>2. WalkInv /\ [WalkNext]_walkVars => WalkInv'
  BY WalkInvStep
<1>3. WalkInv => UnpaidWhenScanned
  BY DEF WalkInv
<1> QED
  BY <1>1, <1>2, <1>3, PTL DEF WalkSpec
=============================================================================
