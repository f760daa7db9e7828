------------------------- MODULE ReconcileGateProofs ------------------------
(***************************************************************************)
(* Theorems about ReconcileGate, for any workers, clock offsets, lease,    *)
(* intervals and number of retries.  GateInv says what a worker between    *)
(* two statements may still believe about the row; the properties of the   *)
(* compare-and-set follow from it.  Then about ReconcileScheduler, what    *)
(* the row keeps: SchedulerInv says that the walks are apart.              *)
(***************************************************************************)
EXTENDS ReconcileGate, ReconcileScheduler, SequenceTheorems, FiniteSetTheorems,
        WellFoundedInduction, TLAPS

USE GateAssumption

CheckpointStep == {"checkpointRead", "checkpointWrite", "checkpointReadback"}
HoldingStep == {"holding"} \cup CheckpointStep
GateValue == Gate \cup {NoGate, LegacyGate}

CallType ==
    [now : Int, tries : Nat, read : GateValue, rev : 0..MaxRev,
     value : Gate \cup {NoGate}, token : 0..MaxClaims, lease_until : Int,
     scheduler : SUBSET (1..MaxClaims), release : BOOLEAN]

\* TypeOK with the fields of a call, and a claim's token in every holder's call.
TypeInv ==
    /\ TypeOK
    /\ call \in [Worker -> CallType]
    /\ \A w \in Worker : pc[w] \in HoldingStep => call[w].token \in 1..MaxClaims
    /\ \A w \in Worker : pc[w] = "checkpointWrite" => call[w].value \in Gate

LEMMA CallIsTyped == Call \in CallType
  BY DEF Call, CallType, GateValue, NoGate

\* What a claim writes, and what a checkpoint writes over a gate, is a gate.
LEMMA ClaimValueType ==
    ASSUME NEW g \in GateValue, NEW token \in 1..MaxClaims, NEW now \in Int
    PROVE  /\ ClaimValue(g, token, now) \in Gate
           /\ SchedulerOf(ClaimValue(g, token, now)) = SchedulerOf(g)
<1>1. SchedulerOf(g) \in SUBSET (1..MaxClaims)
  BY DEF SchedulerOf, Known, GateValue, Gate, NoGate, LegacyGate
<1>2. now + Lease \in Int /\ MinInterval \in Nat
  OBVIOUS
<1> QED
  BY <1>1, <1>2 DEF ClaimValue, Gate, SchedulerOf, Known

LEMMA CheckpointValueType ==
    ASSUME NEW g \in Gate, NEW scheduler \in SUBSET (1..MaxClaims), NEW now \in Int,
           NEW release \in BOOLEAN, NEW interval \in Intervals
    PROVE  LET value == CheckpointValue(g, scheduler, now, release, interval)
           IN  /\ value \in Gate
               /\ value.token = g.token
               /\ value.claimed_at = g.claimed_at
               /\ value.scheduler = scheduler
               /\ ~release => value.lease_until = g.lease_until
<1> DEFINE lease == IF release THEN 0 ELSE g.lease_until
           ends == IF release THEN {now} ELSE g.finished_at
           value == [g EXCEPT !.scheduler = scheduler, !.lease_until = lease,
                              !.interval_seconds = interval, !.finished_at = ends]
<1>1. interval \in Nat /\ lease \in Int /\ ends \in SUBSET Int
  BY DEF Gate
<1>2. ~release => lease = g.lease_until
  OBVIOUS
<1>3. CheckpointValue(g, scheduler, now, release, interval) = value
  BY DEF CheckpointValue
<1> HIDE DEF lease, ends
<1>4. /\ value \in Gate
      /\ value.token = g.token
      /\ value.claimed_at = g.claimed_at
      /\ value.scheduler = scheduler
      /\ value.lease_until = lease
  BY <1>1 DEF Gate
<1> QED
  BY <1>2, <1>3, <1>4

\* The calls a worker ends or goes on with are well typed.
LEMMA LeaveType ==
    ASSUME TypeInv, NEW w \in Worker, Leave(w)
    PROVE  /\ pc' \in [Worker -> Step] /\ pc'[w] = "idle"
           /\ call' \in [Worker -> CallType] /\ call'[w] = Call
           /\ \A v \in Worker \ {w} : pc'[v] = pc[v] /\ call'[v] = call[v]
  BY CallIsTyped DEF TypeInv, TypeOK, Leave, Goto, Step

LEMMA GrantedType ==
    ASSUME TypeInv, NEW w \in Worker, NEW c, Granted(w, c),
           c.token \in 1..MaxClaims, c.lease_until \in Int,
           c.scheduler \in SUBSET (1..MaxClaims)
    PROVE  /\ pc' \in [Worker -> Step] /\ pc'[w] = "holding"
           /\ call' \in [Worker -> CallType]
           /\ call'[w].token = c.token
           /\ call'[w].lease_until = c.lease_until
           /\ call'[w].scheduler = c.scheduler
           /\ \A v \in Worker \ {w} : pc'[v] = pc[v] /\ call'[v] = call[v]
<1> DEFINE granted == [Call EXCEPT !.token = c.token, !.lease_until = c.lease_until,
                                   !.scheduler = c.scheduler]
<1>1. /\ granted \in CallType
      /\ granted.token = c.token
      /\ granted.lease_until = c.lease_until
      /\ granted.scheduler = c.scheduler
  <2> DEFINE t == c.token  l == c.lease_until  s == c.scheduler
  <2> HIDE DEF t, l, s
  <2>1. t \in 0..MaxClaims /\ l \in Int /\ s \in SUBSET (1..MaxClaims)
    BY DEF t, l, s
  <2>2. granted = [Call EXCEPT !.token = t, !.lease_until = l, !.scheduler = s]
    BY DEF t, l, s
  <2> QED
    BY <2>1, <2>2, CallIsTyped DEF CallType, t, l, s
<1>2. call' = [call EXCEPT ![w] = granted] /\ pc' = [pc EXCEPT ![w] = "holding"]
  BY DEF Granted, Goto
<1> HIDE DEF granted
<1> QED
  BY <1>1, <1>2 DEF TypeInv, TypeOK, Step

LEMMA TryAgainType ==
    ASSUME TypeInv, NEW w \in Worker, TryAgain(w)
    PROVE  /\ pc' \in [Worker -> Step] /\ pc'[w] \in {"idle", "claimRead"}
           /\ call' \in [Worker -> CallType]
           /\ pc'[w] = "claimRead" => call'[w].now = call[w].now
           /\ \A v \in Worker \ {w} : pc'[v] = pc[v] /\ call'[v] = call[v]
<1>1. CASE call[w].tries + 1 < Retries
  <2> DEFINE again == [Call EXCEPT !.now = call[w].now, !.tries = call[w].tries + 1]
  <2>1. call[w].now \in Int /\ call[w].tries + 1 \in Nat
    BY DEF TypeInv, CallType
  <2>2. again \in CallType /\ again.now = call[w].now
    BY <2>1, CallIsTyped DEF CallType
  <2>3. call' = [call EXCEPT ![w] = again] /\ pc' = [pc EXCEPT ![w] = "claimRead"]
    BY <1>1 DEF TryAgain, Goto
  <2> HIDE DEF again
  <2> QED
    BY <2>2, <2>3 DEF TypeInv, TypeOK, Step
<1>2. CASE ~(call[w].tries + 1 < Retries)
  BY <1>2, LeaveType DEF TryAgain
<1> QED
  BY <1>1, <1>2

-----------------------------------------------------------------------------
\* What an action of w leaves alone: the calls of the other workers.
OthersAlone(w) == \A v \in Worker \ {w} : pc'[v] = pc[v] /\ call'[v] = call[v]

ActionOf(w) ==
    \/ AskClaim(w)
    \/ \E release \in BOOLEAN : AskCheckpoint(w, release)
    \/ Serve(w)
    \/ Abandon(w)

LEMMA NextIsAction == [Next]_vars <=> (\E w \in Worker : ActionOf(w)) \/ Tick \/ UNCHANGED vars
  BY DEF Next, ActionOf

LEMMA TypeInvStep ==
    ASSUME TypeInv, NEW w \in Worker, ActionOf(w)
    PROVE  TypeInv' /\ OthersAlone(w)
<1> USE DEF OthersAlone
<1>1. CASE AskClaim(w)
  <2>1. Now(w) \in Int
    BY DEF TypeInv, TypeOK, Now
  <2>2. [call[w] EXCEPT !.now = Now(w)] \in CallType
    BY <2>1 DEF TypeInv, CallType
  <2> QED
    BY <1>1, <2>2 DEF AskClaim, Goto, TypeInv, TypeOK, Step, HoldingStep, CheckpointStep
<1>2. ASSUME NEW release \in BOOLEAN, AskCheckpoint(w, release)
      PROVE  TypeInv' /\ OthersAlone(w)
  <2> DEFINE moved == call[w].scheduler \cup {call[w].token}
             asked == [call[w] EXCEPT !.now = Now(w), !.release = release,
                                      !.scheduler = moved]
  <2>1. Now(w) \in Int /\ call[w].token \in 1..MaxClaims
    BY <1>2 DEF TypeInv, TypeOK, Now, AskCheckpoint, HoldingStep
  <2>2. asked \in CallType /\ asked.token = call[w].token
    <3>1. moved \in SUBSET (1..MaxClaims) /\ call[w] \in CallType
      BY <2>1 DEF TypeInv, CallType
    <3> HIDE DEF moved
    <3>2. CASE release = TRUE
      BY <2>1, <3>1, <3>2 DEF CallType
    <3>3. CASE release = FALSE
      BY <2>1, <3>1, <3>3 DEF CallType
    <3> QED
      BY <3>2, <3>3
  <2>3. call' = [call EXCEPT ![w] = asked] /\ pc' = [pc EXCEPT ![w] = "checkpointRead"]
    BY <1>2 DEF AskCheckpoint, Goto, TypeInv
  <2>4. UNCHANGED <<gate, rev, issued, saved, clock>>
    BY <1>2 DEF AskCheckpoint
  <2> HIDE DEF asked
  <2> QED
    BY <2>1, <2>2, <2>3, <2>4 DEF TypeInv, TypeOK, Step
<1>3. CASE ClaimRead(w)
  <2>1. CASE Leave(w)
    BY <1>3, <2>1, LeaveType DEF ClaimRead, TypeInv, TypeOK, HoldingStep, CheckpointStep
  <2>2. CASE ~(ScannedRecently(gate, call[w].now) \/ Leased(gate, call[w].now))
    <3> DEFINE seen == [call[w] EXCEPT !.read = gate, !.rev = rev]
    <3>1. seen \in CallType
      <4>1. call[w] \in CallType
        BY DEF TypeInv
      <4>2. gate \in GateValue /\ rev \in 0..MaxRev
        BY DEF TypeInv, TypeOK, GateValue
      <4> QED
        BY <4>1, <4>2 DEF CallType
    <3>2. call' = [call EXCEPT ![w] = seen] /\ pc' = [pc EXCEPT ![w] = "claimWrite"]
      BY <1>3, <2>2 DEF ClaimRead, Goto, TypeInv
    <3> HIDE DEF seen
    <3> QED
      BY <1>3, <3>1, <3>2 DEF ClaimRead, TypeInv, TypeOK, Step, HoldingStep, CheckpointStep
  <2> QED
    BY <1>3, <2>1, <2>2 DEF ClaimRead
<1>4. CASE ClaimWrite(w)
  <2> DEFINE value == ClaimValue(call[w].read, issued + 1, call[w].now)
             applies == Applies(call[w].read, call[w].rev)
  <2>1. /\ issued + 1 \in 1..MaxClaims /\ rev + 1 \in 0..MaxRev
        /\ call[w].read \in GateValue /\ call[w].now \in Int
    BY <1>4 DEF ClaimWrite, TypeInv, TypeOK, CallType
  <2>2. value \in Gate /\ value.token = issued + 1
    <3>1. value.token = issued + 1
      BY DEF ClaimValue
    <3> QED
      BY <2>1, <3>1, ClaimValueType
  <2>3. /\ gate' \in GateValue /\ rev' \in 0..MaxRev /\ issued' \in 0..MaxClaims
        /\ UNCHANGED <<saved, clock>>
    <3>1. CASE applies
      <4>1. /\ gate' = value /\ issued' = issued + 1
            /\ rev' = IF gate = NoGate THEN 0 ELSE rev + 1
            /\ UNCHANGED <<saved, clock>>
        BY <1>4, <3>1 DEF ClaimWrite
      <4> QED
        BY <2>1, <2>2, <4>1 DEF GateValue, TypeInv, TypeOK
    <3>2. CASE ~applies
      BY <1>4, <3>2 DEF ClaimWrite, TypeInv, TypeOK, GateValue
    <3> QED
      BY <3>1, <3>2
  <2>4. /\ pc' \in [Worker -> Step] /\ pc'[w] \in {"claimReadback", "claimRead", "holding", "idle"}
        /\ call' \in [Worker -> CallType]
        /\ pc'[w] = "holding" => call'[w].token \in 1..MaxClaims
        /\ OthersAlone(w)
    <3>1. CASE /\ Goto(w, "claimReadback")
               /\ call' = [call EXCEPT ![w].value = IF applies THEN value ELSE NoGate]
      <4> DEFINE wanted == IF applies THEN value ELSE NoGate
                 asked == [call[w] EXCEPT !.value = wanted]
      <4>1. wanted \in Gate \cup {NoGate}
        BY <2>2
      <4> HIDE DEF wanted
      <4>2. asked \in CallType
        BY <4>1 DEF TypeInv, CallType
      <4>3. call' = [call EXCEPT ![w] = asked] /\ pc' = [pc EXCEPT ![w] = "claimReadback"]
        BY <3>1 DEF Goto, TypeInv, wanted
      <4> HIDE DEF asked
      <4> QED
        BY <4>2, <4>3 DEF TypeInv, TypeOK, Step
    <3>2. CASE applies /\ Granted(w, value)
      <4>1. /\ value.token \in 1..MaxClaims
            /\ value.lease_until \in Int
            /\ value.scheduler \in SUBSET (1..MaxClaims)
        BY <2>2 DEF Gate
      <4> HIDE DEF value
      <4> QED
        BY <3>2, <4>1, GrantedType
    <3>3. CASE TryAgain(w)
      BY <3>3, TryAgainType
    <3> QED
      BY <1>4, <3>1, <3>2, <3>3 DEF ClaimWrite
  <2> QED
    BY <2>3, <2>4 DEF TypeInv, TypeOK, HoldingStep, CheckpointStep, GateValue
<1>5. CASE ClaimReadback(w)
  <2> DEFINE value == call[w].value
  <2>1. CASE value # NoGate /\ Granted(w, value)
    <3>1. value \in Gate
      BY <2>1 DEF TypeInv, CallType
    <3>2. /\ value.token \in 1..MaxClaims
          /\ value.lease_until \in Int
          /\ value.scheduler \in SUBSET (1..MaxClaims)
      BY <3>1 DEF Gate
    <3> HIDE DEF value
    <3>3. /\ pc' \in [Worker -> Step] /\ pc'[w] = "holding"
          /\ call' \in [Worker -> CallType]
          /\ call'[w].token = value.token
          /\ OthersAlone(w)
      BY <2>1, <3>2, GrantedType
    <3> QED
      BY <1>5, <3>2, <3>3 DEF ClaimReadback, TypeInv, TypeOK
  <2>2. CASE TryAgain(w)
    BY <1>5, <2>2, TryAgainType DEF ClaimReadback, TypeInv, TypeOK, HoldingStep, CheckpointStep
  <2> QED
    BY <1>5, <2>1, <2>2 DEF ClaimReadback
<1>6. CASE CheckpointRead(w)
  <2>1. CASE Leave(w)
    BY <1>6, <2>1, LeaveType DEF CheckpointRead, TypeInv, TypeOK, HoldingStep, CheckpointStep
  <2>2. ASSUME Holds(w, gate, call[w].now), NEW interval \in Intervals,
               Goto(w, "checkpointWrite"),
               call' = [call EXCEPT
                    ![w].read = gate, ![w].rev = rev,
                    ![w].value = CheckpointValue(gate, call[w].scheduler, call[w].now,
                                                 call[w].release, interval)]
        PROVE  TypeInv' /\ OthersAlone(w)
    <3> DEFINE value == CheckpointValue(gate, call[w].scheduler, call[w].now,
                                        call[w].release, interval)
               seen == [call[w] EXCEPT !.read = gate, !.rev = rev, !.value = value]
    <3>1. gate \in Gate
      BY <2>2 DEF Holds, Known, TypeInv, TypeOK, NoGate, LegacyGate
    <3>2. /\ call[w].scheduler \in SUBSET (1..MaxClaims)
          /\ call[w].now \in Int /\ call[w].release \in BOOLEAN
      BY DEF TypeInv, CallType
    <3>3. value \in Gate
      BY <3>1, <3>2, CheckpointValueType
    <3> HIDE DEF value
    <3>4. seen \in CallType /\ seen.token = call[w].token /\ seen.value = value
      <4>1. call[w] \in CallType
        BY DEF TypeInv
      <4>2. gate \in GateValue /\ rev \in 0..MaxRev
        BY DEF TypeInv, TypeOK, GateValue
      <4> QED
        BY <3>3, <4>1, <4>2 DEF CallType
    <3>5. call' = [call EXCEPT ![w] = seen] /\ pc' = [pc EXCEPT ![w] = "checkpointWrite"]
      BY <2>2 DEF Goto, TypeInv, value
    <3>6. call[w].token \in 1..MaxClaims
      BY <1>6 DEF TypeInv, CheckpointRead, HoldingStep, CheckpointStep
    <3> HIDE DEF seen
    <3> QED
      BY <1>6, <3>3, <3>4, <3>5, <3>6 DEF CheckpointRead, TypeInv, TypeOK, Step
  <2> QED
    BY <1>6, <2>1, <2>2 DEF CheckpointRead
<1>7. ASSUME NEW stored \in BOOLEAN, Stored(w, stored),
             pc[w] \in {"checkpointWrite", "checkpointReadback"}
      PROVE  /\ pc' \in [Worker -> Step] /\ pc'[w] \in {"holding", "idle"}
             /\ call' \in [Worker -> CallType]
             /\ pc'[w] = "holding" => call'[w].token \in 1..MaxClaims
             /\ saved' \subseteq 1..MaxClaims
             /\ OthersAlone(w)
  <2>1. call[w].token \in 1..MaxClaims
    BY <1>7 DEF TypeInv, HoldingStep, CheckpointStep
  <2>2. saved' \subseteq 1..MaxClaims
    BY <1>7, <2>1 DEF Stored, TypeInv, TypeOK
  <2>3. CASE Leave(w)
    BY <2>2, <2>3, LeaveType
  <2>4. CASE Granted(w, call[w])
    <3> DEFINE c == call[w]
    <3>1. c.lease_until \in Int /\ c.scheduler \in SUBSET (1..MaxClaims) /\ c.token \in 1..MaxClaims
      BY <2>1 DEF TypeInv, CallType
    <3> HIDE DEF c
    <3>2. Granted(w, c)
      BY <2>4 DEF c
    <3> QED
      BY <2>2, <3>1, <3>2, GrantedType
  <2> QED
    BY <1>7, <2>3, <2>4 DEF Stored
<1>8. CASE CheckpointWrite(w)
  <2> DEFINE applies == Applies(call[w].read, call[w].rev)
  <2>1. call[w].value \in Gate /\ rev + 1 \in 0..MaxRev
    BY <1>8 DEF CheckpointWrite, TypeInv, TypeOK
  <2>2. /\ gate' \in GateValue /\ rev' \in 0..MaxRev
        /\ UNCHANGED <<issued, clock>>
    BY <1>8, <2>1 DEF CheckpointWrite, TypeInv, TypeOK, GateValue
  <2>3. CASE Goto(w, "checkpointReadback") /\ UNCHANGED <<call, saved>>
    BY <1>8, <2>2, <2>3 DEF CheckpointWrite, Goto, TypeInv, TypeOK, Step, HoldingStep,
           CheckpointStep, GateValue
  <2>4. CASE Stored(w, applies)
    <3>1. applies \in BOOLEAN
      BY DEF Applies
    <3> HIDE DEF applies
    <3>2. pc[w] = "checkpointWrite"
      BY <1>8 DEF CheckpointWrite
    <3> QED
      BY <1>7, <2>2, <2>4, <3>1, <3>2 DEF TypeInv, TypeOK, HoldingStep, CheckpointStep, GateValue
  <2> QED
    BY <1>8, <2>3, <2>4 DEF CheckpointWrite
<1>9. CASE CheckpointReadback(w)
  <2> DEFINE stored == gate = call[w].value
  <2>1. stored \in BOOLEAN /\ Stored(w, stored) /\ pc[w] = "checkpointReadback"
    BY <1>9 DEF CheckpointReadback
  <2> HIDE DEF stored
  <2> QED
    BY <1>7, <1>9, <2>1 DEF CheckpointReadback, TypeInv, TypeOK, HoldingStep, CheckpointStep
<1>10. CASE Abandon(w)
  BY <1>10, LeaveType DEF Abandon, TypeInv, TypeOK, HoldingStep, CheckpointStep
<1> QED
  BY <1>1, <1>2, <1>3, <1>4, <1>5, <1>6, <1>8, <1>9, <1>10 DEF ActionOf, Serve

\* TypeInv is inductive.
LEMMA TypeInvariant == Spec => []TypeInv
<1>1. Init => TypeInv
  BY CallIsTyped DEF Init, TypeInv, TypeOK, Step, HoldingStep, CheckpointStep
<1>2. TypeInv /\ [Next]_vars => TypeInv'
  <2> SUFFICES ASSUME TypeInv, [Next]_vars
               PROVE  TypeInv'
    OBVIOUS
  <2>1. CASE Tick
    BY <2>1 DEF Tick, TypeInv, TypeOK
  <2>2. CASE UNCHANGED vars
    BY <2>2 DEF vars, TypeInv, TypeOK
  <2> QED
    BY <2>1, <2>2, NextIsAction, TypeInvStep
<1> QED
  BY <1>1, <1>2, PTL DEF Spec

\* The row, its revision and the count of claims keep their types, for any
\* parameters.
THEOREM GateTypes == Spec => []TypeOK
  BY TypeInvariant, PTL DEF TypeInv

-----------------------------------------------------------------------------
(***************************************************************************)
(* The inductive invariant.  A worker that holds a claim, or has written   *)
(* one and not yet read it back, is the only one with its token.           *)
(***************************************************************************)
Holding(w) == pc[w] \in HoldingStep
Won(w) == pc[w] = "claimReadback" /\ call[w].value # NoGate
Claims(w) == Holding(w) \/ Won(w)
TokenOf(w) == IF Won(w) THEN call[w].value.token ELSE call[w].token
LeaseOf(w) == IF Won(w) THEN call[w].value.lease_until ELSE call[w].lease_until

\* A row whose revision is still the one w read is the row w read.
ReadIsCurrent(w) ==
    pc[w] \in {"claimWrite", "checkpointWrite"} /\ call[w].read # NoGate =>
        /\ gate # NoGate
        /\ call[w].rev <= rev
        /\ call[w].rev = rev => gate = call[w].read

\* A claim is written only over a row that was due and on no running lease.
ClaimIsDue(w) ==
    pc[w] = "claimWrite" =>
        /\ ~ScannedRecently(call[w].read, call[w].now)
        /\ ~Leased(call[w].read, call[w].now)

TokenIsIssued(w) == Claims(w) => TokenOf(w) \in 1..issued

\* A holder whose token is still in the row knows all the progress in the row.
SchedulerIsNewest(w) ==
    Holding(w) /\ Known(gate) /\ gate.token = call[w].token =>
        gate.scheduler \subseteq call[w].scheduler

\* What a checkpoint writes is the row it read, under the same token, with the
\* holder's scheduler in place of the stored one.
CheckpointIsPrepared(w) ==
    /\ pc[w] \in CheckpointStep => call[w].token \in call[w].scheduler
    /\ pc[w] \in {"checkpointWrite", "checkpointReadback"} =>
        /\ Known(call[w].read)
        /\ call[w].read.token = call[w].token
        /\ call[w].read.scheduler \subseteq call[w].scheduler
        /\ call[w].value \in Gate
        /\ call[w].value.token = call[w].token
        /\ call[w].value.scheduler = call[w].scheduler
        /\ call[w].value.claimed_at = call[w].read.claimed_at
        /\ ~call[w].release => call[w].value.lease_until = call[w].read.lease_until

WorkerInv(w) ==
    /\ ReadIsCurrent(w)
    /\ ClaimIsDue(w)
    /\ TokenIsIssued(w)
    /\ SchedulerIsNewest(w)
    /\ CheckpointIsPrepared(w)

OneHolderPerToken ==
    \A v, w \in Worker : v # w /\ Claims(v) /\ Claims(w) => TokenOf(v) # TokenOf(w)

GateInv ==
    /\ TypeInv
    /\ Known(gate) => gate.token <= issued
    /\ saved \subseteq SchedulerOf(gate)
    /\ OneHolderPerToken
    /\ \A w \in Worker : WorkerInv(w)

-----------------------------------------------------------------------------
(***************************************************************************)
(* What an action may do to the row.                                       *)
(***************************************************************************)
RowKept == UNCHANGED <<gate, rev, issued>>

RowClaimed(w) ==
    /\ pc[w] = "claimWrite"
    /\ Applies(call[w].read, call[w].rev)
    /\ gate' = ClaimValue(call[w].read, issued + 1, call[w].now)
    /\ rev' = IF gate = NoGate THEN 0 ELSE rev + 1
    /\ issued' = issued + 1
    /\ issued < MaxClaims

RowCheckpointed(w) ==
    /\ pc[w] = "checkpointWrite"
    /\ Applies(call[w].read, call[w].rev)
    /\ gate' = call[w].value
    /\ rev' = rev + 1
    /\ issued' = issued

LEMMA RowSteps ==
    ASSUME NEW w \in Worker, ActionOf(w)
    PROVE  /\ RowKept \/ RowClaimed(w) \/ RowCheckpointed(w)
           /\ clock' = clock
<1>1. CASE ClaimWrite(w)
  BY <1>1 DEF ClaimWrite, RowKept, RowClaimed
<1>2. CASE CheckpointWrite(w)
  BY <1>2 DEF CheckpointWrite, RowKept, RowCheckpointed
<1>3. CASE ~ClaimWrite(w) /\ ~CheckpointWrite(w)
  BY <1>3 DEF ActionOf, Serve, AskClaim, AskCheckpoint, ClaimRead, ClaimReadback,
         CheckpointRead, CheckpointReadback, Abandon, RowKept
<1> QED
  BY <1>1, <1>2, <1>3

\* A claim is written over the row it was decided on, and carries its progress.
LEMMA ClaimedRow ==
    ASSUME GateInv, NEW w \in Worker, RowClaimed(w)
    PROVE  /\ gate = call[w].read
           /\ gate' \in Gate /\ gate'.token = issued + 1
           /\ gate'.claimed_at = call[w].now
           /\ gate'.lease_until = call[w].now + Lease
           /\ SchedulerOf(gate') = SchedulerOf(gate)
<1>1. gate = call[w].read
  BY DEF RowClaimed, GateInv, WorkerInv, ReadIsCurrent, Applies
<1>2. /\ call[w].read \in GateValue /\ call[w].now \in Int
      /\ issued + 1 \in 1..MaxClaims
  BY DEF RowClaimed, GateInv, TypeInv, TypeOK, CallType
<1>3. gate' = ClaimValue(call[w].read, issued + 1, call[w].now)
  BY DEF RowClaimed
<1>4. /\ gate'.token = issued + 1
      /\ gate'.claimed_at = call[w].now
      /\ gate'.lease_until = call[w].now + Lease
  BY <1>3 DEF ClaimValue
<1>5. gate' \in Gate /\ SchedulerOf(gate') = SchedulerOf(call[w].read)
  BY <1>2, <1>3, ClaimValueType
<1> QED
  BY <1>1, <1>4, <1>5

\* A checkpoint is written over the row it read, under the holder's token, and
\* keeps the progress in it.
LEMMA CheckpointedRow ==
    ASSUME GateInv, NEW w \in Worker, RowCheckpointed(w)
    PROVE  /\ gate = call[w].read /\ gate \in Gate /\ gate.token = call[w].token
           /\ gate' = call[w].value /\ gate' \in Gate /\ gate'.token = call[w].token
           /\ gate'.claimed_at = gate.claimed_at
           /\ ~call[w].release => gate'.lease_until = gate.lease_until
           /\ SchedulerOf(gate') = call[w].scheduler
           /\ SchedulerOf(gate) \subseteq SchedulerOf(gate')
<1>1. WorkerInv(w) /\ pc[w] = "checkpointWrite" /\ gate' = call[w].value
  BY DEF GateInv, RowCheckpointed
<1>2. /\ Known(call[w].read)
      /\ call[w].read.token = call[w].token
      /\ call[w].read.scheduler \subseteq call[w].scheduler
      /\ call[w].value \in Gate
      /\ call[w].value.token = call[w].token
      /\ call[w].value.scheduler = call[w].scheduler
      /\ call[w].value.claimed_at = call[w].read.claimed_at
      /\ ~call[w].release => call[w].value.lease_until = call[w].read.lease_until
  BY <1>1 DEF WorkerInv, CheckpointIsPrepared
<1>3. gate = call[w].read
  BY <1>1 DEF RowCheckpointed, WorkerInv, ReadIsCurrent, Applies
<1>4. gate \in Gate
  BY <1>2, <1>3 DEF GateInv, TypeInv, TypeOK, Known, NoGate, LegacyGate
<1>5. Known(gate) /\ Known(gate')
  BY <1>1, <1>2, <1>4 DEF Known, Gate
<1> QED
  BY <1>1, <1>2, <1>3, <1>4, <1>5 DEF SchedulerOf

LEMMA ProgressGrows ==
    ASSUME GateInv, NEW w \in Worker, ActionOf(w)
    PROVE  SchedulerOf(gate) \subseteq SchedulerOf(gate')
  BY RowSteps, ClaimedRow, CheckpointedRow DEF RowKept

\* What w does leaves another worker's beliefs true.
LEMMA OtherWorkers ==
    ASSUME GateInv, NEW w \in Worker, ActionOf(w), NEW v \in Worker, v # w
    PROVE  WorkerInv(v)'
<1> USE DEF Holding, Won, Claims, TokenOf
<1>1. WorkerInv(v) /\ TypeInv /\ OneHolderPerToken
  BY DEF GateInv
<1>2. pc'[v] = pc[v] /\ call'[v] = call[v]
  BY <1>1, TypeInvStep DEF OthersAlone
<1>3. rev \in Nat /\ issued \in Nat /\ call[v].rev \in Nat
  BY <1>1 DEF TypeInv, TypeOK, CallType
<1>4. ClaimIsDue(v)' /\ CheckpointIsPrepared(v)'
  BY <1>1, <1>2 DEF WorkerInv, ClaimIsDue, CheckpointIsPrepared
<1>5. CASE RowKept
  BY <1>1, <1>2, <1>4, <1>5 DEF RowKept, WorkerInv, ReadIsCurrent, TokenIsIssued,
         SchedulerIsNewest
<1>6. CASE RowClaimed(w)
  <2>1. gate' \in Gate /\ gate'.token = issued + 1 /\ issued' = issued + 1
    BY <1>6, ClaimedRow DEF RowClaimed
  <2>2. gate' # NoGate
    BY <2>1 DEF Gate, NoGate
  <2>3. ReadIsCurrent(v)'
    BY <1>1, <1>2, <1>3, <1>6, <2>2 DEF WorkerInv, ReadIsCurrent, RowClaimed
  <2>4. TokenIsIssued(v)'
    BY <1>1, <1>2, <1>3, <2>1 DEF WorkerInv, TokenIsIssued
  <2>5. SchedulerIsNewest(v)'
    BY <1>1, <1>2, <1>3, <2>1 DEF WorkerInv, TokenIsIssued, SchedulerIsNewest, HoldingStep,
           CheckpointStep
  <2> QED
    BY <1>4, <2>3, <2>4, <2>5 DEF WorkerInv
<1>7. CASE RowCheckpointed(w)
  <2>1. /\ gate' \in Gate /\ gate'.token = call[w].token
        /\ pc[w] = "checkpointWrite" /\ issued' = issued /\ rev' = rev + 1
    BY <1>7, CheckpointedRow DEF RowCheckpointed
  <2>2. gate' # NoGate
    BY <2>1 DEF Gate, NoGate
  <2>3. ReadIsCurrent(v)'
    BY <1>1, <1>2, <1>3, <2>1, <2>2 DEF WorkerInv, ReadIsCurrent
  <2>4. TokenIsIssued(v)'
    BY <1>1, <1>2, <2>1 DEF WorkerInv, TokenIsIssued
  <2>5. SchedulerIsNewest(v)'
    BY <1>1, <1>2, <2>1 DEF OneHolderPerToken, SchedulerIsNewest, HoldingStep, CheckpointStep
  <2> QED
    BY <1>4, <2>3, <2>4, <2>5 DEF WorkerInv
<1> QED
  BY <1>5, <1>6, <1>7, RowSteps

\* w's claim after an action is the one it had, or the one the row was given.
ClaimKept(w) ==
    Claims(w)' =>
        \/ /\ Claims(w)
           /\ TokenOf(w)' = TokenOf(w) /\ LeaseOf(w)' = LeaseOf(w)
        \/ /\ RowClaimed(w)
           /\ TokenOf(w)' = issued + 1 /\ LeaseOf(w)' = call[w].now + Lease

LEMMA NothingClaimed ==
    ASSUME NEW w \in Worker, pc'[w] \in {"idle", "claimRead"}
    PROVE  WorkerInv(w)' /\ ~Claims(w)'
  BY DEF WorkerInv, ReadIsCurrent, ClaimIsDue, TokenIsIssued, SchedulerIsNewest,
         CheckpointIsPrepared, Claims, Holding, Won, HoldingStep, CheckpointStep

\* What w does leaves its own beliefs true, and tells it nothing is stored that
\* is not.
LEMMA ActingWorker ==
    ASSUME GateInv, NEW w \in Worker, ActionOf(w)
    PROVE  /\ WorkerInv(w)'
           /\ ClaimKept(w)
           /\ saved' \subseteq saved \cup SchedulerOf(gate')
<1> DEFINE Goal ==
        /\ WorkerInv(w)'
        /\ ClaimKept(w)
        /\ saved' \subseteq saved \cup SchedulerOf(gate')
<1> USE DEF ClaimKept
<1>1. TypeInv /\ WorkerInv(w) /\ TypeInv'
  BY TypeInvStep DEF GateInv
<1>2. CASE pc'[w] \in {"idle", "claimRead"} /\ saved' = saved
  BY <1>2, NothingClaimed
<1>3. CASE AskClaim(w)
  BY <1>1, <1>2, <1>3 DEF AskClaim, Goto, TypeInv, TypeOK
<1>4. ASSUME NEW release \in BOOLEAN, AskCheckpoint(w, release)
      PROVE  Goal
  <2>1. /\ pc[w] = "holding" /\ pc'[w] = "checkpointRead"
        /\ UNCHANGED <<gate, rev, issued, saved>>
    BY <1>1, <1>4 DEF AskCheckpoint, Goto, TypeInv, TypeOK
  <2>2. /\ call'[w].token = call[w].token
        /\ call'[w].lease_until = call[w].lease_until
        /\ call'[w].scheduler = call[w].scheduler \cup {call[w].token}
    BY <1>1, <1>4 DEF AskCheckpoint, TypeInv, CallType
  <2> QED
    BY <1>1, <2>1, <2>2 DEF WorkerInv, ReadIsCurrent, ClaimIsDue, TokenIsIssued,
           SchedulerIsNewest, CheckpointIsPrepared, Claims, Holding, Won, TokenOf, LeaseOf,
           HoldingStep, CheckpointStep
<1>5. CASE ClaimRead(w)
  <2>1. CASE Leave(w)
    BY <1>1, <1>2, <1>5, <2>1, LeaveType DEF ClaimRead
  <2>2. CASE ~(ScannedRecently(gate, call[w].now) \/ Leased(gate, call[w].now))
    <3>1. /\ pc'[w] = "claimWrite"
          /\ call'[w].read = gate /\ call'[w].rev = rev /\ call'[w].now = call[w].now
          /\ UNCHANGED <<gate, rev, issued, saved>>
      BY <1>1, <1>5, <2>2 DEF ClaimRead, Goto, TypeInv, TypeOK, CallType
    <3>2. rev \in Nat
      BY <1>1 DEF TypeInv, TypeOK
    <3> QED
      BY <2>2, <3>1, <3>2 DEF WorkerInv, ReadIsCurrent, ClaimIsDue, TokenIsIssued,
             SchedulerIsNewest, CheckpointIsPrepared, Claims, Holding, Won,
             HoldingStep, CheckpointStep
  <2> QED
    BY <1>5, <2>1, <2>2 DEF ClaimRead
<1>6. CASE ClaimWrite(w)
  <2> DEFINE value == ClaimValue(call[w].read, issued + 1, call[w].now)
             applies == Applies(call[w].read, call[w].rev)
  <2>1. pc[w] = "claimWrite" /\ saved' = saved /\ issued \in Nat
    BY <1>1, <1>6 DEF ClaimWrite, TypeInv, TypeOK
  <2>2. applies => RowClaimed(w) /\ gate' = value /\ issued' = issued + 1
    BY <1>6 DEF ClaimWrite, RowClaimed
  <2>3. /\ value.token = issued + 1
        /\ value.lease_until = call[w].now + Lease
        /\ applies => value # NoGate /\ gate' \in Gate
    <3>1. value.token = issued + 1 /\ value.lease_until = call[w].now + Lease
      BY DEF ClaimValue
    <3>2. applies => value \in Gate
      BY <2>2, ClaimedRow
    <3> HIDE DEF value, applies
    <3> QED
      BY <2>2, <3>1, <3>2 DEF Gate, NoGate
  <2>4. CASE /\ Goto(w, "claimReadback")
             /\ call' = [call EXCEPT ![w].value = IF applies THEN value ELSE NoGate]
    <3>1. /\ pc'[w] = "claimReadback"
          /\ call'[w].value = IF applies THEN value ELSE NoGate
      BY <1>1, <2>4 DEF Goto, TypeInv, TypeOK, CallType
    <3> HIDE DEF value, applies
    <3> QED
      BY <2>1, <2>2, <2>3, <3>1 DEF WorkerInv, ReadIsCurrent, ClaimIsDue, TokenIsIssued,
             SchedulerIsNewest, CheckpointIsPrepared, Claims, Holding, Won, TokenOf, LeaseOf,
             HoldingStep, CheckpointStep
  <2>5. CASE applies /\ Granted(w, value)
    <3>1. gate' = value /\ gate' \in Gate
      BY <2>2, <2>3, <2>5
    <3>2. /\ value.token \in 1..MaxClaims
          /\ value.lease_until \in Int
          /\ value.scheduler \in SUBSET (1..MaxClaims)
      BY <3>1 DEF Gate
    <3> HIDE DEF value
    <3>3. /\ pc'[w] = "holding"
          /\ call'[w].token = value.token
          /\ call'[w].lease_until = value.lease_until
          /\ call'[w].scheduler = value.scheduler
      BY <1>1, <2>5, <3>2, GrantedType
    <3> HIDE DEF applies
    <3> QED
      BY <2>1, <2>2, <2>3, <2>5, <3>1, <3>3 DEF WorkerInv, ReadIsCurrent, ClaimIsDue,
             TokenIsIssued, SchedulerIsNewest, CheckpointIsPrepared, Claims, Holding, Won,
             TokenOf, LeaseOf, HoldingStep, CheckpointStep
  <2>6. CASE TryAgain(w)
    BY <1>1, <1>2, <2>1, <2>6, TryAgainType
  <2> QED
    BY <1>6, <2>4, <2>5, <2>6 DEF ClaimWrite
<1>7. CASE ClaimReadback(w)
  <2> DEFINE value == call[w].value
  <2>1. pc[w] = "claimReadback" /\ UNCHANGED <<gate, rev, issued, saved>>
    BY <1>7 DEF ClaimReadback
  <2>2. CASE value # NoGate /\ gate = value /\ Granted(w, value)
    <3>1. value \in Gate
      BY <1>1, <2>2 DEF TypeInv, CallType
    <3>2. /\ value.token \in 1..MaxClaims
          /\ value.lease_until \in Int
          /\ value.scheduler \in SUBSET (1..MaxClaims)
      BY <3>1 DEF Gate
    <3>3. Won(w) /\ TokenOf(w) = value.token /\ LeaseOf(w) = value.lease_until
      BY <2>1, <2>2 DEF Won, TokenOf, LeaseOf
    <3> HIDE DEF value
    <3>4. /\ pc'[w] = "holding"
          /\ call'[w].token = value.token
          /\ call'[w].lease_until = value.lease_until
          /\ call'[w].scheduler = value.scheduler
      BY <1>1, <2>2, <3>2, GrantedType
    <3> QED
      BY <1>1, <2>1, <2>2, <3>3, <3>4 DEF WorkerInv, ReadIsCurrent, ClaimIsDue,
             TokenIsIssued, SchedulerIsNewest, CheckpointIsPrepared, Claims, Holding, Won,
             TokenOf, LeaseOf, HoldingStep, CheckpointStep
  <2>3. CASE TryAgain(w)
    BY <1>1, <1>2, <2>1, <2>3, TryAgainType
  <2> QED
    BY <1>7, <2>2, <2>3 DEF ClaimReadback
<1>8. CASE CheckpointRead(w)
  <2>1. pc[w] = "checkpointRead" /\ UNCHANGED <<gate, rev, issued, saved>>
    BY <1>8 DEF CheckpointRead
  <2>2. CASE Leave(w)
    BY <1>1, <1>2, <2>1, <2>2, LeaveType
  <2>3. ASSUME Holds(w, gate, call[w].now), NEW interval \in Intervals,
               Goto(w, "checkpointWrite"),
               call' = [call EXCEPT
                    ![w].read = gate, ![w].rev = rev,
                    ![w].value = CheckpointValue(gate, call[w].scheduler, call[w].now,
                                                 call[w].release, interval)]
        PROVE  Goal
    <3> DEFINE value == CheckpointValue(gate, call[w].scheduler, call[w].now,
                                        call[w].release, interval)
    <3>1. Known(gate) /\ gate.token = call[w].token /\ gate \in Gate
      BY <1>1, <2>3 DEF Holds, Known, TypeInv, TypeOK, NoGate, LegacyGate
    <3>2. /\ call[w].scheduler \in SUBSET (1..MaxClaims)
          /\ call[w].now \in Int /\ call[w].release \in BOOLEAN
      BY <1>1 DEF TypeInv, CallType
    <3>3. /\ value \in Gate
          /\ value.token = gate.token
          /\ value.claimed_at = gate.claimed_at
          /\ value.scheduler = call[w].scheduler
          /\ ~call[w].release => value.lease_until = gate.lease_until
      BY <3>1, <3>2, CheckpointValueType
    <3> HIDE DEF value
    <3>4. /\ pc'[w] = "checkpointWrite"
          /\ call'[w].read = gate /\ call'[w].rev = rev
          /\ call'[w].value = value
          /\ call'[w].token = call[w].token
          /\ call'[w].lease_until = call[w].lease_until
          /\ call'[w].scheduler = call[w].scheduler
          /\ call'[w].release = call[w].release
      BY <1>1, <2>3 DEF Goto, TypeInv, TypeOK, CallType, value
    <3>5. rev \in Nat /\ gate # NoGate
      BY <1>1, <3>1 DEF TypeInv, TypeOK, Gate, NoGate
    <3> QED
      BY <1>1, <2>1, <3>1, <3>3, <3>4, <3>5 DEF WorkerInv, ReadIsCurrent, ClaimIsDue,
             TokenIsIssued, SchedulerIsNewest, CheckpointIsPrepared, Claims, Holding, Won,
             TokenOf, LeaseOf, HoldingStep, CheckpointStep
  <2> QED
    BY <1>8, <2>2, <2>3 DEF CheckpointRead
<1>9. ASSUME NEW stored \in BOOLEAN, Stored(w, stored), issued' = issued,
             pc[w] \in {"checkpointWrite", "checkpointReadback"},
             stored => gate' = call[w].value
      PROVE  Goal
  <2>1. /\ call[w].value \in Gate
        /\ call[w].token \in call[w].scheduler
        /\ call[w].value.scheduler = call[w].scheduler
    BY <1>1, <1>9 DEF WorkerInv, CheckpointIsPrepared, CheckpointStep
  <2>2. stored => SchedulerOf(gate') = call[w].scheduler
    BY <1>9, <2>1 DEF SchedulerOf, Known, Gate
  <2>3. saved' \subseteq saved \cup SchedulerOf(gate')
    BY <1>9, <2>1, <2>2 DEF Stored
  <2>4. CASE Leave(w)
    BY <1>1, <2>3, <2>4, LeaveType, NothingClaimed
  <2>5. CASE stored /\ Granted(w, call[w])
    <3> DEFINE c == call[w]
    <3>1. /\ c.lease_until \in Int /\ c.scheduler \in SUBSET (1..MaxClaims)
          /\ c.token \in 1..MaxClaims
      BY <1>1, <1>9 DEF TypeInv, CallType, HoldingStep, CheckpointStep
    <3> HIDE DEF c
    <3>2. Granted(w, c)
      BY <2>5 DEF c
    <3>3. /\ pc'[w] = "holding"
          /\ call'[w].token = c.token
          /\ call'[w].lease_until = c.lease_until
          /\ call'[w].scheduler = c.scheduler
      BY <1>1, <3>1, <3>2, GrantedType
    <3>4. /\ pc'[w] = "holding"
          /\ call'[w].token = call[w].token
          /\ call'[w].lease_until = call[w].lease_until
          /\ call'[w].scheduler = call[w].scheduler
      BY <3>3 DEF c
    <3>5. SchedulerOf(gate') = call[w].scheduler
      BY <2>2, <2>5
    <3> QED
      BY <1>1, <1>9, <2>3, <3>4, <3>5 DEF WorkerInv, ReadIsCurrent, ClaimIsDue,
             TokenIsIssued, SchedulerIsNewest, CheckpointIsPrepared, Claims, Holding, Won,
             TokenOf, LeaseOf, HoldingStep, CheckpointStep, SchedulerOf
  <2> QED
    BY <1>9, <2>4, <2>5 DEF Stored
<1>10. CASE CheckpointWrite(w)
  <2> DEFINE applies == Applies(call[w].read, call[w].rev)
  <2>1. pc[w] = "checkpointWrite" /\ issued' = issued
    BY <1>10 DEF CheckpointWrite
  <2>2. applies => RowCheckpointed(w) /\ gate' = call[w].value
    BY <1>10 DEF CheckpointWrite, RowCheckpointed
  <2>3. ~applies => gate' = gate
    BY <1>10 DEF CheckpointWrite
  <2>4. CASE Goto(w, "checkpointReadback") /\ UNCHANGED <<call, saved>>
    <3>1. pc'[w] = "checkpointReadback" /\ call'[w] = call[w] /\ saved' = saved
      BY <1>1, <2>4 DEF Goto, TypeInv, TypeOK
    <3>2. Known(gate') /\ gate'.token = call[w].token =>
            gate'.scheduler \subseteq call[w].scheduler
      <4>1. CASE applies
        <5>1. SchedulerOf(gate') = call[w].scheduler
          BY <2>2, <4>1, CheckpointedRow
        <5> QED
          BY <5>1 DEF SchedulerOf
      <4>2. CASE ~applies
        BY <1>1, <2>1, <2>3, <4>2 DEF WorkerInv, SchedulerIsNewest, Holding, HoldingStep,
               CheckpointStep
      <4> QED
        BY <4>1, <4>2
    <3> HIDE DEF applies
    <3> QED
      BY <1>1, <2>1, <3>1, <3>2 DEF WorkerInv, ReadIsCurrent, ClaimIsDue,
             TokenIsIssued, SchedulerIsNewest, CheckpointIsPrepared, Claims, Holding, Won,
             TokenOf, LeaseOf, HoldingStep, CheckpointStep
  <2>5. CASE Stored(w, applies)
    <3>1. applies \in BOOLEAN
      BY DEF Applies
    <3> HIDE DEF applies
    <3> QED
      BY <1>9, <2>1, <2>2, <2>5, <3>1
  <2> QED
    BY <1>10, <2>4, <2>5 DEF CheckpointWrite
<1>11. CASE CheckpointReadback(w)
  <2> DEFINE stored == gate = call[w].value
  <2>1. /\ stored \in BOOLEAN /\ Stored(w, stored) /\ pc[w] = "checkpointReadback"
        /\ issued' = issued
        /\ stored => gate' = call[w].value
    BY <1>11 DEF CheckpointReadback
  <2> HIDE DEF stored
  <2> QED
    BY <1>9, <2>1
<1>12. CASE Abandon(w)
  BY <1>1, <1>2, <1>12, LeaveType DEF Abandon
<1> QED
  BY <1>3, <1>4, <1>5, <1>6, <1>7, <1>8, <1>10, <1>11, <1>12 DEF ActionOf, Serve

LEMMA GateInvStep ==
    ASSUME GateInv, NEW w \in Worker, ActionOf(w)
    PROVE  GateInv'
<1>1. TypeInv' /\ OthersAlone(w)
  BY TypeInvStep DEF GateInv
<1>2. \A v \in Worker : WorkerInv(v)'
  BY ActingWorker, OtherWorkers
<1>3. issued \in Nat
  BY DEF GateInv, TypeInv, TypeOK
<1>4. Known(gate') => gate'.token <= issued'
  <2>1. CASE RowKept
    BY <2>1 DEF RowKept, GateInv
  <2>2. CASE RowClaimed(w)
    BY <1>3, <2>2, ClaimedRow DEF RowClaimed
  <2>3. CASE RowCheckpointed(w)
    <3>1. gate \in Gate /\ gate'.token = gate.token /\ issued' = issued
      BY <2>3, CheckpointedRow DEF RowCheckpointed
    <3> QED
      BY <3>1 DEF GateInv, Known, Gate
  <2> QED
    BY <2>1, <2>2, <2>3, RowSteps
<1>5. saved' \subseteq SchedulerOf(gate')
  BY ActingWorker, ProgressGrows DEF GateInv
<1>6. ASSUME NEW u \in Worker, NEW v \in Worker, u # v, Claims(u)', Claims(v)'
      PROVE  TokenOf(u)' # TokenOf(v)'
  <2>1. ASSUME NEW x \in Worker, x # w
        PROVE  (Claims(x)' <=> Claims(x)) /\ TokenOf(x)' = TokenOf(x)
    BY <1>1, <2>1 DEF OthersAlone, Claims, Holding, Won, TokenOf
  <2>2. \A x \in Worker : Claims(x) => TokenOf(x) \in 1..issued
    BY DEF GateInv, WorkerInv, TokenIsIssued
  <2>3. ClaimKept(w)
    BY ActingWorker
  <2>4. OneHolderPerToken
    BY DEF GateInv
  <2>5. CASE u # w /\ v # w
    BY <1>6, <2>1, <2>4, <2>5 DEF OneHolderPerToken
  <2>6. ASSUME NEW x \in Worker, x # w, Claims(x)', Claims(w)'
        PROVE  TokenOf(x)' # TokenOf(w)'
    BY <1>3, <2>1, <2>2, <2>3, <2>4, <2>6 DEF OneHolderPerToken, ClaimKept
  <2> QED
    BY <1>6, <2>5, <2>6
<1> QED
  BY <1>1, <1>2, <1>4, <1>5, <1>6 DEF GateInv, OneHolderPerToken

LEMMA GateInvariant == Spec => []GateInv
<1>1. Init /\ TypeInv => GateInv
  BY DEF Init, GateInv, OneHolderPerToken, WorkerInv, ReadIsCurrent, ClaimIsDue,
         TokenIsIssued, SchedulerIsNewest, CheckpointIsPrepared, Claims, Holding, Won,
         HoldingStep, CheckpointStep, Known, NoGate, LegacyGate
<1>2. GateInv /\ TypeInv' /\ [Next]_vars => GateInv'
  <2> SUFFICES ASSUME GateInv, TypeInv', [Next]_vars
               PROVE  GateInv'
    OBVIOUS
  <2>1. CASE UNCHANGED <<gate, rev, issued, pc, call, saved>>
    BY <2>1 DEF GateInv, OneHolderPerToken, WorkerInv, ReadIsCurrent, ClaimIsDue,
           TokenIsIssued, SchedulerIsNewest, CheckpointIsPrepared, Claims, Holding, Won,
           TokenOf
  <2> QED
    BY <2>1, GateInvStep, NextIsAction DEF Tick, vars
<1> QED
  BY <1>1, <1>2, TypeInvariant, PTL DEF Spec

-----------------------------------------------------------------------------
\* Progress a worker was told is stored is in the row (checkpointMetaGate's
\* answer, by row count or by reading back), for any interleaving of workers.
THEOREM ToldProgressStays == Spec => []ToldProgressIsStored
  BY GateInvariant, PTL DEF GateInv, ToldProgressIsStored

\* No claim and no checkpoint loses scan progress another worker stored: the
\* compare-and-set only applies to the row that was read.
THEOREM ProgressIsNeverLost == Spec => NoProgressLost
<1>1. GateInv /\ [Next]_vars => [SchedulerOf(gate) \subseteq SchedulerOf(gate')]_vars
  BY NextIsAction, ProgressGrows DEF Tick, vars
<1> QED
  BY <1>1, GateInvariant, PTL DEF Spec, NoProgressLost

\* A claim keeps its distance from the last claim and from the end of the last
\* pass (claimMetaGate), or was stamped by a clock rewound beyond the skew.
THEOREM ClaimsAreSpaced == Spec => ScansAreSpaced
<1> DEFINE Spaced ==
        issued' > issued /\ Known(gate) =>
            \A t \in {gate.claimed_at} \cup gate.finished_at :
                \/ gate'.claimed_at >= t + ClaimInterval(gate)
                \/ gate'.claimed_at < t - Skew
<1>1. GateInv /\ [Next]_vars => [Spaced]_vars
  <2> SUFFICES ASSUME GateInv, [Next]_vars, issued' > issued, Known(gate),
                      NEW t \in {gate.claimed_at} \cup gate.finished_at
               PROVE  \/ gate'.claimed_at >= t + ClaimInterval(gate)
                      \/ gate'.claimed_at < t - Skew
    OBVIOUS
  <2>1. TypeInv /\ gate \in Gate /\ issued \in Nat
    BY DEF GateInv, TypeInv, TypeOK, Known, NoGate, LegacyGate
  <2>2. PICK w \in Worker : RowClaimed(w)
    BY <2>1, NextIsAction, RowSteps DEF Tick, vars, RowKept, RowCheckpointed
  <2>3. gate = call[w].read /\ gate'.claimed_at = call[w].now
    BY <2>2, ClaimedRow
  <2>4. ~ScannedRecently(gate, call[w].now)
    BY <2>2, <2>3 DEF RowClaimed, GateInv, WorkerInv, ClaimIsDue
  <2>5. ~isFreshTimestamp(call[w].now, t, ClaimInterval(gate))
    BY <2>4 DEF ScannedRecently
  <2>6. call[w].now \in Int /\ t \in Int /\ ClaimInterval(gate) \in Nat
    BY <2>1 DEF TypeInv, CallType, Gate, ClaimInterval
  <2> QED
    BY <2>3, <2>5, <2>6 DEF isFreshTimestamp
<1> QED
  BY <1>1, GateInvariant, PTL DEF Spec, ScansAreSpaced

-----------------------------------------------------------------------------
(***************************************************************************)
(* One scanner at a time, as long as calls are prompt: no row that a call  *)
(* reads is stamped so far ahead of its clock that the lease is not looked *)
(* at.                                                                     *)
(***************************************************************************)
ClockWasRead(w) ==
    pc[w] \in {"claimRead", "claimWrite", "claimReadback"} => call[w].now <= Now(w)

StampIsPast == Known(gate) => \E v \in Worker : gate.claimed_at <= Now(v)

\* The row a claim is to be written over was not stamped by a clock far ahead.
ReadStampIsNear(w) ==
    pc[w] = "claimWrite" /\ Known(call[w].read) =>
        call[w].read.claimed_at <= call[w].now + Skew

\* A release that is written and not yet read back is no lease any more.
Released(w) == pc[w] = "checkpointReadback" /\ call[w].release

KeepsLease(w) ==
    /\ Claims(w) /\ ~Released(w)
    /\ \A v \in Worker : Now(v) < LeaseOf(w)
    => /\ Known(gate)
       /\ gate.token = TokenOf(w)
       /\ gate.lease_until = LeaseOf(w)

LeaseInv ==
    /\ StampIsPast
    /\ \A w \in Worker : ClockWasRead(w) /\ ReadStampIsNear(w) /\ KeepsLease(w)

LEMMA ClockWasReadStep ==
    ASSUME TypeInv, NEW w \in Worker, ActionOf(w), ClockWasRead(w)
    PROVE  ClockWasRead(w)'
<1> USE DEF ClockWasRead
<1>1. CASE AskClaim(w)
  <2>1. pc'[w] = "claimRead" /\ call'[w].now = Now(w) /\ clock' = clock
    BY <1>1 DEF AskClaim, Goto, TypeInv, TypeOK, CallType
  <2> QED
    BY <2>1 DEF TypeInv, TypeOK, Now
<1>2. CASE ClaimRead(w)
  <2>1. CASE Leave(w)
    BY <2>1, LeaveType
  <2>2. CASE ~(ScannedRecently(gate, call[w].now) \/ Leased(gate, call[w].now))
    BY <1>2, <2>2 DEF ClaimRead, Goto, TypeInv, TypeOK, CallType, Now
  <2> QED
    BY <1>2, <2>1, <2>2 DEF ClaimRead
<1>3. CASE TryAgain(w) /\ pc[w] \in {"claimWrite", "claimReadback"} /\ clock' = clock
  BY <1>3, TryAgainType DEF Now
<1>4. CASE ClaimWrite(w)
  <2> DEFINE value == ClaimValue(call[w].read, issued + 1, call[w].now)
             applies == Applies(call[w].read, call[w].rev)
  <2> HIDE DEF value, applies
  <2>1. CASE /\ Goto(w, "claimReadback")
             /\ call' = [call EXCEPT ![w].value = IF applies THEN value ELSE NoGate]
    BY <1>4, <2>1 DEF ClaimWrite, TypeInv, TypeOK, CallType, Now
  <2>2. CASE Granted(w, value)
    BY <2>2 DEF Granted, Goto, TypeInv, TypeOK
  <2> QED
    BY <1>3, <1>4, <2>1, <2>2 DEF ClaimWrite, value, applies
<1>5. CASE ClaimReadback(w)
  BY <1>3, <1>5 DEF ClaimReadback, Granted, Goto, TypeInv, TypeOK
<1>6. CASE CheckpointRead(w)
  <2>1. pc'[w] \in {"idle", "checkpointWrite"}
    BY <1>6 DEF CheckpointRead, Leave, Goto, TypeInv, TypeOK
  <2> QED
    BY <2>1
<1>7. CASE CheckpointWrite(w) \/ CheckpointReadback(w)
  <2>1. pc'[w] \in {"idle", "holding", "checkpointReadback"}
    BY <1>7 DEF CheckpointWrite, CheckpointReadback, Stored, Granted, Leave, Goto, TypeInv, TypeOK
  <2> QED
    BY <2>1
<1>8. CASE Abandon(w)
  BY <1>8, LeaveType DEF Abandon
<1>9. ASSUME NEW release \in BOOLEAN, AskCheckpoint(w, release)
      PROVE  ClockWasRead(w)'
  <2>1. pc'[w] = "checkpointRead"
    BY <1>9 DEF AskCheckpoint, Goto, TypeInv, TypeOK
  <2> QED
    BY <2>1
<1> QED
  BY <1>1, <1>2, <1>4, <1>5, <1>6, <1>7, <1>8, <1>9 DEF ActionOf, Serve

\* A released claim is not taken up again.
LEMMA ReleaseIsFinal ==
    ASSUME TypeInv, NEW w \in Worker, ActionOf(w), Claims(w)'
    PROVE  /\ ~Released(w)
           /\ RowCheckpointed(w) /\ call[w].release => Released(w)'
<1> USE DEF Claims, Holding, Won, Released, HoldingStep, CheckpointStep
<1>1. pc'[w] # "idle"
  OBVIOUS
<1>2. ~Leave(w)
  BY <1>1, LeaveType
<1>3. CASE Released(w)
  <2>1. CheckpointReadback(w) \/ Abandon(w)
    BY <1>3 DEF ActionOf, Serve, AskClaim, AskCheckpoint, ClaimRead, ClaimWrite,
           ClaimReadback, CheckpointRead, CheckpointWrite
  <2> QED
    BY <1>2, <1>3, <2>1 DEF CheckpointReadback, Abandon, Stored
<1>4. CASE RowCheckpointed(w) /\ call[w].release
  <2>1. CheckpointWrite(w) \/ Abandon(w)
    BY <1>4 DEF RowCheckpointed, ActionOf, Serve, AskClaim, AskCheckpoint, ClaimRead,
           ClaimWrite, ClaimReadback, CheckpointRead, CheckpointReadback
  <2>2. Goto(w, "checkpointReadback") /\ UNCHANGED call
    BY <1>2, <1>4, <2>1 DEF CheckpointWrite, Abandon, Stored
  <2> QED
    BY <1>4, <2>2 DEF RowCheckpointed, Goto, TypeInv, TypeOK
<1> QED
  BY <1>3, <1>4

\* Only a call that has just read the row is about to write its claim.
LEMMA ReadStampStep ==
    ASSUME ClaimsArePrompt, GateInv, LeaseInv, NEW w \in Worker, ActionOf(w)
    PROVE  ReadStampIsNear(w)'
<1> SUFFICES ASSUME pc'[w] = "claimWrite", Known(call'[w].read)
             PROVE  call'[w].read.claimed_at <= call'[w].now + Skew
  BY DEF ReadStampIsNear, Known
<1>1. TypeInv
  BY DEF GateInv
<1>2. pc[w] = "claimRead" /\ call' = [call EXCEPT ![w].read = gate, ![w].rev = rev]
  <2>1. ~Leave(w) /\ ~TryAgain(w)
    BY <1>1, LeaveType, TryAgainType
  <2>2. ~ClaimWrite(w) /\ ~ClaimReadback(w) /\ ~CheckpointWrite(w) /\ ~CheckpointReadback(w)
    BY <1>1, <2>1 DEF ClaimWrite, ClaimReadback, CheckpointWrite, CheckpointReadback, Stored,
           Granted, Goto, TypeInv, TypeOK
  <2>3. ~AskClaim(w) /\ ~CheckpointRead(w) /\ ~Abandon(w)
    BY <1>1, <2>1 DEF AskClaim, CheckpointRead, Abandon, Goto, TypeInv, TypeOK
  <2>4. \A release \in BOOLEAN : ~AskCheckpoint(w, release)
    BY <1>1 DEF AskCheckpoint, Goto, TypeInv, TypeOK
  <2> QED
    BY <2>1, <2>2, <2>3, <2>4 DEF ActionOf, Serve, ClaimRead
<1>3. call'[w].read = gate /\ call'[w].now = call[w].now
  BY <1>1, <1>2 DEF TypeInv, CallType
<1>4. PICK v \in Worker : gate.claimed_at <= Now(v)
  BY <1>3 DEF LeaseInv, StampIsPast
<1>5. Now(v) <= call[w].now + Skew
  BY <1>2 DEF ClaimsArePrompt
<1>6. gate \in Gate /\ Now(v) \in Int /\ call[w].now \in Int
  BY <1>1, <1>3 DEF TypeInv, TypeOK, CallType, Known, NoGate, LegacyGate, Now
<1> QED
  BY <1>3, <1>4, <1>5, <1>6 DEF Gate

LEMMA LeaseInvStep ==
    ASSUME ClaimsArePrompt, GateInv, LeaseInv, NEW w \in Worker, ActionOf(w)
    PROVE  LeaseInv'
<1>1. /\ TypeInv /\ TypeInv' /\ OthersAlone(w) /\ clock' = clock
  BY TypeInvStep, RowSteps DEF GateInv
<1>2. \A v \in Worker : ClockWasRead(v)'
  BY <1>1, ClockWasReadStep DEF LeaseInv, ClockWasRead, OthersAlone, Now
<1>3. \A v \in Worker : ReadStampIsNear(v)'
  BY <1>1, ReadStampStep DEF LeaseInv, ReadStampIsNear, OthersAlone
<1>4. ASSUME RowClaimed(w)
      PROVE  /\ call[w].now \in Int /\ call[w].now <= Now(w)
             /\ Known(call[w].read) => call[w].read.claimed_at <= call[w].now + Skew
  BY <1>1, <1>4 DEF RowClaimed, LeaseInv, ClockWasRead, ReadStampIsNear, TypeInv, CallType
<1>5. StampIsPast'
  <2>0. \A v \in Worker : Now(v)' = Now(v)
    BY <1>1 DEF Now
  <2>1. CASE RowKept
    BY <2>0, <2>1 DEF RowKept, LeaseInv, StampIsPast
  <2>2. CASE RowClaimed(w)
    <3>1. gate'.claimed_at = call[w].now
      BY <2>2, ClaimedRow
    <3> QED
      BY <1>4, <2>0, <2>2, <3>1 DEF StampIsPast
  <2>3. CASE RowCheckpointed(w)
    <3>1. gate'.claimed_at = gate.claimed_at /\ Known(gate)
      BY <2>3, CheckpointedRow DEF Known, Gate
    <3> QED
      BY <2>0, <3>1 DEF LeaseInv, StampIsPast
  <2> QED
    BY <2>1, <2>2, <2>3, RowSteps
<1>6. ASSUME NEW v \in Worker, v # w
      PROVE  KeepsLease(v)'
  <2>1. /\ Claims(v)' <=> Claims(v)
        /\ Released(v)' <=> Released(v)
        /\ TokenOf(v)' = TokenOf(v) /\ LeaseOf(v)' = LeaseOf(v)
        /\ \A u \in Worker : Now(u)' = Now(u)
    BY <1>1, <1>6 DEF OthersAlone, Claims, Holding, Won, TokenOf, LeaseOf, Released, Now
  <2>2. SUFFICES ASSUME Claims(v), ~Released(v), \A u \in Worker : Now(u) < LeaseOf(v)
                 PROVE  /\ Known(gate')
                        /\ gate'.token = TokenOf(v)
                        /\ gate'.lease_until = LeaseOf(v)
    BY <2>1 DEF KeepsLease
  <2>3. Known(gate) /\ gate.token = TokenOf(v) /\ gate.lease_until = LeaseOf(v)
    BY <2>2 DEF LeaseInv, KeepsLease
  <2>4. ~RowClaimed(w)
    <3> SUFFICES ASSUME RowClaimed(w)
                 PROVE  FALSE
      OBVIOUS
    <3>1. gate = call[w].read /\ ~Leased(gate, call[w].now)
      BY ClaimedRow DEF RowClaimed, GateInv, WorkerInv, ClaimIsDue
    <3>2. gate \in Gate
      BY <1>1, <2>3 DEF TypeInv, TypeOK, Known, NoGate, LegacyGate
    <3>3. gate.lease_until > call[w].now
      <4>1. Now(w) < LeaseOf(v) /\ Now(w) \in Int
        BY <1>1, <2>2 DEF TypeInv, TypeOK, Now
      <4> QED
        BY <1>4, <2>3, <3>2, <4>1 DEF Gate
    <3>4. gate.claimed_at <= call[w].now + Skew
      BY <1>4, <2>3, <3>1
    <3> QED
      BY <2>3, <3>1, <3>3, <3>4 DEF Leased
  <2>5. ~RowCheckpointed(w)
    <3> SUFFICES ASSUME RowCheckpointed(w)
                 PROVE  FALSE
      OBVIOUS
    <3>1. gate.token = call[w].token
      BY CheckpointedRow
    <3>2. Claims(w) /\ TokenOf(w) = call[w].token
      BY DEF RowCheckpointed, Claims, Holding, HoldingStep, CheckpointStep, TokenOf, Won
    <3> QED
      BY <1>6, <2>2, <2>3, <3>1, <3>2 DEF GateInv, OneHolderPerToken
  <2> QED
    BY <2>3, <2>4, <2>5, RowSteps DEF RowKept
<1>7. KeepsLease(w)'
  <2>1. \A u \in Worker : Now(u)' = Now(u)
    BY <1>1 DEF Now
  <2>2. SUFFICES ASSUME Claims(w)', ~Released(w)', \A u \in Worker : Now(u) < LeaseOf(w)'
                 PROVE  /\ Known(gate')
                        /\ gate'.token = TokenOf(w)'
                        /\ gate'.lease_until = LeaseOf(w)'
    BY <2>1 DEF KeepsLease
  <2>3. CASE /\ RowClaimed(w)
             /\ TokenOf(w)' = issued + 1 /\ LeaseOf(w)' = call[w].now + Lease
    BY <2>3, ClaimedRow DEF Known, Gate
  <2>4. CASE /\ Claims(w)
             /\ TokenOf(w)' = TokenOf(w) /\ LeaseOf(w)' = LeaseOf(w)
    <3>1. ~Released(w) /\ ~(RowCheckpointed(w) /\ call[w].release)
      BY <1>1, <2>2, ReleaseIsFinal
    <3>2. Known(gate) /\ gate.token = TokenOf(w) /\ gate.lease_until = LeaseOf(w)
      BY <2>2, <2>4, <3>1 DEF LeaseInv, KeepsLease
    <3>3. ~RowClaimed(w)
      BY <2>4 DEF RowClaimed, Claims, Holding, Won, HoldingStep, CheckpointStep
    <3>4. CASE RowCheckpointed(w)
      <4>1. /\ gate' \in Gate /\ gate'.token = gate.token
            /\ gate'.lease_until = gate.lease_until
        BY <3>1, <3>4, CheckpointedRow
      <4> QED
        BY <2>4, <3>2, <4>1 DEF Known, Gate
    <3> QED
      BY <2>4, <3>2, <3>3, <3>4, RowSteps DEF RowKept
  <2> QED
    BY <2>2, <2>3, <2>4, ActingWorker DEF ClaimKept
<1> QED
  BY <1>2, <1>3, <1>5, <1>6, <1>7 DEF LeaseInv

\* While a worker's lease runs on every worker's clock, no other worker is given
\* the gate (claimMetaGate), as long as no call looks at the row with a clock
\* reading that is behind by more than the tolerated skew.
THEOREM LeasesAreHonoured == Spec => LeaseIsHonouredWithinSkew
<1>1. Init => LeaseInv
  BY DEF Init, LeaseInv, StampIsPast, ClockWasRead, ReadStampIsNear, KeepsLease, Claims, Holding, Won,
         HoldingStep, CheckpointStep, Known, NoGate, LegacyGate
<1>2. ClaimsArePrompt /\ GateInv /\ LeaseInv /\ [Next]_vars => LeaseInv'
  <2> SUFFICES ASSUME ClaimsArePrompt, GateInv, LeaseInv, [Next]_vars
               PROVE  LeaseInv'
    OBVIOUS
  <2>1. CASE UNCHANGED <<gate, pc, call>> /\ (clock' = clock \/ clock' = clock + 1)
    <3>1. clock \in Int
      BY DEF GateInv, TypeInv, TypeOK
    <3>2. \A w \in Worker : call[w].now \in Int /\ call[w].lease_until \in Int
      BY DEF GateInv, TypeInv, CallType
    <3>3. \A w \in Worker : Now(w) \in Int /\ Now(w)' \in Int /\ Now(w) <= Now(w)'
      BY <2>1, <3>1 DEF Now
    <3>4. StampIsPast'
      <4>1. Known(gate) => gate.claimed_at \in Int
        BY DEF GateInv, TypeInv, TypeOK, Known, NoGate, LegacyGate, Gate
      <4> QED
        BY <2>1, <3>3, <4>1 DEF LeaseInv, StampIsPast
    <3>5. \A w \in Worker : ClockWasRead(w)' /\ ReadStampIsNear(w)'
      BY <2>1, <3>2, <3>3 DEF LeaseInv, ClockWasRead, ReadStampIsNear
    <3>6. ASSUME NEW w \in Worker
          PROVE  KeepsLease(w)'
      <4>1. /\ Claims(w)' <=> Claims(w)
            /\ Released(w)' <=> Released(w)
            /\ TokenOf(w)' = TokenOf(w) /\ LeaseOf(w)' = LeaseOf(w)
        BY <2>1 DEF Claims, Holding, Won, TokenOf, LeaseOf, Released
      <4>2. Claims(w) => LeaseOf(w) \in Int
        <5>1. Won(w) => call[w].value \in Gate
          BY DEF GateInv, TypeInv, CallType, Won
        <5> QED
          BY <3>2, <5>1 DEF LeaseOf, Gate
      <4>3. Claims(w) /\ (\A v \in Worker : Now(v)' < LeaseOf(w)) =>
                \A v \in Worker : Now(v) < LeaseOf(w)
        BY <3>3, <4>2
      <4> QED
        BY <2>1, <4>1, <4>3 DEF LeaseInv, KeepsLease
    <3> QED
      BY <3>4, <3>5, <3>6 DEF LeaseInv
  <2> QED
    BY <2>1, LeaseInvStep, NextIsAction DEF Tick, vars
<1>3. LeaseInv => LeaseIsHonoured
  BY DEF LeaseInv, KeepsLease, LeaseIsHonoured, Claims, Holding, Won, HoldingStep,
         CheckpointStep, Released, TokenOf, LeaseOf
<1> QED
  BY <1>1, <1>2, <1>3, GateInvariant, PTL DEF Spec, LeaseIsHonouredWithinSkew

-----------------------------------------------------------------------------
(***************************************************************************)
(* The scheduler that the gate stores, for any attempts and kinds, batch   *)
(* size, arrivals and number of slices.                                    *)
(***************************************************************************)
HIDE GateAssumption

Walks == [attempts : Seq(Attempt) \ {<<>>}, left : 0..MaxSlices, due : SUBSET Attempt]

Share(walk, other) == ToSet(walk.attempts) \cap ToSet(other.attempts) # {}

\* Walks that name no attempt twice.
Apart(queue) ==
    /\ \A k \in DOMAIN queue : IsInjective(queue[k].attempts)
    /\ \A j, k \in DOMAIN queue : j # k => ~Share(queue[j], queue[k])

\* The walk under way has left its place in the queue.
SchedulerInv ==
    /\ ledger \in Seq(Attempt) /\ IsInjective(ledger)
    /\ cursor \in 0..Len(ledger)
    /\ windows \in Seq(Walks) /\ Len(windows) <= 2 /\ Apart(windows)
    /\ \/ pass = NoPass
       \/ /\ pass \in Walks /\ IsInjective(pass.attempts) /\ Len(windows) <= 1
          /\ \A k \in DOMAIN windows : ~Share(pass, windows[k])
    /\ delivering \subseteq Attempt /\ received \subseteq ToSet(ledger)
    /\ arrivals \in 0..MaxArrivals
    /\ healthy \in BOOLEAN

\* A set of naturals that is not empty has a least element, and so a bounded one
\* has a greatest.
LEMMA LeastNumber ==
    ASSUME NEW S \in SUBSET Nat, S # {}
    PROVE  \E m \in S : \A k \in S : m <= k
<1>1. PICK m \in S : \A k \in S : <<k, m>> \notin OpToRel(<, Nat)
  BY WFMin, NatLessThanWellFounded
<1>2. ASSUME NEW k \in S PROVE m <= k
  <2>1. <<k, m>> \in Nat \X Nat
    OBVIOUS
  <2>2. ~ (k < m)
    BY <1>1, <2>1 DEF OpToRel
  <2> QED
    BY <2>2
<1> QED
  BY <1>2

LEMMA GreatestNumber ==
    ASSUME NEW N \in Nat, NEW S \in SUBSET (0..N), S # {}
    PROVE  \E m \in S : \A k \in S : m >= k
<1> DEFINE T == {N - k : k \in S}
<1>1. T \in SUBSET Nat /\ T # {}
  <2>1. \A k \in S : k \in 0..N /\ N - k \in Nat
    OBVIOUS
  <2>2. PICK k \in S : TRUE
    OBVIOUS
  <2>3. N - k \in T
    OBVIOUS
  <2> QED
    BY <2>1, <2>3
<1>2. PICK t \in T : \A u \in T : t <= u
  BY <1>1, LeastNumber
<1>3. PICK m \in S : t = N - m
  BY <1>2
<1>4. ASSUME NEW k \in S PROVE m >= k
  <2>1. N - k \in T
    OBVIOUS
  <2>2. N - m <= N - k
    BY <1>2, <1>3, <2>1
  <2> QED
    BY <2>2
<1> QED
  BY <1>4

\* A set that holds 0, and the next number with each below N, holds all up to N.
LEMMA Induction ==
    ASSUME NEW N \in Nat, NEW S, 0 \in S, \A n \in 0..(N - 1) : n \in S => n + 1 \in S
    PROVE  0..N \subseteq S
<1> SUFFICES ASSUME (0..N) \ S # {} PROVE FALSE
  OBVIOUS
<1>0. (0..N) \ S \in SUBSET Nat
  OBVIOUS
<1>1. PICK m \in (0..N) \ S : \A k \in (0..N) \ S : m <= k
  BY <1>0, LeastNumber
<1>2. m # 0 /\ m - 1 \in 0..(N - 1) /\ m - 1 \notin (0..N) \ S
  BY <1>1
<1> QED
  BY <1>1, <1>2

\* Taking elements of a sequence without repetitions, each at most once.
LEMMA PickedIs ==
    ASSUME NEW s \in Seq(Attempt), IsInjective(s), NEW r \in Seq(Attempt),
           NEW place \in [DOMAIN r -> DOMAIN s],
           \A j, k \in DOMAIN r : place[j] = place[k] => j = k,
           \A k \in DOMAIN r : r[k] = s[place[k]]
    PROVE  /\ IsInjective(r)
           /\ ToSet(r) = {s[place[k]] : k \in DOMAIN r}
<1>1. ASSUME NEW j \in DOMAIN r, NEW k \in DOMAIN r, r[j] = r[k]
      PROVE  j = k
  <2>1. place[j] \in DOMAIN s /\ place[k] \in DOMAIN s /\ s[place[j]] = s[place[k]]
    BY <1>1
  <2>2. place[j] = place[k]
    BY <2>1 DEF IsInjective
  <2> QED
    BY <2>2
<1>2. IsInjective(r)
  BY <1>1 DEF IsInjective
<1> QED
  BY <1>2 DEF ToSet

\* Part of a sequence without repetitions.
LEMMA SubSeqIs ==
    ASSUME NEW s \in Seq(Attempt), IsInjective(s), NEW m \in 1..(Len(s) + 1), NEW n \in 0..Len(s)
    PROVE  /\ SubSeq(s, m, n) \in Seq(Attempt) /\ IsInjective(SubSeq(s, m, n))
           /\ Len(SubSeq(s, m, n)) = IF m <= n THEN n - m + 1 ELSE 0
           /\ \A k \in 1..(n - m + 1) : SubSeq(s, m, n)[k] = s[m + k - 1]
           /\ ToSet(SubSeq(s, m, n)) = {s[i] : i \in m..n}
<1> DEFINE r == SubSeq(s, m, n)
           place == [k \in 1..(n - m + 1) |-> m + k - 1]
<1>1. Len(s) \in Nat /\ m \in Int /\ n \in Int /\ DOMAIN s = 1..Len(s)
  OBVIOUS
<1>2. \A i \in m..n : s[i] \in Attempt
  OBVIOUS
<1>3. /\ r \in Seq(Attempt) /\ Len(r) = IF m <= n THEN n - m + 1 ELSE 0
      /\ \A k \in 1..(n - m + 1) : r[k] = s[m + k - 1]
  BY <1>1, <1>2, SubSeqProperties
<1>4. DOMAIN r = 1..(n - m + 1)
  BY <1>1, <1>3
<1> HIDE DEF r
<1>5. place \in [DOMAIN r -> DOMAIN s]
  BY <1>1, <1>4
<1>6. \A j, k \in DOMAIN r : place[j] = place[k] => j = k
  BY <1>1, <1>4
<1>7. \A k \in DOMAIN r : r[k] = s[place[k]]
  BY <1>3, <1>4
<1> HIDE DEF place
<1>8. IsInjective(r) /\ ToSet(r) = {s[place[k]] : k \in DOMAIN r}
  BY <1>3, <1>5, <1>6, <1>7, PickedIs
<1>9. {s[place[k]] : k \in DOMAIN r} = {s[i] : i \in m..n}
  <2>1. ASSUME NEW k \in DOMAIN r PROVE place[k] \in m..n
    BY <1>1, <1>4 DEF place
  <2>2. ASSUME NEW i \in m..n PROVE \E k \in DOMAIN r : place[k] = i
    <3>1. i - m + 1 \in 1..(n - m + 1) /\ m + (i - m + 1) - 1 = i
      BY <1>1
    <3> QED
      BY <1>4, <3>1 DEF place
  <2> QED
    BY <2>1, <2>2
<1> QED
  BY <1>3, <1>8, <1>9 DEF r

\* A sequence without repetitions, and without one of its elements.
LEMMA RemoveAtIs ==
    ASSUME NEW s \in Seq(Attempt), IsInjective(s), NEW i \in 1..Len(s)
    PROVE  /\ RemoveAt(s, i) \in Seq(Attempt) /\ IsInjective(RemoveAt(s, i))
           /\ Len(RemoveAt(s, i)) = Len(s) - 1
           /\ ToSet(RemoveAt(s, i)) = ToSet(s) \ {s[i]}
<1> DEFINE a == SubSeq(s, 1, i - 1)
           b == SubSeq(s, i + 1, Len(s))
           place == [k \in 1..(Len(s) - 1) |-> IF k < i THEN k ELSE k + 1]
<1>1. Len(s) \in Nat /\ i \in Int /\ DOMAIN s = 1..Len(s)
  OBVIOUS
<1>2. /\ a \in Seq(Attempt) /\ Len(a) = i - 1
      /\ \A k \in 1..(i - 1) : a[k] = s[k]
  <2>1. 1 \in 1..(Len(s) + 1) /\ i - 1 \in 0..Len(s) /\ (i - 1) - 1 + 1 = i - 1
    BY <1>1
  <2>2. /\ a \in Seq(Attempt) /\ Len(a) = IF 1 <= i - 1 THEN (i - 1) - 1 + 1 ELSE 0
        /\ \A k \in 1..((i - 1) - 1 + 1) : a[k] = s[1 + k - 1]
    BY <2>1, SubSeqIs
  <2> HIDE DEF a
  <2>3. Len(a) = i - 1
    BY <1>1, <2>2
  <2>4. ASSUME NEW k \in 1..(i - 1) PROVE a[k] = s[k]
    <3>1. k \in 1..((i - 1) - 1 + 1) /\ 1 + k - 1 = k
      BY <1>1
    <3> QED
      BY <2>2, <3>1
  <2> QED
    BY <2>2, <2>3, <2>4
<1>3. /\ b \in Seq(Attempt) /\ Len(b) = Len(s) - i
      /\ \A k \in 1..(Len(s) - i) : b[k] = s[i + k]
  <2>1. i + 1 \in 1..(Len(s) + 1) /\ Len(s) \in 0..Len(s)
    BY <1>1
  <2>2. /\ b \in Seq(Attempt) /\ Len(b) = IF i + 1 <= Len(s) THEN Len(s) - (i + 1) + 1 ELSE 0
        /\ \A k \in 1..(Len(s) - (i + 1) + 1) : b[k] = s[(i + 1) + k - 1]
    BY <2>1, SubSeqIs
  <2> HIDE DEF b
  <2>3. Len(b) = Len(s) - i
    <3>1. ASSUME NEW l \in Nat, i <= l
          PROVE  (IF i + 1 <= l THEN l - (i + 1) + 1 ELSE 0) = l - i
      BY <1>1, <3>1
    <3>2. i <= Len(s)
      BY <1>1
    <3> QED
      BY <1>1, <2>2, <3>1, <3>2
  <2>4. ASSUME NEW k \in 1..(Len(s) - i) PROVE b[k] = s[i + k]
    <3>1. k \in 1..(Len(s) - (i + 1) + 1) /\ (i + 1) + k - 1 = i + k
      BY <1>1
    <3> QED
      BY <2>2, <3>1
  <2> QED
    BY <2>2, <2>3, <2>4
<1> HIDE DEF a, b
<1> DEFINE r == a \o b
<1>4. /\ r \in Seq(Attempt) /\ Len(r) = Len(s) - 1 /\ DOMAIN r = 1..(Len(s) - 1)
  <2>1. r \in Seq(Attempt) /\ Len(r) = Len(a) + Len(b)
    BY <1>2, <1>3, ConcatProperties
  <2>2. Len(a) + Len(b) = Len(s) - 1
    BY <1>1, <1>2, <1>3
  <2> HIDE DEF r
  <2> QED
    BY <2>1, <2>2
<1>5. ASSUME NEW k \in 1..(Len(s) - 1) PROVE r[k] = IF k < i THEN s[k] ELSE s[k + 1]
  <2>1. CASE k < i
    <3>1. k \in 1..(i - 1) /\ k <= Len(a)
      BY <1>1, <1>2, <2>1
    <3>2. r[k] = a[k]
      BY <1>2, <1>3, <3>1
    <3> QED
      BY <1>2, <2>1, <3>1, <3>2
  <2>2. CASE ~(k < i)
    <3>1. k - i + 1 \in 1..(Len(s) - i) /\ k > Len(a) /\ k - Len(a) = k - i + 1
          /\ i + (k - i + 1) = k + 1 /\ k \in 1..(Len(a) + Len(b))
      BY <1>1, <1>2, <1>3, <2>2
    <3>2. r[k] = b[k - Len(a)]
      BY <1>2, <1>3, <3>1
    <3>3. b[k - i + 1] = s[i + (k - i + 1)]
      <4> DEFINE m == k - i + 1
      <4>1. m \in 1..(Len(s) - i)
        BY <3>1
      <4> HIDE DEF m
      <4>2. b[m] = s[i + m]
        BY <1>3, <4>1
      <4> QED
        BY <4>2 DEF m
    <3>4. r[k] = s[k + 1]
      BY <3>1, <3>2, <3>3
    <3> QED
      BY <2>2, <3>4
  <2> QED
    BY <2>1, <2>2
<1>6. RemoveAt(s, i) = r
  BY DEF RemoveAt, a, b
<1> HIDE DEF r
<1>7. place \in [DOMAIN r -> DOMAIN s]
  BY <1>1, <1>4
<1>8. \A j, k \in DOMAIN r : place[j] = place[k] => j = k
  BY <1>1, <1>4
<1>9. \A k \in DOMAIN r : r[k] = s[place[k]]
  BY <1>4, <1>5
<1>10. IsInjective(r) /\ ToSet(r) = {s[place[k]] : k \in DOMAIN r}
  <2>1. r \in Seq(Attempt)
    BY <1>4
  <2> HIDE DEF place
  <2> QED
    BY <1>7, <1>8, <1>9, <2>1, PickedIs
<1>11. ASSUME NEW k \in DOMAIN r PROVE place[k] \in DOMAIN s /\ s[place[k]] # s[i]
  <2>1. place[k] \in DOMAIN s /\ place[k] # i /\ i \in DOMAIN s
    BY <1>1, <1>4
  <2> HIDE DEF place
  <2> QED
    BY <2>1 DEF IsInjective
<1>12. ASSUME NEW k \in DOMAIN s, s[k] # s[i] PROVE \E j \in DOMAIN r : place[j] = k
  <2>1. CASE k < i
    BY <1>1, <1>4, <2>1
  <2>2. CASE k > i
    <3>1. k - 1 \in 1..(Len(s) - 1) /\ ~(k - 1 < i) /\ (k - 1) + 1 = k
      BY <1>1, <2>2
    <3> QED
      BY <1>4, <3>1
  <2>3. k # i /\ k \in Int /\ i \in Int
    BY <1>1, <1>12
  <2> QED
    BY <2>1, <2>2, <2>3
<1>13. ToSet(r) = ToSet(s) \ {s[i]}
  <2> HIDE DEF place
  <2>1. ToSet(s) = {s[k] : k \in DOMAIN s}
    BY DEF ToSet
  <2>2. ASSUME NEW x \in ToSet(r) PROVE x \in ToSet(s) \ {s[i]}
    <3>1. PICK k \in DOMAIN r : x = s[place[k]]
      BY <1>10
    <3> QED
      BY <1>11, <2>1, <3>1
  <2>3. ASSUME NEW x \in ToSet(s) \ {s[i]} PROVE x \in ToSet(r)
    <3>1. PICK k \in DOMAIN s : x = s[k]
      BY <2>1
    <3>2. PICK j \in DOMAIN r : place[j] = k
      BY <1>12, <3>1
    <3> QED
      BY <1>10, <3>1, <3>2
  <2> QED
    BY <2>2, <2>3
<1> QED
  BY <1>4, <1>6, <1>10, <1>13

\* Two queues that share no attempt, one behind the other, and a queue without its
\* first walk.
LEMMA ConcatApart ==
    ASSUME NEW q \in Seq(Walks), NEW r \in Seq(Walks), Apart(q), Apart(r),
           \A j \in DOMAIN q, k \in DOMAIN r : ~Share(q[j], r[k])
    PROVE  q \o r \in Seq(Walks) /\ Len(q \o r) = Len(q) + Len(r) /\ Apart(q \o r)
<1> DEFINE s == q \o r
<1>1. /\ Len(q) \in Nat /\ Len(r) \in Nat
      /\ DOMAIN q = 1..Len(q) /\ DOMAIN r = 1..Len(r)
  OBVIOUS
<1>2. /\ s \in Seq(Walks) /\ Len(s) = Len(q) + Len(r) /\ DOMAIN s = 1..(Len(q) + Len(r))
      /\ \A k \in 1..(Len(q) + Len(r)) : s[k] = IF k <= Len(q) THEN q[k] ELSE r[k - Len(q)]
  BY <1>1
<1> HIDE DEF s
<1>3. ASSUME NEW k \in DOMAIN s
      PROVE  \/ k \in DOMAIN q /\ s[k] = q[k]
             \/ k - Len(q) \in DOMAIN r /\ s[k] = r[k - Len(q)]
  BY <1>1, <1>2
<1>4. \A k \in DOMAIN s : IsInjective(s[k].attempts)
  BY <1>3 DEF Apart
<1>5. ASSUME NEW j \in DOMAIN s, NEW k \in DOMAIN s, j # k
      PROVE  ~Share(s[j], s[k])
  <2>1. \A x, y : Share(x, y) => Share(y, x)
    BY DEF Share
  <2>2. j \in Int /\ k \in Int /\ Len(q) \in Int
    BY <1>1, <1>2
  <2>3. CASE j \in DOMAIN q /\ s[j] = q[j] /\ k \in DOMAIN q /\ s[k] = q[k]
    BY <1>5, <2>3 DEF Apart
  <2>4. CASE /\ j - Len(q) \in DOMAIN r /\ s[j] = r[j - Len(q)]
             /\ k - Len(q) \in DOMAIN r /\ s[k] = r[k - Len(q)]
    <3>1. j - Len(q) # k - Len(q)
      BY <1>5, <2>2
    <3> QED
      BY <2>4, <3>1 DEF Apart
  <2>5. CASE /\ j \in DOMAIN q /\ s[j] = q[j]
             /\ k - Len(q) \in DOMAIN r /\ s[k] = r[k - Len(q)]
    BY <2>5
  <2>6. CASE /\ k \in DOMAIN q /\ s[k] = q[k]
             /\ j - Len(q) \in DOMAIN r /\ s[j] = r[j - Len(q)]
    BY <2>1, <2>6
  <2> QED
    BY <1>3, <2>3, <2>4, <2>5, <2>6
<1>6. Apart(s)
  BY <1>4, <1>5 DEF Apart
<1> QED
  BY <1>2, <1>6 DEF s

LEMMA TailApart ==
    ASSUME NEW q \in Seq(Walks), q # <<>>, Apart(q)
    PROVE  /\ Head(q) \in Walks /\ IsInjective(Head(q).attempts)
           /\ Tail(q) \in Seq(Walks) /\ Len(Tail(q)) = Len(q) - 1 /\ Apart(Tail(q))
           /\ \A k \in DOMAIN Tail(q) : ~Share(Head(q), Tail(q)[k])
<1>1. /\ Len(q) \in Nat /\ Len(q) > 0 /\ DOMAIN q = 1..Len(q)
      /\ Head(q) = q[1] /\ Head(q) \in Walks
  OBVIOUS
<1> DEFINE r == Tail(q)
<1>2. /\ r \in Seq(Walks) /\ Len(r) = Len(q) - 1 /\ DOMAIN r = 1..(Len(q) - 1)
      /\ \A k \in 1..(Len(q) - 1) : r[k] = q[k + 1]
  BY <1>1, HeadTailProperties
<1> HIDE DEF r
<1>3. \A k \in DOMAIN r : k + 1 \in DOMAIN q /\ k + 1 # 1 /\ r[k] = q[k + 1]
  BY <1>1, <1>2
<1>4. \A j, k \in DOMAIN r : j # k => j + 1 # k + 1
  BY <1>2
<1>5. Apart(r)
  BY <1>3, <1>4 DEF Apart
<1>6. \A k \in DOMAIN r : ~Share(q[1], r[k])
  BY <1>1, <1>3 DEF Apart
<1>7. IsInjective(q[1].attempts)
  BY <1>1 DEF Apart
<1> QED
  BY <1>1, <1>2, <1>5, <1>6, <1>7 DEF r
\* An element more at the end of a sequence without repetitions.
LEMMA AppendIs ==
    ASSUME NEW s \in Seq(Attempt), IsInjective(s), NEW a \in Attempt, a \notin ToSet(s)
    PROVE  /\ Append(s, a) \in Seq(Attempt) /\ IsInjective(Append(s, a))
           /\ Len(Append(s, a)) = Len(s) + 1
           /\ ToSet(Append(s, a)) = ToSet(s) \cup {a}
<1> DEFINE r == Append(s, a)
<1>1. /\ Len(s) \in Nat /\ DOMAIN s = 1..Len(s)
      /\ r \in Seq(Attempt) /\ Len(r) = Len(s) + 1 /\ DOMAIN r = 1..(Len(s) + 1)
      /\ \A k \in 1..Len(s) : r[k] = s[k]
      /\ r[Len(s) + 1] = a
  OBVIOUS
<1> HIDE DEF r
<1>2. \A k \in DOMAIN r : (k \in DOMAIN s /\ r[k] = s[k]) \/ (k = Len(s) + 1 /\ r[k] = a)
  BY <1>1
<1>3. \A k \in DOMAIN s : s[k] # a /\ k \in DOMAIN r /\ r[k] = s[k]
  BY <1>1 DEF ToSet
<1>4. IsInjective(r)
  BY <1>2, <1>3 DEF IsInjective
<1>5. Len(s) + 1 \in DOMAIN r
  BY <1>1
<1>6. ToSet(r) = ToSet(s) \cup {a}
  BY <1>1, <1>2, <1>3, <1>5 DEF ToSet
<1> QED
  BY <1>1, <1>4, <1>6 DEF r

\* A cohort, element by element.
Picks(candidates, kind, k) == Kind[candidates[k]] = kind /\ candidates[k] \notin Queued

IsCohort(f, candidates, kind, n) ==
    \A k \in 0..n :
        f[k] = IF k = 0 THEN <<>>
               ELSE IF Picks(candidates, kind, k) THEN Append(f[k - 1], candidates[k])
               ELSE f[k - 1]

LEMMA CohortExists ==
    ASSUME NEW N \in Nat, NEW candidates, NEW kind,
           \A k \in 1..N : candidates[k] \in Attempt
    PROVE  \E f \in [0..N -> Seq(Attempt)] : IsCohort(f, candidates, kind, N)
<1> DEFINE S == {n \in 0..N : \E f \in [0..n -> Seq(Attempt)] : IsCohort(f, candidates, kind, n)}
<1>1. 0 \in S
  <2>1. [k \in 0..0 |-> <<>>] \in [0..0 -> Seq(Attempt)]
    OBVIOUS
  <2>2. IsCohort([k \in 0..0 |-> <<>>], candidates, kind, 0)
    BY DEF IsCohort
  <2> QED
    BY <2>1, <2>2
<1>2. ASSUME NEW n \in 0..(N - 1), n \in S
      PROVE  n + 1 \in S
  <2>0. n + 1 \in 0..N /\ n + 1 \in 1..N /\ n \in Nat
    OBVIOUS
  <2>1. PICK f \in [0..n -> Seq(Attempt)] : IsCohort(f, candidates, kind, n)
    BY <1>2
  <2> DEFINE next == IF Picks(candidates, kind, n + 1) THEN Append(f[n], candidates[n + 1]) ELSE f[n]
  <2>2. next \in Seq(Attempt)
    <3>1. f[n] \in Seq(Attempt) /\ candidates[n + 1] \in Attempt
      BY <2>0
    <3> QED
      BY <3>1
  <2> HIDE DEF next
  <2> DEFINE g == [k \in 0..(n + 1) |-> IF k = n + 1 THEN next ELSE f[k]]
  <2>3. g \in [0..(n + 1) -> Seq(Attempt)]
    BY <2>0, <2>2
  <2>4. g[n + 1] = next /\ \A k \in 0..n : g[k] = f[k]
    BY <2>0
  <2> HIDE DEF g
  <2>5. ASSUME NEW k \in 0..(n + 1)
        PROVE  g[k] = IF k = 0 THEN <<>>
                      ELSE IF Picks(candidates, kind, k) THEN Append(g[k - 1], candidates[k])
                      ELSE g[k - 1]
    <3>1. CASE k = n + 1
      <4>1. k # 0 /\ k - 1 = n /\ g[n] = f[n]
        BY <2>0, <2>4, <3>1
      <4> QED
        BY <2>4, <3>1, <4>1 DEF next
    <3>2. CASE k # n + 1
      <4>1. k \in 0..n /\ (k # 0 => k - 1 \in 0..n)
        BY <2>0, <3>2
      <4>2. f[k] = IF k = 0 THEN <<>>
                   ELSE IF Picks(candidates, kind, k) THEN Append(f[k - 1], candidates[k])
                   ELSE f[k - 1]
        BY <2>1, <4>1 DEF IsCohort
      <4>3. g[k] = f[k] /\ (k # 0 => g[k - 1] = f[k - 1])
        BY <2>4, <4>1
      <4> QED
        BY <4>2, <4>3
    <3> QED
      BY <3>1, <3>2
  <2>6. IsCohort(g, candidates, kind, n + 1)
    BY <2>5 DEF IsCohort
  <2> QED
    BY <2>0, <2>3, <2>6
<1>3. N \in S
  <2>1. N \in 0..N
    OBVIOUS
  <2> HIDE DEF S
  <2> QED
    BY <1>1, <1>2, <2>1, Induction
<1> QED
  BY <1>3

\* A cohort is made of the candidates picked, each once.
LEMMA CohortIs ==
    ASSUME NEW candidates \in Seq(Attempt), IsInjective(candidates), NEW kind,
           NEW taken \in 0..Len(candidates)
    PROVE  LET cohort == Cohort(candidates, taken, kind)
           IN  /\ cohort \in Seq(Attempt) /\ IsInjective(cohort)
               /\ ToSet(cohort) =
                     {candidates[k] : k \in {j \in 1..taken : Picks(candidates, kind, j)}}
<1> DEFINE u == CHOOSE u : u = [k \in 0..taken |->
                   IF k = 0 THEN <<>>
                   ELSE IF Kind[candidates[k]] = kind /\ candidates[k] \notin Queued
                        THEN Append(u[k - 1], candidates[k])
                        ELSE u[k - 1]]
           found(n) == {candidates[k] : k \in {j \in 1..n : Picks(candidates, kind, j)}}
<1>1. /\ taken \in Nat /\ DOMAIN candidates = 1..Len(candidates)
      /\ \A k \in 1..taken : k \in DOMAIN candidates /\ candidates[k] \in Attempt
  OBVIOUS
<1>2. PICK f \in [0..taken -> Seq(Attempt)] : IsCohort(f, candidates, kind, taken)
  BY <1>1, CohortExists
<1>3. f = [k \in 0..taken |->
              IF k = 0 THEN <<>>
              ELSE IF Kind[candidates[k]] = kind /\ candidates[k] \notin Queued
                   THEN Append(f[k - 1], candidates[k])
                   ELSE f[k - 1]]
  BY <1>2 DEF IsCohort, Picks
<1>4. u = [k \in 0..taken |->
              IF k = 0 THEN <<>>
              ELSE IF Kind[candidates[k]] = kind /\ candidates[k] \notin Queued
                   THEN Append(u[k - 1], candidates[k])
                   ELSE u[k - 1]]
  BY <1>3
<1>5. Cohort(candidates, taken, kind) = u[taken]
  BY DEF Cohort
<1> HIDE DEF u
<1>6. IsCohort(u, candidates, kind, taken)
  <2>1. \A k \in 0..taken : u[k] = IF k = 0 THEN <<>>
              ELSE IF Kind[candidates[k]] = kind /\ candidates[k] \notin Queued
                   THEN Append(u[k - 1], candidates[k])
                   ELSE u[k - 1]
    BY <1>4
  <2> QED
    BY <2>1 DEF IsCohort, Picks
<1> DEFINE S == {n \in 0..taken : /\ u[n] \in Seq(Attempt) /\ IsInjective(u[n])
                                  /\ ToSet(u[n]) = found(n)}
<1>7. 0 \in S
  <2>1. 0 \in 0..taken
    BY <1>1
  <2>2. u[0] = <<>>
    BY <1>6, <2>1 DEF IsCohort
  <2>3. <<>> \in Seq(Attempt) /\ IsInjective(<<>>) /\ ToSet(<<>>) = {}
    BY DEF IsInjective, ToSet
  <2>4. found(0) = {}
    OBVIOUS
  <2> HIDE DEF found
  <2> QED
    BY <2>1, <2>2, <2>3, <2>4
<1>8. ASSUME NEW n \in 0..(taken - 1), n \in S
      PROVE  n + 1 \in S
  <2>0. n + 1 \in 0..taken /\ n + 1 \in 1..taken /\ n + 1 # 0 /\ (n + 1) - 1 = n /\ n \in Nat
    BY <1>1
  <2>1. u[n + 1] = IF Picks(candidates, kind, n + 1) THEN Append(u[n], candidates[n + 1]) ELSE u[n]
    BY <1>6, <2>0 DEF IsCohort
  <2>2. \A j : j \in 1..(n + 1) <=> j \in 1..n \/ j = n + 1
    BY <2>0
  <2>3. u[n] \in Seq(Attempt) /\ IsInjective(u[n]) /\ ToSet(u[n]) = found(n)
    BY <1>8
  <2>4. CASE Picks(candidates, kind, n + 1)
    <3>1. found(n + 1) = found(n) \cup {candidates[n + 1]}
      BY <2>2, <2>4
    <3>2. candidates[n + 1] \notin found(n)
      <4>1. \A k \in 1..n : k # n + 1 /\ k \in DOMAIN candidates /\ n + 1 \in DOMAIN candidates
        BY <1>1, <2>0
      <4> QED
        BY <4>1 DEF IsInjective
    <3> HIDE DEF found
    <3>3. /\ u[n + 1] = Append(u[n], candidates[n + 1])
          /\ candidates[n + 1] \in Attempt /\ candidates[n + 1] \notin ToSet(u[n])
      BY <1>1, <2>0, <2>1, <2>3, <2>4, <3>2
    <3>4. /\ u[n + 1] \in Seq(Attempt) /\ IsInjective(u[n + 1])
          /\ ToSet(u[n + 1]) = ToSet(u[n]) \cup {candidates[n + 1]}
      <4> DEFINE s == u[n]
                 e == candidates[n + 1]
      <4>1. s \in Seq(Attempt) /\ IsInjective(s) /\ e \in Attempt /\ e \notin ToSet(s)
        BY <2>3, <3>3
      <4>2. u[n + 1] = Append(s, e)
        BY <3>3
      <4> HIDE DEF s, e
      <4>3. /\ Append(s, e) \in Seq(Attempt) /\ IsInjective(Append(s, e))
            /\ ToSet(Append(s, e)) = ToSet(s) \cup {e}
        BY <4>1, AppendIs
      <4> QED
        BY <4>2, <4>3 DEF s, e
    <3> QED
      BY <2>0, <2>3, <3>1, <3>4
  <2>5. CASE ~Picks(candidates, kind, n + 1)
    <3>1. found(n + 1) = found(n)
      BY <2>2, <2>5
    <3> HIDE DEF found
    <3> QED
      BY <2>0, <2>1, <2>3, <2>5, <3>1
  <2> QED
    BY <2>4, <2>5
<1>9. taken \in S
  <2>1. taken \in 0..taken
    BY <1>1
  <2> HIDE DEF S
  <2> QED
    BY <1>1, <1>7, <1>8, <2>1, Induction
<1> QED
  BY <1>5, <1>9
\* The candidates taken need no more walks than there are slots for.
LEMMA TakenIs ==
    ASSUME NEW candidates \in Seq(Attempt), Len(windows) \in 0..2
    PROVE  /\ Taken(candidates) \in 0..Len(candidates)
           /\ Len(windows) + Cardinality(CohortKinds(candidates, Taken(candidates))) <= 2
<1> DEFINE fits == {k \in 0..Len(candidates) :
                       Len(windows) + Cardinality(CohortKinds(candidates, k)) <= 2}
<1>1. Len(candidates) \in Nat
  OBVIOUS
<1>2. fits # {}
  <2>1. 0 \in 0..Len(candidates)
    BY <1>1
  <2>2. CohortKinds(candidates, 0) = {}
    BY DEF CohortKinds
  <2>3. Cardinality(CohortKinds(candidates, 0)) = 0
    BY <2>2, FS_EmptySet
  <2>4. Len(windows) + Cardinality(CohortKinds(candidates, 0)) <= 2
    <3>1. ASSUME NEW l \in 0..2, NEW c, c = 0 PROVE l + c <= 2
      BY <3>1
    <3> QED
      BY <2>3, <3>1
  <2> QED
    BY <2>1, <2>4
<1>3. fits \in SUBSET (0..Len(candidates))
  OBVIOUS
<1>4. Taken(candidates) = Max(fits)
  BY DEF Taken
<1> HIDE DEF fits
<1>5. \E m \in fits : \A k \in fits : m >= k
  BY <1>1, <1>2, <1>3, GreatestNumber
<1>6. Max(fits) \in fits
  BY <1>5 DEF Max
<1> QED
  BY <1>4, <1>6 DEF fits

\* A fresh walk of some attempts.
LEMMA WalkIs ==
    ASSUME NEW s \in Seq(Attempt), s # <<>>, received \subseteq Attempt, NEW left \in 0..MaxSlices
    PROVE  Walk(s, left) \in Walks /\ Walk(s, left).attempts = s
  BY DEF Walk, Walks, ToSet

\* A queue of at most one walk.
LEMMA OneWalk ==
    ASSUME NEW w \in Walks, IsInjective(w.attempts)
    PROVE  <<w>> \in Seq(Walks) /\ Len(<<w>>) = 1 /\ Apart(<<w>>)
<1>1. <<w>> \in Seq(Walks) /\ Len(<<w>>) = 1 /\ DOMAIN <<w>> = {1} /\ <<w>>[1] = w
  OBVIOUS
<1> QED
  BY <1>1 DEF Apart

LEMMA NoWalk == <<>> \in Seq(Walks) /\ Len(<<>>) = 0 /\ Apart(<<>>)
  BY DEF Apart

LEMMA WalkOfIs ==
    ASSUME NEW s \in Seq(Attempt), IsInjective(s), received \subseteq Attempt,
           NEW left \in 0..MaxSlices
    PROVE  /\ WalkOf(s, left) \in Seq(Walks) /\ Apart(WalkOf(s, left))
           /\ Len(WalkOf(s, left)) = IF s = <<>> THEN 0 ELSE 1
           /\ \A k \in DOMAIN WalkOf(s, left) : WalkOf(s, left)[k].attempts = s
<1>1. CASE s = <<>>
  <2>1. WalkOf(s, left) = <<>>
    BY <1>1 DEF WalkOf
  <2>2. \A k \in DOMAIN WalkOf(s, left) : FALSE
    BY <2>1
  <2>3. WalkOf(s, left) \in Seq(Walks) /\ Apart(WalkOf(s, left)) /\ Len(WalkOf(s, left)) = 0
    BY <2>1, NoWalk
  <2> QED
    BY <1>1, <2>2, <2>3
<1>2. CASE s # <<>>
  <2> DEFINE w == Walk(s, left)
  <2>1. w \in Walks /\ w.attempts = s
    BY <1>2, WalkIs
  <2>2. WalkOf(s, left) = <<w>>
    BY <1>2 DEF WalkOf
  <2> HIDE DEF w
  <2>3. DOMAIN <<w>> = {1} /\ <<w>>[1] = w
    OBVIOUS
  <2> QED
    BY <1>2, <2>1, <2>2, <2>3, OneWalk
<1> QED
  BY <1>1, <1>2

\* How many kinds there are.
LEMMA SomeKind ==
    ASSUME NEW S \in SUBSET {"wallet", "host"}
    PROVE  /\ IsFiniteSet(S) /\ Cardinality(S) \in Nat
           /\ S # {} => Cardinality(S) >= 1
           /\ {"wallet", "host"} \subseteq S => Cardinality(S) = 2
<1>1. IsFiniteSet({"wallet"}) /\ Cardinality({"wallet"}) = 1
  BY FS_Singleton
<1>2. IsFiniteSet({"wallet", "host"}) /\ Cardinality({"wallet", "host"}) = 2
  <2>1. {"wallet", "host"} = {"wallet"} \cup {"host"} /\ "host" \notin {"wallet"}
    OBVIOUS
  <2>2. Cardinality({"wallet"} \cup {"host"}) = 1 + 1
    BY <1>1, <2>1, FS_AddElement
  <2> QED
    BY <1>1, <2>1, <2>2, FS_AddElement
<1>3. IsFiniteSet(S) /\ Cardinality(S) \in Nat
  BY <1>2, FS_Subset, FS_CardinalityType
<1>4. S # {} => Cardinality(S) # 0
  BY <1>3, FS_EmptySet
<1>5. {"wallet", "host"} \subseteq S => S = {"wallet", "host"}
  OBVIOUS
<1> QED
  BY <1>2, <1>3, <1>4, <1>5

\* What is admitted fits into the queue and shares no attempt with it.
LEMMA AdmittedIs ==
    ASSUME SchedulerAssumption, NEW candidates \in Seq(Attempt), IsInjective(candidates),
           windows \in Seq(Walks), Len(windows) <= 2, Apart(windows), received \subseteq Attempt,
           NEW left \in 0..MaxSlices
    PROVE  LET queue == windows \o Admitted(candidates, Taken(candidates), left)
           IN  queue \in Seq(Walks) /\ Len(queue) <= 2 /\ Apart(queue)
<1> DEFINE taken == Taken(candidates)
           wallet == Cohort(candidates, taken, "wallet")
           host == Cohort(candidates, taken, "host")
           kinds == CohortKinds(candidates, taken)
<1>0. Len(windows) \in Nat /\ Len(windows) \in 0..2
  <2>1. Len(windows) \in Nat
    BY LenProperties
  <2>2. ASSUME NEW l \in Nat, l <= 2 PROVE l \in 0..2
    BY <2>2
  <2> QED
    BY <2>1, <2>2
<1>1. taken \in 0..Len(candidates) /\ Len(windows) + Cardinality(kinds) <= 2
  BY <1>0, TakenIs
<1>2. /\ wallet \in Seq(Attempt) /\ IsInjective(wallet)
      /\ ToSet(wallet) = {candidates[k] : k \in {j \in 1..taken : Picks(candidates, "wallet", j)}}
  BY <1>1, CohortIs
<1>3. /\ host \in Seq(Attempt) /\ IsInjective(host)
      /\ ToSet(host) = {candidates[k] : k \in {j \in 1..taken : Picks(candidates, "host", j)}}
  BY <1>1, CohortIs
<1>4. kinds \in SUBSET {"wallet", "host"}
  <2>1. \A k \in 1..taken : candidates[k] \in Attempt
    <3>1. \A k \in 1..taken : k \in 1..Len(candidates)
      BY <1>1
    <3> QED
      BY <3>1
  <2> QED
    BY <2>1 DEF CohortKinds, SchedulerAssumption
<1>5. wallet # <<>> => "wallet" \in kinds
  <2> SUFFICES ASSUME wallet # <<>> PROVE "wallet" \in kinds
    OBVIOUS
  <2>1. 1 \in DOMAIN wallet
    BY <1>2
  <2>2. wallet[1] \in ToSet(wallet)
    BY <2>1 DEF ToSet
  <2>3. PICK k \in 1..taken : Picks(candidates, "wallet", k)
    BY <1>2, <2>2
  <2> QED
    BY <2>3 DEF Picks, CohortKinds
<1>6. host # <<>> => "host" \in kinds
  <2> SUFFICES ASSUME host # <<>> PROVE "host" \in kinds
    OBVIOUS
  <2>1. 1 \in DOMAIN host
    BY <1>3
  <2>2. host[1] \in ToSet(host)
    BY <2>1 DEF ToSet
  <2>3. PICK k \in 1..taken : Picks(candidates, "host", k)
    BY <1>3, <2>2
  <2> QED
    BY <2>3 DEF Picks, CohortKinds
<1>7. ToSet(wallet) \cap ToSet(host) = {}
  <2> SUFFICES ASSUME NEW j \in 1..taken, Picks(candidates, "wallet", j),
                      NEW k \in 1..taken, Picks(candidates, "host", k),
                      candidates[j] = candidates[k]
               PROVE  FALSE
    BY <1>2, <1>3
  <2> QED
    BY DEF Picks
<1>8. ToSet(wallet) \cap Queued = {} /\ ToSet(host) \cap Queued = {}
  BY <1>2, <1>3 DEF Picks
<1> HIDE DEF taken, wallet, host, kinds
<1> DEFINE wq == WalkOf(wallet, left)
           hq == WalkOf(host, left)
<1>9. /\ wq \in Seq(Walks) /\ Apart(wq) /\ Len(wq) = IF wallet = <<>> THEN 0 ELSE 1
      /\ \A k \in DOMAIN wq : wq[k].attempts = wallet
  BY <1>2, WalkOfIs
<1>10. /\ hq \in Seq(Walks) /\ Apart(hq) /\ Len(hq) = IF host = <<>> THEN 0 ELSE 1
       /\ \A k \in DOMAIN hq : hq[k].attempts = host
  BY <1>3, WalkOfIs
<1> HIDE DEF wq, hq
<1> DEFINE admitted == wq \o hq
<1>11. \A j \in DOMAIN wq, k \in DOMAIN hq : ~Share(wq[j], hq[k])
  BY <1>7, <1>9, <1>10 DEF Share
<1>12. admitted \in Seq(Walks) /\ Len(admitted) = Len(wq) + Len(hq) /\ Apart(admitted)
  BY <1>9, <1>10, <1>11, ConcatApart
<1>13. \A k \in DOMAIN admitted : admitted[k].attempts = wallet \/ admitted[k].attempts = host
  <2>1. ASSUME NEW k \in DOMAIN admitted
        PROVE  \/ k \in DOMAIN wq /\ admitted[k] = wq[k]
               \/ k - Len(wq) \in DOMAIN hq /\ admitted[k] = hq[k - Len(wq)]
    BY <1>9, <1>10
  <2> HIDE DEF admitted
  <2> QED
    BY <1>9, <1>10, <2>1
<1>14. Admitted(candidates, Taken(candidates), left) = admitted
  BY DEF Admitted, taken, wallet, host, wq, hq
<1> HIDE DEF admitted
<1>15. ASSUME NEW j \in DOMAIN windows, NEW k \in DOMAIN admitted
       PROVE  ~Share(windows[j], admitted[k])
  <2>1. ToSet(windows[j].attempts) \subseteq Queued
    BY DEF Queued
  <2> QED
    BY <1>8, <1>13, <2>1 DEF Share
<1>16. /\ windows \o admitted \in Seq(Walks) /\ Apart(windows \o admitted)
       /\ Len(windows \o admitted) = Len(windows) + Len(admitted)
  BY <1>12, <1>15, ConcatApart
<1>17. Len(admitted) <= Cardinality(kinds) /\ Cardinality(kinds) \in Nat
  <2>1. /\ Cardinality(kinds) \in Nat
        /\ kinds # {} => Cardinality(kinds) >= 1
        /\ {"wallet", "host"} \subseteq kinds => Cardinality(kinds) = 2
    BY <1>4, SomeKind
  <2>2. CASE wallet = <<>> /\ host = <<>>
    BY <1>9, <1>10, <1>12, <2>1, <2>2
  <2>3. CASE wallet # <<>> /\ host # <<>>
    BY <1>5, <1>6, <1>9, <1>10, <1>12, <2>1, <2>3
  <2>4. CASE wallet = <<>> /\ host # <<>>
    BY <1>6, <1>9, <1>10, <1>12, <2>1, <2>4
  <2>5. CASE wallet # <<>> /\ host = <<>>
    BY <1>5, <1>9, <1>10, <1>12, <2>1, <2>5
  <2> QED
    BY <2>1, <2>2, <2>3, <2>4, <2>5
<1>18. Len(windows \o admitted) <= 2
  <2>1. Len(admitted) \in Nat
    BY <1>12
  <2> QED
    BY <1>0, <1>1, <1>16, <1>17, <2>1
<1> QED
  BY <1>14, <1>16, <1>18
\* What a selection lists.
LEMMA ListAfterIs ==
    ASSUME SchedulerAssumption, ledger \in Seq(Attempt), IsInjective(ledger),
           NEW after \in 0..Len(ledger)
    PROVE  /\ ListAfter(after) \in Seq(Attempt) /\ IsInjective(ListAfter(after))
           /\ Len(ListAfter(after)) \in Nat /\ after + Len(ListAfter(after)) <= Len(ledger)
<1> DEFINE last == IF after + Batch < Len(ledger) THEN after + Batch ELSE Len(ledger)
<1>1. Len(ledger) \in Nat /\ after \in Nat /\ Batch \in Nat /\ after <= Len(ledger)
  BY LenProperties DEF SchedulerAssumption
<1>2. after + 1 \in 1..(Len(ledger) + 1) /\ last \in 0..Len(ledger) /\ after <= last
  BY <1>1
<1>3. ListAfter(after) = SubSeq(ledger, after + 1, last)
  BY DEF ListAfter
<1> HIDE DEF last
<1>4. /\ ListAfter(after) \in Seq(Attempt) /\ IsInjective(ListAfter(after))
      /\ Len(ListAfter(after)) = IF after + 1 <= last THEN last - (after + 1) + 1 ELSE 0
  BY <1>2, <1>3, SubSeqIs
<1>5. ASSUME NEW l \in 0..Len(ledger), after <= l
      PROVE  LET n == IF after + 1 <= l THEN l - (after + 1) + 1 ELSE 0
             IN  n \in Nat /\ after + n <= Len(ledger)
  BY <1>1, <1>5
<1> QED
  BY <1>2, <1>4, <1>5

LEMMA SchedulerInitInv ==
    ASSUME SchedulerAssumption, SchedulerInit
    PROVE  SchedulerInv
<1>1. ledger \in Seq(Attempt) /\ IsInjective(ledger) /\ Len(ledger) \in Nat
  BY LenProperties DEF SchedulerAssumption, SchedulerInit
<1>2. windows \in Seq(Walks) /\ Len(windows) <= 2 /\ Apart(windows)
  BY NoWalk DEF SchedulerInit
<1>3. cursor \in 0..Len(ledger) /\ arrivals \in 0..MaxArrivals
  <2>1. ASSUME NEW l \in Nat PROVE 0 \in 0..l
    OBVIOUS
  <2> QED
    BY <1>1, <2>1 DEF SchedulerInit, SchedulerAssumption
<1>4. delivering \subseteq Attempt /\ received \subseteq ToSet(ledger) /\ healthy \in BOOLEAN
  BY DEF SchedulerInit
<1>5. pass = NoPass
  BY DEF SchedulerInit
<1> QED
  BY <1>1, <1>2, <1>3, <1>4, <1>5 DEF SchedulerInv

LEMMA SelectKeeps ==
    ASSUME SchedulerAssumption, SchedulerInv, NEW left \in 0..MaxSlices, Select(left)
    PROVE  SchedulerInv'
<1> DEFINE listed == ListAfter(cursor)
           from == IF listed = <<>> THEN 0 ELSE cursor
           candidates == IF listed = <<>> THEN ListAfter(0) ELSE listed
           taken == Taken(candidates)
           queue == IF Len(windows) < 2 THEN windows \o Admitted(candidates, taken, left)
                    ELSE windows
<1>1. /\ IF Len(windows) < 2
         THEN cursor' = CursorAfter(from, taken, candidates) /\ arrivals' = 0
         ELSE UNCHANGED <<cursor, arrivals>>
      /\ IF queue = <<>>
         THEN UNCHANGED <<windows, pass>>
         ELSE windows' = Tail(queue) /\ pass' = Head(queue)
      /\ UNCHANGED <<ledger, delivering, received, healthy>>
      /\ pass = NoPass
  BY DEF Select, QueueWithoutWalk, Idle
<1>2. Len(ledger) \in Nat /\ 0 \in 0..Len(ledger) /\ cursor \in 0..Len(ledger)
  BY LenProperties DEF SchedulerInv
<1>3. from \in 0..Len(ledger) /\ candidates = ListAfter(from)
  BY <1>2
<1>4. /\ candidates \in Seq(Attempt) /\ IsInjective(candidates)
      /\ Len(candidates) \in Nat /\ from + Len(candidates) <= Len(ledger)
  BY <1>3, ListAfterIs DEF SchedulerInv
<1> HIDE DEF from, candidates
<1>5. received \subseteq Attempt
  BY LenProperties DEF SchedulerInv, ToSet
<1>6. windows \in Seq(Walks) /\ Len(windows) <= 2 /\ Apart(windows)
  BY DEF SchedulerInv
<1>7. queue \in Seq(Walks) /\ Len(queue) <= 2 /\ Apart(queue)
  BY <1>4, <1>5, <1>6, AdmittedIs
<1>8. taken \in 0..Len(candidates)
  <2>1. Len(windows) \in Nat
    BY <1>6, LenProperties
  <2>2. ASSUME NEW l \in Nat, l <= 2 PROVE l \in 0..2
    BY <2>2
  <2> QED
    BY <1>4, <1>6, <2>1, <2>2, TakenIs
<1> HIDE DEF taken, queue
<1>9. CursorAfter(from, taken, candidates) \in 0..Len(ledger)
  <2>1. ASSUME NEW l \in Nat, NEW f \in 0..l, NEW n \in Nat, f + n <= l, NEW t \in 0..n
        PROVE  0 \in 0..l /\ f + t \in 0..l
    BY <2>1
  <2>2. 0 \in 0..Len(ledger) /\ from + taken \in 0..Len(ledger)
    BY <1>2, <1>3, <1>4, <1>8, <2>1
  <2> QED
    BY <2>2 DEF CursorAfter
<1>10. cursor' \in 0..Len(ledger') /\ arrivals' \in 0..MaxArrivals
  BY <1>1, <1>2, <1>9 DEF SchedulerInv, SchedulerAssumption
<1>11. /\ windows' \in Seq(Walks) /\ Len(windows') <= 2 /\ Apart(windows')
       /\ \/ pass' = NoPass
          \/ /\ pass' \in Walks /\ IsInjective(pass'.attempts) /\ Len(windows') <= 1
             /\ \A k \in DOMAIN windows' : ~Share(pass', windows'[k])
  <2>1. CASE queue = <<>>
    BY <1>1, <1>6, <2>1
  <2>2. CASE queue # <<>>
    <3>1. windows' = Tail(queue) /\ pass' = Head(queue)
      BY <1>1, <2>2
    <3>2. /\ Head(queue) \in Walks /\ IsInjective(Head(queue).attempts)
          /\ Tail(queue) \in Seq(Walks) /\ Len(Tail(queue)) = Len(queue) - 1 /\ Apart(Tail(queue))
          /\ \A k \in DOMAIN Tail(queue) : ~Share(Head(queue), Tail(queue)[k])
      BY <1>7, <2>2, TailApart
    <3>3. Len(Tail(queue)) <= 1
      <4>1. ASSUME NEW l \in Nat, l <= 2 PROVE l - 1 <= 1
        BY <4>1
      <4> QED
        BY <1>7, <3>2, <4>1, LenProperties
    <3>4. Len(Tail(queue)) <= 2
      <4>1. ASSUME NEW l \in Nat, l <= 1 PROVE l <= 2
        BY <4>1
      <4> QED
        BY <3>2, <3>3, <4>1, LenProperties
    <3> QED
      BY <3>1, <3>2, <3>3, <3>4
  <2> QED
    BY <2>1, <2>2
<1> QED
  BY <1>1, <1>10, <1>11 DEF SchedulerInv

LEMMA ReleaseKeeps ==
    ASSUME SchedulerInv, NEW queue \in Seq(Walks), Len(queue) <= 2, Apart(queue),
           NEW checks \in SUBSET Attempt, Release(queue, checks)
    PROVE  SchedulerInv'
  BY DEF SchedulerInv, Release

\* The walk under way, and what it may find.
LEMMA WalkingIs ==
    ASSUME SchedulerInv, ~Idle
    PROVE  /\ pass \in Walks /\ IsInjective(pass.attempts) /\ Len(windows) <= 1
           /\ \A k \in DOMAIN windows : ~Share(pass, windows[k])
           /\ Walking \subseteq Attempt
<1>1. /\ pass \in Walks /\ IsInjective(pass.attempts) /\ Len(windows) <= 1
      /\ \A k \in DOMAIN windows : ~Share(pass, windows[k])
  BY DEF SchedulerInv, Idle
<1>2. pass.attempts \in Seq(Attempt)
  BY <1>1 DEF Walks
<1>3. Walking \subseteq Attempt
  BY <1>2, LenProperties DEF Walking, ToSet
<1> QED
  BY <1>1, <1>3

LEMMA CompleteKeeps ==
    ASSUME SchedulerInv, Complete
    PROVE  SchedulerInv'
<1>1. ~Idle
  BY DEF Complete
<1>2. PICK checks \in {pass.due \cap received, Walking \cap received} : Release(windows, checks)
  BY DEF Complete
<1>3. Walking \subseteq Attempt /\ pass.due \subseteq Attempt
  BY <1>1, WalkingIs DEF Walks
<1>4. windows \in Seq(Walks) /\ Len(windows) <= 2 /\ Apart(windows)
  BY DEF SchedulerInv
<1> QED
  BY <1>2, <1>3, <1>4, ReleaseKeeps

LEMMA FailKeeps ==
    ASSUME SchedulerInv, Fail
    PROVE  SchedulerInv'
<1>1. windows \in Seq(Walks) /\ Len(windows) <= 2 /\ Apart(windows)
  BY DEF SchedulerInv
<1>2. Release(windows, {})
  BY DEF Fail
<1> QED
  BY <1>1, <1>2, ReleaseKeeps

\* A walk put back at the end.
LEMMA RequeuedIs ==
    ASSUME SchedulerInv, NEW w \in Walks, IsInjective(w.attempts), Len(windows) <= 1,
           \A k \in DOMAIN windows : ~Share(w, windows[k])
    PROVE  /\ Append(windows, w) \in Seq(Walks) /\ Len(Append(windows, w)) <= 2
           /\ Apart(Append(windows, w))
<1>1. windows \in Seq(Walks) /\ Apart(windows) /\ Len(windows) \in Nat
  BY LenProperties DEF SchedulerInv
<1>2. <<w>> \in Seq(Walks) /\ Len(<<w>>) = 1 /\ Apart(<<w>>)
  BY OneWalk
<1>3. \A j \in DOMAIN windows, k \in DOMAIN <<w>> : ~Share(windows[j], <<w>>[k])
  BY DEF Share
<1>4. /\ windows \o <<w>> \in Seq(Walks) /\ Apart(windows \o <<w>>)
      /\ Len(windows \o <<w>>) = Len(windows) + 1
  BY <1>1, <1>2, <1>3, ConcatApart
<1>5. Append(windows, w) = windows \o <<w>>
  BY <1>1, AppendIsConcat
<1>6. ASSUME NEW l \in Nat, l <= 1 PROVE l + 1 <= 2
  BY <1>6
<1>7. Len(windows) + 1 <= 2
  BY <1>1, <1>6
<1> QED
  BY <1>4, <1>5, <1>7

\* Two halves of a walk.
LEMMA HalvesAre ==
    ASSUME SchedulerInv, ~Idle, Splittable, NEW left \in 0..MaxSlices
    PROVE  Halves(left) \in Seq(Walks) /\ Len(Halves(left)) = 2 /\ Apart(Halves(left))
<1> DEFINE s == pass.attempts
           middle == Len(s) \div 2
           first == SubSeq(s, 1, middle)
           second == SubSeq(s, middle + 1, Len(s))
<1>1. s \in Seq(Attempt) /\ IsInjective(s) /\ Len(s) \in Nat /\ Len(s) > 1
  BY WalkingIs, LenProperties DEF Walks, Splittable
<1>2. DOMAIN s = 1..Len(s)
  BY <1>1, LenProperties
<1>3. middle \in Nat /\ middle >= 1 /\ middle < Len(s)
  <2>1. ASSUME NEW l \in Nat, l > 1
        PROVE  l \div 2 \in Nat /\ l \div 2 >= 1 /\ l \div 2 < l
    BY <2>1
  <2> QED
    BY <1>1, <2>1
<1> HIDE DEF s, middle
<1>4. /\ first \in Seq(Attempt) /\ IsInjective(first)
      /\ Len(first) = IF 1 <= middle THEN middle - 1 + 1 ELSE 0
      /\ ToSet(first) = {s[i] : i \in 1..middle}
  <2>1. 1 \in 1..(Len(s) + 1) /\ middle \in 0..Len(s)
    BY <1>1, <1>3
  <2> QED
    BY <1>1, <2>1, SubSeqIs
<1>5. /\ second \in Seq(Attempt) /\ IsInjective(second)
      /\ Len(second) = IF middle + 1 <= Len(s) THEN Len(s) - (middle + 1) + 1 ELSE 0
      /\ ToSet(second) = {s[i] : i \in (middle + 1)..Len(s)}
  <2>1. middle + 1 \in 1..(Len(s) + 1) /\ Len(s) \in 0..Len(s)
    BY <1>1, <1>3
  <2> QED
    BY <1>1, <2>1, SubSeqIs
<1>6. ToSet(first) \cap ToSet(second) = {}
  <2> SUFFICES ASSUME NEW i \in 1..middle, NEW j \in (middle + 1)..Len(s), s[i] = s[j]
               PROVE  FALSE
    BY <1>4, <1>5
  <2>1. i \in DOMAIN s /\ j \in DOMAIN s /\ i # j
    BY <1>1, <1>2, <1>3
  <2> QED
    BY <1>1, <2>1 DEF IsInjective
<1> HIDE DEF first, second
<1>7. first # <<>> /\ second # <<>>
  <2>1. Len(first) # 0 /\ Len(second) # 0
    BY <1>1, <1>3, <1>4, <1>5
  <2> QED
    BY <2>1
<1> DEFINE v == Walk(first, left)
           w == Walk(second, left)
<1>8. received \subseteq Attempt
  BY LenProperties DEF SchedulerInv, ToSet
<1>9. v \in Walks /\ v.attempts = first /\ w \in Walks /\ w.attempts = second
  BY <1>4, <1>5, <1>7, <1>8, WalkIs
<1>10. Halves(left) = <<v, w>>
  BY DEF Halves, first, second, middle, s
<1> HIDE DEF v, w
<1>11. ~Share(v, w) /\ ~Share(w, v)
  BY <1>6, <1>9 DEF Share
<1>12. /\ <<v, w>> \in Seq(Walks) /\ Len(<<v, w>>) = 2 /\ DOMAIN <<v, w>> = {1, 2}
       /\ <<v, w>>[1] = v /\ <<v, w>>[2] = w
  BY <1>9
<1>13. Apart(<<v, w>>)
  BY <1>4, <1>5, <1>9, <1>11, <1>12 DEF Apart
<1> QED
  BY <1>10, <1>12, <1>13

LEMMA ContinueKeeps ==
    ASSUME SchedulerAssumption, SchedulerInv, NEW left \in 0..MaxSlices, Continue(left)
    PROVE  SchedulerInv'
<1>1. ~Idle /\ pass.left > 0
  BY DEF Continue
<1>2. /\ pass \in Walks /\ IsInjective(pass.attempts) /\ Len(windows) <= 1
      /\ \A k \in DOMAIN windows : ~Share(pass, windows[k])
      /\ Walking \subseteq Attempt
  BY <1>1, WalkingIs
<1>3. PICK checks \in {{}, Walking \cap received} :
        \/ Release(Append(windows, [pass EXCEPT !.left = @ - 1]), checks)
        \/ Alone /\ Splittable /\ Release(windows \o Halves(left), checks)
  BY DEF Continue
<1>4. checks \in SUBSET Attempt
  BY <1>2
<1>5. CASE Release(Append(windows, [pass EXCEPT !.left = @ - 1]), checks)
  <2> DEFINE w == [pass EXCEPT !.left = @ - 1]
  <2>1. w \in Walks /\ w.attempts = pass.attempts
    BY <1>1, <1>2 DEF Walks, SchedulerAssumption
  <2>2. Release(Append(windows, w), checks)
    BY <1>5
  <2> HIDE DEF w
  <2>3. \A k \in DOMAIN windows : ~Share(w, windows[k])
    BY <1>2, <2>1 DEF Share
  <2>4. /\ Append(windows, w) \in Seq(Walks) /\ Len(Append(windows, w)) <= 2
        /\ Apart(Append(windows, w))
    BY <1>2, <2>1, <2>3, RequeuedIs
  <2> QED
    BY <1>4, <2>2, <2>4, ReleaseKeeps
<1>6. CASE Alone /\ Splittable /\ Release(windows \o Halves(left), checks)
  <2>1. Halves(left) \in Seq(Walks) /\ Len(Halves(left)) = 2 /\ Apart(Halves(left))
    BY <1>1, <1>6, HalvesAre
  <2>2. windows \o Halves(left) = Halves(left)
    BY <1>6, <2>1, ConcatEmptySeq DEF Alone
  <2>3. Len(Halves(left)) <= 2
    BY <2>1
  <2> QED
    BY <1>4, <1>6, <2>1, <2>2, <2>3, ReleaseKeeps
<1> QED
  BY <1>3, <1>5, <1>6

\* A pending attempt leaves the rows before the cursor or behind it.
LEMMA LeavingKeeps ==
    ASSUME SchedulerInv, NEW a \in ToSet(ledger), LeavePending(a)
    PROVE  /\ ledger' \in Seq(Attempt) /\ IsInjective(ledger')
           /\ cursor' \in 0..Len(ledger') /\ received' \subseteq ToSet(ledger')
<1> DEFINE place == CHOOSE k \in DOMAIN ledger : ledger[k] = a
<1>1. ledger \in Seq(Attempt) /\ IsInjective(ledger) /\ cursor \in 0..Len(ledger)
  BY DEF SchedulerInv
<1>2. Len(ledger) \in Nat /\ DOMAIN ledger = 1..Len(ledger)
  BY <1>1, LenProperties
<1>3. place \in DOMAIN ledger /\ ledger[place] = a
  BY DEF ToSet
<1>4. /\ ledger' = RemoveAt(ledger, place)
      /\ cursor' = IF place <= cursor THEN cursor - 1 ELSE cursor
      /\ received' = received \ {a}
  BY DEF LeavePending
<1> HIDE DEF place
<1>5. /\ ledger' \in Seq(Attempt) /\ IsInjective(ledger')
      /\ Len(ledger') = Len(ledger) - 1 /\ ToSet(ledger') = ToSet(ledger) \ {a}
  BY <1>1, <1>2, <1>3, <1>4, RemoveAtIs
<1>6. cursor' \in 0..Len(ledger')
  <2>1. ASSUME NEW l \in Nat, NEW c \in 0..l, NEW p \in 1..l
        PROVE  (IF p <= c THEN c - 1 ELSE c) \in 0..(l - 1)
    OBVIOUS
  <2> QED
    BY <1>1, <1>2, <1>3, <1>4, <1>5, <2>1
<1>7. received' \subseteq ToSet(ledger')
  BY <1>4, <1>5 DEF SchedulerInv
<1> QED
  BY <1>5, <1>6, <1>7

\* A delivery, a streamed payment or a settlement elsewhere.
LEMMA LeftKeeps ==
    ASSUME SchedulerInv, NEW a \in ToSet(ledger), LeavePending(a),
           delivering' \subseteq Attempt, UNCHANGED <<windows, pass, arrivals, healthy>>
    PROVE  SchedulerInv'
  BY LeavingKeeps DEF SchedulerInv

LEMMA ArriveKeeps ==
    ASSUME SchedulerAssumption, SchedulerInv, NEW a \in Attempt, Arrive(a)
    PROVE  SchedulerInv'
<1>1. ledger \in Seq(Attempt) /\ IsInjective(ledger) /\ a \notin ToSet(ledger)
  BY DEF SchedulerInv, Arrive
<1>2. ledger' = Append(ledger, a)
  BY DEF Arrive
<1>3. /\ ledger' \in Seq(Attempt) /\ IsInjective(ledger')
      /\ Len(ledger') = Len(ledger) + 1 /\ ToSet(ledger') = ToSet(ledger) \cup {a}
  BY <1>1, <1>2, AppendIs
<1>4. cursor' \in 0..Len(ledger')
  <2>1. ASSUME NEW l \in Nat, NEW c \in 0..l PROVE c \in 0..(l + 1)
    OBVIOUS
  <2> QED
    BY <1>1, <1>3, <2>1, LenProperties DEF SchedulerInv, Arrive
<1>5. arrivals' \in 0..MaxArrivals
  BY DEF SchedulerInv, SchedulerAssumption, Arrive
<1> QED
  BY <1>3, <1>4, <1>5 DEF SchedulerInv, Arrive

LEMMA SchedulerStep ==
    ASSUME SchedulerAssumption, SchedulerInv, [SchedulerNext]_schedulerVars
    PROVE  SchedulerInv'
<1>1. CASE RunPass
  BY <1>1, SelectKeeps DEF RunPass
<1>2. CASE EndSlice
  BY <1>2, CompleteKeeps, FailKeeps, ContinueKeeps DEF EndSlice
<1>3. CASE Recover
  BY <1>3 DEF Recover, SchedulerInv
<1>4. ASSUME NEW a \in Attempt, Deliver(a) PROVE SchedulerInv'
  <2>1. delivering' \subseteq Attempt /\ UNCHANGED <<windows, pass, arrivals, healthy>>
    BY <1>4 DEF Deliver, SchedulerInv
  <2>2. CASE a \in received
    <3>1. a \in ToSet(ledger) /\ LeavePending(a)
      BY <1>4, <2>2 DEF Deliver, SchedulerInv
    <3> QED
      BY <2>1, <3>1, LeftKeeps
  <2>3. CASE a \notin received
    BY <1>4, <2>1, <2>3 DEF Deliver, SchedulerInv
  <2> QED
    BY <2>2, <2>3
<1>5. ASSUME NEW a \in Attempt, LoseDelivery(a) PROVE SchedulerInv'
  BY <1>5 DEF LoseDelivery, SchedulerInv
<1>6. ASSUME NEW a \in Attempt, Stream(a) PROVE SchedulerInv'
  <2>1. a \in ToSet(ledger) /\ LeavePending(a) /\ UNCHANGED <<windows, pass, arrivals, healthy>>
    BY <1>6 DEF Stream, SchedulerInv
  <2>2. delivering' \subseteq Attempt
    BY <1>6 DEF Stream, SchedulerInv
  <2> QED
    BY <2>1, <2>2, LeftKeeps
<1>7. ASSUME NEW a \in Attempt, Arrive(a) PROVE SchedulerInv'
  BY <1>7, ArriveKeeps
<1>8. ASSUME NEW a \in Attempt, Pay(a) PROVE SchedulerInv'
  BY <1>8 DEF Pay, SchedulerInv
<1>9. ASSUME NEW a \in Attempt, SettledElsewhere(a) PROVE SchedulerInv'
  <2>1. a \in ToSet(ledger) /\ LeavePending(a) /\ UNCHANGED <<windows, pass, arrivals, healthy>>
    BY <1>9 DEF SettledElsewhere
  <2>2. delivering' \subseteq Attempt
    BY <1>9 DEF SettledElsewhere, SchedulerInv
  <2> QED
    BY <2>1, <2>2, LeftKeeps
<1>10. CASE UNCHANGED schedulerVars
  BY <1>10 DEF schedulerVars, SchedulerInv
<1> QED
  BY <1>1, <1>2, <1>3, <1>4, <1>5, <1>6, <1>7, <1>8, <1>9, <1>10 DEF SchedulerNext

\* What the invariant says of the queue and the walk under way.
LEMMA SchedulerTyped ==
    ASSUME SchedulerInv
    PROVE  SchedulerTypeOK
<1>1. ASSUME NEW k \in DOMAIN windows
      PROVE  /\ windows[k].attempts \in Seq(Attempt) \ {<<>>}
             /\ windows[k].left \in 0..MaxSlices
  <2>1. windows[k] \in Walks
    BY LenProperties DEF SchedulerInv
  <2> QED
    BY <2>1 DEF Walks
<1>2. pass.attempts \in Seq(Attempt)
  <2>1. CASE pass = NoPass
    BY <2>1 DEF NoPass
  <2>2. CASE pass \in Walks
    BY <2>2 DEF Walks
  <2> QED
    BY <2>1, <2>2 DEF SchedulerInv
<1> QED
  BY <1>1, <1>2 DEF SchedulerInv, SchedulerTypeOK

LEMMA SchedulerApart ==
    ASSUME SchedulerInv
    PROVE  WalksAreApart
<1>1. /\ \A k \in DOMAIN windows : IsInjective(windows[k].attempts)
      /\ \A j, k \in DOMAIN windows :
            j # k => ToSet(windows[j].attempts) \cap ToSet(windows[k].attempts) = {}
  BY DEF SchedulerInv, Apart, Share
<1>2. CASE pass = NoPass
  <2>1. pass.attempts = <<>>
    BY <1>2 DEF NoPass
  <2>2. IsInjective(<<>>) /\ ToSet(<<>>) = {}
    BY DEF IsInjective, ToSet
  <2> QED
    BY <1>1, <2>1, <2>2 DEF WalksAreApart, Walking
<1>3. CASE pass # NoPass
  <2>1. IsInjective(pass.attempts) /\ \A k \in DOMAIN windows : ~Share(pass, windows[k])
    BY <1>3 DEF SchedulerInv
  <2>2. Walking \cap Queued = {}
    BY <2>1 DEF Walking, Queued, Share
  <2> QED
    BY <1>1, <2>1, <2>2 DEF WalksAreApart
<1> QED
  BY <1>2, <1>3

\* The queue of the gate and the walk that the running pass took out of it stay as
\* SchedulerInv says, whatever fails (maybeReconcilePayments).
THEOREM SchedulerInvariant ==
    ASSUME SchedulerAssumption
    PROVE  SchedulerSpec => []SchedulerInv
<1>1. SchedulerInit => SchedulerInv
  BY SchedulerInitInv
<1>2. SchedulerInv /\ [SchedulerNext]_schedulerVars => SchedulerInv'
  BY SchedulerStep
<1> QED
  BY <1>1, <1>2, PTL DEF SchedulerSpec

\* The gate's JSON stays of the scheduler's type: a cursor among the pending rows,
\* at most two walks (maybeReconcilePayments, MAX_RECONCILE_WINDOWS).
THEOREM SchedulerTypes ==
    ASSUME SchedulerAssumption
    PROVE  SchedulerSpec => []SchedulerTypeOK
  BY SchedulerInvariant, SchedulerTyped, PTL

\* No attempt is in two walks, or twice in one, whatever the batch, the slices a walk
\* takes and the order in which passes fail (maybeReconcilePayments).
THEOREM WalksStayApart ==
    ASSUME SchedulerAssumption
    PROVE  SchedulerSpec => []WalksAreApart
  BY SchedulerInvariant, SchedulerApart, PTL
=============================================================================
