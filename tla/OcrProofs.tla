------------------------------ MODULE OcrProofs ------------------------------
(***************************************************************************)
(* The OCR path.  Safety of CircuitBreaker for every number of goroutines, *)
(* every pair of thresholds, every cooldown and every timeout; what        *)
(* OcrPipeline stores and purges, for every set of rows, every batch size, *)
(* every set of organizations, readings and confidences; and what          *)
(* DocumentRules computes, for every document.                             *)
(***************************************************************************)
EXTENDS CircuitBreaker, OcrPipeline, FiniteSetTheorems, SequenceTheorems, WellFoundedInduction,
        TLAPS

-----------------------------------------------------------------------------
(* The circuit breaker.                                                      *)

(* The inductive invariant.  ProbeBudget is not inductive: that a success  *)
(* which frees the slot also brings the breaker closer to closing is what  *)
(* bounds the probes, so each probe admitted is a success counted or the   *)
(* one that holds the slot.                                                *)
ProbesAccounted ==
  state = "halfOpen" => probesAdmitted <= consecutiveSuccesses + halfOpenInFlight

BreakerInv ==
  /\ TypeOK
  /\ CountersFitState
  /\ ProbesAccounted
  /\ TimeoutInRange

-----------------------------------------------------------------------------
(* Integer division rounds down, so a proper fraction of a is at most a. *)
LEMMA ProperFraction ==
  ASSUME NEW a \in Nat, NEW n \in Nat \ {0}, NEW f \in 0 .. n - 1
  PROVE  (a * f) \div n \in 0 .. a
<1> DEFINE q == (a * f) \div n
<1>1. a * f \in Nat /\ a * f <= a * n
  OBVIOUS
<1>2. q \in Int /\ n * q <= a * f /\ a * f < n * q + n
  BY <1>1
<1>3. q >= 0
  BY <1>1, <1>2
<1>4. q <= a
  <2>1. SUFFICES ASSUME q >= a + 1 PROVE FALSE
    BY <1>2
  <2>2. n * q >= n * (a + 1)
    BY <1>2, <2>1
  <2> QED
    BY <1>1, <1>2, <2>2
<1> QED
  BY <1>2, <1>3, <1>4

(* The deadline currentTimeout computes lies between the floor and Timeout *)
(* for any failure count, also one read after the lock was let go.         *)
THEOREM TimeoutBounds ==
  ASSUME NEW failures \in Nat
  PROVE  /\ Floor \in 0 .. Timeout
         /\ CurrentTimeout(failures) \in Floor .. Timeout
<1>1. Floor \in 0 .. Timeout
  BY BreakerAssumption DEF Floor
<1>2. CASE Timeout = 0 \/ ~AdaptiveTimeout \/ FailureThreshold <= 1 \/ failures <= 0
  BY <1>1, <1>2, BreakerAssumption DEF CurrentTimeout
<1>3. CASE ~(Timeout = 0 \/ ~AdaptiveTimeout \/ FailureThreshold <= 1 \/ failures <= 0)
  <2> DEFINE f == IF failures >= FailureThreshold THEN FailureThreshold - 1 ELSE failures
             cut == ((Timeout - Floor) * f) \div FailureThreshold
  <2>1. f \in 0 .. FailureThreshold - 1
    BY <1>3, BreakerAssumption
  <2>2. Timeout - Floor \in Nat
    BY <1>1, BreakerAssumption
  <2>3. cut \in 0 .. (Timeout - Floor)
    BY <2>1, <2>2, ProperFraction, BreakerAssumption
  <2>4. CurrentTimeout(failures) = IF Timeout - cut < Floor THEN Floor ELSE Timeout - cut
    BY <1>3 DEF CurrentTimeout
  <2> QED
    BY <1>1, <2>3, <2>4, BreakerAssumption
<1> QED
  BY <1>1, <1>2, <1>3

(* transitionTo starts every counter of the new state afresh. *)
LEMMA TransitionResets ==
  ASSUME NEW next \in States,
         NEW first \in SUBSET Calls, first = {} \/ \E c \in Calls : first = {c},
         first # {} => next = "halfOpen",
         TransitionTo(next, first)
  PROVE  /\ state' \in States
         /\ sinceChange' \in 0 .. Cooldown
         /\ consecutiveFailures' \in Nat
         /\ consecutiveSuccesses' \in Nat
         /\ halfOpenInFlight' \in {0, 1}
         /\ probes' \subseteq Calls
         /\ probesAdmitted' \in Nat
         /\ leaked' \subseteq Calls
         /\ CountersFitState'
         /\ ProbesAccounted'
<1>1. Cardinality(first) \in {0, 1} /\ (first = {} => Cardinality(first) = 0)
  BY FS_EmptySet, FS_Singleton
<1> QED
  BY <1>1, BreakerAssumption
  DEF TransitionTo, CountersFitState, ProbesAccounted

-----------------------------------------------------------------------------
LEMMA InvInit == Init => BreakerInv
<1> SUFFICES ASSUME Init PROVE BreakerInv
  OBVIOUS
<1>1. TypeOK
  BY BreakerAssumption DEF Init, TypeOK, States, PCs
<1>2. CountersFitState /\ ProbesAccounted /\ TimeoutInRange
  BY BreakerAssumption DEF Init, CountersFitState, ProbesAccounted, TimeoutInRange
<1> QED
  BY <1>1, <1>2 DEF BreakerInv

LEMMA InvNext == BreakerInv /\ [Next]_vars => BreakerInv'
<1> SUFFICES ASSUME BreakerInv, [Next]_vars PROVE BreakerInv'
  OBVIOUS
<1> USE BreakerAssumption DEF BreakerInv
<1>1. ASSUME NEW c \in Calls, AdmitClosed(c) PROVE BreakerInv'
  BY <1>1 DEF AdmitClosed, Enter, TypeOK, CountersFitState, ProbesAccounted, TimeoutInRange,
     breaker, history, upstream, PCs
<1>2. ASSUME NEW c \in Calls, AdmitAfterCooldown(c) PROVE BreakerInv'
  <2>1. TransitionTo("halfOpen", {c}) /\ Enter(c)
    BY <1>2 DEF AdmitAfterCooldown
  <2>2. TypeOK' /\ CountersFitState' /\ ProbesAccounted'
    BY <2>1, TransitionResets DEF Enter, TypeOK, upstream, PCs, States
  <2>3. TimeoutInRange'
    BY <2>1 DEF Enter, TypeOK, TimeoutInRange, upstream
  <2> QED
    BY <2>2, <2>3
<1>3. ASSUME NEW c \in Calls, AdmitProbe(c) PROVE BreakerInv'
  BY <1>3 DEF AdmitProbe, Enter, TypeOK, CountersFitState, ProbesAccounted, TimeoutInRange,
     upstream, PCs
<1>4. ASSUME NEW c \in Calls, StartCall(c) PROVE BreakerInv'
  <2>1. CurrentTimeout(consecutiveFailures) \in Floor .. Timeout /\ Floor \in 0 .. Timeout
    BY TimeoutBounds DEF TypeOK
  <2>2. TypeOK' /\ CountersFitState' /\ ProbesAccounted'
    BY <1>4, <2>1 DEF StartCall, TypeOK, CountersFitState, ProbesAccounted, breaker, history, PCs
  <2>3. TimeoutInRange'
    BY <1>4, <2>1 DEF StartCall, TypeOK, TimeoutInRange
  <2> QED
    BY <2>2, <2>3
<1>5. ASSUME NEW c \in Calls, NEW o \in Outcomes, AfterCall(c, o) PROVE BreakerInv'
  <2>1. Leave(c) /\ (RecordClosed(c, o) \/ RecordHalfOpen(c, o) \/ RecordOpen)
    BY <1>5 DEF AfterCall
  <2>2. pc' \in [Calls -> PCs] /\ timeout' \in [Calls -> 0..Timeout] /\ healthy' \in BOOLEAN
        /\ mayFail' \subseteq Calls /\ TimeoutInRange'
    BY <2>1 DEF Leave, TypeOK, TimeoutInRange, PCs
  <2>3. CASE \E next \in {"closed", "open"} : TransitionTo(next, {})
    BY <2>2, <2>3, TransitionResets DEF TypeOK, States
  <2>4. CASE RecordClosed(c, o) /\ ~TransitionTo("open", {})
    BY <2>2, <2>4 DEF RecordClosed, TypeOK, CountersFitState, ProbesAccounted, history
  <2>5. CASE RecordHalfOpen(c, o) /\ ~(\E next \in {"closed", "open"} : TransitionTo(next, {}))
    BY <2>2, <2>5 DEF RecordHalfOpen, TypeOK, CountersFitState, ProbesAccounted
  <2>6. CASE RecordOpen
    BY <2>2, <2>6 DEF RecordOpen, TypeOK, CountersFitState, ProbesAccounted, breaker, history
  <2> QED
    BY <2>1, <2>3, <2>4, <2>5, <2>6
<1>6. ASSUME NEW c \in Calls, EnginePanic(c) PROVE BreakerInv'
  BY <1>6 DEF EnginePanic, Leave, TypeOK, CountersFitState, ProbesAccounted, TimeoutInRange,
     breaker, PCs
<1>7. ASSUME NEW next \in {"closed", "open"}, Manual(next) PROVE BreakerInv'
  <2>1. TransitionTo(next, {}) /\ UNCHANGED <<pc, timeout, upstream>>
    BY <1>7 DEF Manual
  <2>2. TypeOK' /\ CountersFitState' /\ ProbesAccounted'
    BY <2>1, TransitionResets DEF TypeOK, upstream, States
  <2> QED
    BY <2>1, <2>2 DEF TimeoutInRange
<1>8. CASE Tick
  BY <1>8 DEF Tick, TypeOK, CountersFitState, ProbesAccounted, TimeoutInRange, upstream, history
<1>9. CASE ProviderChanges
  BY <1>9 DEF ProviderChanges, TypeOK, CountersFitState, ProbesAccounted, TimeoutInRange,
     breaker, history
<1>10. CASE UNCHANGED vars
  BY <1>10 DEF vars, breaker, upstream, history, TypeOK, CountersFitState, ProbesAccounted,
     TimeoutInRange
<1> QED
  BY <1>1, <1>2, <1>3, <1>4, <1>5, <1>6, <1>7, <1>8, <1>9, <1>10
  DEF Next, BeforeCall, Finish, Trip, Reset

(* BreakerInv holds in every reachable state. *)
THEOREM BreakerSafe == Spec => []BreakerInv
<1> QED
  BY InvInit, InvNext, PTL DEF Spec

(* The variables keep their types, whatever the environment does. *)
THEOREM TypeCorrect == Spec => []TypeOK
<1>1. BreakerInv => TypeOK
  BY DEF BreakerInv
<1> QED
  BY <1>1, BreakerSafe, PTL

(* No counter survives a transition or sits at its threshold. *)
THEOREM CountersCorrect == Spec => []CountersFitState
<1>1. BreakerInv => CountersFitState
  BY DEF BreakerInv
<1> QED
  BY <1>1, BreakerSafe, PTL

(* A recovering provider sees at most SuccessThreshold requests before the *)
(* breaker settles, for any number of goroutines hammering it.             *)
THEOREM ProbesBounded == Spec => []ProbeBudget
<1>1. BreakerInv => ProbeBudget
  BY BreakerAssumption DEF BreakerInv, TypeOK, CountersFitState, ProbesAccounted, ProbeBudget
<1> QED
  BY <1>1, BreakerSafe, PTL

(* Every running call has a deadline between the floor and cfg.Timeout. *)
THEOREM DeadlinesBounded == Spec => []TimeoutInRange
<1>1. BreakerInv => TimeoutInRange
  BY DEF BreakerInv
<1> QED
  BY <1>1, BreakerSafe, PTL

-----------------------------------------------------------------------------
(* SlotHeldByLiveProbe is not inductive either: a panic that removes one   *)
(* probe says nothing of the others unless every probe is known to run.    *)
ProbesLive == \A c \in probes : pc[c] # "idle"
SlotInv    == ProbesLive /\ (halfOpenInFlight = 1 /\ leaked = {} => probes # {})

LEMMA SlotNext == BreakerInv /\ SlotInv /\ [Next]_vars => SlotInv'
<1> SUFFICES ASSUME BreakerInv, SlotInv, [Next]_vars PROVE SlotInv'
  OBVIOUS
<1>0. TypeOK /\ CountersFitState
  BY DEF BreakerInv
<1>1. ASSUME NEW next, TransitionTo(next, {}) PROVE SlotInv'
  BY <1>1, FS_EmptySet DEF TransitionTo, SlotInv, ProbesLive
<1>2. CASE \E c \in Calls : AdmitClosed(c) \/ AdmitAfterCooldown(c) \/ AdmitProbe(c)
  BY <1>0, <1>2 DEF AdmitClosed, AdmitAfterCooldown, AdmitProbe, TransitionTo, Enter,
     breaker, history, SlotInv, ProbesLive, TypeOK
<1>3. CASE \E c \in Calls : StartCall(c)
  BY <1>0, <1>3 DEF StartCall, breaker, history, SlotInv, ProbesLive, TypeOK
<1>4. CASE \E c \in Calls, o \in Outcomes : AfterCall(c, o)
  <2>1. state # "halfOpen" => halfOpenInFlight = 0 /\ probes = {}
    BY <1>0 DEF CountersFitState
  <2> QED
    BY <1>0, <1>1, <1>4, <2>1 DEF AfterCall, Leave, RecordClosed, RecordHalfOpen, RecordOpen,
       breaker, history, SlotInv, ProbesLive, TypeOK
<1>5. CASE \E c \in Calls : EnginePanic(c)
  BY <1>0, <1>5 DEF EnginePanic, Leave, breaker, SlotInv, ProbesLive, TypeOK
<1>6. CASE Trip \/ Reset
  BY <1>1, <1>6 DEF Trip, Reset, Manual
<1>7. CASE Tick \/ ProviderChanges \/ UNCHANGED vars
  BY <1>7 DEF Tick, ProviderChanges, vars, breaker, history, SlotInv, ProbesLive
<1> QED
  BY <1>2, <1>3, <1>4, <1>5, <1>6, <1>7 DEF Next, BeforeCall, Finish

(* So a half-open breaker that rejects everybody is waiting for an answer, *)
(* or has lost its slot to a panic.                                        *)
THEOREM SlotNeverLeaks == Spec => []SlotHeldByLiveProbe
<1>1. Init => SlotInv
  BY DEF Init, SlotInv, ProbesLive
<1>2. SlotInv => SlotHeldByLiveProbe
  BY DEF SlotInv, ProbesLive, SlotHeldByLiveProbe
<1> QED
  BY <1>1, <1>2, BreakerSafe, SlotNext, PTL DEF Spec

-----------------------------------------------------------------------------
(* No step lets a call through, or leaves "open", before the cooldown; the *)
(* one exception is the manual Reset.                                      *)
THEOREM CooldownRespected == Spec => OpenUntilCooldown
<1> DEFINE Early == state = "open" /\ sinceChange < Cooldown
           Stays == /\ \A c \in Calls : ~(pc[c] = "idle" /\ pc'[c] = "admitted")
                    /\ state' = "open" \/ ("manual" \in Faults /\ state' = "closed" /\ pc' = pc)
<1>1. BreakerInv /\ [Next]_vars => [Early => Stays]_vars
  <2> SUFFICES ASSUME BreakerInv, Next, Early PROVE Stays
    OBVIOUS
  <2>0. TypeOK
    BY DEF BreakerInv
  <2>1. CASE \E c \in Calls : BeforeCall(c)
    BY <2>0, <2>1, BreakerAssumption
    DEF BeforeCall, AdmitClosed, AdmitAfterCooldown, AdmitProbe, TypeOK
  <2>2. CASE \E c \in Calls : StartCall(c)
    BY <2>0, <2>2 DEF StartCall, breaker, TypeOK
  <2>3. CASE \E c \in Calls, o \in Outcomes : AfterCall(c, o)
    BY <2>0, <2>3 DEF AfterCall, Leave, RecordClosed, RecordHalfOpen, RecordOpen, breaker, TypeOK
  <2>4. CASE \E c \in Calls : EnginePanic(c)
    BY <2>0, <2>4 DEF EnginePanic, Leave, breaker, TypeOK
  <2>5. CASE Trip \/ Reset
    BY <2>5 DEF Trip, Reset, Manual, TransitionTo
  <2>6. CASE Tick \/ ProviderChanges
    BY <2>6 DEF Tick, ProviderChanges, breaker
  <2> QED
    BY <2>1, <2>2, <2>3, <2>4, <2>5, <2>6 DEF Next, Finish
<1> QED
  BY <1>1, BreakerSafe, PTL DEF Spec, OpenUntilCooldown

(* Recovery does not slip back: one step for each action.                  *)
LEMMA OutcomeRecovers ==
  ASSUME BreakerInv, NEW c \in Calls, NEW o \in Outcomes, AfterCall(c, o), c \notin mayFail,
         healthy, o # "cancelled"
  PROVE  /\ mayFail' = mayFail /\ ToRecover' <= ToRecover
         /\ state = "halfOpen" => ToRecover' < ToRecover
<1>1. /\ consecutiveSuccesses \in Nat /\ consecutiveSuccesses < SuccessThreshold
      /\ SuccessThreshold \in Nat
  BY BreakerAssumption DEF BreakerInv, TypeOK, CountersFitState
<1>2. o \in {"ok", "unsupported"} /\ ~IsFailure(o)
  BY DEF AfterCall, EngineReturns, Outcomes, IsFailure
<1>3. mayFail' = mayFail
  BY DEF AfterCall, Leave, BreakerInv, TypeOK
<1>4. CASE RecordClosed(c, o)
  <2>1. state = "closed" /\ state' = "closed"
    BY <1>2, <1>4 DEF RecordClosed
  <2>2. ToRecover = 0 /\ ToRecover' = 0
    BY <2>1 DEF ToRecover
  <2> QED
    BY <1>3, <2>1, <2>2
<1>5. CASE RecordHalfOpen(c, o)
  <2>1. ToRecover = SuccessThreshold - consecutiveSuccesses
    BY <1>5 DEF RecordHalfOpen, ToRecover
  <2>2. CASE consecutiveSuccesses + 1 >= SuccessThreshold
    <3>1. state' = "closed"
      BY <1>2, <1>5, <2>2 DEF RecordHalfOpen, TransitionTo
    <3>2. ToRecover' = 0
      BY <3>1 DEF ToRecover
    <3> QED
      BY <1>1, <1>3, <2>1, <3>2
  <2>3. CASE ~(consecutiveSuccesses + 1 >= SuccessThreshold)
    <3>1. state' = "halfOpen" /\ consecutiveSuccesses' = consecutiveSuccesses + 1
      BY <1>2, <1>5, <2>3 DEF RecordHalfOpen
    <3>2. ToRecover' = SuccessThreshold - (consecutiveSuccesses + 1)
      BY <3>1 DEF ToRecover
    <3> QED
      BY <1>1, <1>3, <2>1, <3>2
  <2> QED
    BY <2>2, <2>3
<1>6. CASE RecordOpen
  <2>1. state = "open" /\ state' = "open"
    BY <1>6 DEF RecordOpen, breaker
  <2>2. ToRecover = SuccessThreshold + 1 /\ ToRecover' = SuccessThreshold + 1
    BY <2>1 DEF ToRecover
  <2> QED
    BY <1>1, <1>3, <2>1, <2>2
<1> QED
  BY <1>4, <1>5, <1>6 DEF AfterCall

LEMMA OtherStepsKeep ==
  ASSUME BreakerInv, \/ \E c \in Calls : BeforeCall(c) \/ StartCall(c) \/ (EnginePanic(c) /\ c \notin mayFail)
                     \/ Tick,
         healthy
  PROVE  mayFail' = mayFail /\ ToRecover' <= ToRecover
<1>1. /\ consecutiveSuccesses \in Nat /\ consecutiveSuccesses < SuccessThreshold
      /\ SuccessThreshold \in Nat /\ state \in States
  BY BreakerAssumption DEF BreakerInv, TypeOK, CountersFitState
<1>2. mayFail' = mayFail
  <2>1. CASE \E c \in Calls : EnginePanic(c) /\ c \notin mayFail
    <3>1. PICK c \in Calls : mayFail' = mayFail \ {c} /\ c \notin mayFail
      BY <2>1 DEF EnginePanic, Leave
    <3> QED
      BY <3>1
  <2>2. CASE Tick \/ \E c \in Calls : BeforeCall(c) \/ StartCall(c)
    BY <2>2 DEF BeforeCall, AdmitClosed, AdmitAfterCooldown, AdmitProbe, Enter, StartCall, Tick, upstream
  <2> QED
    BY <2>1, <2>2
<1>3. CASE \E c \in Calls : AdmitAfterCooldown(c)
  <2>1. state = "open" /\ state' = "halfOpen" /\ consecutiveSuccesses' = 0
    BY <1>3 DEF AdmitAfterCooldown, TransitionTo
  <2>2. ToRecover = SuccessThreshold + 1 /\ ToRecover' = SuccessThreshold - 0
    BY <2>1 DEF ToRecover
  <2> QED
    BY <1>1, <1>2, <2>2
<1>4. CASE UNCHANGED <<state, consecutiveSuccesses>>
  <2>1. ToRecover' = ToRecover
    BY <1>4 DEF ToRecover
  <2>2. ToRecover \in Int
    BY <1>1 DEF ToRecover, States
  <2> QED
    BY <1>2, <2>1, <2>2
<1> QED
  BY <1>3, <1>4 DEF BeforeCall, AdmitClosed, AdmitProbe, StartCall, EnginePanic, Tick, breaker

(* Once the provider is well, only a call that reached it before can take  *)
(* the breaker a step back, and every other outcome is a step forward.     *)
THEOREM RecoveryOnlyForward == Spec => RecoveryNeverSlips
<1> DEFINE Recording == \E c \in Calls, o \in Outcomes : AfterCall(c, o)
           Forward == \/ \E c \in mayFail : mayFail' = mayFail \ {c}
                      \/ /\ mayFail' = mayFail
                         /\ ToRecover' <= ToRecover
                         /\ (state = "halfOpen" /\ Recording) => ToRecover' < ToRecover
<1>1. ASSUME BreakerInv, Next, healthy, healthy', ~Disturbance PROVE Forward
  <2>1. TypeOK
    BY <1>1 DEF BreakerInv
  <2>2. CASE \E c \in Calls, o \in Outcomes : AfterCall(c, o)
    <3>1. PICK c \in Calls, o \in Outcomes : AfterCall(c, o)
      BY <2>2
    <3>2. o # "cancelled"
      BY <1>1, <3>1 DEF Disturbance
    <3>3. CASE c \in mayFail
      BY <3>1, <3>3 DEF AfterCall, Leave
    <3>4. CASE c \notin mayFail
      BY <1>1, <3>1, <3>2, <3>4, OutcomeRecovers
    <3> QED
      BY <3>3, <3>4
  <2>3. CASE ~Recording /\ \E c \in mayFail : EnginePanic(c)
    BY <2>3 DEF EnginePanic, Leave
  <2>4. CASE ~Recording /\ (Tick \/ \E c \in Calls : BeforeCall(c) \/ StartCall(c) \/ (EnginePanic(c) /\ c \notin mayFail))
    BY <1>1, <2>4, OtherStepsKeep
  <2>5. ~ProviderChanges /\ ~Trip /\ ~Reset
    BY <1>1, <2>1 DEF ProviderChanges, Disturbance, TypeOK
  <2> QED
    BY <1>1, <2>2, <2>3, <2>4, <2>5 DEF Next, Finish
<1>2. BreakerInv /\ [Next]_vars => [healthy /\ healthy' /\ ~Disturbance => Forward]_vars
  BY <1>1
<1> QED
  BY <1>2, BreakerSafe, PTL DEF Spec, RecoveryNeverSlips

-----------------------------------------------------------------------------
(* The retention of the rows.                                                *)

RowStates == {"none", "fresh", "due", "gone"}

(* What is left of the rows a sweep is to delete from the table it is at.  *)
Late(ro, s) == {r \in Tables[s.at] \cap s.old : ro[r] = "due"}

(* An undisturbed sweep has emptied the tables it has left behind of the   *)
(* rows past its cutoff; what its statement has selected is a batch, or    *)
(* all that is left of the table.                                          *)
Sound(ro, s) ==
  /\ \A r \in s.old : ro[r] \in {"due", "gone"}
  /\ s.selected => s.at # 0
  /\ s.at # 0 /\ ~s.left /\ ~s.raced =>
       /\ \A i \in 1 .. 3 : i < s.at => \A r \in Tables[i] \cap s.old : ro[r] = "gone"
       /\ s.selected =>
            /\ \A r \in s.chosen : ro[r] = "due"
            /\ Cardinality(s.chosen) = Batch \/ Late(ro, s) \subseteq s.chosen

SweepInv ==
  /\ rows \in [Rows -> RowStates]
  /\ sweep \in [Cleaners -> Sweep]
  /\ \A p \in Cleaners : Sound(rows, sweep[p])

(* Rows only age: an overdue one stays so until it is deleted, for good.   *)
Aged(ro, after) ==
  \A r \in Rows : /\ ro[r] = "due" => after[r] \in {"due", "gone"}
                  /\ ro[r] = "gone" => after[r] = "gone"

-----------------------------------------------------------------------------
LEMMA TablesAreRows ==
  /\ Tables[1] = OcrRows /\ Tables[2] = UsageRows /\ Tables[3] = AuditRows
  /\ \A i \in 1 .. 3 : Tables[i] \subseteq Rows
  /\ Rows = Tables[1] \cup Tables[2] \cup Tables[3]
BY DEF Tables, Rows

LEMMA SweepInvInit == RetentionInit => SweepInv
<1> SUFFICES ASSUME RetentionInit PROVE SweepInv
  OBVIOUS
<1>1. SweepAt(0, {}, FALSE, FALSE) \in Sweep
  BY DEF SweepAt, Sweep
<1>2. \A ro : Sound(ro, SweepAt(0, {}, FALSE, FALSE))
  BY DEF Sound, SweepAt
<1> QED
  BY <1>1, <1>2 DEF RetentionInit, SweepInv, RowStates

(* A sweep that has lost none of its rows is as sound as before. *)
LEMMA SoundAged ==
  ASSUME NEW ro, NEW after, NEW s \in Sweep, Sound(ro, s), Aged(ro, after),
         \A r \in s.chosen : ro[r] = "due" => after[r] = "due"
  PROVE  Sound(after, s)
<1>1. s.old \subseteq Rows /\ s.chosen \subseteq Rows /\ s.at \in 0 .. 3
  BY DEF Sweep
<1>2. \A r \in s.old : ro[r] \in {"due", "gone"} /\ after[r] \in {"due", "gone"}
  BY <1>1 DEF Sound, Aged
<1>3. Late(after, s) \subseteq Late(ro, s)
  BY <1>1, <1>2 DEF Late, Aged
<1>4. \A r \in s.old : ro[r] = "gone" => after[r] = "gone"
  BY <1>1 DEF Aged
<1> QED
  BY <1>2, <1>3, <1>4 DEF Sound

(* One that has lost some has only to know which rows are old. *)
LEMMA SoundRaced ==
  ASSUME NEW ro, NEW after, NEW s \in Sweep, Sound(ro, s), Aged(ro, after)
  PROVE  Sound(after, [s EXCEPT !.raced = TRUE])
<1> DEFINE t == [s EXCEPT !.raced = TRUE]
<1>1. t.old = s.old /\ t.selected = s.selected /\ t.at = s.at /\ t.raced = TRUE
  BY DEF Sweep
<1>2. \A r \in s.old : after[r] \in {"due", "gone"}
  <2>1. s.old \subseteq Rows
    BY DEF Sweep
  <2> QED
    BY <2>1 DEF Sound, Aged
<1> HIDE DEF t
<1>3. Sound(after, t)
  BY <1>1, <1>2 DEF Sound
<1> QED
  BY <1>3 DEF t

(* What the cleaner p deletes, and what becomes of the others. *)
LEMMA DeletedByOne ==
  ASSUME SweepInv, NEW p \in Cleaners, NEW gone \in {{}, Deletes(p)}, NEW next \in Sweep,
         Delete(gone), Continue(p, next, gone), Sound(rows', next)
  PROVE  SweepInv'
<1>1. /\ rows' \in [Rows -> RowStates] /\ Aged(rows, rows')
      /\ \A r \in Rows : r \notin gone => rows'[r] = rows[r]
  <2>1. rows' = [r \in Rows |-> IF r \in gone THEN "gone" ELSE rows[r]]
    BY DEF Delete
  <2>2. rows \in [Rows -> RowStates]
    BY DEF SweepInv
  <2> QED
    BY <2>1, <2>2 DEF Aged, RowStates
<1>2. sweep' = [q \in Cleaners |->
                  IF q = p THEN next
                  ELSE [sweep[q] EXCEPT !.raced = @ \/ sweep[q].chosen \cap gone # {}]]
  BY DEF Continue
<1>3. ASSUME NEW q \in Cleaners, q # p
      PROVE  sweep'[q] \in Sweep /\ Sound(rows', sweep'[q])
  <2> DEFINE s == sweep[q]
  <2>1. s \in Sweep /\ Sound(rows, s)
    BY DEF SweepInv
  <2>2. sweep'[q] = [s EXCEPT !.raced = s.raced \/ s.chosen \cap gone # {}]
    BY <1>2, <1>3
  <2>3. s.raced \in BOOLEAN /\ s.chosen \subseteq Rows
    BY <2>1 DEF Sweep
  <2>4. sweep'[q] \in Sweep
    BY <2>1, <2>2 DEF Sweep
  <2>5. CASE s.chosen \cap gone # {}
    <3>1. sweep'[q] = [s EXCEPT !.raced = TRUE]
      BY <2>2, <2>5
    <3> QED
      BY <1>1, <2>1, <2>4, <3>1, SoundRaced
  <2>6. CASE s.chosen \cap gone = {}
    <3>1. sweep'[q] = s
      BY <2>1, <2>2, <2>3, <2>6 DEF Sweep
    <3>2. \A r \in s.chosen : rows'[r] = rows[r]
      BY <1>1, <2>3, <2>6
    <3> QED
      BY <1>1, <2>1, <3>1, <3>2, SoundAged
  <2> QED
    BY <2>5, <2>6
<1>4. sweep'[p] = next
  BY <1>2
<1>5. sweep' \in [Cleaners -> Sweep]
  BY <1>2, <1>3, <1>4
<1> QED
  BY <1>1, <1>3, <1>4, <1>5 DEF SweepInv

(* A statement that deletes fewer rows than the batch holds, all that it   *)
(* had selected, deletes every row its sweep is to delete from the table.  *)
LEMMA PurgeStep ==
  ASSUME SweepInv, NEW p \in Cleaners, Purge(p)
  PROVE  /\ SweepInv'
         /\ sweep'[p].at = 0 /\ ~sweep'[p].left /\ ~sweep'[p].raced
              => \A r \in sweep[p].old : rows'[r] = "gone"
<1> DEFINE s    == sweep[p]
           gone == Deletes(p)
           full == s.left \/ Cardinality(gone) = Batch
           at   == NextTable(s.at, gone)
           next == SweepAt(at, s.old, full, s.raced)
<1>1. s \in Sweep /\ Sound(rows, s) /\ s.selected
  BY DEF SweepInv, Purge
<1>2. s.at \in 1 .. 3 /\ s.old \subseteq Rows /\ s.chosen \subseteq Rows
  BY <1>1 DEF Sweep, Sound
<1>3. Delete(gone) /\ Continue(p, next, gone)
  BY DEF Purge
<1>4. next = [at |-> at, old |-> s.old, selected |-> FALSE, chosen |-> {}, left |-> full,
              raced |-> s.raced]
  BY DEF SweepAt
<1>5. next \in Sweep
  <2>1. at \in 0 .. 3 /\ full \in BOOLEAN /\ s.old \subseteq Rows /\ s.raced \in BOOLEAN
    BY <1>1, <1>2 DEF Sweep, NextTable
  <2> HIDE DEF next, at, full
  <2> QED
    BY <1>4, <2>1 DEF Sweep
<1>6. \A r \in Rows : rows'[r] = IF r \in gone THEN "gone" ELSE rows[r]
  BY <1>3 DEF Delete
<1>7. \A r \in s.old : rows'[r] \in {"due", "gone"}
  BY <1>1, <1>2, <1>6 DEF Sound
<1>8. ASSUME ~next.left, ~next.raced
      PROVE  \A i \in 1 .. 3 : i <= s.at => \A r \in Tables[i] \cap s.old : rows'[r] = "gone"
  <2>1. ~s.left /\ ~s.raced /\ s.at # 0
    <3>1. ~full /\ ~s.raced
      <4> HIDE DEF next, at, full
      <4> QED
        BY <1>4, <1>8
    <3> QED
      BY <1>2, <3>1
  <2>2. /\ \A i \in 1 .. 3 : i < s.at => \A r \in Tables[i] \cap s.old : rows[r] = "gone"
        /\ \A r \in s.chosen : rows[r] = "due"
        /\ Cardinality(s.chosen) = Batch \/ Late(rows, s) \subseteq s.chosen
    BY <1>1, <2>1 DEF Sound
  <2>3. gone = s.chosen
    BY <2>2 DEF Deletes
  <2>4. Late(rows, s) \subseteq gone
    <3>1. ~full
      <4> HIDE DEF next, at, full
      <4> QED
        BY <1>4, <1>8
    <3> QED
      BY <2>2, <2>3, <3>1
  <2>5. \A i \in 1 .. 3 : i < s.at => \A r \in Tables[i] \cap s.old : rows'[r] = "gone"
    BY <1>2, <1>6, <2>2
  <2>6. \A r \in Tables[s.at] \cap s.old : rows'[r] = "gone"
    <3>1. \A r \in Tables[s.at] \cap s.old : rows[r] = "due" => r \in gone
      BY <2>4 DEF Late
    <3>2. \A r \in s.old : rows[r] \in {"due", "gone"} /\ r \in Rows
      BY <1>1, <1>2 DEF Sound
    <3> QED
      BY <1>6, <3>1, <3>2
  <2> QED
    BY <1>2, <2>5, <2>6
<1> HIDE DEF next, gone, at, full
<1>9. Sound(rows', next)
  <2>1. next.at # 0 => \A i \in 1 .. 3 : i < next.at => i <= s.at
    BY <1>2, <1>4 DEF NextTable, at
  <2> QED
    BY <1>4, <1>7, <1>8, <2>1 DEF Sound
<1>10. SweepInv'
  BY <1>3, <1>5, <1>9, DeletedByOne DEF gone
<1>11. sweep'[p] = next
  BY <1>3 DEF Continue
<1>12. ASSUME next.at = 0, ~next.left, ~next.raced
       PROVE  \A r \in s.old : rows'[r] = "gone"
  <2>1. s.at = 3
    BY <1>2, <1>4, <1>12 DEF NextTable, at
  <2>2. \A i \in 1 .. 3 : \A r \in Tables[i] \cap s.old : rows'[r] = "gone"
    BY <1>8, <1>12, <2>1
  <2> QED
    BY <1>2, <2>2, TablesAreRows
<1> QED
  BY <1>10, <1>11, <1>12

LEMMA PurgeFailsStep ==
  ASSUME SweepInv, NEW p \in Cleaners, PurgeFails(p)
  PROVE  SweepInv' /\ sweep'[p].left
<1> DEFINE next == SweepAt(0, {}, TRUE, FALSE)
<1>1. PICK gone \in {{}, Deletes(p)} : Delete(gone) /\ Continue(p, next, gone)
  BY DEF PurgeFails
<1>2. next \in Sweep /\ Sound(rows', next) /\ next.left
  <2>1. next = [at |-> 0, old |-> {}, selected |-> FALSE, chosen |-> {}, left |-> TRUE, raced |-> FALSE]
    BY DEF SweepAt
  <2> HIDE DEF next
  <2> QED
    BY <2>1 DEF Sweep, Sound
<1>3. sweep'[p] = next
  BY <1>1 DEF Continue
<1> HIDE DEF next
<1> QED
  BY <1>1, <1>2, <1>3, DeletedByOne

LEMMA SelectStep ==
  ASSUME SweepInv, NEW p \in Cleaners, Select(p)
  PROVE  SweepInv' /\ sweep'[p].at # 0
<1> DEFINE s == sweep[p]
<1>1. PICK ids \in Batches(p) : sweep' = [sweep EXCEPT ![p].selected = TRUE, ![p].chosen = ids]
  BY DEF Select
<1> DEFINE next == [s EXCEPT !.selected = TRUE, !.chosen = ids]
<1>2. s \in Sweep /\ Sound(rows, s) /\ s.at # 0 /\ rows' = rows
  BY DEF Select, SweepInv
<1>3. s.at \in 1 .. 3 /\ s.old \subseteq Rows /\ Tables[s.at] \subseteq Rows
  BY <1>2, TablesAreRows DEF Sweep
<1>4. Overdue(p) = Late(rows, s) /\ IsFiniteSet(Late(rows, s))
  <2>1. Late(rows, s) \subseteq Rows
    BY <1>3 DEF Late
  <2> QED
    BY <2>1, FS_Subset, RetentionAssumption DEF Overdue, Late
<1>5. /\ ids \subseteq Late(rows, s)
      /\ Cardinality(ids) = IF Cardinality(Late(rows, s)) < Batch THEN Cardinality(Late(rows, s)) ELSE Batch
  BY <1>4 DEF Batches
<1>6. Cardinality(ids) = Batch \/ Late(rows, s) \subseteq ids
  BY <1>4, <1>5, FS_Subset
<1>7. sweep' = [sweep EXCEPT ![p] = next]
  BY <1>1, <1>2 DEF SweepInv, Sweep
<1>8. ids \subseteq Rows /\ \A r \in ids : rows[r] = "due"
  BY <1>3, <1>5 DEF Late
<1>9. /\ next.at = s.at /\ next.old = s.old /\ next.left = s.left /\ next.raced = s.raced
      /\ next.selected = TRUE /\ next.chosen = ids /\ next \in Sweep
  BY <1>2, <1>8 DEF Sweep
<1> HIDE DEF next
<1>10. Late(rows, next) = Late(rows, s)
  BY <1>9 DEF Late
<1>11. Sound(rows, next)
  BY <1>2, <1>6, <1>8, <1>9, <1>10 DEF Sound
<1> QED
  BY <1>2, <1>7, <1>9, <1>11 DEF SweepInv

LEMMA StartStep ==
  ASSUME SweepInv, NEW p \in Cleaners, StartSweep(p)
  PROVE  SweepInv' /\ sweep'[p].at # 0
<1> DEFINE next == SweepAt(1, {r \in Rows : rows[r] = "due"}, FALSE, FALSE)
<1>1. sweep' = [sweep EXCEPT ![p] = next] /\ rows' = rows
  BY DEF StartSweep
<1>2. next = [at |-> 1, old |-> {r \in Rows : rows[r] = "due"}, selected |-> FALSE, chosen |-> {},
              left |-> FALSE, raced |-> FALSE]
  BY DEF SweepAt
<1> HIDE DEF next
<1>3. next \in Sweep /\ next.at = 1
  BY <1>2 DEF Sweep
<1>4. Sound(rows, next)
  BY <1>2 DEF Sound
<1> QED
  BY <1>1, <1>3, <1>4 DEF SweepInv

(* Rows that are written or age. *)
LEMMA RowsAge ==
  ASSUME SweepInv, UNCHANGED sweep, rows' \in [Rows -> RowStates],
         \A r \in Rows : rows[r] \in {"due", "gone"} => rows'[r] = rows[r]
  PROVE  SweepInv'
<1>1. Aged(rows, rows')
  BY DEF Aged
<1>2. ASSUME NEW p \in Cleaners
      PROVE  Sound(rows', sweep[p])
  <2>1. sweep[p] \in Sweep /\ Sound(rows, sweep[p])
    BY DEF SweepInv
  <2>2. \A r \in sweep[p].chosen : rows[r] = "due" => rows'[r] = "due"
    BY <2>1 DEF Sweep
  <2> QED
    BY <1>1, <2>1, <2>2, SoundAged
<1> QED
  BY <1>2 DEF SweepInv

LEMMA WriteStep ==
  ASSUME SweepInv, (\E r \in Rows : rows[r] = "none" /\ rows' = [rows EXCEPT ![r] = "fresh"]) \/ TimePasses,
         UNCHANGED sweep
  PROVE  SweepInv'
<1>1. rows \in [Rows -> RowStates]
  BY DEF SweepInv
<1>2. /\ rows' \in [Rows -> RowStates]
      /\ \A r \in Rows : rows[r] \in {"due", "gone"} => rows'[r] = rows[r]
  <2>1. CASE TimePasses
    BY <1>1, <2>1 DEF TimePasses, RowStates
  <2>2. CASE \E r \in Rows : rows[r] = "none" /\ rows' = [rows EXCEPT ![r] = "fresh"]
    BY <1>1, <2>2 DEF RowStates
  <2> QED
    BY <2>1, <2>2
<1> QED
  BY <1>2, RowsAge

(* A step of a request stores a row or leaves the tables alone. *)
LEMMA RequestStep ==
  ASSUME Arrive \/ CheckQuota \/ Upload \/ CheckImage \/ EngineFails \/ WrongType
         \/ Extract \/ Normalize \/ Save
  PROVE  /\ UNCHANGED sweep
         /\ \/ UNCHANGED rows
            \/ \E r \in Rows : rows[r] = "none" /\ rows' = [rows EXCEPT ![r] = "fresh"]
<1>1. CASE Save
  BY <1>1 DEF Save, Rows
<1>2. CASE ~Save
  BY <1>2, ZenonT(60)
  DEF Arrive, CheckQuota, Upload, CheckImage, EngineFails, WrongType, Extract, Normalize, Goto, Fail
<1> QED
  BY <1>1, <1>2

(* A step keeps the invariant, and of the cleaners only the one that takes *)
(* it may end its sweep.                                                   *)
LEMMA SweepInvStep ==
  ASSUME SweepInv, [PipelineNext]_pipelineVars
  PROVE  /\ SweepInv'
         /\ \A p \in Cleaners :
              (sweep[p].at # 0 /\ sweep'[p].at = 0 /\ ~sweep'[p].left /\ ~sweep'[p].raced)
                => \A r \in sweep[p].old : rows'[r] = "gone"
<1> DEFINE Kept == \A q \in Cleaners : sweep'[q].at = sweep[q].at
           KeptBut(p) == \A q \in Cleaners : q # p => sweep'[q].at = sweep[q].at
<1>1. CASE UNCHANGED <<rows, sweep>>
  BY <1>1 DEF SweepInv, Sound, Late
<1>2. CASE /\ UNCHANGED sweep
           /\ TimePasses \/ \E r \in Rows : rows[r] = "none" /\ rows' = [rows EXCEPT ![r] = "fresh"]
  BY <1>2, WriteStep
<1>3. ASSUME NEW p \in Cleaners, StartSweep(p) \/ Select(p) \/ Purge(p) \/ PurgeFails(p)
      PROVE  KeptBut(p)
  <2>1. ASSUME NEW next, NEW gone, Continue(p, next, gone), NEW q \in Cleaners, q # p
        PROVE  sweep'[q].at = sweep[q].at
    <3>1. sweep'[q] = [sweep[q] EXCEPT !.raced = @ \/ sweep[q].chosen \cap gone # {}]
      BY <2>1 DEF Continue
    <3> QED
      BY <3>1 DEF SweepInv, Sweep
  <2>2. CASE StartSweep(p) \/ Select(p)
    BY <2>2 DEF StartSweep, Select, SweepInv
  <2>3. CASE Purge(p) \/ PurgeFails(p)
    <3>1. PICK next, gone : Continue(p, next, gone)
      BY <2>3, Zenon DEF Purge, PurgeFails
    <3> QED
      BY <2>1, <3>1
  <2> QED
    BY <1>3, <2>2, <2>3
<1>4. ASSUME NEW p \in Cleaners, StartSweep(p) \/ Select(p) \/ Purge(p) \/ PurgeFails(p)
      PROVE  /\ SweepInv'
             /\ (sweep'[p].at = 0 /\ ~sweep'[p].left /\ ~sweep'[p].raced)
                  => \A r \in sweep[p].old : rows'[r] = "gone"
  BY <1>4, StartStep, SelectStep, PurgeStep, PurgeFailsStep
<1>5. CASE \E p \in Cleaners : StartSweep(p) \/ Select(p) \/ Purge(p) \/ PurgeFails(p)
  BY <1>3, <1>4, <1>5
<1>6. CASE \E r \in UsageRows \cup AuditRows : Write(r)
  <2>1. \A r \in UsageRows \cup AuditRows : r \in Rows
    BY DEF Rows
  <2> QED
    BY <1>2, <1>6, <2>1 DEF Write
<1>7. CASE TimePasses
  BY <1>2, <1>7 DEF TimePasses
<1>8. CASE Arrive \/ CheckQuota \/ Upload \/ CheckImage \/ EngineFails \/ WrongType
           \/ Extract \/ Normalize \/ Save
  BY <1>1, <1>2, <1>8, RequestStep
<1> QED
  BY <1>1, <1>5, <1>6, <1>7, <1>8 DEF PipelineNext, RetentionNext, pipelineVars

(* For every batch size, all tables and any number of replicas: a sweep    *)
(* that ends without an error, without a full batch and without a row lost *)
(* to another replica has deleted every row that was overdue when it began.*)
THEOREM SweepIsThorough == PipelineSpec => CleanSweepLeavesNothing
<1>1. PipelineInit => SweepInv
  BY SweepInvInit DEF PipelineInit
<1>2. SweepInv /\ [PipelineNext]_pipelineVars => SweepInv'
  BY SweepInvStep
<1>3. SweepInv /\ [PipelineNext]_pipelineVars =>
        [\A p \in Cleaners :
           (sweep[p].at # 0 /\ sweep'[p].at = 0 /\ ~sweep'[p].left /\ ~sweep'[p].raced)
             => \A r \in sweep[p].old : rows'[r] = "gone"]_<<rows, sweep>>
  BY SweepInvStep
<1> QED
  BY <1>1, <1>2, <1>3, PTL DEF PipelineSpec, CleanSweepLeavesNothing

-----------------------------------------------------------------------------
(* Counting and summing up.                                                  *)

LEMMA LeastNatural ==
  ASSUME NEW T \in SUBSET Nat, T # {}
  PROVE  \E m \in T : \A k \in Nat : k < m => k \notin T
<1>1. PICK m \in T : \A k \in T : <<k, m>> \notin OpToRel(<, Nat)
  BY NatLessThanWellFounded, WFMin, Zenon
<1>2. \A k \in Nat : k < m => <<k, m>> \in OpToRel(<, Nat)
  BY DEF OpToRel
<1> QED
  BY <1>1, <1>2

LEMMA CountingUp ==
  ASSUME NEW S, NEW n \in Nat, 0 \in S, \A k \in 1 .. n : k - 1 \in S => k \in S
  PROVE  n \in S
<1> DEFINE T == {k \in 0 .. n : k \notin S}
<1>1. ASSUME T # {} PROVE FALSE
  <2>1. T \in SUBSET Nat
    OBVIOUS
  <2> HIDE DEF T
  <2>2. PICK m \in T : \A k \in Nat : k < m => k \notin T
    BY <1>1, <2>1, LeastNatural
  <2>3. m \in 1 .. n /\ m - 1 \in 0 .. n /\ m - 1 \in Nat /\ m - 1 < m /\ m \notin S
    BY <2>2 DEF T
  <2> QED
    BY <2>2, <2>3 DEF T
<1> QED
  BY <1>1

(* The partial sums of t, as far as the n-th. *)
PartialSums(t, f, n) ==
  f \in [0 .. n -> Int] /\ f[0] = 0 /\ \A k \in 1 .. n : f[k] = f[k - 1] + t[k]

LEMMA PartialSumsExist ==
  ASSUME NEW t, NEW n \in Nat, \A k \in 1 .. n : t[k] \in Int
  PROVE  \E f : PartialSums(t, f, n)
<1> DEFINE S == {m \in 0 .. n : \E f : PartialSums(t, f, m)}
<1>1. 0 \in S
  <2>1. PartialSums(t, [k \in 0 .. 0 |-> 0], 0)
    BY DEF PartialSums
  <2> QED
    BY <2>1
<1>2. ASSUME NEW m \in 1 .. n, m - 1 \in S PROVE m \in S
  <2>1. PICK f : PartialSums(t, f, m - 1)
    BY <1>2
  <2>2. PartialSums(t, [k \in 0 .. m |-> IF k = m THEN f[m - 1] + t[m] ELSE f[k]], m)
    BY <2>1 DEF PartialSums
  <2> QED
    BY <2>2
<1> HIDE DEF S
<1>3. n \in S
  BY <1>1, <1>2, CountingUp
<1> QED
  BY <1>3 DEF S

(* The recursion that defines SumOf has the partial sums as its solution. *)
LEMMA SumIsPartialSum ==
  ASSUME NEW t, NEW n \in Nat, Len(t) = n, \A k \in 1 .. n : t[k] \in Int
  PROVE  \E f : PartialSums(t, f, n) /\ SumOf(t) = f[n]
<1> DEFINE Step(f) == [k \in 0 .. n |-> IF k = 0 THEN 0 ELSE f[k - 1] + t[k]]
           upTo == CHOOSE f : f = Step(f)
<1>1. PICK f : PartialSums(t, f, n)
  BY PartialSumsExist
<1>2. f = Step(f)
  BY <1>1 DEF PartialSums
<1>3. upTo = Step(upTo)
  <2> HIDE DEF Step
  <2> QED
    BY <1>2
<1>4. SumOf(t) = upTo[n]
  BY DEF SumOf
<1> HIDE DEF upTo
<1>5. /\ \A k \in 1 .. n : upTo[k] = upTo[k - 1] + t[k]
      /\ upTo[0] = 0
  BY <1>3
<1> DEFINE S == {k \in 0 .. n : upTo[k] = f[k]}
<1>6. 0 \in S
  BY <1>1, <1>5 DEF PartialSums
<1>7. ASSUME NEW k \in 1 .. n, k - 1 \in S PROVE k \in S
  BY <1>1, <1>5, <1>7 DEF PartialSums
<1> HIDE DEF S
<1>8. n \in S
  BY <1>6, <1>7, CountingUp
<1>9. upTo[n] = f[n]
  BY <1>8 DEF S
<1> QED
  BY <1>1, <1>4, <1>9

LEMMA SumIsInt ==
  ASSUME NEW t, Len(t) \in Nat, \A k \in 1 .. Len(t) : t[k] \in Int
  PROVE  SumOf(t) \in Int
BY SumIsPartialSum DEF PartialSums

(* Sequences that differ in one term have sums that differ as the term does. *)
DifferAt(t, u, n, i) ==
  /\ Len(t) = n /\ Len(u) = n /\ i \in 1 .. n
  /\ \A k \in 1 .. n : t[k] \in Int /\ u[k] \in Int /\ (k # i => t[k] = u[k])

LEMMA OneTermOfSum ==
  ASSUME NEW t, NEW u, NEW n \in Nat, NEW i, DifferAt(t, u, n, i)
  PROVE  SumOf(t) \in Int /\ SumOf(u) \in Int /\ SumOf(t) - SumOf(u) = t[i] - u[i]
<1> USE DEF DifferAt
<1>1. PICK f : PartialSums(t, f, n) /\ SumOf(t) = f[n]
  BY SumIsPartialSum
<1>2. PICK g : PartialSums(u, g, n) /\ SumOf(u) = g[n]
  BY SumIsPartialSum
<1> DEFINE d == t[i] - u[i]
           S == {k \in 0 .. n : (k < i /\ f[k] - g[k] = 0) \/ (k >= i /\ f[k] - g[k] = d)}
<1>3. 0 \in S
  BY <1>1, <1>2 DEF PartialSums
<1>4. ASSUME NEW k \in 1 .. n, k - 1 \in S PROVE k \in S
  <2>1. /\ f[k] = f[k - 1] + t[k] /\ g[k] = g[k - 1] + u[k]
        /\ f[k - 1] \in Int /\ g[k - 1] \in Int
    BY <1>1, <1>2 DEF PartialSums
  <2>2. (k - 1 < i /\ f[k - 1] - g[k - 1] = 0) \/ (k - 1 >= i /\ f[k - 1] - g[k - 1] = d)
    BY <1>4
  <2>3. t[k] \in Int /\ u[k] \in Int /\ (k # i => t[k] = u[k]) /\ (k = i => t[k] - u[k] = d)
    OBVIOUS
  <2>4. d \in Int
    OBVIOUS
  <2> HIDE DEF d
  <2>5. f[k] - g[k] = (f[k - 1] - g[k - 1]) + (t[k] - u[k])
    BY <2>1, <2>3, SMTT(60)
  <2>6. CASE k = i
    BY <2>2, <2>3, <2>4, <2>5, <2>6
  <2>7. CASE k # i
    <3>1. t[k] - u[k] = 0
      BY <2>3, <2>7
    <3> QED
      BY <2>2, <2>4, <2>5, <2>7, <3>1
  <2> QED
    BY <2>6, <2>7
<1> HIDE DEF S
<1>5. n \in S
  BY <1>3, <1>4, CountingUp
<1>6. f[n] \in Int /\ g[n] \in Int
  BY <1>1, <1>2 DEF PartialSums
<1> QED
  BY <1>1, <1>2, <1>5, <1>6 DEF S

-----------------------------------------------------------------------------
(* Cleaning a number.                                                        *)

LEMMA DigitsCounted ==
  ASSUME NEW s, NEW i \in Nat
  PROVE  IsFiniteSet(DigitsUpTo(s, i)) /\ Cardinality(DigitsUpTo(s, i)) \in Nat
<1>1. DigitsUpTo(s, i) \subseteq 1 .. i
  BY DEF DigitsUpTo
<1>2. IsFiniteSet(1 .. i)
  BY FS_Interval
<1>3. IsFiniteSet(DigitsUpTo(s, i))
  BY <1>1, <1>2, FS_Subset
<1> QED
  BY <1>3, FS_CardinalityType

LEMMA OneMoreDigit ==
  ASSUME NEW s, NEW i \in Nat
  PROVE  Cardinality(DigitsUpTo(s, i + 1)) =
           Cardinality(DigitsUpTo(s, i)) + (IF s[i + 1] \in 0 .. 9 THEN 1 ELSE 0)
<1>1. CASE s[i + 1] \in 0 .. 9
  <2>1. DigitsUpTo(s, i + 1) = DigitsUpTo(s, i) \cup {i + 1} /\ i + 1 \notin DigitsUpTo(s, i)
    BY <1>1 DEF DigitsUpTo
  <2> QED
    BY <1>1, <2>1, DigitsCounted, FS_AddElement
<1>2. CASE s[i + 1] \notin 0 .. 9
  <2>1. DigitsUpTo(s, i + 1) = DigitsUpTo(s, i)
    BY <1>2 DEF DigitsUpTo
  <2> QED
    BY <1>2, <2>1, DigitsCounted
<1> QED
  BY <1>1, <1>2

LEMMA EveryCountReached ==
  ASSUME NEW s \in Text, NEW k \in 1 .. Cardinality(DigitsUpTo(s, Len(s)))
  PROVE  \E i \in DigitsUpTo(s, Len(s)) : Cardinality(DigitsUpTo(s, i)) = k
<1> DEFINE C(i) == Cardinality(DigitsUpTo(s, i))
           T == {i \in Nat : C(i) >= k}
<1>0. Len(s) \in Nat
  BY DEF Text
<1>1. Len(s) \in T /\ k \in Nat /\ k >= 1
  BY <1>0, DigitsCounted
<1>2. PICK m \in T : \A j \in Nat : j < m => j \notin T
  BY <1>1, LeastNatural
<1>3. C(0) = 0
  BY FS_EmptySet DEF DigitsUpTo
<1>4. m \in Nat /\ m # 0 /\ m <= Len(s)
  BY <1>0, <1>1, <1>2, <1>3
<1>5. m - 1 \in Nat /\ C(m - 1) \in Nat /\ C(m - 1) < k
  BY <1>1, <1>2, <1>4, DigitsCounted
<1>6. C(m) = C(m - 1) + (IF s[m] \in 0 .. 9 THEN 1 ELSE 0)
  <2>1. (m - 1) + 1 = m
    BY <1>4
  <2> QED
    BY <1>5, <2>1, OneMoreDigit
<1>7. C(m) >= k
  BY <1>2
<1>8. C(m) = k /\ s[m] \in 0 .. 9
  BY <1>1, <1>5, <1>6, <1>7
<1>9. m \in DigitsUpTo(s, Len(s))
  BY <1>0, <1>4, <1>8 DEF DigitsUpTo
<1> QED
  BY <1>8, <1>9

LEMMA CleanDigits ==
  ASSUME NEW s \in Text
  PROVE  Clean(s) \in Seq(0 .. 9)
<1> DEFINE n == Cardinality(DigitsUpTo(s, Len(s)))
           At(k) == CHOOSE i \in DigitsUpTo(s, Len(s)) : Cardinality(DigitsUpTo(s, i)) = k
<1>1. n \in Nat
  BY DigitsCounted DEF Text
<1>2. ASSUME NEW k \in 1 .. n PROVE s[At(k)] \in 0 .. 9
  <2>1. At(k) \in DigitsUpTo(s, Len(s))
    BY EveryCountReached
  <2> QED
    BY <2>1 DEF DigitsUpTo
<1>3. Clean(s) = [k \in 1 .. n |-> s[At(k)]]
  BY DEF Clean
<1> HIDE DEF n, At
<1> QED
  BY <1>1, <1>2, <1>3

LEMMA CleanOfDigits ==
  ASSUME NEW s \in Seq(0 .. 9)
  PROVE  Clean(s) = s
<1>0. Len(s) \in Nat
  OBVIOUS
<1>1. ASSUME NEW i \in 0 .. Len(s) PROVE Cardinality(DigitsUpTo(s, i)) = i
  <2>1. DigitsUpTo(s, i) = 1 .. i
    BY DEF DigitsUpTo
  <2> QED
    BY <1>0, <2>1, FS_Interval
<1>2. /\ DigitsUpTo(s, Len(s)) = 1 .. Len(s)
      /\ Cardinality(DigitsUpTo(s, Len(s))) = Len(s)
  BY <1>0, <1>1 DEF DigitsUpTo
<1> DEFINE At(k) == CHOOSE i \in DigitsUpTo(s, Len(s)) : Cardinality(DigitsUpTo(s, i)) = k
<1>3. ASSUME NEW k \in 1 .. Len(s) PROVE At(k) = k
  <2>1. At(k) \in DigitsUpTo(s, Len(s)) /\ Cardinality(DigitsUpTo(s, At(k))) = k
    <3>1. k \in DigitsUpTo(s, Len(s)) /\ Cardinality(DigitsUpTo(s, k)) = k
      BY <1>1, <1>2
    <3> QED
      BY <3>1
  <2> QED
    BY <1>1, <1>2, <2>1
<1>4. Clean(s) = [k \in 1 .. Cardinality(DigitsUpTo(s, Len(s))) |-> s[At(k)]]
  BY DEF Clean
<1> HIDE DEF At
<1> QED
  BY <1>0, <1>2, <1>3, <1>4

LEMMA CleanTwice ==
  ASSUME NEW s \in Text
  PROVE  Clean(s) \in Text /\ Clean(Clean(s)) = Clean(s)
<1>1. Clean(s) \in Seq(0 .. 9)
  BY CleanDigits
<1>2. Clean(s) \in Text
  BY <1>1 DEF Text, Other
<1> QED
  BY <1>1, <1>2, CleanOfDigits

-----------------------------------------------------------------------------
(* Scores.                                                                   *)

LEMMA PointsRange ==
  ASSUME NEW c, NEW n \in Nat
  PROVE  Points(c, n) \in 0 .. n
BY DEF Points

LEMMA DateOnce ==
  ASSUME NEW x \in Date
  PROVE  NormalDate(x) \in Date /\ NormalDate(NormalDate(x)) = NormalDate(x)
BY DEF NormalDate, OnCalendar, Date

(* A KTP whose NIK is not valid loses 40 points, one whose NIK contradicts *)
(* its date of birth or gender 25.                                         *)
LEMMA KTPSound ==
  ASSUME NEW n
  PROVE  /\ KTPScore(n) \in 0 .. 100
         /\ KTPScore(n) > 75 => ValidNIK(n.nik) /\ KTPAgrees(n)
<1> DEFINE nik == IF ~ValidNIK(n.nik) THEN 0
                  ELSE 30 + (IF KTPAgrees(n) THEN Points(Birth(n.birth), 10) ELSE -15)
           p1 == Points("nama" \in n.has, 15)
           p2 == Points(Birth(n.birth) /\ "tempat" \in n.has, 15)
           p3 == Points(n.gender \in {"LAKI-LAKI", "PEREMPUAN"}, 5)
           p4 == Points("alamat" \in n.has, 5)
           p5 == Points("rt_rw" \in n.has, 5)
           p6 == Points("kelurahan" \in n.has /\ "kecamatan" \in n.has, 5)
           p7 == Points("agama" \in n.has, 4)
           p8 == Points("kawin" \in n.has, 3)
           p9 == Points(n.citizenship \in {"WNI", "WNA"}, 3)
           rest == p1 + p2 + p3 + p4 + p5 + p6 + p7 + p8 + p9
<1>1. KTPScore(n) = Clamp(nik + p1 + p2 + p3 + p4 + p5 + p6 + p7 + p8 + p9)
  BY DEF KTPScore
<1>2. /\ p1 \in 0 .. 15 /\ p2 \in 0 .. 15 /\ p3 \in 0 .. 5 /\ p4 \in 0 .. 5 /\ p5 \in 0 .. 5
      /\ p6 \in 0 .. 5 /\ p7 \in 0 .. 4 /\ p8 \in 0 .. 3 /\ p9 \in 0 .. 3
  BY PointsRange
<1>3. Points(Birth(n.birth), 10) \in 0 .. 10
  BY PointsRange
<1>4. nik \in Int /\ (~ValidNIK(n.nik) \/ ~KTPAgrees(n) => nik <= 15)
  BY <1>3
<1> HIDE DEF nik, p1, p2, p3, p4, p5, p6, p7, p8, p9
<1>5. KTPScore(n) \in 0 .. 100 /\ (nik <= 15 => KTPScore(n) <= 75)
  BY <1>1, <1>2, <1>4 DEF Clamp
<1>6. CASE ~ValidNIK(n.nik) \/ ~KTPAgrees(n)
  BY <1>4, <1>5, <1>6
<1>7. CASE ValidNIK(n.nik) /\ KTPAgrees(n)
  BY <1>5, <1>7
<1> QED
  BY <1>6, <1>7

LEMMA KTPOnce ==
  ASSUME NEW doc \in KTPData
  PROVE  NormalKTP(NormalKTP(doc)) = NormalKTP(doc)
<1>1. Citizenship(Citizenship(doc.citizenship)) = Citizenship(doc.citizenship)
  BY DEF Citizenship
<1> QED
  BY <1>1 DEF NormalKTP, KTPData

(* A SIM loses 15 points or more for a number, class or driver that is not. *)
LEMMA SIMSound ==
  ASSUME NEW n
  PROVE  /\ SIMScore(n) \in 0 .. 100
         /\ SIMScore(n) > 85 => ValidSIMNumber(n.number) /\ Driver(n.birth) /\ n.class \in SIMClasses
<1> DEFINE p1 == Points(ValidSIMNumber(n.number), 25)
           p2 == Points(n.class \in SIMClasses, 15)
           p3 == Points("nama" \in n.has, 15)
           p4 == Points(Driver(n.birth) /\ "tempat" \in n.has, 15)
           p5 == Points(Parses(n.expiry) /\ n.expiry.y \in 2000 .. 2100, 10)
           p6 == Points(n.gender \in {"PRIA", "WANITA"}, 5)
           p7 == Points("alamat" \in n.has, 5)
           p8 == Points("pekerjaan" \in n.has, 5)
           p9 == Points("polda" \in n.has, 3)
           p10 == Points(n.blood \in {"A", "B", "AB", "O", "-"}, 2)
<1>1. SIMScore(n) = Clamp(p1 + p2 + p3 + p4 + p5 + p6 + p7 + p8 + p9 + p10)
  BY DEF SIMScore
<1>2. /\ p1 \in 0 .. 25 /\ p2 \in 0 .. 15 /\ p3 \in 0 .. 15 /\ p4 \in 0 .. 15 /\ p5 \in 0 .. 10
      /\ p6 \in 0 .. 5 /\ p7 \in 0 .. 5 /\ p8 \in 0 .. 5 /\ p9 \in 0 .. 3 /\ p10 \in 0 .. 2
  BY PointsRange
<1>3. p1 # 0 => ValidSIMNumber(n.number)
  BY DEF Points
<1>4. p2 # 0 => n.class \in SIMClasses
  BY DEF Points
<1>5. p4 # 0 => Driver(n.birth)
  BY DEF Points
<1> HIDE DEF p1, p2, p3, p4, p5, p6, p7, p8, p9, p10
<1>6. SIMScore(n) \in 0 .. 100 /\ (p1 = 0 \/ p2 = 0 \/ p4 = 0 => SIMScore(n) <= 85)
  BY <1>1, <1>2 DEF Clamp
<1>7. CASE p1 = 0 \/ p2 = 0 \/ p4 = 0
  BY <1>6, <1>7
<1>8. CASE p1 # 0 /\ p2 # 0 /\ p4 # 0
  BY <1>3, <1>4, <1>5, <1>6, <1>8
<1> QED
  BY <1>7, <1>8

LEMMA SIMOnce ==
  ASSUME NEW doc \in SIMData
  PROVE  /\ NormalSIM(NormalSIM(doc)) = NormalSIM(doc)
         /\ ValidSIMNumber(NormalSIM(doc).number) => NormalSIM(doc).number.chars = "digits"
<1> DEFINE Number(m) == IF ValidSIMNumber(m) THEN [m EXCEPT !.chars = "digits"] ELSE m
           Blood(b) == IF b = "" THEN "-" ELSE b
<1>0. \A d : NormalSIM(d) = [d EXCEPT !.number = Number(@), !.class = SIMClass(@),
                                     !.gender = SIMGender(@), !.blood = Blood(@),
                                     !.birth = NormalDate(@), !.expiry = NormalDate(@)]
  BY Zenon DEF NormalSIM
<1>1. Number(Number(doc.number)) = Number(doc.number)
      /\ (ValidSIMNumber(Number(doc.number)) => Number(doc.number).chars = "digits")
  BY DEF SIMData, ValidSIMNumber
<1>2. SIMClass(SIMClass(doc.class)) = SIMClass(doc.class)
  BY DEF SIMClass
<1>3. SIMGender(SIMGender(doc.gender)) = SIMGender(doc.gender)
  BY DEF SIMGender
<1>4. Blood(Blood(doc.blood)) = Blood(doc.blood)
  OBVIOUS
<1>5. doc.birth \in Date /\ doc.expiry \in Date
  BY DEF SIMData
<1>6. /\ NormalDate(NormalDate(doc.birth)) = NormalDate(doc.birth)
      /\ NormalDate(NormalDate(doc.expiry)) = NormalDate(doc.expiry)
  BY <1>5, DateOnce
<1> HIDE DEF Number, Blood
<1>7. NormalSIM(NormalSIM(doc)) = NormalSIM(doc) /\ NormalSIM(doc).number = Number(doc.number)
  BY <1>0, <1>1, <1>2, <1>3, <1>4, <1>6, ZenonT(60) DEF SIMData
<1> QED
  BY <1>1, <1>7

(* What contradicts the MRZ costs five points or more. *)
LEMMA ContradictionsCost ==
  ASSUME NEW n
  PROVE  Contradictions(n) \in 0 .. 35 /\ (Contradictions(n) # 0 => Contradictions(n) >= 5)
<1> DEFINE differs(a, b, none) == a # none /\ b # none /\ a # b
           p1 == Points(differs(MRZNumber(n.mrz.line), n.number, <<>>), 10)
           p2 == Points(differs(MRZBirth(n.mrz.line), n.birth, Missing), 10)
           p3 == Points(differs(MRZExpiry(n.mrz.line), n.expiry, Missing), 10)
           p4 == Points(differs(MRZGender(n.mrz.line), n.gender, ""), 5)
<1>1. Contradictions(n) = IF ~HasTD3(n) THEN 0 ELSE p1 + p2 + p3 + p4
  BY DEF Contradictions
<1>2. p1 \in {0, 10} /\ p2 \in {0, 10} /\ p3 \in {0, 10} /\ p4 \in {0, 5}
  BY DEF Points
<1> HIDE DEF p1, p2, p3, p4
<1> QED
  BY <1>1, <1>2

(* A passport loses ten points without an MRZ, fifteen with one that is not *)
(* valid, and five or more for each field that contradicts it.              *)
LEMMA PassportSound ==
  ASSUME NEW n, NEW named
  PROVE  /\ PassportScore(n, named) \in 0 .. 100
         /\ PassportScore(n, named) > 95 =>
              HasTD3(n) /\ ValidMRZ(n.mrz.line) /\ Contradictions(n) = 0
         /\ n.mrz # NoMRZ /\ ~ValidMRZ(n.mrz.line) => PassportScore(n, named) <= 85
<1> DEFINE number == ValidPassportNumber(n.number)
           read == HasTD3(n) /\ ValidMRZ(n.mrz.line)
           c  == Contradictions(n)
           q  == Points(number, 15)
           p1 == Points(number, 25)
           p2 == IF n.mrz = NoMRZ THEN q ELSE (IF read THEN 25 ELSE 10) - c
           p3 == Points(named, 15)
           p4 == Points(Birth(n.birth) /\ "place" \in n.has, 15)
           late == Points(Ord(n.expiry) > Ord(n.issue), 10)
           p5 == IF ~Parses(n.expiry) THEN 0 ELSE IF ~Parses(n.issue) THEN 8 ELSE late
           p6 == IF n.nationality = "IDN" THEN 5 ELSE 3
           p7 == Points(n.gender \in {"LAKI-LAKI", "PEREMPUAN"}, 3)
           p8 == Points("office" \in n.has, 2)
<1>1. PassportScore(n, named) = Clamp(p1 + p2 + p3 + p4 + p5 + p6 + p7 + p8)
  BY DEF PassportScore
<1>2. /\ p1 \in 0 .. 25 /\ p3 \in 0 .. 15 /\ p4 \in 0 .. 15 /\ p6 \in 0 .. 5
      /\ p7 \in 0 .. 3 /\ p8 \in 0 .. 2 /\ q \in 0 .. 15 /\ late \in 0 .. 10
  BY PointsRange
<1>3. p5 \in 0 .. 10
  BY <1>2
<1>4. p2 \in -35 .. 25 /\ (p2 > 20 => read /\ c = 0) /\ (n.mrz # NoMRZ /\ ~read => p2 <= 10)
  <2>1. c \in 0 .. 35 /\ (c # 0 => c >= 5)
    BY ContradictionsCost
  <2> HIDE DEF c, q, read
  <2> QED
    BY <1>2, <2>1
<1> HIDE DEF p1, p2, p3, p4, p5, p6, p7, p8
<1>5. /\ PassportScore(n, named) \in 0 .. 100
      /\ p2 <= 20 => PassportScore(n, named) <= 95
      /\ p2 <= 10 => PassportScore(n, named) <= 85
  BY <1>1, <1>2, <1>3, <1>4 DEF Clamp
<1>6. PassportScore(n, named) > 95 => read /\ c = 0
  <2>1. CASE p2 <= 20
    BY <1>5, <2>1
  <2>2. CASE p2 > 20
    BY <1>4, <2>2
  <2> QED
    BY <1>4, <2>1, <2>2
<1>7. n.mrz # NoMRZ /\ ~read => PassportScore(n, named) <= 85
  BY <1>4, <1>5
<1> QED
  BY <1>5, <1>6, <1>7

LEMMA PassportOnce ==
  ASSUME NEW doc \in PassportData
  PROVE  /\ NormalPassport(NormalPassport(doc)) = NormalPassport(doc)
         /\ Named(NormalPassport(doc)) = Named(doc)
<1> DEFINE Nation(x) == IF x \in {"INDONESIA", "WNI", ""} THEN "IDN" ELSE x
           Name(x) == IF x = "" /\ HasTD3(doc) THEN doc.mrz.name ELSE x
           n == NormalPassport(doc)
<1>1. Nation(Nation(doc.nationality)) = Nation(doc.nationality)
  OBVIOUS
<1>2. Name(Name(doc.name)) = Name(doc.name)
  OBVIOUS
<1>3. PassportGender(PassportGender(doc.gender)) = PassportGender(doc.gender)
  BY DEF PassportGender
<1>4. doc.birth \in Date /\ doc.issue \in Date /\ doc.expiry \in Date
  BY DEF PassportData
<1>5. /\ NormalDate(NormalDate(doc.birth)) = NormalDate(doc.birth)
      /\ NormalDate(NormalDate(doc.issue)) = NormalDate(doc.issue)
      /\ NormalDate(NormalDate(doc.expiry)) = NormalDate(doc.expiry)
  BY <1>4, DateOnce
<1>6. n = [doc EXCEPT !.nationality = Nation(@),
                      !.birth = NormalDate(@), !.issue = NormalDate(@), !.expiry = NormalDate(@),
                      !.gender = PassportGender(@), !.name = Name(@)]
  BY Zenon DEF NormalPassport
<1>7. /\ n.nationality = Nation(doc.nationality) /\ n.gender = PassportGender(doc.gender)
      /\ n.birth = NormalDate(doc.birth) /\ n.issue = NormalDate(doc.issue)
      /\ n.expiry = NormalDate(doc.expiry) /\ n.name = Name(doc.name) /\ n.mrz = doc.mrz
  <2> HIDE DEF n, Nation, Name
  <2> QED
    BY <1>6 DEF PassportData
<1>8. HasTD3(n) = HasTD3(doc)
  BY <1>7 DEF HasTD3
<1> HIDE DEF n
<1>9. NormalPassport(n) = [n EXCEPT !.nationality = Nation(n.nationality),
         !.birth = NormalDate(n.birth), !.issue = NormalDate(n.issue),
         !.expiry = NormalDate(n.expiry), !.gender = PassportGender(n.gender),
         !.name = Name(n.name)]
  BY <1>7, <1>8 DEF NormalPassport
<1> HIDE DEF Nation, Name
<1>10. NormalPassport(n) = [n EXCEPT !.nationality = n.nationality,
         !.birth = n.birth, !.issue = n.issue,
         !.expiry = n.expiry, !.gender = n.gender, !.name = n.name]
  BY <1>1, <1>2, <1>3, <1>5, <1>7, <1>9
<1>11. NormalPassport(n) = n
  BY <1>6, <1>10, ZenonT(60) DEF PassportData
<1> QED
  BY <1>11 DEF n, Named

-----------------------------------------------------------------------------
(* The machine readable zone.                                                *)

(* The second line of an MRZ has 44 characters, of which its last check    *)
(* digit covers 39: what their sum is made of.                             *)
MRZLine    == {line \in Text : Len(line) = 44}
Covered(line) == SubSeq(line, 1, 10) \o SubSeq(line, 14, 20) \o SubSeq(line, 22, 43)
Terms(line)   == [j \in 1 .. Len(Covered(line)) |-> MRZWeight(j) * CharValue(Covered(line)[j])]
PlaceOf(j)    == IF j <= 10 THEN j ELSE IF j <= 17 THEN j + 3 ELSE j + 4

(* p is the k characters of s behind the first d; q is a, of length m, and *)
(* then b, of length n.                                                    *)
PartOf(S, p, s, d, k) == p \in Seq(S) /\ Len(p) = k /\ \A j \in 1 .. k : p[j] = s[j + d]
JoinOf(S, q, a, b, m, n) ==
  /\ q \in Seq(S) /\ Len(q) = m + n
  /\ \A j \in 1 .. m : q[j] = a[j]
  /\ \A j \in 1 .. n : q[j + m] = b[j]

LEMMA Part ==
  ASSUME NEW S, NEW s \in Seq(S), NEW d \in Nat, NEW k \in Nat, d + k <= Len(s)
  PROVE  PartOf(S, SubSeq(s, d + 1, d + k), s, d, k)
<1>1. \A i \in d + 1 .. d + k : s[i] \in S
  <2>1. ASSUME NEW i \in d + 1 .. d + k PROVE i \in 1 .. Len(s)
    OBVIOUS
  <2> QED
    BY <2>1, ElementOfSeq
<1>2. /\ SubSeq(s, d + 1, d + k) \in Seq(S)
      /\ Len(SubSeq(s, d + 1, d + k)) = IF d + 1 <= d + k THEN d + k - (d + 1) + 1 ELSE 0
      /\ \A i \in 1 .. d + k - (d + 1) + 1 : SubSeq(s, d + 1, d + k)[i] = s[d + 1 + i - 1]
  BY <1>1, SubSeqProperties
<1> QED
  BY <1>2 DEF PartOf

LEMMA Joined ==
  ASSUME NEW S, NEW a \in Seq(S), NEW b \in Seq(S)
  PROVE  JoinOf(S, a \o b, a, b, Len(a), Len(b))
<1>1. ASSUME NEW j \in 1 .. Len(a) PROVE (a \o b)[j] = a[j]
  OBVIOUS
<1>2. ASSUME NEW j \in 1 .. Len(b) PROVE (a \o b)[j + Len(a)] = b[j]
  OBVIOUS
<1>3. Len(a \o b) = Len(a) + Len(b)
  OBVIOUS
<1>4. a \o b \in Seq(S)
  OBVIOUS
<1> QED
  BY <1>1, <1>2, <1>3, <1>4 DEF JoinOf

LEMMA CoveredChars ==
  ASSUME NEW S, NEW line \in Seq(S), Len(line) = 44
  PROVE  /\ Len(Covered(line)) = 39
         /\ \A j \in 1 .. 39 :
              Covered(line)[j] = IF j <= 10 THEN line[j] ELSE IF j <= 17 THEN line[j + 3] ELSE line[j + 4]
<1> DEFINE a == SubSeq(line, 0 + 1, 0 + 10)
           b == SubSeq(line, 13 + 1, 13 + 7)
           c == SubSeq(line, 21 + 1, 21 + 22)
           ab == a \o b
<1>1. Covered(line) = ab \o c
  BY DEF Covered
<1>2. PartOf(S, a, line, 0, 10)
  <2>1. 0 \in Nat /\ 10 \in Nat /\ 0 + 10 <= Len(line)
    OBVIOUS
  <2> QED
    BY <2>1, Part, ZenonT(60)
<1>3. PartOf(S, b, line, 13, 7)
  <2>1. 13 \in Nat /\ 7 \in Nat /\ 13 + 7 <= Len(line)
    OBVIOUS
  <2> QED
    BY <2>1, Part, ZenonT(60)
<1>4. PartOf(S, c, line, 21, 22)
  <2>1. 21 \in Nat /\ 22 \in Nat /\ 21 + 22 <= Len(line)
    OBVIOUS
  <2> QED
    BY <2>1, Part, ZenonT(60)
<1> HIDE DEF a, b, c, Covered
<1>5. JoinOf(S, ab, a, b, 10, 7)
  <2>1. a \in Seq(S) /\ Len(a) = 10
    BY <1>2 DEF PartOf
  <2>2. b \in Seq(S) /\ Len(b) = 7
    BY <1>3 DEF PartOf
  <2> QED
    BY <2>1, <2>2, Joined, ZenonT(60)
<1> HIDE DEF ab
<1>6. JoinOf(S, Covered(line), ab, c, 17, 22)
  <2>1. ab \in Seq(S) /\ Len(ab) = 17
    BY <1>5 DEF JoinOf
  <2>2. c \in Seq(S) /\ Len(c) = 22
    BY <1>4 DEF PartOf
  <2> QED
    BY <1>1, <2>1, <2>2, Joined, ZenonT(60)
<1>7. Len(Covered(line)) = 39
  BY <1>6 DEF JoinOf
<1>8. ASSUME NEW j \in 1 .. 39
      PROVE  Covered(line)[j] = IF j <= 10 THEN line[j] ELSE IF j <= 17 THEN line[j + 3] ELSE line[j + 4]
  <2>1. CASE j \in 1 .. 10
    <3>1. j \in 1 .. 17 /\ j + 0 = j
      BY <2>1
    <3>2. Covered(line)[j] = ab[j]
      BY <1>6, <3>1 DEF JoinOf
    <3>3. ab[j] = a[j]
      BY <1>5, <2>1 DEF JoinOf
    <3>4. a[j] = line[j]
      BY <1>2, <2>1, <3>1 DEF PartOf
    <3> QED
      BY <2>1, <3>2, <3>3, <3>4
  <2>2. CASE j \in 11 .. 17
    <3> DEFINE i == j - 10
    <3>1. j \in 1 .. 17 /\ i \in 1 .. 7 /\ i + 10 = j /\ i + 13 = j + 3
      BY <2>2
    <3> HIDE DEF i
    <3>2. Covered(line)[j] = ab[j]
      BY <1>6, <3>1 DEF JoinOf
    <3>3. ab[j] = b[i]
      BY <1>5, <3>1 DEF JoinOf
    <3>4. b[i] = line[j + 3]
      BY <1>3, <3>1 DEF PartOf
    <3> QED
      BY <2>2, <3>2, <3>3, <3>4
  <2>3. CASE j \in 18 .. 39
    <3> DEFINE i == j - 17
    <3>1. i \in 1 .. 22 /\ i + 17 = j /\ i + 21 = j + 4
      BY <2>3
    <3> HIDE DEF i
    <3>2. Covered(line)[j] = c[i]
      BY <1>6, <3>1 DEF JoinOf
    <3>3. c[i] = line[j + 4]
      BY <1>4, <3>1, ZenonT(60) DEF PartOf
    <3> QED
      BY <2>3, <3>2, <3>3, SMTT(60)
  <2> QED
    BY <2>1, <2>2, <2>3
<1> QED
  BY <1>7, <1>8

LEMMA TermsOfLine ==
  ASSUME NEW line \in MRZLine
  PROVE  /\ Len(Terms(line)) = 39
         /\ \A j \in 1 .. 39 :
              /\ PlaceOf(j) \in 1 .. 43 /\ CharValue(line[PlaceOf(j)]) \in 0 .. 35
              /\ MRZWeight(j) \in {1, 3, 7}
              /\ Terms(line)[j] = MRZWeight(j) * CharValue(line[PlaceOf(j)])
              /\ Terms(line)[j] \in Int
<1>1. line \in Seq(0 .. 37) /\ Len(line) = 44
  BY DEF MRZLine, Text, Other
<1>2. /\ Len(Covered(line)) = 39
      /\ \A j \in 1 .. 39 :
           Covered(line)[j] = IF j <= 10 THEN line[j] ELSE IF j <= 17 THEN line[j + 3] ELSE line[j + 4]
  <2> HIDE DEF Covered
  <2> QED
    BY <1>1, CoveredChars
<1>3. Terms(line) = [j \in 1 .. 39 |-> MRZWeight(j) * CharValue(Covered(line)[j])]
  BY <1>2 DEF Terms
<1>4. Len(Terms(line)) = 39
  <2> DEFINE e(j) == MRZWeight(j) * CharValue(Covered(line)[j])
  <2> HIDE DEF e
  <2>1. Terms(line) = [j \in 1 .. 39 |-> e(j)]
    BY <1>3 DEF e
  <2> QED
    BY <2>1
<1>5. ASSUME NEW j \in 1 .. 39
      PROVE  /\ PlaceOf(j) \in 1 .. 43 /\ CharValue(line[PlaceOf(j)]) \in 0 .. 35
             /\ MRZWeight(j) \in {1, 3, 7}
             /\ Terms(line)[j] = MRZWeight(j) * CharValue(line[PlaceOf(j)])
             /\ Terms(line)[j] \in Int
  <2>1. PlaceOf(j) \in 1 .. 43 /\ Covered(line)[j] = line[PlaceOf(j)]
    BY <1>2 DEF PlaceOf
  <2>2. line[PlaceOf(j)] \in 0 .. 37
    <3> HIDE DEF PlaceOf
    <3>1. PlaceOf(j) \in 1 .. Len(line)
      BY <1>1, <2>1
    <3> QED
      BY <1>1, <3>1, ElementOfSeq, Zenon
  <2>3. CharValue(line[PlaceOf(j)]) \in 0 .. 35
    BY <2>2 DEF CharValue, Filler, Other
  <2>4. MRZWeight(j) \in {1, 3, 7}
    BY DEF MRZWeight
  <2>5. Terms(line)[j] = MRZWeight(j) * CharValue(Covered(line)[j])
    BY <1>3
  <2>6. MRZWeight(j) * CharValue(line[PlaceOf(j)]) \in Int
    <3> DEFINE w == MRZWeight(j)
               v == CharValue(line[PlaceOf(j)])
    <3>1. w \in Int /\ v \in Int
      BY <2>3, <2>4
    <3> HIDE DEF w, v
    <3>2. w * v \in Int
      BY <3>1
    <3> QED
      BY <3>2 DEF w, v
  <2> QED
    BY <2>1, <2>3, <2>4, <2>5, <2>6
<1> QED
  BY <1>4, <1>5

LEMMA PlaceOfEach ==
  ASSUME NEW i \in (1 .. 10) \cup (14 .. 20) \cup (22 .. 43)
  PROVE  \E k \in 1 .. 39 : PlaceOf(k) = i /\ \A j \in 1 .. 39 : PlaceOf(j) = i => j = k
<1> DEFINE k == IF i <= 10 THEN i ELSE IF i <= 20 THEN i - 3 ELSE i - 4
<1>1. k \in 1 .. 39 /\ PlaceOf(k) = i
  BY DEF PlaceOf
<1>2. \A j \in 1 .. 39 : PlaceOf(j) = i => j = k
  BY DEF PlaceOf
<1> QED
  BY <1>1, <1>2

(* The second line of an MRZ with any one of the characters its last check *)
(* digit covers, or that digit, misread as a character of another value    *)
(* modulo ten is not a valid line.                                         *)
THEOREM MisreadMRZRefused ==
  ASSUME NEW line \in MRZLine, ValidMRZ(line),
         NEW i \in (1 .. 10) \cup (14 .. 20) \cup (22 .. 44), NEW c \in 0 .. Other,
         CharValue(c) % 10 # CharValue(line[i]) % 10
  PROVE  ~ValidMRZ([line EXCEPT ![i] = c])
<1> SUFFICES ASSUME NEW m, m = [line EXCEPT ![i] = c], ValidMRZ(m)
             PROVE  FALSE
  BY SMTT(60)
<1>1. m \in MRZLine /\ i \in 1 .. 44 /\ m[i] = c
      /\ \A j \in 1 .. 44 : j # i => m[j] = line[j]
  BY SMTT(60) DEF MRZLine, Text
<1>2. line[44] = SumOf(Terms(line)) % 10 /\ m[44] = SumOf(Terms(m)) % 10
  BY SMTT(60) DEF ValidMRZ, MRZCheckDigit, Terms, Covered
<1>3. ASSUME NEW j \in 1 .. 39, PlaceOf(j) # i
      PROVE  Terms(m)[j] = Terms(line)[j]
  <2>1. /\ Terms(m)[j] = MRZWeight(j) * CharValue(m[PlaceOf(j)])
        /\ Terms(line)[j] = MRZWeight(j) * CharValue(line[PlaceOf(j)])
        /\ PlaceOf(j) \in 1 .. 43
    BY <1>1, TermsOfLine, ZenonT(60)
  <2>2. m[PlaceOf(j)] = line[PlaceOf(j)]
    BY <1>1, <1>3, <2>1, SMTT(60)
  <2> QED
    BY <2>1, <2>2, SMTT(60)
<1>4. \A j \in 1 .. 39 : Terms(m)[j] \in Int /\ Terms(line)[j] \in Int
  BY <1>1, TermsOfLine, SMTT(60)
<1>5. Len(Terms(m)) = 39 /\ Len(Terms(line)) = 39
  BY <1>1, TermsOfLine
<1>6. CASE i = 44
  <2>1. \A j \in 1 .. 39 : PlaceOf(j) # i
    BY <1>6 DEF PlaceOf
  <2>2. SumOf(Terms(m)) - SumOf(Terms(line)) = Terms(m)[1] - Terms(line)[1]
        /\ SumOf(Terms(m)) \in Int /\ SumOf(Terms(line)) \in Int
    <3>1. \A k \in 1 .. 39 : /\ Terms(m)[k] \in Int /\ Terms(line)[k] \in Int
                             /\ (k # 1 => Terms(m)[k] = Terms(line)[k])
      BY <1>3, <1>4, <2>1
    <3>2. 39 \in Nat /\ DifferAt(Terms(m), Terms(line), 39, 1)
      BY <1>5, <3>1 DEF DifferAt
    <3> QED
      BY <3>2, OneTermOfSum, ZenonT(60)
  <2>3. SumOf(Terms(m)) = SumOf(Terms(line))
    BY <1>3, <1>4, <2>1, <2>2
  <2> QED
    BY <1>1, <1>2, <1>6, <2>3
<1>7. CASE i # 44
  <2>1. PICK k \in 1 .. 39 : PlaceOf(k) = i /\ \A j \in 1 .. 39 : PlaceOf(j) = i => j = k
    <3>1. i \in (1 .. 10) \cup (14 .. 20) \cup (22 .. 43)
      BY <1>7
    <3> QED
      BY <3>1, PlaceOfEach, Zenon
  <2>2. /\ SumOf(Terms(m)) \in Int /\ SumOf(Terms(line)) \in Int
        /\ SumOf(Terms(m)) - SumOf(Terms(line)) = Terms(m)[k] - Terms(line)[k]
    <3>1. \A j \in 1 .. 39 : /\ Terms(m)[j] \in Int /\ Terms(line)[j] \in Int
                             /\ (j # k => Terms(m)[j] = Terms(line)[j])
      BY <1>3, <1>4, <2>1
    <3>2. 39 \in Nat /\ DifferAt(Terms(m), Terms(line), 39, k)
      BY <1>5, <3>1 DEF DifferAt
    <3> QED
      BY <3>2, OneTermOfSum, ZenonT(60)
  <2>3. /\ Terms(m)[k] = MRZWeight(k) * CharValue(c)
        /\ Terms(line)[k] = MRZWeight(k) * CharValue(line[i])
        /\ CharValue(c) \in 0 .. 35 /\ CharValue(line[i]) \in 0 .. 35
        /\ MRZWeight(k) \in {1, 3, 7}
    <3>1. /\ Terms(m)[k] = MRZWeight(k) * CharValue(m[PlaceOf(k)])
          /\ CharValue(m[PlaceOf(k)]) \in 0 .. 35 /\ MRZWeight(k) \in {1, 3, 7}
      BY <1>1, TermsOfLine, ZenonT(60)
    <3>2. /\ Terms(line)[k] = MRZWeight(k) * CharValue(line[PlaceOf(k)])
          /\ CharValue(line[PlaceOf(k)]) \in 0 .. 35
      BY TermsOfLine
    <3>3. PlaceOf(k) = i /\ m[i] = c
      BY <1>1, <2>1
    <3> QED
      BY <3>1, <3>2, <3>3, Zenon
  <2>4. SumOf(Terms(m)) % 10 = SumOf(Terms(line)) % 10
    BY <1>1, <1>2, <1>7
  <2> DEFINE w == MRZWeight(k)
             a == CharValue(c)
             b == CharValue(line[i])
             x == SumOf(Terms(m))
             y == SumOf(Terms(line))
  <2>5. /\ w \in {1, 3, 7} /\ a \in 0 .. 35 /\ b \in 0 .. 35 /\ x \in Int /\ y \in Int
        /\ x - y = w * a - w * b /\ x % 10 = y % 10 /\ a % 10 # b % 10
    BY <2>2, <2>3, <2>4, Zenon
  <2> HIDE DEF w, a, b, x, y
  <2>6. CASE w = 1
    BY <2>5, <2>6
  <2>7. CASE w = 3
    BY <2>5, <2>7
  <2>8. CASE w = 7
    BY <2>5, <2>8
  <2> QED
    BY <2>5, <2>6, <2>7, <2>8
<1> QED
  BY <1>6, <1>7, SMTT(60)

-----------------------------------------------------------------------------
(* Invoices.                                                                 *)

(* A line is as good after the totals are filled in as before, and filling *)
(* them in once is enough.                                                 *)
LEMMA LinesFilled ==
  ASSUME NEW items \in Seq(LineItem)
  PROVE  LET f == FilledItems(items) IN
         /\ f \in Seq(LineItem) /\ DOMAIN f = DOMAIN items
         /\ \A i \in DOMAIN items : BadItem(f[i]) <=> BadItem(items[i])
         /\ FilledItems(f) = f
         /\ (\A i \in DOMAIN f : ~BadItem(f[i])) =>
               \A i \in DOMAIN f : Gap(f[i].total, f[i].qty * f[i].price) <= Rounding
<1> DEFINE f == FilledItems(items)
           P(it) == it.qty * it.price
           Full(i, its) == its[i].total = 0 /\ \A j \in 1 .. i : ~BadItem(its[j])
<1>1. /\ DOMAIN f = DOMAIN items
      /\ \A i \in DOMAIN items : f[i] = IF Full(i, items) THEN [items[i] EXCEPT !.total = P(items[i])] ELSE items[i]
  BY DEF FilledItems
<1>2. \A i \in DOMAIN items : items[i] \in LineItem /\ P(items[i]) \in Int
  <2> SUFFICES ASSUME NEW i \in DOMAIN items PROVE items[i] \in LineItem /\ P(items[i]) \in Int
    OBVIOUS
  <2>1. items[i] \in LineItem
    OBVIOUS
  <2> QED
    BY <2>1 DEF LineItem
<1>3. \A it : BadItem(it) <=> \/ it.qty <= 0 \/ it.price < 0
                              \/ it.total # 0 /\ Gap(it.total, P(it)) > Rounding
  BY DEF BadItem
<1>4. \A it \in LineItem : /\ [it EXCEPT !.total = P(it)].qty = it.qty
                           /\ [it EXCEPT !.total = P(it)].price = it.price
                           /\ [it EXCEPT !.total = P(it)].total = P(it)
                           /\ P([it EXCEPT !.total = P(it)]) = P(it)
  BY DEF LineItem
<1>5. \A it \in LineItem : P(it) \in Int => [it EXCEPT !.total = P(it)] \in LineItem
  <2> HIDE DEF P
  <2> QED
    BY DEF LineItem
<1> HIDE DEF P, f
<1>6. \A i \in DOMAIN items : f[i] \in LineItem
  BY <1>1, <1>2, <1>5
<1>7. f \in Seq(LineItem)
  <2>1. DOMAIN f = 1 .. Len(items) /\ Len(items) \in Nat
    BY <1>1
  <2>2. f = [i \in 1 .. Len(items) |-> f[i]]
    BY <2>1 DEF f, FilledItems
  <2>3. f \in [1 .. Len(items) -> LineItem]
    <3>1. \A i \in 1 .. Len(items) : f[i] \in LineItem
      BY <1>6
    <3> HIDE DEF LineItem
    <3> QED
      BY <2>2, <3>1, Zenon
  <2> QED
    BY <2>1, <2>3
<1>8. ASSUME NEW i \in DOMAIN items PROVE BadItem(f[i]) <=> BadItem(items[i])
  <2>1. CASE Full(i, items)
    <3>1. i \in 1 .. i
      OBVIOUS
    <3>2. ~BadItem(items[i]) /\ f[i] = [items[i] EXCEPT !.total = P(items[i])]
      BY <1>1, <2>1, <3>1
    <3>3. f[i].qty = items[i].qty /\ f[i].price = items[i].price /\ f[i].total = P(items[i])
          /\ P(f[i]) = P(items[i]) /\ P(items[i]) \in Int
      BY <1>2, <1>4, <3>2
    <3>4. Gap(P(items[i]), P(items[i])) = 0
      BY <3>3 DEF Gap
    <3>5. ~(items[i].qty <= 0) /\ ~(items[i].price < 0)
      BY <1>3, <3>2
    <3>6. ~(Gap(f[i].total, P(f[i])) > Rounding)
      BY <3>3, <3>4 DEF Rounding
    <3>7. ~BadItem(f[i])
      BY <1>3, <3>3, <3>5, <3>6
    <3> QED
      BY <3>2, <3>7
  <2>2. CASE ~Full(i, items)
    BY <1>1, <2>2
  <2> QED
    BY <2>1, <2>2
<1>9. ASSUME NEW i \in DOMAIN items, Full(i, f)
      PROVE  f[i] = [f[i] EXCEPT !.total = P(f[i])] /\ f[i].total = P(f[i])
  <2>1. \A j \in 1 .. i : j \in DOMAIN items
    OBVIOUS
  <2>2. \A j \in 1 .. i : ~BadItem(items[j])
    BY <1>8, <1>9, <2>1
  <2>3. items[i].total = 0
    BY <1>1, <1>9, <2>2
  <2>4. f[i] = [items[i] EXCEPT !.total = P(items[i])]
    BY <1>1, <2>2, <2>3
  <2>5. f[i].total = P(items[i]) /\ P(f[i]) = P(items[i])
    BY <1>2, <1>4, <2>4
  <2>6. f[i] \in LineItem
    BY <1>6
  <2> QED
    BY <2>5, <2>6 DEF LineItem
<1>10. FilledItems(f) = f
  <2>1. FilledItems(f) = [i \in DOMAIN f |-> IF Full(i, f) THEN [f[i] EXCEPT !.total = P(f[i])] ELSE f[i]]
    BY DEF FilledItems, P
  <2>2. f = [i \in DOMAIN f |-> f[i]]
    BY DEF f, FilledItems
  <2> QED
    BY <1>1, <1>9, <2>1, <2>2
<1>11. ASSUME \A i \in DOMAIN f : ~BadItem(f[i]), NEW i \in DOMAIN f
       PROVE  Gap(f[i].total, P(f[i])) <= Rounding
  <2>1. CASE f[i].total = 0
    <3>1. Full(i, f)
      <4>1. \A j \in 1 .. i : j \in DOMAIN f
        BY <1>1
      <4> QED
        BY <1>11, <2>1, <4>1
    <3>2. f[i].total = P(f[i]) /\ P(f[i]) = 0
      BY <1>1, <1>9, <2>1, <3>1
    <3> QED
      BY <2>1, <3>2 DEF Gap, Rounding
  <2>2. CASE f[i].total # 0
    <3>1. f[i] \in LineItem /\ P(f[i]) \in Int
      BY <1>1, <1>6 DEF P, LineItem
    <3>2. Gap(f[i].total, P(f[i])) \in Int
      BY <3>1 DEF Gap, LineItem
    <3> QED
      BY <1>3, <1>11, <2>2, <3>2 DEF Rounding
  <2> QED
    BY <2>1, <2>2
<1> QED
  BY <1>1, <1>7, <1>8, <1>10, <1>11 DEF f, P

(* What is the same on two invoices whose amounts differ. *)
SameParties(d, e) ==
  /\ d.header = e.header /\ d.issued = e.issued /\ d.due = e.due
  /\ d.seller = e.seller /\ d.buyer = e.buyer /\ d.currency = e.currency

LEMMA HeaderOfParties ==
  ASSUME NEW d, NEW e, SameParties(d, e)
  PROVE  HeaderOK(d) <=> HeaderOK(e)
BY DEF SameParties, HeaderOK

DiscountBad(d) == d.discount < 0 \/ (d.subtotal > 0 /\ d.discount > d.subtotal + Rounding)
FromTotal(d)   == d.dpp = 0 /\ d.subtotal <= 0 /\ d.grand > 0
BaseOf(d)      == IF d.dpp # 0 THEN d.dpp ELSE IF d.subtotal > 0 THEN d.subtotal - d.discount
                  ELSE IF d.grand > 0 THEN d.grand - d.ppn ELSE 0
TaxBad(d)      == BaseOf(d) < -Rounding \/ d.ppn < 0 \/ ~PPNRateOK(BaseOf(d), d.ppn)
TotalOf(d)     == IF d.grand = 0 THEN BaseOf(d) + d.ppn ELSE d.grand

(* The checks behind the lines: what they make of the amounts. *)
LEMMA AmountsChecked ==
  ASSUME NEW d \in InvoiceData
  PROVE  LET w == CheckDiscount(d)
             e == w.data
         IN /\ e \in InvoiceData /\ SameParties(d, e) /\ e.items = d.items
            /\ e.discount = d.discount /\ e.ppn = d.ppn /\ w.ok \in BOOLEAN
            /\ DiscountBad(d) => ~w.ok /\ e = d
            /\ ~DiscountBad(d) =>
                 /\ e.dpp = BaseOf(d)
                 /\ e.subtotal = IF FromTotal(d) THEN d.grand - d.ppn ELSE d.subtotal
                 /\ TaxBad(d) => ~w.ok /\ e.grand = d.grand
                 /\ ~TaxBad(d) =>
                      /\ e.grand = TotalOf(d)
                      /\ w.ok <=> Gap(TotalOf(d), BaseOf(d) + d.ppn) <= Rounding /\ TotalOf(d) > 0
<1>0. d.subtotal \in Int /\ d.discount \in Int /\ d.dpp \in Int /\ d.ppn \in Int /\ d.grand \in Int
  BY DEF InvoiceData
<1>1. CASE DiscountBad(d)
  BY <1>1 DEF CheckDiscount, DiscountBad, Verdict, SameParties
<1>2. CASE ~DiscountBad(d)
  <2>1. CheckDiscount(d) = CheckTax(d)
    BY <1>2 DEF CheckDiscount, DiscountBad
  <2>2. PICK b :
          b = IF d.dpp # 0 THEN d
              ELSE IF d.subtotal > 0 THEN [d EXCEPT !.dpp = d.subtotal - d.discount]
              ELSE IF d.grand > 0 THEN [d EXCEPT !.dpp = d.grand - d.ppn, !.subtotal = d.grand - d.ppn]
              ELSE d
    OBVIOUS
  <2>3. /\ b \in InvoiceData /\ SameParties(d, b) /\ b.items = d.items
        /\ b.discount = d.discount /\ b.ppn = d.ppn /\ b.grand = d.grand
        /\ b.dpp = BaseOf(d)
        /\ b.subtotal = IF FromTotal(d) THEN d.grand - d.ppn ELSE d.subtotal
    <3>1. CASE d.dpp # 0
      <4>1. b = d
        BY <2>2, <3>1
      <4> QED
        BY <1>0, <3>1, <4>1 DEF SameParties, BaseOf, FromTotal
    <3>2. CASE d.dpp = 0 /\ d.subtotal > 0
      <4>1. b = [d EXCEPT !.dpp = d.subtotal - d.discount]
        BY <2>2, <3>2
      <4> QED
        BY <1>0, <3>2, <4>1, SMTT(60) DEF SameParties, BaseOf, FromTotal, InvoiceData
    <3>3. CASE d.dpp = 0 /\ ~(d.subtotal > 0) /\ d.grand > 0
      <4>1. b = [d EXCEPT !.dpp = d.grand - d.ppn, !.subtotal = d.grand - d.ppn]
        BY <2>2, <3>3
      <4>2. PICK n \in Int : n = d.grand - d.ppn
        BY <1>0
      <4>3. b = [d EXCEPT !.dpp = n, !.subtotal = n]
        BY <4>1, <4>2
      <4>4. /\ b \in InvoiceData /\ SameParties(d, b) /\ b.items = d.items
            /\ b.discount = d.discount /\ b.ppn = d.ppn /\ b.grand = d.grand
            /\ b.dpp = n /\ b.subtotal = n
        BY <4>2, <4>3 DEF SameParties, InvoiceData
      <4> QED
        BY <1>0, <3>3, <4>2, <4>4 DEF BaseOf, FromTotal
    <3>4. CASE d.dpp = 0 /\ ~(d.subtotal > 0) /\ ~(d.grand > 0)
      <4>1. b = d
        BY <2>2, <3>4
      <4> QED
        BY <1>0, <3>4, <4>1 DEF SameParties, BaseOf, FromTotal
    <3> QED
      BY <3>1, <3>2, <3>3, <3>4
  <2>4. CheckTax(d) = IF b.dpp < -Rounding \/ b.ppn < 0 \/ ~PPNRateOK(b.dpp, b.ppn)
                        THEN Verdict(FALSE, b) ELSE CheckGrandTotal(b)
    BY <2>2 DEF CheckTax
  <2>5. CASE TaxBad(d)
    <3>1. CheckDiscount(d) = Verdict(FALSE, b)
      BY <2>1, <2>3, <2>4, <2>5 DEF TaxBad
    <3> QED
      BY <1>2, <2>3, <2>5, <3>1 DEF Verdict
  <2>6. CASE ~TaxBad(d)
    <3>1. CheckDiscount(d) = CheckGrandTotal(b)
      BY <2>1, <2>3, <2>4, <2>6 DEF TaxBad
    <3>2. b.dpp \in Int /\ b.ppn \in Int /\ b.grand \in Int
      BY <2>3 DEF InvoiceData
    <3>3. CheckGrandTotal(b) = Verdict(Gap(TotalOf(d), BaseOf(d) + d.ppn) <= Rounding /\ TotalOf(d) > 0,
                                       [b EXCEPT !.grand = TotalOf(d)])
      BY <2>3 DEF CheckGrandTotal, TotalOf
    <3>4. TotalOf(d) \in Int
      BY <2>3, <3>2 DEF TotalOf
    <3>5. PICK e : e = [b EXCEPT !.grand = TotalOf(d)]
      OBVIOUS
    <3>6. /\ e \in InvoiceData /\ SameParties(b, e) /\ e.items = b.items
          /\ e.discount = b.discount /\ e.ppn = b.ppn /\ e.dpp = b.dpp /\ e.subtotal = b.subtotal
          /\ e.grand = TotalOf(d)
      BY <2>3, <3>4, <3>5 DEF InvoiceData, SameParties
    <3>7. CheckDiscount(d).data = e /\ CheckDiscount(d).ok =
             (Gap(TotalOf(d), BaseOf(d) + d.ppn) <= Rounding /\ TotalOf(d) > 0)
      BY <3>1, <3>3, <3>5 DEF Verdict
    <3>8. SameParties(d, e)
      BY <2>3, <3>6 DEF SameParties
    <3> QED
      BY <1>2, <2>3, <2>6, <3>6, <3>7, <3>8
  <2> QED
    BY <2>5, <2>6
<1> QED
  BY <1>1, <1>2

LEMMA ItemSumInt ==
  ASSUME NEW items \in Seq(LineItem)
  PROVE  ItemSum(items) \in Int
<1> DEFINE t == [i \in DOMAIN items |-> items[i].total]
<1>1. DOMAIN items = 1 .. Len(items) /\ Len(items) \in Nat
  OBVIOUS
<1>2. \A i \in DOMAIN items : items[i].total \in Int
  <2> SUFFICES ASSUME NEW i \in DOMAIN items PROVE items[i].total \in Int
    OBVIOUS
  <2>1. items[i] \in LineItem
    OBVIOUS
  <2> QED
    BY <2>1 DEF LineItem
<1>3. t = [i \in 1 .. Len(items) |-> items[i].total] /\ \A i \in 1 .. Len(items) : t[i] \in Int
  BY <1>1, <1>2
<1>4. Len(t) = Len(items)
  BY <1>1, <1>3
<1> HIDE DEF t
<1>5. SumOf(t) \in Int
  BY <1>1, <1>3, <1>4, SumIsInt
<1> QED
  BY <1>5 DEF t, ItemSum

(* The lines come first: their totals and the subtotal are filled in. *)
LinesGood(d) == \A i \in DOMAIN d.items : ~BadItem(d.items[i])
LinesSum(d)  == ItemSum(FilledItems(d.items))
Lined(d)     == [d EXCEPT !.items = FilledItems(d.items)]
Summed(d)    == IF d.items # <<>> /\ d.subtotal = 0 THEN [Lined(d) EXCEPT !.subtotal = LinesSum(d)]
                                                    ELSE Lined(d)
Mismatch(d)  == d.items # <<>> /\ d.subtotal # 0 /\ Gap(d.subtotal, LinesSum(d)) > Rounding

LEMMA LinesChecked ==
  ASSUME NEW d \in InvoiceData
  PROVE  /\ LinesSum(d) \in Int
         /\ Lined(d) \in InvoiceData /\ SameParties(d, Lined(d))
         /\ Lined(d).items = FilledItems(d.items) /\ Lined(d).subtotal = d.subtotal
         /\ (Lined(d).items = <<>>) <=> (d.items = <<>>)
         /\ LinesGood(Lined(d)) <=> LinesGood(d)
         /\ FilledItems(Lined(d).items) = Lined(d).items
         /\ Summed(d) \in InvoiceData /\ SameParties(d, Summed(d))
         /\ Summed(d).items = FilledItems(d.items)
         /\ Summed(d).subtotal = (IF d.items # <<>> /\ d.subtotal = 0 THEN LinesSum(d) ELSE d.subtotal)
         /\ Summed(d).discount = d.discount /\ Summed(d).dpp = d.dpp
         /\ Summed(d).ppn = d.ppn /\ Summed(d).grand = d.grand
<1> DEFINE f == FilledItems(d.items)
<1>1. d.items \in Seq(LineItem) /\ d.subtotal \in Int
  BY DEF InvoiceData
<1>2. /\ f \in Seq(LineItem) /\ DOMAIN f = DOMAIN d.items
      /\ \A i \in DOMAIN d.items : BadItem(f[i]) <=> BadItem(d.items[i])
      /\ FilledItems(f) = f
  BY <1>1, LinesFilled
<1>3. LinesSum(d) \in Int
  BY <1>2, ItemSumInt DEF LinesSum
<1> HIDE DEF f
<1>4. Lined(d) = [d EXCEPT !.items = f]
  BY DEF Lined, f
<1>5. PICK e : e = [d EXCEPT !.items = f]
  OBVIOUS
<1>6. /\ e \in InvoiceData /\ SameParties(d, e) /\ e.items = f /\ e.subtotal = d.subtotal
      /\ e.discount = d.discount /\ e.dpp = d.dpp /\ e.ppn = d.ppn /\ e.grand = d.grand
  BY <1>2, <1>5 DEF SameParties, InvoiceData
<1>7. (f = <<>>) <=> (d.items = <<>>)
  BY <1>1, <1>2
<1>8. LinesGood(e) <=> LinesGood(d)
  BY <1>2, <1>6 DEF LinesGood
<1>9. CASE d.items # <<>> /\ d.subtotal = 0
  <2>1. Summed(d) = [e EXCEPT !.subtotal = LinesSum(d)]
    BY <1>4, <1>5, <1>9 DEF Summed
  <2>2. PICK n \in Int : n = LinesSum(d)
    BY <1>3
  <2>3. PICK s : s = [e EXCEPT !.subtotal = n]
    OBVIOUS
  <2>4. /\ s \in InvoiceData /\ SameParties(e, s) /\ s.items = f /\ s.subtotal = n
        /\ s.discount = d.discount /\ s.dpp = d.dpp /\ s.ppn = d.ppn /\ s.grand = d.grand
    BY <1>6, <2>3 DEF SameParties, InvoiceData
  <2>5. SameParties(d, s)
    BY <1>6, <2>4 DEF SameParties
  <2> QED
    BY <1>2, <1>3, <1>4, <1>5, <1>6, <1>7, <1>8, <1>9, <2>1, <2>2, <2>3, <2>4, <2>5 DEF f
<1>10. CASE ~(d.items # <<>> /\ d.subtotal = 0)
  <2>1. Summed(d) = e
    BY <1>4, <1>5, <1>10 DEF Summed
  <2> QED
    BY <1>2, <1>3, <1>4, <1>5, <1>6, <1>7, <1>8, <1>10, <2>1 DEF f
<1> QED
  BY <1>9, <1>10

LEMMA InvoiceStages ==
  ASSUME NEW d \in InvoiceData
  PROVE  /\ ~HeaderOK(d) => ValidateInvoice(d) = Verdict(FALSE, d)
         /\ HeaderOK(d) /\ (~LinesGood(d) \/ Mismatch(d)) => ValidateInvoice(d) = Verdict(FALSE, Lined(d))
         /\ HeaderOK(d) /\ LinesGood(d) /\ ~Mismatch(d) => ValidateInvoice(d) = CheckDiscount(Summed(d))
<1> DEFINE items == FilledItems(d.items)
<1>0. /\ LinesGood(Lined(d)) <=> LinesGood(d)
      /\ Lined(d).items = items /\ ((items = <<>>) <=> (d.items = <<>>))
  BY LinesChecked
<1>1. ValidateInvoice(d) =
        IF ~HeaderOK(d) THEN Verdict(FALSE, d)
        ELSE IF \E i \in DOMAIN items : BadItem(items[i]) THEN Verdict(FALSE, Lined(d))
        ELSE IF items = <<>> THEN CheckDiscount(Lined(d))
        ELSE IF d.subtotal = 0 THEN CheckDiscount([Lined(d) EXCEPT !.subtotal = LinesSum(d)])
        ELSE IF Gap(d.subtotal, LinesSum(d)) > Rounding THEN Verdict(FALSE, Lined(d))
        ELSE CheckDiscount(Lined(d))
  BY DEF ValidateInvoice, Lined, LinesSum
<1>2. (\E i \in DOMAIN items : BadItem(items[i])) <=> ~LinesGood(d)
  BY <1>0 DEF LinesGood
<1> HIDE DEF items
<1>3. CASE ~HeaderOK(d)
  BY <1>1, <1>3
<1>4. CASE HeaderOK(d) /\ ~LinesGood(d)
  BY <1>1, <1>2, <1>4
<1>5. CASE HeaderOK(d) /\ LinesGood(d)
  BY <1>0, <1>1, <1>2, <1>5 DEF Mismatch, Summed
<1> QED
  BY <1>3, <1>4, <1>5

(* A tax on nothing is none. *)
LEMMA NoBaseNoTax ==
  ASSUME NEW x \in Int, NEW ppn \in Int
  PROVE  /\ PPNRateOK(x, 0)
         /\ x <= 0 /\ PPNRateOK(x, ppn) => ppn = 0
BY DEF PPNRateOK

(* The rules go over the amounts d, come to e, and go over those, in which *)
(* a subtotal of zero is the sum of the lines again, if there are lines.   *)
Again(d, e, n) ==
  /\ d \in InvoiceData /\ e = CheckDiscount(d).data /\ n \in InvoiceData
  /\ n.dpp = e.dpp /\ n.ppn = e.ppn /\ n.grand = e.grand /\ n.discount = e.discount
  /\ n.subtotal = e.subtotal \/ (e.subtotal = 0 /\ (d.subtotal = 0 => n.subtotal = 0))

Passes(d) == ~DiscountBad(d) /\ ~TaxBad(d) /\ Gap(TotalOf(d), BaseOf(d) + d.ppn) <= Rounding /\ TotalOf(d) > 0

LEMMA PassesIsOk ==
  ASSUME NEW d \in InvoiceData
  PROVE  CheckDiscount(d).ok <=> Passes(d)
BY AmountsChecked DEF Passes

LEMMA RefusedAgain ==
  ASSUME NEW d, NEW e, NEW n, Again(d, e, n), ~Passes(d),
         n.subtotal = e.subtotal \/ n.subtotal <= 0
  PROVE  ~Passes(n)
<1>0. /\ d.subtotal \in Int /\ d.discount \in Int /\ d.dpp \in Int /\ d.ppn \in Int /\ d.grand \in Int
      /\ n.subtotal \in Int /\ n.discount \in Int /\ n.dpp \in Int /\ n.ppn \in Int /\ n.grand \in Int
  BY DEF Again, InvoiceData
<1>1. e.discount = d.discount /\ e.ppn = d.ppn /\ (DiscountBad(d) => e = d)
  BY AmountsChecked DEF Again
<1>2. ~DiscountBad(d) =>
        /\ e.dpp = BaseOf(d)
        /\ e.subtotal = IF FromTotal(d) THEN d.grand - d.ppn ELSE d.subtotal
        /\ TaxBad(d) => e.grand = d.grand
        /\ ~TaxBad(d) => e.grand = TotalOf(d)
  BY AmountsChecked DEF Again
<1>3. /\ n.dpp = e.dpp /\ n.ppn = d.ppn /\ n.grand = e.grand /\ n.discount = d.discount
      /\ n.subtotal = e.subtotal \/ (e.subtotal = 0 /\ (d.subtotal = 0 => n.subtotal = 0))
  BY <1>1 DEF Again
<1>4. CASE DiscountBad(d)
  <2>1. n.subtotal = d.subtotal
    BY <1>1, <1>3, <1>4
  <2> QED
    BY <1>3, <1>4, <2>1 DEF DiscountBad, Passes
<1>5. CASE ~DiscountBad(d) /\ BaseOf(d) # 0
  <2>1. BaseOf(n) = BaseOf(d)
    BY <1>2, <1>3, <1>5 DEF BaseOf
  <2>2. CASE TaxBad(d)
    BY <1>3, <2>1, <2>2 DEF TaxBad, Passes
  <2>3. CASE ~TaxBad(d)
    <3>1. n.grand = TotalOf(d) /\ BaseOf(d) \in Int
      BY <1>0, <1>2, <1>3, <1>5, <2>3 DEF BaseOf
    <3>2. TotalOf(n) = TotalOf(d) \/ (TotalOf(d) = 0 /\ TotalOf(n) = BaseOf(d) + d.ppn)
      BY <1>3, <2>1, <3>1 DEF TotalOf
    <3>3. TotalOf(d) = 0 => BaseOf(d) + d.ppn = 0
      BY <1>0, <3>1 DEF TotalOf
    <3> QED
      BY <1>3, <1>5, <2>1, <2>3, <3>1, <3>2, <3>3 DEF Passes
  <2> QED
    BY <2>2, <2>3
<1>6. CASE ~DiscountBad(d) /\ BaseOf(d) = 0
  <2>1. d.dpp = 0 /\ n.dpp = 0
    BY <1>2, <1>3, <1>6 DEF BaseOf
  <2>2. CASE d.subtotal > 0
    <3>1. n.subtotal = d.subtotal /\ BaseOf(n) = 0
      BY <1>0, <1>2, <1>3, <1>6, <2>1, <2>2 DEF BaseOf, FromTotal
    <3>2. CASE TaxBad(d)
      BY <1>3, <1>6, <3>1, <3>2 DEF TaxBad, Passes
    <3>3. CASE ~TaxBad(d)
      <4>1. d.ppn = 0
        BY <1>0, <1>6, <3>3, NoBaseNoTax DEF TaxBad
      <4>2. n.grand = TotalOf(d) /\ TotalOf(d) = d.grand
        BY <1>0, <1>2, <1>3, <1>6, <3>3, <4>1 DEF TotalOf
      <4>3. TotalOf(n) = TotalOf(d)
        BY <1>0, <1>3, <3>1, <4>1, <4>2 DEF TotalOf
      <4> QED
        BY <1>3, <1>6, <3>1, <3>3, <4>3 DEF Passes
    <3> QED
      BY <3>2, <3>3
  <2>3. CASE ~(d.subtotal > 0) /\ d.grand > 0
    <3>1. FromTotal(d) /\ d.grand = d.ppn /\ e.subtotal = 0
      BY <1>0, <1>2, <1>6, <2>1, <2>3 DEF BaseOf, FromTotal
    <3>2. TaxBad(d)
      BY <1>0, <1>6, <2>3, <3>1, NoBaseNoTax DEF TaxBad
    <3>3. n.grand = d.grand /\ n.subtotal <= 0
      BY <1>2, <1>3, <1>6, <2>3, <3>1, <3>2
    <3>4. BaseOf(n) = 0
      BY <1>0, <1>3, <2>1, <2>3, <3>1, <3>3 DEF BaseOf
    <3>5. TaxBad(n)
      BY <1>3, <1>6, <3>2, <3>4 DEF TaxBad
    <3> QED
      BY <3>5 DEF Passes
  <2>4. CASE ~(d.subtotal > 0) /\ ~(d.grand > 0)
    <3>1. n.subtotal <= 0
      BY <1>0, <1>2, <1>3, <1>6, <2>4 DEF FromTotal
    <3>2. CASE TaxBad(d)
      <4>1. BaseOf(n) = 0
        BY <1>0, <1>2, <1>3, <1>6, <2>1, <2>4, <3>1, <3>2 DEF BaseOf
      <4> QED
        BY <1>3, <1>6, <3>2, <4>1 DEF TaxBad, Passes
    <3>3. CASE ~TaxBad(d)
      <4>1. d.ppn = 0
        BY <1>0, <1>6, <3>3, NoBaseNoTax DEF TaxBad
      <4>2. n.grand = TotalOf(d) /\ TotalOf(d) <= 0
        BY <1>0, <1>2, <1>3, <1>6, <2>4, <3>3, <4>1 DEF TotalOf
      <4>3. BaseOf(n) = 0
        BY <1>0, <2>1, <3>1, <4>2 DEF BaseOf
      <4>4. TotalOf(n) <= 0
        BY <1>0, <1>3, <4>1, <4>2, <4>3 DEF TotalOf
      <4>5. TotalOf(n) \in Int
        BY <1>0, <4>3 DEF TotalOf
      <4>6. ~(TotalOf(n) > 0)
        BY <4>4, <4>5
      <4> QED
        BY <4>6 DEF Passes
    <3> QED
      BY <3>2, <3>3
  <2> QED
    BY <2>2, <2>3, <2>4
<1> QED
  BY <1>4, <1>5, <1>6

LEMMA TotalTakenOnce ==
  ASSUME NEW d, NEW e, NEW n, Again(d, e, n), Passes(n)
  PROVE  ~FromTotal(n)
<1> SUFFICES ASSUME FromTotal(n) PROVE FALSE
  OBVIOUS
<1>0. /\ d.subtotal \in Int /\ d.discount \in Int /\ d.dpp \in Int /\ d.ppn \in Int /\ d.grand \in Int
      /\ n.subtotal \in Int /\ n.discount \in Int /\ n.dpp \in Int /\ n.ppn \in Int /\ n.grand \in Int
  BY DEF Again, InvoiceData
<1>1. e.discount = d.discount /\ e.ppn = d.ppn /\ (DiscountBad(d) => e = d)
  BY AmountsChecked DEF Again
<1>2. ~DiscountBad(d) =>
        /\ e.dpp = BaseOf(d)
        /\ e.subtotal = IF FromTotal(d) THEN d.grand - d.ppn ELSE d.subtotal
        /\ TaxBad(d) => e.grand = d.grand
        /\ ~TaxBad(d) => e.grand = TotalOf(d)
  BY AmountsChecked DEF Again
<1>3. /\ n.dpp = e.dpp /\ n.ppn = d.ppn /\ n.grand = e.grand /\ n.discount = d.discount
      /\ n.subtotal = e.subtotal \/ (e.subtotal = 0 /\ (d.subtotal = 0 => n.subtotal = 0))
  BY <1>1 DEF Again
<1>4. /\ n.dpp = 0 /\ ~(n.subtotal > 0) /\ n.grand > 0 /\ BaseOf(n) = n.grand - n.ppn
      /\ ~DiscountBad(n) /\ ~TaxBad(n)
  BY <1>0 DEF FromTotal, BaseOf, Passes
<1>5. n.grand # n.ppn
  BY <1>0, <1>4, NoBaseNoTax DEF TaxBad
<1>6. ~DiscountBad(d)
  <2>1. DiscountBad(d) => n.subtotal = d.subtotal
    BY <1>1, <1>3
  <2> QED
    BY <1>3, <1>4, <2>1 DEF DiscountBad
<1>7. BaseOf(d) = 0 /\ d.dpp = 0
  BY <1>2, <1>3, <1>4, <1>6 DEF BaseOf
<1>8. ~(d.subtotal > 0)
  BY <1>0, <1>2, <1>3, <1>4, <1>6 DEF FromTotal
<1>9. CASE d.grand > 0
  <2>1. d.grand = d.ppn /\ TaxBad(d)
    BY <1>0, <1>7, <1>8, <1>9, NoBaseNoTax DEF BaseOf, TaxBad
  <2> QED
    BY <1>2, <1>3, <1>5, <1>6, <2>1
<1>10. CASE ~(d.grand > 0)
  <2>1. TaxBad(d)
    <3>1. ~TaxBad(d) => d.ppn = 0
      BY <1>0, <1>7, NoBaseNoTax DEF TaxBad
    <3>2. ~TaxBad(d) => n.grand <= 0
      BY <1>0, <1>2, <1>3, <1>6, <1>7, <1>10, <3>1 DEF TotalOf
    <3> QED
      BY <1>0, <1>4, <3>2
  <2> QED
    BY <1>2, <1>3, <1>4, <1>6, <1>10, <2>1
<1> QED
  BY <1>9, <1>10

(* An invoice that the rules refuse as it was read, with a subtotal that   *)
(* is not below zero, they refuse again as they left it; the amounts of    *)
(* one they accept the second time are balanced, and a tax base that was   *)
(* not read is what the subtotal that was read leaves after the discount.  *)
LEMMA InvoiceTwice ==
  ASSUME NEW doc \in InvoiceData, NEW e, e = ValidateInvoice(doc).data
  PROVE  /\ e \in InvoiceData
         /\ ~ValidateInvoice(doc).ok /\ doc.subtotal >= 0 => ~ValidateInvoice(e).ok
         /\ ValidateInvoice(e).ok => Balanced(ValidateInvoice(e).data)
         /\ ValidateInvoice(e).ok /\ doc.dpp = 0 /\ doc.subtotal > 0 =>
              ValidateInvoice(e).data.dpp = doc.subtotal - doc.discount
<1>1. CASE ~HeaderOK(doc)
  <2>1. e = doc /\ ~ValidateInvoice(e).ok
    BY <1>1, InvoiceStages DEF Verdict
  <2> QED
    BY <2>1
<1>2. CASE HeaderOK(doc) /\ (~LinesGood(doc) \/ Mismatch(doc))
  <2>1. e = Lined(doc) /\ e \in InvoiceData
    BY <1>2, InvoiceStages, LinesChecked DEF Verdict
  <2>2. HeaderOK(e)
    BY <1>2, <2>1, LinesChecked, HeaderOfParties
  <2>3. LinesGood(e) <=> LinesGood(doc)
    BY <2>1, LinesChecked
  <2>4. Mismatch(e) <=> Mismatch(doc)
    <3>1. /\ e.items = FilledItems(doc.items) /\ e.subtotal = doc.subtotal
          /\ (e.items = <<>>) <=> (doc.items = <<>>)
          /\ FilledItems(e.items) = e.items
      BY <2>1, LinesChecked
    <3> QED
      BY <3>1 DEF Mismatch, LinesSum
  <2>5. ~ValidateInvoice(e).ok
    BY <1>2, <2>1, <2>2, <2>3, <2>4, InvoiceStages DEF Verdict
  <2> QED
    BY <2>1, <2>5
<1>3. CASE HeaderOK(doc) /\ LinesGood(doc) /\ ~Mismatch(doc)
  <2>1. PICK d : d = Summed(doc)
    OBVIOUS
  <2>2. d \in InvoiceData /\ SameParties(doc, d) /\ ValidateInvoice(doc) = CheckDiscount(d)
    BY <1>3, <2>1, InvoiceStages, LinesChecked
  <2>3. e \in InvoiceData /\ e = CheckDiscount(d).data /\ SameParties(d, e) /\ e.items = d.items
    BY <2>2, AmountsChecked
  <2>4. HeaderOK(e)
    BY <1>3, <2>2, <2>3, HeaderOfParties
  <2>5. /\ d.items = FilledItems(doc.items) /\ FilledItems(d.items) = d.items
        /\ (d.items = <<>>) <=> (doc.items = <<>>)
        /\ d.subtotal = (IF doc.items # <<>> /\ doc.subtotal = 0 THEN LinesSum(doc) ELSE doc.subtotal)
        /\ LinesGood(Lined(doc)) /\ Lined(doc).items = d.items
    BY <1>3, <2>1, LinesChecked
  <2>6. /\ LinesGood(e) /\ FilledItems(e.items) = e.items
        /\ LinesSum(e) = LinesSum(doc) /\ LinesSum(e) = ItemSum(e.items) /\ LinesSum(e) \in Int
    BY <2>3, <2>5, LinesChecked DEF LinesGood, LinesSum
  <2>7. PICK n : n = Summed(e)
    OBVIOUS
  <2>8. /\ n \in InvoiceData /\ n.items = e.items /\ n.discount = e.discount /\ n.dpp = e.dpp
        /\ n.ppn = e.ppn /\ n.grand = e.grand
        /\ n.subtotal = IF e.items # <<>> /\ e.subtotal = 0 THEN LinesSum(e) ELSE e.subtotal
    BY <2>3, <2>6, <2>7, LinesChecked
  <2>9. ValidateInvoice(e).ok <=> ~Mismatch(e) /\ Passes(n)
    <3>1. CASE Mismatch(e)
      BY <2>3, <2>4, <3>1, InvoiceStages DEF Verdict
    <3>2. CASE ~Mismatch(e)
      BY <2>3, <2>4, <2>6, <2>7, <2>8, <3>2, InvoiceStages, PassesIsOk
    <3> QED
      BY <3>1, <3>2
  <2>10. Again(d, e, n)
    BY <2>2, <2>3, <2>5, <2>6, <2>8 DEF Again
  <2>11. ASSUME ~ValidateInvoice(doc).ok, doc.subtotal >= 0
         PROVE  ~ValidateInvoice(e).ok
    <3>1. ~Passes(d)
      BY <2>2, <2>11, PassesIsOk
    <3>2. n.subtotal = e.subtotal \/ n.subtotal <= 0
      <4>1. d.subtotal \in Int /\ e.subtotal \in Int /\ n.subtotal \in Int /\ doc.subtotal \in Int
        BY <2>2, <2>3, <2>8 DEF InvoiceData
      <4>2. e.subtotal = d.subtotal \/ FromTotal(d)
        BY <2>2, <2>3, AmountsChecked
      <4> QED
        BY <2>3, <2>5, <2>6, <2>8, <2>11, <4>1, <4>2 DEF FromTotal
    <3>3. ~Passes(n)
      BY <2>10, <3>1, <3>2, RefusedAgain
    <3> QED
      BY <2>9, <3>3
  <2>12. ASSUME ValidateInvoice(e).ok
         PROVE  Balanced(ValidateInvoice(e).data)
    <3>1. PICK f : f = ValidateInvoice(e).data
      OBVIOUS
    <3>2. ~Mismatch(e) /\ Passes(n)
      BY <2>9, <2>12
    <3>3. f = CheckDiscount(n).data
      BY <2>3, <2>4, <2>6, <2>7, <3>1, <3>2, InvoiceStages
    <3>4. /\ f.items = n.items /\ f.ppn = n.ppn /\ f.dpp = BaseOf(n) /\ f.grand = TotalOf(n)
          /\ f.subtotal = IF FromTotal(n) THEN n.grand - n.ppn ELSE n.subtotal
      BY <2>8, <3>2, <3>3, AmountsChecked DEF Passes
    <3>5. f.subtotal = n.subtotal
      BY <2>10, <3>2, <3>4, TotalTakenOnce
    <3>6. \A i \in DOMAIN f.items : Gap(f.items[i].total, f.items[i].qty * f.items[i].price) <= Rounding
      <4>1. e.items \in Seq(LineItem) /\ f.items = e.items
        BY <2>3, <2>8, <3>4 DEF InvoiceData
      <4> QED
        BY <2>6, <4>1, LinesFilled DEF LinesGood
    <3>7. f.items # <<>> => Gap(f.subtotal, ItemSum(f.items)) <= Rounding
      <4>1. CASE e.subtotal = 0
        <5>1. f.items # <<>> => f.subtotal = ItemSum(f.items)
          BY <2>6, <2>8, <3>4, <3>5, <4>1
        <5>2. ItemSum(f.items) \in Int
          BY <2>6, <2>8, <3>4
        <5> QED
          BY <5>1, <5>2 DEF Gap, Rounding
      <4>2. CASE e.subtotal # 0
        <5>1. f.subtotal = e.subtotal /\ f.items = e.items
          BY <2>8, <3>4, <3>5, <4>2
        <5>2. e.subtotal \in Int /\ Gap(e.subtotal, LinesSum(e)) \in Int
          BY <2>3, <2>6, SMTT(60) DEF InvoiceData, Gap
        <5>3. e.items # <<>> => ~(Gap(e.subtotal, LinesSum(e)) > Rounding)
          BY <3>2, <4>2 DEF Mismatch
        <5> QED
          BY <2>6, <5>1, <5>2, <5>3 DEF Rounding
      <4> QED
        BY <4>1, <4>2
    <3>8. PPNRateOK(f.dpp, f.ppn) /\ f.grand > 0 /\ Gap(f.grand, f.dpp + f.ppn) <= Rounding
      BY <3>2, <3>4 DEF Passes, TaxBad
    <3> QED
      BY <3>1, <3>6, <3>7, <3>8 DEF Balanced
  <2>13. ASSUME ValidateInvoice(e).ok, doc.dpp = 0, doc.subtotal > 0
         PROVE  ValidateInvoice(e).data.dpp = doc.subtotal - doc.discount
    <3>0. doc.subtotal \in Int /\ doc.discount \in Int /\ n.subtotal \in Int /\ n.discount \in Int
      BY <2>8 DEF InvoiceData
    <3>1. ~Mismatch(e) /\ Passes(n)
      BY <2>9, <2>13
    <3>2. ValidateInvoice(e).data.dpp = BaseOf(n)
      BY <2>3, <2>4, <2>6, <2>7, <2>8, <3>1, InvoiceStages, AmountsChecked DEF Passes
    <3>3. d.dpp = 0 /\ d.subtotal = doc.subtotal /\ d.discount = doc.discount
      BY <2>1, <2>5, <2>13, <3>0, LinesChecked
    <3>4. e.discount = d.discount /\ n.discount = doc.discount /\ n.dpp = e.dpp
      BY <2>2, <2>3, <2>8, <3>3, AmountsChecked
    <3>5. ~DiscountBad(d)
      <4>1. DiscountBad(d) => e = d
        BY <2>2, <2>3, AmountsChecked
      <4>2. DiscountBad(d) => n.subtotal = d.subtotal /\ n.discount = d.discount
        BY <2>8, <2>13, <3>0, <3>3, <4>1
      <4> QED
        BY <3>1, <4>2 DEF Passes, DiscountBad
    <3>6. e.dpp = doc.subtotal - doc.discount /\ e.subtotal = doc.subtotal
      BY <2>2, <2>3, <2>13, <3>0, <3>3, <3>5, AmountsChecked DEF BaseOf, FromTotal
    <3>7. n.subtotal = doc.subtotal
      BY <2>8, <2>13, <3>0, <3>6
    <3> QED
      BY <2>13, <3>0, <3>2, <3>4, <3>6, <3>7 DEF BaseOf
  <2> QED
    BY <2>3, <2>11, <2>12, <2>13
<1> QED
  BY <1>1, <1>2, <1>3

-----------------------------------------------------------------------------
(* Doubling tells digits apart, and so does adding a digit, modulo ten. *)
LEMMA DoubledInjective ==
  \A a, b \in 0 .. 9 : /\ Doubled(a) \in 0 .. 9
                       /\ Doubled(a) = Doubled(b) => a = b
BY DEF Doubled

LEMMA DigitsAddUp ==
  ASSUME NEW x \in Nat, NEW y \in Nat, x - y \in -9 .. 9,
         (10 - (x % 10)) % 10 = (10 - (y % 10)) % 10
  PROVE  x = y
<1>1. x % 10 \in 0 .. 9 /\ y % 10 \in 0 .. 9
  OBVIOUS
<1>2. x % 10 = y % 10
  BY <1>1
<1> QED
  BY <1>2

LEMMA EightTerms ==
  ASSUME NEW a \in Nat, NEW b \in Nat, NEW c \in Nat, NEW d \in Nat,
         NEW e \in Nat, NEW f \in Nat, NEW g \in Nat, NEW h \in Nat
  PROVE  a + b + c + d + e + f + g + h \in Nat
OBVIOUS

LEMMA OneTermChanged ==
  ASSUME NEW x \in [1 .. 8 -> Nat], NEW y \in [1 .. 8 -> Nat], NEW i \in 1 .. 8,
         \A j \in 1 .. 8 : j # i => x[j] = y[j]
  PROVE  (x[1] + x[2] + x[3] + x[4] + x[5] + x[6] + x[7] + x[8])
         - (y[1] + y[2] + y[3] + y[4] + y[5] + y[6] + y[7] + y[8]) = x[i] - y[i]
<1>1. /\ x[1] \in Int /\ x[2] \in Int /\ x[3] \in Int /\ x[4] \in Int
      /\ x[5] \in Int /\ x[6] \in Int /\ x[7] \in Int /\ x[8] \in Int
  OBVIOUS
<1>2. /\ y[1] \in Int /\ y[2] \in Int /\ y[3] \in Int /\ y[4] \in Int
      /\ y[5] \in Int /\ y[6] \in Int /\ y[7] \in Int /\ y[8] \in Int
  OBVIOUS
<1>3. /\ i = 1 \/ x[1] = y[1]
      /\ i = 2 \/ x[2] = y[2]
      /\ i = 3 \/ x[3] = y[3]
      /\ i = 4 \/ x[4] = y[4]
      /\ i = 5 \/ x[5] = y[5]
      /\ i = 6 \/ x[6] = y[6]
      /\ i = 7 \/ x[7] = y[7]
      /\ i = 8 \/ x[8] = y[8]
  OBVIOUS
<1>4. i \in {1, 2, 3, 4, 5, 6, 7, 8}
  OBVIOUS
<1> QED
  BY <1>1, <1>2, <1>3, <1>4, SMTT(60)

(* Two numbers that differ in one of the summed digits have different sums. *)
LEMMA SumsDiffer ==
  ASSUME NEW n, NEW m, NEW i \in 1 .. 8,
         \A j \in 1 .. 8 : n[j] \in 0 .. 9 /\ m[j] \in 0 .. 9 /\ (j # i => n[j] = m[j]),
         n[i] # m[i]
  PROVE  /\ LuhnSum(n) \in Nat /\ LuhnSum(m) \in Nat
         /\ LuhnSum(n) # LuhnSum(m) /\ LuhnSum(n) - LuhnSum(m) \in -9 .. 9
<1> DEFINE D(s) == [j \in 1 .. 8 |-> IF j \in {2, 4, 6, 8} THEN Doubled(s[j]) ELSE s[j]]
<1>1. /\ LuhnSum(n) = D(n)[1] + D(n)[2] + D(n)[3] + D(n)[4] + D(n)[5] + D(n)[6] + D(n)[7] + D(n)[8]
      /\ LuhnSum(m) = D(m)[1] + D(m)[2] + D(m)[3] + D(m)[4] + D(m)[5] + D(m)[6] + D(m)[7] + D(m)[8]
  BY DEF LuhnSum
<1>2. \A j \in 1 .. 8 : /\ D(n)[j] \in 0 .. 9 /\ D(m)[j] \in 0 .. 9
                        /\ j # i => D(n)[j] = D(m)[j]
                        /\ D(n)[i] # D(m)[i]
  BY DoubledInjective
<1> HIDE DEF D
<1>3. LuhnSum(n) \in Nat /\ LuhnSum(m) \in Nat
  <2>1. \A j \in 1 .. 8 : D(n)[j] \in Nat /\ D(m)[j] \in Nat
    BY <1>2
  <2> QED
    BY <1>1, <2>1, EightTerms
<1>4. LuhnSum(n) - LuhnSum(m) = D(n)[i] - D(m)[i]
  <2>1. D(n) \in [1 .. 8 -> Nat] /\ D(m) \in [1 .. 8 -> Nat]
    <3>1. \A j \in 1 .. 8 : D(n)[j] \in Nat /\ D(m)[j] \in Nat
      BY <1>2
    <3> QED
      BY <3>1 DEF D
  <2>2. \A j \in 1 .. 8 : j # i => D(n)[j] = D(m)[j]
    BY <1>2
  <2>3. (D(n)[1] + D(n)[2] + D(n)[3] + D(n)[4] + D(n)[5] + D(n)[6] + D(n)[7] + D(n)[8])
        - (D(m)[1] + D(m)[2] + D(m)[3] + D(m)[4] + D(m)[5] + D(m)[6] + D(m)[7] + D(m)[8])
        = D(n)[i] - D(m)[i]
    BY <2>1, <2>2, OneTermChanged, Zenon
  <2> QED
    BY <1>1, <2>3, Zenon
<1> QED
  BY <1>2, <1>3, <1>4

(* The number of a tax payer with any one of its first nine digits         *)
(* misread, as whatever other digit, is not a valid number.                *)
THEOREM MisreadNPWPRefused ==
  ASSUME NEW n \in Seq(0 .. 9), ValidNPWP15(n),
         NEW i \in 1 .. 9, NEW d \in 0 .. 9, d # n[i]
  PROVE  ~ValidNPWP15([n EXCEPT ![i] = d])
<1> SUFFICES ASSUME NEW m, m = [n EXCEPT ![i] = d], ValidNPWP15(m)
             PROVE  FALSE
  OBVIOUS
<1>1. Len(n) = 15
  BY DEF ValidNPWP15
<1>2. \A j \in 1 .. 9 : /\ n[j] \in 0 .. 9
                        /\ m[j] = (IF j = i THEN d ELSE n[j])
  BY <1>1, SMTT(60)
<1>3. n[9] = NPWPCheckDigit(n) /\ m[9] = NPWPCheckDigit(m)
  BY DEF ValidNPWP15
<1>4. CASE i = 9
  <2>1. LuhnSum(m) = LuhnSum(n)
    BY <1>2, <1>4 DEF LuhnSum
  <2> QED
    BY <1>2, <1>3, <1>4, <2>1 DEF NPWPCheckDigit
<1>5. CASE i # 9
  <2>1. i \in 1 .. 8
    BY <1>5
  <2>2. /\ LuhnSum(n) \in Nat /\ LuhnSum(m) \in Nat
        /\ LuhnSum(n) # LuhnSum(m) /\ LuhnSum(n) - LuhnSum(m) \in -9 .. 9
    <3>1. \A j \in 1 .. 8 : n[j] \in 0 .. 9 /\ m[j] \in 0 .. 9 /\ (j # i => n[j] = m[j])
      BY <1>2, <2>1, SMTT(60)
    <3>2. n[i] # m[i]
      BY <1>2
    <3> QED
      BY <2>1, <3>1, <3>2, SumsDiffer
  <2>3. NPWPCheckDigit(n) = NPWPCheckDigit(m)
    BY <1>2, <1>3, <1>5
  <2> QED
    BY <2>2, <2>3, DigitsAddUp DEF NPWPCheckDigit
<1> QED
  BY <1>4, <1>5

(* A year of birth in an MRZ is one of the hundred years up to this one,   *)
(* and ends in the two digits that were read.                              *)
THEOREM BirthYearInCentury ==
  ASSUME NEW yy \in 0 .. 99
  PROVE  BirthYear(yy) \in Today.y - 99 .. Today.y /\ BirthYear(yy) % 100 = yy
<1> DEFINE q == Today.y \div 100
           r == Today.y % 100
<1>1. q \in Nat /\ r \in 0 .. 99 /\ Today.y = 100 * q + r /\ q >= 20
  BY TodayAssumption DEF Date
<1>2. Century = 100 * q
  BY <1>1 DEF Century
<1>3. BirthYear(yy) = (IF yy > r THEN 100 * (q - 1) + yy ELSE 100 * q + yy)
  BY <1>1, <1>2 DEF BirthYear
<1> HIDE DEF q, r
<1>4. BirthYear(yy) \in Today.y - 99 .. Today.y
  BY <1>1, <1>3
<1>5. \A k \in Nat : (100 * k + yy) % 100 = yy
  OBVIOUS
<1> QED
  BY <1>1, <1>3, <1>4, <1>5

-----------------------------------------------------------------------------
(* What the answer to a request says of the document read for it. *)

(* What an answered request knows of itself: the engine extracted what one *)
(* of the readings for its type says, and the handler normalised that.     *)
RequestInv ==
  /\ "pc" \in DOMAIN req
  /\ req.pc \in {"extracted", "normalized"} =>
       /\ req.reading \in Readings /\ req.reading.type = req.type
       /\ req.given \in Int
       /\ req.res = Extracted(req.type, req.reading.doc, req.given)
  /\ req.pc = "normalized" => req.out = Normalized(req.type, req.res)

LEMMA ReadingsTyped ==
  /\ ProviderConfs \subseteq Int
  /\ \A x \in Readings : x.type \in Types /\ x.doc \in Documents(x.type)
BY ReadingAssumption, Zenon

LEMMA RequestInvStep ==
  ASSUME RequestInv, [PipelineNext]_pipelineVars
  PROVE  RequestInv'
<1>1. ASSUME NEW at \in {"allowed", "uploaded", "valid"}, Goto(at)
      PROVE  RequestInv'
  BY <1>1 DEF RequestInv, Goto
<1>2. ASSUME NEW status \in Int, Fail(status)
      PROVE  RequestInv'
  BY <1>2 DEF RequestInv, Fail, Idle
<1>3. CASE Arrive
  <2>1. CASE Fail(401)
    BY <1>2, <2>1
  <2>2. CASE \E org \in Orgs \cup {NoOrg}, type \in Types :
               req' = [Idle EXCEPT !.pc = "keyed", !.org = org, !.type = type]
    BY <2>2 DEF RequestInv, Idle
  <2> QED
    BY <1>3, <2>1, <2>2 DEF Arrive
<1>4. CASE CheckQuota
  BY <1>1, <1>2, <1>4 DEF CheckQuota
<1>5. CASE Upload \/ CheckImage
  BY <1>1, <1>2, <1>5 DEF Upload, CheckImage
<1>6. CASE EngineFails \/ WrongType
  <2>1. \A type, err : ErrorStatus(type, err) \in Int
    BY DEF ErrorStatus
  <2> QED
    BY <1>2, <1>6, <2>1 DEF EngineFails, WrongType
<1>7. CASE Extract
  <2>1. PICK reading \in Readings, c \in {0} \cup ProviderConfs :
          /\ reading.type = req.type
          /\ req' = [pc |-> "extracted", org |-> req.org, type |-> req.type, status |-> 0,
                     reading |-> reading, given |-> c,
                     res |-> Extracted(req.type, reading.doc, c)]
    BY <1>7 DEF Extract
  <2>2. c \in Int
    BY ReadingsTyped
  <2> QED
    BY <2>1, <2>2 DEF RequestInv
<1>8. CASE Normalize
  <2>1. /\ req.pc = "extracted"
        /\ req' = [pc |-> "normalized", org |-> req.org, type |-> req.type, status |-> 0,
                   reading |-> req.reading, given |-> req.given, res |-> req.res,
                   out |-> Normalized(req.type, req.res)]
    BY <1>8 DEF Normalize
  <2> QED
    BY <2>1 DEF RequestInv
<1>9. CASE Save
  BY <1>9 DEF Save, RequestInv, Idle
<1>10. CASE UNCHANGED req
  BY <1>10 DEF RequestInv
<1> QED
  BY <1>3, <1>4, <1>5, <1>6, <1>7, <1>8, <1>9, <1>10 DEF PipelineNext, pipelineVars

LEMMA RequestInvariant == PipelineSpec => []RequestInv
<1>1. PipelineInit => RequestInv
  BY DEF PipelineInit, RequestInv, Idle
<1> QED
  BY <1>1, RequestInvStep, PTL DEF PipelineSpec

(* The request is normalised, and the document it was read from. *)
Finished(doc) ==
  /\ Done /\ RequestInv /\ doc = req.reading.doc /\ doc \in Documents(req.type) /\ req.type \in Types

LEMMA ReadingOfRequest ==
  ASSUME RequestInv, Done
  PROVE  Finished(req.reading.doc)
<1>1. req.reading \in Readings /\ req.reading.type = req.type
  BY DEF RequestInv, Done
<1> QED
  BY <1>1, ReadingsTyped DEF Finished

(* A document the rules score is normalised and scored twice alike. *)
LEMMA ScoredTwice ==
  ASSUME NEW doc, Finished(doc), req.type \in Scored
  PROVE  /\ req.type = "ktp" =>
              Answer = NormalKTP(doc) /\ Conf = KTPScore(Answer) /\ req.res.conf = Conf
         /\ req.type = "sim" =>
              Answer = NormalSIM(doc) /\ Conf = SIMScore(Answer) /\ req.res.conf = Conf
         /\ req.type = "passport" =>
              /\ Answer = NormalPassport(doc) /\ Conf = PassportScore(Answer, Named(doc))
              /\ req.res.conf = Conf
<1>1. req.res = [data |-> Score(req.type, doc).data, conf |-> Score(req.type, doc).score]
  BY DEF Finished, Done, RequestInv, Extracted
<1>2. req.out = [data |-> Score(req.type, req.res.data).data, conf |-> Score(req.type, req.res.data).score]
  BY DEF Finished, Done, RequestInv, Normalized
<1>3. CASE req.type = "ktp"
  <2>1. doc \in KTPData /\ \A d : Score(req.type, d) = [data |-> NormalKTP(d), score |-> KTPScore(NormalKTP(d))]
    BY <1>3 DEF Finished, Documents, Score, ValidateKTP
  <2>2. NormalKTP(NormalKTP(doc)) = NormalKTP(doc)
    BY <2>1, KTPOnce
  <2> QED
    BY <1>1, <1>2, <1>3, <2>1, <2>2 DEF Answer, Conf
<1>4. CASE req.type = "sim"
  <2>1. doc \in SIMData /\ \A d : Score(req.type, d) = [data |-> NormalSIM(d), score |-> SIMScore(NormalSIM(d))]
    BY <1>4 DEF Finished, Documents, Score, ValidateSIM
  <2>2. NormalSIM(NormalSIM(doc)) = NormalSIM(doc)
    BY <2>1, SIMOnce
  <2> QED
    BY <1>1, <1>2, <1>4, <2>1, <2>2 DEF Answer, Conf
<1>5. CASE req.type = "passport"
  <2>1. /\ doc \in PassportData
        /\ \A d : Score(req.type, d) =
                    [data |-> NormalPassport(d), score |-> PassportScore(NormalPassport(d), Named(d))]
    BY <1>5 DEF Finished, Documents, Score, ValidatePassport
  <2>2. NormalPassport(NormalPassport(doc)) = NormalPassport(doc) /\ Named(NormalPassport(doc)) = Named(doc)
    BY <2>1, PassportOnce
  <2> QED
    BY <1>1, <1>2, <1>5, <2>1, <2>2 DEF Answer, Conf
<1> QED
  BY <1>3, <1>4, <1>5

(* Another one keeps a confidence above 50 only if the rules accept what   *)
(* the engine left in its fields.                                          *)
LEMMA AcceptedOrCapped ==
  ASSUME NEW doc, Finished(doc), req.type \notin Scored
  PROVE  /\ Answer = Tidied(req.type, req.res.data)
         /\ ~Accepts(req.type, req.res.data) => Conf <= 50 /\ ~(Conf > 50)
         /\ req.type = "npwp" => req.res.data = [Tidied(req.type, doc) EXCEPT !.nik = Clean(@)]
         /\ req.type # "npwp" => req.res.data = Tidied(req.type, doc)
<1>1. req.res = Extracted(req.type, doc, req.given) /\ req.given \in Int
  BY DEF Finished, Done, RequestInv
<1>2. /\ req.out.data = Tidied(req.type, req.res.data)
      /\ req.out.conf = Capped(req.type, req.res.data, req.res.conf)
  BY DEF Finished, Done, RequestInv, Normalized
<1>3. Given(req.given) \in Int
  BY <1>1 DEF Given
<1>4. (7 * Given(req.given)) \div 10 \in Int
  BY <1>3
<1>5. req.res.conf \in Int
  <2>1. \A b \in BOOLEAN : (IF b THEN Given(req.given) ELSE (7 * Given(req.given)) \div 10) \in Int
    BY <1>3, <1>4
  <2> QED
    BY <1>1, <1>3, <1>4 DEF Extracted
<1>6. ~Accepts(req.type, req.res.data) => req.out.conf <= 50 /\ ~(req.out.conf > 50)
  BY <1>2, <1>5 DEF Capped
<1> QED
  BY <1>1, <1>2, <1>6 DEF Extracted, Answer, Conf

LEMMA NumberCleanedTwice ==
  ASSUME NEW s \in Text
  PROVE  ValidNPWP(Clean(s)) = ValidNPWP(s) /\ ValidNomorKK(Clean(s)) = ValidNomorKK(s)
BY CleanTwice DEF ValidNPWP, ValidNomorKK

(* A confidence above the level an answer can reach without it means that *)
(* the parts of the answered document agree, for every document.          *)
THEOREM HighConfidenceMeansSound == PipelineSpec => []HighConfidenceIsSound
<1>1. ASSUME RequestInv
      PROVE  HighConfidenceIsSound
  <2> SUFFICES ASSUME NEW doc, Finished(doc) PROVE HighConfidenceIsSound
    BY <1>1, ReadingOfRequest DEF HighConfidenceIsSound
  <2>0. doc \in Documents(req.type)
    BY DEF Finished
  <2>1. CASE req.type = "ktp"
    <3>1. Conf = KTPScore(Answer)
      BY <2>1, ScoredTwice DEF Scored
    <3>2. Conf > 75 => ValidNIK(Answer.nik) /\ KTPAgrees(Answer)
      BY <3>1, KTPSound
    <3> QED
      BY <2>1, <3>2 DEF HighConfidenceIsSound, KTPAgrees
  <2>2. CASE req.type = "sim"
    <3>1. Conf = SIMScore(Answer) /\ Answer = NormalSIM(doc) /\ doc \in SIMData
      BY <2>0, <2>2, ScoredTwice DEF Scored, Documents
    <3>2. Conf > 85 => ValidSIMNumber(Answer.number) /\ Driver(Answer.birth) /\ Answer.class \in SIMClasses
      BY <3>1, SIMSound
    <3>3. ValidSIMNumber(Answer.number) => Answer.number.chars = "digits"
      BY <3>1, SIMOnce
    <3> QED
      BY <2>2, <3>2, <3>3 DEF HighConfidenceIsSound
  <2>3. CASE req.type = "passport"
    <3>1. Conf = PassportScore(Answer, Named(doc))
      BY <2>3, ScoredTwice DEF Scored
    <3>2. Conf > 95 => HasTD3(Answer) /\ ValidMRZ(Answer.mrz.line) /\ Contradictions(Answer) = 0
      BY <3>1, PassportSound
    <3> QED
      BY <2>3, <3>2 DEF HighConfidenceIsSound
  <2>4. CASE req.type = "npwp"
    <3>1. /\ Answer = Tidied(req.type, req.res.data)
          /\ ~Accepts(req.type, req.res.data) => ~(Conf > 50)
          /\ req.res.data = [Tidied(req.type, doc) EXCEPT !.nik = Clean(@)]
      BY <2>4, AcceptedOrCapped DEF Scored
    <3>2. doc \in NPWPData /\ doc.npwp \in Text
      BY <2>0, <2>4 DEF Documents, NPWPData
    <3>3. req.res.data.npwp = Clean(doc.npwp) /\ "npwp" \in DOMAIN req.res.data
      BY <2>4, <3>1, <3>2 DEF Tidied, NPWPData
    <3>4. Answer.npwp = Clean(req.res.data.npwp)
      BY <2>4, <3>1, <3>3 DEF Tidied
    <3>5. ValidNPWP(Answer.npwp) = ValidNPWP(req.res.data.npwp)
      BY <3>2, <3>3, <3>4, CleanTwice, NumberCleanedTwice
    <3>6. Accepts(req.type, req.res.data) => ValidNPWP(req.res.data.npwp)
      BY <2>4 DEF Accepts, ValidateNPWPData
    <3> QED
      BY <2>4, <3>1, <3>5, <3>6 DEF HighConfidenceIsSound
  <2>5. CASE req.type = "kk"
    <3>1. /\ Answer = Tidied(req.type, req.res.data)
          /\ ~Accepts(req.type, req.res.data) => ~(Conf > 50)
          /\ req.res.data = Tidied(req.type, doc)
      BY <2>5, AcceptedOrCapped DEF Scored
    <3>2. Answer.members = req.res.data.members
      <4>1. \A d : Tidied(req.type, d) = [d EXCEPT !.nomor = Clean(@)]
        BY <2>5 DEF Tidied
      <4>2. doc \in KKData
        BY <2>0, <2>5 DEF Documents
      <4>3. req.res.data = [doc EXCEPT !.nomor = Clean(doc.nomor)]
        BY <3>1, <4>1
      <4>4. "members" \in DOMAIN doc
        BY <4>2, SMTT(60) DEF KKData
      <4>5. "members" \in DOMAIN req.res.data
        BY <4>3, <4>4, SMTT(60)
      <4>6. Answer = [req.res.data EXCEPT !.nomor = Clean(req.res.data.nomor)]
        BY <3>1, <4>1, SMTT(60)
      <4> QED
        BY <4>5, <4>6
    <3>3. Accepts(req.type, req.res.data) =>
            /\ Cardinality(Heads(Answer)) = 1
            /\ \A i \in DOMAIN Answer.members : ValidNIK(Answer.members[i].nik)
      BY <2>5, <3>2 DEF Accepts, ValidateKK, Heads
    <3> QED
      BY <2>5, <3>1, <3>3 DEF HighConfidenceIsSound
  <2>6. CASE req.type = "invoice"
    <3>1. /\ Answer = Tidied(req.type, req.res.data)
          /\ ~Accepts(req.type, req.res.data) => ~(Conf > 50)
          /\ req.res.data = Tidied(req.type, doc)
      BY <2>6, AcceptedOrCapped DEF Scored
    <3>2. /\ doc \in InvoiceData /\ req.res.data = ValidateInvoice(doc).data
          /\ Answer = ValidateInvoice(req.res.data).data
      BY <2>0, <2>6, <3>1 DEF Documents, Tidied
    <3>3. Accepts(req.type, req.res.data) =>
            /\ Balanced(Answer)
            /\ (doc.dpp = 0 /\ doc.subtotal > 0) => Answer.dpp = doc.subtotal - doc.discount
      BY <2>6, <3>2, InvoiceTwice DEF Accepts
    <3>4. Read = doc
      BY DEF Finished, Read
    <3>5. Conf > 50 =>
            /\ Balanced(Answer)
            /\ (Read.dpp = 0 /\ Read.subtotal > 0) => Answer.dpp = Read.subtotal - Read.discount
      BY <3>1, <3>3, <3>4
    <3> QED
      BY <2>6, <3>5 DEF HighConfidenceIsSound
  <2> QED
    BY <2>1, <2>2, <2>3, <2>4, <2>5, <2>6 DEF Finished, Types
<1> QED
  BY <1>1, RequestInvariant, PTL

(* The second validation of the handler agrees with the first one of the *)
(* engine, for every document.                                           *)
THEOREM ValidatedTwiceAlike == PipelineSpec => []SecondPassAgrees
<1>1. ASSUME RequestInv
      PROVE  SecondPassAgrees
  <2> SUFFICES ASSUME NEW doc, Finished(doc), doc = Read PROVE SecondPassAgrees
    BY <1>1, ReadingOfRequest DEF SecondPassAgrees, Read
  <2>0. doc \in Documents(req.type)
    BY DEF Finished
  <2>1. CASE req.type \in Scored
    BY <2>1, ScoredTwice DEF SecondPassAgrees, Scored
  <2>2. CASE req.type = "npwp"
    <3>1. /\ ~Accepts(req.type, req.res.data) => Conf <= 50
          /\ req.res.data = [Tidied(req.type, doc) EXCEPT !.nik = Clean(@)]
      BY <2>2, AcceptedOrCapped DEF Scored
    <3>2. doc \in NPWPData /\ doc.npwp \in Text /\ doc.nik \in Text
      BY <2>0, <2>2 DEF Documents, NPWPData
    <3>3. /\ req.res.data.npwp = Clean(doc.npwp) /\ req.res.data.nik = Clean(doc.nik)
          /\ req.res.data.has = doc.has /\ req.res.data.registered = doc.registered
      BY <2>2, <3>1, <3>2 DEF Tidied, NPWPData
    <3>4. ValidNPWP(req.res.data.npwp) = ValidNPWP(doc.npwp) /\ Clean(req.res.data.nik) = Clean(doc.nik)
      BY <3>2, <3>3, CleanTwice, NumberCleanedTwice
    <3>5. ~Accepts(req.type, doc) /\ ~Excused(req.type, doc) => ~Accepts(req.type, req.res.data)
      BY <2>2, <3>3, <3>4 DEF Accepts, ValidateNPWPData, Excused
    <3> QED
      BY <2>2, <3>1, <3>5 DEF SecondPassAgrees, Scored
  <2>3. CASE req.type = "kk"
    <3>1. /\ ~Accepts(req.type, req.res.data) => Conf <= 50
          /\ req.res.data = Tidied(req.type, doc)
      BY <2>3, AcceptedOrCapped DEF Scored
    <3>2. doc \in KKData /\ doc.nomor \in Text
      BY <2>0, <2>3 DEF Documents, KKData
    <3>3. /\ req.res.data.nomor = Clean(doc.nomor) /\ req.res.data.head = doc.head
          /\ req.res.data.alamat = doc.alamat /\ req.res.data.members = doc.members
      BY <2>3, <3>1, <3>2 DEF Tidied, KKData
    <3>4. ValidNomorKK(req.res.data.nomor) = ValidNomorKK(doc.nomor)
      BY <3>2, <3>3, NumberCleanedTwice
    <3>5. ~Accepts(req.type, doc) => ~Accepts(req.type, req.res.data)
      BY <2>3, <3>3, <3>4, ZenonT(60) DEF Accepts, ValidateKK, Heads
    <3> QED
      BY <2>3, <3>1, <3>5 DEF SecondPassAgrees, Scored
  <2>4. CASE req.type = "invoice"
    <3>1. /\ ~Accepts(req.type, req.res.data) => Conf <= 50
          /\ req.res.data = Tidied(req.type, doc)
      BY <2>4, AcceptedOrCapped DEF Scored
    <3>2. doc \in InvoiceData /\ req.res.data = ValidateInvoice(doc).data
      BY <2>0, <2>4, <3>1 DEF Documents, Tidied
    <3>3. doc.subtotal < 0 \/ doc.subtotal >= 0
      BY <3>2 DEF InvoiceData
    <3>4. ~Accepts(req.type, doc) /\ ~Excused(req.type, doc) => ~Accepts(req.type, req.res.data)
      BY <2>4, <3>2, <3>3, InvoiceTwice DEF Accepts, Excused
    <3> QED
      BY <2>4, <3>1, <3>4 DEF SecondPassAgrees, Scored
  <2> QED
    BY <2>1, <2>2, <2>3, <2>4 DEF Finished, Types, Scored
<1> QED
  BY <1>1, RequestInvariant, PTL

(* One character read as another is that one read as the first. *)
ReadAs(S, m, i, c, n) ==
  m \in Seq(S) /\ i \in 1 .. Len(m) /\ c \in S /\ n = [m EXCEPT ![i] = c]

LEMMA ReadBack ==
  ASSUME NEW S, NEW m, NEW i, NEW c, NEW n, ReadAs(S, m, i, c, n)
  PROVE  Len(n) = Len(m) /\ n[i] = c /\ ReadAs(S, n, i, m[i], m)
<1> USE DEF ReadAs
<1>1. n \in Seq(S) /\ Len(n) = Len(m) /\ \A j \in 1 .. Len(m) : n[j] = IF j = i THEN c ELSE m[j]
  BY ExceptSeq
<1>2. m[i] \in S
  BY ElementOfSeq
<1>3. PICK b : b = [n EXCEPT ![i] = m[i]]
  OBVIOUS
<1>4. b \in Seq(S) /\ Len(b) = Len(n) /\ \A j \in 1 .. Len(n) : b[j] = IF j = i THEN m[i] ELSE n[j]
  BY <1>1, <1>2, <1>3, ExceptSeq
<1>5. Len(b) = Len(m) /\ \A j \in 1 .. Len(b) : b[j] = m[j]
  BY <1>1, <1>4
<1>6. b = m
  BY <1>4, <1>5, SeqEqual
<1> QED
  BY <1>1, <1>2, <1>3, <1>6

(* One misread character a check digit tells apart never goes unnoticed, *)
(* whatever the number and wherever it is.                               *)
THEOREM MisreadNoticed == PipelineSpec => []MisreadCaught
<1>1. ASSUME RequestInv
      PROVE  MisreadCaught
  <2> SUFFICES ASSUME NEW doc, Finished(doc), doc = Read, req.reading.how = "misread"
               PROVE  MisreadCaught
    BY <1>1, ReadingOfRequest DEF MisreadCaught, Read
  <2>0. doc \in Documents(req.type) /\ doc = req.reading.doc
        /\ req.reading \in Readings /\ req.reading.type = req.type
    BY <1>1 DEF Finished, RequestInv, Done
  <2> DEFINE DigitWrong(m) == \E i \in 1 .. 9, d \in 0 .. 9 :
                                d # m[i] /\ ValidNPWP15([m EXCEPT ![i] = d])
             CharWrong(m) == \E i \in (1 .. 10) \cup (14 .. 20) \cup (22 .. 44), c \in 0 .. Other :
                               /\ CharValue(c) % 10 # CharValue(m[i]) % 10
                               /\ ValidMRZ([m EXCEPT ![i] = c])
  <2>1. \/ req.type = "npwp" /\ doc.npwp \in Seq(0 .. 9) /\ DigitWrong(doc.npwp)
        \/ req.type = "passport" /\ doc.mrz # NoMRZ /\ Len(doc.mrz.line) = 44 /\ CharWrong(doc.mrz.line)
    BY <2>0, ReadingAssumption, ZenonT(60)
  <2> HIDE DEF DigitWrong, CharWrong
  <2>2. CASE req.type = "npwp"
    <3>0. PICK m : m = doc.npwp /\ m \in Seq(0 .. 9) /\ DigitWrong(m)
      BY <2>1, <2>2
    <3>1. PICK i \in 1 .. 9, d \in 0 .. 9 : d # m[i] /\ ValidNPWP15([m EXCEPT ![i] = d])
      BY <3>0, Zenon DEF DigitWrong
    <3>2. PICK n : n = [m EXCEPT ![i] = d]
      OBVIOUS
    <3>3. n \in Seq(0 .. 9) /\ Len(n) = 15 /\ Len(m) = 15 /\ n[i] = d
          /\ m[i] \in 0 .. 9 /\ m = [n EXCEPT ![i] = m[i]]
      <4>1. Len(n) = 15
        BY <3>1, <3>2 DEF ValidNPWP15
      <4>2. Len(m) = 15
        BY <3>0, <3>2, <4>1
      <4>3. ReadAs(0 .. 9, m, i, d, n)
        <5>1. i \in 1 .. Len(m)
          BY <4>2
        <5> QED
          BY <3>0, <3>2, <5>1 DEF ReadAs
      <4>4. n[i] = d /\ ReadAs(0 .. 9, n, i, m[i], m)
        BY <4>3, ReadBack
      <4> QED
        BY <4>1, <4>2, <4>4 DEF ReadAs
    <3>4. ~ValidNPWP15(m)
      <4>1. ValidNPWP15(n) /\ m[i] # n[i]
        BY <3>1, <3>2, <3>3, SMTT(60)
      <4>2. ~ValidNPWP15([n EXCEPT ![i] = m[i]])
        BY <3>3, <4>1, MisreadNPWPRefused
      <4> QED
        BY <3>3, <4>2
    <3>5. Clean(m) = m
      BY <3>0, CleanOfDigits
    <3>6. ~ValidNPWP(m)
      <4>1. Len(m) # 16
        BY <3>3
      <4>2. ~ValidNPWP16(m)
        BY <4>1, Zenon DEF ValidNPWP16
      <4> QED
        BY <3>4, <3>5, <4>2, Zenon DEF ValidNPWP
    <3>7. /\ ~Accepts(req.type, req.res.data) => Conf <= 50
          /\ req.res.data = [Tidied(req.type, doc) EXCEPT !.nik = Clean(@)]
      BY <2>2, AcceptedOrCapped DEF Scored
    <3>8. doc \in NPWPData
      BY <2>0, <2>2 DEF Documents
    <3>9. req.res.data.npwp = m
      BY <2>2, <3>0, <3>5, <3>7, <3>8 DEF Tidied, NPWPData
    <3>10. Conf <= 50
      BY <2>2, <3>6, <3>7, <3>9 DEF Accepts, ValidateNPWPData
    <3> QED
      BY <2>2, <3>10 DEF MisreadCaught
  <2>3. CASE req.type = "passport"
    <3>0. PICK m : m = doc.mrz.line /\ doc.mrz # NoMRZ /\ Len(m) = 44 /\ CharWrong(m)
      BY <2>1, <2>3
    <3>1. PICK i \in (1 .. 10) \cup (14 .. 20) \cup (22 .. 44), c \in 0 .. Other :
            CharValue(c) % 10 # CharValue(m[i]) % 10 /\ ValidMRZ([m EXCEPT ![i] = c])
      BY <3>0, Zenon DEF CharWrong
    <3>2. doc \in PassportData /\ m \in Text
      BY <2>0, <2>3, <3>0 DEF Documents, PassportData
    <3>3. PICK n : n = [m EXCEPT ![i] = c]
      OBVIOUS
    <3>4. n \in MRZLine /\ n[i] = c /\ m[i] \in 0 .. Other /\ m = [n EXCEPT ![i] = m[i]]
      <4>1. Len(m) = 44 /\ ReadAs(0 .. Other, m, i, c, n)
        BY <3>0, <3>2, <3>3 DEF Text, ReadAs
      <4> HIDE DEF Other
      <4>2. Len(n) = Len(m) /\ n[i] = c /\ ReadAs(0 .. Other, n, i, m[i], m)
        BY <4>1, ReadBack
      <4> QED
        BY <4>1, <4>2 DEF MRZLine, Text, ReadAs
    <3>5. ~ValidMRZ(m)
      <4>1. ValidMRZ(n) /\ CharValue(m[i]) % 10 # CharValue(n[i]) % 10
        BY <3>1, <3>3, <3>4
      <4>2. ~ValidMRZ([n EXCEPT ![i] = m[i]])
        BY <3>4, <4>1, MisreadMRZRefused
      <4> QED
        BY <3>4, <4>2
    <3>6. Answer = NormalPassport(doc) /\ Conf = PassportScore(Answer, Named(doc))
      BY <2>3, ScoredTwice DEF Scored
    <3>7. Answer.mrz = doc.mrz
      BY <3>2, <3>6 DEF NormalPassport, PassportData
    <3>8. Conf <= 85
      BY <3>0, <3>5, <3>6, <3>7, PassportSound
    <3> QED
      BY <2>3, <3>8 DEF MisreadCaught
  <2> QED
    BY <2>1, <2>2, <2>3
<1> QED
  BY <1>1, RequestInvariant, PTL
-----------------------------------------------------------------------------
(* Genuine documents are accepted.                                           *)

LEMMA NIKIsValid ==
  ASSUME NEW nik, NEW birth, NEW woman \in BOOLEAN, OnCalendar(birth), IssuedNIK(nik, birth, woman)
  PROVE  ValidNIK(nik) /\ (Female(nik) <=> woman) /\ NIKDay(nik) = birth.d
<1>1. birth.m \in 1 .. 12 /\ birth.d \in 1 .. MonthDays(birth.m, Leap(birth.y))
  BY DEF OnCalendar
<1>2. birth.d \in 1 .. MonthDays(birth.m, TRUE) /\ birth.d \in 1 .. 31
  BY <1>1 DEF MonthDays
<1>3. /\ Len(nik) = 16 /\ Digits(nik) /\ Region(nik) /\ Serial(nik)
      /\ Two(nik, 7) = birth.d + (IF woman THEN 40 ELSE 0) /\ Two(nik, 9) = birth.m
  BY DEF IssuedNIK
<1>4. Female(nik) <=> woman
  BY <1>2, <1>3 DEF Female
<1>5. NIKDay(nik) = birth.d
  BY <1>2, <1>3, <1>4 DEF NIKDay
<1>6. Two(nik, 7) \notin 32 .. 40
  BY <1>2, <1>3
<1>7. Two(nik, 9) \in 1 .. 12 /\ NIKDay(nik) \in 1 .. MonthDays(Two(nik, 9), TRUE)
  BY <1>1, <1>2, <1>3, <1>5
<1> QED
  BY <1>3, <1>4, <1>5, <1>6, <1>7 DEF ValidNIK, Region

LEMMA SomebodysNIKIsValid ==
  ASSUME NEW nik, NEW woman \in BOOLEAN, NIKOfSomebody(nik, woman)
  PROVE  ValidNIK(nik)
BY NIKIsValid DEF NIKOfSomebody

LEMMA GenuineKTPScore ==
  ASSUME NEW doc \in KTPData, GenuineKTP(doc)
  PROVE  KTPScore(NormalKTP(doc)) = 100
<1> DEFINE n == NormalKTP(doc)
<1>1. /\ n.nik = doc.nik /\ n.birth = doc.birth /\ n.gender = doc.gender /\ n.has = KTPFields
      /\ n.citizenship = Citizenship(doc.citizenship)
  BY DEF NormalKTP, KTPData, GenuineKTP
<1>0. Citizenship(doc.citizenship) \in {"WNI", "WNA"}
  <2>1. doc.citizenship \in Citizenships
    BY DEF GenuineKTP
  <2> QED
    BY <2>1, Zenon DEF Citizenships, Citizenship
<1> HIDE DEF n
<1>2. PICK woman \in BOOLEAN : woman = (doc.gender = "PEREMPUAN")
  OBVIOUS
<1>3. OnCalendar(doc.birth) /\ IssuedNIK(doc.nik, doc.birth, woman)
  BY <1>2 DEF GenuineKTP, Born
<1>4. ValidNIK(n.nik) /\ (Female(n.nik) <=> woman) /\ NIKDay(n.nik) = n.birth.d
  BY <1>1, <1>3, NIKIsValid
<1>5. Birth(n.birth)
  BY <1>1 DEF GenuineKTP, Born, Birth, Parses
<1>6. KTPAgrees(n)
  <2>1. BirthAgrees(n.nik, n.birth)
    BY <1>1, <1>3, <1>4 DEF IssuedNIK, BirthAgrees
  <2>2. GenderAgrees(n.nik, n.gender)
    BY <1>1, <1>2, <1>4 DEF GenderAgrees
  <2> QED
    BY <2>1, <2>2 DEF KTPAgrees
<1>7. n.gender \in {"LAKI-LAKI", "PEREMPUAN"}
  BY <1>1 DEF GenuineKTP
<1>8. KTPScore(n) = Clamp((30 + 10) + 15 + 15 + 5 + 5 + 5 + 5 + 4 + 3 + 3)
  BY <1>0, <1>1, <1>4, <1>5, <1>6, <1>7, ZenonT(60) DEF KTPScore, Points, KTPFields
<1> QED
  BY <1>8 DEF Clamp, n

LEMMA NormalDateOfDay ==
  ASSUME NEW x \in Date, OnCalendar(x)
  PROVE  /\ NormalDate(x) = Day(x.y, x.m, x.d) /\ Parses(NormalDate(x))
         /\ Ord(NormalDate(x)) = Ord(x) /\ NormalDate(x).y = x.y
<1>1. NormalDate(x) = [x EXCEPT !.iso = TRUE]
  BY DEF NormalDate
<1>2. NormalDate(x) = Day(x.y, x.m, x.d)
  BY <1>1 DEF Date, Day
<1> QED
  BY <1>2 DEF Day, Parses, OnCalendar, Ord

(* Who is seventeen may drive. *)
LEMMA OldEnough ==
  ASSUME NEW x \in Date, Born(x), Age(x) >= 17
  PROVE  Driver(NormalDate(x))
<1>1. /\ Today.y \in Int /\ Today.m \in 1 .. 12 /\ Today.d \in 1 .. 31
      /\ x.y \in Int /\ x.m \in 1 .. 12 /\ x.d \in 1 .. 31 /\ OnCalendar(x)
  BY TodayAssumption DEF Parses, OnCalendar, MonthDays, Date, Born
<1>2. Ord(x) <= Ord(SeventeenAgo)
  <2>1. PICK y \in Int, m \in 1 .. 12, d \in 1 .. 31 : y = x.y /\ m = x.m /\ d = x.d
    BY <1>1
  <2>2. PICK ty \in Int, tm \in 1 .. 12, td \in 1 .. 31 : ty = Today.y /\ tm = Today.m /\ td = Today.d
    BY <1>1
  <2>3. ty - y >= 18 \/ (ty - y = 17 /\ ~(100 * m + d > 100 * tm + td))
    BY <2>1, <2>2 DEF Age, LaterInYear
  <2>4. 10000 * y + 100 * m + d <= 10000 * ty + 100 * tm + td - 170000
    BY <2>3
  <2>5. /\ Ord(x) = 10000 * y + 100 * m + d
        /\ Ord(SeventeenAgo) >= 10000 * ty + 100 * tm + td - 170000
    BY <2>1, <2>2 DEF Ord, SeventeenAgo, Day
  <2>6. Ord(SeventeenAgo) \in Int
    <3>1. SeventeenAgo.y \in Int /\ SeventeenAgo.m \in Int /\ SeventeenAgo.d \in Int
      BY <1>1 DEF SeventeenAgo, Day
    <3> QED
      BY <3>1 DEF Ord
  <2> QED
    BY <2>4, <2>5, <2>6
<1>3. Birth(NormalDate(x))
  BY <1>1, NormalDateOfDay DEF Birth, Born, Past
<1> QED
  BY <1>1, <1>2, <1>3, NormalDateOfDay DEF Driver

LEMMA GenuineSIMScore ==
  ASSUME NEW doc \in SIMData, GenuineSIM(doc)
  PROVE  SIMScore(NormalSIM(doc)) = 100
<1> DEFINE n == NormalSIM(doc)
           number == IF ValidSIMNumber(doc.number) THEN [doc.number EXCEPT !.chars = "digits"] ELSE doc.number
           blood == IF doc.blood = "" THEN "-" ELSE doc.blood
<1>0. /\ doc.number.length \in 12 .. 16 /\ doc.number.chars = "digits"
      /\ doc.class \in SIMClasses \cup {"B1", "B2", "C1", "C2", "D1"}
      /\ doc.gender \in {"PRIA", "WANITA", "LAKI-LAKI", "PEREMPUAN"}
      /\ doc.blood \in BloodTypes
      /\ Born(doc.birth) /\ Age(doc.birth) >= 17 /\ doc.has = SIMFields
      /\ OnCalendar(doc.expiry) /\ doc.expiry.y \in 2000 .. 2100
  BY DEF GenuineSIM
<1>1. n = [doc EXCEPT !.number = number, !.class = SIMClass(@), !.gender = SIMGender(@),
                      !.blood = blood, !.birth = NormalDate(@), !.expiry = NormalDate(@)]
  BY DEF NormalSIM
<1>2. number.length \in 12 .. 16 /\ number.chars = "digits" /\ number = doc.number
  <2>1. doc.number \in [length : Nat, chars : {"digits", "lookalikes", "other"}]
    BY DEF SIMData
  <2> QED
    BY <1>0, <2>1
<1>3. blood \in {"A", "B", "AB", "O", "-"}
  <2>1. doc.blood \in BloodTypes
    BY <1>0
  <2> QED
    BY <2>1, Zenon DEF BloodTypes
<1> HIDE DEF n, number, blood
<1>4. /\ n.number = number /\ n.class = SIMClass(doc.class) /\ n.gender = SIMGender(doc.gender)
      /\ n.blood = blood /\ n.birth = NormalDate(doc.birth) /\ n.expiry = NormalDate(doc.expiry)
      /\ n.has = doc.has
  BY <1>1 DEF SIMData
<1>5. n.class \in SIMClasses
  <2>1. doc.class \in SIMClasses \cup {"B1", "B2", "C1", "C2", "D1"}
    BY <1>0
  <2>2. n.class = SIMClass(doc.class)
    BY <1>4
  <2> QED
    BY <2>1, <2>2 DEF SIMClass, SIMClasses
<1>6. n.gender \in {"PRIA", "WANITA"}
  BY <1>0, <1>4 DEF SIMGender
<1>7. Driver(n.birth)
  <2>1. doc.birth \in Date
    BY DEF SIMData
  <2> QED
    BY <1>0, <1>4, <2>1, OldEnough
<1>8. Parses(n.expiry) /\ n.expiry.y \in 2000 .. 2100
  <2>1. doc.expiry \in Date
    BY DEF SIMData
  <2> QED
    BY <1>0, <1>4, <2>1, NormalDateOfDay
<1>9. ValidSIMNumber(n.number)
  BY <1>2, <1>4 DEF ValidSIMNumber
<1>10. n.has = SIMFields
  BY <1>0, <1>4
<1>11. n.blood \in {"A", "B", "AB", "O", "-"}
  BY <1>3, <1>4
<1>12. SIMScore(n) = 100
  <2> DEFINE p1 == Points(ValidSIMNumber(n.number), 25)
             p2 == Points(n.class \in SIMClasses, 15)
             p3 == Points("nama" \in n.has, 15)
             p4 == Points(Driver(n.birth) /\ "tempat" \in n.has, 15)
             p5 == Points(Parses(n.expiry) /\ n.expiry.y \in 2000 .. 2100, 10)
             p6 == Points(n.gender \in {"PRIA", "WANITA"}, 5)
             p7 == Points("alamat" \in n.has, 5)
             p8 == Points("pekerjaan" \in n.has, 5)
             p9 == Points("polda" \in n.has, 3)
             p10 == Points(n.blood \in {"A", "B", "AB", "O", "-"}, 2)
  <2>1. SIMScore(n) = Clamp(p1 + p2 + p3 + p4 + p5 + p6 + p7 + p8 + p9 + p10)
    BY DEF SIMScore
  <2>2. /\ "nama" \in n.has /\ "tempat" \in n.has /\ "alamat" \in n.has
        /\ "pekerjaan" \in n.has /\ "polda" \in n.has
    BY <1>10 DEF SIMFields
  <2>3. p1 = 25
    BY <1>9, Zenon DEF Points
  <2>4. p5 = 10
    BY <1>8 DEF Points
  <2>5. p2 = 15
    BY <1>5, Zenon DEF Points
  <2>6. p6 = 5
    BY <1>6, Zenon DEF Points
  <2>7. p10 = 2
    BY <1>11, Zenon DEF Points
  <2>8. p3 = 15 /\ p4 = 15 /\ p7 = 5 /\ p8 = 5 /\ p9 = 3
    BY <1>7, <2>2, Zenon DEF Points
  <2> HIDE DEF p1, p2, p3, p4, p5, p6, p7, p8, p9, p10
  <2> QED
    BY <2>1, <2>3, <2>4, <2>5, <2>6, <2>7, <2>8 DEF Clamp
<1> QED
  BY <1>12 DEF n

(* The two digits of a year tell which one it was: for a birth in the last *)
(* hundred years, and an expiry of this century that is not too far away.  *)
LEMMA YearOfBirth ==
  ASSUME NEW y \in Today.y - 99 .. Today.y
  PROVE  BirthYear(y % 100) = y
<1>1. Today.y \in Int /\ Today.y >= 2000 /\ y \in Nat
  BY TodayAssumption DEF Date
<1>2. y % 100 \in 0 .. 99
  BY <1>1
<1>3. /\ BirthYear(y % 100) \in Today.y - 99 .. Today.y
      /\ BirthYear(y % 100) % 100 = y % 100
  BY <1>2, BirthYearInCentury
<1>4. \A a, b \in Int : a % 100 = b % 100 /\ a - b < 100 /\ b - a < 100 => a = b
  OBVIOUS
<1> QED
  BY <1>1, <1>3, <1>4

LEMMA YearOfExpiry ==
  ASSUME NEW y \in Today.y - 30 .. Today.y + 69, y >= Century
  PROVE  ExpiryYear(y % 100) = y
<1>1. Today.y \in Int /\ Today.y >= 2000
  BY TodayAssumption DEF Date
<1>2. PICK q \in Nat, r \in 0 .. 99 : Today.y = 100 * q + r /\ Century = 100 * q
  <2>1. Today.y \div 100 \in Nat /\ Today.y % 100 \in 0 .. 99
        /\ Today.y = 100 * (Today.y \div 100) + (Today.y % 100)
    BY <1>1
  <2> QED
    BY <2>1 DEF Century
<1>3. CASE y < Century + 100
  <2>1. y % 100 = y - (100 * q)
    BY <1>1, <1>2, <1>3
  <2> QED
    BY <1>1, <1>2, <1>3, <2>1 DEF ExpiryYear
<1>4. CASE y >= Century + 100
  <2>1. y % 100 = y - (100 * q) - 100
    BY <1>1, <1>2, <1>4
  <2> QED
    BY <1>1, <1>2, <1>4, <2>1 DEF ExpiryYear
<1> QED
  BY <1>1, <1>2, <1>3, <1>4

LEMMA WrittenDateRead ==
  ASSUME NEW line \in MRZLine, NEW d \in {13, 21}, NEW x \in Date, OnCalendar(x),
         WrittenAt(line, d + 1, x), NEW year
  PROVE  LET s == SubSeq(line, d + 1, d + 6) IN
         Two(s, 1) = x.y % 100 /\ MRZDate(s, year) = Day(year, x.m, x.d)
<1> DEFINE s == SubSeq(line, d + 1, d + 6)
<1>1. line \in Seq(0 .. Other) /\ d \in Nat /\ 6 \in Nat /\ d + 6 <= Len(line)
  <2>1. line \in Seq(0 .. Other) /\ Len(line) = 44
    BY DEF MRZLine, Text
  <2>2. d \in Nat /\ 6 \in Nat /\ d + 6 <= 44
    OBVIOUS
  <2> QED
    BY <2>1, <2>2
<1>2. PartOf(0 .. Other, s, line, d, 6)
  <2> HIDE DEF s
  <2> QED
    BY <1>1, Part, Zenon DEF s
<1> HIDE DEF s
<1>3. s \in Seq(0 .. Other) /\ Len(s) = 6 /\ \A j \in 1 .. 6 : s[j] = line[j + d]
  BY <1>2 DEF PartOf
<1>4. /\ \A j \in d + 1 .. d + 6 : line[j] \in 0 .. 9
      /\ Two(line, d + 1) = x.y % 100 /\ Two(line, d + 3) = x.m /\ Two(line, d + 5) = x.d
  <2>1. d + 1 + 5 = d + 6 /\ d + 1 + 2 = d + 3 /\ d + 1 + 4 = d + 5
    OBVIOUS
  <2> QED
    BY <2>1 DEF WrittenAt
<1>5. \A j \in 1 .. 6 : s[j] \in 0 .. 9
  <2> SUFFICES ASSUME NEW j \in 1 .. 6 PROVE s[j] \in 0 .. 9
    OBVIOUS
  <2>1. j + d \in d + 1 .. d + 6
    OBVIOUS
  <2> QED
    BY <1>3, <1>4, <2>1
<1>6. Digits(s)
  BY <1>3, <1>5 DEF Digits
<1>7. Two(s, 1) = Two(line, d + 1) /\ Two(s, 3) = Two(line, d + 3) /\ Two(s, 5) = Two(line, d + 5)
  <2>1. /\ s[1] = line[d + 1] /\ s[2] = line[d + 2] /\ s[3] = line[d + 3]
        /\ s[4] = line[d + 4] /\ s[5] = line[d + 5] /\ s[6] = line[d + 6]
    BY <1>3, SMTT(60)
  <2>2. d + 1 + 1 = d + 2 /\ d + 3 + 1 = d + 4 /\ d + 5 + 1 = d + 6
    OBVIOUS
  <2> QED
    BY <2>1, <2>2 DEF Two
<1>8. x.m \in 1 .. 12 /\ x.d \in 1 .. 31
  BY DEF OnCalendar, MonthDays
<1> QED
  BY <1>4, <1>6, <1>7, <1>8 DEF MRZDate, s

LEMMA NumberRead ==
  ASSUME NEW line \in MRZLine, NEW number \in Text, NEW l \in 8 .. 9, Len(number) = l,
         \A i \in 1 .. l : number[i] \in 0 .. 35,
         \A i \in 1 .. 9 : line[i] = IF i <= l THEN number[i] ELSE Filler
  PROVE  MRZNumber(line) = number
<1> DEFINE ends(n) == (n # 0 => line[n] # Filler) /\ \A i \in n + 1 .. 9 : line[i] = Filler
           s == SubSeq(line, 0 + 1, 0 + l)
<1>1. MRZNumber(line) = SubSeq(line, 1, CHOOSE n \in 0 .. 9 : ends(n))
  BY DEF MRZNumber
<1>2. line \in Seq(0 .. Other) /\ Len(line) = 44
  BY DEF MRZLine, Text
<1>3. \A i \in 1 .. l : number[i] # Filler /\ line[i] = number[i]
  <2> SUFFICES ASSUME NEW i \in 1 .. l PROVE number[i] # Filler /\ line[i] = number[i]
    OBVIOUS
  <2>1. i \in 1 .. 9 /\ i <= l
    OBVIOUS
  <2>2. line[i] = number[i]
    BY <2>1
  <2>3. \A c \in 0 .. 35 : c # Filler
    BY DEF Filler
  <2>4. number[i] # Filler
    BY <2>3
  <2> QED
    BY <2>2, <2>4
<1>4. \A i \in l + 1 .. 9 : line[i] = Filler
  OBVIOUS
<1>5. ASSUME NEW n \in 0 .. 9 PROVE ends(n) <=> n = l
  <2>1. CASE n < l
    <3>1. l \in n + 1 .. 9 /\ line[l] # Filler
      BY <1>3, <2>1
    <3> QED
      BY <2>1, <3>1
  <2>2. CASE n = l
    BY <1>3, <1>4, <2>2
  <2>3. CASE n > l
    <3>1. n # 0 /\ line[n] = Filler
      BY <1>4, <2>3
    <3> QED
      BY <2>3, <3>1
  <2> QED
    BY <2>1, <2>2, <2>3
<1>6. (CHOOSE n \in 0 .. 9 : ends(n)) = l
  <2>1. l \in 0 .. 9
    OBVIOUS
  <2> HIDE DEF ends
  <2> QED
    BY <1>5, <2>1
<1>7. PartOf(0 .. Other, s, line, 0, l)
  <2>1. 0 \in Nat /\ l \in Nat /\ 0 + l <= Len(line)
    BY <1>2
  <2> HIDE DEF s
  <2> QED
    BY <1>2, <2>1, Part, Zenon DEF s
<1>8. s = SubSeq(line, 1, l)
  BY <1>2
<1> HIDE DEF s
<1>9. s \in Seq(0 .. Other) /\ Len(s) = l /\ \A j \in 1 .. l : s[j] = number[j]
  <2>1. s \in Seq(0 .. Other) /\ Len(s) = l
    BY <1>7 DEF PartOf
  <2>2. ASSUME NEW j \in 1 .. l PROVE s[j] = number[j]
    <3>1. s[j] = line[j + 0] /\ j + 0 = j
      BY <1>7 DEF PartOf
    <3>2. line[j] = number[j]
      BY <1>3
    <3> QED
      BY <3>1, <3>2
  <2> QED
    BY <2>1, <2>2
<1>10. s = number
  BY <1>9, SeqEqual DEF Text
<1> QED
  BY <1>1, <1>6, <1>8, <1>10

LEMMA PassportLine ==
  ASSUME NEW doc \in PassportData, GenuinePassport(doc)
  PROVE  /\ doc.mrz # NoMRZ /\ HasTD3(doc) /\ WrittenMRZ(doc.mrz.line, doc)
         /\ doc.mrz.line \in MRZLine
<1>1. HasTD3(doc) /\ WrittenMRZ(doc.mrz.line, doc)
  BY DEF GenuinePassport
<1>2. doc.mrz # NoMRZ
  BY <1>1 DEF HasTD3
<1>3. doc.mrz \in {NoMRZ} \cup [td3 : BOOLEAN, name : Names, line : Text]
  BY DEF PassportData
<1>4. doc.mrz.line \in Text
  BY <1>2, <1>3
<1>5. Len(doc.mrz.line) = 44
  BY <1>1 DEF WrittenMRZ
<1> QED
  BY <1>1, <1>2, <1>4, <1>5 DEF MRZLine

(* The MRZ of a genuine passport says when its holder was born and when it *)
(* expires, in the right century.                                          *)
LEMMA PassportDatesRead ==
  ASSUME NEW doc \in PassportData, GenuinePassport(doc)
  PROVE  /\ MRZBirth(doc.mrz.line) = NormalDate(doc.birth)
         /\ MRZExpiry(doc.mrz.line) = NormalDate(doc.expiry)
         /\ NormalDate(doc.birth) # Missing /\ NormalDate(doc.expiry) # Missing
         /\ Birth(NormalDate(doc.birth)) /\ Parses(NormalDate(doc.expiry))
<1> DEFINE line == doc.mrz.line
<1>1. line \in MRZLine /\ WrittenAt(line, 14, doc.birth) /\ WrittenAt(line, 22, doc.expiry)
  BY PassportLine DEF WrittenMRZ
<1>2. doc.birth \in Date /\ doc.expiry \in Date
  BY DEF PassportData
<1>3. /\ Born(doc.birth) /\ doc.birth.y > Today.y - 100 /\ OnCalendar(doc.birth)
      /\ OnCalendar(doc.expiry) /\ doc.expiry.y \in Today.y - 30 .. Today.y + 69 /\ doc.expiry.y >= Century
  BY DEF GenuinePassport, Born
<1>4. /\ Today.y \in Int /\ Today.m \in 1 .. 12 /\ Today.d \in 1 .. 31
      /\ doc.birth.y \in Int /\ doc.birth.m \in 1 .. 12 /\ doc.birth.d \in 1 .. 31
      /\ doc.expiry.m \in 1 .. 12
  BY <1>2, <1>3, TodayAssumption DEF Parses, OnCalendar, MonthDays, Date
<1> HIDE DEF line
<1>5. doc.birth.y \in Today.y - 99 .. Today.y
  <2>1. PICK y \in Int, m \in 1 .. 12, d \in 1 .. 31 : y = doc.birth.y /\ m = doc.birth.m /\ d = doc.birth.d
    BY <1>4
  <2>2. PICK ty \in Int, tm \in 1 .. 12, td \in 1 .. 31 : ty = Today.y /\ tm = Today.m /\ td = Today.d
    BY <1>4
  <2>3. 10000 * y + 100 * m + d <= 10000 * ty + 100 * tm + td /\ y > ty - 100
    BY <1>3, <2>1, <2>2 DEF Born, Past, Ord
  <2>4. y <= ty
    BY <2>3
  <2> QED
    BY <2>1, <2>2, <2>3, <2>4
<1>6. MRZBirth(line) = Day(doc.birth.y, doc.birth.m, doc.birth.d)
  <2> DEFINE s == SubSeq(line, 13 + 1, 13 + 6)
  <2>1. 13 + 1 = 14 /\ 13 + 6 = 19
    OBVIOUS
  <2>2. WrittenAt(line, 13 + 1, doc.birth) /\ s = SubSeq(line, 14, 19)
    BY <1>1, <2>1
  <2>3. Two(s, 1) = doc.birth.y % 100
        /\ \A year : MRZDate(s, year) = Day(year, doc.birth.m, doc.birth.d)
    BY <1>1, <1>2, <1>3, <2>2, WrittenDateRead, ZenonT(60)
  <2>4. BirthYear(Two(s, 1)) = doc.birth.y
    BY <1>5, <2>3, YearOfBirth
  <2> HIDE DEF s
  <2> QED
    BY <2>2, <2>3, <2>4 DEF MRZBirth
<1>7. MRZExpiry(line) = Day(doc.expiry.y, doc.expiry.m, doc.expiry.d)
  <2> DEFINE s == SubSeq(line, 21 + 1, 21 + 6)
  <2>1. 21 + 1 = 22 /\ 21 + 6 = 27
    OBVIOUS
  <2>2. WrittenAt(line, 21 + 1, doc.expiry) /\ s = SubSeq(line, 22, 27)
    BY <1>1, <2>1
  <2>3. Two(s, 1) = doc.expiry.y % 100
        /\ \A year : MRZDate(s, year) = Day(year, doc.expiry.m, doc.expiry.d)
    BY <1>1, <1>2, <1>3, <2>2, WrittenDateRead, ZenonT(60)
  <2>4. ExpiryYear(Two(s, 1)) = doc.expiry.y
    BY <1>3, <2>3, YearOfExpiry
  <2> HIDE DEF s
  <2> QED
    BY <2>2, <2>3, <2>4 DEF MRZExpiry
<1>8. /\ NormalDate(doc.birth) = Day(doc.birth.y, doc.birth.m, doc.birth.d)
      /\ NormalDate(doc.expiry) = Day(doc.expiry.y, doc.expiry.m, doc.expiry.d)
      /\ Parses(NormalDate(doc.birth)) /\ Ord(NormalDate(doc.birth)) = Ord(doc.birth)
      /\ NormalDate(doc.birth).y = doc.birth.y /\ Parses(NormalDate(doc.expiry))
  BY <1>2, <1>3, NormalDateOfDay
<1>9. Birth(NormalDate(doc.birth))
  BY <1>3, <1>8 DEF Birth, Born, Past
<1>10. NormalDate(doc.birth) # Missing /\ NormalDate(doc.expiry) # Missing
  <2>1. ~OnCalendar(Missing)
    BY DEF OnCalendar, Missing
  <2> QED
    BY <1>8, <2>1 DEF Parses
<1> QED
  BY <1>6, <1>7, <1>8, <1>9, <1>10 DEF line

LEMMA NormalPassportFields ==
  ASSUME NEW doc \in PassportData
  PROVE  LET n == NormalPassport(doc) IN
         /\ n.number = doc.number /\ n.gender = PassportGender(doc.gender) /\ n.mrz = doc.mrz
         /\ n.birth = NormalDate(doc.birth) /\ n.issue = NormalDate(doc.issue)
         /\ n.expiry = NormalDate(doc.expiry) /\ n.has = doc.has
         /\ HasTD3(doc) => n.name = NameOf(doc)
<1> DEFINE Nation(x) == IF x \in {"INDONESIA", "WNI", ""} THEN "IDN" ELSE x
           Name(x) == IF x = "" /\ HasTD3(doc) THEN doc.mrz.name ELSE x
           n == NormalPassport(doc)
<1>1. n = [doc EXCEPT !.nationality = Nation(@),
                      !.birth = NormalDate(@), !.issue = NormalDate(@), !.expiry = NormalDate(@),
                      !.gender = PassportGender(@), !.name = Name(@)]
  BY Zenon DEF NormalPassport
<1>2. HasTD3(doc) => Name(doc.name) = NameOf(doc)
  BY Zenon DEF NameOf
<1> HIDE DEF n, Nation, Name
<1>3. /\ n.number = doc.number /\ n.gender = PassportGender(doc.gender) /\ n.mrz = doc.mrz
      /\ n.birth = NormalDate(doc.birth) /\ n.issue = NormalDate(doc.issue)
      /\ n.expiry = NormalDate(doc.expiry) /\ n.has = doc.has /\ n.name = Name(doc.name)
  BY <1>1 DEF PassportData
<1> QED
  BY <1>2, <1>3 DEF n

(* What the MRZ of a genuine passport says is what is printed above it. *)
LEMMA NothingContradicts ==
  ASSUME NEW doc \in PassportData, GenuinePassport(doc)
  PROVE  Contradictions(NormalPassport(doc)) = 0
<1> DEFINE n == NormalPassport(doc)
           line == n.mrz.line
           differs(a, b, none) == a # none /\ b # none /\ a # b
<1>1. /\ n.number = doc.number /\ n.gender = PassportGender(doc.gender) /\ line = doc.mrz.line
      /\ n.birth = NormalDate(doc.birth) /\ n.expiry = NormalDate(doc.expiry)
  BY NormalPassportFields
<1> HIDE DEF n
<1>2. MRZBirth(line) = n.birth /\ MRZExpiry(line) = n.expiry
  BY <1>1, PassportDatesRead
<1>3. MRZNumber(line) = n.number
  <2>1. line \in MRZLine /\ WrittenMRZ(line, doc)
    BY <1>1, PassportLine
  <2>2. doc.number \in Text
    BY DEF PassportData
  <2>3. PICK l \in 8 .. 9 : l = Len(doc.number)
    BY DEF GenuinePassport
  <2>4. \A i \in 1 .. l : doc.number[i] \in 0 .. 35
    <3>1. \A i \in DOMAIN doc.number : doc.number[i] \in 0 .. 35
      BY DEF GenuinePassport
    <3>2. DOMAIN doc.number = 1 .. l
      BY <2>2, <2>3 DEF Text
    <3> QED
      BY <3>1, <3>2
  <2>5. \A i \in 1 .. 9 : line[i] = IF i <= l THEN doc.number[i] ELSE Filler
    BY <2>1, <2>3 DEF WrittenMRZ
  <2> HIDE DEF line
  <2>6. MRZNumber(line) = doc.number
    BY <2>1, <2>2, <2>3, <2>4, <2>5, NumberRead, Zenon
  <2> QED
    BY <1>1, <2>6
<1>4. MRZGender(line) = n.gender
  <2>1. line[21] = (IF doc.gender \in Men THEN 22 ELSE 15) /\ doc.gender \in Men \cup Women
    BY <1>1, PassportLine DEF WrittenMRZ, GenuinePassport
  <2> HIDE DEF line
  <2>2. line[21] = 22 /\ 22 # 15 => MRZGender(line) = "LAKI-LAKI"
    BY Zenon DEF MRZGender
  <2>3. line[21] = 15 /\ 15 # 22 => MRZGender(line) = "PEREMPUAN"
    BY Zenon DEF MRZGender
  <2>4. CASE doc.gender \in Men
    <3>1. n.gender = "LAKI-LAKI"
      BY <1>1, <2>4 DEF PassportGender, Men
    <3> QED
      BY <2>1, <2>2, <2>4, <3>1
  <2>5. CASE doc.gender \notin Men
    <3>1. doc.gender \in Women
      BY <2>1, <2>5
    <3>2. n.gender = "PEREMPUAN"
      BY <1>1, <2>5, <3>1 DEF PassportGender, Men, Women
    <3> QED
      BY <2>1, <2>3, <2>5, <3>2
  <2> QED
    BY <2>4, <2>5
<1>5. /\ ~differs(MRZNumber(line), n.number, <<>>) /\ ~differs(MRZBirth(line), n.birth, Missing)
      /\ ~differs(MRZExpiry(line), n.expiry, Missing) /\ ~differs(MRZGender(line), n.gender, "")
  BY <1>2, <1>3, <1>4, Zenon
<1>6. /\ Points(differs(MRZNumber(line), n.number, <<>>), 10) = 0
      /\ Points(differs(MRZBirth(line), n.birth, Missing), 10) = 0
      /\ Points(differs(MRZExpiry(line), n.expiry, Missing), 10) = 0
      /\ Points(differs(MRZGender(line), n.gender, ""), 5) = 0
  BY <1>5, Zenon DEF Points
<1> DEFINE p1 == Points(differs(MRZNumber(line), n.number, <<>>), 10)
           p2 == Points(differs(MRZBirth(line), n.birth, Missing), 10)
           p3 == Points(differs(MRZExpiry(line), n.expiry, Missing), 10)
           p4 == Points(differs(MRZGender(line), n.gender, ""), 5)
<1>7. Contradictions(n) = IF ~HasTD3(n) THEN 0 ELSE p1 + p2 + p3 + p4
  BY DEF Contradictions
<1>8. p1 = 0 /\ p2 = 0 /\ p3 = 0 /\ p4 = 0
  BY <1>6
<1> HIDE DEF p1, p2, p3, p4
<1>9. Contradictions(n) = 0
  BY <1>7, <1>8
<1> QED
  BY <1>9 DEF n

LEMMA GenuinePassportScore ==
  ASSUME NEW doc \in PassportData, GenuinePassport(doc)
  PROVE  PassportScore(NormalPassport(doc), Named(doc)) >= 95
<1> DEFINE n == NormalPassport(doc)
           number == ValidPassportNumber(n.number)
           read == HasTD3(n) /\ ValidMRZ(n.mrz.line)
           c  == Contradictions(n)
           q  == Points(number, 15)
           p1 == Points(number, 25)
           p2 == IF n.mrz = NoMRZ THEN q ELSE (IF read THEN 25 ELSE 10) - c
           p3 == Points(Named(doc), 15)
           p4 == Points(Birth(n.birth) /\ "place" \in n.has, 15)
           late == Points(Ord(n.expiry) > Ord(n.issue), 10)
           p5 == IF ~Parses(n.expiry) THEN 0 ELSE IF ~Parses(n.issue) THEN 8 ELSE late
           p6 == IF n.nationality = "IDN" THEN 5 ELSE 3
           p7 == Points(n.gender \in {"LAKI-LAKI", "PEREMPUAN"}, 3)
           p8 == Points("office" \in n.has, 2)
<1>1. PassportScore(n, Named(doc)) = Clamp(p1 + p2 + p3 + p4 + p5 + p6 + p7 + p8)
  BY DEF PassportScore
<1>2. /\ n.number = doc.number /\ n.gender = PassportGender(doc.gender) /\ n.mrz = doc.mrz
      /\ n.birth = NormalDate(doc.birth) /\ n.issue = NormalDate(doc.issue)
      /\ n.expiry = NormalDate(doc.expiry) /\ n.has = doc.has /\ n.name = NameOf(doc)
  BY NormalPassportFields, PassportLine
<1>3. c = 0
  BY NothingContradicts
<1> HIDE DEF n
<1>4. ValidPassportNumber(n.number)
  BY <1>2 DEF GenuinePassport, ValidPassportNumber
<1>5. HasTD3(n) /\ n.mrz # NoMRZ
  BY <1>2, PassportLine DEF HasTD3
<1>6. ValidMRZ(n.mrz.line)
  <2>1. WrittenMRZ(doc.mrz.line, doc) /\ doc.gender \in Men \cup Women
    BY PassportLine DEF GenuinePassport
  <2>2. doc.mrz.line[21] \in {22, 15, Filler}
    BY <2>1 DEF WrittenMRZ
  <2>3. MRZBirth(doc.mrz.line) # Missing /\ MRZExpiry(doc.mrz.line) # Missing
    BY PassportDatesRead
  <2> QED
    BY <1>2, <2>1, <2>2, <2>3 DEF WrittenMRZ, ValidMRZ
<1>7. Named(doc)
  BY <1>2 DEF Named, GenuinePassport, n
<1>8. Birth(n.birth) /\ Parses(n.expiry) /\ n.has = {"place", "office"}
  BY <1>2, PassportDatesRead DEF GenuinePassport
<1>9. Parses(n.issue) => Ord(n.expiry) > Ord(n.issue)
  <2>1. doc.issue \in Date /\ doc.expiry \in Date /\ OnCalendar(doc.expiry)
    BY DEF PassportData, GenuinePassport
  <2>2. CASE doc.issue = Missing
    <3>1. NormalDate(Missing) = Missing /\ ~Parses(Missing)
      BY DEF NormalDate, OnCalendar, Missing, Parses
    <3> QED
      BY <1>2, <2>2, <3>1
  <2>3. CASE doc.issue # Missing
    <3>1. OnCalendar(doc.issue) /\ Ord(doc.issue) < Ord(doc.expiry)
      BY <2>3 DEF GenuinePassport
    <3>2. Ord(n.issue) = Ord(doc.issue) /\ Ord(n.expiry) = Ord(doc.expiry)
      BY <1>2, <2>1, <3>1, NormalDateOfDay
    <3>3. Ord(doc.issue) \in Int /\ Ord(doc.expiry) \in Int
      BY <2>1 DEF Date, Ord
    <3> QED
      BY <3>1, <3>2, <3>3
  <2> QED
    BY <2>2, <2>3
<1>10. n.gender \in {"LAKI-LAKI", "PEREMPUAN"}
  <2>1. doc.gender \in Men \cup Women
    BY DEF GenuinePassport
  <2>2. CASE doc.gender \in Men
    BY <1>2, <2>2 DEF PassportGender, Men
  <2>3. CASE doc.gender \notin Men /\ doc.gender \in Women
    BY <1>2, <2>3 DEF PassportGender, Men, Women
  <2> QED
    BY <2>1, <2>2, <2>3
<1>11. p1 = 25 /\ p3 = 15 /\ p4 = 15 /\ p7 = 3 /\ p8 = 2
  BY <1>4, <1>7, <1>8, <1>10 DEF Points
<1>12. p2 = 25
  <2> HIDE DEF c, q
  <2> QED
    BY <1>3, <1>5, <1>6
<1>13. p5 \in {8, 10}
  <2>1. Parses(n.issue) => late = 10
    BY <1>9 DEF Points
  <2> HIDE DEF late
  <2> QED
    BY <1>8, <2>1
<1>14. p6 \in {3, 5}
  OBVIOUS
<1> HIDE DEF p1, p2, p3, p4, p5, p6, p7, p8
<1>15. PassportScore(n, Named(doc)) >= 95
  BY <1>1, <1>11, <1>12, <1>13, <1>14 DEF Clamp
<1> QED
  BY <1>15 DEF n

(* The digit that makes the sum a multiple of ten is the check digit. *)
LEMMA IssuedNPWPIsValid ==
  ASSUME NEW n \in Text, IssuedNPWP(n)
  PROVE  ValidNPWP15(n)
<1>1. Len(n) = 15 /\ Digits(n) /\ Two(n, 1) # 0 /\ \E i \in 10 .. 12 : n[i] # 0
  BY DEF IssuedNPWP
<1>2. \A d \in 0 .. 9 : DigitSum(2 * d) = Doubled(d) /\ Doubled(d) \in Nat
  BY DEF DigitSum, Doubled
<1>3. \A i \in 1 .. 9 : n[i] \in 0 .. 9
  BY <1>1 DEF Digits, Text
<1>4. /\ n[1] \in Nat /\ n[3] \in Nat /\ n[5] \in Nat /\ n[7] \in Nat /\ n[9] \in 0 .. 9
      /\ Doubled(n[2]) \in Nat /\ Doubled(n[4]) \in Nat /\ Doubled(n[6]) \in Nat /\ Doubled(n[8]) \in Nat
  BY <1>2, <1>3
<1>5. LuhnSum(n) \in Nat
  BY <1>4 DEF LuhnSum
<1>6. /\ DigitSum(2 * n[2]) = Doubled(n[2]) /\ DigitSum(2 * n[4]) = Doubled(n[4])
      /\ DigitSum(2 * n[6]) = Doubled(n[6]) /\ DigitSum(2 * n[8]) = Doubled(n[8])
  BY <1>2, <1>3
<1>7. (LuhnSum(n) + n[9]) % 10 = 0
  BY <1>6, Zenon DEF IssuedNPWP, LuhnSum
<1>8. \A x \in Nat, d \in 0 .. 9 : (x + d) % 10 = 0 => d = (10 - (x % 10)) % 10
  OBVIOUS
<1>9. n[9] = NPWPCheckDigit(n)
  BY <1>4, <1>5, <1>7, <1>8 DEF NPWPCheckDigit
<1> QED
  BY <1>1, <1>9 DEF ValidNPWP15

LEMMA NPWPNumberIsValid ==
  ASSUME NEW s \in Text, NPWPNumber(s)
  PROVE  ValidNPWP(s)
<1> DEFINE n == Clean(s)
<1>1. n \in Text
  BY CleanTwice
<1>2. \/ IssuedNPWP(n)
      \/ Len(n) = 16 /\ n[1] = 0 /\ IssuedNPWP(SubSeq(n, 2, 16))
      \/ \E woman \in BOOLEAN : NIKOfSomebody(n, woman)
  BY DEF NPWPNumber
<1>3. ValidNPWP(s) <=> \/ ValidNPWP15(n)
                       \/ Len(n) = 16 /\ (IF n[1] = 0 THEN ValidNPWP15(SubSeq(n, 2, 16)) ELSE ValidNIK(n))
  BY DEF ValidNPWP, ValidNPWP16
<1> HIDE DEF n
<1>4. CASE IssuedNPWP(n)
  BY <1>1, <1>3, <1>4, IssuedNPWPIsValid
<1>5. CASE Len(n) = 16 /\ n[1] = 0 /\ IssuedNPWP(SubSeq(n, 2, 16))
  <2>1. SubSeq(n, 2, 16) \in Text
    <3>1. n \in Seq(0 .. Other) /\ 1 \in Nat /\ 15 \in Nat
      BY <1>1 DEF Text
    <3>2. 1 + 15 <= Len(n) /\ 1 + 1 = 2 /\ 1 + 15 = 16
      BY <1>5
    <3>3. PartOf(0 .. Other, SubSeq(n, 1 + 1, 1 + 15), n, 1, 15)
      BY <3>1, <3>2, Part, Zenon
    <3> QED
      BY <3>2, <3>3 DEF PartOf, Text
  <2> QED
    BY <1>3, <1>5, <2>1, IssuedNPWPIsValid
<1>6. CASE \E woman \in BOOLEAN : NIKOfSomebody(n, woman)
  <2>1. ValidNIK(n)
    BY <1>6, SomebodysNIKIsValid
  <2>2. n[1] # 0 /\ Len(n) = 16
    <3>1. Len(n) = 16 /\ Digits(n) /\ Two(n, 1) \in Provinces
      BY <2>1 DEF ValidNIK
    <3>2. n[1] \in 0 .. 9 /\ n[2] \in 0 .. 9
      BY <1>1, <3>1 DEF Digits, Text
    <3>3. Two(n, 1) > 9
      BY <3>1 DEF Provinces
    <3> QED
      BY <3>1, <3>2, <3>3 DEF Two
  <2> QED
    BY <1>3, <2>1, <2>2
<1> QED
  BY <1>2, <1>4, <1>5, <1>6

LEMMA GenuineNPWPAccepted ==
  ASSUME NEW doc \in NPWPData, GenuineNPWP(doc)
  PROVE  LET e == [[doc EXCEPT !.npwp = Clean(@)] EXCEPT !.nik = Clean(@)] IN ValidateNPWPData(e)
<1> DEFINE e == [[doc EXCEPT !.npwp = Clean(@)] EXCEPT !.nik = Clean(@)]
<1>1. /\ e.npwp = Clean(doc.npwp) /\ e.nik = Clean(doc.nik) /\ e.registered = doc.registered
      /\ e.has = doc.has /\ doc.npwp \in Text /\ doc.nik \in Text
  BY DEF NPWPData
<1>2. /\ NPWPNumber(doc.npwp)
      /\ doc.nik = <<>> \/ \E woman \in BOOLEAN : NIKOfSomebody(Clean(doc.nik), woman)
      /\ doc.registered = Missing \/ (Parses(doc.registered) /\ Ord(doc.registered) <= Ord(Tomorrow))
      /\ doc.has = {"nama", "alamat", "kpp"}
  BY DEF GenuineNPWP
<1> HIDE DEF e
<1>3. ValidNPWP(e.npwp)
  BY <1>1, <1>2, NPWPNumberIsValid, NumberCleanedTwice
<1>4. e.nik # <<>> => ValidNIK(Clean(e.nik))
  <2>1. CASE doc.nik = <<>>
    <3>1. <<>> \in Seq(0 .. 9)
      OBVIOUS
    <3> QED
      BY <1>1, <2>1, <3>1, CleanOfDigits
  <2>2. CASE \E woman \in BOOLEAN : NIKOfSomebody(Clean(doc.nik), woman)
    <3>1. ValidNIK(Clean(doc.nik))
      BY <2>2, SomebodysNIKIsValid
    <3> QED
      BY <1>1, <3>1, CleanTwice
  <2> QED
    BY <1>2, <2>1, <2>2
<1>5. {"nama", "alamat", "kpp"} \subseteq e.has
  BY <1>1, <1>2
<1>6. ValidateNPWPData(e)
  BY <1>1, <1>2, <1>3, <1>4, <1>5 DEF ValidateNPWPData
<1> QED
  BY <1>6 DEF e

LEMMA KKNumberIsValid ==
  ASSUME NEW s \in Text, KKNumber(s)
  PROVE  ValidNomorKK(s)
<1> DEFINE n == Clean(s)
<1>1. n \in Seq(0 .. 9)
  BY CleanDigits
<1>2. /\ Len(n) = 16 /\ Region(n) /\ Serial(n)
      /\ \E century \in {1900, 2000} : OnCalendar(Day(century + Two(n, 11), Two(n, 9), Two(n, 7)))
  BY DEF KKNumber
<1>3. ValidNomorKK(s) <=>
        /\ Len(n) = 16 /\ Two(n, 1) \in Provinces /\ Serial(n) /\ Two(n, 9) \in 1 .. 12
        /\ Two(n, 7) \in 1 .. MonthDays(Two(n, 9), Two(n, 11) % 4 = 0)
  BY DEF ValidNomorKK
<1> HIDE DEF n
<1>4. PICK century \in {1900, 2000} : OnCalendar(Day(century + Two(n, 11), Two(n, 9), Two(n, 7)))
  BY <1>2
<1>5. Two(n, 11) \in Nat
  <2>1. Len(n) = 16
    BY <1>2
  <2>2. ASSUME NEW i \in 1 .. Len(n) PROVE n[i] \in 0 .. 9
    BY <1>1, ElementOfSeq
  <2>3. n[11] \in 0 .. 9 /\ n[12] \in 0 .. 9
    BY <2>1, <2>2
  <2> QED
    BY <2>3 DEF Two
<1>6. /\ Two(n, 9) \in 1 .. 12
      /\ Two(n, 7) \in 1 .. MonthDays(Two(n, 9), Leap(century + Two(n, 11)))
  BY <1>4 DEF OnCalendar, Day
<1>7. Leap(century + Two(n, 11)) => Two(n, 11) % 4 = 0
  <2>1. \A y \in Nat : ((1900 + y) % 4 = 0 \/ (2000 + y) % 4 = 0) => y % 4 = 0
    OBVIOUS
  <2> QED
    BY <1>5, <2>1 DEF Leap
<1>8. Two(n, 7) \in 1 .. MonthDays(Two(n, 9), Two(n, 11) % 4 = 0)
  <2>1. CASE Leap(century + Two(n, 11)) <=> Two(n, 11) % 4 = 0
    BY <1>6, <2>1 DEF MonthDays
  <2>2. CASE ~Leap(century + Two(n, 11)) /\ Two(n, 11) % 4 = 0
    BY <1>6, <2>2 DEF MonthDays
  <2> QED
    BY <1>7, <2>1, <2>2
<1> QED
  BY <1>2, <1>3, <1>6, <1>8 DEF Region

LEMMA PrefixWithin ==
  ASSUME NEW part \in Seq(STRING), NEW name \in Seq(STRING), IsPrefix(part, name)
  PROVE  Within(part, name)
<1>1. Len(part) \in Nat /\ Len(name) \in Nat /\ Len(part) <= Len(name)
  BY DEF IsPrefix
<1>2. SubSeq(part, 1, Len(part)) = part
  OBVIOUS
<1>3. SubSeq(name, 0 + 1, 0 + Len(part)) = part
  BY <1>1, <1>2 DEF IsPrefix
<1>4. Len(name) - Len(part) \in 0 .. Len(name) /\ 0 + Len(part) + (Len(name) - Len(part)) = Len(name)
  BY <1>1
<1>5. 0 \in 0 .. Len(name)
  BY <1>1
<1>6. PICK before, after \in 0 .. Len(name) : before = 0 /\ after = Len(name) - Len(part)
  BY <1>4, <1>5
<1>7. before + Len(part) + after = Len(name)
  BY <1>4, <1>6
<1>8. SubSeq(name, before + 1, before + Len(part)) = part
  BY <1>3, <1>6
<1> QED
  BY <1>7, <1>8 DEF Within

LEMMA GenuineKKAccepted ==
  ASSUME NEW doc \in KKData, GenuineKK(doc)
  PROVE  ValidateKK(doc) /\ ValidateKK([doc EXCEPT !.nomor = Clean(@)])
<1> DEFINE e == [doc EXCEPT !.nomor = Clean(@)]
<1>1. /\ e.nomor = Clean(doc.nomor) /\ e.head = doc.head /\ e.alamat = doc.alamat
      /\ e.members = doc.members /\ doc.nomor \in Text
  BY DEF KKData
<1>2. ValidNomorKK(doc.nomor) /\ ValidNomorKK(e.nomor)
  BY <1>1, KKNumberIsValid, NumberCleanedTwice DEF GenuineKK
<1> HIDE DEF e
<1>3. \A i \in DOMAIN doc.members : LET m == doc.members[i] IN
        /\ m.nama # <<>> /\ ValidNIK(m.nik)
        /\ m.gender \in {"LAKI-LAKI", "PEREMPUAN"} /\ m.relation \in KKRelations
  <2> SUFFICES ASSUME NEW i \in DOMAIN doc.members
               PROVE  LET m == doc.members[i] IN
                      /\ m.nama # <<>> /\ ValidNIK(m.nik)
                      /\ m.gender \in {"LAKI-LAKI", "PEREMPUAN"} /\ m.relation \in KKRelations
    OBVIOUS
  <2> DEFINE m == doc.members[i]
  <2>1. /\ m.nama # <<>> /\ m.relation \in KKRelations /\ m.gender \in {"LAKI-LAKI", "PEREMPUAN"}
        /\ NIKOfSomebody(m.nik, m.gender = "PEREMPUAN")
    BY DEF GenuineKK
  <2>2. PICK woman \in BOOLEAN : woman = (m.gender = "PEREMPUAN")
    OBVIOUS
  <2>3. ValidNIK(m.nik)
    BY <2>1, <2>2, SomebodysNIKIsValid
  <2> QED
    BY <2>1, <2>3
<1>4. PICK h \in DOMAIN doc.members :
        /\ \A i \in DOMAIN doc.members : doc.members[i].relation = "KEPALA KELUARGA" <=> i = h
        /\ IsPrefix(doc.head, doc.members[h].nama)
  BY DEF GenuineKK
<1>5. Heads(doc) = {h} /\ Heads(e) = {h}
  BY <1>1, <1>4 DEF Heads
<1>6. Cardinality({h}) = 1
  BY FS_Singleton
<1>7. doc.head # <<>> /\ doc.alamat
  BY DEF GenuineKK
<1>10. Within(doc.head, doc.members[h].nama)
  <2>1. doc.head \in Seq(STRING) /\ doc.members[h].nama \in Seq(STRING)
    <3>1. /\ doc.head \in Seq(STRING)
          /\ doc.members \in Seq([nama : Seq(STRING), nik : Text, gender : STRING, relation : STRING])
      BY DEF KKData
    <3>2. h \in 1 .. Len(doc.members)
      BY <3>1
    <3>3. doc.members[h] \in [nama : Seq(STRING), nik : Text, gender : STRING, relation : STRING]
      BY <3>1, <3>2, ElementOfSeq
    <3> QED
      BY <3>1, <3>3
  <2> QED
    BY <1>4, <2>1, PrefixWithin
<1>8. ValidateKK(doc)
  BY <1>2, <1>3, <1>4, <1>5, <1>6, <1>7, <1>10 DEF ValidateKK
<1>9. ValidateKK(e)
  BY <1>1, <1>2, <1>3, <1>4, <1>5, <1>6, <1>7, <1>10 DEF ValidateKK
<1> QED
  BY <1>8, <1>9 DEF e

(* The parts of a genuine invoice. *)
InvoiceHead(doc) ==
  /\ doc.header /\ doc.currency \in Currencies
  /\ Parses(doc.issued) /\ doc.issued.y \in 1990 .. 2100
  /\ doc.due = Missing \/ (Parses(doc.due) /\ Ord(doc.due) >= Ord(doc.issued))
  /\ \A party \in {doc.seller, doc.buyer} : party = <<>> \/ NPWPNumber(party)
InvoiceLines(items) ==
  \A i \in DOMAIN items : LET it == items[i] IN
    it.qty > 0 /\ it.price >= 0 /\ Printed(it.total, it.qty * it.price)
InvoiceSum(doc) == IF doc.items = <<>> THEN doc.subtotal ELSE LinePrices(doc.items)
InvoiceAmounts(doc, sum, base) ==
  /\ doc.discount >= 0 /\ base > 0 /\ Taxed(base, doc.ppn)
  /\ Printed(doc.subtotal, sum) /\ Printed(doc.dpp, base) /\ Printed(doc.grand, base + doc.ppn)

LEMMA InvoiceParts ==
  ASSUME NEW doc
  PROVE  GenuineInvoice(doc) <=>
           /\ InvoiceHead(doc) /\ InvoiceLines(doc.items)
           /\ InvoiceAmounts(doc, InvoiceSum(doc), InvoiceSum(doc) - doc.discount)
<1>1. PICK sum : sum = IF doc.items = <<>> THEN doc.subtotal ELSE LinePrices(doc.items)
  OBVIOUS
<1>2. PICK base : base = sum - doc.discount
  OBVIOUS
<1>3. GenuineInvoice(doc) <=>
        /\ InvoiceHead(doc) /\ InvoiceLines(doc.items) /\ InvoiceAmounts(doc, sum, base)
  BY <1>1, <1>2 DEF GenuineInvoice, InvoiceHead, InvoiceLines, InvoiceAmounts
<1>4. InvoiceSum(doc) = sum
  BY <1>1 DEF InvoiceSum
<1> QED
  BY <1>2, <1>3, <1>4

LEMMA GenuineLines ==
  ASSUME NEW items \in Seq(LineItem), InvoiceLines(items)
  PROVE  LET f == FilledItems(items) IN
         /\ \A i \in DOMAIN items : ~BadItem(items[i])
         /\ InvoiceLines(f)
         /\ ItemSum(f) = LinePrices(items) /\ LinePrices(f) = LinePrices(items)
         /\ LinePrices(items) \in Int
<1> DEFINE f == FilledItems(items)
           P(it) == it.qty * it.price
<1>1. /\ f \in Seq(LineItem) /\ DOMAIN f = DOMAIN items
      /\ f = [i \in DOMAIN items |->
                IF items[i].total = 0 /\ \A j \in 1 .. i : ~BadItem(items[j])
                  THEN [items[i] EXCEPT !.total = P(items[i])] ELSE items[i]]
  BY LinesFilled DEF FilledItems
<1>2. ASSUME NEW i \in DOMAIN items
      PROVE  /\ items[i] \in LineItem /\ P(items[i]) \in Int
             /\ items[i].qty > 0 /\ items[i].price >= 0 /\ items[i].total \in {0, P(items[i])}
  <2>1. items[i] \in LineItem
    OBVIOUS
  <2>2. P(items[i]) \in Int
    BY <2>1 DEF LineItem
  <2>3. items[i].qty > 0 /\ items[i].price >= 0 /\ Printed(items[i].total, P(items[i]))
    BY DEF InvoiceLines
  <2> QED
    BY <2>1, <2>2, <2>3 DEF Printed
<1>3. ASSUME NEW i \in DOMAIN items PROVE ~BadItem(items[i])
  <2>1. BadItem(items[i]) <=> \/ items[i].qty <= 0 \/ items[i].price < 0
                              \/ items[i].total # 0 /\ Gap(items[i].total, P(items[i])) > Rounding
    BY DEF BadItem
  <2>2. PICK q \in Int, p \in Int, t \in Int, v \in Int :
          q = items[i].qty /\ p = items[i].price /\ t = items[i].total /\ v = P(items[i])
    BY <1>2 DEF LineItem
  <2>3. q > 0 /\ p >= 0 /\ t \in {0, v}
    BY <1>2, <2>2
  <2>4. t # 0 => Gap(t, v) = 0
    BY <2>3 DEF Gap
  <2> HIDE DEF P
  <2> QED
    BY <2>1, <2>2, <2>3, <2>4 DEF Rounding
<1>4. ASSUME NEW i \in DOMAIN items
      PROVE  /\ f[i].qty = items[i].qty /\ f[i].price = items[i].price
             /\ f[i].total = P(items[i]) /\ P(f[i]) = P(items[i])
  <2>1. \A j \in 1 .. i : j \in DOMAIN items
    OBVIOUS
  <2>2. f[i] = IF items[i].total = 0 THEN [items[i] EXCEPT !.total = P(items[i])] ELSE items[i]
    BY <1>1, <1>3, <2>1
  <2>3. items[i] \in LineItem /\ items[i].total \in {0, P(items[i])}
    BY <1>2
  <2> HIDE DEF f
  <2>4. CASE items[i].total = 0
    BY <2>2, <2>3, <2>4 DEF LineItem
  <2>5. CASE items[i].total # 0
    BY <2>2, <2>3, <2>5
  <2> QED
    BY <2>4, <2>5
<1> HIDE DEF f, P
<1>5. InvoiceLines(f)
  BY <1>1, <1>2, <1>4 DEF InvoiceLines, Printed, P
<1>6. /\ [i \in DOMAIN f |-> f[i].total] = [i \in DOMAIN items |-> P(items[i])]
      /\ [i \in DOMAIN f |-> P(f[i])] = [i \in DOMAIN items |-> P(items[i])]
  BY <1>1, <1>4, Zenon
<1>7. ItemSum(f) = LinePrices(items) /\ LinePrices(f) = LinePrices(items)
  BY <1>6 DEF ItemSum, LinePrices, P
<1>8. ItemSum(f) \in Int
  BY <1>1, ItemSumInt
<1> QED
  BY <1>3, <1>5, <1>7, <1>8 DEF f

(* A tax at a rate of the law, rounded to a whole amount, is at that rate. *)
LEMMA TaxedAtRate ==
  ASSUME NEW base \in Int, NEW ppn \in Int, base > 0, Taxed(base, ppn)
  PROVE  ppn >= 0 /\ PPNRateOK(base, ppn)
<1>1. CASE ppn = 0
  BY <1>1 DEF PPNRateOK
<1>2. CASE ppn # 0
  <2>1. PICK rate \in {10, 11, 12} : Gap(100 * ppn, rate * base) <= 50
    BY <1>2 DEF Taxed
  <2>2. PICK x \in Int : x = rate * base
    BY <2>1
  <2>3. x > 0
    BY <2>1, <2>2
  <2>4. Gap(100 * ppn, x) <= 50
    BY <2>1, <2>2
  <2>5. ppn >= 0
    BY <2>3, <2>4 DEF Gap
  <2>6. 20 * rate * base = 20 * x
    BY <2>1, <2>2
  <2>7. Gap(2000 * ppn, 20 * x) <= 1000
    BY <2>4 DEF Gap
  <2>8. Gap(2000 * ppn, 20 * rate * base) <= (IF base > 4000 THEN base ELSE 4000)
    <3>1. Gap(2000 * ppn, 20 * x) \in Int
      BY DEF Gap
    <3> QED
      BY <2>6, <2>7, <3>1
  <2> QED
    BY <2>1, <2>5, <2>8 DEF PPNRateOK
<1> QED
  BY <1>1, <1>2

LEMMA GenuineInvoiceAccepted ==
  ASSUME NEW doc \in InvoiceData, GenuineInvoice(doc)
  PROVE  /\ ValidateInvoice(doc).ok /\ ValidateInvoice(doc).data \in InvoiceData
         /\ GenuineInvoice(ValidateInvoice(doc).data)
<1>1. PICK sum \in Int, base \in Int : sum = InvoiceSum(doc) /\ base = sum - doc.discount
  <2>1. doc.subtotal \in Int /\ doc.discount \in Int /\ doc.items \in Seq(LineItem)
    BY DEF InvoiceData
  <2>2. InvoiceSum(doc) \in Int
    BY <2>1, InvoiceParts, GenuineLines DEF InvoiceSum
  <2> QED
    BY <2>1, <2>2
<1>2. InvoiceHead(doc) /\ InvoiceLines(doc.items) /\ InvoiceAmounts(doc, sum, base)
  BY <1>1, InvoiceParts
<1>3. /\ doc.subtotal \in Int /\ doc.discount \in Int /\ doc.dpp \in Int /\ doc.ppn \in Int
      /\ doc.grand \in Int /\ doc.items \in Seq(LineItem) /\ doc.seller \in Text /\ doc.buyer \in Text
  BY DEF InvoiceData
<1> DEFINE f == FilledItems(doc.items)
<1>4. /\ LinesGood(doc) /\ InvoiceLines(f)
      /\ LinesSum(doc) = LinePrices(doc.items) /\ LinePrices(f) = LinePrices(doc.items)
  BY <1>2, <1>3, GenuineLines DEF LinesGood, LinesSum
<1> HIDE DEF f
<1>5. HeaderOK(doc)
  <2>1. Placeholder(doc.seller) \/ ValidNPWP(doc.seller)
    BY <1>2, <1>3, NPWPNumberIsValid DEF InvoiceHead, Placeholder
  <2>2. Placeholder(doc.buyer) \/ ValidNPWP(doc.buyer)
    BY <1>2, <1>3, NPWPNumberIsValid DEF InvoiceHead, Placeholder
  <2>3. doc.currency \in Currencies
    BY <1>2 DEF InvoiceHead
  <2>4. doc.currency # "bad"
    BY <2>3, Zenon DEF Currencies
  <2> QED
    BY <1>2, <2>1, <2>2, <2>4, ZenonT(60) DEF InvoiceHead, HeaderOK
<1>6. doc.discount >= 0 /\ base > 0 /\ sum > doc.discount /\ sum > 0
  BY <1>1, <1>2, <1>3 DEF InvoiceAmounts
<1>7. ~Mismatch(doc)
  <2>1. doc.items # <<>> => sum = LinesSum(doc)
    BY <1>1, <1>4 DEF InvoiceSum
  <2>2. doc.subtotal \in {0, sum}
    BY <1>2 DEF InvoiceAmounts, Printed
  <2> QED
    BY <2>1, <2>2 DEF Mismatch, Gap, Rounding
<1>8. PICK d : d = Summed(doc)
  OBVIOUS
<1>9. /\ d \in InvoiceData /\ SameParties(doc, d) /\ d.items = f
      /\ (f = <<>>) <=> (doc.items = <<>>)
      /\ d.subtotal = sum /\ d.discount = doc.discount /\ d.dpp = doc.dpp /\ d.ppn = doc.ppn
      /\ d.grand = doc.grand
  <2>1. /\ d \in InvoiceData /\ SameParties(doc, d) /\ d.items = f
        /\ Lined(doc).items = f
        /\ (Lined(doc).items = <<>>) <=> (doc.items = <<>>)
        /\ d.subtotal = (IF doc.items # <<>> /\ doc.subtotal = 0 THEN LinesSum(doc) ELSE doc.subtotal)
        /\ d.discount = doc.discount /\ d.dpp = doc.dpp /\ d.ppn = doc.ppn /\ d.grand = doc.grand
    BY <1>8, LinesChecked DEF f
  <2>2. doc.items = <<>> => doc.subtotal = sum
    BY <1>1 DEF InvoiceSum
  <2>3. doc.items # <<>> => LinesSum(doc) = sum
    BY <1>1, <1>4 DEF InvoiceSum
  <2>4. doc.subtotal \in {0, sum}
    BY <1>2 DEF InvoiceAmounts, Printed
  <2>5. d.subtotal = sum
    BY <2>1, <2>2, <2>3, <2>4
  <2> QED
    BY <2>1, <2>5
<1>10. doc.dpp \in {0, base} /\ doc.grand \in {0, base + doc.ppn} /\ Taxed(base, doc.ppn)
  BY <1>2 DEF InvoiceAmounts, Printed
<1>11. doc.ppn >= 0 /\ PPNRateOK(base, doc.ppn)
  BY <1>3, <1>6, <1>10, TaxedAtRate
<1>12. BaseOf(d) = base /\ ~FromTotal(d) /\ ~DiscountBad(d)
  BY <1>1, <1>3, <1>6, <1>9, <1>10 DEF BaseOf, FromTotal, DiscountBad, Rounding
<1>13. ~TaxBad(d)
  <2>1. PPNRateOK(BaseOf(d), d.ppn)
    BY <1>9, <1>11, <1>12
  <2>2. ~(BaseOf(d) < -Rounding) /\ ~(d.ppn < 0)
    BY <1>3, <1>6, <1>9, <1>11, <1>12 DEF Rounding
  <2> QED
    BY <2>1, <2>2, Zenon DEF TaxBad
<1>14. TotalOf(d) = base + doc.ppn /\ TotalOf(d) > 0
  BY <1>3, <1>6, <1>9, <1>10, <1>11, <1>12 DEF TotalOf
<1>15. Passes(d)
  <2>1. Gap(base + doc.ppn, base + doc.ppn) = 0
    BY <1>3 DEF Gap
  <2> QED
    BY <1>9, <1>12, <1>13, <1>14, <2>1 DEF Passes, Rounding
<1>16. PICK e : e = CheckDiscount(d).data
  OBVIOUS
<1>17. ValidateInvoice(doc).ok /\ ValidateInvoice(doc).data = e
  BY <1>4, <1>5, <1>7, <1>8, <1>9, <1>15, <1>16, InvoiceStages, PassesIsOk
<1>18. /\ e \in InvoiceData /\ SameParties(d, e) /\ e.items = f /\ e.discount = doc.discount
       /\ e.ppn = doc.ppn /\ e.dpp = base /\ e.subtotal = sum /\ e.grand = base + doc.ppn
  BY <1>9, <1>12, <1>13, <1>14, <1>16, AmountsChecked
<1>19. InvoiceHead(e)
  BY <1>2, <1>9, <1>18 DEF InvoiceHead, SameParties
<1>20. InvoiceSum(e) = sum
  BY <1>1, <1>4, <1>9, <1>18 DEF InvoiceSum
<1>21. InvoiceAmounts(e, sum, base)
  BY <1>6, <1>10, <1>18 DEF InvoiceAmounts, Printed
<1> QED
  BY <1>1, <1>4, <1>17, <1>18, <1>19, <1>20, <1>21, InvoiceParts

LEMMA AcceptedKeepsGiven ==
  ASSUME NEW doc, Finished(doc), req.type \notin Scored, Accepts(req.type, req.res.data),
         req.type # "npwp" => Accepts(req.type, doc)
  PROVE  Conf = Given(req.given)
<1>1. req.res = Extracted(req.type, doc, req.given)
  BY DEF Finished, Done, RequestInv
<1>2. req.out.conf = Capped(req.type, req.res.data, req.res.conf)
  BY DEF Finished, Done, RequestInv, Normalized
<1>3. req.res.conf = Given(req.given)
  BY <1>1 DEF Extracted
<1> QED
  BY <1>2, <1>3 DEF Capped, Conf

(* A genuine document read as it is gets a full score, or the confidence of *)
(* the provider: no check of its type refuses what its issuer writes.       *)
THEOREM GenuineAccepted == PipelineSpec => []FaithfulReadingAccepted
<1>1. ASSUME RequestInv
      PROVE  FaithfulReadingAccepted
  <2> SUFFICES ASSUME NEW doc, Finished(doc), doc = Read, Genuine(req.type, doc)
               PROVE  FaithfulReadingAccepted
    BY <1>1, ReadingOfRequest DEF FaithfulReadingAccepted, Read
  <2>0. doc \in Documents(req.type)
    BY DEF Finished
  <2>1. CASE req.type = "ktp"
    <3>1. doc \in KTPData /\ GenuineKTP(doc)
      BY <2>0, <2>1 DEF Documents, Genuine
    <3>2. Conf = 100
      BY <2>1, <3>1, ScoredTwice, GenuineKTPScore DEF Scored
    <3> QED
      BY <2>1, <3>2 DEF FaithfulReadingAccepted, Scored
  <2>2. CASE req.type = "sim"
    <3>1. doc \in SIMData /\ GenuineSIM(doc)
      BY <2>0, <2>2 DEF Documents, Genuine
    <3>2. Conf = 100
      BY <2>2, <3>1, ScoredTwice, GenuineSIMScore DEF Scored
    <3> QED
      BY <2>2, <3>2 DEF FaithfulReadingAccepted, Scored
  <2>3. CASE req.type = "passport"
    <3>1. doc \in PassportData /\ GenuinePassport(doc)
      BY <2>0, <2>3 DEF Documents, Genuine
    <3>2. Conf >= 95
      BY <2>3, <3>1, ScoredTwice, GenuinePassportScore DEF Scored
    <3> QED
      BY <2>3, <3>2 DEF FaithfulReadingAccepted, Scored
  <2>4. CASE req.type = "npwp"
    <3>1. doc \in NPWPData /\ GenuineNPWP(doc)
      BY <2>0, <2>4 DEF Documents, Genuine
    <3>2. req.res.data = [[doc EXCEPT !.npwp = Clean(@)] EXCEPT !.nik = Clean(@)]
      BY <2>4, AcceptedOrCapped DEF Scored, Tidied
    <3>3. Accepts(req.type, req.res.data)
      BY <2>4, <3>1, <3>2, GenuineNPWPAccepted DEF Accepts
    <3>4. Conf = Given(req.given)
      BY <2>4, <3>3, AcceptedKeepsGiven DEF Scored
    <3> QED
      BY <2>4, <3>4 DEF FaithfulReadingAccepted, Scored
  <2>5. CASE req.type = "kk"
    <3>1. doc \in KKData /\ GenuineKK(doc)
      BY <2>0, <2>5 DEF Documents, Genuine
    <3>2. req.res.data = [doc EXCEPT !.nomor = Clean(@)]
      BY <2>5, AcceptedOrCapped DEF Scored, Tidied
    <3>3. Accepts(req.type, doc) /\ Accepts(req.type, req.res.data)
      BY <2>5, <3>1, <3>2, GenuineKKAccepted DEF Accepts
    <3>4. Conf = Given(req.given)
      BY <2>5, <3>3, AcceptedKeepsGiven DEF Scored
    <3> QED
      BY <2>5, <3>4 DEF FaithfulReadingAccepted, Scored
  <2>6. CASE req.type = "invoice"
    <3>1. doc \in InvoiceData /\ GenuineInvoice(doc)
      BY <2>0, <2>6 DEF Documents, Genuine
    <3>2. req.res.data = ValidateInvoice(doc).data
      BY <2>6, AcceptedOrCapped DEF Scored, Tidied
    <3>3. Accepts(req.type, doc) /\ Accepts(req.type, req.res.data)
      BY <2>6, <3>1, <3>2, GenuineInvoiceAccepted DEF Accepts
    <3>4. Conf = Given(req.given)
      BY <2>6, <3>3, AcceptedKeepsGiven DEF Scored
    <3> QED
      BY <2>6, <3>4 DEF FaithfulReadingAccepted, Scored
  <2> QED
    BY <2>1, <2>2, <2>3, <2>4, <2>5, <2>6 DEF Finished, Types
<1> QED
  BY <1>1, RequestInvariant, PTL
==============================================================================
