--------------------------- MODULE CircuitBreaker ---------------------------
(***************************************************************************)
(* The in-process circuit breaker in front of the OCR engine               *)
(* (services/ocr/circuit_breaker.go).  Every HTTP request runs on its own  *)
(* goroutine; Calls is a pool of such goroutines, each of which enters     *)
(* Execute again and again.  Execute takes cb.mu three times: in           *)
(* beforeCall, in currentTimeout and in afterCall.  Other calls run        *)
(* between those critical sections, so each of them is an action here.     *)
(*                                                                         *)
(* Time is kept as the age of the current state, which the code only ever  *)
(* compares with Cooldown: sinceChange saturates there.                    *)
(***************************************************************************)
EXTENDS Integers, FiniteSets

CONSTANTS
  Calls,            \* goroutines that may be inside Execute at the same time
  FailureThreshold, \* consecutive failures that open a closed breaker
  SuccessThreshold, \* successes that close a half-open breaker
  Cooldown,         \* ticks the breaker stays open before it probes
  AdaptiveTimeout,  \* cfg.AdaptiveTimeout
  Timeout,          \* cfg.Timeout, in ticks; 0 disables the deadline
  MinTimeout,       \* cfg.MinTimeout, in ticks
  Faults            \* what the environment may do, see FaultKinds

(***************************************************************************)
(* "outage": the provider stops answering correctly for a while.           *)
(* "cancel": a client goes away while the engine works for it.             *)
(* "panic":  the engine panics; Recover() keeps the process alive.         *)
(* "manual": somebody calls the exported Trip or Reset.                    *)
(***************************************************************************)
FaultKinds == {"outage", "cancel", "panic", "manual"}

ASSUME BreakerAssumption ==
  /\ IsFiniteSet(Calls)
  /\ FailureThreshold \in Nat \ {0}
  /\ SuccessThreshold \in Nat \ {0}
  /\ Cooldown \in Nat \ {0}
  /\ AdaptiveTimeout \in BOOLEAN
  /\ Timeout \in Nat
  /\ MinTimeout \in Nat
  /\ Faults \subseteq FaultKinds

VARIABLES
  state,                \* cb.state
  consecutiveFailures,  \* cb.consecutiveFailures
  consecutiveSuccesses, \* cb.consecutiveSuccesses
  halfOpenInFlight,     \* cb.halfOpenInFlight
  sinceChange,          \* now - cb.lastStateChange, saturating at Cooldown
  pc,                   \* where each goroutine is in Execute
  timeout,              \* the execTimeout the goroutine computed
  healthy,              \* is the provider answering correctly?
  mayFail,              \* calls whose request reached a sick provider
  probes,               \* history: this half-open period's probes in flight
  probesAdmitted,       \* history: probes admitted in this half-open period
  leaked                \* history: probes that panicked and left the slot taken

breaker == <<state, consecutiveFailures, consecutiveSuccesses,
             halfOpenInFlight, sinceChange>>
upstream == <<healthy, mayFail>>
history  == <<probes, probesAdmitted, leaked>>
vars     == <<breaker, pc, timeout, upstream, history>>

States   == {"closed", "halfOpen", "open"}
PCs      == {"idle", "admitted", "running"}

-----------------------------------------------------------------------------
(***************************************************************************)
(* What the engine hands back.  "ok" is a nil error, "unsupported" is      *)
(* ErrUnsupportedDocument, "failed" is ErrOCRFailed (an HTTP error, an     *)
(* unreadable answer, an expired deadline), "cancelled" is ErrOCRFailed    *)
(* wrapped around context.Canceled because the client disconnected.        *)
(***************************************************************************)
Outcomes == {"ok", "unsupported", "failed", "cancelled"}

IsFailure(o) == o \notin {"ok", "unsupported"}

EngineReturns(c, o) ==
  /\ o = "failed"    => ~healthy \/ c \in mayFail
  /\ o = "cancelled" => "cancel" \in Faults

(***************************************************************************)
(* The deadline for a call that starts after `failures' consecutive        *)
(* failures.  Durations are integers and Go divides them towards zero.     *)
(***************************************************************************)
Floor == IF MinTimeout = 0 \/ MinTimeout >= Timeout THEN Timeout \div 2 ELSE MinTimeout

CurrentTimeout(failures) ==
  IF Timeout = 0 \/ ~AdaptiveTimeout \/ FailureThreshold <= 1 \/ failures <= 0
    THEN Timeout
    ELSE LET f == IF failures >= FailureThreshold THEN FailureThreshold - 1 ELSE failures
             effective == Timeout - (((Timeout - Floor) * f) \div FailureThreshold)
         IN  IF effective < Floor THEN Floor ELSE effective

-----------------------------------------------------------------------------
Init ==
  /\ state = "closed"
  /\ consecutiveFailures = 0
  /\ consecutiveSuccesses = 0
  /\ halfOpenInFlight = 0
  /\ sinceChange = 0
  /\ pc = [c \in Calls |-> "idle"]
  /\ timeout = [c \in Calls |-> 0]
  /\ healthy = TRUE
  /\ mayFail = {}
  /\ probes = {}
  /\ probesAdmitted = 0
  /\ leaked = {}

\* transitionTo(next), called with next # cb.state: every counter restarts.
\* firstProbe is the set of calls beforeCall admits in the same critical section.
TransitionTo(next, firstProbe) ==
  /\ state' = next
  /\ sinceChange' = 0
  /\ consecutiveFailures' = 0
  /\ consecutiveSuccesses' = 0
  /\ halfOpenInFlight' = Cardinality(firstProbe)
  /\ probes' = firstProbe
  /\ probesAdmitted' = Cardinality(firstProbe)
  /\ leaked' = {}

-----------------------------------------------------------------------------
(* beforeCall.  A rejected call returns ErrCircuitOpen and changes nothing. *)

Enter(c) ==
  /\ pc[c] = "idle"
  /\ pc' = [pc EXCEPT ![c] = "admitted"]
  /\ UNCHANGED <<timeout, upstream>>

AdmitClosed(c) ==
  /\ state = "closed"
  /\ Enter(c)
  /\ UNCHANGED <<breaker, history>>

AdmitAfterCooldown(c) ==
  /\ state = "open"
  /\ sinceChange >= Cooldown
  /\ TransitionTo("halfOpen", {c})
  /\ Enter(c)

AdmitProbe(c) ==
  /\ state = "halfOpen"
  /\ halfOpenInFlight < 1
  /\ halfOpenInFlight' = halfOpenInFlight + 1
  /\ probes' = probes \cup {c}
  /\ probesAdmitted' = probesAdmitted + 1
  /\ Enter(c)
  /\ UNCHANGED <<state, consecutiveFailures, consecutiveSuccesses, sinceChange, leaked>>

BeforeCall(c) == AdmitClosed(c) \/ AdmitAfterCooldown(c) \/ AdmitProbe(c)

\* Execute between beforeCall and afterCall: read the counter again under its
\* own lock, set the deadline, send the request to the provider.
StartCall(c) ==
  /\ pc[c] = "admitted"
  /\ pc' = [pc EXCEPT ![c] = "running"]
  /\ timeout' = [timeout EXCEPT ![c] = CurrentTimeout(consecutiveFailures)]
  /\ mayFail' = IF healthy THEN mayFail ELSE mayFail \cup {c}
  /\ UNCHANGED <<breaker, history, healthy>>

-----------------------------------------------------------------------------
(* afterCall.  The call carries no note of the state it was admitted in:   *)
(* whatever state the breaker has reached meanwhile takes the outcome.      *)

Leave(c) ==
  /\ pc[c] = "running"
  /\ pc' = [pc EXCEPT ![c] = "idle"]
  /\ timeout' = [timeout EXCEPT ![c] = 0]
  /\ mayFail' = mayFail \ {c}
  /\ UNCHANGED healthy

RecordClosed(c, o) ==
  /\ state = "closed"
  /\ IF IsFailure(o) /\ consecutiveFailures + 1 >= FailureThreshold
       THEN TransitionTo("open", {})
       ELSE /\ consecutiveFailures' = IF IsFailure(o) THEN consecutiveFailures + 1 ELSE 0
            /\ UNCHANGED <<state, consecutiveSuccesses, halfOpenInFlight, sinceChange, history>>

\* Mutant: a successful probe keeps its slot.
MutantRecordHalfOpen(c, o) ==
  /\ state = "halfOpen"
  /\ IF IsFailure(o)
       THEN TransitionTo("open", {})
       ELSE IF consecutiveSuccesses + 1 >= SuccessThreshold
         THEN TransitionTo("closed", {})
         ELSE /\ consecutiveSuccesses' = consecutiveSuccesses + 1
              /\ probes' = probes \ {c}
              /\ UNCHANGED <<state, consecutiveFailures, halfOpenInFlight, sinceChange, probesAdmitted, leaked>>

\* Mutant: a success does not count towards SuccessThreshold.
MutantUncountedSuccess(c, o) ==
  /\ state = "halfOpen"
  /\ IF IsFailure(o)
       THEN TransitionTo("open", {})
       ELSE /\ halfOpenInFlight' = IF halfOpenInFlight > 0 THEN halfOpenInFlight - 1 ELSE 0
            /\ probes' = probes \ {c}
            /\ leaked' = {}
            /\ UNCHANGED <<state, consecutiveFailures, consecutiveSuccesses, sinceChange, probesAdmitted>>

RecordHalfOpen(c, o) ==
  /\ state = "halfOpen"
  /\ IF IsFailure(o)
       THEN TransitionTo("open", {})
       ELSE IF consecutiveSuccesses + 1 >= SuccessThreshold
         THEN TransitionTo("closed", {})
         ELSE /\ halfOpenInFlight' = IF halfOpenInFlight > 0 THEN halfOpenInFlight - 1 ELSE 0
              /\ consecutiveSuccesses' = consecutiveSuccesses + 1
              /\ probes' = probes \ {c}
              /\ leaked' = {}
              /\ UNCHANGED <<state, consecutiveFailures, sinceChange, probesAdmitted>>

\* Mutant: a late answer arriving while open closes the breaker again.
MutantRecordOpen ==
  /\ state = "open"
  /\ TransitionTo("closed", {})

RecordOpen ==
  /\ state = "open"
  /\ UNCHANGED <<breaker, history>>

AfterCall(c, o) ==
  /\ EngineReturns(c, o)
  /\ Leave(c)
  /\ RecordClosed(c, o) \/ RecordHalfOpen(c, o) \/ RecordOpen

\* fn panics: Execute has no deferred afterCall, so the goroutine unwinds past it.
EnginePanic(c) ==
  /\ "panic" \in Faults
  /\ Leave(c)
  /\ probes' = probes \ {c}
  /\ leaked' = IF halfOpenInFlight = 1 /\ probes' = {} THEN leaked \cup {c} ELSE leaked
  /\ UNCHANGED <<breaker, probesAdmitted>>

-----------------------------------------------------------------------------
Manual(next) ==
  /\ "manual" \in Faults
  /\ state # next
  /\ TransitionTo(next, {})
  /\ UNCHANGED <<pc, timeout, upstream>>

Trip  == Manual("open")
Reset == Manual("closed")

Tick ==
  /\ sinceChange < Cooldown
  /\ sinceChange' = sinceChange + 1
  /\ UNCHANGED <<state, consecutiveFailures, consecutiveSuccesses,
                 halfOpenInFlight, pc, timeout, upstream, history>>

\* The provider falls ill (with every request it is working on) or recovers.
ProviderChanges ==
  /\ "outage" \in Faults
  /\ healthy' = ~healthy
  /\ mayFail' = IF healthy THEN {c \in Calls : pc[c] = "running"} ELSE mayFail
  /\ UNCHANGED <<breaker, pc, timeout, history>>

Finish(c) == (\E o \in Outcomes : AfterCall(c, o)) \/ EnginePanic(c)

Next ==
  \/ \E c \in Calls : BeforeCall(c) \/ StartCall(c) \/ Finish(c)
  \/ Trip \/ Reset \/ Tick \/ ProviderChanges

Spec == Init /\ [][Next]_vars

(***************************************************************************)
(* Fairness: the clock advances; a goroutine that was let in proceeds; the *)
(* engine call ends, because execCtx has a deadline (Timeout > 0 in every  *)
(* configuration main.go builds); and clients keep sending requests.       *)
(***************************************************************************)
Fairness ==
  /\ WF_vars(Tick)
  /\ \A c \in Calls : WF_vars(StartCall(c)) /\ WF_vars(Finish(c))
  /\ WF_vars(\E c \in Calls : BeforeCall(c))

FairSpec == Spec /\ Fairness

-----------------------------------------------------------------------------
(* Every variable keeps the type the code gives it. *)
TypeOK ==
  /\ state \in States
  /\ consecutiveFailures \in Nat
  /\ consecutiveSuccesses \in Nat
  /\ halfOpenInFlight \in {0, 1}
  /\ sinceChange \in 0..Cooldown
  /\ pc \in [Calls -> PCs]
  /\ timeout \in [Calls -> 0..Timeout]
  /\ healthy \in BOOLEAN
  /\ mayFail \subseteq Calls
  /\ probes \subseteq Calls
  /\ probesAdmitted \in Nat
  /\ leaked \subseteq Calls

(* The counters belong to the state they count for: whatever order late    *)
(* outcomes arrive in, no counter survives a transition (transitionTo) or  *)
(* sits at its threshold without the transition having happened.           *)
CountersFitState ==
  /\ consecutiveFailures < FailureThreshold
  /\ consecutiveSuccesses < SuccessThreshold
  /\ state # "closed" => consecutiveFailures = 0
  /\ state # "halfOpen" => /\ consecutiveSuccesses = 0
                           /\ halfOpenInFlight = 0
                           /\ probes = {}

(* Between leaving "open" and settling, at most SuccessThreshold requests  *)
(* reach the provider, although outcomes of calls admitted earlier free    *)
(* the canary slot while a canary is still running (beforeCall/afterCall). *)
ProbeBudget ==
  state = "halfOpen" => probesAdmitted <= SuccessThreshold

(* A half-open breaker that rejects everybody does so because a probe of   *)
(* this half-open period is still running and will report back; the one    *)
(* other reason is a probe that panicked past afterCall.                   *)
SlotHeldByLiveProbe ==
  halfOpenInFlight = 1 /\ leaked = {} => \E c \in probes : pc[c] # "idle"

(* An open breaker stays open, and lets nobody through, until the cooldown *)
(* is over: no late answer and no manual Trip shortens it; only the manual *)
(* Reset may (beforeCall, afterCall's StateOpen branch, Trip).             *)
OpenUntilCooldown ==
  [][(state = "open" /\ sinceChange < Cooldown) =>
       /\ \A c \in Calls : ~(pc[c] = "idle" /\ pc'[c] = "admitted")
       /\ state' = "open" \/ ("manual" \in Faults /\ state' = "closed" /\ pc' = pc)]_vars

(* The deadline currentTimeout computes stays between its floor and        *)
(* cfg.Timeout, although it reads the failure count after beforeCall let   *)
(* go of the lock.                                                         *)
TimeoutInRange ==
  \A c \in Calls : pc[c] = "running" => timeout[c] \in Floor..Timeout

(* What keeps a breaker from settling although its provider is well. *)
Disturbance == Trip \/ Reset \/ \E c \in Calls : AfterCall(c, "cancelled")
Calm == <>[]healthy /\ <>[][~Disturbance]_vars

(* Once the provider answers correctly for good and nobody disturbs it,    *)
(* the breaker closes for good: no sequence of rejections, stale outcomes  *)
(* and probes wedges it, except a slot lost to a panic (Execute).          *)
RecoversUnlessLeaked == Calm /\ <>[](leaked = {}) => <>[](state = "closed")
(* The successes that recovery takes, and the probe before the first. *)
ToRecover == CASE state = "open"     -> SuccessThreshold + 1
               [] state = "halfOpen" -> SuccessThreshold - consecutiveSuccesses
               [] state = "closed"   -> 0

(* Recovery does not slip back.  While the provider is well and nobody     *)
(* disturbs the breaker, only a call that reached the provider before it   *)
(* was well can open it again, and each such call does so once at most;    *)
(* every other outcome that a half-open breaker takes, a stale one of a    *)
(* call it never chose as a probe included, is a step towards closed.      *)
RecoveryNeverSlips ==
  [][healthy /\ healthy' /\ ~Disturbance =>
       \/ \E c \in mayFail : mayFail' = mayFail \ {c}
       \/ /\ mayFail' = mayFail
          /\ ToRecover' <= ToRecover
          /\ (state = "halfOpen" /\ \E c \in Calls, o \in Outcomes : AfterCall(c, o))
               => ToRecover' < ToRecover]_vars
=============================================================================
