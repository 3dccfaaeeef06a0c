------------------------- MODULE RateLimitingProofs -------------------------
(***************************************************************************)
(* Safety of WindowLimiter, and of RateLimiting which composes it with the *)
(* fallback's buckets, for every number of calls and replicas, every set   *)
(* of plan limits, every window and every timeout shorter than it.         *)
(***************************************************************************)
EXTENDS RateLimiting, TLAPS

(* A call in flight counts in this window or the one before: it began at   *)
(* most DBTimeout < Window ticks ago.                                      *)
InFlightIsRecent ==
  \A c \in Calls : pc[c] = "counting" =>
    /\ callLimit[c] \in Limits
    /\ callWindow[c] = window \/ (callWindow[c] = window - 1 /\ offset < age[c])

(* In the windows calls can still count in, the row is the sum of what was *)
(* granted, refused and lost.  Older rows may be gone.                     *)
CountsAdd ==
  \A w \in Windows : w >= window - 1 => hits[w] = granted[w] + refused[w] + lost[w]

WindowInv ==
  /\ TypeOK
  /\ InFlightIsRecent
  /\ CountsAdd
  /\ GrantsWithinLimit
  /\ FullBeforeRefusal

-----------------------------------------------------------------------------
LEMMA InvInit == Init => WindowInv
BY WindowAssumption
DEF Init, WindowInv, TypeOK, Windows, PCs, InFlightIsRecent, CountsAdd, GrantsWithinLimit,
    FullBeforeRefusal

LEMMA ClockTyped ==
  ASSUME TypeOK
  PROVE  window \in 0 .. Horizon /\ offset \in 0 .. Window - 1 /\ window \in Int /\ offset \in Int
<1>1. window \in 0 .. Horizon /\ offset \in 0 .. Window - 1
  BY DEF TypeOK, Windows
<1> QED
  BY <1>1, WindowAssumption

(* A call in flight does not count in a window the cleaner sweeps. *)
LEMMA SweptIsOld ==
  ASSUME TypeOK, InFlightIsRecent
  PROVE  \A c \in Calls : pc[c] = "counting" => /\ callWindow[c] \in Windows
                                               /\ callWindow[c] >= window - 1
                                               /\ ~Elapsed(callWindow[c])
<1>1. window \in Int /\ offset \in Int
  BY ClockTyped
<1> SUFFICES ASSUME NEW c \in Calls, pc[c] = "counting"
             PROVE  /\ callWindow[c] \in Windows
                    /\ callWindow[c] >= window - 1
                    /\ ~Elapsed(callWindow[c])
  OBVIOUS
<1>2. callWindow[c] \in Windows /\ callWindow[c] \in Int
  BY DEF TypeOK, Windows
<1>3. callWindow[c] >= window - 1
  BY <1>1, <1>2 DEF InFlightIsRecent
<1> QED
  BY <1>1, <1>2, <1>3 DEF Elapsed

(* The steps that leave the tallies alone. *)
LEMMA InvArrive ==
  ASSUME WindowInv, NEW c \in Calls, Arrive(c)
  PROVE  WindowInv'
<1> USE WindowAssumption DEF WindowInv, history, clock
<1>1. TypeOK'
  BY DEF Arrive, TypeOK, PCs
<1>2. InFlightIsRecent'
  BY DEF Arrive, TypeOK, InFlightIsRecent
<1>3. CountsAdd' /\ GrantsWithinLimit' /\ FullBeforeRefusal'
  BY DEF Arrive, CountsAdd, GrantsWithinLimit, FullBeforeRefusal
<1> QED
  BY <1>1, <1>2, <1>3

LEMMA InvTick ==
  ASSUME WindowInv, Tick
  PROVE  WindowInv'
<1> USE WindowAssumption DEF WindowInv, history
<1>1. \/ offset + 1 < Window /\ offset' = offset + 1 /\ window' = window
      \/ offset + 1 = Window /\ window < Horizon /\ offset' = 0 /\ window' = window + 1
  BY DEF Tick
<1>2. window \in Nat /\ offset \in Nat /\ window' \in Windows /\ offset' \in 0 .. Window - 1
  BY <1>1, ClockTyped DEF Windows
<1>3. \A c \in Calls : /\ wait[c] \in Nat /\ wait'[c] \in Nat
                       /\ age[c] \in 0 .. DBTimeout /\ age'[c] \in 0 .. DBTimeout
                       /\ pc[c] = "counting" => age'[c] = age[c] + 1
  BY DEF Tick, TypeOK
<1>4. TypeOK'
  BY <1>2, <1>3 DEF Tick, TypeOK
<1>5. InFlightIsRecent'
  <2> SUFFICES ASSUME NEW c \in Calls, pc[c] = "counting"
               PROVE  callWindow[c] = window' \/ (callWindow[c] = window' - 1 /\ offset' < age'[c])
    BY DEF Tick, InFlightIsRecent
  <2>1. callWindow[c] = window \/ (callWindow[c] = window - 1 /\ offset < age[c])
    BY DEF InFlightIsRecent
  <2> QED
    BY <1>1, <1>2, <1>3, <2>1
<1>6. CountsAdd'
  <2>1. hits' = hits /\ UNCHANGED <<granted, refused, lost>>
    BY DEF Tick
  <2>2. window' \in Int /\ window \in Int /\ window' >= window
    BY <1>1, <1>2, ClockTyped
  <2>3. \A w \in Windows : w >= window' - 1 => w >= window - 1
    <3>1. Windows \subseteq Int
      BY DEF Windows
    <3>2. \A w, m, n \in Int : n >= m /\ w >= n - 1 => w >= m - 1
      OBVIOUS
    <3> HIDE DEF WindowInv
    <3> QED
      BY <2>2, <3>1, <3>2
  <2> QED
    BY <2>1, <2>3 DEF CountsAdd
<1>7. GrantsWithinLimit' /\ FullBeforeRefusal'
  BY DEF Tick, GrantsWithinLimit, FullBeforeRefusal
<1> QED
  BY <1>4, <1>5, <1>6, <1>7

LEMMA InvCleanup ==
  ASSUME WindowInv, CleanupStale
  PROVE  WindowInv'
<1> USE WindowAssumption DEF WindowInv, history, clock, call
<1>1. TypeOK'
  BY DEF CleanupStale, TypeOK
<1>2. InFlightIsRecent' /\ GrantsWithinLimit' /\ FullBeforeRefusal'
  BY DEF CleanupStale, InFlightIsRecent, GrantsWithinLimit, FullBeforeRefusal
<1>3. \A w \in Windows : w >= window - 1 => ~Elapsed(w)
  BY DEF Elapsed, TypeOK, Windows
<1>4. CountsAdd'
  BY <1>3 DEF CleanupStale, CountsAdd
<1> QED
  BY <1>1, <1>2, <1>4

(* The three ways a hit is accounted for. *)
LEMMA InvCount ==
  ASSUME WindowInv, NEW c \in Calls, Count(c)
  PROVE  WindowInv'
<1> USE WindowAssumption DEF WindowInv
<1> DEFINE w == callWindow[c]
<1>1. /\ w \in Windows /\ w >= window - 1
      /\ callLimit[c] \in Limits /\ callLimit[c] \in 1 .. MaxLimit
      /\ hits[w] = granted[w] + refused[w] + lost[w]
      /\ hits[w] \in Nat /\ granted[w] \in Nat /\ refused[w] \in Nat /\ lost[w] \in Nat
  BY SweptIsOld DEF Count, InFlightIsRecent, CountsAdd, TypeOK
<1>2. /\ hits' = [hits EXCEPT ![w] = hits[w] + 1]
      /\ UNCHANGED <<window, offset, callWindow, lost>>
      /\ callLimit' = [callLimit EXCEPT ![c] = 0]
      /\ age' = [age EXCEPT ![c] = 0]
  BY DEF Count, Leave, Bump, clock
<1>3. UntilReset(c) \in Int /\ RetryAfter(UntilReset(c)) * Second \in Nat
  <2>1. UntilReset(c) \in Int
    <3>1. callWindow[c] \in Int
      BY <1>1 DEF Windows
    <3> QED
      BY <3>1, ClockTyped DEF UntilReset
  <2>2. RetryAfter(UntilReset(c)) \in Nat
    BY <2>1 DEF RetryAfter
  <2> QED
    BY <2>1, <2>2
<1>4. CASE hits[w] + 1 > callLimit[c]
  <2>1. /\ pc' = [pc EXCEPT ![c] = "waiting"]
        /\ wait' = [wait EXCEPT ![c] = RetryAfter(UntilReset(c)) * Second]
        /\ refused' = [refused EXCEPT ![w] = refused[w] + 1]
        /\ granted' = granted
    BY <1>1, <1>2, <1>4 DEF Count, Bump, TypeOK
  <2>2. TypeOK'
    BY <1>1, <1>2, <1>3, <2>1 DEF TypeOK, PCs
  <2>3. InFlightIsRecent'
    BY <1>2, <2>1 DEF InFlightIsRecent, TypeOK
  <2>4. CountsAdd' /\ GrantsWithinLimit'
    BY <1>1, <1>2, <2>1 DEF CountsAdd, GrantsWithinLimit, TypeOK
  <2>5. FullBeforeRefusal'
    <3>1. \E limit \in Limits : granted[w] + lost[w] >= limit
      BY <1>1, <1>4 DEF FullBeforeRefusal
    <3> QED
      BY <1>2, <2>1, <3>1 DEF FullBeforeRefusal, TypeOK
  <2> QED
    BY <2>2, <2>3, <2>4, <2>5
<1>5. CASE ~(hits[w] + 1 > callLimit[c])
  <2>1. /\ pc' = [pc EXCEPT ![c] = "idle"]
        /\ granted' = [granted EXCEPT ![w] = granted[w] + 1]
        /\ UNCHANGED <<wait, refused>>
    BY <1>1, <1>2, <1>5 DEF Count, Bump, TypeOK
  <2>2. TypeOK'
    BY <1>1, <1>2, <2>1 DEF TypeOK, PCs
  <2>3. InFlightIsRecent'
    BY <1>2, <2>1 DEF InFlightIsRecent, TypeOK
  <2>4. CountsAdd'
    BY <1>1, <1>2, <2>1 DEF CountsAdd, TypeOK
  <2>5. GrantsWithinLimit'
    BY <1>1, <1>5, <2>1 DEF GrantsWithinLimit, TypeOK
  <2>6. FullBeforeRefusal'
    <3> SUFFICES ASSUME NEW v \in Windows, refused[v] > 0
                 PROVE  \E limit \in Limits : granted'[v] + lost[v] >= limit
      BY <1>2, <2>1 DEF FullBeforeRefusal
    <3>1. granted'[v] \in Nat /\ granted[v] \in Nat /\ granted'[v] >= granted[v] /\ lost[v] \in Nat
      BY <1>1, <2>1 DEF TypeOK
    <3>2. PICK limit \in Limits : granted[v] + lost[v] >= limit
      BY DEF FullBeforeRefusal
    <3> QED
      BY <3>1, <3>2
  <2> QED
    BY <2>2, <2>3, <2>4, <2>5, <2>6
<1> QED
  BY <1>4, <1>5

LEMMA InvCountFails ==
  ASSUME WindowInv, NEW c \in Calls, CountFails(c)
  PROVE  WindowInv'
<1> USE WindowAssumption DEF WindowInv
<1> DEFINE w == callWindow[c]
<1>1. /\ w \in Windows
      /\ hits[w] \in Nat /\ lost[w] \in Nat
      /\ pc' = [pc EXCEPT ![c] = "idle"]
      /\ callLimit' = [callLimit EXCEPT ![c] = 0]
      /\ age' = [age EXCEPT ![c] = 0]
      /\ UNCHANGED <<window, offset, callWindow, wait, granted, refused>>
  BY DEF CountFails, Leave, TypeOK, clock
<1>2. \/ hits' = [hits EXCEPT ![w] = hits[w] + 1] /\ lost' = [lost EXCEPT ![w] = lost[w] + 1]
      \/ UNCHANGED <<hits, lost>>
  BY DEF CountFails, Bump
<1>3. TypeOK'
  <2>1. hits' \in [Windows -> Nat] /\ lost' \in [Windows -> Nat]
    BY <1>1, <1>2 DEF TypeOK
  <2> QED
    BY <1>1, <2>1 DEF TypeOK, PCs
<1>4. InFlightIsRecent'
  BY <1>1 DEF InFlightIsRecent, TypeOK
<1>5. CountsAdd' /\ GrantsWithinLimit'
  BY <1>1, <1>2 DEF CountsAdd, GrantsWithinLimit, TypeOK
<1>6. FullBeforeRefusal'
  <2> SUFFICES ASSUME NEW v \in Windows, refused[v] > 0
               PROVE  \E limit \in Limits : granted[v] + lost'[v] >= limit
    BY <1>1 DEF FullBeforeRefusal
  <2>1. granted[v] \in Nat /\ lost[v] \in Nat /\ lost'[v] \in Nat /\ lost'[v] >= lost[v]
    BY <1>1, <1>2 DEF TypeOK
  <2>2. PICK limit \in Limits : granted[v] + lost[v] >= limit
    BY DEF FullBeforeRefusal
  <2> QED
    BY <2>1, <2>2
<1> QED
  BY <1>3, <1>4, <1>5, <1>6

LEMMA InvNext == WindowInv /\ [Next]_vars => WindowInv'
<1> SUFFICES ASSUME WindowInv, [Next]_vars PROVE WindowInv'
  OBVIOUS
<1>1. CASE UNCHANGED vars
  BY <1>1 DEF vars, clock, call, history, WindowInv, TypeOK, InFlightIsRecent, CountsAdd,
     GrantsWithinLimit, FullBeforeRefusal
<1> QED
  BY <1>1, InvArrive, InvCount, InvCountFails, InvCleanup, InvTick DEF Next

(* WindowInv holds in every reachable state. *)
THEOREM WindowSafe == Spec => []WindowInv
<1> QED
  BY InvInit, InvNext, PTL DEF Spec

(* All replicas together grant at most the plan limit per window. *)
THEOREM LimitHolds == Spec => []GrantsWithinLimit
<1>1. WindowInv => GrantsWithinLimit
  BY DEF WindowInv
<1> QED
  BY <1>1, WindowSafe, PTL

(* Nobody is refused before one of the limits in force was used up in the  *)
(* window.                                                                 *)
THEOREM RefusalsEarned == Spec => []FullBeforeRefusal
<1>1. WindowInv => FullBeforeRefusal
  BY DEF WindowInv
<1> QED
  BY <1>1, WindowSafe, PTL

(* No step lowers a count that a call in flight builds on: the sweep is    *)
(* two windows behind, and a call at most one.                             *)
THEOREM CountsMonotone == Spec => CountsNeverRegress
<1>1. WindowInv /\ [Next]_vars =>
        [\A c \in Calls : pc[c] = "counting" => hits'[callWindow[c]] >= hits[callWindow[c]]]_vars
  <2> SUFFICES ASSUME WindowInv, Next, NEW c \in Calls, pc[c] = "counting"
               PROVE  hits'[callWindow[c]] >= hits[callWindow[c]]
    OBVIOUS
  <2>1. /\ callWindow \in [Calls -> Windows] /\ hits \in [Windows -> Nat]
        /\ ~Elapsed(callWindow[c])
    BY SweptIsOld DEF WindowInv, TypeOK
  <2>2. \A d \in Calls : callWindow[d] \in Windows /\ hits[callWindow[d]] \in Nat
    BY <2>1
  <2>3. CASE hits' = hits
    BY <2>2, <2>3
  <2>4. CASE \E d \in Calls : hits' = [hits EXCEPT ![callWindow[d]] = hits[callWindow[d]] + 1]
    BY <2>1, <2>2, <2>4
  <2>5. CASE CleanupStale
    BY <2>1, <2>2, <2>5 DEF CleanupStale
  <2> QED
    BY <2>3, <2>4, <2>5 DEF Next, Arrive, Count, CountFails, Bump, Tick
<1> QED
  BY <1>1, WindowSafe, PTL DEF Spec, CountsNeverRegress

-----------------------------------------------------------------------------
(* The composition. *)

(* The counter in it goes its own way: the buckets only listen. *)
LEMMA CounterInit == RInit => Init
BY DEF RInit

LEMMA CounterStep == [RNext]_allVars => [Next]_vars
<1> SUFFICES ASSUME [RNext]_allVars PROVE [Next]_vars
  OBVIOUS
<1>1. CASE Counter
  BY <1>1 DEF Counter, Next
<1>2. CASE \E c \in Calls : FallBack(c)
  BY <1>2 DEF FallBack, Next
<1>3. CASE \E r \in Replicas : Restart(r)
  BY <1>3 DEF Restart, vars
<1>4. CASE Time
  BY <1>4 DEF Time, Next
<1>5. CASE UNCHANGED allVars
  BY <1>5 DEF allVars
<1> QED
  BY <1>1, <1>2, <1>3, <1>4, <1>5 DEF RNext

(* RateLimiting implements WindowLimiter: whatever the buckets answer, the *)
(* counter in the composition is the one alone.                            *)
THEOREM CounterUndisturbed == RSpec => Spec
<1> QED
  BY CounterInit, CounterStep, PTL DEF RSpec, Spec

(* The counter's two properties hold of the composition. *)
THEOREM LimitHoldsComposed == RSpec => []GrantsWithinLimit
<1> QED
  BY CounterUndisturbed, LimitHolds, PTL

THEOREM RefusalsEarnedComposed == RSpec => []FullBeforeRefusal
<1> QED
  BY CounterUndisturbed, RefusalsEarned, PTL

-----------------------------------------------------------------------------
(* What a bucket can still give. *)

RTypeOK ==
  /\ bucket \in [Replicas -> [tokens : Nat, capacity : 0 .. MaxLimit, idle : 0 .. Window]]
  /\ lent \in [Replicas -> Nat]
  /\ restarts \in [Replicas -> Nat]

(* At most a full bucket of the largest plan: what it has and what the     *)
(* time since its last refill is worth there, or all of it if the next     *)
(* call makes the bucket.                                                  *)
Full == MaxLimit * Window
Worth(b) == IF b = NoBucket THEN Full ELSE AtMost(b.tokens + b.idle * MaxLimit, Full)

Allowance(r) == MaxLimit * (Window + offset + restarts[r] * Window)

(* Lent and still to lend, a replica stays within its allowance. *)
FundsCover == \A r \in Replicas : lent[r] * Window + Worth(bucket[r]) <= Allowance(r)

FlappingInv == RTypeOK /\ FundsCover

LEMMA ConstantsTyped == Window \in Nat \ {0} /\ MaxLimit \in Nat /\ Full \in Nat
BY WindowAssumption DEF Full

LEMMA TimesGrows ==
  ASSUME NEW a \in Nat, NEW b \in Nat, NEW c \in Nat, a <= b
  PROVE  c * a <= c * b /\ a * c <= b * c /\ c * a \in Nat /\ a * c \in Nat
OBVIOUS

LEMMA WorthTyped ==
  ASSUME NEW b \in [tokens : Nat, capacity : 0 .. MaxLimit, idle : 0 .. Window]
  PROVE  Worth(b) \in 0 .. Full
<1>1. b.tokens \in Nat /\ b.idle \in Nat
  BY ConstantsTyped
<1>2. b.idle * MaxLimit \in Nat
  BY <1>1, ConstantsTyped
<1> QED
  BY <1>1, <1>2, ConstantsTyped DEF Worth, AtMost

(* Neither a changed plan nor the refill makes a bucket worth more. *)
LEMMA RefillIsWorth ==
  ASSUME NEW b \in [tokens : Nat, capacity : 0 .. MaxLimit, idle : 0 .. Window],
         NEW limit \in 1 .. MaxLimit
  PROVE  LET a == Refilled(BucketFor(b, limit)) IN
           /\ a \in [tokens : Nat, capacity : 0 .. MaxLimit, idle : 0 .. Window]
           /\ a.idle = 0 /\ a.capacity = limit
           /\ a.tokens <= Worth(b)
<1> DEFINE m == BucketFor(b, limit)
           a == Refilled(m)
<1> USE ConstantsTyped
<1>0. limit * Window \in Nat /\ limit * Window <= Full
  BY TimesGrows DEF Full
<1>1. /\ m \in [tokens : Nat, capacity : 0 .. MaxLimit, idle : 0 .. Window]
      /\ m.capacity = limit
      /\ b = NoBucket => m.tokens <= Full /\ m.idle = 0
      /\ b # NoBucket => m.tokens <= b.tokens /\ m.idle = b.idle
  <2>0. b.tokens \in Nat /\ b.idle \in 0 .. Window /\ 0 \in 0 .. Window /\ limit \in 0 .. MaxLimit
    OBVIOUS
  <2>1. CASE b = NoBucket
    <3>1. m = [tokens |-> limit * Window, capacity |-> limit, idle |-> 0]
      BY <2>1 DEF BucketFor
    <3> HIDE DEF m
    <3> QED
      BY <1>0, <2>0, <2>1, <3>1
  <2>2. CASE b # NoBucket
    <3> DEFINE t == IF b.capacity = limit THEN b.tokens ELSE AtMost(b.tokens, limit * Window)
    <3>1. m = [b EXCEPT !.capacity = limit, !.tokens = t]
      BY <2>2 DEF BucketFor
    <3>2. t \in Nat /\ t <= b.tokens
      BY <1>0, <2>0 DEF AtMost
    <3> HIDE DEF m, t
    <3> QED
      BY <2>0, <2>2, <3>1, <3>2
  <2> QED
    BY <2>1, <2>2
<1> HIDE DEF m
<1>2. m.tokens \in Nat /\ m.idle \in Nat
  BY <1>1
<1>3. m.idle * limit \in Nat /\ m.idle * limit <= m.idle * MaxLimit /\ m.idle * MaxLimit \in Nat
  BY <1>2, TimesGrows
<1>4. /\ a = [m EXCEPT !.tokens = AtMost(m.tokens + m.idle * limit, limit * Window), !.idle = 0]
      /\ a.idle = 0 /\ a.capacity = limit
      /\ a.tokens = AtMost(m.tokens + m.idle * limit, limit * Window)
      /\ a \in [tokens : Nat, capacity : 0 .. MaxLimit, idle : 0 .. Window]
  <2> DEFINE t == AtMost(m.tokens + m.idle * limit, limit * Window)
  <2>1. a = [m EXCEPT !.tokens = t, !.idle = 0]
    BY <1>1 DEF Refilled
  <2>2. t \in Nat
    BY <1>0, <1>2, <1>3 DEF AtMost
  <2>3. 0 \in 0 .. Window
    OBVIOUS
  <2> HIDE DEF a, t
  <2>4. a.idle = 0 /\ a.capacity = limit /\ a.tokens = t
        /\ a \in [tokens : Nat, capacity : 0 .. MaxLimit, idle : 0 .. Window]
    BY <1>1, <2>1, <2>2, <2>3
  <2> QED
    BY <2>1, <2>4 DEF t
<1> HIDE DEF a
<1>5. a.tokens <= Full /\ a.tokens <= m.tokens + m.idle * MaxLimit
  BY <1>0, <1>2, <1>3, <1>4 DEF AtMost
<1>6. a.tokens <= Worth(b)
  <2>1. CASE b = NoBucket
    BY <1>5, <2>1 DEF Worth
  <2>2. CASE b # NoBucket
    <3>1. b.tokens \in Nat /\ m.idle = b.idle /\ m.tokens <= b.tokens
      BY <1>1, <2>2
    <3>2. m.idle * MaxLimit = b.idle * MaxLimit /\ b.idle * MaxLimit \in Nat
      BY <1>3, <3>1
    <3>3. a.tokens <= b.tokens + b.idle * MaxLimit
      <4>1. a.tokens \in Nat
        BY <1>4
      <4> QED
        BY <1>2, <1>5, <3>1, <3>2, <4>1
    <3> QED
      BY <1>5, <2>2, <3>3 DEF Worth, AtMost
  <2> QED
    BY <2>1, <2>2
<1> QED
  BY <1>4, <1>6 DEF a, m

(* The allowance and what was lent are numbers. *)
LEMMA SumsTyped ==
  ASSUME RTypeOK, TypeOK, NEW r \in Replicas
  PROVE  /\ offset \in Nat /\ lent[r] \in Nat /\ restarts[r] \in Nat
         /\ lent[r] * Window \in Nat /\ restarts[r] * Window \in Nat
         /\ Allowance(r) \in Nat
         /\ bucket[r] \in [tokens : Nat, capacity : 0 .. MaxLimit, idle : 0 .. Window]
         /\ Worth(bucket[r]) \in 0 .. Full
<1>1. offset \in Nat /\ lent[r] \in Nat /\ restarts[r] \in Nat
  BY ClockTyped DEF RTypeOK
<1>2. lent[r] * Window \in Nat /\ restarts[r] * Window \in Nat
  BY <1>1, ConstantsTyped
<1>3. Allowance(r) \in Nat
  BY <1>1, <1>2, ConstantsTyped DEF Allowance
<1>4. bucket[r] \in [tokens : Nat, capacity : 0 .. MaxLimit, idle : 0 .. Window]
  BY DEF RTypeOK
<1> QED
  BY <1>1, <1>2, <1>3, <1>4, WorthTyped

LEMMA FlappingInit == RInit => FlappingInv
<1> SUFFICES ASSUME RInit PROVE FlappingInv
  OBVIOUS
<1> USE ConstantsTyped
<1>1. RTypeOK
  BY DEF RInit, RTypeOK, NoBucket
<1>2. ASSUME NEW r \in Replicas PROVE lent[r] * Window + Worth(bucket[r]) <= Allowance(r)
  BY DEF RInit, Init, Worth, Allowance, Full
<1> QED
  BY <1>1, <1>2 DEF FlappingInv, FundsCover

(* A bucket that lends loses what it lent. *)
LEMMA FlappingAllow ==
  ASSUME FlappingInv, TypeOK, offset' = offset,
         NEW r \in Replicas, NEW limit \in 1 .. MaxLimit, FallbackAllow(r, limit)
  PROVE  FlappingInv'
<1> DEFINE a == Refilled(BucketFor(bucket[r], limit))
<1> USE ConstantsTyped
<1>0. RTypeOK /\ FundsCover
  BY DEF FlappingInv
<1>1. /\ a \in [tokens : Nat, capacity : 0 .. MaxLimit, idle : 0 .. Window]
      /\ a.idle = 0 /\ a.capacity = limit
      /\ a.tokens <= Worth(bucket[r])
  BY <1>0, SumsTyped, RefillIsWorth
<1>2. \/ /\ a.tokens >= Window
         /\ bucket' = [bucket EXCEPT ![r] = [a EXCEPT !.tokens = a.tokens - Window]]
         /\ lent' = Bump(lent, r)
      \/ bucket' = [bucket EXCEPT ![r] = a] /\ lent' = lent
  BY DEF FallbackAllow
<1>3. restarts' = restarts
  BY DEF FallbackAllow
<1> HIDE DEF a
<1>4. a.tokens \in Nat
  BY <1>1
<1>5. RTypeOK'
  <2>1. CASE bucket' = [bucket EXCEPT ![r] = a] /\ lent' = lent
    BY <1>0, <1>1, <1>3, <2>1 DEF RTypeOK
  <2>2. CASE /\ a.tokens >= Window
             /\ bucket' = [bucket EXCEPT ![r] = [a EXCEPT !.tokens = a.tokens - Window]]
             /\ lent' = Bump(lent, r)
    <3>1. [a EXCEPT !.tokens = a.tokens - Window]
            \in [tokens : Nat, capacity : 0 .. MaxLimit, idle : 0 .. Window]
      BY <1>1, <1>4, <2>2
    <3> QED
      BY <1>0, <1>3, <2>2, <3>1 DEF RTypeOK, Bump
  <2> QED
    BY <1>2, <2>1, <2>2
<1>6. ASSUME NEW q \in Replicas PROVE (lent[q] * Window + Worth(bucket[q]) <= Allowance(q))'
  <2>0. Allowance(q)' = Allowance(q)
    BY <1>3 DEF Allowance
  <2>1. lent[q] * Window + Worth(bucket[q]) <= Allowance(q)
    BY <1>0 DEF FundsCover
  <2>2. CASE q # r
    <3>1. bucket'[q] = bucket[q] /\ lent'[q] = lent[q]
      BY <1>0, <1>2, <2>2 DEF RTypeOK, Bump
    <3> QED
      BY <2>0, <2>1, <3>1 DEF Worth
  <2>3. CASE q = r
    <3>1. /\ lent[r] \in Nat /\ lent[r] * Window \in Nat /\ Allowance(r) \in Nat
          /\ Worth(bucket[r]) \in 0 .. Full
      BY <1>0, SumsTyped
    <3>2. ASSUME NEW t \in Nat
          PROVE  LET b == [a EXCEPT !.tokens = t] IN Worth(b) \in Nat /\ Worth(b) <= t
      <4> DEFINE b == [a EXCEPT !.tokens = t]
      <4>1. b.capacity # 0 /\ b.idle = 0 /\ b.tokens = t
        BY <1>1
      <4>2. b # NoBucket
        BY <4>1 DEF NoBucket
      <4>3. 0 * MaxLimit = 0
        OBVIOUS
      <4> HIDE DEF b
      <4>4. Worth(b) = AtMost(t, Full)
        BY <4>1, <4>2, <4>3 DEF Worth
      <4>5. Worth(b) \in Nat /\ Worth(b) <= t
        BY <4>4 DEF AtMost
      <4> QED
        BY <4>5 DEF b
    <3>3. CASE bucket' = [bucket EXCEPT ![r] = a] /\ lent' = lent
      <4>1. bucket'[r] = [a EXCEPT !.tokens = a.tokens] /\ lent'[r] = lent[r]
        BY <1>0, <1>1, <3>3 DEF RTypeOK
      <4>2. Worth(bucket'[r]) \in Nat /\ Worth(bucket'[r]) <= a.tokens
        BY <1>4, <3>2, <4>1
      <4>3. Worth(bucket[r])' = Worth(bucket'[r])
        BY DEF Worth
      <4> QED
        BY <1>1, <1>4, <2>0, <2>1, <2>3, <3>1, <4>1, <4>2, <4>3
    <3>4. CASE /\ a.tokens >= Window
               /\ bucket' = [bucket EXCEPT ![r] = [a EXCEPT !.tokens = a.tokens - Window]]
               /\ lent' = Bump(lent, r)
      <4>0. a.tokens - Window \in Nat
        BY <1>4, <3>4
      <4>1. bucket'[r] = [a EXCEPT !.tokens = a.tokens - Window] /\ lent'[r] = lent[r] + 1
        BY <1>0, <3>4 DEF RTypeOK, Bump
      <4>2. Worth(bucket'[r]) \in Nat /\ Worth(bucket'[r]) <= a.tokens - Window
        BY <3>2, <4>0, <4>1
      <4>3. Worth(bucket[r])' = Worth(bucket'[r])
        BY DEF Worth
      <4>4. lent'[r] * Window = lent[r] * Window + Window
        BY <3>1, <4>1
      <4> QED
        BY <1>1, <1>4, <2>0, <2>1, <2>3, <3>1, <4>2, <4>3, <4>4
    <3> QED
      BY <1>2, <3>3, <3>4
  <2> QED
    BY <2>2, <2>3
<1> QED
  BY <1>5, <1>6 DEF FlappingInv, FundsCover

(* A restart gives a replica another bucket, and another limit. *)
LEMMA FlappingRestart ==
  ASSUME FlappingInv, TypeOK, NEW r \in Replicas, Restart(r)
  PROVE  FlappingInv'
<1> USE ConstantsTyped
<1>0. RTypeOK /\ FundsCover /\ offset' = offset
  BY DEF FlappingInv, Restart, vars, clock
<1>1. /\ restarts' = Bump(restarts, r)
      /\ bucket' = [bucket EXCEPT ![r] = NoBucket]
      /\ lent' = lent
  BY DEF Restart
<1>2. RTypeOK'
  BY <1>0, <1>1 DEF RTypeOK, NoBucket, Bump
<1>3. ASSUME NEW q \in Replicas PROVE (lent[q] * Window + Worth(bucket[q]) <= Allowance(q))'
  <2>1. lent[q] * Window + Worth(bucket[q]) <= Allowance(q)
    BY <1>0 DEF FundsCover
  <2>2. CASE q # r
    <3>1. bucket'[q] = bucket[q] /\ restarts'[q] = restarts[q]
      BY <1>0, <1>1, <2>2 DEF RTypeOK, Bump
    <3> QED
      BY <1>0, <1>1, <2>1, <3>1 DEF Worth, Allowance
  <2>3. CASE q = r
    <3>1. /\ offset \in Nat /\ restarts[r] \in Nat /\ lent[r] * Window \in Nat
          /\ restarts[r] * Window \in Nat /\ Allowance(r) \in Nat
          /\ Worth(bucket[r]) \in 0 .. Full
      BY <1>0, SumsTyped
    <3>2. bucket'[r] = NoBucket /\ restarts'[r] = restarts[r] + 1
      BY <1>0, <1>1 DEF RTypeOK, Bump
    <3>3. Worth(bucket[r])' = Full
      BY <3>2 DEF Worth
    <3>4. restarts'[r] * Window = restarts[r] * Window + Window
      BY <3>1, <3>2
    <3>5. Allowance(r)' = MaxLimit * (Window + offset + (restarts[r] * Window + Window))
      BY <1>0, <3>4 DEF Allowance
    <3>6. Allowance(r)' = Allowance(r) + Full
      BY <3>1, <3>5 DEF Allowance, Full
    <3> QED
      BY <1>1, <2>1, <2>3, <3>1, <3>3, <3>6
  <2> QED
    BY <2>2, <2>3
<1> QED
  BY <1>2, <1>3 DEF FlappingInv, FundsCover

(* A tick is worth what it adds to the allowance, and a new window begins  *)
(* with no more than a full bucket.                                        *)
LEMMA FlappingTime ==
  ASSUME FlappingInv, TypeOK, Time
  PROVE  FlappingInv'
<1> USE ConstantsTyped
<1>0. RTypeOK /\ FundsCover
  BY DEF FlappingInv
<1> DEFINE older(b) == [b EXCEPT !.idle = AtMost(b.idle + 1, Window)]
<1>1. bucket' = [r \in Replicas |-> IF bucket[r] = NoBucket THEN NoBucket ELSE older(bucket[r])]
  BY DEF Time
<1>2. \/ offset' = offset + 1 /\ lent' = lent /\ restarts' = restarts
      \/ offset' = 0 /\ lent' = [r \in Replicas |-> 0] /\ restarts' = [r \in Replicas |-> 0]
  <2>1. window \in Int
    BY ClockTyped
  <2> QED
    BY <2>1 DEF Time, Tick
<1>3. ASSUME NEW b \in [tokens : Nat, capacity : 0 .. MaxLimit, idle : 0 .. Window]
      PROVE  /\ older(b) \in [tokens : Nat, capacity : 0 .. MaxLimit, idle : 0 .. Window]
             /\ older(b).tokens = b.tokens
             /\ older(b).idle \in Nat /\ older(b).idle <= b.idle + 1
             /\ older(b).idle = 0 => b.idle = 0
             /\ b.tokens \in Nat /\ b.idle \in Nat
  BY DEF AtMost
<1> HIDE DEF older
<1>4. RTypeOK'
  BY <1>0, <1>1, <1>2, <1>3 DEF RTypeOK, NoBucket
<1>5. ASSUME NEW r \in Replicas PROVE (lent[r] * Window + Worth(bucket[r]) <= Allowance(r))'
  <2>0. /\ lent[r] * Window + Worth(bucket[r]) <= Allowance(r)
        /\ offset \in Nat /\ restarts[r] \in Nat /\ lent[r] * Window \in Nat
        /\ restarts[r] * Window \in Nat /\ Allowance(r) \in Nat
        /\ bucket[r] \in [tokens : Nat, capacity : 0 .. MaxLimit, idle : 0 .. Window]
        /\ Worth(bucket[r]) \in 0 .. Full
    BY <1>0, SumsTyped DEF FundsCover
  <2>1. /\ bucket'[r] \in [tokens : Nat, capacity : 0 .. MaxLimit, idle : 0 .. Window]
        /\ Worth(bucket[r])' = Worth(bucket'[r])
        /\ Worth(bucket'[r]) \in 0 .. Full
    BY <1>4, WorthTyped DEF RTypeOK, Worth
  <2>2. Worth(bucket'[r]) <= Worth(bucket[r]) + MaxLimit
    <3>1. CASE bucket[r] = NoBucket
      <4>1. Worth(bucket[r]) = Full
        BY <3>1 DEF Worth
      <4> QED
        BY <2>1, <4>1
    <3>2. CASE bucket[r] # NoBucket
      <4> DEFINE b == bucket[r]
      <4>1. bucket'[r] = older(b)
        BY <1>1, <3>2
      <4>2. /\ older(b).tokens = b.tokens /\ b.tokens \in Nat /\ b.idle \in Nat
            /\ older(b).idle \in Nat /\ older(b).idle <= b.idle + 1
        BY <1>3, <2>0
      <4>3. (b.idle + 1) * MaxLimit = b.idle * MaxLimit + MaxLimit /\ b.idle * MaxLimit \in Nat
        <5>1. ASSUME NEW n \in Nat
              PROVE  (n + 1) * MaxLimit = n * MaxLimit + MaxLimit /\ n * MaxLimit \in Nat
          OBVIOUS
        <5> HIDE DEF b
        <5> QED
          BY <4>2, <5>1
      <4>4. /\ older(b).idle * MaxLimit \in Nat
            /\ older(b).idle * MaxLimit <= b.idle * MaxLimit + MaxLimit
        BY <4>2, <4>3, TimesGrows
      <4>5. Worth(b) = AtMost(b.tokens + b.idle * MaxLimit, Full)
        BY <3>2 DEF Worth
      <4>6. Worth(older(b)) \in {Full, AtMost(older(b).tokens + older(b).idle * MaxLimit, Full)}
        BY DEF Worth
      <4>7. CASE older(b) = NoBucket
        <5>1. b = NoBucket
          <6>1. b.tokens = 0 /\ b.idle = 0 /\ older(b).capacity = 0
            BY <1>3, <2>0, <4>7 DEF NoBucket
          <6>2. b.capacity = 0
            BY <2>0, <6>1 DEF older
          <6> QED
            BY <2>0, <6>1, <6>2 DEF NoBucket
        <5> QED
          BY <3>2, <5>1
      <4>8. CASE older(b) # NoBucket
        <5>1. Worth(older(b)) = AtMost(older(b).tokens + older(b).idle * MaxLimit, Full)
          BY <4>8 DEF Worth
        <5> HIDE DEF b
        <5>2. AtMost(older(b).tokens + older(b).idle * MaxLimit, Full)
                <= AtMost(b.tokens + b.idle * MaxLimit, Full) + MaxLimit
          BY <4>2, <4>3, <4>4 DEF AtMost
        <5>3. Worth(older(b)) <= Worth(b) + MaxLimit
          BY <4>5, <5>1, <5>2
        <5> QED
          BY <4>1, <5>3 DEF b
      <4> QED
        BY <4>7, <4>8
    <3> QED
      BY <3>1, <3>2
  <2>3. CASE offset' = offset + 1 /\ lent' = lent /\ restarts' = restarts
    <3>1. Allowance(r)' = MaxLimit * ((Window + offset + restarts[r] * Window) + 1)
      BY <2>0, <2>3 DEF Allowance
    <3>2. Allowance(r)' = Allowance(r) + MaxLimit
      BY <2>0, <3>1 DEF Allowance
    <3> QED
      BY <2>0, <2>1, <2>2, <2>3, <3>2
  <2>4. CASE offset' = 0 /\ lent' = [q \in Replicas |-> 0] /\ restarts' = [q \in Replicas |-> 0]
    <3>1. lent'[r] * Window = 0 /\ restarts'[r] * Window = 0
      BY <2>4
    <3>2. Allowance(r)' = Full
      BY <2>4, <3>1 DEF Allowance, Full
    <3> QED
      BY <2>1, <3>1, <3>2
  <2> QED
    BY <1>2, <2>3, <2>4
<1> QED
  BY <1>4, <1>5 DEF FlappingInv, FundsCover

LEMMA FlappingNext == WindowInv /\ FlappingInv /\ [RNext]_allVars => FlappingInv'
<1> SUFFICES ASSUME WindowInv, FlappingInv, [RNext]_allVars PROVE FlappingInv'
  OBVIOUS
<1>0. TypeOK
  BY DEF WindowInv
<1>1. ASSUME UNCHANGED fallback, offset' = offset PROVE FlappingInv'
  BY <1>1 DEF fallback, FlappingInv, RTypeOK, FundsCover, Worth, Allowance
<1>2. CASE Counter
  BY <1>1, <1>2 DEF Counter, Arrive, Count, CleanupStale, clock
<1>3. CASE \E c \in Calls : FallBack(c)
  <2>1. PICK c \in Calls, r \in Replicas : CountFails(c) /\ FallbackAllow(r, callLimit[c])
    BY <1>3 DEF FallBack
  <2>2. callLimit[c] \in 1 .. MaxLimit
    BY <2>1, WindowAssumption DEF CountFails, WindowInv, InFlightIsRecent
  <2>3. offset' = offset
    BY <2>1 DEF CountFails, clock
  <2> QED
    BY <1>0, <2>1, <2>2, <2>3, FlappingAllow
<1>4. CASE \E r \in Replicas : Restart(r)
  BY <1>0, <1>4, FlappingRestart
<1>5. CASE Time
  BY <1>0, <1>5, FlappingTime
<1>6. CASE UNCHANGED allVars
  BY <1>1, <1>6 DEF allVars, fallback, vars, clock
<1> QED
  BY <1>2, <1>3, <1>4, <1>5, <1>6 DEF RNext

(* A counter that comes and goes costs the limit of the window once and    *)
(* what each replica's bucket can give, not a limit for each change.       *)
THEOREM FlappingIsBounded == RSpec => []FlappingBounded
<1>1. RSpec => []WindowInv
  BY CounterUndisturbed, WindowSafe, PTL
<1>2. RSpec => []FlappingInv
  BY <1>1, FlappingInit, FlappingNext, PTL DEF RSpec
<1>3. WindowInv /\ FlappingInv => FlappingBounded
  <2> SUFFICES ASSUME WindowInv, FlappingInv PROVE FlappingBounded
    OBVIOUS
  <2>1. TypeOK /\ RTypeOK /\ FundsCover /\ GrantsWithinLimit /\ window \in Windows
    BY DEF WindowInv, FlappingInv, TypeOK
  <2>2. ASSUME NEW r \in Replicas PROVE lent[r] * Window <= Allowance(r)
    <3>1. /\ lent[r] * Window \in Nat /\ Allowance(r) \in Nat
          /\ Worth(bucket[r]) \in Nat
      BY <2>1, SumsTyped, ConstantsTyped
    <3> QED
      BY <2>1, <3>1 DEF FundsCover
  <2> QED
    BY <2>1, <2>2 DEF FlappingBounded, GrantsWithinLimit, Allowance
<1> QED
  BY <1>1, <1>2, <1>3, PTL
=============================================================================
