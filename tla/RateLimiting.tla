------------------------------ MODULE RateLimiting ------------------------------
(***************************************************************************)
(* The cluster-wide limiter together with what it falls back on: the       *)
(* shared counter (WindowLimiter) and, on each replica, a token bucket of  *)
(* its own with the whole limit (PostgresLimiter.fallback).  A replica     *)
(* whose upsert fails asks its bucket, which knows nothing of the counter  *)
(* or of the other replicas, and a restart fills it again.                 *)
(*                                                                         *)
(* A bucket is taken as one atomic step; TokenBucket has the races in it.  *)
(* Which replica a call runs on matters only when it falls back.  Tokens   *)
(* are counted in 1/Window, so that a bucket gains its capacity a tick.    *)
(***************************************************************************)
EXTENDS WindowLimiter

CONSTANTS
  Replicas,
  MaxRestarts  \* restarts of one replica in one window

ASSUME ReplicaAssumption == MaxRestarts \in Nat

VARIABLES
  bucket,   \* each replica's bucket for the key; capacity 0 if it has none
  lent,     \* history: calls each bucket allowed since the window began
  restarts  \* history: restarts of each replica since then

fallback == <<bucket, lent, restarts>>
allVars  == <<vars, fallback>>

NoBucket == [tokens |-> 0, capacity |-> 0, idle |-> 0]

RInit ==
  /\ Init
  /\ bucket = [r \in Replicas |-> NoBucket]
  /\ lent = [r \in Replicas |-> 0]
  /\ restarts = [r \in Replicas |-> 0]

AtMost(n, bound) == IF n > bound THEN bound ELSE n

\* Mutant: the bucket of a changed plan starts full.
MutantBucketFor(b, limit) ==
  IF b.capacity = limit
    THEN b
    ELSE [tokens |-> limit * Window, capacity |-> limit, idle |-> 0]

\* getOrCreateBucket: a new bucket is full; a changed plan keeps the tokens.
BucketFor(b, limit) ==
  IF b = NoBucket
    THEN [tokens |-> limit * Window, capacity |-> limit, idle |-> 0]
    ELSE [b EXCEPT !.capacity = limit,
                   !.tokens = IF b.capacity = limit THEN @ ELSE AtMost(@, limit * Window)]

\* The time since the last refill turns into tokens, at the rate of now.
Refilled(b) ==
  [b EXCEPT !.tokens = AtMost(@ + b.idle * b.capacity, b.capacity * Window), !.idle = 0]

\* fallbackAllow on replica r.
FallbackAllow(r, limit) ==
  LET b == Refilled(BucketFor(bucket[r], limit))
  IN  /\ IF b.tokens >= Window
           THEN /\ bucket' = [bucket EXCEPT ![r] = [b EXCEPT !.tokens = @ - Window]]
                /\ lent' = Bump(lent, r)
           ELSE /\ bucket' = [bucket EXCEPT ![r] = b]
                /\ UNCHANGED lent
      /\ UNCHANGED restarts

\* The counter does not answer, and the replica's bucket does.
FallBack(c) == CountFails(c) /\ \E r \in Replicas : FallbackAllow(r, callLimit[c])

Counter ==
  /\ \/ \E c \in Calls : Arrive(c) \/ Count(c)
     \/ CleanupStale
  /\ UNCHANGED fallback

\* A replica is replaced; its calls are over, whoever they were.
Restart(r) ==
  /\ bucket[r] # NoBucket
  /\ restarts[r] < MaxRestarts
  /\ restarts' = Bump(restarts, r)
  /\ bucket' = [bucket EXCEPT ![r] = NoBucket]
  /\ UNCHANGED <<vars, lent>>

\* A bucket idle for as long as the window is full, whatever its capacity.
Time ==
  /\ Tick
  /\ bucket' = [r \in Replicas |->
                  IF bucket[r] = NoBucket THEN NoBucket
                  ELSE [bucket[r] EXCEPT !.idle = AtMost(@ + 1, Window)]]
  /\ IF window' = window
       THEN UNCHANGED <<lent, restarts>>
       ELSE lent' = [r \in Replicas |-> 0] /\ restarts' = [r \in Replicas |-> 0]

RNext ==
  \/ Counter
  \/ \E c \in Calls : FallBack(c)
  \/ \E r \in Replicas : Restart(r)
  \/ Time

RSpec == RInit /\ [][RNext]_allVars

-----------------------------------------------------------------------------
(* However the counter and the buckets take turns, in a window the counter *)
(* lets no more through than the limit, and a replica's bucket no more     *)
(* than the limit and what it gained meanwhile, whatever it had left from  *)
(* before, and as much again for each restart: a limit that flaps is one   *)
(* limit and two for each replica, not one for each outage.                *)
FlappingBounded ==
  /\ granted[window] <= MaxLimit
  /\ \A r \in Replicas :
       lent[r] * Window <= MaxLimit * (Window + offset + restarts[r] * Window)
=============================================================================
