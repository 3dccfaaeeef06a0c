----------------------------- MODULE TokenBucket -----------------------------
(***************************************************************************)
(* The in-memory token bucket limiter (ratelimit/ratelimit.go), for one    *)
(* key.  Allow reads the clock, finds or makes the key's bucket, and takes *)
(* a token from it.  The map has a lock (l.mu) and every bucket has its    *)
(* own (b.mu), so a call goes through several critical sections; the       *)
(* cleaner, and other calls with another clock reading or another limit,   *)
(* run between them.  A bucket the cleaner dropped lives on in the calls   *)
(* that already hold a pointer to it.                                      *)
(*                                                                         *)
(* A tick is a second.  Tokens are counted in 1/Period of a token: a       *)
(* bucket of capacity n then gains exactly n units a second, and a request *)
(* costs Period of them.  (The code's float64 rounding is abstracted.)     *)
(***************************************************************************)
EXTENDS Integers, FiniteSets

CONSTANTS
  Callers,   \* goroutines that may be inside Allow for the key
  Buckets,   \* addresses of bucket objects
  NoBucket,  \* the nil pointer
  MaxLimit,  \* bound of the plan limits below
  Limits,    \* limits calls may come with: the plan may change
  Period,    \* 60 seconds: limits are per minute
  MaxIdle,   \* the cleaner's maxIdle, 10 minutes
  MaxDelay,  \* seconds a call may spend between its clock reading and its token
  MaxWatch   \* seconds the history below keeps watching

(***************************************************************************)
(* MaxIdle: main.go starts the cleaner with ten minutes, a bucket is full  *)
(* again after one, and a call spends seconds at most between its clock    *)
(* reading and its token: so a bucket the cleaner drops is one that such a *)
(* call would have found full, and that was not used for as long as it     *)
(* takes to earn another.  Buckets: enough that an address is free         *)
(* whenever a bucket is made.                                              *)
(***************************************************************************)
ASSUME BucketAssumption ==
  /\ NoBucket \notin Buckets
  /\ Cardinality(Buckets) > Cardinality(Callers)
  /\ MaxLimit \in Nat
  /\ Limits \subseteq 1 .. MaxLimit
  /\ Period \in Nat \ {0}
  /\ MaxIdle \in Nat
  /\ MaxDelay \in Nat
  /\ MaxIdle >= 2 * (Period + MaxDelay)
  /\ MaxWatch \in Nat

VARIABLES
  table,    \* l.buckets[key]
  heap,     \* the bucket objects; idle is now - lastRefill
  pc,       \* where each call is in Allow
  limit,    \* limitPerMinute of each call
  delay,    \* seconds since the call read the clock
  ref,      \* the bucket the call holds a pointer to
  wait,     \* seconds until a refused client may come back
  patient,  \* history: refused clients that wait as told, nobody being served since
  swept,    \* history: calls whose bucket the cleaner dropped under them
  watched,  \* history: seconds since the watch began
  grants,   \* history: requests allowed since then from the bucket of the table
  late      \* history: requests allowed since then from a bucket that was dropped

held       == <<limit, delay, ref>>
history    == <<patient, swept, watched, grants, late>>
bucketVars == <<table, heap, pc, held, wait, history>>

Stages == {"idle", "lookup", "update", "create", "take"}
MaxAge == MaxIdle + MaxDelay + 1
Blank  == [tokens |-> 0, capacity |-> 0, idle |-> 0]

AtMost(n, bound) == IF n > bound THEN bound ELSE n

\* Go's garbage collector: an object nobody points to is forgotten.
Collect(h, t, r) ==
  [b \in Buckets |-> IF b = t \/ \E c \in Callers : r[c] = b THEN h[b] ELSE Blank]

BucketInit ==
  /\ table = NoBucket
  /\ heap = [b \in Buckets |-> Blank]
  /\ pc = [c \in Callers |-> "idle"]
  /\ limit = [c \in Callers |-> 0]
  /\ delay = [c \in Callers |-> 0]
  /\ ref = [c \in Callers |-> NoBucket]
  /\ wait = [c \in Callers |-> 0]
  /\ patient = {}
  /\ swept = {}
  /\ watched = 0
  /\ grants = 0
  /\ late = 0

Goto(c, label) == pc' = [pc EXCEPT ![c] = label]

\* A client sends a request.  It waited as told if its Retry-After is over;
\* wait = 0 also says that its last request was allowed.
SendRequest(c) ==
  /\ pc[c] = "idle"
  /\ Goto(c, "lookup")
  /\ \E l \in Limits : limit' = [limit EXCEPT ![c] = l]
  /\ delay' = [delay EXCEPT ![c] = 0]
  /\ patient' = IF wait[c] = 0 THEN patient ELSE patient \ {c}
  /\ wait' = [wait EXCEPT ![c] = 0]
  /\ UNCHANGED <<table, heap, ref, swept, watched, grants, late>>

\* Under l.mu.RLock.
FindBucket(c) ==
  /\ pc[c] = "lookup"
  /\ ref' = [ref EXCEPT ![c] = table]
  /\ Goto(c, IF table = NoBucket THEN "create" ELSE "update")
  /\ UNCHANGED <<table, heap, limit, delay, wait, history>>

\* Under b.mu: the plan may have changed.
Update(c) ==
  /\ pc[c] = "update"
  /\ Goto(c, "take")
  /\ heap' = [heap EXCEPT ![ref[c]].capacity = limit[c],
                          ![ref[c]].tokens = IF heap[ref[c]].capacity = limit[c] THEN @
                                             ELSE AtMost(@, limit[c] * Period)]
  /\ patient' = IF heap[ref[c]].capacity = limit[c] THEN patient ELSE {}
  /\ UNCHANGED <<table, held, wait, swept, watched, grants, late>>

Full(c) == [tokens |-> limit[c] * Period, capacity |-> limit[c], idle |-> delay[c]]

\* Under l.mu.Lock: look again, then make a bucket.  One found now is used as it is.
Create(c) ==
  /\ pc[c] = "create"
  /\ Goto(c, "take")
  /\ IF table # NoBucket
       THEN /\ ref' = [ref EXCEPT ![c] = table]
            /\ UNCHANGED <<table, heap>>
       ELSE \E b \in Buckets \ {ref[d] : d \in Callers} :
              /\ table' = b
              /\ ref' = [ref EXCEPT ![c] = b]
              /\ heap' = [heap EXCEPT ![b] = Full(c)]
  /\ UNCHANGED <<limit, delay, wait, history>>

\* elapsed = now - lastRefill, where now is the call's own reading of the clock.
Refilled(b, d) ==
  IF b.idle > d
    THEN [b EXCEPT !.tokens = AtMost(@ + (b.idle - d) * b.capacity, b.capacity * Period),
                   !.idle = d]
    ELSE b

\* Mutant: the wait is rounded down.
MutantRetryAfter(b) == (Period - b.tokens) \div b.capacity

\* math.Ceil(missing / refillRate), at least one second.
RetryAfter(b) == (Period - b.tokens + b.capacity - 1) \div b.capacity

\* Under b.mu.
Take(c) ==
  /\ pc[c] = "take"
  /\ Goto(c, "idle")
  /\ limit' = [limit EXCEPT ![c] = 0]
  /\ delay' = [delay EXCEPT ![c] = 0]
  /\ ref' = [ref EXCEPT ![c] = NoBucket]
  /\ swept' = swept \ {c}
  /\ LET b == Refilled(heap[ref[c]], delay[c])
     IN  IF b.tokens >= Period
           THEN /\ heap' = Collect([heap EXCEPT ![ref[c]] = [b EXCEPT !.tokens = @ - Period]], table, ref')
                /\ IF c \in swept THEN late' = late + 1 /\ UNCHANGED grants
                                   ELSE grants' = grants + 1 /\ UNCHANGED late
                /\ patient' = {}
                /\ UNCHANGED wait
           ELSE /\ heap' = Collect([heap EXCEPT ![ref[c]] = b], table, ref')
                /\ wait' = [wait EXCEPT ![c] = RetryAfter(b)]
                /\ patient' = patient \cup ({c} \ swept)
                /\ UNCHANGED <<grants, late>>
  /\ UNCHANGED <<table, watched>>

\* Mutant: every bucket is dropped, however recently it was used.
MutantStale(b) == TRUE

Stale(b) == b.idle > MaxIdle

\* CleanupStale, under l.mu.Lock.
CleanupStale ==
  /\ table # NoBucket
  /\ Stale(heap[table])
  /\ table' = NoBucket
  /\ swept' = swept \cup {c \in Callers : ref[c] = table}
  /\ heap' = Collect(heap, NoBucket, ref)
  /\ UNCHANGED <<pc, held, wait, patient, watched, grants, late>>

SecondPasses ==
  /\ \A c \in Callers : pc[c] # "idle" => delay[c] < MaxDelay
  /\ watched < MaxWatch
  /\ watched' = watched + 1
  /\ heap' = [b \in Buckets |-> IF heap[b] = Blank THEN Blank
                                ELSE [heap[b] EXCEPT !.idle = AtMost(@ + 1, MaxAge)]]
  /\ delay' = [c \in Callers |-> IF pc[c] # "idle" THEN delay[c] + 1 ELSE 0]
  /\ wait' = [c \in Callers |-> IF wait[c] > 0 THEN wait[c] - 1 ELSE 0]
  /\ UNCHANGED <<table, pc, limit, ref, patient, swept, grants, late>>

\* The observer starts to watch afresh; not a step of the code.
Watch ==
  /\ watched > 0 \/ grants > 0 \/ late > 0
  /\ watched' = 0
  /\ grants' = 0
  /\ late' = 0
  /\ UNCHANGED <<table, heap, pc, held, wait, patient, swept>>

BucketNext ==
  \/ \E c \in Callers : SendRequest(c) \/ FindBucket(c) \/ Update(c) \/ Create(c) \/ Take(c)
  \/ CleanupStale \/ SecondPasses \/ Watch

BucketSpec == BucketInit /\ [][BucketNext]_bucketVars

-----------------------------------------------------------------------------
(* A token bucket's promise, over any stretch of time the history watched: *)
(* a burst of one capacity, and one capacity per minute after it.  Calls   *)
(* whose bucket the cleaner drops under them get a second burst from it,   *)
(* beside the bucket that is made in its place; but a tenant never gets a  *)
(* third: the next bucket to be dropped has been idle too long for that.   *)
(* The slack is for calls that read the clock before the stretch.          *)
RateBounded ==
  /\ grants * Period <= MaxLimit * Period + MaxLimit * (watched + MaxDelay)
  /\ (grants + late) * Period <= 2 * MaxLimit * Period + MaxLimit * (watched + 3 * MaxDelay)

(* A refused client that waits as Retry-After said is not refused again,   *)
(* unless somebody else got a token or the plan changed meanwhile, or the  *)
(* cleaner had dropped the bucket that refused it.                         *)
RetryAfterSuffices ==
  [][\A c \in patient : pc[c] = "take" /\ pc'[c] = "idle" => c \notin patient']_bucketVars
=============================================================================
