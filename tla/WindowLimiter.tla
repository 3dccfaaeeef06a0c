---------------------------- MODULE WindowLimiter ----------------------------
(***************************************************************************)
(* The cluster-wide rate limiter (ratelimit/postgres.go), for one key: a   *)
(* fixed-window counter, one row of rate_limit_counters per window, raised *)
(* by one upsert that also returns the new count.                          *)
(*                                                                         *)
(* A call reads the clock, and with it its window, before it sends the     *)
(* upsert; the upsert may land in a later window, up to DBTimeout ticks    *)
(* after.  If it fails, a limiter in the replica's memory decides instead  *)
(* (see TokenBucket), and the hit may or may not have been counted.        *)
(*                                                                         *)
(* Now is tick window * Window + offset.  The replicas' clocks agree.      *)
(***************************************************************************)
EXTENDS Integers

CONSTANTS
  Calls,      \* goroutines of all replicas that call Allow for the key
  MaxLimit,   \* bound of the plan limits below
  Limits,     \* plan limits in force: replicas may have cached different ones
  Window,     \* WindowSize, in ticks
  Second,     \* ticks per second
  DBTimeout,  \* the timeout of the upsert, in ticks
  Horizon,    \* last window of the model
  MaxHits,    \* no call arrives in a window with this many hits
  Faults      \* {"dberror"} if the upsert may fail, {} if not

\* getOrgRateLimit never returns a limit below 1, so the default of 10 is not taken.
ASSUME WindowAssumption ==
  /\ MaxLimit \in Nat
  /\ Limits \subseteq 1 .. MaxLimit
  /\ Window \in Nat \ {0}
  /\ Second \in Nat \ {0}
  /\ DBTimeout \in Nat
  /\ DBTimeout < Window
  /\ Horizon \in Nat
  /\ MaxHits \in Nat
  /\ Faults \subseteq {"dberror"}

VARIABLES
  window,     \* number of the current window
  offset,     \* ticks since it began
  hits,       \* rows of the table; 0 where there is no row
  pc,         \* where each call is
  callWindow, \* the window the call read off the clock
  callLimit,  \* the limit it was called with
  age,        \* ticks since it read the clock
  wait,       \* ticks until a refused client may come back
  granted,    \* history: calls of each window the counter allowed
  refused,    \* history: calls of each window the counter refused
  lost        \* history: hits of each window whose call saw an error

clock   == <<window, offset>>
call    == <<callWindow, callLimit, age>>
history == <<granted, refused, lost>>
vars    == <<clock, hits, pc, call, wait, history>>

Windows == 0 .. Horizon
PCs     == {"idle", "counting", "waiting"}

Init ==
  /\ window = 0
  /\ offset = 0
  /\ hits = [w \in Windows |-> 0]
  /\ pc = [c \in Calls |-> "idle"]
  /\ callWindow = [c \in Calls |-> 0]
  /\ callLimit = [c \in Calls |-> 0]
  /\ age = [c \in Calls |-> 0]
  /\ wait = [c \in Calls |-> 0]
  /\ granted = [w \in Windows |-> 0]
  /\ refused = [w \in Windows |-> 0]
  /\ lost = [w \in Windows |-> 0]

Bump(f, w) == [f EXCEPT ![w] = @ + 1]

\* Allow reads the clock and truncates it to the window.
Arrive(c) ==
  /\ pc[c] = "idle" \/ (pc[c] = "waiting" /\ wait[c] = 0)
  /\ hits[window] < MaxHits
  /\ pc' = [pc EXCEPT ![c] = "counting"]
  /\ callWindow' = [callWindow EXCEPT ![c] = window]
  /\ \E limit \in Limits : callLimit' = [callLimit EXCEPT ![c] = limit]
  /\ age' = [age EXCEPT ![c] = 0]
  /\ UNCHANGED <<clock, hits, wait, history>>

\* time.Until(resetTime): negative once the call's window is over.
UntilReset(c) == (callWindow[c] + 1 - window) * Window - offset

\* int(...Seconds()) drops the fraction; the code never says less than one second.
RetryAfter(ticks) == IF ticks \div Second < 1 THEN 1 ELSE ticks \div Second

\* The call's locals are dead; a refused client remembers its window.
Leave(c) ==
  /\ callLimit' = [callLimit EXCEPT ![c] = 0]
  /\ age' = [age EXCEPT ![c] = 0]
  /\ UNCHANGED callWindow

\* Mutant: the comparison lets one call too many through.
MutantCount(c) ==
  /\ pc[c] = "counting"
  /\ hits' = Bump(hits, callWindow[c])
  /\ IF hits[callWindow[c]] > callLimit[c]
       THEN /\ pc' = [pc EXCEPT ![c] = "waiting"]
            /\ wait' = [wait EXCEPT ![c] = RetryAfter(UntilReset(c)) * Second]
            /\ refused' = Bump(refused, callWindow[c])
            /\ UNCHANGED granted
       ELSE /\ pc' = [pc EXCEPT ![c] = "idle"]
            /\ granted' = Bump(granted, callWindow[c])
            /\ UNCHANGED <<wait, refused>>
  /\ Leave(c)
  /\ UNCHANGED <<clock, lost>>

\* Mutant: the call at the limit is refused.
MutantCountStrict(c) ==
  /\ pc[c] = "counting"
  /\ hits' = Bump(hits, callWindow[c])
  /\ IF hits'[callWindow[c]] >= callLimit[c]
       THEN /\ pc' = [pc EXCEPT ![c] = "waiting"]
            /\ wait' = [wait EXCEPT ![c] = RetryAfter(UntilReset(c)) * Second]
            /\ refused' = Bump(refused, callWindow[c])
            /\ UNCHANGED granted
       ELSE /\ pc' = [pc EXCEPT ![c] = "idle"]
            /\ granted' = Bump(granted, callWindow[c])
            /\ UNCHANGED <<wait, refused>>
  /\ Leave(c)
  /\ UNCHANGED <<clock, lost>>

\* The upsert: INSERT 1, or add 1 to the row, and return the count.
Count(c) ==
  /\ pc[c] = "counting"
  /\ hits' = Bump(hits, callWindow[c])
  /\ IF hits'[callWindow[c]] > callLimit[c]
       THEN /\ pc' = [pc EXCEPT ![c] = "waiting"]
            /\ wait' = [wait EXCEPT ![c] = RetryAfter(UntilReset(c)) * Second]
            /\ refused' = Bump(refused, callWindow[c])
            /\ UNCHANGED granted
       ELSE /\ pc' = [pc EXCEPT ![c] = "idle"]
            /\ granted' = Bump(granted, callWindow[c])
            /\ UNCHANGED <<wait, refused>>
  /\ Leave(c)
  /\ UNCHANGED <<clock, lost>>

\* The upsert fails, before or after it took effect, and fallbackAllow answers.
CountFails(c) ==
  /\ "dberror" \in Faults
  /\ pc[c] = "counting"
  /\ pc' = [pc EXCEPT ![c] = "idle"]
  /\ \/ /\ hits' = Bump(hits, callWindow[c])
        /\ lost' = Bump(lost, callWindow[c])
     \/ UNCHANGED <<hits, lost>>
  /\ Leave(c)
  /\ UNCHANGED <<clock, wait, granted, refused>>

\* window_start < now - 2 * WindowSize
Elapsed(w) == w < window - 2 \/ (w = window - 2 /\ offset > 0)

\* sweepRateWindows, from the background cleaner.
CleanupStale ==
  /\ \E w \in Windows : Elapsed(w) /\ hits[w] > 0
  /\ hits' = [w \in Windows |-> IF Elapsed(w) THEN 0 ELSE hits[w]]
  /\ UNCHANGED <<clock, pc, call, wait, history>>

\* No upsert outlives its timeout.
Tick ==
  /\ \A c \in Calls : pc[c] = "counting" => age[c] < DBTimeout
  /\ \/ offset + 1 < Window /\ offset' = offset + 1 /\ window' = window
     \/ offset + 1 = Window /\ window < Horizon /\ offset' = 0 /\ window' = window + 1
  /\ age' = [c \in Calls |-> IF pc[c] = "counting" THEN age[c] + 1 ELSE age[c]]
  /\ wait' = [c \in Calls |-> IF wait[c] > 0 THEN wait[c] - 1 ELSE 0]
  /\ UNCHANGED <<hits, pc, callWindow, callLimit, history>>

Next ==
  \/ \E c \in Calls : Arrive(c) \/ Count(c) \/ CountFails(c)
  \/ CleanupStale
  \/ Tick

Spec == Init /\ [][Next]_vars

-----------------------------------------------------------------------------
(* Every variable keeps the type the code gives it. *)
TypeOK ==
  /\ window \in Windows
  /\ offset \in 0 .. Window - 1
  /\ hits \in [Windows -> Nat]
  /\ pc \in [Calls -> PCs]
  /\ callWindow \in [Calls -> Windows]
  /\ callLimit \in [Calls -> 0 .. MaxLimit]
  /\ age \in [Calls -> 0 .. DBTimeout]
  /\ wait \in [Calls -> Nat]
  /\ granted \in [Windows -> Nat]
  /\ refused \in [Windows -> Nat]
  /\ lost \in [Windows -> Nat]

(* All replicas together grant at most the plan limit per window, although *)
(* upserts land late and the cleaner deletes rows meanwhile.               *)
GrantsWithinLimit == \A w \in Windows : granted[w] <= MaxLimit

(* The counter refuses nobody unless as many of the window's calls as one  *)
(* of the limits in force were let through, or counted and then reported   *)
(* as failed: a refused call or a call of another window uses up no        *)
(* allowance.  Where a plan changes within a window, that limit may be the *)
(* other caller's, as the counter goes on after its refusals.              *)
FullBeforeRefusal ==
  \A w \in Windows : refused[w] > 0 => \E limit \in Limits : granted[w] + lost[w] >= limit

(* The cleaner never takes back a count that a call in flight builds on.   *)
CountsNeverRegress ==
  [][\A c \in Calls : pc[c] = "counting" => hits'[callWindow[c]] >= hits[callWindow[c]]]_vars

=============================================================================
