------------------------------- MODULE JwksCache -------------------------------
(***************************************************************************)
(* The public keys an API replica verifies Keycloak's tokens with          *)
(* (OIDCValidator, middleware/oidc.go).  Keys are fetched when a token     *)
(* names one that is not cached, at most once per MinInterval, and the     *)
(* fetch holds the write lock of v.mu: meanwhile nobody can look a key up, *)
(* not even one that is cached.  Cached keys are never dropped.            *)
(*                                                                         *)
(* A validation is at "lookup" (the read lock of getKey), "refresh" (the   *)
(* write lock of refreshKeys), "fetching" and "answered" (the HTTP call,   *)
(* with the lock), "again" (the second read lock of getKey) or "claims"    *)
(* (the read lock for the expected issuer and audience).                   *)
(*                                                                         *)
(* The provider is external.  It publishes keys and withdraws them, and it *)
(* may be ill: then calls fail or take as long as they are allowed to.     *)
(***************************************************************************)
EXTENDS Integers

CONSTANTS
  Calls,        \* goroutines that validate tokens
  NoCall,       \* nobody holds the write lock
  Kids,         \* key ids the provider may use
  NoKid,        \* a validation that is over has none
  MinInterval,  \* minFetchInterval, 3 seconds
  FetchTimeout, \* timeout of httpClient, 5 seconds
  Faults        \* what may go wrong, see FaultKinds

FaultKinds == {"outage", "disconnect"}

ASSUME JwksAssumption ==
  /\ NoCall \notin Calls
  /\ NoKid \notin Kids
  /\ MinInterval \in Nat \ {0}
  /\ FetchTimeout \in Nat \ {0}
  /\ Faults \subseteq FaultKinds

VARIABLES
  keys,        \* v.keys
  sinceFetch,  \* time since v.lastFetch, up to MinInterval
  writer,      \* who holds v.mu for writing
  passing,     \* readers its last release let in, ahead of the next writer
  pc,          \* where each validation is
  kid,         \* the key its token names
  fetchAge,    \* age of the fetch under way
  response,    \* the keys in the answer to it
  lastFailed,  \* history: the last fetch failed
  quiet,       \* history: time since the provider was last asked, up to MinInterval
  blocked,     \* history: time each reader has waited for the lock
  published,   \* the provider's keys
  age,         \* for how long each key has been published, up to MaxAge
  well         \* the provider answers

validation == <<pc, kid, blocked>>
fetch      == <<fetchAge, response>>
provider   == <<published, age, well>>
history    == <<lastFailed, quiet>>
vars == <<keys, sinceFetch, writer, passing, validation, fetch, history, provider>>

Longer(m, n) == IF m < n THEN n ELSE m
AtMost(n, bound) == IF n > bound THEN bound ELSE n

\* How long a healthy provider's new key may go unnoticed, see NewKeysAreServed.
Lag    == Longer(MinInterval, FetchTimeout)
MaxAge == Lag + 1

Init ==
  /\ keys = {}
  /\ sinceFetch = MinInterval  \* lastFetch is the zero time
  /\ writer = NoCall
  /\ passing = {}
  /\ pc = [c \in Calls |-> "idle"]
  /\ kid = [c \in Calls |-> NoKid]
  /\ blocked = [c \in Calls |-> 0]
  /\ fetchAge = 0
  /\ response = {}
  /\ lastFailed = FALSE
  /\ quiet = MinInterval
  /\ published = {}
  /\ age = [k \in Kids |-> 0]
  /\ well = TRUE

Goto(c, label) == pc' = [pc EXCEPT ![c] = label]

-----------------------------------------------------------------------------
(* A validation. *)

\* A well-formed RS256 token; others are refused before any key is looked up.
ValidateToken(c, k) ==
  /\ pc[c] = "idle"
  /\ Goto(c, "lookup")
  /\ kid' = [kid EXCEPT ![c] = k]
  /\ UNCHANGED <<keys, sinceFetch, writer, passing, blocked, fetch, history, provider>>

\* ValidateToken returns.
Leave(c) ==
  /\ Goto(c, "idle")
  /\ kid' = [kid EXCEPT ![c] = NoKid]

Readers == {"lookup", "again", "claims"}

\* v.mu.RLock.
Read(c) ==
  /\ writer = NoCall
  /\ passing' = passing \ {c}
  /\ blocked' = [blocked EXCEPT ![c] = 0]

\* getKey returned the key: the signature is checked, then the claims.
Verify(c) == (Goto(c, "claims") /\ UNCHANGED kid) \/ Leave(c)

Throttled == sinceFetch < MinInterval

\* Mutant: a refused lookup counts as a fetch.
MutantLookup(c) ==
  /\ pc[c] = "lookup"
  /\ Read(c)
  /\ IF kid[c] \in keys THEN Verify(c)
     ELSE IF Throttled THEN Leave(c)
     ELSE Goto(c, "refresh") /\ UNCHANGED kid
  /\ sinceFetch' = IF kid[c] \notin keys /\ Throttled THEN 0 ELSE sinceFetch
  /\ UNCHANGED <<keys, writer, fetch, history, provider>>

\* getKey up to refreshKeys.
Lookup(c) ==
  /\ pc[c] = "lookup"
  /\ Read(c)
  /\ IF kid[c] \in keys THEN Verify(c)
     ELSE IF Throttled THEN Leave(c)
     ELSE Goto(c, "refresh") /\ UNCHANGED kid
  /\ UNCHANGED <<keys, sinceFetch, writer, fetch, history, provider>>

\* A writer waits for the readers its predecessor let in.
Lockable == writer = NoCall /\ passing = {}

\* refreshKeys, when another fetch began since.
SkipRefresh(c) ==
  /\ pc[c] = "refresh"
  /\ Lockable
  /\ Throttled
  /\ Goto(c, "again")
  /\ UNCHANGED <<keys, sinceFetch, writer, passing, kid, blocked, fetch, history, provider>>

\* Mutant: lastFetch is not set before the call is made.
MutantStartFetch(c) ==
  /\ pc[c] = "refresh"
  /\ Lockable
  /\ ~Throttled
  /\ writer' = c
  /\ quiet' = 0
  /\ fetchAge' = 0
  /\ Goto(c, "fetching")
  /\ UNCHANGED <<keys, sinceFetch, passing, kid, blocked, response, lastFailed, provider>>

\* refreshKeys up to the HTTP call.
StartFetch(c) ==
  /\ pc[c] = "refresh"
  /\ Lockable
  /\ ~Throttled
  /\ writer' = c
  /\ sinceFetch' = 0
  /\ quiet' = 0
  /\ fetchAge' = 0
  /\ Goto(c, "fetching")
  /\ UNCHANGED <<keys, passing, kid, blocked, response, lastFailed, provider>>

\* v.mu.Unlock: the readers that wait go before any other writer.
Unlock(c) ==
  /\ writer' = NoCall
  /\ passing' = {d \in Calls : pc[d] \in Readers}
  /\ fetchAge' = 0
  /\ response' = {}

\* Mutant: only the key that was asked for is cached.
MutantInstall(c) ==
  /\ pc[c] = "answered"
  /\ keys' = keys \cup (response \cap {kid[c]})
  /\ lastFailed' = FALSE
  /\ Unlock(c)
  /\ Goto(c, "again")
  /\ UNCHANGED <<sinceFetch, kid, blocked, quiet, provider>>

\* The rest of refreshKeys.
Install(c) ==
  /\ pc[c] = "answered"
  /\ keys' = keys \cup response
  /\ lastFailed' = FALSE
  /\ Unlock(c)
  /\ Goto(c, "again")
  /\ UNCHANGED <<sinceFetch, kid, blocked, quiet, provider>>

\* Mutant: a failed fetch is tried once more before the lock is released.
MutantFetchFails(c) ==
  /\ pc[c] \in {"fetching", "answered"}
  /\ ~well
  /\ lastFailed' = TRUE
  /\ fetchAge' = 0
  /\ Goto(c, "fetching")
  /\ UNCHANGED <<keys, sinceFetch, writer, passing, kid, blocked, response, quiet, provider>>

\* An error, another status than 200, no JSON, or the client's timeout.
FetchFails(c) ==
  /\ pc[c] \in {"fetching", "answered"}
  /\ ~well
  /\ lastFailed' = TRUE
  /\ Unlock(c)
  /\ Leave(c)
  /\ UNCHANGED <<keys, sinceFetch, blocked, quiet, provider>>

\* The request that fetches is cancelled, and with its context the fetch.
Disconnect(c) ==
  /\ "disconnect" \in Faults
  /\ pc[c] \in {"fetching", "answered"}
  /\ lastFailed' = TRUE
  /\ Unlock(c)
  /\ Leave(c)
  /\ UNCHANGED <<keys, sinceFetch, blocked, quiet, provider>>

\* The end of getKey.
LookupAgain(c) ==
  /\ pc[c] = "again"
  /\ Read(c)
  /\ IF kid[c] \in keys THEN Verify(c) ELSE Leave(c)
  /\ UNCHANGED <<keys, sinceFetch, writer, fetch, history, provider>>

\* The rest of ValidateToken: expiry, issuer and audience.
CheckClaims(c) ==
  /\ pc[c] = "claims"
  /\ Read(c)
  /\ Leave(c)
  /\ UNCHANGED <<keys, sinceFetch, writer, fetch, history, provider>>

-----------------------------------------------------------------------------
(* The provider, and time. *)

\* The provider answers with the keys of this moment.
Respond ==
  /\ writer # NoCall
  /\ pc[writer] = "fetching"
  /\ well
  /\ response' = published
  /\ Goto(writer, "answered")
  /\ UNCHANGED <<keys, sinceFetch, writer, passing, kid, blocked, fetchAge, history, provider>>

Publish(k) ==
  /\ k \notin published
  /\ published' = published \cup {k}
  /\ age' = [age EXCEPT ![k] = 0]
  /\ UNCHANGED <<keys, sinceFetch, writer, passing, validation, fetch, history, well>>

Withdraw(k) ==
  /\ k \in published
  /\ published' = published \ {k}
  /\ age' = [age EXCEPT ![k] = 0]
  /\ UNCHANGED <<keys, sinceFetch, writer, passing, validation, fetch, history, well>>

FallIll ==
  /\ "outage" \in Faults
  /\ well
  /\ well' = FALSE
  /\ UNCHANGED <<keys, sinceFetch, writer, passing, validation, fetch, history, published, age>>

Recover ==
  /\ ~well
  /\ well' = TRUE
  /\ UNCHANGED <<keys, sinceFetch, writer, passing, validation, fetch, history, published, age>>

(***************************************************************************)
(* The client's timeout ends a fetch, and a goroutine that has only the    *)
(* map left to read does not sleep for a tick with the lock free.          *)
(***************************************************************************)
Tick ==
  /\ writer # NoCall => fetchAge < FetchTimeout
  /\ writer = NoCall => \A c \in Calls : pc[c] # "again"
  /\ sinceFetch' = AtMost(sinceFetch + 1, MinInterval)
  /\ quiet' = AtMost(quiet + 1, MinInterval)
  /\ fetchAge' = IF writer # NoCall THEN fetchAge + 1 ELSE 0
  /\ blocked' = [c \in Calls |-> IF writer # NoCall /\ pc[c] \in Readers
                                   THEN blocked[c] + 1 ELSE blocked[c]]
  /\ age' = [k \in Kids |-> IF k \in published THEN AtMost(age[k] + 1, MaxAge) ELSE 0]
  /\ UNCHANGED <<keys, writer, passing, pc, kid, response, lastFailed, published, well>>

Proceed(c) ==
  Lookup(c) \/ SkipRefresh(c) \/ StartFetch(c) \/ Install(c) \/ FetchFails(c)
  \/ LookupAgain(c) \/ CheckClaims(c)

Next ==
  \/ \E c \in Calls : Proceed(c) \/ Disconnect(c) \/ \E k \in Kids : ValidateToken(c, k)
  \/ \E k \in Kids : Publish(k) \/ Withdraw(k)
  \/ Respond \/ FallIll \/ Recover \/ Tick

Spec == Init /\ [][Next]_vars

(***************************************************************************)
(* Fairness: goroutines and the clock go on, a provider that is well       *)
(* answers, and clients keep presenting tokens of every key.               *)
(***************************************************************************)
Fairness ==
  /\ WF_vars(Tick)
  /\ WF_vars(Respond)
  /\ \A c \in Calls : WF_vars(Proceed(c))
  /\ \A k \in Kids : SF_vars(\E c \in Calls : ValidateToken(c, k))

FairSpec == Spec /\ Fairness
-----------------------------------------------------------------------------
(* A token is refused for its key although the provider has published the  *)
(* key for longer than an interval and a fetch can take only if the last   *)
(* fetch failed: waiting for another's fetch, finding it too early for     *)
(* one, or reading the map again loses no key (getKey, refreshKeys).       *)
NewKeysAreServed ==
  [][\A c \in Calls :
       pc[c] \in {"lookup", "again"} /\ pc'[c] = "idle" /\ kid[c] \notin keys
         => lastFailed \/ age[kid[c]] <= Lag]_vars

(* However many validations find their key missing at once, and however    *)
(* their fetches end, the provider is left alone for MinInterval.          *)
FetchesSpaced ==
  [][\A c \in Calls : pc[c] # "fetching" /\ pc'[c] = "fetching" => quiet = MinInterval]_vars

(* A reader of the lock, that is a validation that looks its key up or     *)
(* reads the expected issuer and audience, waits for one fetch of somebody *)
(* else at most, though a fetch may outlast MinInterval and the next one   *)
(* be due at once.  (A validation at "refresh" waits for every writer      *)
(* before it, and so for several fetches when they outlast MinInterval.)   *)
WaitForOneFetch == \A c \in Calls : blocked[c] <= FetchTimeout

Cancelled == \E c \in Calls : Disconnect(c)

(* A key that stays published reaches the cache, once the provider is well *)
(* for good and no client leaves in the middle of the fetch it caused.     *)
NewKeyArrives ==
  \A k \in Kids : <>[](k \in published) /\ <>[]well /\ <>[][~Cancelled]_vars => <>(k \in keys)
=============================================================================
