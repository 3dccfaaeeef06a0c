---------------------------- MODULE Idempotency ----------------------------
(***************************************************************************)
(* The Idempotency-Key middleware (middleware/idempotency.go) over its two *)
(* stores (idempotency/memory.go, idempotency/postgres.go), for the        *)
(* requests that carry one key of one organization: keys do not interact.  *)
(*                                                                         *)
(* A request takes the key with LockOrGet, runs the OCR handler, and then  *)
(* records the answer (Complete) or gives the key back (Release).  The     *)
(* memory store does each of these under one mutex.  The PostgreSQL store  *)
(* uses one statement each, and a second one for a LockOrGet that found    *)
(* the key taken; its statements run under the request's context, which    *)
(* ends when the client disconnects.                                       *)
(*                                                                         *)
(* Time is the age of the record and of each request, in ticks, saturating *)
(* one past ReplayTTL.                                                     *)
(***************************************************************************)
EXTENDS Integers, FiniteSets

CONSTANTS
  Requests,   \* requests that carry the key; each is served once
  Bodies,     \* request payloads, up to their SHA-256 hash
  NoOne,      \* no request
  ReplayTTL,  \* idempotency.DefaultReplayTTL
  MaxHandler, \* a handler is cut off after this many ticks, see Tick
  Faults      \* what the environment may do, see FaultKinds

(***************************************************************************)
(* "cancel": the client disconnects before its answer is recorded.         *)
(* "crash":  the process dies and is restarted.                            *)
(* "panic":  the handler panics.                                           *)
(* "dberror": a statement of the PostgreSQL store reports an error.        *)
(* "seal":   an answer cannot be sealed, or not be opened again.           *)
(***************************************************************************)
FaultKinds == {"cancel", "crash", "panic", "dberror", "seal"}

(***************************************************************************)
(* MaxHandler < ReplayTTL: the breaker cuts an engine call off after 5 or  *)
(* 25 seconds and http.Server writes for at most 45, the TTL is one hour.  *)
(***************************************************************************)
ASSUME IdempotencyAssumption ==
  /\ NoOne \notin Requests
  /\ ReplayTTL \in Nat
  /\ MaxHandler \in Nat
  /\ MaxHandler < ReplayTTL
  /\ Faults \subseteq FaultKinds

VARIABLES
  backend, \* the store main.go chose, one of Backends
  body,    \* payload of each request
  record,  \* the row or map entry of the key
  pc,      \* where each request is in the middleware
  answer,  \* what each request answered its client, and whose answer it was
  gone,    \* requests whose context has ended
  age      \* ticks since each request took the key

vars == <<backend, body, record, pc, answer, gone, age>>

Ages     == 0 .. ReplayTTL + 1
Backends == {"memory", "postgres"}
Statuses == {"absent", "in_progress", "completed"}
PCs      == {"new", "conflict", "handler", "record", "done"}

(***************************************************************************)
(* Answers.  The handler's status code matters only as one of: "ok" (any   *)
(* answer below 500 but 429), "limited" (429), "failed" (5xx, which is     *)
(* also what a panic becomes).  The middleware itself answers "mismatch"   *)
(* (422), "inProgress" (409), "replay", or "error" (500).  An "ok" that    *)
(* could not be sealed for the store is "unsealed" from then on.           *)
(***************************************************************************)
HandlerAnswers == {"ok", "limited", "failed"}
Kinds == HandlerAnswers \cup {"none", "mismatch", "inProgress", "replay", "error", "lost", "unsealed"}

\* record.owner is a history variable: neither store writes down who took the key.
NoRecord == [status |-> "absent", owner |-> NoOne, hash |-> NoOne, response |-> NoOne, age |-> 0]

Expired == IF backend = "memory" THEN record.age > ReplayTTL ELSE record.age >= ReplayTTL

\* Mutant: an in-progress record is free for the taking.
MutantFree == record.status \in {"absent", "in_progress"} \/ Expired

Free == record.status = "absent" \/ Expired

Serving(r) == pc[r] \in {"handler", "record"}

Init ==
  /\ backend \in Backends
  /\ body \in [Requests -> Bodies]
  /\ record = NoRecord
  /\ pc = [r \in Requests |-> "new"]
  /\ answer = [r \in Requests |-> [kind |-> "none", by |-> NoOne]]
  /\ gone = {}
  /\ age = [r \in Requests |-> 0]

Reply(r, kind, by) ==
  /\ answer' = [answer EXCEPT ![r] = [kind |-> kind, by |-> by]]
  /\ pc' = [pc EXCEPT ![r] = "done"]

\* A statement of the PostgreSQL store that reports an error: its context has ended,
\* or the database or the way to it is broken.  The memory store ignores its context.
StoreMayFail(r) ==
  /\ backend = "postgres"
  /\ r \in gone \/ "dberror" \in Faults

StoreMayWork(r) == backend = "memory" \/ r \notin gone

-----------------------------------------------------------------------------
(* LockOrGet *)

\* The record of a request that takes the key.
Locked(r) == [status |-> "in_progress", owner |-> r, hash |-> body[r],
              response |-> NoOne, age |-> 0]

\* The record is absent or has expired: it becomes this request's.
TakeKey(r) ==
  /\ pc[r] = "new"
  /\ StoreMayWork(r)
  /\ Free
  /\ record' = Locked(r)
  /\ pc' = [pc EXCEPT ![r] = "handler"]
  /\ age' = [age EXCEPT ![r] = 0]
  /\ UNCHANGED <<backend, body, answer, gone>>

\* The middleware's answer to a request that was handed an existing record.  What
\* was sealed with another key cannot be opened.
Refuse(r) ==
  \/ record.hash # body[r] /\ Reply(r, "mismatch", NoOne)
  \/ record.hash = body[r] /\ record.status = "in_progress" /\ Reply(r, "inProgress", NoOne)
  \/ record.hash = body[r] /\ record.status = "completed" /\ Reply(r, "replay", record.response)
  \/ /\ record.hash = body[r] /\ record.status = "completed"
     /\ "seal" \in Faults
     /\ Reply(r, "error", NoOne)

\* MemoryStore: found and returned in the critical section that looked.
FindKey(r) ==
  /\ backend = "memory"
  /\ pc[r] = "new"
  /\ ~Free
  /\ Refuse(r)
  /\ UNCHANGED <<backend, body, record, gone, age>>

\* PostgresStore: the upsert touched no row ...
UpsertConflict(r) ==
  /\ backend = "postgres"
  /\ pc[r] = "new"
  /\ StoreMayWork(r)
  /\ ~Free
  /\ pc' = [pc EXCEPT ![r] = "conflict"]
  /\ UNCHANGED <<backend, body, record, answer, gone, age>>

\* ... so a SELECT fetches the row, which may be another one by now, or none.
SelectExisting(r) ==
  /\ pc[r] = "conflict"
  /\ StoreMayWork(r)
  /\ IF record.status = "absent" THEN Reply(r, "error", NoOne) ELSE Refuse(r)
  /\ UNCHANGED <<backend, body, record, gone, age>>

\* A statement reports an error and had no effect ...
LockOrGetFails(r) ==
  /\ pc[r] \in {"new", "conflict"}
  /\ StoreMayFail(r)
  /\ Reply(r, "error", NoOne)
  /\ UNCHANGED <<backend, body, record, gone, age>>

\* ... or the upsert took the key and its answer was lost: the client is told of an
\* error and the key is locked, with nobody to unlock it.
LockIsLost(r) ==
  /\ pc[r] = "new"
  /\ StoreMayFail(r)
  /\ Free
  /\ record' = Locked(r)
  /\ Reply(r, "error", NoOne)
  /\ UNCHANGED <<backend, body, gone, age>>

-----------------------------------------------------------------------------
(* next.ServeHTTP, and what the middleware does with its outcome. *)

Handle(r) ==
  /\ pc[r] = "handler"
  /\ pc' = [pc EXCEPT ![r] = "record"]
  /\ \E kind \in HandlerAnswers :
       answer' = [answer EXCEPT ![r] = [kind |-> kind, by |-> r]]
  /\ UNCHANGED <<backend, body, record, gone, age>>

\* The deferred recover treats a panic like a 5xx: Release, then answer 500.
HandlerPanics(r) ==
  /\ "panic" \in Faults
  /\ pc[r] = "handler"
  /\ pc' = [pc EXCEPT ![r] = "record"]
  /\ answer' = [answer EXCEPT ![r] = [kind |-> "failed", by |-> r]]
  /\ UNCHANGED <<backend, body, record, gone, age>>

Cacheable(kind) == kind = "ok"

\* Mutant: the record is deleted instead of completed.
MutantComplete(r) == record' = NoRecord

\* Complete: the statement names the key, not the request.
Complete(r) ==
  /\ record' = IF record.status = "absent" THEN record
               ELSE [record EXCEPT !.status = "completed", !.response = r]

\* Mutant: Release leaves an in-progress record alone.
MutantRelease(r) == UNCHANGED record

\* Release: only an in-progress record is deleted.
Release(r) ==
  /\ record' = IF record.status = "in_progress" THEN NoRecord ELSE record

Persist(r) ==
  /\ pc[r] = "record"
  /\ StoreMayWork(r)
  /\ IF Cacheable(answer[r].kind) THEN Complete(r) ELSE Release(r)
  /\ pc' = [pc EXCEPT ![r] = "done"]
  /\ UNCHANGED <<backend, body, answer, gone, age>>

\* An answer that cannot be sealed is not stored: the key is given back.
SealFails(r) ==
  /\ "seal" \in Faults
  /\ pc[r] = "record"
  /\ StoreMayWork(r)
  /\ Cacheable(answer[r].kind)
  /\ Release(r)
  /\ answer' = [answer EXCEPT ![r].kind = "unsealed"]
  /\ pc' = [pc EXCEPT ![r] = "done"]
  /\ UNCHANGED <<backend, body, gone, age>>

\* The error of Complete or Release is discarded.
PersistFails(r) ==
  /\ pc[r] = "record"
  /\ StoreMayFail(r)
  /\ pc' = [pc EXCEPT ![r] = "done"]
  /\ UNCHANGED <<backend, body, record, answer, gone, age>>

-----------------------------------------------------------------------------
(* The environment. *)

Disconnect(r) ==
  /\ "cancel" \in Faults
  /\ pc[r] # "done"
  /\ r \notin gone
  /\ gone' = gone \cup {r}
  /\ UNCHANGED <<backend, body, record, pc, answer, age>>

\* The requests being served are lost with the process; so is the memory store.
Crash ==
  /\ "crash" \in Faults
  /\ \E r \in Requests : pc[r] \notin {"new", "done"}
  /\ pc' = [r \in Requests |-> IF pc[r] = "new" THEN "new" ELSE "done"]
  /\ answer' = [r \in Requests |-> IF pc[r] \in {"new", "done"} THEN answer[r]
                                   ELSE [kind |-> "lost", by |-> NoOne]]
  /\ record' = IF backend = "memory" THEN NoRecord ELSE record
  /\ UNCHANGED <<backend, body, gone, age>>

\* Mutant: the cleaner deletes only completed records.
MutantCleanupStale ==
  /\ record.status = "completed"
  /\ Expired
  /\ record' = NoRecord
  /\ UNCHANGED <<backend, body, pc, answer, gone, age>>

\* CleanupStale, run by the background cleaner.
CleanupStale ==
  /\ record.status # "absent"
  /\ Expired
  /\ record' = NoRecord
  /\ UNCHANGED <<backend, body, pc, answer, gone, age>>

Older(n) == IF n > ReplayTTL THEN n ELSE n + 1

\* A tick never lets a handler outlive MaxHandler: its deadline ends it first.
Tick ==
  /\ \A r \in Requests : Serving(r) => age[r] < MaxHandler
  /\ age' = [r \in Requests |-> IF Serving(r) \/ answer[r].by = r THEN Older(age[r]) ELSE age[r]]
  /\ record' = IF record.status = "absent" THEN record ELSE [record EXCEPT !.age = Older(@)]
  /\ UNCHANGED <<backend, body, pc, answer, gone>>

Serve(r) ==
  \/ TakeKey(r) \/ FindKey(r) \/ UpsertConflict(r) \/ SelectExisting(r)
  \/ LockOrGetFails(r) \/ LockIsLost(r)
  \/ Handle(r) \/ HandlerPanics(r) \/ Persist(r) \/ SealFails(r) \/ PersistFails(r)

Next ==
  \/ \E r \in Requests : Serve(r) \/ Disconnect(r)
  \/ Crash \/ CleanupStale \/ Tick

Spec == Init /\ [][Next]_vars

(***************************************************************************)
(* Fairness: time passes; the cleaner's ticker fires; a request that was   *)
(* let in is served to the end (its handler has a deadline).               *)
(***************************************************************************)
Fairness ==
  /\ WF_vars(Tick)
  /\ WF_vars(CleanupStale)
  /\ \A r \in Requests : WF_vars(pc[r] # "new" /\ Serve(r))

FairSpec == Spec /\ Fairness

-----------------------------------------------------------------------------
(* Every variable keeps the type the code gives it. *)
TypeOK ==
  /\ backend \in Backends
  /\ body \in [Requests -> Bodies]
  /\ record \in [status : Statuses, owner : Requests \cup {NoOne},
                 hash : Bodies \cup {NoOne}, response : Requests \cup {NoOne}, age : Ages]
  /\ pc \in [Requests -> PCs]
  /\ answer \in [Requests -> [kind : Kinds, by : Requests \cup {NoOne}]]
  /\ gone \subseteq Requests
  /\ age \in [Requests -> Ages]

(* Whoever is being served owns an unexpired in-progress record as old as  *)
(* itself, made for its own payload: this is why Complete and Release may  *)
(* name the key alone, without saying whose record they mean.              *)
ServedOwnsRecord ==
  \A r \in Requests : Serving(r) =>
    /\ record.status = "in_progress"
    /\ record.owner = r
    /\ record.hash = body[r]
    /\ record.age = age[r]
    /\ age[r] <= MaxHandler

(* LockOrGet hands the key to one request at a time: two handlers never    *)
(* run under the same key, on any interleaving of the stores' statements.  *)
OneHandlerAtATime ==
  \A r, q \in Requests : Serving(r) /\ Serving(q) => r = q

(* A replayed answer is the answer of a request with the same payload, and *)
(* was one the middleware may cache: never a 5xx, never a 429.             *)
ReplayIsOriginal ==
  \A r \in Requests : answer[r].kind = "replay" =>
    \E q \in Requests : /\ answer[r].by = q
                        /\ answer[q] = [kind |-> "ok", by |-> q]
                        /\ body[q] = body[r]

(* After a handler answered below 500 (but 429), no other handler starts   *)
(* under the key for a whole ReplayTTL: whether the answer was recorded,   *)
(* or recording it failed.  (A crash of the memory store forgets, and an   *)
(* answer that cannot be sealed is given up, so that it can be had again.) *)
AtMostOncePerTTL ==
  [][(backend = "postgres" \/ "crash" \notin Faults) =>
       \A q \in Requests : (pc[q] = "new" /\ pc'[q] = "handler") =>
         \A r \in Requests : answer[r] = [kind |-> "ok", by |-> r] => age[r] >= ReplayTTL]_vars

(* The 409 answer's message: "A request with this Idempotency-Key is       *)
(* currently in progress".                                                 *)
InProgressMeansServing ==
  (record.status = "in_progress" /\ ~Expired) => Serving(record.owner)

(* With the memory store the message is true: a key is locked only while   *)
(* its holder is being served, whatever faults hit the request (with the   *)
(* PostgreSQL store a lost Release, or an upsert whose answer is lost,     *)
(* leaves it locked until the TTL).                                        *)
MemoryKeyIsServed == backend = "memory" => InProgressMeansServing

(* Whatever happened to the request that took it, a key does not stay      *)
(* locked for ever.                                                        *)
KeyComesFree == (record.status = "in_progress") ~> (record.status # "in_progress")

(* Both stores, with the two-statement LockOrGet of one of them, keep the  *)
(* contract of one key.                                                    *)
Contract == INSTANCE IdempotencyContract WITH
  holder   <- IF record.status = "in_progress" THEN record.owner ELSE NoOne,
  answered <- IF record.status = "completed" THEN record.response ELSE NoOne,
  working  <- {r \in Requests : Serving(r)},
  replayed <- [r \in Requests |-> IF answer[r].kind = "replay" THEN answer[r].by ELSE NoOne]

ImplementsContract == Contract!ContractSpec
=============================================================================
