# Verification of Lensio's API

Lensio is an OCR service: a Go API (`apps/api`), an OCR library
(`services/ocr`), a React dashboard (`apps/dashboard`) and the scripts that
deploy them.  The API runs as several replicas in front of one PostgreSQL
database.  What is hard to get right in it is not the call of the vision model
but what surrounds it: goroutines that share a circuit breaker, retries under an
idempotency key, rate limits kept partly in memory and partly in the database,
usage records written after the answer, sessions revoked in a row every replica
caches, accounts and keys whose changes are chains of statements without a
transaction, and rules that decide how far a reading is to be trusted.  This
directory holds TLA+ modules of those parts, TLC configurations that check them,
and proofs for TLAPS.

    tlc -workers 2 -config CircuitBreakerSafety.cfg MCCircuitBreaker.tla
    tlapm OcrProofs.tla

`PROJECT.json` relates every definition to the lines it models, names every
run and the properties it checks, a mutation of the code for each property,
the hazards the properties are for, and the theorems.

Contents: 1 the system, 2 the modules, 3 the runs, 4 the proofs, 5 where
documents and code part, 6 what is not modelled, 7 the plan.


## 1. The system

### Path of an extraction

    client ── Idempotency-Key ──> Recover > auth (session | API key) > rate limit
       > UsageMetering > Idempotency > ocrPipeline:
            CheckQuota -> ValidateImage -> CircuitBreaker.Execute(engine)
            -> normalize -> store the row -> answer
       <───────────────────────── answer, then the usage record is queued

Every request runs on its own goroutine.  Beside them run one usage worker,
the background cleaner, and in `main` the shutdown sequence.

### Components

| component | state | operations | interacts with | what makes it correct |
|---|---|---|---|---|
| circuit breaker, `services/ocr/circuit_breaker.go` | state, two counters, canary slot, time of the last change; one mutex | `Execute` (`beforeCall`, `currentTimeout`, `afterCall`), `Trip`, `Reset` | called by the pipeline, calls the engine | probes are rationed, open lasts the cooldown, late outcomes do no harm, it recovers |
| idempotent replay, `middleware/idempotency.go`, `idempotency/{memory,postgres}.go` | one record per organization and key | `LockOrGet`, `Complete`, `Release`, `CleanupStale` | wraps the handler; cleaner | one handler at a time, one effect per TTL, a replay is the original answer, no key is locked for ever |
| cluster rate limit, `ratelimit/postgres.go` | one row per key and minute | upsert, fallback, sweep | all replicas; cleaner | no more than the limit per window, no refusal without cause |
| token bucket, `ratelimit/ratelimit.go` | map of buckets, each with a lock | `Allow`, `getOrCreateBucket`, `CleanupStale` | the fallback of the above; cleaner | bounded rate, honest `Retry-After` |
| plan cache, `middleware/ratelimit.go` | two kinds of entries with an expiry | `getOrgRateLimit` | billing changes plans behind it | how long a limit that no longer applies is used |
| metering and quota, `usage/recorder.go`, `middleware/metering.go`, `quota/quota.go`, `cmd/server/main.go` | channel, closed flag, worker, rows | `CheckQuota`, `Record`, worker, `Close`, shutdown | every request; database; signals | no record twice, none vanishes unaccounted, bounded overshoot, shutdown ends |
| sessions, `middleware/oidc.go`, `handlers/{auth,password_reset}.go`, `store/account.go` | `sessions_valid_from`, reset token, per-replica cache | login, validate, logout, reset | all replicas | a revoked session dies within a bound, a reset token works once |
| identity provider's keys, `middleware/oidc.go` `OIDCValidator` | key map, time of the last fetch; one `RWMutex` | `ValidateToken`, `getKey`, `refreshKeys` | every request with a provider's token; the provider over HTTP | a rotated key is picked up, the provider is not flooded, no reader waits long for the lock |
| accounts and organizations, `handlers/{auth,account}.go`, `store/account.go` | users, organizations, membership, audit rows | register, verify, login, create organization, change plan | sessions, mail | proved addresses, attribution backed by membership |
| API keys and authorisation, `handlers/api_keys.go`, `middleware/{apikey,dual_auth}.go`, `authz/` | keys, SpiceDB relationships, audit rows | create, list, revoke, permission checks | SpiceDB; every request with a key | changes by right, a true audit trail, no listing of others' keys |
| OCR pipeline, `handlers/ocr.go`, `providers/gemini.go` | the request, one row per answer | every early return of a request; save; look up | quota, breaker, rules, retention | the verdict is the same twice, a high confidence has its reason |
| documents' rules, `services/ocr/*_validator.go` | none | numbers, check digits, dates, scores, amounts | pipeline, twice per request | confidence means agreement; misreads are caught; genuine documents accepted |
| cleaner and retention, `cmd/server/cleaner.go`, `store/retention.go` | none of its own | periodic sweeps, one cleaner per replica | the stores above; the other replicas' cleaners | never removes what is in use; leaves nothing overdue |
| last-used tracking, `middleware/toucher.go` | map of times, semaphore | `Touch` | every request with a key | a touch is not lost for long |
| text parser, classifier, `services/ocr/{parser,classifier}.go` | none | regular expressions over recognised text | tests only | — |
| dashboard, `context/AuthContext.tsx`, `services/api.ts` | session context, in-flight GETs | login, refresh, switch | API | no answer of another session is shown |
| mock provider, e-mail, telemetry, configuration, infrastructure | none the others read | I/O | — | — |

The first thirteen are modelled, some in part; section 6 says what is left out of
them, and of the others.

### What is hard

* **Several critical sections per call.**  `Execute` locks three times, `Allow`
  three times, `LockOrGet` issues two statements, a validation reads the row
  and writes its cache without holding anything in between.  Each critical
  section or statement is one action; everything else runs between them.
* **No transactions.**  Creating an organization, registering, issuing a key and
  changing a plan are chains of statements.  Any of them can fail, or take effect
  and report an error, and other requests run in between.
* **Outcomes that come late.**  A call admitted in one breaker state reports in
  another; an upsert lands after its window; a usage record is written after
  later requests were let in; a login issues its token after a reset.
* **Several stores.**  A key lives in PostgreSQL, in SpiceDB and in the audit
  log; a session in a row and in every replica's cache.
* **Partial failure.**  A statement may fail, fail after it took effect, or be
  cancelled because the client went away; a panic skips what was to follow.
* **Crash and restart.**  In-memory state is gone, the rows stay.
* **Time.**  TTLs, cooldowns, windows, deadlines, two-digit years, and
  comparisons at their edges.
* **Doing it twice.**  The handler validates and scores what the provider's pass
  has already normalised, filled in and scored.
* **Shutdown.**  Three stages share one deadline.

`PROJECT.json` lists forty such hazards, each at its line, with the properties
that would catch it going wrong.


## 2. The modules

Every module has constants with named assumptions, one action per handler,
critical section or statement, and a `Next` that lists them.  `MC<module>` adds
the symmetry sets and the data for TLC; modules called `...Proofs` hold the
theorems.  Four of these go with one module each; `RateLimitingProofs` is about
WindowLimiter and RateLimiting, `ReplicaLimitProofs` about what one replica keeps
(PlanCache and TokenBucket), `IdentityProofs` about who a caller is (Accounts and
JwksCache), `OcrProofs` about CircuitBreaker, OcrPipeline, DocumentRules and
GenuineDocuments.
History variables, marked as such where they are declared, record what a
property needs and never guard an action.  Definitions called `Mutant...` are
plausible bugs, used only to show that a property can fail.

**CircuitBreaker.**  `Calls` are goroutines that enter `Execute` again and
again: `idle`, `admitted` (after `beforeCall`), `running` (after
`currentTimeout`).  `AdmitClosed`, `AdmitAfterCooldown` and `AdmitProbe` are the
branches of `beforeCall` that let a call through; a rejection changes nothing.
`RecordClosed`, `RecordHalfOpen` and `RecordOpen` are the branches of
`afterCall`, applied to the state of that moment and not of the admission.
`EnginePanic` is the path on which `afterCall` is not reached.  Time is the age
of the state, which the code only compares with the cooldown, so it saturates.
The provider is external: it falls ill and recovers, and a call it was working
on when it fell ill may fail.

**IdempotencyContract** is what a client may rely on: the key is free, held by
one request, or remembers one answer; it changes hands only when nobody works.
It may also be held by nobody until it expires (`Strand`).
**Idempotency** is the middleware over either store: the variable `backend`, set
once by `Init`, is the store that `main` chose.  A request goes
`new` → `handler` → `record` → `done`; with PostgreSQL a `LockOrGet` that finds
the key taken passes through `conflict`, between its two statements.  The
record's status, owner, hash and age are the row or the map entry.
`Disconnect` cancels the context the later statements run under, `Persist` and
`PersistFails` are `Complete` and `Release` with their discarded errors,
`LockIsLost` is an upsert that takes the key and reports an error, `SealFails` and
the last branch of `Refuse` are the cipher's errors, `Crash`
loses the requests (and the memory store), `CleanupStale` is the cleaner.
Request bodies are compared by equality (the hash), sealed answers are
identified with the request that produced them.

**WindowLimiter** is `PostgresLimiter` for one key on all replicas: `Arrive`
reads the clock and fixes the window, `Count` is the upsert that lands up to
`DBTimeout` later, perhaps in the next window, `CountFails` the fallback, with
the hit counted or not.  `CleanupStale` deletes windows older than two.

**RateLimiting** extends it with what a failed upsert falls back on: a bucket per
replica, of the whole limit.  `FallBack` is `CountFails` together with
`FallbackAllow` on some replica, `Restart` empties a replica's memory, `Time` is
the tick of both.  A bucket is taken in one step here.

**TokenBucket** is `Limiter` for one key with its two locks: `SendRequest` reads
the clock and `FindBucket` looks the bucket up (read
lock), `Update` (bucket lock), `Create` (write lock, second look), `Take`
(bucket lock).  Buckets are heap objects that calls point to, because the
cleaner may drop one from the map under a call.  Tokens are counted in
1/`Period`, which makes the refill exact; float rounding is abstracted.

**PlanCache** is `getOrgRateLimit` on one replica: an `org` entry and an `oidc`
entry that is filled from it.  Entries carry the ticks they have left.

**UsageMetering** is the life of one organization's requests and of one
replica's process.  `Arrive` stamps the record with the month (`start`), `TurnOfMonth`
begins the next one, and the check counts the records of the month it runs in.
Requests pass `CheckQuota` (or `Read`), `Extract`, `Record` (takes the
read lock) and `Send` (the `select`).  The worker is `Receive` and `Insert` or
`InsertFails`.  The process goes serving → draining (`srv.Shutdown`) → closing →
waiting (`Recorder.Close`) → exiting → down, then starts again.  **UsageLedger** is what
all this promises: a record has a `fate`, pending until it is written, dropped or
lost, and no more than `AtRisk` are pending at a time.  UsageMetering implements it
(`KeepsLedger`) with a record's fate read off where the record is, and `AtRisk` the
requests in flight, the buffer and the one the worker holds.  The other replicas
write to the table this one counts, and count what it writes.  Of their requests the
model keeps where each is and in which month it arrived (`elsewhere`: arrived, let in,
pending, written, unpaid), and it assumes of them what `LedgerKept` proves of this one,
that each holds a bounded number of unsettled ones: `MaxElsewhere` is that number,
`MaxInFlight + BufferSize + 1`, times the other replicas.

**SessionRevocation** has one user's row (`validFrom`, `reset`), the sessions'
`iat` in whole seconds, a cache entry per replica, and validations, logouts and
reset confirmations in progress.  `Validate`, `Query` and `WriteCache` are the
three points of a validation; `RevokeUserSessions` and
`InvalidateRevocationCache` the two of a logout; `ConfirmReset` (reads the
clock) and `ConsumePasswordResetToken` the two of a confirmation.

**JwksCache** is `OIDCValidator` on one replica.  A validation passes the three
read locks (`Lookup`, `LookupAgain`, `CheckClaims`) and, if its key is missing
and the throttle allows it, the write lock, under which the HTTP call is made
(`StartFetch`, then `Install`, `FetchFails` or `Disconnect`; `SkipRefresh` if
another fetch came first).  `passing` is the guarantee of Go's `RWMutex` that
readers waiting at an unlock go before the next writer.  The provider publishes
and withdraws keys, falls ill and recovers.

**Accounts** has the users, organizations, memberships, delivered mails, session
tokens and audit rows, and a record per request with the statement it executes
next.  `Register`, `InsertUser` and `Mail` are a registration, `VerifyEmail` the
confirmation of the address; `Login` (read, password, verified) and `Issue` a
login; `Reset` (the clock reading) and `ConsumeToken` (the `UPDATE`) a reset of the
password; `CreateOrg`, `InsertOrg`, `FindOwner`,
`AddMember`, `SetDefault` the creation of an organization with the errors its
handler swallows; `UpdatePlan`, `SetPlan`, `AuditPlan` a change of plan.  A
statement that commits and reports an error is a branch of its action.

**ApiKeys** has the `api_keys` rows, the three relations SpiceDB keeps, the audit
rows, and requests that go from `Authenticate` (DualAuth) over `Resolve`
(`resolveOrgID`, with its failing lookups) through the permission checks to the
change and the calls after it.  `rebac` says whether an authorizer is configured.
`Withdraw` is an administrator who loses the right between two steps.

**DocumentRules** are the validators as operators: `ValidateKTP`, `ValidateSIM`,
`ValidatePassport` return the normalised data and the score, `ValidateNPWPData`,
`ValidateKK` and `ValidateInvoice` accept or not.  A string is what the rules can
tell about it: a number is a sequence of characters, a date a record, a text that
only has to be there a member of a set.  Scores are percents.  The record sets
`KTPData` ... `InvoiceData` are what a document may be in the model, and what the
theorems range over.  Loops are recursive functions (`SumOf`) or a description of
their result (`Clean`: the k-th digit kept is the one with k digits up to it), so
that both can be proved about.

**GenuineDocuments** says the same the other way round: what an office writes on a
document, `GenuineKTP` ... `GenuineInvoice`.  A number is composed of a region, a
birth and a serial, a check digit makes a sum come out, the machine readable zone
repeats what is printed, amounts follow from the lines.  It is written from what
these documents are, not from the code that checks them, and nothing in it models
code.  Where the code relies on more, the module says so in words: two digits of a
year tell the last hundred years of birth apart, and expiries up to seventy years
ahead.

**OcrPipeline** is one request, action by action, with a reading out of
`Readings` as what the vision model saw: `Extract` is the provider's pass
(`Extracted`), `Normalize` the handler's (`Normalized`), `Save` the row, if the
confidence as `NUMERIC(5,4)` rounds it fits (`Rounded`, `Storable`); every early
return is a branch with its status.  It extends **Retention**, the sweeps of
several replicas over three tables, with `rows` that are not written yet, fresh,
due or gone.  A sweep reads the clock once (`StartSweep`), and then a table's
statement chooses its ids (`Select`) and deletes those of them that no other sweep
has deleted meanwhile (`Purge`, `PurgeFails`), as PostgreSQL does at READ
COMMITTED: two steps of one statement, which another replica's may come between.

How the modules fit together.  `OcrPipeline` composes the rules, the two
validation passes, and the row an answer leaves with its retention.  `Idempotency` is shown to
implement `IdempotencyContract`, and `UsageMetering` to implement `UsageLedger`.  `RateLimiting` composes
the counter with the fallback's buckets, and checks the counter's properties in
that composition; `TokenBucket` opens up the step a bucket takes there.  The
others share no state, and are cut as follows.  The pipeline calls the breaker
inside the idempotent handler; `Idempotency` and `UsageMetering` take any outcome
of it, and `OcrPipeline` any error of the engine.  `Accounts` has the
password's side of a reset, `SessionRevocation` the token's; `ApiKeys` takes who belongs to which
organization as given, which `Accounts` produces.


## 3. The runs

| run | states | what it asks |
|---|---|---|
| CircuitBreakerSafety | 20,682 | safety and recovery of the breaker under all faults at once |
| IdempotencySafety | 1,050,458 | contract, mutual exclusion, at-most-once, liveness, over either store |
| RateLimitingSafety | 3,949,594 | the shared counter, late upserts, the cleaner, flapping to the buckets |
| TokenBucketSafety | 364,927 | bucket creation races, plan changes, the cleaner |
| UsageMeteringSafety | 1,441,712 | the quota of two months, counted by several replicas, under all faults |
| UsageMeteringLiveness | 30,608 | records and shutdown under all faults; records settle, shutdown ends |
| SessionRevocationSafety | 1,215,546 | revocation lag, single redemption |
| JwksCacheRotation | 504,706 | key rotation, throttle, lock and outages |
| PlanCacheFresh | 799,849 | age of a limit that no longer applies |
| ApiKeysSafety | 2,220,496 | rights, audit and listings across three stores |
| AccountsSafety | 112,763 | chains of statements that fail anywhere |
| OcrPipelineSafety | 258,670 | rules, both passes, rows and the sweeps of two replicas |

`CHECK_DEADLOCK FALSE` stands where the model has finitely many requests or last tick and then rightly stops; the breaker and the key cache run for ever and
are checked for deadlock.

### Properties and what they say of the code

* *Breaker.*  `ProbeBudget`: late outcomes free the slot of a probe that still
  runs, so more than one may run at once, yet a half-open period never admits
  more than `SuccessThreshold`.  `SlotHeldByLiveProbe`: a taken slot has a
  running probe, or was lost to a panic.  `OpenUntilCooldown`: nothing but
  `Reset` shortens it.  `RecoversUnlessLeaked`: once the provider is well for
  good, no interleaving keeps the breaker from closing.
* *Idempotency.*  `ServedOwnsRecord` is why `Complete` and `Release` may name
  the key alone.  `AtMostOncePerTTL`, `KeyComesFree`, `MemoryKeyIsServed`
  (in process, "in progress" is the truth: no statement of the memory store fails,
  and a crash takes the record along), and
  `ImplementsContract` (refinement of IdempotencyContract).
* *Cluster limiter.*  `GrantsWithinLimit`, `FullBeforeRefusal`.
  `FlappingBounded`: whatever the order in which upserts succeed and fail, a
  window lets through the limit, plus for every replica the limit, one window's
  refill and the limit again for each restart.
* *Token bucket.*  `RateBounded`: over every interval a history variable may
  watch, the buckets of the table grant one burst and what the plan earns; with
  the calls that go on using a bucket the cleaner dropped under them, the tenant
  gets a second burst and never a third.  `RetryAfterSuffices`.
* *Metering.*  `RecordedOnce` (every answered request is queued, being written,
  written, dropped or lost, in exactly one place), `NoSendOnClosed`,
  `OvershootBounded` (month by month, over all replicas), `CleanShutdownKeepsAll`
  (the end of a process whose shutdown kept its deadline takes no record with it; a
  full buffer or a failed insert may have cost one before), `RecordsSettle`,
  `ShutdownEnds`.
* *Sessions.*  `LagBounded`: any replica lets a revoked session pass for less
  than the cache TTL and the time of one lookup.  `RedeemedOnce`.
* *Provider's keys.*  `WaitForOneFetch`: a validation that reads under the lock (a
  cached key is enough for it) waits for one fetch of another at most, though a
  fetch can outlast the throttle.  `NewKeysAreServed`:
  a key published for longer than an interval and a fetch is refused only after a
  failed fetch.  `FetchesSpaced`: the provider is left alone between two fetches,
  however the first ended.  `NewKeyArrives`: a key that stays published is cached
  once the provider is well for good and clients wait for their fetches.
* *Plan cache.*  `WrongWithinTwoTTL`.
* *API keys.*  `ChangedByRight`: whichever organization a request named and
  whatever changed between its checks and its `UPDATE`, a key is created and
  revoked by somebody with the right to.  `ManagerNeverForbidden`: a key whose
  relationships were lost can still be revoked.  `AuditedOnce`: one of two racing
  revocations is told it did it, and an audit row names the account or the key
  that made the change it speaks of, or "system" for a session without SpiceDB.
  `ListingStaysHome`: a listing is of one organization, one of its caller's
  unless its key carries the scope "*".
* *Accounts.*  `MailboxProven` (every session belongs to
  an account whose mail was read), `AttributedToOwn` (what a session acts on is
  backed by a membership, although it is read from another table), `LateLoginOnly` (an old password survives resets
  only through a login that overlapped each of them), `AuditedPlanTrue`.
* *OCR pipeline.*  `SecondPassAgrees`, `HighConfidenceIsSound` (above a type's
  threshold what the rules compare agrees),
  `MisreadCaught`, `FaithfulReadingAccepted` (a genuine document that is read as it
  is scores at least 95, or keeps the provider's confidence if its type has no
  score), `CleanSweepLeavesNothing` (a sweep with no error, no full batch and no
  selected row lost to another replica leaves no row that was due when it began).

### Bounds

* Breaker: three goroutines are one more than it takes for a stale outcome to
  free the slot of a live probe while a third competes for it.  Thresholds of
  three let a counter be strictly between nothing and its threshold; a timeout of
  5 with a floor of 1 makes every adaptive step a different deadline.
* Idempotency: three requests let one finish, one retry and one arrive between
  the retry's two statements; two payloads make a mismatch; a TTL of 2 with
  handlers of at most 1 has an age before, at and after each boundary.  Liveness
  forbids symmetry sets, so the payload of one request is fixed instead.
* Cluster limiter: two calls, three windows (the sweep's threshold is two old)
  of two ticks, an upsert that takes up to one, so that it can land in the next
  window; no call arrives in a window with two hits, the largest limit, though two
  in flight may still go beyond it; one replica's bucket,
  as buckets do not meet, and one restart a window.  All three properties are
  proved for every value of these and every number of replicas.
* Token bucket: limits 1 and 2 and a minute of 3 ticks make the division of
  `Retry-After` inexact; the cleaner's age is twice the minute and the delay of a
  call together, the smallest that is sound (see section 4); the watch is longer
  than a minute.  Both properties are proved for every value of these.
* Metering: three extractions here and two elsewhere, quota 1, one in flight, a
  buffer of one and one unsettled elsewhere, two months.  Overshoot by everything
  that can be unaccounted at once (one in flight, one queued, one in the worker, one
  elsewhere) takes four of the five; the mutant of the quota check takes the fifth.
  The liveness run has two extractions and a read, two of them at a time, in one
  month: enough for one to be in the worker, one in the buffer and one at the select
  when the channel closes.
* Sessions: two replicas, one session, one validation at a time, two
  confirmations, four ticks, two of them a second and two a cache lifetime.
  Validations interact only through the row and the caches, which one
  validation at a time also leaves stale.
* Provider's keys: two validations, one that fetches and one that waits or comes
  late; two keys, so that a rotation has an old and a new one; an interval of 2 and
  a fetch of up to 3, which are in the order of the code's 3 and 5 seconds: the
  fetch outlasts the throttle.
* Plan cache: two lookups, a TTL of 3 and lookups of up to 2, so that a slow
  one overtakes a fast one.
* API keys: two requests, which suffice for every race over one row, and two
  keys, one of them issued before with the platform's wildcard scope; three
  organization ids, one of which names nothing; a user at home in each of the two
  others, one a member of both; callers of all three kinds.
* Accounts: three requests let two race and a third come after; three accounts,
  two addresses, two organizations, two plans and a code that names none.  A login
  and two resets are enough for a session that survives one and falls to the next.
* OCR pipeline: 3,393 readings (the documents of the repository's tests, each
  digit of their numbers misread in two ways, each field altered).  444 of them are
  genuine, of every type: TLC checks that those read faithfully are
  (`FaithfulAssumption`), and some altered ones are genuine too.  Provider
  confidences 0 (none), 40 and 90 percent, and 9000, which the column cannot
  take.  One request per behaviour, on empty tables; sweeps and time run before
  or after it (`Quiet`), because a sweep deletes rows that are overdue and a
  request inserts a fresh one, so their steps commute.  One batch holds one row
  and a table has up to two, so batches fill up and backlogs remain; two cleaners
  choose the same row or different ones.  A row is written once and its id never
  used again, as the ids of the code are random.

Symmetry is used in safety runs only, over sets whose members no definition
tells apart.

### Fairness

* Breaker: the clock advances; an admitted goroutine proceeds; the engine call
  ends, because `execCtx` has a deadline in every configuration `main` builds;
  clients keep calling (half-open is left only by a call).  Nothing is assumed
  of any particular client, of outcomes, or of the provider; the property itself
  says when the provider must be well.
* Idempotency: time passes, the cleaner's ticker fires, a request once let in
  is served to the end.  No client is assumed to retry.
* Metering: a request let in is served, the worker and `main`'s shutdown go on.
  A crash at any moment ends the obligations, as `Stop` says.  A signal is not
  assumed to come.
* Provider's keys: the clock and the goroutines go on, a provider that is well
  answers, and clients keep presenting tokens of every key (a fetch is caused by a
  token only).  `NewKeyArrives` itself says that the provider is well for good and
  that no client leaves during the fetch it caused.
* The other modules state safety only and assume no fairness.


## 4. The proofs

Eight modules hold theorems, for every value of the constants.

| theorem | says | argument |
|---|---|---|
| `OcrProofs!TypeCorrect`, `CountersCorrect`, `ProbesBounded`, `DeadlinesBounded` | `[]TypeOK`, `[]CountersFitState`, `[]ProbeBudget`, `[]TimeoutInRange` | inductive invariant `BreakerInv` |
| `SlotNeverLeaks` | `[]SlotHeldByLiveProbe` | `SlotInv`, on top of `BreakerInv` |
| `CooldownRespected` | `OpenUntilCooldown` | from `BreakerInv` |
| `RecoveryOnlyForward` | `RecoveryNeverSlips`: a well provider is on the way to a closed breaker | the measure `ToRecover`, under `BreakerInv` |
| `IdempotencyProofs!TypeCorrect`, `ServedOwns`, `MutualExclusion`, `ReplaysAreHonest`, `AtMostOnce` | the module's safety properties | inductive invariant `IdemInv` |
| `InProgressIsTrue` | `[]MemoryKeyIsServed` | `MemoryInv`, on top of `IdemInv` |
| `Refinement` | `Spec => ImplementsContract` | initial states and each step, under `IdemInv` |
| `RateLimitingProofs!LimitHolds`, `RefusalsEarned`, `CountsMonotone` | `[]GrantsWithinLimit`, `[]FullBeforeRefusal`, `CountsNeverRegress` of the counter | inductive invariant `WindowInv` |
| `CounterUndisturbed`, `LimitHoldsComposed`, `RefusalsEarnedComposed` | the composition implements WindowLimiter, and so inherits its properties | every step of RateLimiting is one of WindowLimiter or a stutter |
| `FlappingIsBounded` | `[]FlappingBounded` | inductive invariant `FlappingInv`, on top of `WindowInv` |
| `SessionRevocationProofs!TypeCorrect`, `RevocationTakesEffect`, `ResetOnce` | `[]TypeOK`, `[]LagBounded`, `[]RedeemedOnce` | `LagInv` and `ResetInv` |
| `ReplicaLimitProofs!TypeCorrect`, `OrgEntryFresh`, `AnswersFresh` | `[]TypeOK`, `[]OrgWrongWithinTTL`, `[]WrongWithinTwoTTL` | inductive invariant `CacheInv` |
| `FallbackRateBounded`, `WaitingSuffices` | `[]RateBounded`, `RetryAfterSuffices` | inductive invariants `BucketInv` (`RefInv`, `RateInv`, `PatienceInv`) and `LateInv` |
| `UsageMeteringProofs!NothingTwiceNothingVanishes`, `NeverSendsOnClosed`, `CleanShutdownComplete` | `[]RecordedOnce`, `[]NoSendOnClosed`, `CleanShutdownKeepsAll` | inductive invariant `MeteringInv` |
| `OvershootIsBounded` | `[]OvershootBounded`, for every month | `BillingInv` (`CycleInv`, `FlightInv`, `FarInv`, `OvershootInv`), on top of `MeteringInv` |
| `LedgerKept` | `KeepsLedger`, UsageMetering implements UsageLedger | initial states and each step, under `MeteringInv` and `FlightInv` |
| `ShutdownRunsDown` | `ShutdownShrinks`: what is left of a shutdown gets less with each step | the measure `Remaining`, under `MeteringInv` and `CycleInv` |
| `IdentityProofs!SessionsHaveMailbox`, `AttributionBacked`, `OldPasswordsOnlyLate`, `AuditedPlans` | the four properties of Accounts | inductive invariant `AccountsInv` |
| `NoReaderWaitsForTwo`, `PublishedKeysServed`, `FetchesRationed` | `[]WaitForOneFetch`, `NewKeysAreServed`, `FetchesSpaced` | inductive invariant `JwksInv` |
| `ApiKeysProofs!KeysChangeByRight`, `ManagersMayManage`, `AuditIsTrue`, `ListingsStayHome` | the module's four properties | inductive invariant `KeysInv` |
| `OcrProofs!SweepIsThorough` | `CleanSweepLeavesNothing`, for any number of cleaners | inductive invariant `SweepInv` |
| `HighConfidenceMeansSound`, `ValidatedTwiceAlike`, `MisreadNoticed` | `[]HighConfidenceIsSound`, `[]SecondPassAgrees`, `[]MisreadCaught`, for every document of the six types | invariant `RequestInv`; lemmas about the rules |
| `GenuineAccepted` | `[]FaithfulReadingAccepted`, for every genuine document of the six types | `RequestInv`; a lemma for each number, date and amount, that the rules accept it as it is composed |
| `MisreadMRZRefused` | any one character the last check digit of a valid MRZ covers, read as one of another value modulo ten, makes it invalid | a weight 7, 3 or 1 times a difference is no multiple of ten |
| `MisreadNPWPRefused` | any one of the first nine digits of a valid NPWP, misread as any other, makes it invalid | the summands of the check digit are a bijection of the digits |
| `BirthYearInCentury` | a two-digit year of birth becomes one of the hundred years up to the current one | arithmetic |

Why the properties need strengthening:

* `ProbeBudget` is not inductive, because a stale success frees the slot of a
  probe that still runs.  The same success is counted, though:
  `ProbesAccounted` says that every probe admitted is a success counted or the
  one that holds the slot.  `TimeoutBounds` is the arithmetic of the adaptive
  deadline, from the fact that a proper fraction of a difference stays below it
  after integer division.
* `RecoveryOnlyForward` measures how many successes are missing (`ToRecover`).  A call
  that may still fail because it reached the provider before it was well can undo
  that, but is then spent (`mayFail` loses it), so recovery starts over finitely often.
* Mutual exclusion follows from `ServedOwnsRecord`, which survives expiry
  because a record is as old as its holder and `MaxHandler < ReplayTTL`
  (`IdempotencyAssumption`): nobody is served while the key is free.  Honest
  replays need that the completed record is the answer of a request that is over
  (`CompletedIsAnswered`); at-most-once needs `AnsweredKeepsRecord`.
* The limiter's grants are bounded because in the windows a call can still count
  in, the row is the sum of grants, refusals and lost hits (`CountsAdd`); that a
  call in flight is never older than one window (`InFlightIsRecent`, from
  `DBTimeout < Window`) is why the cleaner cannot break it.
* `FlappingBounded` counts what was lent; what a bucket can still lend is the other
  half of the invariant (`FundsCover`).  It is measured at the largest plan's rate
  (`Worth`), so that no change of plan raises it: a tick adds to it what it adds to
  the allowance, a call takes one from it and lends one, and a restart makes it one
  full bucket, as it does the allowance.
* `LagBounded` is proved by following an outdated answer: how long it has been
  outdated while a lookup carries it (`LookupLag`), and that plus what its cache
  entry has left (`CacheLag`), which never exceeds `CacheTTL + MaxQuery`.  It
  rests on the assumption that a lookup takes at most `MaxQuery`.
* The plan cache is the same argument one level deeper: how long an entry has
  been wrong and what it has left never exceed one lifetime for an organization,
  and, because a member's entry starts from that one, two lifetimes less a tick
  for a member (`EntriesExpire`, with `FoundIsRecent` for answers on their way).
* `RecordedOnce` needs that the five places are disjoint and together are the
  answered requests that are over (`PlaceInv`, where the channel has no record
  twice), and that a request has its answer when it reaches the recorder
  (`AnswerInv`).  `NoSendOnClosed` is the meaning of the lock (`LockInv`): its
  readers are the requests at the `select`, and the channel is closed when there
  are none.  A clean shutdown keeps everything because without the deadline each
  stage finds the one before it finished (`ShutdownInv`).
* `OvershootBounded` is not inductive: an extraction is let in long before it
  succeeds.  `OvershootInv` bounds, month by month, those let in instead
  (`Charged`).  Only the check adds to the month it runs in, and when it does, each
  earlier one is counted, in the channel (as long as its buffer), with the worker,
  in flight, dropped or lost; and so for the other replicas' (`PassingCheckCounts`,
  whichever replica's check it is), of which at most `MaxElsewhere` are unsettled
  (`FarInv`).  The turn adds to the month that is over those that have arrived and are
  not checked yet, at most `MaxInFlight` here (`FlightInv`) and `MaxElsewhere`
  elsewhere; no request is of a month to come (`CycleInv`).
* `LedgerKept` reads the fate of a record off its place (`FateByPlace`): `RecordedOnce`
  makes the places exclude each other, so that a step which moves a record settles at
  most one, a crash apart.  A record that is pending is in flight, in the buffer or with the worker
  (`RoomForOneMore`), which is where `AtRisk` comes from; with one less TLC finds a
  step that breaks it.
* `ShutdownRunsDown` adds up what each request, each record, main and the clock can
  still do.  A step of main costs one of its own; one of a request or of the worker
  costs more than it hands on.  It is the safety half of `ShutdownEnds`: what stays with
  TLC is that the process is never without a step it must take.
* `ChangedByRight` looks at a row when it is changed, but the right to do so was
  established by a check some steps earlier, about a key or a project that
  need not be the row's.  `RightInv` carries what the last check established to
  the statement; `SpiceInv` says that SpiceDB knows no relationship but those of
  the rows, so that a creator's relationship leads to the right row; and rows
  only ever grow (`RowsGrow`), so that what was established lasts.
  `EffectInv` ties a request to the row it changed until its audit entry is
  written; `OneRevoker` is why two cannot both claim a revocation.
* `CleanSweepLeavesNothing`: a sweep that nothing has disturbed has left no row of
  the tables behind it that was due when it began (`SweepInv`).  Less than a batch
  deleted means all there was only if the statement chose all there was
  (`SelectStep`) and lost none of them to another sweep since (`PurgeStep`); a row
  lost after a cleaner has chosen it is what `raced` records (`SoundRaced`).

* `MemoryKeyIsServed` holds because no statement of the memory store fails and a
  crash takes the record with its owner (`MemoryInv`); with PostgreSQL each of the
  two is how a record outlives its owner.
* An account's four properties are read off rows, but were established by a
  statement some steps before.  `SessionSound` says of every session, and of a
  login that has checked the password and not issued its token, what the token
  will claim; `ContextSound` what a request may rely on at its next statement;
  `AccountsGrow` what no step takes back.  `LateLoginOnly` rests on the new
  password and the cutoff being written together, and on a token being redeemed
  once: a reset that finds the password it was mailed for has read its clock after
  every other that succeeded (`Mailed`), so that the cutoff never moves back
  (`CutoffInv`).
* `WaitForOneFetch`: a reader has waited for the fetch under way, or for the last
  one, whose end lets it pass before the next writer (`WaitInv`).  Nothing of the
  kind holds of those who queue to write (section 5).
  `NewKeysAreServed`: while the lock is free and the last fetch succeeded, a
  published key that is not cached is younger than that fetch (`KeysInv`).
  `FetchesSpaced` is the throttle, which holds because the time of a fetch is
  written under the lock, before its call, by whoever holds it (`FetchInv`).
* `RateBounded` is an account: what was granted and what the bucket in the table
  is still worth, at the largest plan's rate, never exceed a burst and what was
  earned since (`RateInv`).  The heap is as large as it likes: a call holds the
  bucket of the table, or one the cleaner dropped under it, which never returns
  (`RefInv`).  What a dropped bucket still owes the calls that hold it is a second
  account (`LateInv`): a bucket that is dropped was idle for so long that it is worth
  two bursts, and that no call is left which lost an earlier one.  The proofs need
  `MaxIdle >= Period + MaxDelay`, and twice that for the second.  With a cleaner that
  drops a bucket after exactly one minute, TLC finds a run that breaks the bound: a
  call read the clock, the bucket it would have found is dropped, and it makes a
  new full one that is dated back to its reading and refills at once.  The code
  waits ten minutes and a call takes seconds, so the assumption is theirs.
  `RetryAfterSuffices` needs that the bucket a refused client will see holds, when
  its wait is over, a token (`PatienceInv`).
* What an answer says of the document follows from `RequestInv`, which ties it to
  the reading, and from lemmas about the rules: a score above the threshold is out
  of reach once a part has lost its points (`KTPSound`, `SIMSound`,
  `PassportSound`); normalising twice is normalising once, so a score is the same
  twice (`ScoredTwice`); the cleaned number of a cleaned number is itself
  (`CleanTwice`); the second pass over an invoice finds the amounts the first one
  filled in, and refuses again what was refused (`InvoiceTwice`).
  `InvoiceTwice` alone is false for two kinds of reading, which `Excused` names: a NIK of an
  NPWP that has no digit, and an invoice with a negative subtotal.  Weighted sums
  are recursive functions.  No induction theorem with an operator parameter is
  needed for them: that the naturals are well-founded gives a set of them a least
  member (`LeastNatural`), hence counting up in a set (`CountingUp`), and with it
  a function of partial sums exists (`PartialSumsExist`) and is the one `SumOf`
  takes.

* `GenuineAccepted` composes the two descriptions.  A number is taken apart again
  (`SomebodysNIKIsValid`, `IssuedNPWPIsValid`, `KKNumberIsValid`), the MRZ is
  matched with the printed fields (`PassportLine`, `PassportDatesRead`), where
  `YearOfBirth` and `YearOfExpiry` are why two digits give the year back, and the
  amounts with each other within the tolerance (`TaxedAtRate`,
  `GenuineInvoiceAccepted`).  The handler's pass then changes nothing, by
  `ScoredTwice` and `AcceptedKeepsGiven`.

Assumed: the constants' assumptions, which TLC evaluates in every run, and no
others.  `TodayAssumption`: today is a date of this century.  `ReadingAssumption` says what a document and a misread are: `"misread"` is
a document that differs in one checked character from one with a valid number.

Only model-checked: `RecoversUnlessLeaked`, `KeyComesFree`, `RecordsSettle`,
`ShutdownEnds` and `NewKeyArrives`, which are liveness under fairness and beyond
the prover; of `ShutdownEnds` and `RecoversUnlessLeaked` the half that is safety is
proved (`ShutdownShrinks`, `RecoveryNeverSlips`).  Only proved, and without a run of
their own: `ReplayIsOriginal` (the refinement says more), `OrgWrongWithinTTL` (a lemma
of `WrongWithinTwoTTL`), `KeepsLedger`, `ShutdownShrinks` and
`RecoveryNeverSlips`.


## 5. Where documents and code part

The following were met while modelling.  The modules contain the behaviour, and
the properties state what does hold instead.

Concurrency and failure:

* `Execute` calls `afterCall` after `fn` returned, not in a `defer`
  (circuit_breaker.go:378).  A probe that panics (the middleware recovers it)
  leaves `halfOpenInFlight` at 1; every later call is rejected although the
  provider is well, and nothing in production calls `Reset`, while
  circuit_breaker.go:20 says that half-open tests the recovery.
  `RecoversUnlessLeaked` has to except it.
* A fetch of the provider's keys runs under the context of the request that
  caused it (oidc.go:459): when that client leaves, the fetch fails for everybody
  who waits for it, and tokens of the new key are refused for another interval.
  `NewKeysAreServed` and `NewKeyArrives` say so.
* A key the provider withdraws stays trusted until the replica restarts
  (oidc.go:490 adds to the map and removes nothing); so in `Install`.
* The usage record carries the time of arrival and the check counts from the
  start of the month it runs in: a request that arrives before the turn and is
  checked after it is checked against the new month and counted in the old one.
  `OvershootBounded` has a term for it.

* `Complete` and `Release` run under `r.Context()` (idempotency.go:210 and 214),
  which ends when the client goes away, and their errors are dropped.  With
  PostgreSQL, retries are then told that the request "is currently in progress"
  until the TTL is over, with nobody serving it.  An upsert that took the key and
  reported an error (postgres.go:95) does the same.  `MemoryKeyIsServed` holds of
  the memory store only; `KeyComesFree` of both.
* The reset's `UPDATE` stores the instant its handler read before the statement
  (store/account.go:616).  A logout in between is later, so the column moves back
  and the sessions that logout revoked are valid again, while the comment at
  account.go:538 says every session issued so far is invalidated.
* `DefaultIsFailure` (circuit_breaker.go:107) counts a client's disconnect as a
  failure, though `docs/incidents/INC-20260912-05-ocr-provider-latency-cascade.md:99`
  says it must never trip the breaker.  In CircuitBreaker the outcome
  `"cancelled"` is a failure, as in the code, and recovery is promised only once
  cancellations cease.
* circuit_breaker.go:312 speaks of a single canary at a time.  A call admitted
  while closed and answered while half-open frees the running probe's slot, and
  two probes run.  `ProbeBudget` bounds how many are admitted altogether.
* The request hash covers the body and not the route (idempotency.go:94): one
  key and document sent to two document types replays the first answer.  Nothing
  below the router sees the route, so no module has one.
* The cluster limiter cuts the fraction off `Retry-After` (postgres.go:89): a
  client that waits as told may be a fraction of a second early.
* quota.go:47 bounds the overshoot by the requests in flight.  Records queued,
  being written, dropped or failed count as well, on every replica: two replicas with
  full buffers overshoot by both buffers (`OvershootBounded`).
* `GetMonthlyOCRCount` counts successful reads under `/api/v1/ocr/` too
  (store/usage.go:260), as `MonthlyOCRCount` does.
* oidc.go:120 says the replica that serves a logout observes it at once.  A
  lookup that read the row before may write its cache entry after the
  invalidation; `LagBounded` bounds what follows.
* The reset's answer says that all old sessions are ended
  (password_reset.go:151).  A login with the old password that overlaps the reset
  survives it: one between the clock reading (password_reset.go:136) and the
  `UPDATE`, or one whose token is made after the reading though its check came
  before.  `LateLoginOnly` says that these are the only ones.  A token issued in the
  second of a revocation is refused from the start (oidc.go:163).
* `refreshKeys` fetches under the write lock, for up to five seconds, and lets the
  next fetch begin after three (oidc.go:449).  Those who queue for that lock while
  fetches fail find the interval over each time: each fetches in turn, and the last
  waits for all before it.  `WaitForOneFetch` speaks of readers, whom the lock lets
  in between two writers.
* The plan cache lives "1 minute" (middleware/ratelimit.go:138), but a member's
  entry is filled from the organization's: up to two (`WrongWithinTwoTTL`).

Accounts, keys and authorisation:

* README.md:108 says that an empty `SPICEDB_ENDPOINT` means `MockAuthorizer`;
  `main` leaves the authorizer nil (main.go:232), and the handlers then make no
  permission check at all.  `rebac = FALSE` is that case.
* api_keys.go:459 says that a database hiccup must never widen access.  The
  failed lookup makes `callerOwnOrgID` return nothing, and `resolveOrgID` then
  falls back to the seeded `DefaultOrgID`; `Belongs` has to allow it.
* store/account.go:209 lists "all registered users belonging to an
  organization", but by `users.org_id`: a member whose default organization is
  another one is missing (`AttributedToOwn` is one direction only).
* auth.go:113 lets the user "request a resend" of the verification mail; there
  is no such endpoint, and an account whose mail was lost stays unverified.
* With `ENV` set to development or test, the answer to a registration carries the
  verification token (auth.go:127); in no other environment does anything but the
  mail.  Accounts models the latter: `MailboxProven` does not hold of a development
  server.
* `Register` trims the password (auth.go:70), `Login` does not.
* The audit rows of plan changes and, without SpiceDB, of key changes by a
  session name "system" as their actor: they do not tell who it was.  `NamedBy`
  has the exception.
* api_keys.go:387 calls the scope "*" that of a platform operator's key, "never
  granted by self-service signup".  `CreateAPIKeyHandler` stores the scopes it is
  sent, "*" among them (api_keys.go:85), so that whoever may create a key may
  create one with it.  What the module shows of such a key's holder is therefore
  nothing: `ListingStaysHome`, and `ChangedByRight` where there is no SpiceDB, speak
  of the other callers (`Entitled`).

Documents and their rows:

* The verdict on an invoice can differ between the two passes: the first accepts
  what the amounts it fills in make the second reject.  The reverse happens to two
  kinds of reading only (`Excused`, in `SecondPassAgrees`): a NIK of an NPWP without
  a digit is gone once the first pass has cleaned it; and a subtotal below zero, let
  through because it is within the tolerance of the lines' sum, is overwritten with
  the base worked out from the total (invoice_validator.go:215), so that the second
  pass reckons with other amounts.
* A provider that reports a confidence of 10 or more (1000 percent) overflows
  `NUMERIC(5,4)`: the row is not saved, silently, and the answer carries its id.
* The expiry in an MRZ gets its century by moving years more than thirty in the past
  ahead by a hundred (passport_validator.go:124).  No year is ever moved back, so a
  passport that expired in 1998 is read as one that expires in 2098;
  `GenuinePassport` asks for an expiry of this century.
* "At least 17 years ago" (sim_validator.go:212) is `AddDate(-17, 0, 0)`, which on a
  29 February is a 1 March: whoever turns seventeen the next day passes.
* "Uploaded image buffers are strictly processed in memory and discarded
  immediately" (ocr.go:530): the buffer is cleared after the engine's call
  (ocr.go:221) and, for some document types only, when validation refuses it
  (ocr.go:202).
* invoice_validator.go:213 sets a base that was not read to the subtotal less the
  discount, and a test says that is what it is (spec_conformance_test.go:451).  A
  base that was read is compared with the tax and the total only: with a subtotal
  of 10,000, a base of 500,000, a tax of 55,000 and a total of 555,000 the invoice
  keeps the provider's confidence.  `HighConfidenceIsSound` therefore ties the base
  to the subtotal where it was not read, and nowhere else (`Balanced`).
* The head named on a family card may be a part of the name in its table, or the
  other way round (kk_validator.go:181), as strings: "Budi" stands for "Budi
  Santoso", while "Budi Santoso" is not "Budi Agus Santoso" and costs the reading
  its confidence.  A genuine card is one whose head is named as in the table or by
  the first parts of that name (`GenuineKK`).
* PRIVACY.md:20 promises that metadata is gone after 90 days.  A sweep deletes at
  most one batch of 5000 per table and hour, and an error in an earlier table
  ends it before the later ones (retention.go:81): a backlog outlives the
  promise.  The cleaners of several replicas may choose the same ids, so that one
  of them deletes fewer than a batch, or none, while rows remain that are overdue
  (retention.go:56): "rows purged" of less than a batch does not say that the table
  is clean.  `CleanSweepLeavesNothing` is what an undisturbed sweep achieves.


## 6. What is not modelled

* `services/ocr/parser.go` and `classifier.go`: regular expressions and keyword
  scores over recognised text.  Only tests call them; the providers the server is
  built with return fields.
* `providers/mock.go` (fixtures), the HTTP exchange with Gemini and its prompt.
* In the rules: wording of issues and errors, case and blanks.
* The columns of a row of `ocr_requests`, and the endpoint that looks one up by id
  and organization.
* SHA-256 of bodies, the cipher that seals stored answers, hashes of keys and passwords,
  scopes other than the wildcard, logs and metrics.
* A statement of a store that reports an error and takes effect only later: it takes
  effect at once or not at all.
* Handlers that outlive the idempotency TTL: the assumption `MaxHandler <
  ReplayTTL` excludes them; the code relies on the hour between the two.
* Clocks of replicas and database that disagree; leap seconds.
* `replicaDivisor`, which scales a limit at start-up.
* Signatures and claims of the provider's tokens: they decide between accepted
  and refused once the key is found, and nothing depends on which.
* `KeyToucher`: nothing but a displayed time depends on it.
* The cleaner's tickers and their context; the effects of its sweeps are actions
  of the modules they belong to.
* The SpiceDB client's HTTP and the bootstrap of its schema; the read-only account
  and usage endpoints.
* The dashboard; configuration, telemetry, e-mail and infrastructure (I/O without
  state that others read).


## 7. The plan

Done: CircuitBreaker, Idempotency with its contract, WindowLimiter and
RateLimiting, TokenBucket, UsageMetering with the turn of the month,
SessionRevocation, JwksCache, PlanCache, ApiKeys, Accounts, DocumentRules,
OcrPipeline with Retention; proofs about all of them.

To extend the model:

1. The dashboard's session context and its cache of GETs
   (`context/AuthContext.tsx`, `services/api.ts`): an answer of one session that
   arrives in the next.
2. `KeyToucher`: throttle and semaphore (middleware/toucher.go).
3. An abstract limiter that WindowLimiter and TokenBucket implement.
4. Two clocks in RateLimiting, one for the replicas and one for the database.

To prove: that each bucket of RateLimiting
implements TokenBucket for a single caller; the safety half of `KeyComesFree` and of
`NewKeyArrives`, as it is done for `ShutdownEnds` and `RecoversUnlessLeaked`.
