---------------------------- MODULE UsageMetering ----------------------------
(***************************************************************************)
(* Usage metering and the monthly quota of one organization:               *)
(*   - quota.Enforcer.CheckQuota, read by ocrPipeline before the work;     *)
(*   - middleware.UsageMetering, which hands every finished request to     *)
(*   - usage.Recorder: a buffered channel and one worker that inserts the  *)
(*     records CheckQuota counts;                                          *)
(*   - main's shutdown: srv.Shutdown, Recorder.Close and db.Close under    *)
(*     one deadline.                                                       *)
(* Each request runs on its own goroutine.  The quota is read before the   *)
(* work and the record is written after the answer, so between the two a   *)
(* request counts for nothing.  The record carries the time the request    *)
(* arrived, and the check counts those of the month it runs in.            *)
(*                                                                         *)
(* One replica of the API is modelled in full.  The others write to the    *)
(* same usage_records, which every check counts; of them the model keeps   *)
(* what the quota depends on, where each of their extractions is, and that *)
(* they hold MaxElsewhere unsettled ones at most, as UsageLedger promises  *)
(* of each replica.                                                        *)
(***************************************************************************)
EXTENDS Naturals, Sequences, FiniteSets

CONSTANTS
  Extractions,  \* POST /api/v1/ocr/<document> requests
  Reads,        \* GET /api/v1/ocr/{id} requests
  Remote,       \* POST /api/v1/ocr/<document> requests to the other replicas
  NoOne,        \* no request
  Quota,        \* plan.MonthlyQuota
  MaxInFlight,  \* requests of the organization served at a time
  BufferSize,   \* capacity of recordChan
  MaxElsewhere, \* what the other replicas serve, queue and insert at a time
  Cycles,       \* the last billing cycle of the model; the first is 0
  Faults        \* what the environment may do, see FaultKinds

(***************************************************************************)
(* "dberror":  an insert fails, or commits and reports an error.           *)
(* "crash":    the process dies.                                           *)
(* "deadline": the five seconds of shutdown pass.                          *)
(***************************************************************************)
FaultKinds == {"dberror", "crash", "deadline"}

Requests == Extractions \cup Reads

ASSUME MeteringAssumption ==
  /\ IsFiniteSet(Requests) /\ IsFiniteSet(Remote)
  /\ Extractions \cap Reads = {}
  /\ NoOne \notin Requests
  /\ Quota \in Nat
  /\ MaxInFlight \in Nat
  /\ BufferSize \in Nat \ {0}
  /\ MaxElsewhere \in Nat
  /\ Cycles \in Nat
  /\ Faults \subseteq FaultKinds

VARIABLES
  phase,      \* how far main is
  expired,    \* shutdownCtx is done
  cycle,      \* the month
  start,      \* the month each request arrived in, its record's timestamp
  pc,         \* where each request is
  status,     \* its answer: "ok" is a status below 400
  closed,     \* r.closed; recordChan is closed in the same critical section
  readers,    \* requests that hold r.mu for reading
  recordChan, \* the channel's buffer
  worker,     \* the record the worker is inserting, or NoOne
  persisted,  \* the rows of usage_records
  dropped,    \* history: records that Record dropped
  lost,       \* history: records that were accepted or due, and never written
  elsewhere   \* where each request to another replica is, and its month

process  == <<phase, expired>>
recorder == <<closed, readers, recordChan, worker>>
records  == <<persisted, dropped, lost>>
billing  == <<cycle, start, elsewhere>>
here     == <<process, cycle, start, pc, status, recorder, records>>
vars     == <<here, elsewhere>>

Phases == {"serving", "draining", "closing", "waiting", "exiting", "down"}
PCs    == {"new", "arrived", "extract", "meter", "sending", "done"}

\* "pending" is answered and not yet inserted, "unpaid" dropped, lost or failed
\* to insert, and "over" refused, failed, or dead with its process.
Places == {"new", "arrived", "extract", "pending", "written", "unpaid", "over"}

InFlight == {r \in Requests : pc[r] \notin {"new", "done"}}
Queued   == {recordChan[i] : i \in 1 .. Len(recordChan)}
Writing  == IF worker = NoOne THEN {} ELSE {worker}

Init ==
  /\ phase = "serving"
  /\ expired = FALSE
  /\ cycle = 0
  /\ start = [r \in Requests |-> 0]
  /\ pc = [r \in Requests |-> "new"]
  /\ status = [r \in Requests |-> "none"]
  /\ closed = FALSE
  /\ readers = {}
  /\ recordChan = <<>>
  /\ worker = NoOne
  /\ persisted = {}
  /\ dropped = {}
  /\ lost = {}
  /\ elsewhere = [x \in Remote |-> [at |-> "new", month |-> 0]]

-----------------------------------------------------------------------------
(* A request. *)

\* Mutant: the timestamp must be after the cycle's start.
MutantCounted == {r \in persisted : status[r] = "ok" /\ start[r] > cycle}

\* GetMonthlyOCRCount: the path is /api/v1/ocr/..., the status below 400, and
\* the timestamp not before CurrentBillingCycle's start.
Counted == {r \in persisted : status[r] = "ok" /\ start[r] >= cycle}
CountedElsewhere == {x \in Remote : elsewhere[x].at = "written" /\ elsewhere[x].month >= cycle}
MonthlyOCRCount == Cardinality(Counted) + Cardinality(CountedElsewhere)

\* Mutant: remaining may be zero.
MutantWithinQuota == MonthlyOCRCount <= Quota

WithinQuota == MonthlyOCRCount < Quota

\* The metering middleware reads the clock first.
Arrive(r) ==
  /\ phase = "serving"
  /\ pc[r] = "new"
  /\ Cardinality(InFlight) < MaxInFlight
  /\ pc' = [pc EXCEPT ![r] = "arrived"]
  /\ start' = [start EXCEPT ![r] = cycle]
  /\ UNCHANGED <<process, cycle, elsewhere, status, recorder, records>>

Answer(r, s) ==
  /\ status' = [status EXCEPT ![r] = s]
  /\ pc' = [pc EXCEPT ![r] = "meter"]

\* The quota is checked first.  A refusal is answered 429, and metered, as is
\* any error on the way here or of the check itself.
CheckQuota(r) ==
  /\ r \in Extractions
  /\ pc[r] = "arrived"
  /\ \/ WithinQuota /\ pc' = [pc EXCEPT ![r] = "extract"] /\ UNCHANGED status
     \/ Answer(r, "error")
  /\ UNCHANGED <<process, billing, recorder, records>>

\* The engine's answer, or any of the pipeline's errors.
Extract(r) ==
  /\ pc[r] = "extract"
  /\ \E s \in {"ok", "error"} : Answer(r, s)
  /\ UNCHANGED <<process, billing, recorder, records>>

\* A stored result is read; no quota is checked.
Read(r) ==
  /\ r \in Reads
  /\ pc[r] = "arrived"
  /\ \E s \in {"ok", "error"} : Answer(r, s)
  /\ UNCHANGED <<process, billing, recorder, records>>

\* Record, up to its select: under r.mu.RLock.
Record(r) ==
  /\ pc[r] = "meter"
  /\ IF closed
       THEN /\ pc' = [pc EXCEPT ![r] = "done"]
            /\ dropped' = dropped \cup {r}
            /\ UNCHANGED readers
       ELSE /\ pc' = [pc EXCEPT ![r] = "sending"]
            /\ readers' = readers \cup {r}
            /\ UNCHANGED dropped
  /\ UNCHANGED <<process, billing, status, closed, recordChan, worker, persisted, lost>>

\* Mutant: r.mu.RUnlock is not deferred, and the drop returns without it.
MutantSendKeepsLock(r) ==
  /\ pc[r] = "sending"
  /\ pc' = [pc EXCEPT ![r] = "done"]
  /\ IF Len(recordChan) < BufferSize
       THEN /\ recordChan' = Append(recordChan, r)
            /\ readers' = readers \ {r}
            /\ UNCHANGED dropped
       ELSE dropped' = dropped \cup {r} /\ UNCHANGED <<recordChan, readers>>
  /\ UNCHANGED <<process, billing, status, closed, worker, persisted, lost>>

\* The select: send, or drop when the buffer is full.
Send(r) ==
  /\ pc[r] = "sending"
  /\ pc' = [pc EXCEPT ![r] = "done"]
  /\ readers' = readers \ {r}
  /\ IF Len(recordChan) < BufferSize
       THEN recordChan' = Append(recordChan, r) /\ UNCHANGED dropped
       ELSE dropped' = dropped \cup {r} /\ UNCHANGED recordChan
  /\ UNCHANGED <<process, billing, status, closed, worker, persisted, lost>>

-----------------------------------------------------------------------------
(* The worker: one record at a time, in order, each tried once. *)

\* Mutant: the record stays at the head of the channel until it is written.
MutantReceive ==
  /\ phase # "down"
  /\ worker = NoOne
  /\ recordChan # <<>>
  /\ worker' = Head(recordChan)
  /\ UNCHANGED <<process, billing, pc, status, closed, readers, recordChan, records>>

\* Mutant: the worker waits until a second record is there.
MutantReceivePairs ==
  /\ phase # "down"
  /\ worker = NoOne
  /\ Len(recordChan) > 1
  /\ worker' = Head(recordChan)
  /\ recordChan' = Tail(recordChan)
  /\ UNCHANGED <<process, billing, pc, status, closed, readers, records>>

Receive ==
  /\ phase # "down"
  /\ worker = NoOne
  /\ recordChan # <<>>
  /\ worker' = Head(recordChan)
  /\ recordChan' = Tail(recordChan)
  /\ UNCHANGED <<process, billing, pc, status, closed, readers, records>>

Insert ==
  /\ worker # NoOne
  /\ phase \notin {"exiting", "down"}
  /\ persisted' = persisted \cup {worker}
  /\ worker' = NoOne
  /\ UNCHANGED <<process, billing, pc, status, closed, readers, recordChan, dropped, lost>>

\* The error is logged and the record forgotten.  It may have been committed,
\* unless db.Close came first.
InsertFails ==
  /\ worker # NoOne
  /\ phase # "down"
  /\ \/ /\ "dberror" \in Faults \/ phase = "exiting"
        /\ lost' = lost \cup {worker}
        /\ UNCHANGED persisted
     \/ /\ "dberror" \in Faults /\ phase # "exiting"
        /\ persisted' = persisted \cup {worker}
        /\ UNCHANGED lost
  /\ worker' = NoOne
  /\ UNCHANGED <<process, billing, pc, status, closed, readers, recordChan, dropped>>

-----------------------------------------------------------------------------
(* The process. *)

\* SIGTERM.
BeginShutdown ==
  /\ phase = "serving"
  /\ phase' = "draining"
  /\ UNCHANGED <<expired, billing, pc, status, recorder, records>>

DeadlinePasses ==
  /\ "deadline" \in Faults
  /\ phase \in {"draining", "closing", "waiting"}
  /\ ~expired
  /\ expired' = TRUE
  /\ UNCHANGED <<phase, billing, pc, status, recorder, records>>

\* srv.Shutdown returns when no request is active, or at the deadline.
ShutdownServer ==
  /\ phase = "draining"
  /\ InFlight = {} \/ expired
  /\ phase' = "closing"
  /\ UNCHANGED <<expired, billing, pc, status, recorder, records>>

\* Mutant: the channel is closed without r.mu.
MutantCloseChannel ==
  /\ phase = "closing"
  /\ closed' = TRUE
  /\ phase' = "waiting"
  /\ UNCHANGED <<expired, billing, pc, status, readers, recordChan, worker, records>>

\* Recorder.Close, up to its wait: under r.mu.Lock.
CloseChannel ==
  /\ phase = "closing"
  /\ readers = {}
  /\ closed' = TRUE
  /\ phase' = "waiting"
  /\ UNCHANGED <<expired, billing, pc, status, readers, recordChan, worker, records>>

\* Mutant: Close does not wait for the worker.
MutantCloseReturns ==
  /\ phase = "waiting"
  /\ phase' = "exiting"
  /\ UNCHANGED <<expired, billing, pc, status, recorder, records>>

\* The worker has emptied the closed channel, or the deadline passed; db.Close.
CloseReturns ==
  /\ phase = "waiting"
  /\ (recordChan = <<>> /\ worker = NoOne) \/ expired
  /\ phase' = "exiting"
  /\ UNCHANGED <<expired, billing, pc, status, recorder, records>>

\* What the memory of a dying process held of requests already answered.
Unwritten == Queued \cup Writing \cup {r \in InFlight : status[r] # "none"}

Stop ==
  /\ phase' = "down"
  /\ expired' = FALSE
  /\ pc' = [r \in Requests |-> IF pc[r] = "new" THEN "new" ELSE "done"]
  /\ closed' = FALSE
  /\ readers' = {}
  /\ recordChan' = <<>>
  /\ worker' = NoOne
  /\ lost' = lost \cup Unwritten
  /\ UNCHANGED <<billing, status, persisted, dropped>>

Exit == phase = "exiting" /\ Stop

Crash ==
  /\ "crash" \in Faults
  /\ phase # "down"
  /\ Stop

Start ==
  /\ phase = "down"
  /\ phase' = "serving"
  /\ UNCHANGED <<expired, billing, pc, status, recorder, records>>

TurnOfMonth ==
  /\ cycle < Cycles
  /\ cycle' = cycle + 1
  /\ UNCHANGED <<process, start, elsewhere, pc, status, recorder, records>>

-----------------------------------------------------------------------------
(* The other replicas: the same handlers, by their effect on the count. *)

UnsettledElsewhere == {x \in Remote : elsewhere[x].at \in {"arrived", "extract", "pending"}}

Move(x, places) ==
  /\ \E place \in places : elsewhere' = [elsewhere EXCEPT ![x].at = place]
  /\ UNCHANGED here

ArriveElsewhere(x) ==
  /\ elsewhere[x].at = "new"
  /\ Cardinality(UnsettledElsewhere) < MaxElsewhere
  /\ elsewhere' = [elsewhere EXCEPT ![x] = [at |-> "arrived", month |-> cycle]]
  /\ UNCHANGED here

CheckElsewhere(x) == elsewhere[x].at = "arrived" /\ WithinQuota /\ Move(x, {"extract"})

AnswerElsewhere(x) == elsewhere[x].at = "extract" /\ Move(x, {"pending"})

SettleElsewhere(x) == elsewhere[x].at = "pending" /\ Move(x, {"written", "unpaid"})

FailElsewhere(x) == elsewhere[x].at \in {"arrived", "extract"} /\ Move(x, {"over"})

Elsewhere(x) ==
  ArriveElsewhere(x) \/ CheckElsewhere(x) \/ AnswerElsewhere(x) \/ SettleElsewhere(x) \/ FailElsewhere(x)

-----------------------------------------------------------------------------
Handle(r) == CheckQuota(r) \/ Read(r) \/ Extract(r) \/ Record(r) \/ Send(r)
Work      == Receive \/ Insert \/ InsertFails
Shutdown  == ShutdownServer \/ CloseChannel \/ CloseReturns \/ Exit

Here ==
  \/ \E r \in Requests : Arrive(r) \/ Handle(r)
  \/ Work
  \/ TurnOfMonth
  \/ BeginShutdown \/ DeadlinePasses \/ Shutdown \/ Crash \/ Start

Next == Here \/ \E x \in Remote : Elsewhere(x)

Spec == Init /\ [][Next]_vars

(***************************************************************************)
(* Fairness: a request that was let in is served (the engine call has a    *)
(* deadline), the worker goes on (so has the insert), and main's shutdown  *)
(* goes on.                                                                *)
(***************************************************************************)
FairSpec ==
  /\ Spec
  /\ \A r \in Requests : WF_vars(Handle(r))
  /\ WF_vars(Work)
  /\ WF_vars(Shutdown)

-----------------------------------------------------------------------------
(* An answered request is in one place: unsent, in the buffer, with the    *)
(* worker, written, dropped or lost.  None is written twice (an            *)
(* organization is not billed twice), and none vanishes.                   *)
RecordedOnce ==
  /\ Cardinality(Queued) = Len(recordChan)
  /\ \A r \in Requests :
       Cardinality({place \in 1 .. 5 :
                      r \in <<Queued, Writing, persisted, dropped, lost>>[place]})
         = IF pc[r] = "done" /\ status[r] # "none" THEN 1 ELSE 0

(* Record never sends on a closed channel, which would panic: not even if  *)
(* a request outlives srv.Shutdown's deadline and records meanwhile.       *)
NoSendOnClosed == \A r \in Requests : pc[r] = "sending" => ~closed

(* When a shutdown that the deadline does not cut short ends the process,  *)
(* no answered request's record ends with it: requests are drained first,  *)
(* then the channel, then the worker (main, Recorder.Close).  A record may *)
(* be dropped by a full buffer or a failed insert before, as at any time.  *)
CleanShutdownKeepsAll ==
  [][phase = "exiting" /\ phase' = "down" /\ ~expired => lost' = lost]_vars

Served(m) == {r \in Extractions : status[r] = "ok" /\ start[r] = m}
Unpaid(m) == {r \in dropped \cup lost : start[r] = m}

FarAt(places, m)    == {x \in Remote : elsewhere[x].at \in places /\ elsewhere[x].month = m}
ServedElsewhere(m)  == FarAt({"pending", "written", "unpaid"}, m)
UnpaidElsewhere(m)  == FarAt({"unpaid"}, m)

(* A month's extractions, on all replicas, beyond the quota: those in      *)
(* flight when the last one passed the check, those whose records were     *)
(* still on their way to the table, with each replica a buffer and a       *)
(* worker of its own, those whose records never got there, and, once the   *)
(* month is over, those that arrived in it and were checked against the    *)
(* next one (CheckQuota, Record).                                          *)
OvershootBounded ==
  \A m \in 0 .. Cycles :
    Cardinality(Served(m)) + Cardinality(ServedElsewhere(m)) <=
      Quota + MaxInFlight + BufferSize + MaxElsewhere
      + Cardinality(Unpaid(m)) + Cardinality(UnpaidElsewhere(m))
      + IF m < cycle THEN MaxInFlight + MaxElsewhere ELSE 0

(* Every answered request's record is written, dropped or lost in the end. *)
RecordsSettle ==
  \A r \in Requests : pc[r] = "meter" ~> r \in persisted \cup dropped \cup lost

(* Shutdown ends by itself when nothing fails: no request, no full buffer  *)
(* and no lock holds it up.                                                *)
ShutdownEnds == phase = "draining" ~> phase = "down"

(* What is left of a shutdown, in steps at most: those of each request,    *)
(* of each record on its way, of main, of the clock and of the calendar.   *)
ShuttingDown == phase \in {"draining", "closing", "waiting", "exiting"}
At(place)    == Cardinality({r \in Requests : pc[r] = place})
Remaining ==
  6 * At("arrived") + 5 * At("extract") + 4 * At("meter") + 3 * At("sending")
  + 2 * Len(recordChan) + (IF worker = NoOne THEN 0 ELSE 1)
  + (CASE phase = "draining" -> 3 [] phase = "closing" -> 2 [] phase = "waiting" -> 1 [] OTHER -> 0)
  + (IF expired THEN 0 ELSE 1) + (Cycles - cycle)

(* A shutdown does not turn in circles: nothing the process does once it   *)
(* drains puts back what is left, until it is down.                        *)
ShutdownShrinks ==
  [][ShuttingDown => phase' = "down" \/ (ShuttingDown' /\ Remaining' < Remaining)]_here

(* The promise of UsageLedger: a record that is due becomes one entry of   *)
(* the ledger, for good, and what one crash can take is bounded by the     *)
(* requests in flight, the buffer and the worker.                          *)
Fate(r) == IF r \in persisted THEN "written"
           ELSE IF r \in dropped THEN "dropped"
           ELSE IF r \in lost THEN "lost"
           ELSE IF status[r] = "none" THEN "none" ELSE "pending"

Ledger == INSTANCE UsageLedger WITH
            fate <- [r \in Requests |-> Fate(r)],
            AtRisk <- MaxInFlight + BufferSize + 1

KeepsLedger == Ledger!LedgerSpec
=============================================================================
