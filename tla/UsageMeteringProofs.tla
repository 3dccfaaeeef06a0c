------------------------- MODULE UsageMeteringProofs -------------------------
(***************************************************************************)
(* The safety properties of UsageMetering, for every finite set of         *)
(* requests, quota, buffer size and bound on the requests in flight, and   *)
(* for every choice of faults.                                             *)
(***************************************************************************)
EXTENDS UsageMetering, FiniteSetTheorems, TLAPS

TypeOK ==
  /\ phase \in Phases /\ expired \in BOOLEAN
  /\ pc \in [Requests -> PCs]
  /\ status \in [Requests -> {"none", "ok", "error"}]
  /\ closed \in BOOLEAN /\ readers \subseteq Requests
  /\ recordChan \in Seq(Requests) /\ Len(recordChan) <= BufferSize
  /\ worker \in Requests \cup {NoOne}
  /\ persisted \subseteq Requests /\ dropped \subseteq Requests /\ lost \subseteq Requests

(* The read lock is held exactly while a request is at the select, and the *)
(* channel is closed only when nobody holds it.                            *)
LockInv ==
  /\ readers = {r \in Requests : pc[r] = "sending"}
  /\ closed => readers = {}

(* A request has an answer once it reaches the recorder.                   *)
AnswerInv ==
  \A r \in Requests :
    /\ pc[r] \in {"new", "arrived", "extract"} => status[r] = "none"
    /\ pc[r] \in {"meter", "sending"} => status[r] # "none"

(* Where the record of an answered request is: in one place of five.       *)
Settled(r) == pc[r] = "done" /\ status[r] # "none"

PlaceInv ==
  /\ \A i, j \in 1 .. Len(recordChan) : recordChan[i] = recordChan[j] => i = j
  /\ Queued \cup Writing \cup persisted \cup dropped \cup lost = {r \in Requests : Settled(r)}
  /\ Queued \cap (Writing \cup persisted \cup dropped \cup lost) = {}
  /\ Writing \cap (persisted \cup dropped \cup lost) = {}
  /\ persisted \cap (dropped \cup lost) = {}
  /\ dropped \cap lost = {}

(* While the deadline has not passed, each stage of the shutdown is over   *)
(* before the next begins.                                                 *)
ShutdownInv ==
  /\ phase = "down" => InFlight = {}
  /\ phase \in {"closing", "waiting", "exiting"} /\ ~expired => InFlight = {}
  /\ phase = "exiting" /\ ~expired => recordChan = <<>> /\ worker = NoOne

MeteringInv == TypeOK /\ LockInv /\ AnswerInv /\ PlaceInv /\ ShutdownInv

-----------------------------------------------------------------------------
(* The channel as a set. *)

LEMMA QueuedAfterSend ==
  ASSUME NEW s \in Seq(Requests), NEW r \in Requests,
         recordChan = s, recordChan' = Append(s, r)
  PROVE  /\ Queued' = Queued \cup {r}
         /\ Len(recordChan') = Len(recordChan) + 1
         /\ \A i \in 1 .. Len(recordChan) : recordChan'[i] = recordChan[i]
         /\ recordChan'[Len(recordChan')] = r
<1>1. /\ Len(recordChan') = Len(recordChan) + 1
      /\ \A i \in 1 .. Len(recordChan) : recordChan'[i] = recordChan[i]
      /\ recordChan'[Len(recordChan')] = r
  OBVIOUS
<1>2. Queued' = {recordChan'[i] : i \in 1 .. Len(recordChan')}
  BY DEF Queued
<1>3. ASSUME NEW x PROVE x \in Queued' <=> x \in Queued \cup {r}
  <2>1. Len(recordChan) \in Nat
    OBVIOUS
  <2>2. CASE x \in Queued'
    <3>1. PICK i \in 1 .. Len(recordChan') : x = recordChan'[i]
      BY <1>2, <2>2
    <3>2. CASE i = Len(recordChan')
      BY <1>1, <2>2, <3>1, <3>2
    <3>3. CASE i # Len(recordChan')
      <4>1. i \in 1 .. Len(recordChan) /\ x = recordChan[i]
        BY <1>1, <2>1, <3>1, <3>3
      <4>2. x \in Queued
        BY <4>1 DEF Queued
      <4> QED
        BY <2>2, <4>2
    <3> QED
      BY <3>2, <3>3
  <2>3. CASE x \in Queued
    <3>1. PICK i \in 1 .. Len(recordChan) : x = recordChan[i]
      BY <2>3 DEF Queued
    <3>2. x \in Queued'
      BY <1>1, <1>2, <2>1, <3>1
    <3> QED
      BY <2>3, <3>2
  <2>4. CASE x = r
    BY <1>1, <1>2, <2>1, <2>4
  <2> QED
    BY <2>2, <2>3, <2>4
<1> QED
  BY <1>1, <1>3

LEMMA QueuedAfterReceive ==
  ASSUME recordChan \in Seq(Requests), recordChan # <<>>, recordChan' = Tail(recordChan),
         \A i, j \in 1 .. Len(recordChan) : recordChan[i] = recordChan[j] => i = j
  PROVE  /\ Head(recordChan) \in Queued
         /\ Queued' = Queued \ {Head(recordChan)}
         /\ Len(recordChan') = Len(recordChan) - 1
         /\ \A i \in 1 .. Len(recordChan') : recordChan'[i] = recordChan[i + 1]
<1>1. /\ Len(recordChan) \in Nat \ {0}
      /\ Len(recordChan') = Len(recordChan) - 1
      /\ \A i \in 1 .. Len(recordChan') : recordChan'[i] = recordChan[i + 1]
      /\ Head(recordChan) = recordChan[1]
  OBVIOUS
<1>2. Head(recordChan) \in Queued
  BY <1>1 DEF Queued
<1>3. Queued' = {recordChan'[i] : i \in 1 .. Len(recordChan')}
  BY DEF Queued
<1>4. ASSUME NEW x PROVE x \in Queued' <=> x \in Queued /\ x # Head(recordChan)
  <2>1. CASE x \in Queued'
    <3>1. PICK i \in 1 .. Len(recordChan') : x = recordChan'[i]
      BY <1>3, <2>1
    <3>2. /\ x = recordChan[i + 1] /\ i + 1 \in 1 .. Len(recordChan) /\ i + 1 # 1
          /\ 1 \in 1 .. Len(recordChan)
      BY <1>1, <3>1
    <3>3. x # recordChan[1]
      BY <3>2
    <3> QED
      BY <1>1, <3>2, <3>3 DEF Queued
  <2>2. CASE x \in Queued /\ x # Head(recordChan)
    <3>1. PICK i \in 1 .. Len(recordChan) : x = recordChan[i]
      BY <2>2 DEF Queued
    <3>2. i # 1
      BY <1>1, <2>2, <3>1
    <3>3. i - 1 \in 1 .. Len(recordChan') /\ recordChan'[i - 1] = x
      BY <1>1, <3>1, <3>2
    <3>4. x \in Queued'
      BY <1>3, <3>3
    <3> QED
      BY <2>2, <3>4
  <2> QED
    BY <2>1, <2>2
<1> QED
  BY <1>1, <1>2, <1>4

-----------------------------------------------------------------------------
LEMMA InvInit == Init => MeteringInv
<1> SUFFICES ASSUME Init PROVE MeteringInv
  OBVIOUS
<1>1. Queued = {} /\ Writing = {} /\ InFlight = {}
  BY DEF Init, Queued, Writing, InFlight
<1>2. TypeOK
  <2>1. recordChan \in Seq(Requests) /\ Len(recordChan) <= BufferSize
    BY MeteringAssumption DEF Init
  <2> QED
    BY <2>1 DEF Init, TypeOK, Phases, PCs
<1> QED
  BY <1>1, <1>2 DEF Init, MeteringInv, LockInv, AnswerInv, PlaceInv, ShutdownInv, Settled

(* Steps of a request before it reaches the recorder: no record moves.     *)
LEMMA EarlyStep ==
  ASSUME MeteringInv, NEW r \in Requests, Arrive(r) \/ CheckQuota(r) \/ Extract(r) \/ Read(r)
  PROVE  MeteringInv'
<1>1. /\ pc[r] \in {"new", "arrived", "extract"}
      /\ \/ \E s \in {"arrived", "extract"} : pc' = [pc EXCEPT ![r] = s] /\ status' = status
         \/ pc' = [pc EXCEPT ![r] = "meter"]
            /\ \E s \in {"ok", "error"} : status' = [status EXCEPT ![r] = s]
      /\ UNCHANGED <<process, recorder, records>>
      /\ pc[r] = "new" => phase = "serving"
  BY DEF Arrive, CheckQuota, Extract, Read, Answer
<1>2. /\ UNCHANGED <<phase, expired, closed, readers, recordChan, worker, persisted, dropped, lost>>
      /\ Queued' = Queued /\ Writing' = Writing
  BY <1>1 DEF process, recorder, records, Queued, Writing
<1>3. TypeOK'
  BY <1>1, <1>2 DEF MeteringInv, TypeOK, PCs
<1>4. /\ pc \in [Requests -> PCs] /\ status \in [Requests -> {"none", "ok", "error"}]
  BY DEF MeteringInv, TypeOK
<1>5. LockInv' /\ AnswerInv'
  BY <1>1, <1>2, <1>4 DEF MeteringInv, LockInv, AnswerInv
<1>6. {q \in Requests : Settled(q)}' = {q \in Requests : Settled(q)}
  BY <1>1, <1>4 DEF Settled
<1>7. PlaceInv'
  BY <1>2, <1>6 DEF MeteringInv, PlaceInv
<1>8. ShutdownInv'
  <2>1. pc[r] # "new" => r \in InFlight
    BY <1>1 DEF InFlight
  <2> QED
    BY <1>1, <1>2, <2>1 DEF MeteringInv, ShutdownInv
<1> QED
  BY <1>3, <1>5, <1>7, <1>8 DEF MeteringInv

LEMMA RecordStep ==
  ASSUME MeteringInv, NEW r \in Requests, Record(r)
  PROVE  MeteringInv'
<1>1. /\ pc[r] = "meter" /\ status[r] # "none" /\ r \in InFlight
      /\ UNCHANGED <<phase, expired, status, closed, recordChan, worker, persisted, lost>>
      /\ Queued' = Queued /\ Writing' = Writing
  BY DEF Record, process, Queued, Writing, MeteringInv, AnswerInv, InFlight
<1>2. /\ pc \in [Requests -> PCs] /\ status \in [Requests -> {"none", "ok", "error"}]
  BY DEF MeteringInv, TypeOK
<1>3. ShutdownInv'
  BY <1>1 DEF MeteringInv, ShutdownInv
<1>4. CASE closed
  <2>1. /\ pc' = [pc EXCEPT ![r] = "done"] /\ dropped' = dropped \cup {r} /\ readers' = readers
    BY <1>4 DEF Record
  <2>2. TypeOK'
    BY <1>1, <2>1 DEF MeteringInv, TypeOK, PCs
  <2>3. LockInv' /\ AnswerInv'
    BY <1>1, <1>2, <2>1 DEF MeteringInv, LockInv, AnswerInv
  <2>4. ~Settled(r) /\ {q \in Requests : Settled(q)}' = {q \in Requests : Settled(q)} \cup {r}
    BY <1>1, <1>2, <2>1 DEF Settled
  <2>5. PlaceInv'
    BY <1>1, <2>1, <2>4 DEF MeteringInv, PlaceInv
  <2> QED
    BY <1>3, <2>2, <2>3, <2>5 DEF MeteringInv
<1>5. CASE ~closed
  <2>1. /\ pc' = [pc EXCEPT ![r] = "sending"] /\ readers' = readers \cup {r} /\ dropped' = dropped
    BY <1>5 DEF Record
  <2>2. TypeOK'
    BY <1>1, <2>1 DEF MeteringInv, TypeOK, PCs
  <2>3. LockInv' /\ AnswerInv'
    BY <1>1, <1>2, <1>5, <2>1 DEF MeteringInv, LockInv, AnswerInv
  <2>4. {q \in Requests : Settled(q)}' = {q \in Requests : Settled(q)}
    BY <1>1, <1>2, <2>1 DEF Settled
  <2>5. PlaceInv'
    BY <1>1, <2>1, <2>4 DEF MeteringInv, PlaceInv
  <2> QED
    BY <1>3, <2>2, <2>3, <2>5 DEF MeteringInv
<1> QED
  BY <1>4, <1>5

LEMMA SendStep ==
  ASSUME MeteringInv, NEW r \in Requests, Send(r)
  PROVE  MeteringInv'
<1>1. /\ pc[r] = "sending" /\ status[r] # "none" /\ r \in InFlight
      /\ pc' = [pc EXCEPT ![r] = "done"] /\ readers' = readers \ {r}
      /\ UNCHANGED <<phase, expired, status, closed, worker, persisted, lost>>
      /\ Writing' = Writing
  BY DEF Send, process, Writing, MeteringInv, AnswerInv, InFlight
<1>2. /\ pc \in [Requests -> PCs] /\ status \in [Requests -> {"none", "ok", "error"}]
      /\ recordChan \in Seq(Requests) /\ BufferSize \in Nat
  BY MeteringAssumption DEF MeteringInv, TypeOK
<1>3. LockInv' /\ AnswerInv'
  BY <1>1, <1>2 DEF MeteringInv, LockInv, AnswerInv
<1>4. ~Settled(r) /\ {q \in Requests : Settled(q)}' = {q \in Requests : Settled(q)} \cup {r}
  BY <1>1, <1>2 DEF Settled
<1>5. ShutdownInv'
  <2>1. phase # "down" /\ ~(phase \in {"closing", "waiting", "exiting"} /\ ~expired)
    BY <1>1 DEF MeteringInv, ShutdownInv
  <2> QED
    BY <1>1, <2>1 DEF ShutdownInv
<1>6. CASE Len(recordChan) < BufferSize
  <2>1. recordChan' = Append(recordChan, r) /\ dropped' = dropped
    BY <1>6 DEF Send
  <2>2. /\ Queued' = Queued \cup {r}
        /\ Len(recordChan') = Len(recordChan) + 1
        /\ \A i \in 1 .. Len(recordChan) : recordChan'[i] = recordChan[i]
        /\ recordChan'[Len(recordChan')] = r
    BY <1>2, <2>1, QueuedAfterSend
  <2>3. recordChan' \in Seq(Requests) /\ Len(recordChan') <= BufferSize
    BY <1>2, <1>6, <2>1
  <2>4. TypeOK'
    BY <1>1, <2>1, <2>3 DEF MeteringInv, TypeOK, PCs
  <2>5. r \notin Queued
    BY <1>4 DEF MeteringInv, PlaceInv
  <2>6. \A i, j \in 1 .. Len(recordChan') : recordChan'[i] = recordChan'[j] => i = j
    <3>1. \A i \in 1 .. Len(recordChan) : recordChan[i] # r
      BY <2>5 DEF Queued
    <3>2. Len(recordChan) \in Nat
      BY <1>2
    <3> QED
      BY <2>2, <3>1, <3>2 DEF MeteringInv, PlaceInv
  <2>7. PlaceInv'
    BY <1>1, <1>4, <2>1, <2>2, <2>6 DEF MeteringInv, PlaceInv
  <2> QED
    BY <1>3, <1>5, <2>4, <2>7 DEF MeteringInv
<1>7. CASE ~(Len(recordChan) < BufferSize)
  <2>1. recordChan' = recordChan /\ dropped' = dropped \cup {r} /\ Queued' = Queued
    BY <1>7 DEF Send, Queued
  <2>2. TypeOK'
    BY <1>1, <2>1 DEF MeteringInv, TypeOK, PCs
  <2>3. PlaceInv'
    BY <1>1, <1>4, <2>1 DEF MeteringInv, PlaceInv
  <2> QED
    BY <1>3, <1>5, <2>2, <2>3 DEF MeteringInv
<1> QED
  BY <1>6, <1>7

(* The worker takes a record out of the channel; nothing else moves.       *)
LEMMA ReceiveStep ==
  ASSUME MeteringInv, Receive
  PROVE  MeteringInv'
<1>1. /\ worker = NoOne /\ recordChan # <<>>
      /\ worker' = Head(recordChan) /\ recordChan' = Tail(recordChan)
      /\ UNCHANGED <<phase, expired, pc, status, closed, readers, persisted, dropped, lost>>
  BY DEF Receive, process, records
<1>2. recordChan \in Seq(Requests) /\ Len(recordChan) <= BufferSize /\ BufferSize \in Nat
  BY MeteringAssumption DEF MeteringInv, TypeOK
<1>3. /\ Head(recordChan) \in Queued
      /\ Queued' = Queued \ {Head(recordChan)}
      /\ Len(recordChan') = Len(recordChan) - 1
      /\ \A i \in 1 .. Len(recordChan') : recordChan'[i] = recordChan[i + 1]
  BY <1>1, <1>2, QueuedAfterReceive DEF MeteringInv, PlaceInv
<1>4. Head(recordChan) \in Requests /\ recordChan' \in Seq(Requests) /\ Len(recordChan') <= BufferSize
  BY <1>1, <1>2, <1>3
<1>5. TypeOK'
  BY <1>1, <1>4 DEF MeteringInv, TypeOK
<1>6. LockInv' /\ AnswerInv'
  BY <1>1 DEF MeteringInv, LockInv, AnswerInv
<1>7. Writing = {} /\ Writing' = {Head(recordChan)}
  BY <1>1, <1>4, MeteringAssumption DEF Writing
<1>8. \A i, j \in 1 .. Len(recordChan') : recordChan'[i] = recordChan'[j] => i = j
  <2>1. \A i \in 1 .. Len(recordChan') : i + 1 \in 1 .. Len(recordChan)
    BY <1>2, <1>3
  <2>2. ASSUME NEW i \in 1 .. Len(recordChan'), NEW j \in 1 .. Len(recordChan'),
               recordChan'[i] = recordChan'[j]
        PROVE  i + 1 = j + 1
    BY <1>3, <2>1, <2>2 DEF MeteringInv, PlaceInv
  <2> QED
    BY <1>2, <1>3, <2>2
<1>9. {q \in Requests : Settled(q)}' = {q \in Requests : Settled(q)}
  BY <1>1 DEF Settled
<1>10. PlaceInv'
  BY <1>1, <1>3, <1>7, <1>8, <1>9 DEF MeteringInv, PlaceInv
<1>11. ShutdownInv'
  <2>1. InFlight' = InFlight
    BY <1>1 DEF InFlight
  <2> QED
    BY <1>1, <2>1 DEF MeteringInv, ShutdownInv
<1> QED
  BY <1>5, <1>6, <1>10, <1>11 DEF MeteringInv

LEMMA WriteStep ==
  ASSUME MeteringInv, Insert \/ InsertFails
  PROVE  MeteringInv'
<1>1. /\ worker # NoOne /\ worker' = NoOne
      /\ \/ persisted' = persisted \cup {worker} /\ lost' = lost
         \/ lost' = lost \cup {worker} /\ persisted' = persisted
      /\ UNCHANGED <<phase, expired, pc, status, closed, readers, recordChan, dropped>>
  BY DEF Insert, InsertFails, process
<1>2. worker \in Requests
  BY <1>1 DEF MeteringInv, TypeOK
<1>3. TypeOK'
  BY <1>1, <1>2 DEF MeteringInv, TypeOK
<1>4. LockInv' /\ AnswerInv'
  BY <1>1 DEF MeteringInv, LockInv, AnswerInv
<1>5. Writing = {worker} /\ Writing' = {} /\ Queued' = Queued
  BY <1>1 DEF Writing, Queued
<1>6. {q \in Requests : Settled(q)}' = {q \in Requests : Settled(q)}
  BY <1>1 DEF Settled
<1>7. PlaceInv'
  <2>1. CASE persisted' = persisted \cup {worker} /\ lost' = lost
    BY <1>1, <1>5, <1>6, <2>1 DEF MeteringInv, PlaceInv
  <2>2. CASE lost' = lost \cup {worker} /\ persisted' = persisted
    BY <1>1, <1>5, <1>6, <2>2 DEF MeteringInv, PlaceInv
  <2> QED
    BY <1>1, <2>1, <2>2
<1>8. ShutdownInv'
  <2>1. InFlight' = InFlight
    BY <1>1 DEF InFlight
  <2> QED
    BY <1>1, <2>1 DEF MeteringInv, ShutdownInv
<1> QED
  BY <1>3, <1>4, <1>7, <1>8 DEF MeteringInv

(* Steps that touch no record and no request.                              *)
LEMMA MainStep ==
  ASSUME MeteringInv,
         BeginShutdown \/ DeadlinePasses \/ ShutdownServer \/ CloseChannel \/ CloseReturns \/ Start
         \/ TurnOfMonth
  PROVE  MeteringInv'
<1>1. /\ UNCHANGED <<pc, status, readers, recordChan, worker, persisted, dropped, lost>>
      /\ phase' \in Phases /\ expired' \in BOOLEAN /\ closed' \in BOOLEAN
      /\ closed' => closed \/ readers = {}
  <2>1. phase \in Phases /\ expired \in BOOLEAN /\ closed \in BOOLEAN
    BY DEF MeteringInv, TypeOK
  <2>2. CASE CloseChannel
    BY <2>1, <2>2 DEF CloseChannel, Phases, records
  <2>3. CASE BeginShutdown \/ DeadlinePasses \/ ShutdownServer \/ CloseReturns \/ Start \/ TurnOfMonth
    <3>1. UNCHANGED <<pc, status, recorder, records>> /\ phase' \in Phases /\ expired' \in BOOLEAN
      BY <2>1, <2>3 DEF BeginShutdown, DeadlinePasses, ShutdownServer, CloseReturns, Start,
                         TurnOfMonth, Phases, process
    <3> QED
      BY <2>1, <3>1 DEF recorder, records
  <2> QED
    BY <2>2, <2>3
<1>2. TypeOK'
  BY <1>1 DEF MeteringInv, TypeOK
<1>3. LockInv' /\ AnswerInv'
  BY <1>1 DEF MeteringInv, LockInv, AnswerInv
<1>4. /\ Queued' = Queued /\ Writing' = Writing /\ InFlight' = InFlight
      /\ {q \in Requests : Settled(q)}' = {q \in Requests : Settled(q)}
  BY <1>1 DEF Queued, Writing, InFlight, Settled
<1>5. PlaceInv'
  BY <1>1, <1>4 DEF MeteringInv, PlaceInv
<1>6. ShutdownInv'
  BY <1>1, <1>4 DEF MeteringInv, ShutdownInv, BeginShutdown, DeadlinePasses, ShutdownServer,
                    CloseChannel, CloseReturns, Start, TurnOfMonth, process
<1> QED
  BY <1>2, <1>3, <1>5, <1>6 DEF MeteringInv

(* What dies with the process is lost if it was answered, and settled.     *)
LEMMA StopStep ==
  ASSUME MeteringInv, Stop
  PROVE  MeteringInv'
<1>1. /\ phase' = "down" /\ expired' = FALSE /\ closed' = FALSE /\ readers' = {}
      /\ pc' = [r \in Requests |-> IF pc[r] = "new" THEN "new" ELSE "done"]
      /\ recordChan' = <<>> /\ worker' = NoOne
      /\ lost' = lost \cup Unwritten
      /\ UNCHANGED <<status, persisted, dropped>>
  BY DEF Stop
<1>2. /\ pc \in [Requests -> PCs] /\ status \in [Requests -> {"none", "ok", "error"}]
      /\ persisted \subseteq Requests /\ dropped \subseteq Requests /\ lost \subseteq Requests
      /\ recordChan \in Seq(Requests) /\ worker \in Requests \cup {NoOne}
  BY DEF MeteringInv, TypeOK
<1>3. Queued \subseteq Requests /\ Writing \subseteq Requests
  BY <1>2 DEF Queued, Writing
<1>4. Queued' = {} /\ Writing' = {} /\ InFlight' = {}
  BY <1>1 DEF Queued, Writing, InFlight
<1>5. TypeOK'
  <2>1. lost' \subseteq Requests
    BY <1>1, <1>2, <1>3 DEF Unwritten, InFlight
  <2>2. recordChan' \in Seq(Requests) /\ Len(recordChan') <= BufferSize
    BY <1>1, MeteringAssumption
  <2> QED
    BY <1>1, <1>2, <2>1, <2>2 DEF TypeOK, Phases, PCs
<1>6. LockInv'
  BY <1>1 DEF LockInv
<1>7. AnswerInv'
  BY <1>1, <1>2 DEF MeteringInv, AnswerInv, PCs
<1>8. {q \in Requests : Settled(q)}' = {q \in Requests : Settled(q)} \cup {r \in InFlight : status[r] # "none"}
  BY <1>1, <1>2 DEF Settled, InFlight, MeteringInv, AnswerInv
<1>9. {q \in Requests : Settled(q)} \cap InFlight = {}
  BY DEF Settled, InFlight
<1>10. PlaceInv'
  <2>1. \A i, j \in 1 .. Len(recordChan') : recordChan'[i] = recordChan'[j] => i = j
    BY <1>1
  <2>2. /\ Queued \cup Writing \cup persisted \cup dropped \cup lost = {r \in Requests : Settled(r)}
        /\ (Queued \cup Writing) \cap (persisted \cup dropped) = {}
        /\ persisted \cap (dropped \cup lost) = {} /\ dropped \cap lost = {}
    BY DEF MeteringInv, PlaceInv
  <2>3. persisted \cap Unwritten = {} /\ dropped \cap Unwritten = {}
    BY <1>9, <2>2 DEF Unwritten
  <2>4. persisted \cup dropped \cup lost' = {r \in Requests : Settled(r)}'
    BY <1>1, <1>8, <2>2 DEF Unwritten
  <2> QED
    BY <1>1, <1>4, <2>1, <2>2, <2>3, <2>4 DEF PlaceInv
<1>11. ShutdownInv'
  BY <1>1, <1>4 DEF ShutdownInv
<1> QED
  BY <1>5, <1>6, <1>7, <1>10, <1>11 DEF MeteringInv

LEMMA InvStep == MeteringInv /\ [Here]_here => MeteringInv'
<1> SUFFICES ASSUME MeteringInv, [Here]_here PROVE MeteringInv'
  OBVIOUS
<1>1. CASE \E r \in Requests : Arrive(r) \/ CheckQuota(r) \/ Extract(r) \/ Read(r)
  BY <1>1, EarlyStep
<1>2. CASE \E r \in Requests : Record(r)
  BY <1>2, RecordStep
<1>3. CASE \E r \in Requests : Send(r)
  BY <1>3, SendStep
<1>4. CASE Receive
  BY <1>4, ReceiveStep
<1>5. CASE Insert \/ InsertFails
  BY <1>5, WriteStep
<1>6. CASE BeginShutdown \/ DeadlinePasses \/ ShutdownServer \/ CloseChannel \/ CloseReturns \/ Start
           \/ TurnOfMonth
  BY <1>6, MainStep
<1>7. CASE Exit \/ Crash
  <2>1. Stop
    BY <1>7 DEF Exit, Crash
  <2> QED
    BY <2>1, StopStep
<1>8. CASE UNCHANGED here
  <2>1. /\ UNCHANGED <<phase, expired, pc, status, closed, readers, recordChan, worker, persisted, dropped, lost>>
    BY <1>8 DEF here, process, recorder, records
  <2>2. /\ Queued' = Queued /\ Writing' = Writing /\ InFlight' = InFlight
        /\ {q \in Requests : Settled(q)}' = {q \in Requests : Settled(q)}
    BY <2>1 DEF Queued, Writing, InFlight, Settled
  <2>3. TypeOK' /\ LockInv' /\ AnswerInv'
    BY <2>1 DEF MeteringInv, TypeOK, LockInv, AnswerInv
  <2>4. PlaceInv' /\ ShutdownInv'
    BY <2>1, <2>2 DEF MeteringInv, PlaceInv, ShutdownInv
  <2> QED
    BY <2>3, <2>4 DEF MeteringInv
<1> QED
  BY <1>1, <1>2, <1>3, <1>4, <1>5, <1>6, <1>7, <1>8 DEF Here, Handle, Work, Shutdown

(* A step of another replica changes nothing here.                         *)
LEMMA ElsewhereMoves ==
  ASSUME NEW x \in Remote, Elsewhere(x)
  PROVE  UNCHANGED here
BY DEF Elsewhere, ArriveElsewhere, CheckElsewhere, AnswerElsewhere, SettleElsewhere, FailElsewhere, Move

LEMMA StepsHere == [Next]_vars => [Here]_here
BY ElsewhereMoves DEF Next, vars

LEMMA Invariant == Spec => []MeteringInv
<1>1. Init => MeteringInv
  BY InvInit
<1>2. MeteringInv /\ [Here]_here => MeteringInv'
  BY InvStep
<1> QED
  BY <1>1, <1>2, StepsHere, PTL DEF Spec

-----------------------------------------------------------------------------
(* No request sends on the closed channel, even one that outlives the      *)
(* deadline of srv.Shutdown.                                               *)
THEOREM NeverSendsOnClosed == Spec => []NoSendOnClosed
<1>1. MeteringInv => NoSendOnClosed
  BY DEF MeteringInv, LockInv, NoSendOnClosed
<1> QED
  BY <1>1, Invariant, PTL

(* The end of a shutdown that its deadline does not cut short takes no     *)
(* record with it.                                                         *)
THEOREM CleanShutdownComplete == Spec => CleanShutdownKeepsAll
<1>1. ASSUME MeteringInv, [Here]_here, phase = "exiting", phase' = "down", ~expired
      PROVE  lost' = lost
  <2>1. InFlight = {} /\ recordChan = <<>> /\ worker = NoOne
    BY <1>1 DEF MeteringInv, ShutdownInv
  <2>2. Unwritten = {}
    BY <2>1 DEF Unwritten, Queued, Writing
  <2>3. Stop
    <3>1. \A r \in Requests : ~(Arrive(r) \/ Handle(r))
      BY <1>1 DEF Arrive, CheckQuota, Read, Handle, Extract, Record, Send, process
    <3>2. ~Work /\ ~BeginShutdown /\ ~DeadlinePasses /\ ~ShutdownServer /\ ~CloseChannel /\ ~CloseReturns /\ ~Start
          /\ ~TurnOfMonth
      BY <1>1 DEF Work, Receive, Insert, InsertFails, BeginShutdown, DeadlinePasses, ShutdownServer,
                  CloseChannel, CloseReturns, Start, TurnOfMonth, process
    <3>3. ~(UNCHANGED here)
      BY <1>1 DEF here, process
    <3> QED
      BY <1>1, <3>1, <3>2, <3>3 DEF Here, Shutdown, Exit, Crash
  <2> QED
    BY <2>2, <2>3 DEF Stop
<1>2. MeteringInv /\ [Next]_vars => [phase = "exiting" /\ phase' = "down" /\ ~expired => lost' = lost]_vars
  BY <1>1, StepsHere
<1> QED
  BY <1>2, Invariant, PTL DEF Spec, CleanShutdownKeepsAll

LEMMA ChannelCounts ==
  ASSUME MeteringInv
  PROVE  IsFiniteSet(Queued) /\ Cardinality(Queued) = Len(recordChan)
<1>1. /\ Len(recordChan) \in Nat
      /\ recordChan \in [1 .. Len(recordChan) -> Queued]
  BY DEF MeteringInv, TypeOK, Queued
<1>2. \A i, j \in 1 .. Len(recordChan) : recordChan[i] = recordChan[j] => i = j
  BY DEF MeteringInv, PlaceInv
<1>3. recordChan \in Bijection(1 .. Len(recordChan), Queued)
  BY <1>1, <1>2 DEF Bijection, Injection, Surjection, IsInjective, Queued
<1>4. ExistsBijection(1 .. Len(recordChan), Queued)
  BY <1>3 DEF ExistsBijection
<1> QED
  BY <1>1, <1>4, FS_CountingElements, FS_NatBijection

(* The record of every answered request is in one place, and no record is  *)
(* written twice.                                                          *)
THEOREM NothingTwiceNothingVanishes == Spec => []RecordedOnce
<1>1. ASSUME MeteringInv PROVE RecordedOnce
  <2>1. Cardinality(Queued) = Len(recordChan)
    BY <1>1, ChannelCounts
  <2>2. ASSUME NEW r \in Requests
        PROVE  Cardinality({place \in 1 .. 5 :
                              r \in <<Queued, Writing, persisted, dropped, lost>>[place]})
                 = IF pc[r] = "done" /\ status[r] # "none" THEN 1 ELSE 0
    <3> DEFINE at == <<Queued, Writing, persisted, dropped, lost>>
               places == {place \in 1 .. 5 : r \in at[place]}
    <3>1. /\ at[1] = Queued /\ at[2] = Writing /\ at[3] = persisted /\ at[4] = dropped /\ at[5] = lost
          /\ 1 .. 5 = {1, 2, 3, 4, 5}
      OBVIOUS
    <3> HIDE DEF at
    <3>2. \A p, q \in 1 .. 5 : r \in at[p] /\ r \in at[q] => p = q
      BY <1>1, <3>1 DEF MeteringInv, PlaceInv
    <3>3. (\E p \in 1 .. 5 : r \in at[p]) <=> Settled(r)
      BY <1>1, <3>1 DEF MeteringInv, PlaceInv
    <3>4. CASE Settled(r)
      <4>1. PICK p \in 1 .. 5 : r \in at[p]
        BY <3>3, <3>4
      <4>2. places = {p}
        BY <3>2, <4>1
      <4> QED
        BY <3>4, <4>2, FS_Singleton DEF Settled, at
    <3>5. CASE ~Settled(r)
      <4>1. places = {}
        BY <3>3, <3>5
      <4> QED
        BY <3>5, <4>1, FS_EmptySet DEF Settled, at
    <3> QED
      BY <3>4, <3>5
  <2> QED
    BY <2>1, <2>2 DEF RecordedOnce
<1> QED
  BY <1>1, Invariant, PTL

-----------------------------------------------------------------------------

(* How far a month's extractions can exceed its quota.  Those that were    *)
(* let in, and may yet succeed, are counted from the moment the check lets *)
(* them pass; once the month is over, so are those that arrived in it and  *)
(* are still to be checked.                                                *)
LetIn(m)   == {r \in Extractions : start[r] = m /\ (status[r] = "ok" \/ pc[r] = "extract")}
Waiting(m) == {r \in Extractions : start[r] = m /\ pc[r] = "arrived"}
Charged(m) == LetIn(m) \cup IF m < cycle THEN Waiting(m) ELSE {}

FarLetIn(m)   == FarAt({"extract", "pending", "written", "unpaid"}, m)
FarWaiting(m) == FarAt({"arrived"}, m)
FarCharged(m) == FarLetIn(m) \cup IF m < cycle THEN FarWaiting(m) ELSE {}

Bill(m)   == Cardinality(Charged(m)) + Cardinality(FarCharged(m))
Free(m)   == Cardinality(Unpaid(m)) + Cardinality(UnpaidElsewhere(m))
Margin(m) == IF m < cycle THEN MaxInFlight + MaxElsewhere ELSE 0
Allowance == Quota + MaxInFlight + BufferSize + MaxElsewhere

CycleInv ==
  /\ cycle \in 0 .. Cycles
  /\ start \in [Requests -> 0 .. Cycles]
  /\ \A r \in Requests : start[r] <= cycle

FlightInv == Cardinality(InFlight) <= MaxInFlight

FarInv ==
  /\ elsewhere \in [Remote -> [at : Places, month : 0 .. Cycles]]
  /\ \A x \in Remote : elsewhere[x].month <= cycle
  /\ Cardinality(UnsettledElsewhere) <= MaxElsewhere

OvershootInv == \A m \in 0 .. Cycles : Bill(m) <= Allowance + Free(m) + Margin(m)

BillingInv == CycleInv /\ FlightInv /\ FarInv /\ OvershootInv

LEMMA RequestSets ==
  /\ IsFiniteSet(Requests) /\ Extractions \subseteq Requests
  /\ Quota \in Nat /\ MaxInFlight \in Nat /\ BufferSize \in Nat /\ Cycles \in Nat
  /\ \A S \in SUBSET Requests : IsFiniteSet(S) /\ Cardinality(S) \in Nat
  /\ \A S, T \in SUBSET Requests : S \subseteq T => Cardinality(S) <= Cardinality(T)
BY MeteringAssumption, FS_Subset, FS_CardinalityType DEF Requests

LEMMA SetsOfRequests ==
  ASSUME TypeOK, NEW m
  PROVE  /\ LetIn(m) \in SUBSET Requests /\ Waiting(m) \in SUBSET Requests
         /\ Charged(m) \in SUBSET Requests /\ Unpaid(m) \in SUBSET Requests
         /\ Served(m) \in SUBSET Requests /\ InFlight \in SUBSET Requests
         /\ Counted \in SUBSET Requests
BY RequestSets DEF TypeOK, LetIn, Waiting, Charged, Unpaid, Served, InFlight, Counted

LEMMA UnionAtMost ==
  ASSUME NEW S \in SUBSET Requests, NEW T \in SUBSET Requests
  PROVE  /\ S \cup T \in SUBSET Requests
         /\ Cardinality(S \cup T) <= Cardinality(S) + Cardinality(T)
<1>1. IsFiniteSet(S) /\ IsFiniteSet(T)
  BY RequestSets
<1>2. /\ S \cap T \in SUBSET Requests /\ S \cup T \in SUBSET Requests
      /\ Cardinality(S \cup T) = Cardinality(S) + Cardinality(T) - Cardinality(S \cap T)
  BY <1>1, FS_Union
<1>3. /\ Cardinality(S) \in Nat /\ Cardinality(T) \in Nat /\ Cardinality(S \cap T) \in Nat
  BY <1>2, RequestSets
<1> QED
  BY <1>2, <1>3

(* The same of the requests to other replicas.                             *)
LEMMA RemoteSets ==
  /\ MaxElsewhere \in Nat
  /\ \A T \in SUBSET Remote : IsFiniteSet(T) /\ Cardinality(T) \in Nat
  /\ \A S, T \in SUBSET Remote : S \subseteq T => Cardinality(S) <= Cardinality(T)
BY MeteringAssumption, FS_Subset, FS_CardinalityType

LEMMA FarSets ==
  /\ UnsettledElsewhere \in SUBSET Remote /\ CountedElsewhere \in SUBSET Remote
  /\ \A m : /\ FarLetIn(m) \in SUBSET Remote /\ FarWaiting(m) \in SUBSET Remote
            /\ FarCharged(m) \in SUBSET Remote /\ UnpaidElsewhere(m) \in SUBSET Remote
            /\ ServedElsewhere(m) \in SUBSET Remote
BY DEF UnsettledElsewhere, CountedElsewhere, FarLetIn, FarWaiting, FarCharged, UnpaidElsewhere,
       ServedElsewhere, FarAt

LEMMA FarUnionAtMost ==
  ASSUME NEW S \in SUBSET Remote, NEW T \in SUBSET Remote
  PROVE  /\ S \cup T \in SUBSET Remote
         /\ Cardinality(S \cup T) <= Cardinality(S) + Cardinality(T)
<1>1. /\ S \cap T \in SUBSET Remote /\ S \cup T \in SUBSET Remote
      /\ Cardinality(S \cup T) = Cardinality(S) + Cardinality(T) - Cardinality(S \cap T)
  BY RemoteSets, FS_Union
<1>2. /\ Cardinality(S) \in Nat /\ Cardinality(T) \in Nat /\ Cardinality(S \cap T) \in Nat
  BY <1>1, RemoteSets
<1> QED
  BY <1>1, <1>2

LEMMA BillingInit == Init => BillingInv
<1> SUFFICES ASSUME Init PROVE BillingInv
  OBVIOUS
<1>1. CycleInv
  BY RequestSets DEF Init, CycleInv
<1>2. InFlight = {} /\ \A m : Charged(m) = {} /\ Unpaid(m) = {}
  BY RequestSets DEF Init, InFlight, Charged, LetIn, Waiting, Unpaid
<1>3. UnsettledElsewhere = {} /\ \A m : FarCharged(m) = {} /\ UnpaidElsewhere(m) = {}
  BY DEF Init, UnsettledElsewhere, FarCharged, FarLetIn, FarWaiting, UnpaidElsewhere, FarAt
<1>4. Cardinality({}) = 0
  BY FS_EmptySet
<1>5. FarInv
  <2>1. [at |-> "new", month |-> 0] \in [at : Places, month : 0 .. Cycles]
    BY RequestSets DEF Places
  <2>2. elsewhere \in [Remote -> [at : Places, month : 0 .. Cycles]]
    BY <2>1 DEF Init
  <2>3. \A x \in Remote : elsewhere[x].month <= cycle
    BY DEF Init
  <2> QED
    BY <1>3, <1>4, <2>2, <2>3, RemoteSets DEF FarInv
<1>6. OvershootInv
  <2>1. \A m : Bill(m) = 0 /\ Free(m) = 0
    BY <1>2, <1>3, <1>4 DEF Bill, Free
  <2>2. Allowance \in Nat /\ \A m : Margin(m) \in Nat
    BY RequestSets, RemoteSets DEF Allowance, Margin
  <2> QED
    BY <2>1, <2>2 DEF OvershootInv
<1> QED
  BY <1>1, <1>2, <1>4, <1>5, <1>6, RequestSets DEF BillingInv, FlightInv

(* Time, and the bound on the requests in flight.                          *)
LEMMA CycleStep ==
  ASSUME MeteringInv, CycleInv, [Here]_here
  PROVE  CycleInv'
<1>1. CASE \E r \in Requests : Arrive(r)
  BY <1>1 DEF Arrive, CycleInv
<1>2. CASE TurnOfMonth
  BY <1>2, RequestSets DEF TurnOfMonth, CycleInv
<1>3. CASE UNCHANGED <<cycle, start>>
  BY <1>3 DEF CycleInv
<1>4. \/ \E r \in Requests : Arrive(r)
      \/ TurnOfMonth
      \/ UNCHANGED <<cycle, start>>
  BY DEF Here, Handle, Work, Shutdown, CheckQuota, Read, Extract, Record, Send, Receive, Insert,
         InsertFails, BeginShutdown, DeadlinePasses, ShutdownServer, CloseChannel, CloseReturns,
         Exit, Crash, Stop, Start, here, billing
<1> QED
  BY <1>1, <1>2, <1>3, <1>4

LEMMA FlightStep ==
  ASSUME MeteringInv, FlightInv, [Here]_here
  PROVE  FlightInv'
<1>1. TypeOK /\ InFlight \in SUBSET Requests /\ pc \in [Requests -> PCs]
  BY SetsOfRequests DEF MeteringInv, TypeOK
<1>2. CASE \E r \in Requests : Arrive(r)
  <2>1. PICK r \in Requests : Arrive(r)
    BY <1>2
  <2>2. r \notin InFlight /\ InFlight' = InFlight \cup {r} /\ Cardinality(InFlight) < MaxInFlight
    BY <1>1, <2>1 DEF Arrive, InFlight
  <2>3. Cardinality(InFlight \cup {r}) = Cardinality(InFlight) + 1
    BY <1>1, <2>2, RequestSets, FS_AddElement
  <2>4. Cardinality(InFlight) \in Nat
    BY <1>1, RequestSets
  <2> QED
    BY <2>2, <2>3, <2>4, RequestSets DEF FlightInv
<1>3. CASE InFlight' \subseteq InFlight
  <2>1. InFlight' \in SUBSET Requests
    BY <1>1, <1>3
  <2>2. /\ Cardinality(InFlight') <= Cardinality(InFlight)
        /\ Cardinality(InFlight') \in Nat /\ Cardinality(InFlight) \in Nat
    BY <1>1, <1>3, <2>1, RequestSets
  <2> QED
    BY <2>2, RequestSets DEF FlightInv
<1>4. \/ \E r \in Requests : Arrive(r)
      \/ InFlight' \subseteq InFlight
  <2>1. ASSUME NEW r \in Requests, Handle(r) PROVE InFlight' \subseteq InFlight
    <3>1. r \in InFlight /\ \E s \in PCs : pc' = [pc EXCEPT ![r] = s]
      BY <2>1 DEF Handle, CheckQuota, Read, Extract, Record, Send, Answer, InFlight, PCs
    <3> QED
      BY <1>1, <3>1 DEF InFlight
  <2>2. ASSUME Exit \/ Crash PROVE InFlight' \subseteq InFlight
    <3>1. pc' = [r \in Requests |-> IF pc[r] = "new" THEN "new" ELSE "done"]
      BY <2>2 DEF Exit, Crash, Stop
    <3> QED
      BY <1>1, <3>1 DEF InFlight
  <2>3. ASSUME UNCHANGED pc PROVE InFlight' \subseteq InFlight
    BY <2>3 DEF InFlight
  <2>4. \/ \E r \in Requests : Arrive(r) \/ Handle(r)
        \/ Exit \/ Crash
        \/ UNCHANGED pc
    BY DEF Here, Work, Shutdown, Receive, Insert, InsertFails, TurnOfMonth, BeginShutdown,
           DeadlinePasses, ShutdownServer, CloseChannel, CloseReturns, Start, here
  <2> QED
    BY <2>1, <2>2, <2>3, <2>4
<1> QED
  BY <1>2, <1>3, <1>4

(* When a check passes, on any replica, each of the month's extractions    *)
(* let in so far is in flight, in the channel, with the worker, counted by *)
(* the check, or unpaid; and so are those of the other replicas.           *)
LEMMA PassingCheckCounts ==
  ASSUME MeteringInv, BillingInv, WithinQuota,
         NEW S \in SUBSET (LetIn(cycle) \cup InFlight),
         NEW T \in SUBSET (FarLetIn(cycle) \cup UnsettledElsewhere)
  PROVE  Cardinality(S) + Cardinality(T) <= Allowance + Free(cycle)
<1> DEFINE written == (Counted \cup Queued) \cup Writing
           all     == (written \cup InFlight) \cup Unpaid(cycle)
           far     == (CountedElsewhere \cup UnsettledElsewhere) \cup UnpaidElsewhere(cycle)
<1>1. TypeOK /\ CycleInv
  BY RequestSets DEF MeteringInv, BillingInv
<1>2. /\ LetIn(cycle) \in SUBSET Requests /\ Unpaid(cycle) \in SUBSET Requests
      /\ InFlight \in SUBSET Requests /\ Counted \in SUBSET Requests
  BY <1>1, SetsOfRequests
<1>3. Queued \in SUBSET Requests /\ Cardinality(Queued) <= BufferSize
  <2>1. Queued \in SUBSET Requests
    BY <1>1 DEF TypeOK, Queued
  <2>2. Cardinality(Queued) = Len(recordChan) /\ Len(recordChan) <= BufferSize
    BY <1>1, ChannelCounts DEF TypeOK
  <2> QED
    BY <2>1, <2>2
<1>4. Writing \in SUBSET Requests /\ Cardinality(Writing) <= 1
  <2>1. CASE worker = NoOne
    <3>1. Writing = {}
      BY <2>1 DEF Writing
    <3> QED
      BY <3>1, FS_EmptySet
  <2>2. CASE worker # NoOne
    <3>1. Writing = {worker} /\ worker \in Requests
      BY <1>1, <2>2 DEF TypeOK, Writing
    <3>2. Cardinality({worker}) = 1
      BY FS_Singleton
    <3> QED
      BY <3>1, <3>2
  <2> QED
    BY <2>1, <2>2
<1>5. /\ Cardinality(Counted) + Cardinality(CountedElsewhere) < Quota
      /\ Cardinality(InFlight) <= MaxInFlight
      /\ Cardinality(UnsettledElsewhere) <= MaxElsewhere
  BY DEF WithinQuota, MonthlyOCRCount, BillingInv, FlightInv, FarInv
<1>6. S \subseteq all
  <2>1. ASSUME NEW q \in LetIn(cycle), q \notin InFlight
        PROVE  q \in Counted \cup Queued \cup Writing \cup Unpaid(cycle)
    <3>1. /\ q \in Requests /\ start[q] = cycle /\ pc[q] \in {"new", "done"}
          /\ status[q] = "ok"
      BY <2>1, RequestSets DEF LetIn, InFlight
    <3>2. Settled(q)
      BY <3>1 DEF Settled, MeteringInv, AnswerInv
    <3>3. q \in Queued \cup Writing \cup persisted \cup dropped \cup lost
      BY <3>1, <3>2 DEF MeteringInv, PlaceInv
    <3>4. cycle >= cycle
      BY <1>1 DEF CycleInv
    <3> QED
      BY <3>1, <3>3, <3>4 DEF Unpaid, Counted
  <2> QED
    BY <2>1
<1>7. T \subseteq far
  <2>1. \A x \in FarLetIn(cycle) : x \in far
    <3>1. cycle \in Nat /\ cycle >= cycle
      BY <1>1 DEF CycleInv
    <3> QED
      BY <3>1 DEF FarLetIn, FarAt, CountedElsewhere, UnsettledElsewhere, UnpaidElsewhere
  <2> QED
    BY <2>1
<1>8. /\ all \in SUBSET Requests
      /\ Cardinality(all) <= Cardinality(Counted) + BufferSize + 1 + MaxInFlight + Cardinality(Unpaid(cycle))
  <2>1. /\ Counted \cup Queued \in SUBSET Requests
        /\ Cardinality(Counted \cup Queued) <= Cardinality(Counted) + Cardinality(Queued)
    BY <1>2, <1>3, UnionAtMost
  <2>2. /\ written \in SUBSET Requests
        /\ Cardinality(written) <= Cardinality(Counted \cup Queued) + Cardinality(Writing)
    BY <1>4, <2>1, UnionAtMost
  <2>3. /\ written \cup InFlight \in SUBSET Requests
        /\ Cardinality(written \cup InFlight) <= Cardinality(written) + Cardinality(InFlight)
    BY <1>2, <2>2, UnionAtMost
  <2>4. /\ all \in SUBSET Requests
        /\ Cardinality(all) <= Cardinality(written \cup InFlight) + Cardinality(Unpaid(cycle))
    BY <1>2, <2>3, UnionAtMost
  <2>5. /\ Cardinality(Counted) \in Nat /\ Cardinality(Queued) \in Nat /\ Cardinality(Writing) \in Nat
        /\ Cardinality(Counted \cup Queued) \in Nat /\ Cardinality(written) \in Nat
        /\ Cardinality(InFlight) \in Nat /\ Cardinality(written \cup InFlight) \in Nat
        /\ Cardinality(all) \in Nat /\ Cardinality(Unpaid(cycle)) \in Nat
    BY <1>2, <1>3, <1>4, <2>1, <2>2, <2>3, <2>4, RequestSets
  <2> HIDE DEF written, all
  <2> QED
    BY <1>3, <1>4, <1>5, <2>1, <2>2, <2>3, <2>4, <2>5, RequestSets
<1>9. /\ far \in SUBSET Remote
      /\ Cardinality(far) <= Cardinality(CountedElsewhere) + MaxElsewhere + Cardinality(UnpaidElsewhere(cycle))
  <2>1. /\ CountedElsewhere \cup UnsettledElsewhere \in SUBSET Remote
        /\ Cardinality(CountedElsewhere \cup UnsettledElsewhere)
             <= Cardinality(CountedElsewhere) + Cardinality(UnsettledElsewhere)
    BY FarSets, FarUnionAtMost
  <2>2. /\ far \in SUBSET Remote
        /\ Cardinality(far) <= Cardinality(CountedElsewhere \cup UnsettledElsewhere)
                                 + Cardinality(UnpaidElsewhere(cycle))
    BY <2>1, FarSets, FarUnionAtMost
  <2>3. /\ Cardinality(CountedElsewhere) \in Nat /\ Cardinality(UnsettledElsewhere) \in Nat
        /\ Cardinality(CountedElsewhere \cup UnsettledElsewhere) \in Nat
        /\ Cardinality(far) \in Nat /\ Cardinality(UnpaidElsewhere(cycle)) \in Nat
    BY <2>1, <2>2, FarSets, RemoteSets
  <2> HIDE DEF far
  <2> QED
    BY <1>5, <2>1, <2>2, <2>3, RemoteSets
<1> HIDE DEF written, all, far
<1>10. PICK s, a, c, u \in Nat :
         /\ s = Cardinality(S) /\ a = Cardinality(all) /\ c = Cardinality(Counted)
         /\ u = Cardinality(Unpaid(cycle)) /\ s <= a
  <2>1. S \in SUBSET Requests
    BY <1>6, <1>8
  <2> QED
    BY <1>2, <1>6, <1>8, <2>1, RequestSets
<1>11. PICK t, f, d, v \in Nat :
         /\ t = Cardinality(T) /\ f = Cardinality(far) /\ d = Cardinality(CountedElsewhere)
         /\ v = Cardinality(UnpaidElsewhere(cycle)) /\ t <= f
  <2>1. T \in SUBSET Remote
    BY <1>7, <1>9
  <2> QED
    BY <1>7, <1>9, <2>1, FarSets, RemoteSets
<1>12. /\ a <= c + BufferSize + 1 + MaxInFlight + u
       /\ f <= d + MaxElsewhere + v
       /\ c + d < Quota
  BY <1>5, <1>8, <1>9, <1>10, <1>11
<1>13. s + t <= Quota + MaxInFlight + BufferSize + MaxElsewhere + (u + v)
  BY <1>10, <1>11, <1>12, RequestSets, RemoteSets
<1> QED
  BY <1>10, <1>11, <1>13 DEF Allowance, Free

(* A step that charges a month with nothing new keeps its bound.           *)
LEMMA NoNewCharge ==
  ASSUME MeteringInv, MeteringInv', BillingInv, NEW m \in 0 .. Cycles, cycle' = cycle,
         Charged(m)' \subseteq Charged(m), Unpaid(m) \subseteq Unpaid(m)',
         FarCharged(m)' \subseteq FarCharged(m), UnpaidElsewhere(m) \subseteq UnpaidElsewhere(m)'
  PROVE  Bill(m)' <= Allowance + Free(m)' + Margin(m)'
<1>1. /\ Charged(m) \in SUBSET Requests /\ Unpaid(m) \in SUBSET Requests
  BY SetsOfRequests DEF MeteringInv
<1>2. Unpaid(m)' \in SUBSET Requests /\ Charged(m)' \in SUBSET Requests
  <2>1. Unpaid(m)' \in SUBSET Requests
    BY DEF MeteringInv, TypeOK, Unpaid
  <2> QED
    BY <1>1, <2>1
<1>3. /\ FarCharged(m) \in SUBSET Remote /\ FarCharged(m)' \in SUBSET Remote
      /\ UnpaidElsewhere(m) \in SUBSET Remote /\ UnpaidElsewhere(m)' \in SUBSET Remote
  <2>1. UnpaidElsewhere(m)' \in SUBSET Remote
    BY DEF UnpaidElsewhere, FarAt
  <2> QED
    BY <2>1, FarSets
<1>4. PICK c, c2, u, u2 \in Nat :
        /\ c = Cardinality(Charged(m)) /\ c2 = Cardinality(Charged(m)') /\ c2 <= c
        /\ u = Cardinality(Unpaid(m)) /\ u2 = Cardinality(Unpaid(m)') /\ u <= u2
  BY <1>1, <1>2, RequestSets
<1>5. PICK d, d2, v, v2 \in Nat :
        /\ d = Cardinality(FarCharged(m)) /\ d2 = Cardinality(FarCharged(m)') /\ d2 <= d
        /\ v = Cardinality(UnpaidElsewhere(m)) /\ v2 = Cardinality(UnpaidElsewhere(m)') /\ v <= v2
  BY <1>3, RemoteSets
<1>6. PICK g \in Nat : g = Margin(m) /\ g = Margin(m)'
  BY RequestSets, RemoteSets DEF Margin
<1>7. PICK q \in Nat : q = Allowance
  BY RequestSets, RemoteSets DEF Allowance
<1>8. c + d <= q + (u + v) + g
  BY <1>4, <1>5, <1>6, <1>7 DEF BillingInv, OvershootInv, Bill, Free
<1>9. c2 + d2 <= q + (u2 + v2) + g
  BY <1>4, <1>5, <1>8
<1>10. Bill(m)' = c2 + d2 /\ Free(m)' = u2 + v2
  BY <1>4, <1>5 DEF Bill, Free
<1> QED
  BY <1>6, <1>7, <1>9, <1>10

(* Only a check that passes, and the turn of the month, charge anything.   *)
LEMMA ChargedByCheckOrTurn ==
  ASSUME MeteringInv, BillingInv, [Here]_here, ~TurnOfMonth
  PROVE  /\ cycle' = cycle
         /\ \A m \in 0 .. Cycles : Unpaid(m) \subseteq Unpaid(m)'
         /\ \/ \A m \in 0 .. Cycles : Charged(m)' \subseteq Charged(m)
            \/ \E r \in Extractions :
                 /\ CheckQuota(r) /\ WithinQuota
                 /\ pc' = [pc EXCEPT ![r] = "extract"] /\ UNCHANGED <<status, start, records>>
<1>1. /\ pc \in [Requests -> PCs] /\ status \in [Requests -> {"none", "ok", "error"}]
      /\ start \in [Requests -> 0 .. Cycles] /\ cycle \in 0 .. Cycles
      /\ Extractions \subseteq Requests
      /\ persisted \subseteq Requests /\ dropped \subseteq Requests /\ lost \subseteq Requests
  BY RequestSets DEF MeteringInv, TypeOK, BillingInv, CycleInv
<1>2. ASSUME NEW r \in Requests, Arrive(r)
      PROVE  /\ cycle' = cycle
             /\ \A m \in 0 .. Cycles : Unpaid(m) \subseteq Unpaid(m)' /\ Charged(m)' \subseteq Charged(m)
  <2>1. /\ pc[r] = "new" /\ status[r] = "none" /\ pc' = [pc EXCEPT ![r] = "arrived"]
        /\ start' = [start EXCEPT ![r] = cycle]
        /\ UNCHANGED <<cycle, status, dropped, lost>>
    BY <1>2 DEF Arrive, records, MeteringInv, AnswerInv
  <2>2. r \notin dropped \cup lost
    BY <2>1 DEF MeteringInv, PlaceInv, Settled
  <2>3. \A m \in 0 .. Cycles : Unpaid(m) \subseteq Unpaid(m)'
    BY <1>1, <2>1, <2>2 DEF Unpaid
  <2>4. \A m \in 0 .. Cycles : LetIn(m)' \subseteq LetIn(m)
    BY <1>1, <2>1 DEF LetIn
  <2>5. \A m \in 0 .. Cycles : m < cycle => Waiting(m)' \subseteq Waiting(m)
    BY <1>1, <2>1 DEF Waiting
  <2> QED
    BY <2>1, <2>3, <2>4, <2>5 DEF Charged
<1>3. ASSUME UNCHANGED <<cycle, start, status>>,
             dropped \subseteq dropped', lost \subseteq lost',
             \A q \in Requests : pc'[q] \in {"extract", "arrived"} => pc'[q] = pc[q]
      PROVE  /\ cycle' = cycle
             /\ \A m \in 0 .. Cycles : Unpaid(m) \subseteq Unpaid(m)' /\ Charged(m)' \subseteq Charged(m)
  <2>1. cycle' = cycle /\ start' = start
    BY <1>3
  <2>2. \A m \in 0 .. Cycles : Unpaid(m) \subseteq Unpaid(m)'
    BY <1>3, <2>1 DEF Unpaid
  <2>3. \A m \in 0 .. Cycles : LetIn(m)' \subseteq LetIn(m) /\ Waiting(m)' \subseteq Waiting(m)
    BY <1>1, <1>3, <2>1 DEF LetIn, Waiting
  <2> QED
    BY <2>1, <2>2, <2>3 DEF Charged
<1>4. ASSUME NEW r \in Requests, NEW s \in {"ok", "error"}, Answer(r, s), UNCHANGED <<cycle, start, records>>,
             r \in Extractions /\ s = "ok" => pc[r] = "extract"
      PROVE  /\ cycle' = cycle
             /\ \A m \in 0 .. Cycles : Unpaid(m) \subseteq Unpaid(m)' /\ Charged(m)' \subseteq Charged(m)
  <2>1. /\ status' = [status EXCEPT ![r] = s] /\ pc' = [pc EXCEPT ![r] = "meter"]
        /\ UNCHANGED <<cycle, start, dropped, lost>>
    BY <1>4 DEF Answer, records
  <2>2. \A m \in 0 .. Cycles : Unpaid(m) \subseteq Unpaid(m)'
    BY <2>1 DEF Unpaid
  <2>3. \A m \in 0 .. Cycles : LetIn(m)' \subseteq LetIn(m) /\ Waiting(m)' \subseteq Waiting(m)
    BY <1>1, <1>4, <2>1 DEF LetIn, Waiting
  <2> QED
    BY <2>1, <2>2, <2>3 DEF Charged
<1>5. ASSUME NEW r \in Requests, CheckQuota(r)
      PROVE  /\ cycle' = cycle
             /\ \A m \in 0 .. Cycles : Unpaid(m) \subseteq Unpaid(m)'
             /\ \/ \A m \in 0 .. Cycles : Charged(m)' \subseteq Charged(m)
                \/ /\ r \in Extractions /\ WithinQuota
                   /\ pc' = [pc EXCEPT ![r] = "extract"] /\ UNCHANGED <<status, start, records>>
  <2>1. CASE Answer(r, "error")
    BY <1>4, <1>5, <2>1 DEF CheckQuota, billing
  <2>2. CASE WithinQuota /\ pc' = [pc EXCEPT ![r] = "extract"] /\ UNCHANGED status
    BY <1>5, <2>2 DEF CheckQuota, billing, records, Unpaid
  <2> QED
    BY <1>5, <2>1, <2>2 DEF CheckQuota
<1>6. ASSUME NEW r \in Requests, Extract(r) \/ Read(r)
      PROVE  \E s \in {"ok", "error"} :
               /\ Answer(r, s) /\ UNCHANGED <<cycle, start, records>>
               /\ r \in Extractions /\ s = "ok" => pc[r] = "extract"
  BY <1>6, MeteringAssumption DEF Extract, Read, billing
<1>7. ASSUME NEW r \in Requests, Record(r) \/ Send(r)
      PROVE  /\ UNCHANGED <<cycle, start, status>> /\ dropped \subseteq dropped' /\ lost \subseteq lost'
             /\ \A q \in Requests : pc'[q] \in {"extract", "arrived"} => pc'[q] = pc[q]
  <2>1. /\ \E s \in {"sending", "done"} : pc' = [pc EXCEPT ![r] = s]
        /\ UNCHANGED <<cycle, start, status, lost>> /\ dropped \subseteq dropped'
    BY <1>7 DEF Record, Send, billing
  <2> QED
    BY <1>1, <2>1
<1>8. ASSUME Work \/ BeginShutdown \/ DeadlinePasses \/ ShutdownServer \/ CloseChannel \/ CloseReturns
             \/ Start \/ UNCHANGED here
      PROVE  /\ UNCHANGED <<cycle, start, status, pc>> /\ dropped \subseteq dropped' /\ lost \subseteq lost'
  BY <1>8 DEF Work, Receive, Insert, InsertFails, BeginShutdown, DeadlinePasses, ShutdownServer,
              CloseChannel, CloseReturns, Start, here, records, billing
<1>9. ASSUME Exit \/ Crash
      PROVE  /\ UNCHANGED <<cycle, start, status>> /\ dropped \subseteq dropped' /\ lost \subseteq lost'
             /\ \A q \in Requests : pc'[q] \in {"extract", "arrived"} => pc'[q] = pc[q]
  BY <1>9 DEF Exit, Crash, Stop, billing
<1>10. CASE \E r \in Requests : Arrive(r)
  BY <1>2, <1>10
<1>11. CASE \E r \in Requests : CheckQuota(r)
  BY <1>5, <1>11
<1>12. CASE \E r \in Requests : Extract(r) \/ Read(r)
  BY <1>4, <1>6, <1>12
<1>13. CASE \E r \in Requests : Record(r) \/ Send(r)
  BY <1>3, <1>7, <1>13
<1>14. CASE Work \/ BeginShutdown \/ DeadlinePasses \/ ShutdownServer \/ CloseChannel \/ CloseReturns
            \/ Start \/ UNCHANGED here
  BY <1>3, <1>8, <1>14
<1>15. CASE Exit \/ Crash
  BY <1>3, <1>9, <1>15
<1> QED
  BY <1>10, <1>11, <1>12, <1>13, <1>14, <1>15 DEF Here, Handle, Shutdown

(* The steps of this replica leave the others' requests where they are.    *)
LEMMA HereAlone == Here => UNCHANGED elsewhere
BY DEF Here, Handle, Work, Shutdown, Arrive, CheckQuota, Read, Extract, Record, Send, Receive, Insert,
       InsertFails, BeginShutdown, DeadlinePasses, ShutdownServer, CloseChannel, CloseReturns, Exit,
       Crash, Stop, Start, TurnOfMonth, billing

LEMMA SameElsewhere ==
  ASSUME UNCHANGED elsewhere
  PROVE  /\ UnsettledElsewhere' = UnsettledElsewhere
         /\ \A m : /\ FarLetIn(m)' = FarLetIn(m) /\ FarWaiting(m)' = FarWaiting(m)
                   /\ UnpaidElsewhere(m)' = UnpaidElsewhere(m)
                   /\ cycle' = cycle => FarCharged(m)' = FarCharged(m)
BY DEF UnsettledElsewhere, FarLetIn, FarWaiting, UnpaidElsewhere, FarAt, FarCharged

LEMMA SameHere ==
  ASSUME UNCHANGED here
  PROVE  cycle' = cycle /\ \A m : Charged(m)' = Charged(m) /\ Unpaid(m)' = Unpaid(m)
BY DEF here, records, Charged, LetIn, Waiting, Unpaid

(* What a step of another replica does to its requests.                    *)
LEMMA FarMove ==
  ASSUME FarInv, CycleInv, NEW x \in Remote, Elsewhere(x)
  PROVE  /\ UNCHANGED here
         /\ \/ ArriveElsewhere(x)
            \/ /\ \E from, to \in Places :
                    /\ elsewhere[x].at = from /\ from # to /\ from \in {"arrived", "extract", "pending"}
                    /\ elsewhere' = [elsewhere EXCEPT ![x].at = to]
                    /\ to = "extract" => from = "arrived" /\ WithinQuota
                    /\ to \in {"pending", "written", "unpaid"} => from \in {"extract", "pending"}
                    /\ to # "arrived"
<1>1. UNCHANGED here
  BY ElsewhereMoves
<1>2. CASE CheckElsewhere(x)
  BY <1>1, <1>2 DEF CheckElsewhere, Move, Places
<1>3. CASE AnswerElsewhere(x)
  BY <1>1, <1>3 DEF AnswerElsewhere, Move, Places
<1>4. CASE SettleElsewhere(x)
  BY <1>1, <1>4 DEF SettleElsewhere, Move, Places
<1>5. CASE FailElsewhere(x)
  BY <1>1, <1>5 DEF FailElsewhere, Move, Places
<1> QED
  BY <1>1, <1>2, <1>3, <1>4, <1>5 DEF Elsewhere

LEMMA FarStep ==
  ASSUME MeteringInv, BillingInv, [Next]_vars
  PROVE  FarInv'
<1>1. FarInv /\ CycleInv
  BY DEF BillingInv
<1>2. CASE UNCHANGED elsewhere
  <2>1. cycle' = cycle \/ cycle' = cycle + 1
    BY ChargedByCheckOrTurn, StepsHere DEF TurnOfMonth
  <2>2. \A x \in Remote : elsewhere[x].month \in Nat /\ elsewhere[x].month <= cycle /\ cycle \in Nat
    BY <1>1, RequestSets DEF FarInv, CycleInv
  <2>3. \A x \in Remote : elsewhere'[x].month <= cycle'
    BY <1>2, <2>1, <2>2
  <2>4. UnsettledElsewhere' = UnsettledElsewhere
    BY <1>2, SameElsewhere
  <2> QED
    BY <1>1, <1>2, <2>3, <2>4 DEF FarInv
<1>3. ASSUME NEW x \in Remote, Elsewhere(x) PROVE FarInv'
  <2>1. cycle' = cycle /\ cycle \in 0 .. Cycles /\ cycle \in Nat
    BY <1>1, <1>3, FarMove, SameHere, RequestSets DEF CycleInv
  <2>2. elsewhere \in [Remote -> [at : Places, month : 0 .. Cycles]]
    BY <1>1 DEF FarInv
  <2>3. CASE ArriveElsewhere(x)
    <3> DEFINE new == [at |-> "arrived", month |-> cycle]
    <3>1. /\ elsewhere' = [elsewhere EXCEPT ![x] = new] /\ x \notin UnsettledElsewhere
          /\ Cardinality(UnsettledElsewhere) < MaxElsewhere
      BY <2>3 DEF ArriveElsewhere, UnsettledElsewhere
    <3>2. new \in [at : Places, month : 0 .. Cycles] /\ new.month = cycle /\ new.at = "arrived"
      BY <2>1 DEF Places
    <3> HIDE DEF new
    <3>3. elsewhere' \in [Remote -> [at : Places, month : 0 .. Cycles]]
      BY <2>2, <3>1, <3>2
    <3>4. \A y \in Remote : elsewhere'[y] = IF y = x THEN new ELSE elsewhere[y]
      BY <2>2, <3>1
    <3>5. \A y \in Remote : elsewhere'[y].month <= cycle'
      BY <1>1, <2>1, <3>2, <3>4 DEF FarInv
    <3>6. UnsettledElsewhere' = UnsettledElsewhere \cup {x}
      BY <3>2, <3>4 DEF UnsettledElsewhere
    <3>7. Cardinality(UnsettledElsewhere \cup {x}) = Cardinality(UnsettledElsewhere) + 1
      BY <3>1, FarSets, RemoteSets, FS_AddElement
    <3>8. Cardinality(UnsettledElsewhere \cup {x}) <= MaxElsewhere
      BY <3>1, <3>7, FarSets, RemoteSets
    <3> QED
      BY <3>3, <3>5, <3>6, <3>8 DEF FarInv
  <2>4. CASE ~ArriveElsewhere(x)
    <3>1. PICK from, to \in Places :
            /\ elsewhere[x].at = from /\ from \in {"arrived", "extract", "pending"}
            /\ elsewhere' = [elsewhere EXCEPT ![x].at = to]
      BY <1>1, <1>3, <2>4, FarMove
    <3>2. /\ elsewhere' \in [Remote -> [at : Places, month : 0 .. Cycles]]
          /\ \A y \in Remote : elsewhere'[y].month = elsewhere[y].month
          /\ \A y \in Remote : y # x => elsewhere'[y].at = elsewhere[y].at
      BY <2>2, <3>1
    <3>3. UnsettledElsewhere' \subseteq UnsettledElsewhere
      BY <3>1, <3>2 DEF UnsettledElsewhere
    <3>4. UnsettledElsewhere' \in SUBSET Remote
      BY <3>3, FarSets
    <3>5. Cardinality(UnsettledElsewhere') <= MaxElsewhere
      <4>1. /\ Cardinality(UnsettledElsewhere') <= Cardinality(UnsettledElsewhere)
            /\ Cardinality(UnsettledElsewhere') \in Nat /\ Cardinality(UnsettledElsewhere) \in Nat
        BY <3>3, <3>4, FarSets, RemoteSets
      <4> QED
        BY <1>1, <4>1, RemoteSets DEF FarInv
    <3> QED
      BY <1>1, <2>1, <3>2, <3>5 DEF FarInv
  <2> QED
    BY <2>3, <2>4
<1> QED
  BY <1>2, <1>3, HereAlone DEF Next, vars

(* Only a check that passes charges a month with a request elsewhere.      *)
LEMMA FarChargedByCheck ==
  ASSUME FarInv, CycleInv, NEW x \in Remote, Elsewhere(x), NEW m \in 0 .. Cycles
  PROVE  /\ UnpaidElsewhere(m) \subseteq UnpaidElsewhere(m)'
         /\ \/ FarCharged(m)' \subseteq FarCharged(m)
            \/ /\ m = cycle /\ WithinQuota
               /\ FarCharged(m)' \subseteq FarLetIn(cycle) \cup UnsettledElsewhere
<1>1. cycle' = cycle /\ cycle \in Nat /\ m \in Nat
  BY FarMove, SameHere, RequestSets DEF CycleInv
<1>2. elsewhere \in [Remote -> [at : Places, month : 0 .. Cycles]]
  BY DEF FarInv
<1>3. CASE ArriveElsewhere(x)
  <2> DEFINE new == [at |-> "arrived", month |-> cycle]
  <2>1. elsewhere' = [elsewhere EXCEPT ![x] = new] /\ elsewhere[x].at = "new"
    BY <1>3 DEF ArriveElsewhere
  <2>2. new.month = cycle /\ new.at = "arrived"
    OBVIOUS
  <2> HIDE DEF new
  <2>3. \A y \in Remote : elsewhere'[y] = IF y = x THEN new ELSE elsewhere[y]
    BY <1>2, <2>1
  <2>4. UnpaidElsewhere(m) \subseteq UnpaidElsewhere(m)'
    BY <2>1, <2>2, <2>3 DEF UnpaidElsewhere, FarAt
  <2>5. FarLetIn(m)' \subseteq FarLetIn(m)
    BY <2>1, <2>2, <2>3 DEF FarLetIn, FarAt
  <2>6. m < cycle => FarWaiting(m)' \subseteq FarWaiting(m)
    BY <1>1, <2>1, <2>2, <2>3 DEF FarWaiting, FarAt
  <2> QED
    BY <1>1, <2>4, <2>5, <2>6 DEF FarCharged
<1>4. CASE ~ArriveElsewhere(x)
  <2>1. PICK from, to \in Places :
          /\ elsewhere[x].at = from /\ from # to /\ from \in {"arrived", "extract", "pending"}
          /\ elsewhere' = [elsewhere EXCEPT ![x].at = to]
          /\ to = "extract" => from = "arrived" /\ WithinQuota
          /\ to \in {"pending", "written", "unpaid"} => from \in {"extract", "pending"}
          /\ to # "arrived"
    BY <1>4, FarMove
  <2>2. /\ \A y \in Remote : elsewhere'[y].month = elsewhere[y].month
        /\ \A y \in Remote : elsewhere'[y].at = IF y = x THEN to ELSE elsewhere[y].at
    BY <1>2, <2>1
  <2>3. UnpaidElsewhere(m) \subseteq UnpaidElsewhere(m)'
    BY <2>1, <2>2 DEF UnpaidElsewhere, FarAt
  <2>4. FarWaiting(m)' \subseteq FarWaiting(m)
    BY <2>1, <2>2 DEF FarWaiting, FarAt
  <2>5. CASE to # "extract"
    <3>1. FarLetIn(m)' \subseteq FarLetIn(m)
      BY <2>1, <2>2, <2>5 DEF FarLetIn, FarAt
    <3> QED
      BY <1>1, <2>3, <2>4, <3>1 DEF FarCharged
  <2>6. CASE to = "extract"
    <3>1. WithinQuota /\ x \in UnsettledElsewhere /\ elsewhere[x].at = "arrived"
      BY <2>1, <2>6 DEF UnsettledElsewhere
    <3>2. FarLetIn(m)' \subseteq FarLetIn(m) \cup (IF elsewhere[x].month = m THEN {x} ELSE {})
      BY <2>2 DEF FarLetIn, FarAt
    <3>3. elsewhere[x].month = m => x \in FarWaiting(m)
      BY <3>1 DEF FarWaiting, FarAt
    <3>4. elsewhere[x].month <= cycle /\ elsewhere[x].month \in Nat
      BY <1>2, RequestSets DEF FarInv
    <3>5. CASE m < cycle \/ elsewhere[x].month # m
      <4>1. FarCharged(m)' \subseteq FarCharged(m)
        BY <1>1, <2>4, <3>2, <3>3, <3>5 DEF FarCharged
      <4> QED
        BY <2>3, <4>1
    <3>6. CASE ~(m < cycle) /\ elsewhere[x].month = m
      <4>1. m = cycle /\ ~(m < cycle')
        BY <1>1, <3>4, <3>6
      <4>2. FarCharged(m)' \subseteq FarLetIn(cycle) \cup {x}
        BY <3>2, <4>1 DEF FarCharged
      <4> QED
        BY <2>3, <3>1, <4>1, <4>2
    <3> QED
      BY <3>5, <3>6
  <2> QED
    BY <2>5, <2>6
<1> QED
  BY <1>3, <1>4

(* The turn of the month charges the month that is over with what arrived  *)
(* in it and is still to be checked.                                       *)
LEMMA TurnCharges ==
  ASSUME MeteringInv, BillingInv, TurnOfMonth, NEW m \in 0 .. Cycles
  PROVE  Bill(m)' <= Allowance + Free(m)' + Margin(m)'
<1>1. /\ cycle' = cycle + 1 /\ UNCHANGED <<start, elsewhere, pc, status, persisted, dropped, lost>>
      /\ m \in Nat /\ cycle \in Nat /\ TypeOK /\ CycleInv
  BY RequestSets DEF TurnOfMonth, records, BillingInv, CycleInv, MeteringInv
<1>2. /\ LetIn(m)' = LetIn(m) /\ Waiting(m)' = Waiting(m) /\ Unpaid(m)' = Unpaid(m)
      /\ FarLetIn(m)' = FarLetIn(m) /\ FarWaiting(m)' = FarWaiting(m)
      /\ UnpaidElsewhere(m)' = UnpaidElsewhere(m)
  BY <1>1, SameElsewhere DEF LetIn, Waiting, Unpaid
<1>3. /\ LetIn(m) \in SUBSET Requests /\ Waiting(m) \in SUBSET Requests
      /\ Unpaid(m) \in SUBSET Requests /\ InFlight \in SUBSET Requests
  BY <1>1, SetsOfRequests
<1>4. PICK l, w, u, i \in Nat :
        /\ l = Cardinality(LetIn(m)) /\ w = Cardinality(Waiting(m))
        /\ u = Cardinality(Unpaid(m)) /\ i = Cardinality(InFlight) /\ w <= i /\ i <= MaxInFlight
  <2>1. Waiting(m) \subseteq InFlight
    BY <1>3 DEF Waiting, InFlight
  <2> QED
    BY <1>3, <2>1, RequestSets DEF BillingInv, FlightInv
<1>5. PICK fl, fw, fu, fi \in Nat :
        /\ fl = Cardinality(FarLetIn(m)) /\ fw = Cardinality(FarWaiting(m))
        /\ fu = Cardinality(UnpaidElsewhere(m)) /\ fi = Cardinality(UnsettledElsewhere)
        /\ fw <= fi /\ fi <= MaxElsewhere
  <2>1. FarWaiting(m) \subseteq UnsettledElsewhere
    BY DEF FarWaiting, FarAt, UnsettledElsewhere
  <2> QED
    BY <2>1, FarSets, RemoteSets DEF BillingInv, FarInv
<1>6. PICK q \in Nat : q = Allowance
  BY RequestSets, RemoteSets DEF Allowance
<1>7. Free(m)' = u + fu /\ Free(m) = u + fu
  BY <1>2, <1>4, <1>5 DEF Free
<1>8. Bill(m) <= Allowance + Free(m) + Margin(m)
  BY DEF BillingInv, OvershootInv
<1>9. CASE m < cycle
  <2>1. Charged(m)' = Charged(m) /\ FarCharged(m)' = FarCharged(m) /\ Margin(m)' = Margin(m)
    BY <1>1, <1>2, <1>9 DEF Charged, FarCharged, Margin
  <2>2. Bill(m)' = Bill(m)
    BY <2>1 DEF Bill
  <2> QED
    BY <1>7, <1>8, <2>1, <2>2
<1>10. CASE m = cycle
  <2>1. Charged(m) = LetIn(m) /\ FarCharged(m) = FarLetIn(m) /\ Margin(m) = 0
    BY <1>1, <1>10 DEF Charged, FarCharged, Margin
  <2>2. /\ Charged(m)' = LetIn(m) \cup Waiting(m) /\ FarCharged(m)' = FarLetIn(m) \cup FarWaiting(m)
        /\ Margin(m)' = MaxInFlight + MaxElsewhere
    BY <1>1, <1>2, <1>10 DEF Charged, FarCharged, Margin
  <2>3. PICK c \in Nat : c = Cardinality(LetIn(m) \cup Waiting(m)) /\ c <= l + w
    BY <1>3, <1>4, UnionAtMost, RequestSets
  <2>4. PICK d \in Nat : d = Cardinality(FarLetIn(m) \cup FarWaiting(m)) /\ d <= fl + fw
    BY <1>5, FarUnionAtMost, FarSets, RemoteSets
  <2>5. l + fl <= q + (u + fu)
    BY <1>4, <1>5, <1>6, <1>7, <1>8, <2>1 DEF Bill
  <2>6. c + d <= q + (u + fu) + (MaxInFlight + MaxElsewhere)
    BY <1>4, <1>5, <2>3, <2>4, <2>5, RequestSets, RemoteSets
  <2>7. Bill(m)' = c + d
    BY <2>2, <2>3, <2>4 DEF Bill
  <2> QED
    BY <1>6, <1>7, <2>2, <2>6, <2>7
<1>11. CASE m > cycle
  <2>1. LetIn(m) = {} /\ Waiting(m) = {}
    <3>1. \A r \in Requests : start[r] # m
      BY <1>1, <1>11 DEF CycleInv
    <3> QED
      BY <3>1, RequestSets DEF LetIn, Waiting
  <2>2. FarLetIn(m) = {} /\ FarWaiting(m) = {}
    <3>1. \A x \in Remote : elsewhere[x].month # m
      <4>1. \A x \in Remote : elsewhere[x].month <= cycle /\ elsewhere[x].month \in Nat
        BY RequestSets DEF BillingInv, FarInv
      <4> QED
        BY <1>1, <1>11, <4>1
    <3> QED
      BY <3>1 DEF FarLetIn, FarWaiting, FarAt
  <2>3. Bill(m)' = 0
    BY <1>2, <2>1, <2>2, FS_EmptySet DEF Bill, Charged, FarCharged
  <2>4. PICK g \in Nat : g = Margin(m)'
    BY RequestSets, RemoteSets DEF Margin
  <2> QED
    BY <1>6, <1>7, <2>3, <2>4
<1> QED
  BY <1>1, <1>9, <1>10, <1>11

(* A check that passes, on any replica, charges its month no further than  *)
(* what is counted, under way or unpaid at that moment.                    *)
LEMMA CheckCharges ==
  ASSUME MeteringInv, BillingInv, WithinQuota, cycle' = cycle, cycle \in 0 .. Cycles,
         Unpaid(cycle)' = Unpaid(cycle), UnpaidElsewhere(cycle) \subseteq UnpaidElsewhere(cycle)',
         Charged(cycle)' \subseteq LetIn(cycle) \cup InFlight,
         FarCharged(cycle)' \subseteq FarLetIn(cycle) \cup UnsettledElsewhere
  PROVE  Cardinality(Charged(cycle)') + Cardinality(FarCharged(cycle)')
           <= Allowance + (Cardinality(Unpaid(cycle)') + Cardinality(UnpaidElsewhere(cycle)'))
<1>1. Cardinality(Charged(cycle)') + Cardinality(FarCharged(cycle)') <= Allowance + Free(cycle)
  BY PassingCheckCounts
<1>2. /\ Unpaid(cycle) \in SUBSET Requests /\ Charged(cycle)' \in SUBSET Requests
      /\ FarCharged(cycle)' \in SUBSET Remote /\ UnpaidElsewhere(cycle)' \in SUBSET Remote
  <2>1. LetIn(cycle) \in SUBSET Requests /\ InFlight \in SUBSET Requests /\ Unpaid(cycle) \in SUBSET Requests
    BY SetsOfRequests DEF MeteringInv
  <2>2. UnpaidElsewhere(cycle)' \in SUBSET Remote
    BY DEF UnpaidElsewhere, FarAt
  <2> QED
    BY <2>1, <2>2, FarSets
<1>3. PICK u, v, v2, c, d \in Nat :
        /\ u = Cardinality(Unpaid(cycle)) /\ v = Cardinality(UnpaidElsewhere(cycle))
        /\ v2 = Cardinality(UnpaidElsewhere(cycle)') /\ v <= v2
        /\ c = Cardinality(Charged(cycle)') /\ d = Cardinality(FarCharged(cycle)')
  BY <1>2, FarSets, RequestSets, RemoteSets
<1>4. PICK q \in Nat : q = Allowance
  BY RequestSets, RemoteSets DEF Allowance
<1>5. c + d <= q + (u + v)
  BY <1>1, <1>3, <1>4 DEF Free
<1>6. c + d <= q + (u + v2)
  BY <1>3, <1>5
<1> QED
  BY <1>3, <1>4, <1>6

LEMMA ChargeSums ==
  ASSUME MeteringInv', NEW m \in 0 .. Cycles, Bill(m)' <= Allowance + Free(m)', Margin(m)' = 0
  PROVE  Bill(m)' <= Allowance + Free(m)' + Margin(m)'
<1>1. Unpaid(m)' \in SUBSET Requests /\ UnpaidElsewhere(m)' \in SUBSET Remote
  BY DEF MeteringInv, TypeOK, Unpaid, UnpaidElsewhere, FarAt
<1>2. PICK f \in Nat : f = Free(m)'
  BY <1>1, RequestSets, RemoteSets DEF Free
<1>3. PICK q \in Nat : q = Allowance
  BY RequestSets, RemoteSets DEF Allowance
<1>4. q + f + 0 = q + f
  BY <1>2, <1>3
<1> QED
  BY <1>2, <1>3, <1>4

LEMMA OvershootStep ==
  ASSUME MeteringInv, MeteringInv', BillingInv, [Next]_vars
  PROVE  OvershootInv'
<1> SUFFICES ASSUME NEW m \in 0 .. Cycles
             PROVE  Bill(m)' <= Allowance + Free(m)' + Margin(m)'
  BY DEF OvershootInv
<1>1. CycleInv /\ FlightInv /\ FarInv /\ TypeOK /\ m \in Nat /\ cycle \in Nat /\ cycle \in 0 .. Cycles
  BY RequestSets DEF BillingInv, MeteringInv, CycleInv
<1>2. CASE TurnOfMonth
  BY <1>2, TurnCharges
<1>3. CASE UNCHANGED elsewhere /\ ~TurnOfMonth
  <2>1. cycle' = cycle /\ Unpaid(m) \subseteq Unpaid(m)'
    BY <1>3, StepsHere, ChargedByCheckOrTurn
  <2>2. FarCharged(m)' = FarCharged(m) /\ UnpaidElsewhere(m)' = UnpaidElsewhere(m)
    BY <1>3, <2>1, SameElsewhere
  <2>3. CASE Charged(m)' \subseteq Charged(m)
    BY <2>1, <2>2, <2>3, NoNewCharge
  <2>4. ASSUME NEW r \in Extractions, CheckQuota(r), WithinQuota,
               pc' = [pc EXCEPT ![r] = "extract"], UNCHANGED <<status, start, records>>
        PROVE  Bill(m)' <= Allowance + Free(m)' + Margin(m)'
    <3>1. pc[r] = "arrived" /\ r \in Requests /\ pc \in [Requests -> PCs] /\ r \in InFlight
      BY <1>1, <2>4, RequestSets DEF CheckQuota, TypeOK, InFlight
    <3>2. /\ LetIn(m)' = IF start[r] = m THEN LetIn(m) \cup {r} ELSE LetIn(m)
          /\ Waiting(m)' = Waiting(m) \ {r}
      BY <2>4, <3>1, RequestSets DEF LetIn, Waiting
    <3>3. start[r] = m => r \in Waiting(m)
      BY <2>4, <3>1 DEF Waiting
    <3>4. CASE m < cycle \/ start[r] # m
      <4>1. Charged(m)' \subseteq Charged(m)
        BY <2>1, <3>2, <3>3, <3>4 DEF Charged
      <4> QED
        BY <2>1, <2>2, <4>1, NoNewCharge
    <3>5. CASE ~(m < cycle) /\ start[r] = m
      <4>1. m = cycle
        BY <1>1, <3>1, <3>5 DEF CycleInv
      <4>2. Charged(m)' \subseteq LetIn(m) \cup InFlight /\ Margin(m)' = 0
        BY <1>1, <2>1, <3>1, <3>2, <4>1 DEF Charged, Margin
      <4>3. Unpaid(m)' = Unpaid(m)
        BY <2>4 DEF Unpaid, records
      <4>4. FarCharged(m)' \subseteq FarLetIn(m) \cup UnsettledElsewhere
        BY <1>1, <2>2, <4>1 DEF FarCharged
      <4>5. Bill(m)' <= Allowance + Free(m)'
        BY <1>1, <2>1, <2>2, <2>4, <4>1, <4>2, <4>3, <4>4, CheckCharges DEF Bill, Free
      <4> QED
        BY <4>2, <4>5, ChargeSums
    <3> QED
      BY <3>4, <3>5
  <2> QED
    BY <1>3, <2>3, <2>4, StepsHere, ChargedByCheckOrTurn
<1>4. ASSUME NEW x \in Remote, Elsewhere(x)
      PROVE  Bill(m)' <= Allowance + Free(m)' + Margin(m)'
  <2>1. /\ cycle' = cycle /\ Charged(m)' = Charged(m) /\ Unpaid(m)' = Unpaid(m)
        /\ UnpaidElsewhere(m) \subseteq UnpaidElsewhere(m)'
    BY <1>1, <1>4, FarMove, SameHere, FarChargedByCheck
  <2>2. CASE FarCharged(m)' \subseteq FarCharged(m)
    BY <2>1, <2>2, NoNewCharge
  <2>3. CASE m = cycle /\ WithinQuota /\ FarCharged(m)' \subseteq FarLetIn(cycle) \cup UnsettledElsewhere
    <3>1. Charged(m)' \subseteq LetIn(m) \cup InFlight /\ Margin(m)' = 0
      BY <1>1, <2>1, <2>3 DEF Charged, Margin
    <3>2. Bill(m)' <= Allowance + Free(m)'
      BY <1>1, <2>1, <2>3, <3>1, CheckCharges DEF Bill, Free
    <3> QED
      BY <3>1, <3>2, ChargeSums
  <2> QED
    BY <1>1, <1>4, <2>2, <2>3, FarChargedByCheck
<1> QED
  BY <1>2, <1>3, <1>4, HereAlone DEF Next, vars

(* Successful extractions of a month, on all replicas, exceed the quota by *)
(* no more than what can be under way at once, the records that were       *)
(* dropped or lost, and, after the month's turn, what had arrived by then. *)
THEOREM OvershootIsBounded == Spec => []OvershootBounded
<1>1. Init => BillingInv
  BY BillingInit
<1>2. MeteringInv /\ MeteringInv' /\ BillingInv /\ [Next]_vars => BillingInv'
  BY CycleStep, FlightStep, FarStep, OvershootStep, StepsHere DEF BillingInv
<1>3. ASSUME MeteringInv, BillingInv PROVE OvershootBounded
  <2> SUFFICES ASSUME NEW m \in 0 .. Cycles
               PROVE  Cardinality(Served(m)) + Cardinality(ServedElsewhere(m)) <=
                        Quota + MaxInFlight + BufferSize + MaxElsewhere
                          + Cardinality(Unpaid(m)) + Cardinality(UnpaidElsewhere(m))
                          + IF m < cycle THEN MaxInFlight + MaxElsewhere ELSE 0
    BY DEF OvershootBounded
  <2>1. /\ Served(m) \in SUBSET Requests /\ Charged(m) \in SUBSET Requests
        /\ Unpaid(m) \in SUBSET Requests
    BY <1>3, SetsOfRequests DEF MeteringInv
  <2>2. Served(m) \subseteq Charged(m) /\ ServedElsewhere(m) \subseteq FarCharged(m)
    BY DEF Served, Charged, LetIn, ServedElsewhere, FarCharged, FarLetIn, FarAt
  <2>3. PICK s, c, u \in Nat :
          s = Cardinality(Served(m)) /\ c = Cardinality(Charged(m)) /\ u = Cardinality(Unpaid(m)) /\ s <= c
    BY <2>1, <2>2, RequestSets
  <2>4. PICK t, d, v \in Nat :
          /\ t = Cardinality(ServedElsewhere(m)) /\ d = Cardinality(FarCharged(m))
          /\ v = Cardinality(UnpaidElsewhere(m)) /\ t <= d
    BY <2>2, FarSets, RemoteSets
  <2>5. PICK g \in Nat : g = (IF m < cycle THEN MaxInFlight + MaxElsewhere ELSE 0) /\ g = Margin(m)
    BY RequestSets, RemoteSets DEF Margin
  <2>6. c + d <= Quota + MaxInFlight + BufferSize + MaxElsewhere + (u + v) + g
    BY <1>3, <2>3, <2>4, <2>5 DEF BillingInv, OvershootInv, Bill, Free, Allowance
  <2>7. s + t <= Quota + MaxInFlight + BufferSize + MaxElsewhere + u + v + g
    BY <2>3, <2>4, <2>6, RequestSets, RemoteSets
  <2> QED
    BY <2>3, <2>4, <2>5, <2>7
<1> QED
  BY <1>1, <1>2, <1>3, Invariant, PTL DEF Spec

-----------------------------------------------------------------------------
(* The ledger.  A record is pending while it waits for the recorder, in    *)
(* the channel, or with the worker, and these three bound how many are.    *)

Fates == [r \in Requests |-> Fate(r)]

LEMMA FateByPlace ==
  ASSUME MeteringInv, NEW r \in Requests
  PROVE  /\ Fate(r) = "written" <=> r \in persisted
         /\ Fate(r) = "dropped" <=> r \in dropped
         /\ Fate(r) = "lost"    <=> r \in lost
         /\ Fate(r) = "none"    <=> status[r] = "none"
         /\ Fate(r) = "pending" <=> r \in Unwritten
<1>1. /\ r \in Queued \cup Writing \cup persisted \cup dropped \cup lost <=> Settled(r)
      /\ ~(r \in Queued \cup Writing /\ r \in persisted \cup dropped \cup lost)
      /\ ~(r \in persisted /\ r \in dropped \cup lost)
      /\ ~(r \in dropped /\ r \in lost)
  BY DEF MeteringInv, PlaceInv
<1>2. /\ pc[r] \in PCs
      /\ pc[r] = "new" => status[r] = "none"
  BY DEF MeteringInv, TypeOK, AnswerInv
<1>3. r \in Unwritten <=> r \in Queued \cup Writing \/ (r \in InFlight /\ status[r] # "none")
  BY DEF Unwritten
<1>4. r \in Unwritten <=> status[r] # "none" /\ r \notin persisted \cup dropped \cup lost
  BY <1>1, <1>2, <1>3 DEF Settled, InFlight
<1>5. r \in persisted \cup dropped \cup lost => status[r] # "none"
  BY <1>1 DEF Settled
<1> QED
  BY <1>1, <1>4, <1>5 DEF Fate

LEMMA PendingIsUnwritten ==
  ASSUME MeteringInv
  PROVE  Ledger!Pending = Unwritten
<1>1. Unwritten \subseteq Requests
  BY DEF MeteringInv, TypeOK, Unwritten, Queued, Writing, InFlight
<1>2. Ledger!Pending = {r \in Requests : Fate(r) = "pending"}
  BY DEF Ledger!Pending
<1> QED
  BY <1>1, <1>2, FateByPlace

(* Whoever is about to answer is in flight, and not pending yet.           *)
LEMMA RoomForOneMore ==
  ASSUME MeteringInv, FlightInv, NEW r \in InFlight, status[r] = "none"
  PROVE  Cardinality(Unwritten) < MaxInFlight + BufferSize + 1
<1> DEFINE others == InFlight \ {r}
<1>1. /\ InFlight \in SUBSET Requests /\ others \in SUBSET Requests
      /\ Queued \in SUBSET Requests /\ Writing \in SUBSET Requests
  BY DEF InFlight, Queued, Writing, MeteringInv, TypeOK
<1>2. Unwritten \subseteq (Queued \cup Writing) \cup others
  BY DEF Unwritten
<1>3. Cardinality(others) = Cardinality(InFlight) - 1
  BY <1>1, RequestSets, FS_RemoveElement
<1>4. Cardinality(Queued) <= BufferSize
  BY ChannelCounts DEF MeteringInv, TypeOK
<1>5. Cardinality(Writing) <= 1
  BY FS_Singleton, FS_EmptySet DEF Writing
<1>6. /\ (Queued \cup Writing) \cup others \in SUBSET Requests
      /\ Cardinality((Queued \cup Writing) \cup others)
           <= Cardinality(Queued \cup Writing) + Cardinality(others)
      /\ Queued \cup Writing \in SUBSET Requests
      /\ Cardinality(Queued \cup Writing) <= Cardinality(Queued) + Cardinality(Writing)
  BY <1>1, UnionAtMost
<1> HIDE DEF others
<1>7. /\ Unwritten \in SUBSET Requests
      /\ Cardinality(Unwritten) <= Cardinality((Queued \cup Writing) \cup others)
  BY <1>2, <1>6, RequestSets
<1>8. /\ Cardinality(Unwritten) \in Nat /\ Cardinality((Queued \cup Writing) \cup others) \in Nat
      /\ Cardinality(Queued \cup Writing) \in Nat /\ Cardinality(others) \in Nat
      /\ Cardinality(Queued) \in Nat /\ Cardinality(Writing) \in Nat /\ Cardinality(InFlight) \in Nat
  BY <1>1, <1>6, <1>7, RequestSets
<1>9. MaxInFlight \in Nat /\ BufferSize \in Nat /\ Cardinality(InFlight) <= MaxInFlight
  BY RequestSets DEF FlightInv
<1> QED
  BY <1>3, <1>4, <1>5, <1>6, <1>7, <1>8, <1>9

LEMMA LedgerStart == Init => Ledger!LedgerInit
<1>1. ASSUME Init, NEW r \in Requests PROVE Fate(r) = "none"
  BY <1>1 DEF Init, Fate
<1> QED
  BY <1>1 DEF Ledger!LedgerInit

(* A step that gives out no answer and moves no record to its end.         *)
LEMMA SameFates ==
  ASSUME UNCHANGED <<status, persisted, dropped, lost>>
  PROVE  UNCHANGED Fates
BY DEF Fates, Fate

(* A step after which one record only has another fate.                    *)
LEMMA OneFate ==
  ASSUME NEW r \in Requests, NEW end, Fate(r)' = end,
         \A q \in Requests : q # r => Fate(q)' = Fate(q)
  PROVE  Fates' = [Fates EXCEPT ![r] = end]
<1>1. Fates' = [q \in Requests |-> Fate(q)']
  BY DEF Fates
<1>2. [Fates EXCEPT ![r] = end] = [q \in Requests |-> IF q = r THEN end ELSE Fate(q)]
  BY DEF Fates
<1> QED
  BY <1>1, <1>2

LEMMA EnterStep ==
  ASSUME MeteringInv, FlightInv, NEW r \in Requests, NEW s \in {"ok", "error"},
         pc[r] \in {"arrived", "extract"}, Answer(r, s), UNCHANGED records
  PROVE  Ledger!Enter(r)
<1>1. /\ status \in [Requests -> {"none", "ok", "error"}] /\ status[r] = "none"
      /\ status' = [status EXCEPT ![r] = s] /\ r \in InFlight
      /\ UNCHANGED <<persisted, dropped, lost>>
  BY DEF MeteringInv, TypeOK, AnswerInv, Answer, InFlight, records
<1>2. Fate(r) = "none"
  BY <1>1, FateByPlace
<1>3. r \notin persisted \cup dropped \cup lost
  BY <1>2 DEF Fate
<1>4. Fate(r)' = "pending"
  BY <1>1, <1>3 DEF Fate
<1>5. ASSUME NEW q \in Requests, q # r PROVE Fate(q)' = Fate(q)
  BY <1>1, <1>5 DEF Fate
<1>6. Fates' = [Fates EXCEPT ![r] = "pending"]
  BY <1>4, <1>5, OneFate
<1>7. Cardinality(Ledger!Pending) < MaxInFlight + BufferSize + 1
  BY <1>1, PendingIsUnwritten, RoomForOneMore
<1>8. Ledger!Cardinality(Ledger!Pending) = Cardinality(Ledger!Pending)
  BY DEF Ledger!Cardinality, Cardinality
<1> QED
  BY <1>2, <1>6, <1>7, <1>8 DEF Ledger!Enter, Fates

LEMMA SettleStep ==
  ASSUME MeteringInv, NEW r \in Unwritten, r \in Requests, status' = status,
         \/ persisted' = persisted \cup {r} /\ UNCHANGED <<dropped, lost>>
         \/ dropped' = dropped \cup {r} /\ UNCHANGED <<persisted, lost>>
         \/ lost' = lost \cup {r} /\ UNCHANGED <<persisted, dropped>>
  PROVE  Ledger!Settle(r)
<1>1. Fate(r) = "pending" /\ r \notin persisted \cup dropped \cup lost
  <2>1. Fate(r) = "pending"
    BY FateByPlace
  <2> QED
    BY <2>1 DEF Fate
<1>2. Fate(r)' \in {"written", "dropped", "lost"}
  BY <1>1 DEF Fate
<1>3. ASSUME NEW q \in Requests, q # r PROVE Fate(q)' = Fate(q)
  BY <1>3 DEF Fate
<1>4. Fates' = [Fates EXCEPT ![r] = Fate(r)']
  BY <1>3, OneFate
<1> QED
  BY <1>1, <1>2, <1>4 DEF Ledger!Settle, Fates

LEMMA LoseStep ==
  ASSUME MeteringInv, Stop
  PROVE  Ledger!LoseAll
<1>1. status' = status /\ persisted' = persisted /\ dropped' = dropped /\ lost' = lost \cup Unwritten
  BY DEF Stop
<1>2. ASSUME NEW r \in Requests
      PROVE  Fate(r)' = IF Fate(r) = "pending" THEN "lost" ELSE Fate(r)
  <2>1. CASE r \in Unwritten
    <3>1. Fate(r) = "pending" /\ r \notin persisted /\ r \notin dropped
      BY <2>1, FateByPlace DEF Fate
    <3> QED
      BY <1>1, <2>1, <3>1 DEF Fate
  <2>2. CASE r \notin Unwritten
    <3>1. Fate(r) # "pending"
      BY <2>2, FateByPlace
    <3>2. Fate(r)' = Fate(r)
      BY <1>1, <2>2 DEF Fate
    <3> QED
      BY <3>1, <3>2
  <2> QED
    BY <2>1, <2>2
<1> QED
  BY <1>2 DEF Ledger!LoseAll
(* Each step is one of the ledger, or none.                                *)
LEMMA LedgerStep ==
  ASSUME MeteringInv, FlightInv, [Here]_here
  PROVE  Ledger!LedgerNext \/ UNCHANGED Fates
<1>1. ASSUME NEW r \in Requests, Handle(r) PROVE Ledger!LedgerNext \/ UNCHANGED Fates
  <2>1. CASE CheckQuota(r) \/ Extract(r) \/ Read(r)
    <3>1. CASE \E s \in {"ok", "error"} : Answer(r, s)
      <4>1. PICK s \in {"ok", "error"} : Answer(r, s)
        BY <3>1
      <4>2. pc[r] \in {"arrived", "extract"} /\ UNCHANGED records
        BY <2>1 DEF CheckQuota, Extract, Read
      <4>3. Ledger!Enter(r)
        BY <4>1, <4>2, EnterStep
      <4> QED
        BY <4>3 DEF Ledger!LedgerNext
    <3>2. CASE ~ \E s \in {"ok", "error"} : Answer(r, s)
      <4>1. UNCHANGED <<status, persisted, dropped, lost>>
        BY <2>1, <3>2 DEF CheckQuota, Extract, Read, records
      <4> QED
        BY <4>1, SameFates
    <3> QED
      BY <3>1, <3>2
  <2>2. CASE Record(r) \/ Send(r)
    <3>1. r \in Unwritten /\ UNCHANGED <<status, persisted, lost>>
      <4>1. pc[r] \in {"meter", "sending"} /\ UNCHANGED <<status, persisted, lost>>
        BY <2>2 DEF Record, Send
      <4>2. status[r] # "none"
        BY <4>1 DEF MeteringInv, AnswerInv
      <4> QED
        BY <4>1, <4>2 DEF Unwritten, InFlight
    <3>2. CASE dropped' = dropped \cup {r}
      <4>1. Ledger!Settle(r)
        BY <3>1, <3>2, SettleStep
      <4> QED
        BY <4>1 DEF Ledger!LedgerNext
    <3>3. CASE dropped' = dropped
      BY <3>1, <3>3, SameFates
    <3> QED
      BY <2>2, <3>2, <3>3 DEF Record, Send
  <2> QED
    BY <1>1, <2>1, <2>2 DEF Handle
<1>2. ASSUME Insert \/ InsertFails PROVE Ledger!LedgerNext
  <2>1. /\ worker # NoOne
        /\ \/ persisted' = persisted \cup {worker} /\ lost' = lost
           \/ lost' = lost \cup {worker} /\ persisted' = persisted
        /\ UNCHANGED <<status, dropped>>
    BY <1>2 DEF Insert, InsertFails
  <2>2. worker \in Requests /\ worker \in Unwritten
    BY <2>1 DEF MeteringInv, TypeOK, Unwritten, Writing
  <2>3. Ledger!Settle(worker)
    BY <2>1, <2>2, SettleStep
  <2> QED
    BY <2>2, <2>3 DEF Ledger!LedgerNext
<1>3. ASSUME Exit \/ Crash PROVE Ledger!LedgerNext
  <2>1. Stop
    BY <1>3 DEF Exit, Crash
  <2> QED
    BY <2>1, LoseStep DEF Ledger!LedgerNext
<1>4. \/ \E r \in Requests : Handle(r)
      \/ Insert \/ InsertFails
      \/ Exit \/ Crash
      \/ UNCHANGED <<status, persisted, dropped, lost>>
  BY DEF Here, Work, Shutdown, Arrive, Receive, TurnOfMonth, BeginShutdown, DeadlinePasses,
         ShutdownServer, CloseChannel, CloseReturns, Start, here, records
<1> QED
  BY <1>1, <1>2, <1>3, <1>4, SameFates

LEMMA InFlightBounded == Spec => []FlightInv
<1>1. Init => FlightInv
  BY BillingInit DEF BillingInv
<1>2. MeteringInv /\ FlightInv /\ [Here]_here => FlightInv'
  BY FlightStep
<1> QED
  BY <1>1, <1>2, StepsHere, Invariant, PTL DEF Spec

(* Metering keeps the ledger: the fate of a record is final, and a process *)
(* that dies takes at most the records of the requests in flight, of one   *)
(* full buffer and of the worker with it.                                  *)
THEOREM LedgerKept == Spec => KeepsLedger
<1>1. Init => Ledger!LedgerInit
  BY LedgerStart
<1>2. MeteringInv /\ FlightInv /\ [Here]_here => [Ledger!LedgerNext]_Fates
  BY LedgerStep
<1> QED
  BY <1>1, <1>2, StepsHere, Invariant, InFlightBounded, PTL DEF Spec, KeepsLedger, Ledger!LedgerSpec, Fates
-----------------------------------------------------------------------------
(* A shutdown comes nearer to its end with every step.                     *)

Standing(place) == {r \in Requests : pc[r] = place}

LEMMA AtIsNat == \A place : Standing(place) \in SUBSET Requests /\ At(place) \in Nat
BY RequestSets DEF At, Standing

Weight(place) == CASE place = "arrived" -> 6 [] place = "extract" -> 5 [] place = "meter" -> 4
                   [] place = "sending" -> 3 [] OTHER -> 0
Load    == 6 * At("arrived") + 5 * At("extract") + 4 * At("meter") + 3 * At("sending")
Carried == 2 * Len(recordChan) + (IF worker = NoOne THEN 0 ELSE 1)
Stages  == CASE phase = "draining" -> 3 [] phase = "closing" -> 2 [] phase = "waiting" -> 1 [] OTHER -> 0
Clock   == (IF expired THEN 0 ELSE 1) + (Cycles - cycle)

PartsInv ==
  /\ Remaining = Load + Carried + Stages + Clock
  /\ Load \in Nat /\ Carried \in Nat /\ Stages \in 0 .. 3 /\ Clock \in Nat

LEMMA RemainingParts ==
  ASSUME TypeOK, CycleInv
  PROVE  PartsInv
<1>1. /\ At("arrived") \in Nat /\ At("extract") \in Nat /\ At("meter") \in Nat /\ At("sending") \in Nat
  BY AtIsNat
<1>2. Load \in Nat
  BY <1>1 DEF Load
<1>3. Carried \in Nat /\ Clock \in Nat
  BY RequestSets DEF Carried, Clock, TypeOK, CycleInv
<1>4. Stages \in 0 .. 3
  BY DEF Stages
<1>5. Remaining = Load + Carried + Stages + Clock
  <2> DEFINE load == 6 * At("arrived") + 5 * At("extract") + 4 * At("meter") + 3 * At("sending")
             chan == 2 * Len(recordChan)
             work == IF worker = NoOne THEN 0 ELSE 1
             wait == IF expired THEN 0 ELSE 1
             left == Cycles - cycle
  <2>1. Remaining = load + chan + work + Stages + wait + left
    BY DEF Remaining, Stages
  <2>2. Load = load /\ Carried = chan + work /\ Clock = wait + left
    BY DEF Load, Carried, Clock
  <2>3. load \in Nat
    BY <1>1
  <2>4. chan \in Nat
    BY DEF TypeOK
  <2>5. work \in Nat /\ wait \in Nat
    OBVIOUS
  <2>6. left \in Int
    BY RequestSets DEF CycleInv
  <2> HIDE DEF load, chan, work, wait, left
  <2> QED
    BY <2>1, <2>2, <2>3, <2>4, <2>5, <2>6, <1>4
<1> QED
  BY <1>2, <1>3, <1>4, <1>5 DEF PartsInv

(* A request that moves is one less where it was and one more where it is. *)
LEMMA LoadFalls ==
  ASSUME TypeOK, NEW r \in Requests, NEW from \in PCs, NEW to \in PCs, from # to,
         pc[r] = from, pc' = [pc EXCEPT ![r] = to]
  PROVE  Load' = Load - Weight(from) + Weight(to)
<1>1. /\ At(from)' = At(from) - 1
      /\ At(to)' = At(to) + 1
      /\ \A place : place # from /\ place # to => At(place)' = At(place)
  <2>1. pc \in [Requests -> PCs] /\ \A q \in Requests : pc'[q] = IF q = r THEN to ELSE pc[q]
    BY DEF TypeOK
  <2>2. /\ Standing(from)' = Standing(from) \ {r} /\ r \in Standing(from)
        /\ Standing(to)' = Standing(to) \cup {r} /\ r \notin Standing(to)
        /\ \A place : place # from /\ place # to => Standing(place)' = Standing(place)
    BY <2>1 DEF Standing
  <2>3. Cardinality(Standing(from) \ {r}) = Cardinality(Standing(from)) - 1
    BY <2>2, AtIsNat, RequestSets, FS_RemoveElement
  <2>4. Cardinality(Standing(to) \cup {r}) = Cardinality(Standing(to)) + 1
    BY <2>2, AtIsNat, RequestSets, FS_AddElement
  <2>5. \A place : At(place) = Cardinality(Standing(place)) /\ At(place)' = Cardinality(Standing(place)')
    BY DEF At, Standing
  <2>6. At(from)' = At(from) - 1 /\ At(to)' = At(to) + 1
    BY <2>2, <2>3, <2>4, <2>5
  <2>7. \A place : place # from /\ place # to => At(place)' = At(place)
    BY <2>2, <2>5
  <2> QED
    BY <2>6, <2>7
<1>2. /\ At("arrived") \in Nat /\ At("extract") \in Nat /\ At("meter") \in Nat /\ At("sending") \in Nat
  BY AtIsNat
<1>3. Load' = 6 * At("arrived")' + 5 * At("extract")' + 4 * At("meter")' + 3 * At("sending")'
  BY DEF Load
<1>4. PICK a, e, m, s \in Nat : a = At("arrived") /\ e = At("extract") /\ m = At("meter") /\ s = At("sending")
  BY <1>2
<1>5. /\ At("arrived")' = IF from = "arrived" THEN a - 1 ELSE IF to = "arrived" THEN a + 1 ELSE a
      /\ At("extract")' = IF from = "extract" THEN e - 1 ELSE IF to = "extract" THEN e + 1 ELSE e
      /\ At("meter")'   = IF from = "meter" THEN m - 1 ELSE IF to = "meter" THEN m + 1 ELSE m
      /\ At("sending")' = IF from = "sending" THEN s - 1 ELSE IF to = "sending" THEN s + 1 ELSE s
  BY <1>1, <1>4
<1>6. Load = 6 * a + 5 * e + 4 * m + 3 * s
  BY <1>4 DEF Load
<1> QED
  BY <1>3, <1>5, <1>6 DEF Weight, PCs
\* What is left elsewhere does not change when these do not.
LEMMA SameLoad    == UNCHANGED pc => Load' = Load
BY DEF Load, At
LEMMA SameCarried == UNCHANGED <<recordChan, worker>> => Carried' = Carried
BY DEF Carried
LEMMA SameMain    == UNCHANGED process => Stages' = Stages
BY DEF Stages, process
LEMMA SameClock   == UNCHANGED <<expired, cycle>> => Clock' = Clock
BY DEF Clock

LEMMA HandleShrinks ==
  ASSUME TypeOK, CycleInv, NEW r \in Requests, Handle(r)
  PROVE  Load' + Carried' < Load + Carried /\ Stages' = Stages /\ Clock' = Clock /\ phase' = phase
<1>1. UNCHANGED <<process, cycle>>
  BY DEF Handle, CheckQuota, Read, Extract, Record, Send, billing
<1>2. Stages' = Stages /\ Clock' = Clock /\ phase' = phase
  BY <1>1, SameMain, SameClock DEF process
<1>3. Load \in Nat /\ Carried \in Nat
  BY RemainingParts DEF PartsInv
<1>4. CASE CheckQuota(r) \/ Read(r) \/ Extract(r) \/ Record(r)
  <2>1. PICK from, to \in PCs : pc[r] = from /\ pc' = [pc EXCEPT ![r] = to] /\ Weight(to) < Weight(from)
    <3>1. \/ pc[r] = "arrived" /\ pc' = [pc EXCEPT ![r] = "extract"]
          \/ pc[r] = "arrived" /\ pc' = [pc EXCEPT ![r] = "meter"]
          \/ pc[r] = "extract" /\ pc' = [pc EXCEPT ![r] = "meter"]
          \/ pc[r] = "meter" /\ pc' = [pc EXCEPT ![r] = "sending"]
          \/ pc[r] = "meter" /\ pc' = [pc EXCEPT ![r] = "done"]
      BY <1>4 DEF CheckQuota, Read, Extract, Record, Answer
    <3>2. /\ Weight("arrived") = 6 /\ Weight("extract") = 5 /\ Weight("meter") = 4
          /\ Weight("sending") = 3 /\ Weight("done") = 0
          /\ {"arrived", "extract", "meter", "sending", "done"} \subseteq PCs
      BY DEF Weight, PCs
    <3> QED
      BY <3>1, <3>2
  <2>2. Weight(to) \in Int /\ Weight(from) \in Int /\ from # to
    BY <2>1 DEF Weight
  <2>3. Load' = Load - Weight(from) + Weight(to)
    BY <2>1, <2>2, LoadFalls
  <2>4. Carried' = Carried
    BY <1>4, SameCarried DEF CheckQuota, Read, Extract, Record, recorder
  <2> QED
    BY <1>2, <1>3, <2>1, <2>2, <2>3, <2>4
<1>5. CASE Send(r)
  <2>1. /\ pc[r] = "sending" /\ pc' = [pc EXCEPT ![r] = "done"] /\ worker' = worker
        /\ recordChan' = recordChan \/ recordChan' = Append(recordChan, r)
    BY <1>5 DEF Send
  <2>2. Load' = Load - Weight("sending") + Weight("done")
    BY <2>1, LoadFalls DEF PCs
  <2>3. Weight("sending") = 3 /\ Weight("done") = 0
    BY DEF Weight
  <2>4. Len(recordChan) \in Nat /\ (Len(recordChan') = Len(recordChan) \/ Len(recordChan') = Len(recordChan) + 1)
    BY <2>1 DEF TypeOK
  <2>5. Carried' \in {Carried, Carried + 2}
    BY <2>1, <2>4 DEF Carried
  <2> QED
    BY <1>2, <1>3, <2>2, <2>3, <2>5
<1> QED
  BY <1>4, <1>5 DEF Handle

LEMMA WorkShrinks ==
  ASSUME TypeOK, Work
  PROVE  Carried' < Carried /\ Load' = Load /\ Stages' = Stages /\ Clock' = Clock /\ phase' = phase
<1>1. UNCHANGED <<process, cycle, pc>>
  BY DEF Work, Receive, Insert, InsertFails, billing
<1>2. Load' = Load /\ Stages' = Stages /\ Clock' = Clock /\ phase' = phase
  BY <1>1, SameLoad, SameMain, SameClock DEF process
<1>3. CASE Receive
  <2>1. worker = NoOne /\ recordChan # <<>> /\ recordChan' = Tail(recordChan) /\ recordChan \in Seq(Requests)
    BY <1>3 DEF Receive, TypeOK
  <2>2. Len(recordChan') = Len(recordChan) - 1 /\ Len(recordChan) \in Nat
    BY <2>1
  <2> QED
    BY <1>2, <2>1, <2>2 DEF Carried
<1>4. CASE Insert \/ InsertFails
  <2>1. worker # NoOne /\ worker' = NoOne /\ recordChan' = recordChan /\ Len(recordChan) \in Nat
    BY <1>4 DEF Insert, InsertFails, TypeOK
  <2> QED
    BY <1>2, <2>1 DEF Carried
<1> QED
  BY <1>3, <1>4 DEF Work

LEMMA MainShrinks ==
  ASSUME TypeOK, CycleInv, ShuttingDown,
         ShutdownServer \/ CloseChannel \/ CloseReturns \/ DeadlinePasses \/ TurnOfMonth
  PROVE  ShuttingDown' /\ Stages' + Clock' < Stages + Clock /\ Load' = Load /\ Carried' = Carried
<1>1. UNCHANGED <<pc, recordChan, worker>>
  BY DEF ShutdownServer, CloseChannel, CloseReturns, DeadlinePasses, TurnOfMonth, recorder
<1>2. Stages \in 0 .. 3 /\ Clock \in Nat
  BY RemainingParts DEF PartsInv
<1>3. CASE ShutdownServer \/ CloseChannel \/ CloseReturns
  <2>1. UNCHANGED <<expired, cycle>>
    BY <1>3 DEF ShutdownServer, CloseChannel, CloseReturns, billing
  <2>2. ShuttingDown' /\ Stages' < Stages
    BY <1>3 DEF ShutdownServer, CloseChannel, CloseReturns, ShuttingDown, Stages
  <2>3. Stages' \in 0 .. 3
    BY DEF Stages
  <2>4. Load' = Load /\ Carried' = Carried /\ Clock' = Clock
    BY <1>1, <2>1, SameLoad, SameCarried, SameClock
  <2>5. Stages' < Stages
    BY <2>2
  <2>6. Stages' + Clock' < Stages + Clock
    <3>1. PICK s, t \in 0 .. 3, k \in Nat : s = Stages /\ t = Stages' /\ k = Clock
      BY <1>2, <2>3
    <3>2. t < s
      BY <2>5, <3>1
    <3>3. t + k < s + k
      BY <3>2
    <3> QED
      BY <2>4, <3>1, <3>3
  <2> QED
    BY <2>2, <2>4, <2>6
<1>4. CASE DeadlinePasses \/ TurnOfMonth
  <2>1. /\ phase' = phase
        /\ (~expired /\ expired' = TRUE /\ cycle' = cycle) \/ (expired' = expired /\ cycle' = cycle + 1)
    BY <1>4 DEF DeadlinePasses, TurnOfMonth, billing, process
  <2>2. Clock' < Clock
    BY <2>1, RequestSets DEF Clock, CycleInv
  <2>3. Stages' = Stages /\ ShuttingDown'
    BY <2>1 DEF Stages, ShuttingDown
  <2>4. Clock' \in Int
    BY <2>1, RequestSets DEF Clock, CycleInv
  <2>5. Load' = Load /\ Carried' = Carried
    BY <1>1, SameLoad, SameCarried
  <2>6. Stages' = Stages
    BY <2>3
  <2>7. Stages' + Clock' < Stages + Clock
    <3>1. PICK s \in 0 .. 3, k \in Nat, l \in Int : s = Stages /\ k = Clock /\ l = Clock'
      BY <1>2, <2>4
    <3>2. l < k
      BY <2>2, <3>1
    <3>3. s + l < s + k
      BY <3>2
    <3> QED
      BY <2>6, <3>1, <3>3
  <2> QED
    BY <2>3, <2>5, <2>7
<1> QED
  BY <1>3, <1>4

(* A shutdown does not turn in circles.                                    *)
THEOREM ShutdownRunsDown == Spec => ShutdownShrinks
<1>1. ASSUME MeteringInv, CycleInv, PartsInv, PartsInv', [Here]_here, ShuttingDown
      PROVE  phase' = "down" \/ (ShuttingDown' /\ Remaining' < Remaining) \/ UNCHANGED here
  <2>1. /\ Remaining = Load + Carried + Stages + Clock
        /\ Load \in Nat /\ Carried \in Nat /\ Stages \in 0 .. 3 /\ Clock \in Nat
    BY <1>1 DEF PartsInv
  <2>2. /\ Remaining' = Load' + Carried' + Stages' + Clock'
        /\ Load' \in Nat /\ Carried' \in Nat /\ Stages' \in 0 .. 3 /\ Clock' \in Nat
    BY <1>1 DEF PartsInv
  <2>3. PICK l, c, s, k \in Nat : l = Load /\ c = Carried /\ s = Stages /\ k = Clock
    BY <2>1
  <2>4. PICK l2, c2, s2, k2 \in Nat : l2 = Load' /\ c2 = Carried' /\ s2 = Stages' /\ k2 = Clock'
    BY <2>2
  <2>5. Remaining = l + c + s + k /\ Remaining' = l2 + c2 + s2 + k2
    BY <2>1, <2>2, <2>3, <2>4
  <2>6. CASE \E r \in Requests : Handle(r)
    <3>1. Load' + Carried' < Load + Carried /\ Stages' = Stages /\ Clock' = Clock /\ phase' = phase
      BY <1>1, <2>6, HandleShrinks DEF MeteringInv
    <3>2. ShuttingDown'
      BY <1>1, <3>1 DEF ShuttingDown
    <3>3. l2 + c2 < l + c /\ s2 = s /\ k2 = k
      BY <2>3, <2>4, <3>1
    <3>4. l2 + c2 + s2 + k2 < l + c + s + k
      BY <3>3
    <3> QED
      BY <2>5, <3>2, <3>4
  <2>7. CASE Work
    <3>1. Carried' < Carried /\ Load' = Load /\ Stages' = Stages /\ Clock' = Clock /\ phase' = phase
      BY <1>1, <2>7, WorkShrinks DEF MeteringInv
    <3>2. ShuttingDown'
      BY <1>1, <3>1 DEF ShuttingDown
    <3>3. c2 < c /\ l2 = l /\ s2 = s /\ k2 = k
      BY <2>3, <2>4, <3>1
    <3>4. l2 + c2 + s2 + k2 < l + c + s + k
      BY <3>3
    <3> QED
      BY <2>5, <3>2, <3>4
  <2>8. CASE ShutdownServer \/ CloseChannel \/ CloseReturns \/ DeadlinePasses \/ TurnOfMonth
    <3>1. /\ ShuttingDown'
          /\ Stages' + Clock' < Stages + Clock /\ Load' = Load /\ Carried' = Carried
      BY <1>1, <2>8, MainShrinks DEF MeteringInv
    <3>2. s2 + k2 < s + k /\ l2 = l /\ c2 = c
      BY <2>3, <2>4, <3>1
    <3>3. l2 + c2 + s2 + k2 < l + c + s + k
      BY <3>2
    <3> QED
      BY <2>5, <3>1, <3>3
  <2>9. CASE Exit \/ Crash
    BY <2>9 DEF Exit, Crash, Stop
  <2>10. ~BeginShutdown /\ ~Start /\ \A r \in Requests : ~Arrive(r)
    BY <1>1 DEF ShuttingDown, BeginShutdown, Start, Arrive
  <2> QED
    BY <1>1, <2>6, <2>7, <2>8, <2>9, <2>10 DEF Here, Shutdown
<1>2. MeteringInv /\ CycleInv /\ PartsInv /\ PartsInv' /\ [Here]_here =>
        [ShuttingDown => phase' = "down" \/ (ShuttingDown' /\ Remaining' < Remaining)]_here
  BY <1>1
<1>3. Init => CycleInv
  BY BillingInit DEF BillingInv
<1>4. MeteringInv /\ CycleInv /\ [Here]_here => CycleInv'
  BY CycleStep
<1>5. MeteringInv /\ CycleInv => PartsInv
  BY RemainingParts DEF MeteringInv
<1> QED
  BY <1>2, <1>3, <1>4, <1>5, StepsHere, Invariant, PTL DEF Spec, ShutdownShrinks
=============================================================================
