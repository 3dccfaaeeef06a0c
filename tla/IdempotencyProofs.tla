-------------------------- MODULE IdempotencyProofs --------------------------
(***************************************************************************)
(* Safety of Idempotency for every number of requests and payloads, both   *)
(* stores, every TTL and every fault: one handler at a time, honest        *)
(* replays, at most one execution per TTL, and the contract.               *)
(***************************************************************************)
EXTENDS Idempotency, TLAPS

(* What a request was answered fits how far it got in the middleware. *)
AnswersFit ==
  \A r \in Requests :
    /\ pc[r] \in {"new", "conflict", "handler"} => answer[r] = [kind |-> "none", by |-> NoOne]
    /\ pc[r] = "record" => answer[r].kind \in HandlerAnswers /\ answer[r].by = r
    /\ answer[r].kind = "replay" => pc[r] = "done"

(* A completed record holds the answer of a request that is over. *)
CompletedIsAnswered ==
  record.status = "completed" =>
    \E q \in Requests : /\ record.response = q
                        /\ pc[q] = "done"
                        /\ answer[q] = [kind |-> "ok", by |-> q]
                        /\ body[q] = record.hash

(* Replayed answers, in the form that is preserved: their origin is over. *)
ReplaysAreOver ==
  \A r \in Requests : answer[r].kind = "replay" =>
    \E q \in Requests : /\ answer[r].by = q
                        /\ pc[q] = "done"
                        /\ answer[q] = [kind |-> "ok", by |-> q]
                        /\ body[q] = body[r]

(* Until its TTL is over, the record of a request that answered is still   *)
(* that request's, and as old as the request.                              *)
AnsweredKeepsRecord ==
  (backend = "postgres" \/ "crash" \notin Faults) =>
    \A r \in Requests : answer[r] = [kind |-> "ok", by |-> r] =>
      \/ age[r] >= ReplayTTL
      \/ record.status # "absent" /\ record.owner = r /\ record.age = age[r]

IdemInv ==
  /\ TypeOK
  /\ ServedOwnsRecord
  /\ AnswersFit
  /\ CompletedIsAnswered
  /\ ReplaysAreOver
  /\ AnsweredKeepsRecord

-----------------------------------------------------------------------------
(* Nobody is being served while the key is free: a record cannot expire    *)
(* under its holder, because MaxHandler < ReplayTTL.                       *)
LEMMA FreeMeansIdle ==
  ASSUME TypeOK, ServedOwnsRecord, Free
  PROVE  \A r \in Requests : ~Serving(r)
BY IdempotencyAssumption DEF Free, Expired, ServedOwnsRecord, TypeOK, Ages

(* The key has one owner, so it has one server. *)
LEMMA OneServer ==
  ASSUME ServedOwnsRecord, NEW r \in Requests, Serving(r)
  PROVE  \A q \in Requests : Serving(q) => q = r
BY DEF ServedOwnsRecord

LEMMA InvInit == Init => IdemInv
<1> SUFFICES ASSUME Init PROVE IdemInv
  OBVIOUS
<1>1. TypeOK
  BY IdempotencyAssumption DEF Init, TypeOK, NoRecord, Statuses, PCs, Kinds, Ages
<1>2. ServedOwnsRecord /\ AnswersFit /\ CompletedIsAnswered /\ ReplaysAreOver
  BY DEF Init, NoRecord, Serving, ServedOwnsRecord, AnswersFit, CompletedIsAnswered, ReplaysAreOver
<1>3. AnsweredKeepsRecord
  BY DEF Init, AnsweredKeepsRecord
<1> QED
  BY <1>1, <1>2, <1>3 DEF IdemInv

(* A request leaves LockOrGet empty-handed: refused, replayed or in error. *)
LEMMA InvTurnedAway ==
  ASSUME IdemInv, NEW r \in Requests, pc[r] \in {"new", "conflict"},
         \/ Reply(r, "error", NoOne)
         \/ record.status # "absent" /\ Refuse(r),
         UNCHANGED <<backend, body, record, gone, age>>
  PROVE  IdemInv'
<1> USE DEF IdemInv
<1>1. PICK kind \in Kinds \ HandlerAnswers, by \in Requests \cup {NoOne} :
         /\ answer' = [answer EXCEPT ![r] = [kind |-> kind, by |-> by]]
         /\ pc' = [pc EXCEPT ![r] = "done"]
         /\ kind = "replay" => \E q \in Requests : /\ by = q
                                                   /\ pc[q] = "done"
                                                   /\ answer[q] = [kind |-> "ok", by |-> q]
                                                   /\ body[q] = body[r]
  <2> DEFINE kinds == Kinds \ HandlerAnswers
  <2>1. {"error", "mismatch", "inProgress", "replay"} \subseteq kinds
    BY DEF Kinds, HandlerAnswers
  <2>2. CASE Reply(r, "error", NoOne) \/ Reply(r, "mismatch", NoOne) \/ Reply(r, "inProgress", NoOne)
    BY <2>1, <2>2 DEF Reply
  <2>3. CASE record.hash = body[r] /\ record.status = "completed" /\ Reply(r, "replay", record.response)
    BY <2>1, <2>3 DEF Reply, CompletedIsAnswered
  <2> QED
    BY <2>2, <2>3 DEF Refuse
<1>2. TypeOK'
  BY <1>1 DEF TypeOK, Kinds, PCs
<1>3. answer \in [Requests -> [kind : Kinds, by : Requests \cup {NoOne}]] /\ pc \in [Requests -> PCs]
  BY DEF TypeOK
<1>4. ServedOwnsRecord' /\ AnswersFit'
  BY <1>1, <1>3 DEF ServedOwnsRecord, AnswersFit, Serving
<1>5. CompletedIsAnswered'
  BY <1>1, <1>3 DEF CompletedIsAnswered
<1>6. ReplaysAreOver'
  <2> SUFFICES ASSUME NEW s \in Requests, answer'[s].kind = "replay"
               PROVE  \E q \in Requests : /\ answer'[s].by = q
                                           /\ pc'[q] = "done"
                                           /\ answer'[q] = [kind |-> "ok", by |-> q]
                                           /\ body[q] = body[s]
    BY DEF ReplaysAreOver
  <2>1. PICK q \in Requests : /\ answer'[s].by = q
                              /\ pc[q] = "done"
                              /\ answer[q] = [kind |-> "ok", by |-> q]
                              /\ body[q] = body[s]
    BY <1>1, <1>3, ZenonT(60) DEF ReplaysAreOver
  <2> QED
    BY <1>1, <1>3, <2>1
<1>7. AnsweredKeepsRecord'
  BY <1>1, <1>3 DEF AnsweredKeepsRecord, HandlerAnswers
<1> QED
  BY <1>2, <1>4, <1>5, <1>6, <1>7

(* A request ends as owner of the record: its outcome is stored, or not.   *)
LEMMA InvPersist ==
  ASSUME IdemInv, NEW r \in Requests, Persist(r) \/ PersistFails(r)
  PROVE  IdemInv'
<1> USE DEF IdemInv
<1>1. /\ pc[r] = "record"
      /\ pc' = [pc EXCEPT ![r] = "done"]
      /\ UNCHANGED <<backend, body, answer, gone, age>>
  BY DEF Persist, PersistFails
<1>2. /\ record.status = "in_progress" /\ record.owner = r /\ record.hash = body[r]
      /\ record.age = age[r]
      /\ answer[r].kind \in HandlerAnswers /\ answer[r].by = r
  BY <1>1 DEF ServedOwnsRecord, AnswersFit, Serving
<1>3. \/ record' = record
      \/ record' = NoRecord /\ answer[r].kind # "ok"
      \/ /\ answer[r] = [kind |-> "ok", by |-> r]
         /\ record' = [record EXCEPT !.status = "completed", !.response = r]
  <2>1. answer[r] = [kind |-> answer[r].kind, by |-> r]
    BY <1>2 DEF TypeOK
  <2> QED
    BY <1>2, <2>1 DEF Persist, PersistFails, Complete, Release, Cacheable
<1>4. TypeOK'
  <2>1. CASE record' = record
    BY <1>1, <2>1 DEF TypeOK, PCs
  <2>2. CASE record' = NoRecord
    BY <1>1, <2>2, IdempotencyAssumption DEF TypeOK, NoRecord, Statuses, PCs, Ages
  <2>3. CASE record' = [record EXCEPT !.status = "completed", !.response = r]
    BY <1>1, <2>3 DEF TypeOK, Statuses, PCs
  <2> QED
    BY <1>3, <2>1, <2>2, <2>3
<1>5. ServedOwnsRecord'
  BY <1>1, <1>2, <1>3, OneServer DEF ServedOwnsRecord, Serving, TypeOK
<1>6. AnswersFit' /\ ReplaysAreOver'
  BY <1>1, ZenonT(60) DEF AnswersFit, ReplaysAreOver, TypeOK
<1>7. CompletedIsAnswered'
  <2>1. CASE record' = record \/ record' = NoRecord
    BY <1>2, <2>1 DEF CompletedIsAnswered, NoRecord
  <2>2. CASE /\ answer[r] = [kind |-> "ok", by |-> r]
             /\ record' = [record EXCEPT !.status = "completed", !.response = r]
    <3>1. record'.response = r /\ record'.hash = body[r] /\ pc'[r] = "done"
      BY <1>1, <1>2, <2>2 DEF TypeOK
    <3> QED
      BY <1>1, <2>2, <3>1 DEF CompletedIsAnswered
  <2> QED
    BY <1>3, <2>1, <2>2
<1>8. AnsweredKeepsRecord'
  <2> SUFFICES ASSUME backend = "postgres" \/ "crash" \notin Faults,
                      NEW s \in Requests, answer[s] = [kind |-> "ok", by |-> s],
                      ~(age[s] >= ReplayTTL)
               PROVE  record'.status # "absent" /\ record'.owner = s /\ record'.age = age[s]
    BY <1>1 DEF AnsweredKeepsRecord
  <2>1. record.owner = s /\ record.age = age[s]
    BY DEF AnsweredKeepsRecord
  <2>2. record' # NoRecord
    <3>1. answer[r].kind = "ok"
      BY <1>2, <2>1
    <3>2. NoRecord.status = "absent"
      BY DEF NoRecord
    <3>3. [record EXCEPT !.status = "completed", !.response = r].status = "completed"
      BY DEF TypeOK
    <3> QED
      BY <1>2, <1>3, <3>1, <3>2, <3>3
  <2>3. CASE record' = record
    BY <1>2, <2>1, <2>3
  <2>4. CASE record' = [record EXCEPT !.status = "completed", !.response = r]
    BY <2>1, <2>4 DEF TypeOK
  <2> QED
    BY <1>3, <2>2, <2>3, <2>4
<1> QED
  BY <1>4, <1>5, <1>6, <1>7, <1>8

(* A request ends without its answer being sealed: the key is given back.  *)
LEMMA InvSealFails ==
  ASSUME IdemInv, NEW r \in Requests, SealFails(r)
  PROVE  IdemInv'
<1> USE DEF IdemInv
<1>1. /\ pc[r] = "record"
      /\ pc' = [pc EXCEPT ![r] = "done"]
      /\ answer' = [answer EXCEPT ![r].kind = "unsealed"]
      /\ answer[r].kind = "ok" /\ answer[r].by = r
      /\ UNCHANGED <<backend, body, gone, age>>
  BY DEF SealFails, Cacheable, AnswersFit
<1>2. record.status = "in_progress" /\ record.owner = r /\ record.age = age[r]
  BY <1>1 DEF ServedOwnsRecord, Serving
<1>3. record' = NoRecord
  BY <1>2 DEF SealFails, Release
<1>4. answer \in [Requests -> [kind : Kinds, by : Requests \cup {NoOne}]] /\ pc \in [Requests -> PCs]
  BY DEF TypeOK
<1>5. /\ answer' \in [Requests -> [kind : Kinds, by : Requests \cup {NoOne}]]
      /\ answer'[r].kind = "unsealed" /\ answer'[r].by = r
      /\ \A q \in Requests \ {r} : answer'[q] = answer[q] /\ pc'[q] = pc[q]
      /\ pc'[r] = "done"
  BY <1>1, <1>4 DEF Kinds
<1>6. TypeOK'
  BY <1>1, <1>3, <1>5, IdempotencyAssumption DEF TypeOK, NoRecord, Statuses, PCs, Ages
<1>7. ServedOwnsRecord'
  BY <1>1, <1>5, OneServer DEF ServedOwnsRecord, Serving
<1>8. AnswersFit'
  BY <1>5 DEF AnswersFit
<1>9. CompletedIsAnswered'
  BY <1>3 DEF CompletedIsAnswered, NoRecord
<1>10. ReplaysAreOver'
  <2> SUFFICES ASSUME NEW s \in Requests, answer'[s].kind = "replay"
               PROVE  \E q \in Requests : /\ answer'[s].by = q
                                           /\ pc'[q] = "done"
                                           /\ answer'[q] = [kind |-> "ok", by |-> q]
                                           /\ body[q] = body[s]
    BY <1>1 DEF ReplaysAreOver
  <2>1. PICK q \in Requests : /\ answer[s].by = q
                              /\ pc[q] = "done"
                              /\ answer[q] = [kind |-> "ok", by |-> q]
                              /\ body[q] = body[s]
    BY <1>5 DEF ReplaysAreOver
  <2>2. q # r /\ s # r
    BY <1>1, <1>5, <2>1
  <2> QED
    BY <1>5, <2>1, <2>2
<1>11. AnsweredKeepsRecord'
  <2> SUFFICES ASSUME backend = "postgres" \/ "crash" \notin Faults,
                      NEW s \in Requests, answer'[s] = [kind |-> "ok", by |-> s]
               PROVE  age[s] >= ReplayTTL
    BY <1>1 DEF AnsweredKeepsRecord
  <2>1. s # r
    BY <1>5
  <2> QED
    BY <1>2, <1>5, <2>1 DEF AnsweredKeepsRecord
<1> QED
  BY <1>6, <1>7, <1>8, <1>9, <1>10, <1>11

(* A request whose lock is lost leaves a record that nobody serves.        *)
LEMMA InvLockIsLost ==
  ASSUME IdemInv, NEW r \in Requests, LockIsLost(r)
  PROVE  IdemInv'
<1> USE DEF IdemInv
<1>1. /\ pc[r] = "new" /\ Free
      /\ record' = Locked(r)
      /\ pc' = [pc EXCEPT ![r] = "done"]
      /\ answer' = [answer EXCEPT ![r] = [kind |-> "error", by |-> NoOne]]
      /\ UNCHANGED <<backend, body, gone, age>>
  BY DEF LockIsLost, Reply
<1>2. answer \in [Requests -> [kind : Kinds, by : Requests \cup {NoOne}]] /\ pc \in [Requests -> PCs]
  BY DEF TypeOK
<1>3. \A q \in Requests : ~Serving(q) /\ ~Serving(q)'
  BY <1>1, <1>2, FreeMeansIdle DEF Serving
<1>4. TypeOK'
  BY <1>1, IdempotencyAssumption DEF TypeOK, Locked, Statuses, PCs, Kinds, Ages
<1>5. ServedOwnsRecord' /\ AnswersFit' /\ CompletedIsAnswered'
  BY <1>1, <1>2, <1>3 DEF ServedOwnsRecord, AnswersFit, CompletedIsAnswered, Locked
<1>6. ReplaysAreOver'
  BY <1>1, <1>2, ZenonT(60) DEF ReplaysAreOver
<1>7. AnsweredKeepsRecord'
  BY <1>1, <1>2, IdempotencyAssumption DEF AnsweredKeepsRecord, TypeOK, Free, Expired, Ages
<1> QED
  BY <1>4, <1>5, <1>6, <1>7

(* The steps that take the key or run the handler. *)
LEMMA InvServe ==
  ASSUME IdemInv, NEW r \in Requests, TakeKey(r) \/ Handle(r) \/ HandlerPanics(r)
  PROVE  IdemInv'
<1> USE DEF IdemInv
<1>1. CASE TakeKey(r)
  <2>1. \A q \in Requests : ~Serving(q)
    BY <1>1, FreeMeansIdle DEF TakeKey
  <2>2. TypeOK'
    BY <1>1, IdempotencyAssumption DEF TakeKey, Locked, TypeOK, Statuses, PCs, Ages
  <2>3. ServedOwnsRecord' /\ AnswersFit'
    BY <1>1, <2>1, IdempotencyAssumption DEF TakeKey, Locked, ServedOwnsRecord, AnswersFit, Serving, TypeOK
  <2>4. CompletedIsAnswered' /\ ReplaysAreOver'
    BY <1>1, ZenonT(60) DEF TakeKey, Locked, CompletedIsAnswered, ReplaysAreOver, TypeOK
  <2>5. AnsweredKeepsRecord'
    <3>1. answer[r].kind = "none"
      BY <1>1 DEF TakeKey, AnswersFit
    <3> QED
      BY <1>1, <3>1, IdempotencyAssumption
      DEF TakeKey, Locked, AnsweredKeepsRecord, TypeOK, Free, Expired, Ages
  <2> QED
    BY <2>2, <2>3, <2>4, <2>5
<1>2. CASE Handle(r) \/ HandlerPanics(r)
  <2>1. PICK kind \in HandlerAnswers :
          /\ pc[r] = "handler"
          /\ pc' = [pc EXCEPT ![r] = "record"]
          /\ answer' = [answer EXCEPT ![r] = [kind |-> kind, by |-> r]]
          /\ UNCHANGED <<backend, body, record, gone, age>>
    BY <1>2 DEF Handle, HandlerPanics, HandlerAnswers
  <2>2. TypeOK'
    BY <2>1 DEF TypeOK, PCs, Kinds
  <2>3. ServedOwnsRecord' /\ AnswersFit'
    BY <2>1 DEF ServedOwnsRecord, AnswersFit, Serving, TypeOK, HandlerAnswers
  <2>4. CompletedIsAnswered' /\ ReplaysAreOver'
    BY <2>1, ZenonT(60) DEF CompletedIsAnswered, ReplaysAreOver, TypeOK, HandlerAnswers
  <2>5. AnsweredKeepsRecord'
    <3>1. record.status # "absent" /\ record.owner = r /\ record.age = age[r]
      BY <2>1 DEF ServedOwnsRecord, Serving
    <3> QED
      BY <2>1, <3>1 DEF AnsweredKeepsRecord, TypeOK
  <2> QED
    BY <2>2, <2>3, <2>4, <2>5
<1> QED
  BY <1>1, <1>2

(* A step that moves no request between the stages the invariant is about. *)
LEMMA InvQuiet ==
  ASSUME IdemInv, gone' \subseteq Requests, UNCHANGED <<backend, body, record, answer, age>>,
         \/ pc' = pc
         \/ \E r \in Requests : pc[r] = "new" /\ pc' = [pc EXCEPT ![r] = "conflict"]
  PROVE  IdemInv'
<1> USE DEF IdemInv
<1>1. TypeOK'
  BY DEF TypeOK, PCs
<1>2. \A r \in Requests : /\ Serving(r)' <=> Serving(r)
                          /\ pc'[r] # pc[r] => pc[r] = "new" /\ pc'[r] = "conflict"
  BY DEF TypeOK, Serving
<1>3. ServedOwnsRecord'
  BY <1>2 DEF ServedOwnsRecord
<1>4. AnswersFit'
  BY <1>2 DEF AnswersFit
<1>5. CompletedIsAnswered'
  BY <1>2 DEF CompletedIsAnswered
<1>6. ReplaysAreOver'
  <2>1. \A q \in Requests : pc[q] = "done" => pc'[q] = "done"
    BY <1>2
  <2>2. answer' = answer /\ body' = body /\ ReplaysAreOver
    OBVIOUS
  <2> HIDE DEF IdemInv
  <2> QED
    BY ONLY <2>1, <2>2 DEF ReplaysAreOver
<1>7. AnsweredKeepsRecord'
  BY DEF AnsweredKeepsRecord
<1> QED
  BY <1>1, <1>3, <1>4, <1>5, <1>6, <1>7

(* The steps of the environment. *)
LEMMA InvEnvironment ==
  ASSUME IdemInv,
         Crash \/ CleanupStale \/ Tick
  PROVE  IdemInv'
<1> USE DEF IdemInv
<1>1. CASE Crash
  <2>1. TypeOK'
    BY <1>1, IdempotencyAssumption DEF Crash, TypeOK, NoRecord, Statuses, PCs, Kinds, Ages
  <2>2. \A r \in Requests : ~Serving(r)'
    BY <1>1 DEF Crash, Serving
  <2>3. ServedOwnsRecord' /\ AnswersFit'
    BY <1>1, <2>2 DEF Crash, TypeOK, ServedOwnsRecord, AnswersFit
  <2>4. \A q \in Requests : pc[q] = "done" => pc'[q] = "done" /\ answer'[q] = answer[q]
    BY <1>1 DEF Crash
  <2>5. CompletedIsAnswered'
    BY <1>1, <2>4 DEF Crash, CompletedIsAnswered, NoRecord
  <2>6. ReplaysAreOver'
    BY <1>1, <2>4 DEF Crash, ReplaysAreOver
  <2>7. AnsweredKeepsRecord'
    BY <1>1 DEF Crash, AnsweredKeepsRecord
  <2> QED
    BY <2>1, <2>3, <2>5, <2>6, <2>7
<1>2. CASE CleanupStale
  <2>1. \A r \in Requests : ~Serving(r)
    BY <1>2, FreeMeansIdle DEF CleanupStale, Free
  <2>2. TypeOK' /\ ServedOwnsRecord' /\ AnswersFit'
    BY <1>2, <2>1, IdempotencyAssumption
    DEF CleanupStale, TypeOK, NoRecord, Statuses, Ages, ServedOwnsRecord, Serving, AnswersFit
  <2>3. CompletedIsAnswered' /\ ReplaysAreOver'
    BY <1>2 DEF CleanupStale, NoRecord, CompletedIsAnswered, ReplaysAreOver
  <2>4. AnsweredKeepsRecord'
    BY <1>2, IdempotencyAssumption DEF CleanupStale, Expired, TypeOK, Ages, AnsweredKeepsRecord
  <2> QED
    BY <2>2, <2>3, <2>4
<1>3. CASE Tick
  <2>1. \A n \in Ages : Older(n) \in Ages /\ Older(n) >= n /\ (n <= MaxHandler => Older(n) = n + 1)
    BY IdempotencyAssumption DEF Ages, Older
  <2>2. UNCHANGED <<backend, body, pc, answer, gone>>
    BY <1>3 DEF Tick
  <2>3. \A r \in Requests : /\ age'[r] = IF Serving(r) \/ answer[r].by = r THEN Older(age[r]) ELSE age[r]
                            /\ Serving(r) => age[r] < MaxHandler
    BY <1>3 DEF Tick
  <2>4. record.status = "absent" => record' = record
    BY <1>3 DEF Tick
  <2>5. record.status # "absent" => record' = [record EXCEPT !.age = Older(record.age)]
    BY <1>3 DEF Tick
  <2>6. TypeOK'
    BY <1>3, <2>1, <2>2, <2>4, <2>5 DEF Tick, TypeOK
  <2>7. ServedOwnsRecord'
    BY <2>1, <2>2, <2>3, <2>5, IdempotencyAssumption DEF ServedOwnsRecord, Serving, TypeOK, Ages
  <2>8. AnswersFit' /\ ReplaysAreOver'
    BY <2>2 DEF AnswersFit, ReplaysAreOver
  <2>9. CompletedIsAnswered'
    BY <2>2, <2>4, <2>5 DEF CompletedIsAnswered, TypeOK
  <2>10. AnsweredKeepsRecord'
    BY <2>1, <2>2, <2>3, <2>5, IdempotencyAssumption DEF AnsweredKeepsRecord, TypeOK, Ages
  <2> QED
    BY <2>6, <2>7, <2>8, <2>9, <2>10
<1> QED
  BY <1>1, <1>2, <1>3

LEMMA InvNext == IdemInv /\ [Next]_vars => IdemInv'
<1> SUFFICES ASSUME IdemInv, [Next]_vars PROVE IdemInv'
  OBVIOUS
<1>1. ASSUME NEW r \in Requests, FindKey(r) \/ SelectExisting(r) \/ LockOrGetFails(r)
      PROVE  IdemInv'
  <2>1. \/ Reply(r, "error", NoOne)
        \/ record.status # "absent" /\ Refuse(r)
    BY <1>1 DEF FindKey, SelectExisting, LockOrGetFails, Free
  <2>2. pc[r] \in {"new", "conflict"} /\ UNCHANGED <<backend, body, record, gone, age>>
    BY <1>1 DEF FindKey, SelectExisting, LockOrGetFails
  <2> QED
    BY <2>1, <2>2, InvTurnedAway
<1>2. ASSUME \/ UNCHANGED vars
             \/ \E r \in Requests : Disconnect(r) \/ UpsertConflict(r)
      PROVE  IdemInv'
  <2>1. gone \subseteq Requests
    BY DEF IdemInv, TypeOK
  <2> QED
    BY <1>2, <2>1, InvQuiet DEF Disconnect, UpsertConflict, vars
<1> QED
  BY <1>1, <1>2, InvServe, InvPersist, InvSealFails, InvLockIsLost, InvEnvironment DEF Next, Serve

(* IdemInv holds in every reachable state. *)
THEOREM IdempotencySafe == Spec => []IdemInv
<1> QED
  BY InvInit, InvNext, PTL DEF Spec

(* The variables keep their types. *)
THEOREM TypeCorrect == Spec => []TypeOK
<1>1. IdemInv => TypeOK
  BY DEF IdemInv
<1> QED
  BY <1>1, IdempotencySafe, PTL

(* The record under the key is the one the request being served made, so   *)
(* Complete and Release, which name only the key, touch the right record.  *)
THEOREM ServedOwns == Spec => []ServedOwnsRecord
<1>1. IdemInv => ServedOwnsRecord
  BY DEF IdemInv
<1> QED
  BY <1>1, IdempotencySafe, PTL

(* Two handlers never run under one key. *)
THEOREM MutualExclusion == Spec => []OneHandlerAtATime
<1>1. IdemInv => OneHandlerAtATime
  BY OneServer DEF IdemInv, OneHandlerAtATime
<1> QED
  BY <1>1, IdempotencySafe, PTL

(* A replay is the cacheable answer of a request with the same payload. *)
THEOREM ReplaysAreHonest == Spec => []ReplayIsOriginal
<1>1. IdemInv => ReplayIsOriginal
  BY DEF IdemInv, ReplaysAreOver, ReplayIsOriginal
<1> QED
  BY <1>1, IdempotencySafe, PTL

(* A handler that answered is the last to start for a whole ReplayTTL. *)
THEOREM AtMostOnce == Spec => AtMostOncePerTTL
<1> DEFINE Durable == backend = "postgres" \/ "crash" \notin Faults
           Once == \A q \in Requests : (pc[q] = "new" /\ pc'[q] = "handler") =>
                     \A r \in Requests : answer[r] = [kind |-> "ok", by |-> r] => age[r] >= ReplayTTL
<1>1. IdemInv /\ [Next]_vars => [Durable => Once]_vars
  <2> SUFFICES ASSUME IdemInv, Next, Durable,
                      NEW q \in Requests, pc[q] = "new", pc'[q] = "handler",
                      NEW r \in Requests, answer[r] = [kind |-> "ok", by |-> r]
               PROVE  age[r] >= ReplayTTL
    OBVIOUS
  <2>1. pc \in [Requests -> PCs] /\ record.age \in Ages /\ age[r] \in Ages
    BY DEF IdemInv, TypeOK
  <2>2. TakeKey(q)
    <3>1. CASE \E s \in Requests : Serve(s) \/ Disconnect(s)
      BY <2>1, <3>1 DEF Serve, Reply, Refuse, TakeKey, FindKey, UpsertConflict, SelectExisting,
         LockOrGetFails, LockIsLost, Handle, HandlerPanics, Persist, SealFails, PersistFails, Disconnect
    <3>2. CASE Crash \/ CleanupStale \/ Tick
      BY <3>2 DEF Crash, CleanupStale, Tick
    <3> QED
      BY <3>1, <3>2 DEF Next
  <2>3. \/ age[r] >= ReplayTTL
        \/ record.status # "absent" /\ record.age = age[r]
    BY DEF IdemInv, AnsweredKeepsRecord
  <2> QED
    BY <2>1, <2>2, <2>3, IdempotencyAssumption DEF TakeKey, Free, Expired, Ages
<1> QED
  BY <1>1, IdempotencySafe, PTL DEF Spec, AtMostOncePerTTL

-----------------------------------------------------------------------------
(* With the memory store an in-progress record has its owner at work: no   *)
(* statement of that store fails, and a crash takes the record with it.    *)
MemoryInv ==
  backend = "memory" /\ record.status = "in_progress" => Serving(record.owner)

LEMMA MemoryInvNext == IdemInv /\ MemoryInv /\ [Next]_vars => MemoryInv'
<1> SUFFICES ASSUME IdemInv, MemoryInv, [Next]_vars,
                    backend' = "memory", record'.status = "in_progress"
             PROVE  Serving(record.owner)'
  BY DEF MemoryInv
<1>1. TypeOK /\ ServedOwnsRecord
  BY DEF IdemInv
<1>2. backend = "memory"
  BY DEF vars, Next, Serve, TakeKey, FindKey, UpsertConflict, SelectExisting, LockOrGetFails,
     LockIsLost, Handle, HandlerPanics, Persist, SealFails, PersistFails, Disconnect, Crash,
     CleanupStale, Tick
<1>3. ASSUME NEW r \in Requests, TakeKey(r) PROVE Serving(record.owner)'
  BY <1>1, <1>3 DEF TakeKey, Locked, Serving, TypeOK
<1>4. ASSUME NEW r \in Requests, FindKey(r) \/ SelectExisting(r) \/ LockOrGetFails(r)
      PROVE  Serving(record.owner)'
  <2>1. pc[r] \in {"new", "conflict"} /\ pc' = [pc EXCEPT ![r] = "done"] /\ record' = record
    BY <1>4 DEF FindKey, SelectExisting, LockOrGetFails, Refuse, Reply
  <2> QED
    BY <1>1, <1>2, <2>1 DEF MemoryInv, Serving, TypeOK
<1>5. ASSUME NEW r \in Requests, Handle(r) \/ HandlerPanics(r) PROVE Serving(record.owner)'
  <2>1. pc' = [pc EXCEPT ![r] = "record"] /\ record' = record
    BY <1>5 DEF Handle, HandlerPanics
  <2> QED
    BY <1>1, <1>2, <2>1 DEF MemoryInv, Serving, TypeOK
<1>6. ASSUME NEW r \in Requests, Persist(r) PROVE FALSE
  <2>1. record.status = "in_progress"
    BY <1>1, <1>6 DEF Persist, ServedOwnsRecord, Serving
  <2>2. CASE record' = [record EXCEPT !.status = "completed", !.response = r]
    BY <1>1, <2>2 DEF TypeOK
  <2>3. CASE record' = NoRecord
    BY <2>3 DEF NoRecord
  <2> QED
    BY <1>6, <2>1, <2>2, <2>3 DEF Persist, Complete, Release
<1>7. ASSUME NEW r \in Requests, PersistFails(r) \/ LockIsLost(r) PROVE FALSE
  BY <1>2, <1>7 DEF PersistFails, LockIsLost, StoreMayFail
<1>10. ASSUME NEW r \in Requests, SealFails(r) PROVE FALSE
  <2>1. record.status = "in_progress"
    BY <1>1, <1>10 DEF SealFails, ServedOwnsRecord, Serving
  <2> QED
    BY <1>10, <2>1 DEF SealFails, Release, NoRecord
<1>8. CASE Crash \/ CleanupStale
  BY <1>2, <1>8 DEF Crash, CleanupStale, NoRecord
<1>9. ASSUME \/ UNCHANGED vars \/ Tick
             \/ \E r \in Requests : UpsertConflict(r) \/ Disconnect(r)
      PROVE  Serving(record.owner)'
  <2>1. record'.status = record.status /\ record'.owner = record.owner /\ pc' = pc
    BY <1>1, <1>2, <1>9 DEF vars, Tick, UpsertConflict, Disconnect, TypeOK
  <2> QED
    BY <1>2, <2>1 DEF MemoryInv, Serving
<1> QED
  BY <1>3, <1>4, <1>5, <1>6, <1>7, <1>8, <1>9, <1>10 DEF Next, Serve

(* With the memory store, a client that is told its request is in progress *)
(* is told the truth, whatever faults hit the request that holds the key.  *)
THEOREM InProgressIsTrue == Spec => []MemoryKeyIsServed
<1>1. Init => MemoryInv
  BY DEF Init, NoRecord, MemoryInv
<1>2. MemoryInv => MemoryKeyIsServed
  BY DEF MemoryInv, MemoryKeyIsServed, InProgressMeansServing
<1> QED
  BY <1>1, <1>2, MemoryInvNext, IdempotencySafe, PTL DEF Spec

-----------------------------------------------------------------------------
(* Refinement: each step of the middleware is a step of the contract. *)

LEMMA RefineInit == Init => Contract!ContractInit
BY DEF Init, NoRecord, Serving, Contract!ContractInit

(* A request that leaves LockOrGet empty-handed. *)
LEMMA RefineTurnedAway ==
  ASSUME IdemInv, NEW r \in Requests, pc[r] \in {"new", "conflict"},
         \/ Reply(r, "error", NoOne)
         \/ record.status # "absent" /\ Refuse(r),
         UNCHANGED record
  PROVE  Contract!Replay(r) \/ UNCHANGED Contract!cvars
<1> DEFINE by(q) == IF answer[q].kind = "replay" THEN answer[q].by ELSE NoOne
<1>1. pc \in [Requests -> PCs] /\ answer \in [Requests -> [kind : Kinds, by : Requests \cup {NoOne}]]
  BY DEF IdemInv, TypeOK
<1>2. answer[r].kind = "none"
  BY DEF IdemInv, AnswersFit
<1>3. (pc' = [pc EXCEPT ![r] = "done"]) => \A q \in Requests : Serving(q)' <=> Serving(q)
  BY <1>1 DEF Serving
<1>4. CASE Reply(r, "error", NoOne) \/ Reply(r, "mismatch", NoOne) \/ Reply(r, "inProgress", NoOne)
  <2>1. \A q \in Requests : by(q)' = by(q)
    BY <1>1, <1>2, <1>4 DEF Reply
  <2> QED
    BY <1>3, <1>4, <2>1 DEF Reply, Contract!cvars
<1>5. CASE record.status = "completed" /\ Reply(r, "replay", record.response)
  <2>1. \A q \in Requests : by(q)' = IF q = r THEN record.response ELSE by(q)
    BY <1>1, <1>5 DEF Reply
  <2>2. record.response \in Requests /\ record.response # NoOne
    BY <1>5, IdempotencyAssumption DEF IdemInv, CompletedIsAnswered
  <2> QED
    BY <1>3, <1>5, <2>1, <2>2 DEF Reply, Contract!Replay
<1> QED
  BY <1>4, <1>5 DEF Refuse

LEMMA RefineNext == IdemInv /\ [Next]_vars => [Contract!ContractNext]_(Contract!cvars)
<1> SUFFICES ASSUME IdemInv, [Next]_vars
             PROVE  Contract!ContractNext \/ UNCHANGED Contract!cvars
  OBVIOUS
<1> DEFINE by(q) == IF answer[q].kind = "replay" THEN answer[q].by ELSE NoOne
           serving == {q \in Requests : Serving(q)}
<1>1. /\ TypeOK /\ ServedOwnsRecord /\ AnswersFit
      /\ pc \in [Requests -> PCs] /\ answer \in [Requests -> [kind : Kinds, by : Requests \cup {NoOne}]]
  BY DEF IdemInv, TypeOK
<1>2. ASSUME NEW r \in Requests, TakeKey(r) PROVE Contract!Start(r)
  <2>1. \A q \in Requests : ~Serving(q)
    BY <1>1, <1>2, FreeMeansIdle DEF TakeKey
  <2>2. \A q \in Requests : Serving(q)' <=> q = r
    BY <1>1, <1>2, <2>1 DEF TakeKey, Serving
  <2> QED
    BY <1>2, <2>1, <2>2 DEF TakeKey, Locked, Contract!Start
<1>9. ASSUME NEW r \in Requests, LockIsLost(r) PROVE Contract!Strand(r)
  <2>1. pc[r] = "new" /\ Free /\ record' = Locked(r) /\ Reply(r, "error", NoOne)
    BY <1>9 DEF LockIsLost
  <2>2. serving = {} /\ serving' = {}
    BY <1>1, <2>1, FreeMeansIdle DEF Reply, Serving
  <2>3. \A q \in Requests : by(q)' = by(q)
    BY <1>1, <2>1 DEF Reply, AnswersFit
  <2> QED
    BY <2>1, <2>2, <2>3 DEF Locked, Contract!Strand
<1>10. ASSUME NEW r \in Requests, SealFails(r) PROVE Contract!Stop(r)
  <2>1. /\ pc[r] = "record" /\ pc' = [pc EXCEPT ![r] = "done"]
        /\ answer' = [answer EXCEPT ![r].kind = "unsealed"] /\ answer[r].kind = "ok"
    BY <1>10 DEF SealFails, Cacheable
  <2>2. serving = {r} /\ serving' = {}
    BY <1>1, <2>1, OneServer DEF Serving
  <2>3. record' = NoRecord
    BY <1>1, <1>10, <2>1 DEF SealFails, Release, ServedOwnsRecord, Serving
  <2>4. \A q \in Requests : by(q)' = by(q)
    BY <1>1, <2>1
  <2> QED
    BY <2>2, <2>3, <2>4 DEF NoRecord, Contract!Stop
<1>3. ASSUME NEW r \in Requests, FindKey(r) \/ SelectExisting(r) \/ LockOrGetFails(r)
      PROVE  Contract!Replay(r) \/ UNCHANGED Contract!cvars
  <2>1. \/ Reply(r, "error", NoOne)
        \/ record.status # "absent" /\ Refuse(r)
    BY <1>3 DEF FindKey, SelectExisting, LockOrGetFails, Free
  <2>2. pc[r] \in {"new", "conflict"} /\ UNCHANGED record
    BY <1>3 DEF FindKey, SelectExisting, LockOrGetFails
  <2> QED
    BY <2>1, <2>2, RefineTurnedAway
<1>4. ASSUME NEW r \in Requests, Handle(r) \/ HandlerPanics(r) PROVE UNCHANGED Contract!cvars
  <2>1. PICK kind \in HandlerAnswers :
          /\ pc[r] = "handler"
          /\ pc' = [pc EXCEPT ![r] = "record"]
          /\ answer' = [answer EXCEPT ![r] = [kind |-> kind, by |-> r]]
          /\ record' = record
    BY <1>4 DEF Handle, HandlerPanics, HandlerAnswers
  <2>2. \A q \in Requests : Serving(q)' <=> Serving(q)
    BY <1>1, <2>1 DEF Serving
  <2>3. \A q \in Requests : by(q)' = by(q)
    BY <1>1, <2>1 DEF HandlerAnswers, AnswersFit
  <2> QED
    BY <2>1, <2>2, <2>3 DEF Contract!cvars
<1>5. ASSUME NEW r \in Requests, Persist(r) \/ PersistFails(r) PROVE Contract!Stop(r)
  <2>1. pc[r] = "record" /\ pc' = [pc EXCEPT ![r] = "done"] /\ answer' = answer
    BY <1>5 DEF Persist, PersistFails
  <2>2. serving = {r} /\ serving' = {}
    BY <1>1, <2>1, OneServer DEF Serving
  <2>3. record.status = "in_progress" /\ record.owner = r
    BY <1>1, <2>1 DEF ServedOwnsRecord, Serving
  <2>4. \/ record'.status = "in_progress" /\ record'.owner = r
        \/ record'.status = "completed" /\ record'.response = r
        \/ record'.status = "absent"
    <3>1. CASE record' = record \/ record' = NoRecord
      BY <2>3, <3>1 DEF NoRecord
    <3>2. CASE record' = [record EXCEPT !.status = "completed", !.response = r]
      BY <1>1, <3>2 DEF TypeOK
    <3> QED
      BY <1>5, <2>3, <3>1, <3>2 DEF Persist, PersistFails, Complete, Release
  <2> QED
    BY <2>1, <2>2, <2>4 DEF Contract!Stop
<1>6. CASE Crash
  <2>1. serving' = {}
    BY <1>6 DEF Crash, Serving
  <2>2. \A q \in Requests : by(q)' = by(q)
    BY <1>1, <1>6 DEF Crash, AnswersFit
  <2>3. CASE \E r \in Requests : Serving(r)
    <3>1. PICK r \in Requests : Serving(r)
      BY <2>3
    <3>2. serving = {r} /\ record.status = "in_progress" /\ record.owner = r
      BY <1>1, <3>1, OneServer DEF ServedOwnsRecord
    <3>3. record' = record \/ record'.status = "absent"
      BY <1>6 DEF Crash, NoRecord
    <3> QED
      BY <2>1, <2>2, <3>2, <3>3 DEF Contract!Stop, Contract!ContractNext
  <2>4. CASE ~ \E r \in Requests : Serving(r)
    <3>1. record' = record \/ record'.status = "absent"
      BY <1>6 DEF Crash, NoRecord
    <3> QED
      BY <2>1, <2>2, <2>4, <3>1 DEF Contract!Forget, Contract!ContractNext, Contract!cvars
  <2> QED
    BY <2>3, <2>4
<1>7. CASE CleanupStale
  <2>1. \A q \in Requests : ~Serving(q)
    BY <1>1, <1>7, FreeMeansIdle DEF CleanupStale, Free
  <2> QED
    BY <1>7, <2>1 DEF CleanupStale, NoRecord, Serving, Contract!Forget, Contract!ContractNext
<1>8. ASSUME \/ UNCHANGED vars \/ Tick
             \/ \E r \in Requests : UpsertConflict(r) \/ Disconnect(r)
      PROVE  UNCHANGED Contract!cvars
  <2>1. \A q \in Requests : Serving(q)' <=> Serving(q)
    BY <1>1, <1>8 DEF vars, Tick, UpsertConflict, Disconnect, Serving
  <2>2. record'.status = record.status /\ record'.owner = record.owner
        /\ record'.response = record.response /\ answer' = answer
    BY <1>1, <1>8 DEF vars, Tick, UpsertConflict, Disconnect, TypeOK
  <2> QED
    BY <2>1, <2>2 DEF Contract!cvars
<1> QED
  BY <1>2, <1>3, <1>4, <1>5, <1>6, <1>7, <1>8, <1>9, <1>10 DEF Next, Serve, Contract!ContractNext

(* The middleware over either store implements the contract of one key. *)
THEOREM Refinement == Spec => ImplementsContract
<1> QED
  BY RefineInit, RefineNext, IdempotencySafe, PTL
  DEF Spec, ImplementsContract, Contract!ContractSpec
=============================================================================
