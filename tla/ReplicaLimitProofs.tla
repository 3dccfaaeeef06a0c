------------------------- MODULE ReplicaLimitProofs -------------------------
(***************************************************************************)
(* What a replica limits requests with in its own memory: PlanCache, the   *)
(* limits the middleware remembers, for every pair of organizations, keys  *)
(* and calls, every TTL and every delay; and TokenBucket, the limiter it   *)
(* falls back on, for every number of calls, set of limits and period.     *)
(***************************************************************************)
EXTENDS PlanCache, TokenBucket, TLAPS


(* A lookup for a member keeps "oidc" as its key from beginning to end, and *)
(* its inner lookup began later.  The two stores of the code know their    *)
(* key.                                                                    *)
LookupsNested ==
  \A c \in Calls :
    /\ call[c].pc \in {"resolve", "storeOidc"} => call[c].key = "oidc"
    /\ call[c].key = "oidc" => call[c].inner <= call[c].outer

(* What the database said has not been wrong for longer than the lookup    *)
(* that asked it is under way; what the organization's entry said may have *)
(* been wrong for almost a lifetime before.                                *)
FoundIsRecent ==
  \A c \in Calls :
    /\ call[c].pc = "storeOrg" => call[c].off <= call[c].inner
    /\ call[c].pc = "storeOidc" => call[c].off <= call[c].outer + TTL - 1

(* The longer an entry has been wrong, the less it has left: together they *)
(* never exceed one lifetime, or almost two for a member's entry.          *)
EntriesExpire ==
  /\ Live("org") => wrong["org"] + entry["org"].left <= TTL
  /\ Live("oidc") => wrong["oidc"] + entry["oidc"].left <= 2 * TTL - 1

AnswersBounded == \A c \in Calls : used[c] <= 2 * TTL - 1

CacheInv ==
  /\ TypeOK
  /\ LookupsNested
  /\ FoundIsRecent
  /\ EntriesExpire
  /\ AnswersBounded

-----------------------------------------------------------------------------
LookupType == [pc : PCs, key : Keys, outer : 0 .. MaxQuery, inner : 0 .. MaxQuery,
               found : Plans, off : Nat]

LEMMA CacheInit == Init => CacheInv
BY PlanAssumption
DEF Init, CacheInv, TypeOK, LookupsNested, FoundIsRecent, EntriesExpire, AnswersBounded,
    Idle, Lookup, Live, Keys, PCs

(* Of a step that changes the lookup of one goroutine, answers or not, and *)
(* leaves the cache alone, only that lookup and its answer need a proof.   *)
LEMMA OneLookup ==
  ASSUME CacheInv, NEW c \in Calls, NEW l \in LookupType, NEW off \in Nat,
         call' = [call EXCEPT ![c] = l],
         used' = [used EXCEPT ![c] = off],
         off <= 2 * TTL - 1,
         UNCHANGED plan,
         l.pc \in {"resolve", "storeOidc"} => l.key = "oidc",
         l.key = "oidc" => l.inner <= l.outer,
         l.pc = "storeOrg" => l.off <= l.inner,
         l.pc = "storeOidc" => l.off <= l.outer + TTL - 1,
         entry' \in [Keys -> [plan : Plans, left : 0 .. TTL]],
         wrong' \in [Keys -> Nat],
         EntriesExpire'
  PROVE  CacheInv'
<1>1. call \in [Calls -> LookupType] /\ used \in [Calls -> Nat] /\ plan \in Plans
  BY DEF CacheInv, TypeOK, LookupType
<1>2. call' \in [Calls -> LookupType] /\ used' \in [Calls -> Nat]
  BY <1>1
<1>3. TypeOK'
  BY <1>1, <1>2 DEF TypeOK, LookupType
<1>4. \A d \in Calls : call'[d] = (IF d = c THEN l ELSE call[d])
  BY <1>1
<1>5. LookupsNested'
  BY <1>4 DEF CacheInv, LookupsNested
<1>6. FoundIsRecent'
  BY <1>4 DEF CacheInv, FoundIsRecent
<1>7. AnswersBounded'
  BY <1>1 DEF CacheInv, AnswersBounded
<1> QED
  BY <1>3, <1>5, <1>6, <1>7 DEF CacheInv

(* A lookup, its fields, and an answer that is not given. *)
LEMMA LookupFields ==
  ASSUME CacheInv, NEW c \in Calls
  PROVE  /\ call[c] \in LookupType
         /\ used[c] \in Nat /\ used[c] <= 2 * TTL - 1
         /\ used = [used EXCEPT ![c] = used[c]]
         /\ plan \in Plans
         /\ \A k \in Keys : wrong[k] \in Nat /\ entry[k].left \in 0 .. TTL /\ entry[k].plan \in Plans
         /\ entry \in [Keys -> [plan : Plans, left : 0 .. TTL]]
         /\ wrong \in [Keys -> Nat]
BY DEF CacheInv, TypeOK, LookupType, AnswersBounded

LEMMA LookupTyped ==
  ASSUME NEW stage \in PCs, NEW key \in Keys, NEW outer \in 0 .. MaxQuery,
         NEW inner \in 0 .. MaxQuery, NEW found \in Plans, NEW off \in Nat
  PROVE  Lookup(stage, key, outer, inner, found, off) \in LookupType
BY DEF Lookup, LookupType

LEMMA IdleTyped == Idle \in LookupType /\ Idle.pc = "idle" /\ Idle.key = "org"
BY PlanAssumption DEF Idle, Lookup, LookupType, PCs, Keys

LEMMA EntriesKept == CacheInv /\ UNCHANGED <<entry, wrong>> => EntriesExpire'
BY DEF CacheInv, EntriesExpire, Live

-----------------------------------------------------------------------------
LEMMA InvAnswer ==
  ASSUME CacheInv, NEW c \in Calls, NEW off \in Nat, off <= 2 * TTL - 1,
         Answer(c, off), UNCHANGED <<plan, entry, wrong>>
  PROVE  CacheInv'
BY OneLookup, LookupFields, IdleTyped, EntriesKept DEF Answer

LEMMA InvArrive ==
  ASSUME CacheInv, NEW c \in Calls, NEW k \in Keys, Arrive(c, k)
  PROVE  CacheInv'
<1>1. CASE Live(k)
  <2>1. wrong[k] \in Nat /\ wrong[k] <= 2 * TTL - 1
    BY <1>1, LookupFields, PlanAssumption DEF CacheInv, EntriesExpire, Live, Keys
  <2> QED
    BY <1>1, <2>1, InvAnswer DEF Arrive
<1>2. CASE ~Live(k)
  <2> DEFINE l == Lookup(IF k = "org" THEN "query" ELSE "resolve", k, 0, 0, Default, 0)
  <2>1. l \in LookupType
    BY PlanAssumption DEF Lookup, LookupType, PCs, Keys
  <2>2. l.pc \notin {"storeOrg", "storeOidc"} /\ l.inner <= l.outer
        /\ (l.pc = "resolve" => l.key = "oidc")
    BY DEF Lookup, Keys
  <2>3. call' = [call EXCEPT ![c] = l] /\ used' = used
    BY <1>2 DEF Arrive
  <2> QED
    BY <2>1, <2>2, <2>3, OneLookup, LookupFields, EntriesKept DEF Arrive
<1> QED
  BY <1>1, <1>2

LEMMA InvResolve ==
  ASSUME CacheInv, NEW c \in Calls, Resolve(c)
  PROVE  CacheInv'
<1>1. call[c].outer \in 0 .. MaxQuery
  BY LookupFields DEF LookupType
<1>2. CASE Live("org")
  <2> DEFINE l == Lookup("storeOidc", "oidc", call[c].outer, 0, entry["org"].plan, wrong["org"])
  <2>1. wrong["org"] \in Nat /\ wrong["org"] <= TTL - 1
    BY <1>2, LookupFields, PlanAssumption DEF CacheInv, EntriesExpire, Live, Keys
  <2>2. l \in LookupType
    BY <1>1, <2>1, LookupFields, PlanAssumption DEF Lookup, LookupType, PCs, Keys
  <2>3. /\ l.pc = "storeOidc" /\ l.key = "oidc" /\ l.inner <= l.outer
        /\ l.off <= l.outer + TTL - 1
    BY <1>1, <2>1, PlanAssumption DEF Lookup
  <2>4. call' = [call EXCEPT ![c] = l] /\ used' = used
    BY <1>2 DEF Resolve
  <2>5. UNCHANGED <<plan, entry, wrong>> /\ EntriesExpire'
    BY EntriesKept DEF Resolve
  <2> HIDE DEF l
  <2> QED
    BY <2>2, <2>3, <2>4, <2>5, OneLookup, LookupFields
<1>3. CASE ~Live("org")
  <2> DEFINE l == Lookup("query", "oidc", call[c].outer, 0, Default, 0)
  <2>1. l \in LookupType
    BY <1>1, PlanAssumption DEF Lookup, LookupType, PCs, Keys
  <2>2. l.pc = "query" /\ l.inner <= l.outer
    BY <1>1, PlanAssumption DEF Lookup
  <2>3. call' = [call EXCEPT ![c] = l] /\ used' = used
    BY <1>3 DEF Resolve
  <2>4. UNCHANGED <<plan, entry, wrong>> /\ EntriesExpire'
    BY EntriesKept DEF Resolve
  <2> HIDE DEF l
  <2> QED
    BY <2>1, <2>2, <2>3, <2>4, OneLookup, LookupFields
<1> QED
  BY <1>2, <1>3

LEMMA InvQuery ==
  ASSUME CacheInv, NEW c \in Calls, Query(c)
  PROVE  CacheInv'
<1>1. PICK p \in {plan} \cup (IF "dberror" \in Faults THEN {Default} ELSE {}) :
        call' = [call EXCEPT ![c] =
                   Lookup("storeOrg", call[c].key, call[c].outer, call[c].inner, p, 0)]
  BY DEF Query
<1> DEFINE l == Lookup("storeOrg", call[c].key, call[c].outer, call[c].inner, p, 0)
<1>2. p \in Plans
  BY LookupFields, PlanAssumption
<1>3. call[c] \in LookupType /\ (call[c].key = "oidc" => call[c].inner <= call[c].outer)
  BY LookupFields DEF CacheInv, LookupsNested
<1>4. l \in LookupType
  BY <1>2, <1>3 DEF Lookup, LookupType, PCs
<1>5. /\ l.pc = "storeOrg" /\ l.off <= l.inner
      /\ l.key = "oidc" => l.inner <= l.outer
  BY <1>3 DEF Lookup, LookupType
<1> QED
  BY <1>1, <1>4, <1>5, OneLookup, LookupFields, EntriesKept DEF Query

(* A stored entry lives from when its lookup began. *)
LEMMA StoreTyped ==
  ASSUME CacheInv, NEW c \in Calls, NEW k \in Keys, NEW age \in 0 .. MaxQuery,
         Store(c, k, age),
         call[c].off <= age + (IF k = "org" THEN 0 ELSE TTL - 1)
  PROVE  /\ entry' \in [Keys -> [plan : Plans, left : 0 .. TTL]]
         /\ wrong' \in [Keys -> Nat]
         /\ EntriesExpire'
<1>1. call[c].found \in Plans /\ call[c].off \in Nat
  BY LookupFields DEF LookupType
<1>2. Left(age) \in 0 .. TTL /\ Left(age) = TTL - age
  BY PlanAssumption DEF Left
<1>3. /\ entry' = [entry EXCEPT ![k] = [plan |-> call[c].found, left |-> Left(age)]]
      /\ wrong' = [wrong EXCEPT ![k] = call[c].off]
  BY DEF Store
<1>4. /\ entry' \in [Keys -> [plan : Plans, left : 0 .. TTL]]
      /\ wrong' \in [Keys -> Nat]
  BY <1>1, <1>2, <1>3, LookupFields
<1>5. wrong'[k] + entry'[k].left <= (IF k = "org" THEN TTL ELSE 2 * TTL - 1)
  BY <1>1, <1>2, <1>3, LookupFields, PlanAssumption
<1>6. \A j \in Keys \ {k} : entry'[j] = entry[j] /\ wrong'[j] = wrong[j]
  BY <1>3, LookupFields
<1>7. EntriesExpire'
  BY <1>5, <1>6 DEF CacheInv, EntriesExpire, Live, Keys
<1> QED
  BY <1>4, <1>7

LEMMA InvStoreOrg ==
  ASSUME CacheInv, NEW c \in Calls, StoreOrg(c)
  PROVE  CacheInv'
<1>1. /\ call[c] \in LookupType /\ call[c].off <= call[c].inner
      /\ call[c].key = "oidc" => call[c].inner <= call[c].outer
  BY LookupFields DEF CacheInv, FoundIsRecent, LookupsNested, StoreOrg
<1>2. /\ entry' \in [Keys -> [plan : Plans, left : 0 .. TTL]]
      /\ wrong' \in [Keys -> Nat]
      /\ EntriesExpire'
  BY <1>1, StoreTyped DEF StoreOrg, LookupType, Keys
<1>3. CASE call[c].key = "org"
  <2>1. call[c].off \in Nat /\ call[c].off <= 2 * TTL - 1
    BY <1>1, PlanAssumption DEF LookupType
  <2>2. call' = [call EXCEPT ![c] = Idle] /\ used' = [used EXCEPT ![c] = call[c].off]
        /\ UNCHANGED plan
    BY <1>3 DEF StoreOrg, Answer
  <2> QED
    BY <1>2, <2>1, <2>2, IdleTyped, OneLookup
<1>4. CASE call[c].key # "org"
  <2> DEFINE l == Lookup("storeOidc", "oidc", call[c].outer, 0, call[c].found, call[c].off)
  <2>1. l \in LookupType
    BY <1>1, PlanAssumption DEF Lookup, LookupType, PCs, Keys
  <2>2. call[c].key = "oidc"
    BY <1>1, <1>4 DEF LookupType, Keys
  <2>3. /\ l.pc = "storeOidc" /\ l.key = "oidc" /\ l.inner <= l.outer
        /\ l.off <= l.outer + TTL - 1
    BY <1>1, <2>2, PlanAssumption DEF Lookup, LookupType
  <2>4. call' = [call EXCEPT ![c] = l] /\ used' = used /\ UNCHANGED plan
    BY <1>4 DEF StoreOrg
  <2> HIDE DEF l
  <2> QED
    BY <1>2, <2>1, <2>3, <2>4, OneLookup, LookupFields
<1> QED
  BY <1>3, <1>4

LEMMA InvStoreOidc ==
  ASSUME CacheInv, NEW c \in Calls, StoreOidc(c)
  PROVE  CacheInv'
<1>1. call[c] \in LookupType /\ call[c].off <= call[c].outer + TTL - 1
  BY LookupFields DEF CacheInv, FoundIsRecent, StoreOidc
<1>2. /\ entry' \in [Keys -> [plan : Plans, left : 0 .. TTL]]
      /\ wrong' \in [Keys -> Nat]
      /\ EntriesExpire'
  BY <1>1, StoreTyped, PlanAssumption DEF StoreOidc, LookupType, Keys
<1>3. call[c].off \in Nat /\ call[c].off <= 2 * TTL - 1
  BY <1>1, PlanAssumption DEF LookupType
<1>4. call' = [call EXCEPT ![c] = Idle] /\ used' = [used EXCEPT ![c] = call[c].off]
      /\ UNCHANGED plan
  BY DEF StoreOidc, Answer
<1> QED
  BY <1>2, <1>3, <1>4, IdleTyped, OneLookup

-----------------------------------------------------------------------------
LEMMA InvChangePlan ==
  ASSUME CacheInv, NEW p \in Plans, ChangePlan(p)
  PROVE  CacheInv'
<1> DEFINE off(c) == IF call[c].found = p THEN 0 ELSE call[c].off
           l(c) == Lookup(call[c].pc, call[c].key, call[c].outer, call[c].inner,
                          call[c].found, off(c))
<1>1. call' = [c \in Calls |-> l(c)]
  BY DEF ChangePlan
<1>2. \A c \in Calls :
        /\ call[c] \in LookupType /\ off(c) \in Nat /\ off(c) <= call[c].off
        /\ l(c) \in LookupType
        /\ l(c).pc = call[c].pc /\ l(c).key = call[c].key /\ l(c).off = off(c)
        /\ l(c).outer = call[c].outer /\ l(c).inner = call[c].inner
  <2> TAKE c \in Calls
  <2>1. call[c] \in LookupType
    BY LookupFields
  <2>2. off(c) \in Nat /\ off(c) <= call[c].off
    BY <2>1 DEF LookupType
  <2> QED
    BY <2>1, <2>2 DEF Lookup, LookupType
<1>3. wrong' = [k \in Keys |-> IF entry[k].plan = p THEN 0 ELSE wrong[k]]
      /\ plan' = p /\ UNCHANGED <<entry, used>>
  BY DEF ChangePlan
<1>4. \A k \in Keys : wrong'[k] \in Nat /\ wrong'[k] <= wrong[k]
  BY <1>3 DEF CacheInv, TypeOK
<1> HIDE DEF off, l
<1>5. TypeOK'
  <2>1. call' \in [Calls -> LookupType]
    BY <1>1, <1>2
  <2>2. wrong' \in [Keys -> Nat]
    BY <1>3, <1>4
  <2> QED
    BY <1>3, <2>1, <2>2 DEF CacheInv, TypeOK, LookupType
<1>6. LookupsNested'
  BY <1>1, <1>2 DEF CacheInv, LookupsNested
<1>7. FoundIsRecent'
  <2> SUFFICES ASSUME NEW c \in Calls
      PROVE /\ call'[c].pc = "storeOrg" => call'[c].off <= call'[c].inner
            /\ call'[c].pc = "storeOidc" => call'[c].off <= call'[c].outer + TTL - 1
    BY DEF FoundIsRecent
  <2>1. call'[c] = l(c)
    BY <1>1
  <2> QED
    BY <1>2, <2>1, PlanAssumption DEF CacheInv, FoundIsRecent, LookupType
<1>8. EntriesExpire'
  <2>1. \A k \in Keys : wrong[k] \in Nat /\ entry[k].left \in Nat
    BY DEF CacheInv, TypeOK
  <2> QED
    BY <1>3, <1>4, <2>1, PlanAssumption DEF CacheInv, EntriesExpire, Live, Keys
<1>9. AnswersBounded'
  BY <1>3 DEF CacheInv, AnswersBounded
<1> QED
  BY <1>5, <1>6, <1>7, <1>8, <1>9 DEF CacheInv

(* A tick ages what is wrong and what is under way together, and takes as  *)
(* much from what is left.                                                 *)
LEMMA InvTick ==
  ASSUME CacheInv, Tick
  PROVE  CacheInv'
<1> DEFINE outer(c) == IF call[c].pc # "idle" /\ call[c].key = "oidc" THEN call[c].outer + 1 ELSE 0
           inner(c) == IF call[c].pc \in {"query", "storeOrg"} THEN call[c].inner + 1 ELSE 0
           off(c) == IF Holding(c) /\ call[c].found # plan THEN call[c].off + 1 ELSE 0
           l(c) == Lookup(call[c].pc, call[c].key, outer(c), inner(c), call[c].found, off(c))
<1>1. call' = [c \in Calls |-> l(c)]
  BY DEF Tick
<1>2. \A c \in Calls :
        /\ outer(c) \in 0 .. MaxQuery /\ inner(c) \in 0 .. MaxQuery /\ off(c) \in Nat
        /\ call[c] \in LookupType /\ off(c) <= call[c].off + 1
        /\ call[c].pc = "storeOrg" => inner(c) = call[c].inner + 1
        /\ call[c].pc = "storeOidc" => inner(c) = 0
        /\ (call[c].key = "oidc" /\ call[c].pc # "idle") => outer(c) = call[c].outer + 1
        /\ inner(c) <= call[c].inner + 1
        /\ call[c].pc = "idle" => inner(c) = 0
  <2> TAKE c \in Calls
  <2>1. call[c] \in LookupType /\ call[c].outer < MaxQuery /\ call[c].inner < MaxQuery
    BY LookupFields DEF Tick
  <2> QED
    BY <2>1, PlanAssumption DEF LookupType, Holding
<1>3. \A c \in Calls :
        /\ l(c) \in LookupType
        /\ l(c).pc = call[c].pc /\ l(c).key = call[c].key /\ l(c).off = off(c)
        /\ l(c).outer = outer(c) /\ l(c).inner = inner(c)
  <2> TAKE c \in Calls
  <2> HIDE DEF outer, inner, off
  <2> QED
    BY <1>2 DEF Lookup, LookupType
<1>4. /\ entry' = [k \in Keys |-> [plan |-> entry[k].plan, left |-> Aged(entry[k].left)]]
      /\ wrong' = [k \in Keys |-> IF Live(k) /\ entry[k].plan # plan THEN wrong[k] + 1 ELSE 0]
      /\ UNCHANGED <<plan, used>>
  BY DEF Tick
<1>5. \A k \in Keys :
        /\ wrong[k] \in Nat /\ entry[k].left \in 0 .. TTL /\ entry[k].plan \in Plans
        /\ Aged(entry[k].left) \in 0 .. TTL
        /\ Live(k) => Aged(entry[k].left) = entry[k].left - 1
        /\ ~Live(k) => Aged(entry[k].left) = 0
  BY PlanAssumption DEF CacheInv, TypeOK, Aged, Live
<1> HIDE DEF outer, inner, off, l
<1>6. TypeOK'
  <2>1. call' \in [Calls -> LookupType]
    BY <1>1, <1>3
  <2>2. wrong' \in [Keys -> Nat] /\ entry' \in [Keys -> [plan : Plans, left : 0 .. TTL]]
    BY <1>4, <1>5
  <2> QED
    BY <1>4, <2>1, <2>2 DEF CacheInv, TypeOK, LookupType
<1>7. LookupsNested'
  <2> SUFFICES ASSUME NEW c \in Calls
      PROVE /\ call'[c].pc \in {"resolve", "storeOidc"} => call'[c].key = "oidc"
            /\ call'[c].key = "oidc" => call'[c].inner <= call'[c].outer
    BY DEF LookupsNested
  <2>1. call'[c] = l(c)
    BY <1>1
  <2>2. call[c].key = "oidc" => inner(c) <= outer(c)
    BY <1>2 DEF CacheInv, LookupsNested, LookupType
  <2> QED
    BY <1>3, <2>1, <2>2 DEF CacheInv, LookupsNested
<1>8. FoundIsRecent'
  <2> SUFFICES ASSUME NEW c \in Calls
      PROVE /\ call'[c].pc = "storeOrg" => call'[c].off <= call'[c].inner
            /\ call'[c].pc = "storeOidc" => call'[c].off <= call'[c].outer + TTL - 1
    BY DEF FoundIsRecent
  <2>1. call'[c] = l(c) /\ (call[c].pc = "storeOidc" => call[c].key = "oidc")
    BY <1>1 DEF CacheInv, LookupsNested
  <2> QED
    BY <1>2, <1>3, <2>1, PlanAssumption DEF CacheInv, FoundIsRecent, LookupType
<1>9. EntriesExpire'
  <2>1. \A k \in Keys : Live(k)' => /\ Live(k)
                                    /\ entry'[k].left = entry[k].left - 1
                                    /\ wrong'[k] <= wrong[k] + 1
    BY <1>4, <1>5 DEF Live
  <2>2. \A k \in Keys : wrong'[k] \in Nat
    BY <1>4, <1>5
  <2>3. entry["org"].left \in Nat /\ entry["oidc"].left \in Nat
        /\ wrong["org"] \in Nat /\ wrong["oidc"] \in Nat
    BY <1>5 DEF Keys
  <2> QED
    BY <2>1, <2>2, <2>3, PlanAssumption DEF CacheInv, EntriesExpire, Keys
<1>10. AnswersBounded'
  BY <1>4 DEF CacheInv, AnswersBounded
<1> QED
  BY <1>6, <1>7, <1>8, <1>9, <1>10 DEF CacheInv

LEMMA CacheNext == CacheInv /\ [Next]_vars => CacheInv'
<1> SUFFICES ASSUME CacheInv, [Next]_vars PROVE CacheInv'
  OBVIOUS
<1>1. CASE \E c \in Calls, k \in Keys : Arrive(c, k)
  BY <1>1, InvArrive
<1>2. CASE \E c \in Calls : Resolve(c)
  BY <1>2, InvResolve
<1>3. CASE \E c \in Calls : ResolveFails(c)
  <2>1. 0 \in Nat /\ 0 <= 2 * TTL - 1
    BY PlanAssumption
  <2> QED
    BY <1>3, <2>1, InvAnswer DEF ResolveFails
<1>4. CASE \E c \in Calls : Query(c)
  BY <1>4, InvQuery
<1>5. CASE \E c \in Calls : StoreOrg(c)
  BY <1>5, InvStoreOrg
<1>6. CASE \E c \in Calls : StoreOidc(c)
  BY <1>6, InvStoreOidc
<1>7. CASE \E p \in Plans : ChangePlan(p)
  BY <1>7, InvChangePlan
<1>8. CASE Tick
  BY <1>8, InvTick
<1>9. CASE UNCHANGED vars
  BY <1>9 DEF vars, CacheInv, TypeOK, LookupsNested, FoundIsRecent, EntriesExpire,
     AnswersBounded, Live
<1> QED
  BY <1>1, <1>2, <1>3, <1>4, <1>5, <1>6, <1>7, <1>8, <1>9 DEF Next

(* Every state of the cache satisfies the invariant. *)
THEOREM CacheSafe == Spec => []CacheInv
BY CacheInit, CacheNext, PTL DEF Spec

-----------------------------------------------------------------------------
(* The cache, the lookups and the histories keep their types. *)
THEOREM TypeCorrect == Spec => []TypeOK
<1>1. CacheInv => TypeOK
  BY DEF CacheInv
<1> QED
  BY <1>1, CacheSafe, PTL

(* An organization's entry is never wrong for a whole lifetime, whatever   *)
(* slow lookups store over it (getOrgRateLimit).                           *)
THEOREM OrgEntryFresh == Spec => []OrgWrongWithinTTL
<1>1. CacheInv => OrgWrongWithinTTL
  BY DEF CacheInv, EntriesExpire, OrgWrongWithinTTL
<1> QED
  BY <1>1, CacheSafe, PTL

(* Nobody is limited by a plan that stopped applying two lifetimes ago.    *)
THEOREM AnswersFresh == Spec => []WrongWithinTwoTTL
<1>1. CacheInv => WrongWithinTwoTTL
  <2> SUFFICES ASSUME CacheInv, NEW c \in Calls PROVE used[c] < 2 * TTL
    BY DEF WrongWithinTwoTTL
  <2>1. used[c] \in Nat /\ used[c] <= 2 * TTL - 1
    BY LookupFields
  <2> QED
    BY <2>1, PlanAssumption
<1> QED
  BY <1>1, CacheSafe, PTL

-----------------------------------------------------------------------------
(***************************************************************************)
(* The inductive invariant of TokenBucket.                                 *)
(***************************************************************************)
InUse(b) == b = table \/ \E c \in Callers : ref[c] = b

BucketObject ==
  [tokens : 0 .. MaxLimit * Period, capacity : 0 .. MaxLimit, idle : 0 .. MaxAge]

(* A bucket somebody can reach holds no more than its capacity, which some *)
(* plan gave it.                                                           *)
BucketType ==
  /\ table \in Buckets \cup {NoBucket}
  /\ heap \in [Buckets -> BucketObject]
  /\ \A b \in Buckets : heap[b].tokens <= heap[b].capacity * Period
  /\ \A b \in Buckets : InUse(b) => heap[b].capacity >= 1
  /\ pc \in [Callers -> Stages]
  /\ limit \in [Callers -> 0 .. MaxLimit]
  /\ delay \in [Callers -> 0 .. MaxDelay]
  /\ ref \in [Callers -> Buckets \cup {NoBucket}]
  /\ wait \in [Callers -> Nat]
  /\ watched \in Nat /\ grants \in Nat
  /\ \A c \in Callers : IF pc[c] = "idle" THEN delay[c] = 0
                        ELSE limit[c] >= 1 /\ wait[c] = 0

(* A call past the lookup holds the bucket of the table, unless the cleaner *)
(* dropped it under the call, and then never that of the table again.       *)
RefInv ==
  \A c \in Callers :
    IF pc[c] \in {"update", "take"}
      THEN ref[c] # NoBucket /\ (c \in swept <=> ref[c] # table)
      ELSE ref[c] = NoBucket /\ c \notin swept

(* What was granted, and what the bucket can still grant at once, are paid  *)
(* for by the first burst and by the time since.  With no bucket, a call    *)
(* that read the clock a while ago may make a full one dated then.          *)
Worth(b)  == AtMost(b.tokens + b.idle * MaxLimit, MaxLimit * (Period + MaxDelay))
Earned    == MaxLimit * (watched + MaxDelay)

RateInv ==
  IF table # NoBucket
    THEN grants * Period + Worth(heap[table]) <= MaxLimit * Period + Earned
    ELSE /\ grants * Period <= Earned
         /\ \A c \in Callers : grants * Period <= Earned - MaxLimit * delay[c]

(* The bucket a client sees has, when its wait is over, a token for it.     *)
Seen(c) == IF ref[c] # NoBucket THEN ref[c] ELSE table
Gain(b, d, w) == IF b.idle + w > d THEN (b.idle + w - d) * b.capacity ELSE 0
Enough(b, d, w) == b.tokens + Gain(b, d, w) >= Period

PatienceInv ==
  /\ patient \subseteq Callers
  /\ \A c \in patient : Seen(c) # NoBucket => Enough(heap[Seen(c)], delay[c], wait[c])

BucketInv == BucketType /\ RefInv /\ RateInv /\ PatienceInv

-----------------------------------------------------------------------------
LEMMA BucketConstants ==
  /\ NoBucket \notin Buckets
  /\ MaxLimit \in Nat /\ Limits \subseteq 1 .. MaxLimit
  /\ Period \in Nat /\ Period >= 1
  /\ MaxDelay \in Nat /\ MaxIdle \in Nat /\ MaxIdle >= Period + MaxDelay
  /\ MaxAge \in Nat /\ MaxAge = MaxIdle + MaxDelay + 1
BY BucketAssumption DEF MaxAge

(* Products of naturals, the only ones the model has, keep the order. *)
LEMMA ProductGrows ==
  ASSUME NEW a \in Nat, NEW x \in Nat, NEW y \in Nat, x <= y
  PROVE  a * x \in Nat /\ a * y \in Nat /\ a * x <= a * y /\ x * a <= y * a
<1>1. \A k \in Nat : a * (x + k) = a * x + a * k /\ a * k \in Nat
  OBVIOUS
<1>2. PICK k \in Nat : y = x + k
  <2>1. y - x \in Nat /\ y = x + (y - x)
    OBVIOUS
  <2> QED
    BY <2>1
<1> QED
  BY <1>1, <1>2

(* What an object of the heap is worth, in numbers. *)
LEMMA ObjectTyped ==
  ASSUME NEW b \in BucketObject
  PROVE  /\ b.tokens \in Nat /\ b.capacity \in Nat /\ b.idle \in Nat
         /\ b.tokens <= MaxLimit * Period /\ b.capacity <= MaxLimit /\ b.idle <= MaxAge
         /\ b.capacity * Period \in Nat /\ b.capacity * Period <= MaxLimit * Period
         /\ b.idle * MaxLimit \in Nat
<1>1. MaxLimit * Period \in Nat
  BY BucketConstants
<1>2. /\ b.tokens \in Nat /\ b.capacity \in Nat /\ b.idle \in Nat
      /\ b.tokens <= MaxLimit * Period /\ b.capacity <= MaxLimit /\ b.idle <= MaxAge
  BY <1>1, BucketConstants DEF BucketObject
<1> QED
  BY <1>2, BucketConstants, ProductGrows

(* Refilling keeps a bucket's capacity, and leaves it no older than the     *)
(* reading of the clock it was refilled to.                                 *)
LEMMA RefillTyped ==
  ASSUME NEW b \in BucketObject, b.tokens <= b.capacity * Period, NEW d \in 0 .. MaxDelay
  PROVE  /\ Refilled(b, d) \in BucketObject
         /\ Refilled(b, d).capacity = b.capacity
         /\ Refilled(b, d).tokens <= b.capacity * Period
         /\ Refilled(b, d).idle <= d
<1>1. CASE ~(b.idle > d)
  BY <1>1, ObjectTyped DEF Refilled
<1>2. CASE b.idle > d
  <2> DEFINE t == AtMost(b.tokens + (b.idle - d) * b.capacity, b.capacity * Period)
  <2>1. (b.idle - d) * b.capacity \in Nat
    BY <1>2, ObjectTyped
  <2>2. t \in Nat /\ t <= b.capacity * Period
    BY <2>1, ObjectTyped DEF AtMost
  <2>3. t \in 0 .. MaxLimit * Period /\ d \in 0 .. MaxAge
    BY <1>2, <2>2, ObjectTyped, BucketConstants
  <2>4. Refilled(b, d) = [b EXCEPT !.tokens = t, !.idle = d]
    BY <1>2 DEF Refilled
  <2> HIDE DEF t
  <2>5. Refilled(b, d) = [tokens |-> t, capacity |-> b.capacity, idle |-> d]
    BY <2>4 DEF BucketObject
  <2>6. b.capacity \in 0 .. MaxLimit /\ d <= d
    BY DEF BucketObject
  <2> QED
    BY <2>2, <2>3, <2>5, <2>6 DEF BucketObject
<1> QED
  BY <1>1, <1>2

(* Refilling earns nothing that the bucket's age had not earned already. *)
LEMMA RefillWorth ==
  ASSUME NEW b \in BucketObject, b.tokens <= b.capacity * Period, NEW d \in 0 .. MaxDelay
  PROVE  /\ Worth(b) \in Nat
         /\ Refilled(b, d).tokens + Refilled(b, d).idle * MaxLimit <= Worth(b)
<1> DEFINE L == MaxLimit
<1>0. /\ L \in Nat /\ d \in Nat /\ d <= MaxDelay /\ MaxDelay \in Nat /\ Period \in Nat
      /\ L * (Period + MaxDelay) = L * Period + L * MaxDelay
      /\ L * Period \in Nat /\ L * MaxDelay \in Nat
  BY BucketConstants
<1>1. Worth(b) \in Nat
  BY <1>0, ObjectTyped DEF Worth, AtMost
<1>2. CASE ~(b.idle > d)
  <2>1. Refilled(b, d) = b
    BY <1>2 DEF Refilled
  <2>2. b.idle * L <= MaxDelay * L
    BY <1>0, <1>2, ObjectTyped, ProductGrows
  <2> QED
    BY <1>0, <1>1, <2>1, <2>2, ObjectTyped DEF Worth, AtMost
<1>3. CASE b.idle > d
  <2> DEFINE k == b.idle - d
             t == AtMost(b.tokens + k * b.capacity, b.capacity * Period)
  <2>1. Refilled(b, d).tokens = t /\ Refilled(b, d).idle = d
    BY <1>3, ObjectTyped DEF Refilled, BucketObject
  <2>2. k \in Nat /\ k * b.capacity \in Nat /\ k * b.capacity <= k * L
    BY <1>0, <1>3, ObjectTyped, ProductGrows
  <2>3. t <= b.tokens + k * L /\ t <= L * Period
    BY <1>0, <2>2, ObjectTyped DEF AtMost
  <2>4. b.idle * L = k * L + d * L
    <3>1. b.idle = k + d
      BY <1>0, ObjectTyped
    <3>2. (k + d) * L = k * L + d * L
      BY <1>0, <2>2
    <3> QED
      BY <3>1, <3>2
  <2>5. d * L <= MaxDelay * L /\ d * L \in Nat
    BY <1>0, ProductGrows
  <2>6. t \in Nat
    BY <2>2, ObjectTyped DEF AtMost
  <2> HIDE DEF t, k
  <2>7. t + d * L <= b.tokens + b.idle * L
    BY <1>0, <2>2, <2>3, <2>4, <2>5, <2>6, ObjectTyped
  <2>8. t + d * L <= L * (Period + MaxDelay)
    BY <1>0, <2>3, <2>5, <2>6
  <2> QED
    BY <1>1, <2>1, <2>7, <2>8 DEF Worth, AtMost
<1> QED
  BY <1>1, <1>2, <1>3

(* A second makes a bucket worth at most one second of the largest plan     *)
(* more.                                                                    *)
LEMMA WorthAges ==
  ASSUME NEW b \in BucketObject
  PROVE  Worth([b EXCEPT !.idle = AtMost(@ + 1, MaxAge)]) <= Worth(b) + MaxLimit
<1> DEFINE i == AtMost(b.idle + 1, MaxAge)
<1>1. i \in Nat /\ i <= b.idle + 1
  BY BucketConstants, ObjectTyped DEF AtMost
<1>2. i * MaxLimit <= (b.idle + 1) * MaxLimit /\ i * MaxLimit \in Nat
  BY <1>1, BucketConstants, ObjectTyped, ProductGrows
<1>3. (b.idle + 1) * MaxLimit = b.idle * MaxLimit + MaxLimit
  BY BucketConstants, ObjectTyped
<1>4. [b EXCEPT !.idle = i].tokens = b.tokens /\ [b EXCEPT !.idle = i].idle = i
  BY DEF BucketObject
<1>5. MaxLimit * (Period + MaxDelay) \in Nat
  BY BucketConstants
<1> HIDE DEF i
<1>6. Worth([b EXCEPT !.idle = i]) <= Worth(b) + MaxLimit
  BY <1>1, <1>2, <1>3, <1>4, <1>5, BucketConstants, ObjectTyped DEF Worth, AtMost
<1> QED
  BY <1>6 DEF i

(* A token for a client survives the refill another call makes. *)
LEMMA RefillKeepsEnough ==
  ASSUME NEW b \in BucketObject, b.capacity >= 1, b.tokens <= b.capacity * Period,
         NEW d \in 0 .. MaxDelay, NEW e \in 0 .. MaxDelay, NEW w \in Nat, Enough(b, d, w)
  PROVE  Enough(Refilled(b, e), d, w)
<1>1. CASE ~(b.idle > e)
  BY <1>1 DEF Refilled
<1>2. CASE b.idle > e
  <2> DEFINE r == Refilled(b, e)
             k == b.idle - e
             x == IF b.idle + w > d THEN b.idle + w - d ELSE 0
             y == IF e + w > d THEN e + w - d ELSE 0
  <2>1. r.tokens = AtMost(b.tokens + k * b.capacity, b.capacity * Period) /\ r.idle = e
    BY <1>2, ObjectTyped DEF Refilled, BucketObject
  <2>2. r.capacity = b.capacity
    BY RefillTyped
  <2>3. x \in Nat /\ y \in Nat /\ k \in Nat /\ x <= y + k
    BY <1>2, ObjectTyped, BucketConstants
  <2>4. Gain(b, d, w) = x * b.capacity /\ Gain(r, d, w) = y * b.capacity
    BY <2>1, <2>2, ObjectTyped, BucketConstants DEF Gain
  <2> HIDE DEF r, k, x, y
  <2>5. x * b.capacity <= (y + k) * b.capacity /\ y * b.capacity \in Nat
    BY <2>3, ObjectTyped, ProductGrows
  <2>6. (y + k) * b.capacity = y * b.capacity + k * b.capacity /\ k * b.capacity \in Nat
    BY <2>3, ObjectTyped
  <2>7. b.capacity * Period >= Period
    BY ObjectTyped, BucketConstants, ProductGrows
  <2>8. b.tokens + x * b.capacity >= Period
    BY <2>4 DEF Enough
  <2>9. x * b.capacity \in Nat /\ b.tokens \in Nat /\ b.capacity * Period \in Nat
    BY <2>3, ObjectTyped
  <2>10. r.tokens + y * b.capacity >= Period
    <3> DEFINE xc == x * b.capacity
               yc == y * b.capacity
               kc == k * b.capacity
               cp == b.capacity * Period
    <3>1. r.tokens = IF b.tokens + kc > cp THEN cp ELSE b.tokens + kc
      BY <2>1 DEF AtMost
    <3>2. xc <= yc + kc
      BY <2>5, <2>6
    <3>3. xc \in Nat /\ yc \in Nat /\ kc \in Nat /\ cp \in Nat /\ cp >= Period /\ b.tokens + xc >= Period
      BY <2>5, <2>6, <2>7, <2>8, <2>9
    <3> HIDE DEF xc, yc, kc, cp
    <3>4. r.tokens + yc >= Period
      BY <2>9, <3>1, <3>2, <3>3, BucketConstants
    <3> QED
      BY <3>4 DEF yc
  <2> QED
    BY <2>4, <2>10 DEF Enough, r
<1> QED
  BY <1>1, <1>2

(* A client whose wait is over finds its token. *)
LEMMA EnoughIsServed ==
  ASSUME NEW b \in BucketObject, b.capacity >= 1, b.tokens <= b.capacity * Period,
         NEW d \in 0 .. MaxDelay, Enough(b, d, 0)
  PROVE  Refilled(b, d).tokens >= Period
<1>1. CASE ~(b.idle > d)
  BY <1>1, ObjectTyped, BucketConstants DEF Refilled, Enough, Gain
<1>2. CASE b.idle > d
  <2>1. Refilled(b, d).tokens = AtMost(b.tokens + (b.idle - d) * b.capacity, b.capacity * Period)
    BY <1>2, ObjectTyped DEF Refilled, BucketObject
  <2>2. Gain(b, d, 0) = (b.idle - d) * b.capacity
    BY <1>2, ObjectTyped DEF Gain
  <2>3. b.capacity * Period >= Period
    BY ObjectTyped, BucketConstants, ProductGrows
  <2> QED
    BY <2>1, <2>2, <2>3, ObjectTyped DEF Enough, AtMost
<1> QED
  BY <1>1, <1>2

(* Retry-After is long enough for the missing part of a token. *)
LEMMA WaitIsEnough ==
  ASSUME NEW b \in BucketObject, b.capacity >= 1, b.tokens < Period
  PROVE  RetryAfter(b) \in Nat /\ Enough(b, 0, RetryAfter(b))
<1> DEFINE m == Period - b.tokens
           n == b.capacity
           q == (m + n - 1) \div n
<1>1. m \in Nat /\ m >= 1 /\ n \in Nat /\ n >= 1
  BY BucketConstants, ObjectTyped
<1>2. RetryAfter(b) = q
  BY BucketConstants, ObjectTyped DEF RetryAfter
<1> HIDE DEF m, n
<1>3. q \in Int /\ n * q <= m + n - 1 /\ m + n - 1 < n * q + n
  BY <1>1
<1> HIDE DEF q
<1>4. n * q >= m
  BY <1>1, <1>3
<1>5. q >= 1
  <2>1. ASSUME q <= 0 PROVE FALSE
    <3>1. n * q <= 0
      BY <1>1, <1>3, <2>1
    <3> QED
      BY <1>1, <1>3, <1>4, <3>1
  <2> QED
    BY <1>3, <2>1
<1>6. b.idle \in Nat /\ b.idle * n \in Nat /\ (b.idle + q) * n = b.idle * n + n * q
  <2>1. b.idle \in Nat
    BY ObjectTyped
  <2> QED
    BY <1>1, <1>3, <2>1
<1>7. Gain(b, 0, q) = (b.idle + q) * n
  BY <1>3, <1>5, <1>6 DEF Gain, n
<1>8. b.tokens + m = Period /\ b.tokens \in Nat
  BY ObjectTyped, BucketConstants DEF m
<1>9. n * q \in Int
  BY <1>1, <1>3
<1>10. b.tokens + Gain(b, 0, q) >= Period
  BY <1>1, <1>4, <1>6, <1>7, <1>8, <1>9
<1> QED
  BY <1>2, <1>3, <1>5, <1>10 DEF Enough

(* A bucket older than the cleaner's limit is full, or as good as full. *)
LEMMA OldIsEnough ==
  ASSUME NEW b \in BucketObject, b.capacity >= 1, NEW d \in 0 .. MaxDelay, NEW w \in Nat,
         b.idle >= Period + d
  PROVE  Enough(b, d, w)
<1> DEFINE x == b.idle + w - d
<1>1. x \in Nat /\ x >= Period /\ b.idle + w > d
  BY ObjectTyped, BucketConstants
<1>2. Gain(b, d, w) = x * b.capacity
  BY <1>1 DEF Gain
<1> HIDE DEF x
<1>3. x * b.capacity >= x * 1 /\ x * 1 = x
  BY <1>1, ObjectTyped, ProductGrows
<1>4. x * b.capacity \in Int
  BY <1>1, ObjectTyped
<1> QED
  BY <1>1, <1>2, <1>3, <1>4, ObjectTyped, BucketConstants DEF Enough

(* So is a bucket that was just made. *)
LEMMA FullIsEnough ==
  ASSUME NEW b \in BucketObject, b.capacity >= 1, b.tokens = b.capacity * Period,
         NEW d \in 0 .. MaxDelay, NEW w \in Nat
  PROVE  Enough(b, d, w)
<1>1. Gain(b, d, w) \in Nat
  BY ObjectTyped DEF Gain
<1>2. b.capacity * Period >= Period
  BY ObjectTyped, BucketConstants, ProductGrows
<1> QED
  BY <1>1, <1>2, ObjectTyped, BucketConstants DEF Enough

LEMMA WorthTyped == ASSUME NEW b \in BucketObject
                    PROVE  Worth(b) \in Nat /\ Worth(b) <= MaxLimit * (Period + MaxDelay)
BY ObjectTyped, BucketConstants DEF Worth, AtMost

(* Fewer tokens are worth less. *)
LEMMA WorthFalls ==
  ASSUME NEW b \in BucketObject, NEW a \in BucketObject, a.idle = b.idle, NEW n \in Nat,
         a.tokens + n <= b.tokens
  PROVE  Worth(a) <= Worth(b)
BY ObjectTyped, BucketConstants DEF Worth, AtMost

(* A client sees its gain grow with the age of the bucket and its wait. *)
LEMMA GainGrows ==
  ASSUME NEW a \in BucketObject, NEW b \in BucketObject, a.capacity = b.capacity,
         NEW d \in Nat, NEW e \in Nat, NEW v \in Nat, NEW w \in Nat,
         a.idle + v - d <= b.idle + w - e
  PROVE  Gain(a, d, v) \in Nat /\ Gain(b, e, w) \in Nat /\ Gain(a, d, v) <= Gain(b, e, w)
<1> DEFINE x == IF a.idle + v > d THEN a.idle + v - d ELSE 0
           y == IF b.idle + w > e THEN b.idle + w - e ELSE 0
<1>1. x \in Nat /\ y \in Nat /\ x <= y
  BY ObjectTyped
<1>2. Gain(a, d, v) = x * b.capacity /\ Gain(b, e, w) = y * b.capacity
  BY ObjectTyped DEF Gain
<1> HIDE DEF x, y
<1> QED
  BY <1>1, <1>2, ObjectTyped, ProductGrows

(* The number of a bucket in use, of a call, and of the history. *)
LEMMA BucketFacts ==
  ASSUME BucketType
  PROVE  /\ \A b \in Buckets : heap[b] \in BucketObject /\ heap[b].tokens <= heap[b].capacity * Period
         /\ \A c \in Callers : limit[c] \in Nat /\ delay[c] \in Nat /\ delay[c] <= MaxDelay /\ wait[c] \in Nat
         /\ watched \in Nat /\ grants \in Nat /\ grants * Period \in Nat
         /\ Earned \in Nat
         /\ MaxLimit * Period \in Nat
         /\ MaxLimit * (Period + MaxDelay) = MaxLimit * Period + MaxLimit * MaxDelay
<1>1. watched \in Nat /\ grants \in Nat
  BY DEF BucketType
<1> QED
  BY <1>1, BucketConstants DEF BucketType, Earned

LEMMA BucketInitInv == BucketInit => BucketInv
<1> SUFFICES ASSUME BucketInit PROVE BucketInv
  OBVIOUS
<1>1. Blank \in BucketObject
  BY BucketConstants DEF Blank, BucketObject
<1>2. \A b \in Buckets : ~InUse(b)
  BY BucketConstants DEF BucketInit, InUse
<1>3. BucketType
  <2>1. \A b \in Buckets : heap[b].tokens <= heap[b].capacity * Period
    BY BucketConstants DEF BucketInit, Blank
  <2> QED
    BY <1>1, <1>2, <2>1, BucketConstants DEF BucketInit, BucketType, Stages
<1>4. RefInv
  BY DEF BucketInit, RefInv
<1>5. RateInv
  <2>1. grants * Period = 0 /\ Earned \in Nat /\ \A c \in Callers : MaxLimit * delay[c] = 0
    BY BucketConstants DEF BucketInit, Earned
  <2> QED
    BY <2>1 DEF BucketInit, RateInv
<1> QED
  BY <1>3, <1>4, <1>5 DEF BucketInv, PatienceInv, BucketInit

-----------------------------------------------------------------------------
LEMMA SendKeepsBucketInv ==
  ASSUME BucketInv, NEW c \in Callers, SendRequest(c)
  PROVE  BucketInv'
<1> USE DEF BucketInv, SendRequest
<1>0. PICK l \in Limits : limit' = [limit EXCEPT ![c] = l]
  OBVIOUS
<1>1. BucketType'
  <2>1. l \in 1 .. MaxLimit
    BY BucketConstants
  <2>2. \A d \in Callers : limit'[d] = (IF d = c THEN l ELSE limit[d])
                           /\ delay'[d] = (IF d = c THEN 0 ELSE delay[d])
                           /\ wait'[d] = (IF d = c THEN 0 ELSE wait[d])
                           /\ pc'[d] = (IF d = c THEN "lookup" ELSE pc[d])
    BY <1>0 DEF BucketType, Goto
  <2>3. /\ limit' \in [Callers -> 0 .. MaxLimit] /\ delay' \in [Callers -> 0 .. MaxDelay]
        /\ wait' \in [Callers -> Nat] /\ pc' \in [Callers -> Stages]
    BY <1>0, <2>1, BucketConstants DEF BucketType, Goto, Stages
  <2>4. \A d \in Callers : IF pc'[d] = "idle" THEN delay'[d] = 0
                           ELSE limit'[d] >= 1 /\ wait'[d] = 0
    BY <2>1, <2>2 DEF BucketType
  <2> QED
    BY <2>3, <2>4 DEF BucketType, InUse
<1>2. RefInv'
  BY DEF RefInv, Goto, BucketType
<1>3. RateInv'
  <2>1. \A d \in Callers : delay'[d] = IF d = c THEN 0 ELSE delay[d]
    BY DEF BucketType
  <2>2. MaxLimit * 0 = 0
    BY BucketConstants
  <2> QED
    BY <2>1, <2>2, BucketFacts DEF RateInv, Earned
<1>4. PatienceInv'
  <2>1. \A d \in Callers : Seen(d)' = Seen(d)
    BY DEF Seen
  <2>2. \A d \in patient' : d \in patient /\ delay'[d] = delay[d] /\ wait'[d] = wait[d]
    BY DEF PatienceInv, BucketType
  <2> QED
    BY <2>1, <2>2 DEF PatienceInv
<1> QED
  BY <1>1, <1>2, <1>3, <1>4

LEMMA FindKeepsBucketInv ==
  ASSUME BucketInv, NEW c \in Callers, FindBucket(c)
  PROVE  BucketInv'
<1> USE DEF BucketInv, FindBucket, history
<1>0. /\ pc[c] = "lookup" /\ ref[c] = NoBucket
      /\ \A d \in Callers : ref'[d] = IF d = c THEN table ELSE ref[d]
      /\ \A d \in Callers : pc'[d] = IF d # c THEN pc[d]
                                     ELSE IF table = NoBucket THEN "create" ELSE "update"
  BY DEF BucketType, RefInv, Goto
<1>1. BucketType'
  <2>1. \A b \in Buckets : InUse(b)' => InUse(b)
    BY <1>0 DEF InUse
  <2> QED
    BY <1>0, <2>1 DEF BucketType, Goto, Stages
<1>2. RefInv'
  BY <1>0 DEF RefInv
<1>3. RateInv'
  BY DEF RateInv, Earned
<1>4. PatienceInv'
  <2>1. \A d \in Callers : Seen(d)' = Seen(d)
    BY <1>0 DEF Seen
  <2> QED
    BY <2>1 DEF PatienceInv
<1> QED
  BY <1>1, <1>2, <1>3, <1>4

LEMMA PlanChange ==
  ASSUME NEW b \in BucketObject, NEW n, NEW t
  PROVE  [b EXCEPT !.capacity = n, !.tokens = t] = [tokens |-> t, capacity |-> n, idle |-> b.idle]
<1>1. [b EXCEPT !.capacity = n] = [tokens |-> b.tokens, capacity |-> n, idle |-> b.idle]
  BY DEF BucketObject
<1>2. [[tokens |-> b.tokens, capacity |-> n, idle |-> b.idle] EXCEPT !.tokens = t]
        = [tokens |-> t, capacity |-> n, idle |-> b.idle]
  OBVIOUS
<1> QED
  BY <1>1, <1>2

LEMMA UpdateKeepsBucketInv ==
  ASSUME BucketInv, NEW c \in Callers, Update(c)
  PROVE  BucketInv'
<1> USE DEF BucketInv
<1> DEFINE o == heap[ref[c]]
           t == IF o.capacity = limit[c] THEN o.tokens ELSE AtMost(o.tokens, limit[c] * Period)
           n == [tokens |-> t, capacity |-> limit[c], idle |-> o.idle]
<1>0. pc[c] = "update" /\ ref[c] \in Buckets /\ limit[c] \in 1 .. MaxLimit
  BY DEF Update, BucketType, RefInv
<1>1. /\ o \in BucketObject /\ o.tokens <= o.capacity * Period
  BY <1>0, BucketFacts
<1>2. n \in BucketObject /\ n.tokens <= n.capacity * Period /\ n.tokens <= o.tokens
  <2>1. limit[c] * Period \in Nat
    BY <1>0, BucketConstants
  <2>2. t \in Nat /\ t <= limit[c] * Period /\ t <= o.tokens
    BY <1>1, <2>1, ObjectTyped DEF AtMost
  <2>3. t \in 0 .. MaxLimit * Period
    BY <1>1, <2>2, ObjectTyped, BucketConstants
  <2>4. o.idle \in 0 .. MaxAge
    BY <1>1 DEF BucketObject
  <2> HIDE DEF t, o
  <2> QED
    BY <1>0, <2>2, <2>3, <2>4 DEF BucketObject
<1>3. heap' = [heap EXCEPT ![ref[c]] = n]
  <2>1. heap' = [heap EXCEPT ![ref[c]] = [o EXCEPT !.capacity = limit[c], !.tokens = t]]
    BY <1>0 DEF Update, BucketType
  <2>2. [o EXCEPT !.capacity = limit[c], !.tokens = t] = n
    BY <1>1, PlanChange
  <2> QED
    BY <2>1, <2>2
<1>4. o.capacity = limit[c] => n = o
  BY <1>1 DEF BucketObject
<1> HIDE DEF n, t
<1>5. \A b \in Buckets : heap'[b] = IF b = ref[c] THEN n ELSE heap[b]
  BY <1>3 DEF BucketType
<1>6. n.capacity = limit[c] /\ n.idle = o.idle
  BY DEF n
<1>7. /\ UNCHANGED <<table, limit, delay, ref, wait, swept, watched, grants>>
      /\ \A d \in Callers : pc'[d] = IF d = c THEN "take" ELSE pc[d]
  BY DEF Update, held, Goto, BucketType
<1>8. BucketType'
  <2>1. heap' \in [Buckets -> BucketObject]
    BY <1>2, <1>3 DEF BucketType
  <2>2. \A b \in Buckets : heap'[b].tokens <= heap'[b].capacity * Period
    BY <1>2, <1>5 DEF BucketType
  <2>3. \A b \in Buckets : InUse(b)' => heap'[b].capacity >= 1
    BY <1>0, <1>5, <1>6, <1>7 DEF BucketType, InUse
  <2>4. pc' \in [Callers -> Stages]
    BY DEF Update, Goto, BucketType, Stages
  <2> QED
    BY <1>0, <1>7, <2>1, <2>2, <2>3, <2>4 DEF BucketType
<1>9. RefInv'
  BY <1>0, <1>7 DEF RefInv
<1>10. RateInv'
  <2>1. Worth(n) <= Worth(o) /\ Worth(n) \in Nat /\ Worth(o) \in Nat
    BY <1>1, <1>2, <1>6, ObjectTyped, WorthFalls, WorthTyped
  <2>2. ASSUME table # NoBucket
        PROVE  Worth(heap'[table]) <= Worth(heap[table]) /\ Worth(heap'[table]) \in Nat
                 /\ Worth(heap[table]) \in Nat
    <3>1. table \in Buckets
      BY <2>2 DEF BucketType
    <3> QED
      BY <1>5, <2>1, <3>1, BucketFacts, WorthTyped
  <2>3. grants * Period \in Nat /\ Earned \in Nat /\ MaxLimit * Period \in Nat
    BY BucketFacts
  <2> QED
    BY <1>7, <2>2, <2>3 DEF RateInv, Earned
<1>11. PatienceInv'
  <2>1. CASE o.capacity = limit[c]
    <3>1. heap' = heap
      BY <1>0, <1>3, <1>4, <2>1 DEF BucketType
    <3>2. patient' = patient
      BY <2>1 DEF Update
    <3> QED
      BY <1>7, <3>1, <3>2 DEF PatienceInv, Seen
  <2>2. CASE o.capacity # limit[c]
    BY <2>2 DEF Update, PatienceInv
  <2> QED
    BY <2>1, <2>2
<1> QED
  BY <1>8, <1>9, <1>10, <1>11

LEMMA CreateKeepsBucketInv ==
  ASSUME BucketInv, NEW c \in Callers, Create(c)
  PROVE  BucketInv'
<1> USE DEF BucketInv
<1>0. /\ pc[c] = "create" /\ ref[c] = NoBucket /\ limit[c] \in 1 .. MaxLimit /\ c \notin swept
      /\ UNCHANGED <<limit, delay, wait, patient, swept, watched, grants>>
      /\ \A d \in Callers : pc'[d] = IF d = c THEN "take" ELSE pc[d]
  BY DEF Create, BucketType, RefInv, Goto, history
<1>1. pc' \in [Callers -> Stages]
  BY DEF Create, Goto, BucketType, Stages
<1>2. CASE table # NoBucket
  <2>0. /\ UNCHANGED <<table, heap>> /\ table \in Buckets
        /\ \A d \in Callers : ref'[d] = IF d = c THEN table ELSE ref[d]
        /\ ref' \in [Callers -> Buckets \cup {NoBucket}]
    BY <1>2 DEF Create, BucketType
  <2>1. BucketType'
    <3>1. \A b \in Buckets : InUse(b)' => InUse(b)
      BY <2>0 DEF InUse
    <3> QED
      BY <1>0, <1>1, <2>0, <3>1 DEF BucketType
  <2>2. RefInv'
    BY <1>0, <1>2, <2>0 DEF RefInv
  <2>3. RateInv'
    BY <1>0, <2>0 DEF RateInv, Earned
  <2>4. PatienceInv'
    <3>1. \A d \in Callers : Seen(d)' = Seen(d)
      BY <1>0, <2>0 DEF Seen
    <3> QED
      BY <1>0, <2>0, <3>1 DEF PatienceInv
  <2> QED
    BY <2>1, <2>2, <2>3, <2>4
<1>3. CASE table = NoBucket
  <2>0. PICK b \in Buckets \ {ref[d] : d \in Callers} :
          /\ table' = b
          /\ ref' = [ref EXCEPT ![c] = b]
          /\ heap' = [heap EXCEPT ![b] = Full(c)]
    BY <1>3 DEF Create
  <2> DEFINE f == Full(c)
  <2>1. /\ f \in BucketObject /\ f.tokens = f.capacity * Period /\ f.capacity >= 1
        /\ f.tokens = limit[c] * Period /\ f.idle = delay[c] /\ delay[c] \in 0 .. MaxDelay
    <3>1. f = [tokens |-> limit[c] * Period, capacity |-> limit[c], idle |-> delay[c]]
      BY DEF Full
    <3>2. limit[c] * Period \in Nat /\ limit[c] * Period <= MaxLimit * Period
      BY <1>0, BucketConstants, ProductGrows
    <3>3. delay[c] \in 0 .. MaxDelay /\ delay[c] \in 0 .. MaxAge
      BY BucketFacts, BucketConstants
    <3>4. limit[c] * Period \in 0 .. MaxLimit * Period
      BY <3>2, BucketConstants
    <3> HIDE DEF f
    <3> QED
      BY <1>0, <3>1, <3>3, <3>4 DEF BucketObject
  <2> HIDE DEF f
  <2>2. /\ b \in Buckets /\ b # NoBucket /\ \A d \in Callers : ref[d] # b
        /\ \A d \in Callers : ref'[d] = IF d = c THEN b ELSE ref[d]
        /\ \A x \in Buckets : heap'[x] = IF x = b THEN f ELSE heap[x]
    BY <2>0, BucketConstants DEF BucketType, f
  <2>3. BucketType'
    <3>1. heap' \in [Buckets -> BucketObject] /\ ref' \in [Callers -> Buckets \cup {NoBucket}]
      BY <2>0, <2>1 DEF BucketType, f
    <3>2. \A x \in Buckets : heap'[x].tokens <= heap'[x].capacity * Period
      <4>1. f.tokens <= f.capacity * Period
        BY <2>1, ObjectTyped
      <4> QED
        BY <2>2, <4>1 DEF BucketType
    <3>3. \A x \in Buckets : InUse(x)' => heap'[x].capacity >= 1
      BY <2>0, <2>1, <2>2 DEF InUse, BucketType
    <3> QED
      BY <1>0, <1>1, <2>0, <3>1, <3>2, <3>3 DEF BucketType
  <2>4. RefInv'
    BY <1>0, <1>3, <2>0, <2>2 DEF RefInv
  <2>5. RateInv'
    <3>1. Worth(f) <= MaxLimit * Period + MaxLimit * delay[c] /\ Worth(f) \in Nat
      <4>1. limit[c] * Period <= MaxLimit * Period
        BY <1>0, BucketConstants, ProductGrows
      <4>2. f.idle * MaxLimit = MaxLimit * delay[c]
        BY <2>1, BucketConstants
      <4>3. f.tokens + f.idle * MaxLimit <= MaxLimit * Period + MaxLimit * delay[c]
        BY <2>1, <4>1, <4>2, ObjectTyped, BucketConstants
      <4>4. Worth(f) \in Nat /\ Worth(f) <= f.tokens + f.idle * MaxLimit
        BY <2>1, WorthTyped, ObjectTyped DEF Worth, AtMost
      <4> QED
        BY <2>1, <4>3, <4>4, ObjectTyped, BucketConstants
    <3>2. grants * Period <= Earned - MaxLimit * delay[c]
      BY <1>3 DEF RateInv
    <3>3. MaxLimit * delay[c] \in Nat /\ grants * Period \in Nat /\ Earned \in Nat /\ MaxLimit * Period \in Nat
      BY <2>1, BucketFacts, BucketConstants
    <3>4. grants * Period + Worth(f) <= MaxLimit * Period + Earned
      BY <3>1, <3>2, <3>3
    <3>5. heap'[table'] = f /\ table' # NoBucket /\ grants' = grants /\ Earned' = Earned
      BY <1>0, <2>0, <2>2 DEF Earned
    <3> QED
      BY <3>4, <3>5 DEF RateInv
  <2>6. PatienceInv'
    <3> SUFFICES ASSUME NEW d \in patient, Seen(d)' # NoBucket
                 PROVE  Enough(heap'[Seen(d)'], delay[d], wait[d])
      BY <1>0 DEF PatienceInv
    <3>1. d \in Callers
      BY DEF PatienceInv
    <3>2. CASE d # c /\ ref[d] # NoBucket
      <4>1. Seen(d)' = ref[d] /\ Seen(d) = ref[d] /\ ref[d] \in Buckets
        BY <2>2, <3>1, <3>2 DEF Seen, BucketType
      <4>2. heap'[ref[d]] = heap[ref[d]]
        BY <2>2, <3>1, <4>1
      <4> QED
        BY <3>2, <4>1, <4>2 DEF PatienceInv
    <3>3. CASE ~(d # c /\ ref[d] # NoBucket)
      <4>1. Seen(d)' = b
        BY <2>0, <2>2, <3>1, <3>3 DEF Seen
      <4>2. delay[d] \in 0 .. MaxDelay /\ wait[d] \in Nat
        BY <3>1 DEF BucketType
      <4> QED
        BY <2>1, <2>2, <4>1, <4>2, FullIsEnough
    <3> QED
      BY <3>2, <3>3
  <2> QED
    BY <2>3, <2>4, <2>5, <2>6
<1> QED
  BY <1>2, <1>3

(* The cleaner drops a bucket that is full by now. *)
LEMMA CleanupKeepsBucketInv ==
  ASSUME BucketInv, CleanupStale
  PROVE  BucketInv'
<1> USE DEF BucketInv
<1>0. /\ table \in Buckets /\ heap[table].idle > MaxIdle /\ table' = NoBucket
      /\ swept' = swept \cup {c \in Callers : ref[c] = table}
      /\ UNCHANGED <<pc, limit, delay, ref, wait, patient, watched, grants>>
  BY DEF CleanupStale, Stale, held, BucketType
<1>1. \A b \in Buckets : heap'[b] = IF \E c \in Callers : ref[c] = b THEN heap[b] ELSE Blank
  BY BucketConstants DEF CleanupStale, Collect
<1>2. BucketType'
  <2>1. Blank \in BucketObject /\ Blank.tokens <= Blank.capacity * Period
    BY BucketConstants DEF Blank, BucketObject
  <2>2. heap' \in [Buckets -> BucketObject]
    <3>1. heap' = [b \in Buckets |-> heap'[b]]
      BY DEF CleanupStale, Collect
    <3>2. \A b \in Buckets : heap'[b] \in BucketObject
      BY <1>1, <2>1 DEF BucketType
    <3> QED
      BY <3>1, <3>2
  <2>3. \A b \in Buckets : heap'[b].tokens <= heap'[b].capacity * Period
    BY <1>1, <2>1 DEF BucketType
  <2>4. \A b \in Buckets : InUse(b)' => InUse(b) /\ heap'[b] = heap[b]
    BY <1>0, <1>1, BucketConstants DEF InUse
  <2> QED
    BY <1>0, <2>2, <2>3, <2>4 DEF BucketType
<1>3. RefInv'
  BY <1>0, BucketConstants DEF RefInv
<1>4. RateInv'
  <2> DEFINE o == heap[table]
  <2>1. o \in BucketObject /\ o.idle \in Nat /\ o.tokens \in Nat /\ o.idle >= Period + MaxDelay
    BY <1>0, BucketFacts, ObjectTyped, BucketConstants
  <2> HIDE DEF o
  <2>2. o.idle * MaxLimit >= MaxLimit * (Period + MaxDelay)
    <3>1. Period + MaxDelay \in Nat
      BY BucketConstants
    <3>2. MaxLimit * (Period + MaxDelay) <= MaxLimit * o.idle
      BY <2>1, <3>1, BucketConstants, ProductGrows
    <3> QED
      BY <2>1, <3>2, BucketConstants
  <2>3. Worth(o) = MaxLimit * (Period + MaxDelay)
    BY <2>1, <2>2, BucketConstants, ObjectTyped DEF Worth, AtMost
  <2>4. grants * Period + Worth(o) <= MaxLimit * Period + Earned
    BY <1>0, BucketConstants DEF RateInv, o
  <2>5. /\ grants * Period \in Nat /\ Earned \in Nat /\ MaxLimit * Period \in Nat
        /\ MaxLimit * (Period + MaxDelay) = MaxLimit * Period + MaxLimit * MaxDelay
        /\ MaxLimit * MaxDelay \in Nat
    BY BucketFacts, BucketConstants
  <2>6. grants * Period <= Earned - MaxLimit * MaxDelay
    BY <2>3, <2>4, <2>5
  <2>7. \A c \in Callers : MaxLimit * delay[c] \in Nat /\ MaxLimit * delay[c] <= MaxLimit * MaxDelay
    BY BucketFacts, BucketConstants, ProductGrows
  <2>8. \A c \in Callers : grants * Period <= Earned - MaxLimit * delay[c]
    BY <2>5, <2>6, <2>7
  <2> QED
    BY <1>0, <2>5, <2>6, <2>8 DEF RateInv, Earned
<1>5. PatienceInv'
  <2> SUFFICES ASSUME NEW d \in patient, Seen(d)' # NoBucket
               PROVE  Enough(heap'[Seen(d)'], delay[d], wait[d])
    BY <1>0 DEF PatienceInv
  <2>1. Seen(d)' = ref[d] /\ Seen(d) = ref[d] /\ ref[d] \in Buckets /\ d \in Callers
    BY <1>0 DEF Seen, BucketType, PatienceInv
  <2>2. heap'[ref[d]] = heap[ref[d]]
    BY <1>1, <2>1
  <2> QED
    BY <2>1, <2>2, BucketConstants DEF PatienceInv
<1> QED
  BY <1>2, <1>3, <1>4, <1>5

(* A second makes a bucket older, and what a client waits for no further. *)
LEMMA AgeKeepsEnough ==
  ASSUME NEW b \in BucketObject, b.capacity >= 1,
         NEW d \in 0 .. MaxDelay, NEW w \in Nat, Enough(b, d, w),
         NEW e \in 0 .. MaxDelay, NEW v \in Nat,
         (e = d + 1 /\ v = w) \/ (e = d /\ v >= w - 1)
  PROVE  Enough([b EXCEPT !.idle = AtMost(@ + 1, MaxAge)], e, v)
<1> DEFINE i == AtMost(b.idle + 1, MaxAge)
           a == [b EXCEPT !.idle = i]
<1>1. i \in 0 .. MaxAge /\ i = IF b.idle = MaxAge THEN MaxAge ELSE b.idle + 1
  BY ObjectTyped, BucketConstants DEF AtMost
<1>2. a \in BucketObject /\ a.capacity = b.capacity /\ a.tokens = b.tokens /\ a.idle = i
  <2> HIDE DEF i
  <2> QED
    BY <1>1 DEF BucketObject
<1> HIDE DEF a, i
<1>3. CASE b.idle = MaxAge
  <2>1. a.idle >= Period + e
    BY <1>1, <1>2, <1>3, BucketConstants
  <2> QED
    BY <1>2, <2>1, OldIsEnough DEF a, i
<1>4. CASE b.idle # MaxAge
  <2>1. b.idle + w - d <= a.idle + v - e
    BY <1>1, <1>2, <1>4, ObjectTyped, BucketConstants
  <2>2. d \in Nat /\ e \in Nat
    BY BucketConstants
  <2>3. /\ Gain(b, d, w) \in Nat /\ Gain(a, e, v) \in Nat
        /\ Gain(b, d, w) <= Gain(a, e, v)
    BY <1>2, <2>1, <2>2, GainGrows
  <2>4. Enough(a, e, v)
    BY <1>2, <2>3, ObjectTyped, BucketConstants DEF Enough
  <2> QED
    BY <2>4 DEF a, i
<1> QED
  BY <1>3, <1>4

LEMMA SecondKeepsBucketInv ==
  ASSUME BucketInv, SecondPasses
  PROVE  BucketInv'
<1> USE DEF BucketInv
<1> DEFINE Older(b) == [b EXCEPT !.idle = AtMost(@ + 1, MaxAge)]
<1>0. /\ watched' = watched + 1
      /\ UNCHANGED <<table, pc, limit, ref, patient, swept, grants>>
      /\ \A c \in Callers : delay'[c] = IF pc[c] # "idle" THEN delay[c] + 1 ELSE 0
      /\ \A c \in Callers : wait'[c] = IF wait[c] > 0 THEN wait[c] - 1 ELSE 0
      /\ \A c \in Callers : pc[c] # "idle" => delay[c] < MaxDelay
  BY DEF SecondPasses
<1>1. \A b \in Buckets : heap'[b] = IF heap[b] = Blank THEN Blank ELSE Older(heap[b])
  BY DEF SecondPasses
<1>2. ASSUME NEW b \in BucketObject
      PROVE  /\ Older(b) \in BucketObject
             /\ Older(b).tokens = b.tokens /\ Older(b).capacity = b.capacity
  <2>1. AtMost(b.idle + 1, MaxAge) \in 0 .. MaxAge
    BY ObjectTyped, BucketConstants DEF AtMost
  <2> QED
    BY <2>1 DEF BucketObject
<1>3. \A b \in Buckets : InUse(b) => heap'[b] = Older(heap[b]) /\ heap[b].capacity >= 1
  BY <1>1 DEF BucketType, Blank
<1>4. \A c \in Callers : delay'[c] \in 0 .. MaxDelay /\ wait'[c] \in Nat
  BY <1>0, BucketFacts, BucketConstants
<1> HIDE DEF Older
<1>5. BucketType'
  <2>1. heap' \in [Buckets -> BucketObject]
    <3>1. Blank \in BucketObject
      BY BucketConstants DEF Blank, BucketObject
    <3>2. \A b \in Buckets : heap'[b] \in BucketObject
      BY <1>1, <1>2, <3>1, BucketFacts
    <3>3. heap' = [b \in Buckets |-> heap'[b]]
      BY DEF SecondPasses
    <3> QED
      BY <3>2, <3>3
  <2>2. \A b \in Buckets : heap'[b].tokens <= heap'[b].capacity * Period
    <3>1. Blank.tokens <= Blank.capacity * Period
      BY BucketConstants DEF Blank
    <3> QED
      BY <1>1, <1>2, <3>1, BucketFacts
  <2>3. \A b \in Buckets : InUse(b)' => heap'[b].capacity >= 1
    BY <1>0, <1>2, <1>3, BucketFacts DEF InUse
  <2>4. delay' \in [Callers -> 0 .. MaxDelay] /\ wait' \in [Callers -> Nat]
    BY <1>4 DEF SecondPasses
  <2>5. watched' \in Nat
    BY <1>0 DEF BucketType
  <2>6. \A c \in Callers : IF pc[c] = "idle" THEN delay'[c] = 0
                           ELSE limit[c] >= 1 /\ wait'[c] = 0
    BY <1>0 DEF BucketType
  <2> QED
    BY <1>0, <2>1, <2>2, <2>3, <2>4, <2>5, <2>6 DEF BucketType
<1>6. RefInv'
  BY <1>0 DEF RefInv
<1>7. RateInv'
  <2>1. Earned' = Earned + MaxLimit
    BY <1>0, BucketConstants DEF Earned, BucketType
  <2>2. /\ grants * Period \in Nat /\ Earned \in Nat /\ MaxLimit * Period \in Nat /\ MaxLimit \in Nat
    BY BucketFacts, BucketConstants
  <2>3. CASE table # NoBucket
    <3>1. table \in Buckets /\ InUse(table)
      BY <2>3 DEF BucketType, InUse
    <3>2. heap[table] \in BucketObject
      BY <3>1, BucketFacts
    <3>3. Worth(heap'[table]) <= Worth(heap[table]) + MaxLimit
      BY <1>3, <3>1, <3>2, WorthAges DEF Older
    <3>4. Worth(heap'[table]) \in Nat /\ Worth(heap[table]) \in Nat
      BY <1>2, <1>3, <3>1, <3>2, WorthTyped
    <3>5. grants * Period + Worth(heap[table]) <= MaxLimit * Period + Earned
      BY <2>3 DEF RateInv
    <3>6. grants * Period + Worth(heap'[table]) <= MaxLimit * Period + Earned'
      BY <2>1, <2>2, <3>3, <3>4, <3>5
    <3> QED
      BY <1>0, <2>3, <3>6 DEF RateInv
  <2>4. CASE table = NoBucket
    <3>1. ASSUME NEW c \in Callers
          PROVE  grants * Period <= Earned' - MaxLimit * delay'[c]
      <4>1. grants * Period <= Earned - MaxLimit * delay[c]
        BY <2>4 DEF RateInv
      <4>2. delay'[c] \in Nat /\ delay[c] \in Nat /\ delay'[c] <= delay[c] + 1
        BY <1>0, BucketFacts
      <4>3. MaxLimit * delay'[c] <= MaxLimit * (delay[c] + 1)
        BY <4>2, BucketConstants, ProductGrows
      <4>4. /\ MaxLimit * (delay[c] + 1) = MaxLimit * delay[c] + MaxLimit
            /\ MaxLimit * delay[c] \in Nat /\ MaxLimit * delay'[c] \in Nat
        <5>1. \A x \in Nat : MaxLimit * (x + 1) = MaxLimit * x + MaxLimit /\ MaxLimit * x \in Nat
          BY BucketConstants
        <5> QED
          BY <4>2, <5>1
      <4> QED
        BY <2>1, <2>2, <4>1, <4>3, <4>4
    <3>2. grants * Period <= Earned'
      BY <2>1, <2>2, <2>4 DEF RateInv
    <3> QED
      BY <1>0, <2>4, <3>1, <3>2 DEF RateInv
  <2> QED
    BY <2>3, <2>4
<1>8. PatienceInv'
  <2> SUFFICES ASSUME NEW d \in patient, Seen(d)' # NoBucket
               PROVE  Enough(heap'[Seen(d)'], delay'[d], wait'[d])
    BY <1>0 DEF PatienceInv
  <2>1. /\ d \in Callers /\ Seen(d)' = Seen(d) /\ Seen(d) \in Buckets
        /\ InUse(Seen(d)) /\ Enough(heap[Seen(d)], delay[d], wait[d])
    BY <1>0 DEF Seen, BucketType, PatienceInv, InUse
  <2>2. /\ heap[Seen(d)] \in BucketObject /\ heap[Seen(d)].capacity >= 1
        /\ heap'[Seen(d)] = Older(heap[Seen(d)])
    BY <1>3, <2>1, BucketFacts
  <2>3. delay[d] \in 0 .. MaxDelay /\ wait[d] \in Nat
    BY <2>1 DEF BucketType
  <2>4. (delay'[d] = delay[d] + 1 /\ wait'[d] = wait[d]) \/ (delay'[d] = delay[d] /\ wait'[d] >= wait[d] - 1)
    BY <1>0, <2>1 DEF BucketType
  <2> QED
    BY <1>4, <2>1, <2>2, <2>3, <2>4, AgeKeepsEnough DEF Older
<1> QED
  BY <1>5, <1>6, <1>7, <1>8

(* The observer may begin to watch at any time. *)
LEMMA WatchKeepsBucketInv ==
  ASSUME BucketInv, Watch
  PROVE  BucketInv'
<1> USE DEF BucketInv
<1>0. /\ watched' = 0 /\ grants' = 0
      /\ UNCHANGED <<table, heap, pc, limit, delay, ref, wait, patient, swept>>
  BY DEF Watch, held
<1>1. BucketType'
  BY <1>0 DEF BucketType, InUse
<1>2. RefInv'
  BY <1>0 DEF RefInv
<1>3. RateInv'
  <2>1. /\ grants' * Period = 0 /\ Earned' = MaxLimit * MaxDelay
        /\ MaxLimit * (Period + MaxDelay) = MaxLimit * Period + MaxLimit * MaxDelay
        /\ MaxLimit * MaxDelay \in Nat /\ MaxLimit * Period \in Nat
    BY <1>0, BucketConstants DEF Earned
  <2>2. table # NoBucket => Worth(heap[table]) \in Nat
                            /\ Worth(heap[table]) <= MaxLimit * (Period + MaxDelay)
    BY BucketFacts, WorthTyped DEF BucketType
  <2>3. \A c \in Callers : MaxLimit * delay[c] \in Nat /\ MaxLimit * delay[c] <= MaxLimit * MaxDelay
    BY BucketFacts, BucketConstants, ProductGrows
  <2> QED
    BY <1>0, <2>1, <2>2, <2>3 DEF RateInv
<1>4. PatienceInv'
  BY <1>0 DEF PatienceInv, Seen
<1> QED
  BY <1>1, <1>2, <1>3, <1>4

(* Taking a token, or being refused one. *)
LEMMA TakeKeepsBucketInv ==
  ASSUME BucketInv, NEW c \in Callers, Take(c)
  PROVE  BucketInv'
<1> USE DEF BucketInv
<1> DEFINE o == heap[ref[c]]
           r == Refilled(o, delay[c])
           Served == r.tokens >= Period
           n == IF Served THEN [r EXCEPT !.tokens = @ - Period] ELSE r
           Reached(b) == b = table \/ \E d \in Callers : ref'[d] = b
<1>0. /\ pc[c] = "take" /\ ref[c] \in Buckets /\ delay[c] \in 0 .. MaxDelay /\ wait[c] = 0
      /\ c \in swept <=> ref[c] # table
      /\ o \in BucketObject /\ o.tokens <= o.capacity * Period /\ o.capacity >= 1
  BY DEF Take, BucketType, RefInv, InUse
<1>1. /\ UNCHANGED <<table, watched>> /\ swept' = swept \ {c}
      /\ \A d \in Callers : /\ pc'[d] = IF d = c THEN "idle" ELSE pc[d]
                            /\ limit'[d] = IF d = c THEN 0 ELSE limit[d]
                            /\ delay'[d] = IF d = c THEN 0 ELSE delay[d]
                            /\ ref'[d] = IF d = c THEN NoBucket ELSE ref[d]
      /\ pc' \in [Callers -> Stages] /\ limit' \in [Callers -> 0 .. MaxLimit]
      /\ delay' \in [Callers -> 0 .. MaxDelay] /\ ref' \in [Callers -> Buckets \cup {NoBucket}]
  BY BucketConstants DEF Take, BucketType, Goto, Stages
<1>2. /\ r \in BucketObject /\ r.capacity = o.capacity /\ r.tokens <= o.capacity * Period
      /\ r.idle <= delay[c] /\ r.tokens + r.idle * MaxLimit <= Worth(o)
      /\ Worth(o) \in Nat
  BY <1>0, RefillTyped, RefillWorth
<1>3. heap' = Collect([heap EXCEPT ![ref[c]] = n], table, ref')
  <2>1. CASE Served
    BY <2>1 DEF Take
  <2>2. CASE ~Served
    BY <2>2 DEF Take
  <2> QED
    BY <2>1, <2>2
<1>4. /\ Served => grants' = (IF c \in swept THEN grants ELSE grants + 1) /\ patient' = {} /\ wait' = wait
      /\ ~Served => /\ grants' = grants /\ patient' = patient \cup ({c} \ swept)
                    /\ wait' = [wait EXCEPT ![c] = RetryAfter(r)]
  BY DEF Take
<1> HIDE DEF o, r
<1>5. n \in BucketObject /\ n.capacity = o.capacity /\ n.idle = r.idle
      /\ n.tokens = (IF Served THEN r.tokens - Period ELSE r.tokens)
      /\ n.tokens <= n.capacity * Period
  <2>1. CASE Served
    <3>1. r.tokens - Period \in 0 .. MaxLimit * Period /\ r.tokens - Period <= o.capacity * Period
      BY <1>0, <1>2, <2>1, ObjectTyped, BucketConstants
    <3>2. n = [r EXCEPT !.tokens = r.tokens - Period]
      BY <2>1
    <3> QED
      BY <1>2, <2>1, <3>1, <3>2 DEF BucketObject
  <2>2. CASE ~Served
    BY <1>2, <2>2
  <2> QED
    BY <2>1, <2>2
<1> HIDE DEF n
<1>6. \A b \in Buckets : heap'[b] = IF ~Reached(b) THEN Blank ELSE IF b = ref[c] THEN n ELSE heap[b]
  BY <1>3 DEF Collect, BucketType
<1>7. BucketType'
  <2>1. Blank \in BucketObject /\ Blank.tokens <= Blank.capacity * Period
    BY BucketConstants DEF Blank, BucketObject
  <2>2. heap' \in [Buckets -> BucketObject]
    <3>1. \A b \in Buckets : heap'[b] \in BucketObject
      BY <1>5, <1>6, <2>1, BucketFacts
    <3>2. heap' = [b \in Buckets |-> heap'[b]]
      BY <1>3 DEF Collect
    <3> QED
      BY <3>1, <3>2
  <2>3. \A b \in Buckets : heap'[b].tokens <= heap'[b].capacity * Period
    BY <1>5, <1>6, <2>1, BucketFacts
  <2>4. \A b \in Buckets : InUse(b)' => heap'[b].capacity >= 1
    <3> SUFFICES ASSUME NEW b \in Buckets, InUse(b)' PROVE heap'[b].capacity >= 1
      OBVIOUS
    <3>1. Reached(b) /\ InUse(b)
      BY <1>1, BucketConstants DEF InUse
    <3>2. heap[b].capacity >= 1
      BY <3>1 DEF BucketType
    <3> QED
      BY <1>0, <1>5, <1>6, <3>1, <3>2
  <2>5. wait' \in [Callers -> Nat] /\ grants' \in Nat
    <3>1. CASE Served
      BY <1>4, <3>1 DEF BucketType
    <3>2. CASE ~Served
      <4>1. r.tokens < Period
        BY <1>2, <3>2, ObjectTyped, BucketConstants
      <4>2. RetryAfter(r) \in Nat
        BY <1>0, <1>2, <4>1, WaitIsEnough
      <4> QED
        BY <1>4, <3>2, <4>2 DEF BucketType
    <3> QED
      BY <3>1, <3>2
  <2>6. \A d \in Callers : IF pc'[d] = "idle" THEN delay'[d] = 0
                           ELSE limit'[d] >= 1 /\ wait'[d] = 0
    BY <1>1, <1>4 DEF BucketType
  <2>7. watched' \in Nat /\ table' \in Buckets \cup {NoBucket}
    BY <1>1 DEF BucketType
  <2> QED
    BY <1>1, <2>2, <2>3, <2>4, <2>5, <2>6, <2>7 DEF BucketType
<1>8. RefInv'
  BY <1>1 DEF RefInv
<1>9. RateInv'
  <2>0. /\ grants * Period \in Nat /\ Earned \in Nat /\ MaxLimit * Period \in Nat /\ grants \in Nat
        /\ (grants + 1) * Period = grants * Period + Period /\ Period \in Nat
        /\ Earned' = Earned
    BY <1>1, BucketFacts, BucketConstants DEF Earned
  <2>1. CASE table = NoBucket
    <3>1. grants' = grants /\ grants * Period <= Earned
      BY <1>0, <1>4, <2>1, BucketConstants DEF RateInv
    <3>2. MaxLimit * 0 = 0
      BY BucketConstants
    <3>3. \A d \in Callers : grants * Period <= Earned - MaxLimit * delay'[d]
      BY <1>1, <2>0, <2>1, <3>1, <3>2 DEF RateInv
    <3> QED
      BY <1>1, <2>0, <2>1, <3>1, <3>3 DEF RateInv
  <2>2. CASE table # NoBucket /\ table # ref[c]
    <3>1. table \in Buckets /\ heap'[table] = heap[table] /\ grants' = grants
      BY <1>0, <1>4, <1>6, <2>2 DEF BucketType
    <3> QED
      BY <1>1, <2>0, <2>2, <3>1 DEF RateInv
  <2>3. CASE table # NoBucket /\ table = ref[c]
    <3>1. heap'[table] = n /\ c \notin swept
      BY <1>0, <1>6, <2>3
    <3>2. grants * Period + Worth(o) <= MaxLimit * Period + Earned
      BY <2>3 DEF RateInv, o
    <3>3. Worth(n) \in Nat /\ Worth(n) <= n.tokens + n.idle * MaxLimit
      BY <1>5, WorthTyped, ObjectTyped, BucketConstants DEF Worth, AtMost
    <3>4. grants' * Period + Worth(n) <= MaxLimit * Period + Earned
      <4>1. r.idle * MaxLimit \in Nat /\ r.tokens \in Nat
        BY <1>2, ObjectTyped
      <4>2. CASE Served
        <5>1. grants' * Period = grants * Period + Period
          BY <1>4, <2>0, <3>1, <4>2
        <5>2. Worth(n) <= r.tokens - Period + r.idle * MaxLimit
          BY <1>5, <3>3, <4>2
        <5> QED
          BY <1>2, <2>0, <3>2, <3>3, <4>1, <5>1, <5>2
      <4>3. CASE ~Served
        BY <1>2, <1>4, <1>5, <2>0, <3>2, <3>3, <4>1, <4>3
      <4> QED
        BY <4>2, <4>3
    <3> QED
      BY <1>1, <2>0, <2>3, <3>1, <3>4 DEF RateInv
  <2> QED
    BY <2>1, <2>2, <2>3
<1>10. PatienceInv'
  <2>1. CASE Served
    BY <1>4, <2>1 DEF PatienceInv
  <2>2. CASE ~Served
    <3>0. patient' \subseteq Callers
      BY <1>4, <2>2 DEF PatienceInv
    <3> SUFFICES ASSUME NEW d \in patient', Seen(d)' # NoBucket
                 PROVE  Enough(heap'[Seen(d)'], delay'[d], wait'[d])
      BY <3>0 DEF PatienceInv
    <3>1. Seen(d)' \in Buckets /\ Reached(Seen(d)') /\ d \in Callers
      BY <1>1, <3>0 DEF Seen, BucketType
    <3>2. n = r
      BY <2>2 DEF n
    <3>3. CASE d = c
      <4>1. c \notin patient
        <5>1. ASSUME c \in patient PROVE FALSE
          <6>1. Seen(c) = ref[c] /\ ref[c] # NoBucket
            BY <1>0, BucketConstants DEF Seen
          <6>2. Enough(o, delay[c], 0)
            BY <1>0, <5>1, <6>1 DEF PatienceInv, o
          <6> QED
            BY <1>0, <2>2, <6>2, EnoughIsServed DEF r
        <5> QED
          BY <5>1
      <4>2. table = ref[c] /\ Seen(c)' = table
        BY <1>0, <1>1, <1>4, <2>2, <3>3, <4>1 DEF Seen
      <4>3. heap'[table] = r /\ delay'[c] = 0 /\ wait'[c] = RetryAfter(r)
        BY <1>0, <1>1, <1>4, <1>6, <2>2, <3>2, <4>2 DEF BucketType
      <4>4. r.tokens < Period
        BY <1>2, <2>2, ObjectTyped, BucketConstants
      <4>5. Enough(r, 0, RetryAfter(r))
        BY <1>0, <1>2, <4>4, WaitIsEnough
      <4> QED
        BY <3>3, <4>2, <4>3, <4>5
    <3>4. CASE d # c
      <4>1. /\ d \in patient /\ Seen(d)' = Seen(d) /\ wait'[d] = wait[d] /\ delay'[d] = delay[d]
        BY <1>1, <1>4, <2>2, <3>1, <3>4 DEF Seen, BucketType
      <4>2. Enough(heap[Seen(d)], delay[d], wait[d])
        BY <4>1 DEF PatienceInv
      <4>3. CASE Seen(d) = ref[c]
        <5>1. heap'[Seen(d)] = r
          BY <1>6, <3>1, <3>2, <4>1, <4>3
        <5>2. delay[d] \in 0 .. MaxDelay /\ wait[d] \in Nat
          BY <3>1 DEF BucketType
        <5>3. Enough(o, delay[d], wait[d])
          BY <4>2, <4>3 DEF o
        <5>4. Enough(r, delay[d], wait[d])
          BY <1>0, <5>2, <5>3, RefillKeepsEnough DEF r
        <5> QED
          BY <4>1, <5>1, <5>4
      <4>4. CASE Seen(d) # ref[c]
        <5>1. heap'[Seen(d)] = heap[Seen(d)]
          BY <1>6, <3>1, <4>1, <4>4
        <5> QED
          BY <4>1, <4>2, <5>1
      <4> QED
        BY <4>3, <4>4
    <3> QED
      BY <3>3, <3>4
  <2> QED
    BY <2>1, <2>2
<1> QED
  BY <1>7, <1>8, <1>9, <1>10

-----------------------------------------------------------------------------
LEMMA BucketNextInv == BucketInv /\ [BucketNext]_bucketVars => BucketInv'
<1> SUFFICES ASSUME BucketInv, [BucketNext]_bucketVars PROVE BucketInv'
  OBVIOUS
<1>1. CASE \E c \in Callers : SendRequest(c)
  BY <1>1, SendKeepsBucketInv
<1>2. CASE \E c \in Callers : FindBucket(c)
  BY <1>2, FindKeepsBucketInv
<1>3. CASE \E c \in Callers : Update(c)
  BY <1>3, UpdateKeepsBucketInv
<1>4. CASE \E c \in Callers : Create(c)
  BY <1>4, CreateKeepsBucketInv
<1>5. CASE \E c \in Callers : Take(c)
  BY <1>5, TakeKeepsBucketInv
<1>6. CASE CleanupStale
  BY <1>6, CleanupKeepsBucketInv
<1>7. CASE SecondPasses
  BY <1>7, SecondKeepsBucketInv
<1>8. CASE Watch
  BY <1>8, WatchKeepsBucketInv
<1>9. CASE UNCHANGED bucketVars
  <2>1. BucketType' /\ RefInv' /\ RateInv' /\ PatienceInv'
    BY <1>9 DEF BucketInv, BucketType, RefInv, RateInv, PatienceInv, InUse, Seen, Earned,
                bucketVars, held, history
  <2> QED
    BY <2>1 DEF BucketInv
<1> QED
  BY <1>1, <1>2, <1>3, <1>4, <1>5, <1>6, <1>7, <1>8, <1>9 DEF BucketNext

(* Allow and CleanupStale, of any number of calls, keep BucketInv. *)
THEOREM BucketSafe == BucketSpec => []BucketInv
BY BucketInitInv, BucketNextInv, PTL DEF BucketSpec

-----------------------------------------------------------------------------
(***************************************************************************)
(* The second burst: what calls get from a bucket the cleaner dropped under *)
(* them, beside what the table grants.  The cleaner drops a bucket only     *)
(* when it is worth two bursts, one for the dropped bucket and one for the  *)
(* bucket made in its place; and it drops no other while such calls last,   *)
(* since the new bucket is too young.  So what was granted, what the bucket *)
(* of the table is worth, and what the dropped one still owes, are paid for *)
(* by two bursts and the time since.                                        *)
(***************************************************************************)
Burst       == MaxLimit * (Period + MaxDelay)
Pair(b)     == AtMost(b.tokens + b.idle * MaxLimit, 2 * Burst)
Since(b, d) == IF b.idle > d THEN b.idle - d ELSE 0
Owed(b, d)  == AtMost(b.tokens + Since(b, d) * MaxLimit, Burst)

Spent     == (grants + late) * Period
TablePair == IF table = NoBucket THEN Burst ELSE Pair(heap[table])
Funds     == 2 * (MaxLimit * Period) + MaxLimit * watched + 3 * (MaxLimit * MaxDelay)

LateInv ==
  /\ late \in Nat
  /\ swept \subseteq Callers
  /\ Spent + TablePair <= Funds
  /\ \A c \in swept : Spent + TablePair + Owed(heap[ref[c]], delay[c]) <= Funds
  /\ \A c, d \in swept : ref[c] = ref[d]
  /\ \A c \in swept : table # NoBucket => heap[table].idle <= MaxDelay + delay[c]

LEMMA CapGrows ==
  ASSUME NEW x \in Nat, NEW y \in Nat, NEW m \in Nat, x <= y
  PROVE  AtMost(x, m) <= AtMost(y, m) /\ (x <= m => x <= AtMost(y, m))
BY DEF AtMost

LEMMA PairTyped ==
  ASSUME NEW b \in BucketObject
  PROVE  /\ Burst \in Nat /\ Burst = MaxLimit * Period + MaxLimit * MaxDelay
         /\ MaxLimit * Period \in Nat /\ MaxLimit * MaxDelay \in Nat
         /\ Pair(b) \in Nat /\ Pair(b) <= 2 * Burst
         /\ Pair(b) <= b.tokens + b.idle * MaxLimit
         /\ Worth(b) <= Pair(b)
<1>1. /\ Burst \in Nat /\ Burst = MaxLimit * Period + MaxLimit * MaxDelay
      /\ MaxLimit * Period \in Nat /\ MaxLimit * MaxDelay \in Nat
  BY BucketConstants DEF Burst
<1>2. b.tokens + b.idle * MaxLimit \in Nat
  BY ObjectTyped
<1> QED
  BY <1>1, <1>2 DEF Pair, Worth, AtMost, Burst

LEMMA OwedTyped ==
  ASSUME NEW b \in BucketObject, NEW d \in Nat
  PROVE  /\ Since(b, d) \in Nat /\ Since(b, d) * MaxLimit \in Nat
         /\ Owed(b, d) \in Nat /\ Owed(b, d) <= Burst
<1>1. Since(b, d) \in Nat
  BY ObjectTyped DEF Since
<1>2. Since(b, d) * MaxLimit \in Nat
  BY <1>1, BucketConstants
<1> QED
  BY <1>1, <1>2, PairTyped, ObjectTyped DEF Owed, AtMost

(* A bucket with fewer tokens, and one nobody refilled meanwhile, owes less. *)
LEMMA OwedFalls ==
  ASSUME NEW a \in BucketObject, NEW b \in BucketObject, NEW d \in Nat, NEW e \in Nat,
         a.tokens <= b.tokens, Since(a, d) <= Since(b, e)
  PROVE  Owed(a, d) <= Owed(b, e)
<1> DEFINE x == Since(a, d) * MaxLimit
           y == Since(b, e) * MaxLimit
<1>1. x <= y /\ x \in Nat /\ y \in Nat
  BY OwedTyped, BucketConstants, ProductGrows
<1> HIDE DEF x, y
<1>2. a.tokens + x \in Nat /\ b.tokens + y \in Nat /\ a.tokens + x <= b.tokens + y
  BY <1>1, ObjectTyped
<1>3. AtMost(a.tokens + x, Burst) <= AtMost(b.tokens + y, Burst)
  BY <1>2, PairTyped, CapGrows
<1> QED
  BY <1>3 DEF Owed, x, y

LEMMA PairFalls ==
  ASSUME NEW a \in BucketObject, NEW b \in BucketObject, a.idle = b.idle, a.tokens <= b.tokens
  PROVE  Pair(a) <= Pair(b)
BY ObjectTyped, PairTyped DEF Pair, AtMost

(* A refill to a reading of the clock e pays a call with an earlier reading *)
(* no more than it would have been paid anyway, and itself what it is owed. *)
LEMMA RefillOwed ==
  ASSUME NEW b \in BucketObject, b.tokens <= b.capacity * Period,
         NEW e \in 0 .. MaxDelay, NEW d \in 0 .. MaxDelay
  PROVE  /\ Refilled(b, e).tokens <= Owed(b, e)
         /\ d <= e => Refilled(b, e).tokens + Since(Refilled(b, e), d) * MaxLimit <= Owed(b, d)
<1> DEFINE r == Refilled(b, e)
           L == MaxLimit
<1>0. d \in Nat /\ e \in Nat /\ d <= MaxDelay /\ e <= MaxDelay /\ L \in Nat /\ MaxDelay \in Nat
  BY BucketConstants
<1>1. /\ r \in BucketObject /\ r.tokens <= L * Period /\ r.idle <= e /\ r.tokens \in Nat
      /\ r.idle \in Nat
  BY RefillTyped, ObjectTyped
<1>2. r.tokens <= b.tokens + Since(b, e) * L /\ r.idle = (IF b.idle > e THEN e ELSE b.idle)
  <2>1. CASE b.idle > e
    <3>1. /\ r.tokens = AtMost(b.tokens + (b.idle - e) * b.capacity, b.capacity * Period)
          /\ r.idle = e
      BY <2>1, ObjectTyped DEF Refilled, BucketObject
    <3>2. /\ b.idle - e \in Nat /\ (b.idle - e) * b.capacity \in Nat
          /\ (b.idle - e) * b.capacity <= (b.idle - e) * L
      BY <1>0, <2>1, ObjectTyped, ProductGrows
    <3>3. Since(b, e) = b.idle - e
      BY <2>1 DEF Since
    <3> DEFINE gain == (b.idle - e) * b.capacity
               most == Since(b, e) * L
    <3>4. gain \in Nat /\ most \in Nat /\ gain <= most /\ b.capacity * Period \in Nat
      BY <3>2, <3>3, OwedTyped, ObjectTyped, <1>0
    <3>5. r.tokens = AtMost(b.tokens + gain, b.capacity * Period)
      BY <3>1
    <3> HIDE DEF gain, most, r
    <3>6. r.tokens <= b.tokens + most
      BY <3>4, <3>5, ObjectTyped DEF AtMost
    <3> QED
      BY <2>1, <3>1, <3>6 DEF most
  <2>2. CASE ~(b.idle > e)
    <3>1. r = b
      BY <2>2 DEF Refilled
    <3> QED
      BY <1>0, <2>2, <3>1, OwedTyped, ObjectTyped
  <2> QED
    BY <2>1, <2>2
<1> HIDE DEF r
<1>3. r.tokens <= Owed(b, e)
  <2> DEFINE most == Since(b, e) * L
  <2>1. most \in Nat /\ r.tokens <= b.tokens + most /\ b.tokens + most \in Nat
    BY <1>0, <1>2, OwedTyped, ObjectTyped
  <2> HIDE DEF most
  <2>2. r.tokens <= Burst
    BY <1>1, PairTyped
  <2>3. r.tokens <= AtMost(b.tokens + most, Burst)
    BY <1>1, <2>1, <2>2, PairTyped, CapGrows
  <2> QED
    BY <2>3 DEF Owed, most
<1>4. ASSUME d <= e PROVE r.tokens + Since(r, d) * L <= Owed(b, d)
  <2>1. Since(b, e) + Since(r, d) = Since(b, d) /\ Since(r, d) <= MaxDelay
    BY <1>0, <1>1, <1>2, <1>4, ObjectTyped DEF Since
  <2>2. /\ Since(b, e) * L + Since(r, d) * L = Since(b, d) * L
        /\ Since(r, d) * L <= L * MaxDelay
    <3>1. Since(b, e) \in Nat /\ Since(r, d) \in Nat
      BY <1>0, <1>1, OwedTyped
    <3>2. \A x, y \in Nat : (x + y) * L = x * L + y * L
      BY <1>0
    <3>3. Since(r, d) * L <= L * MaxDelay
      BY <1>0, <2>1, <3>1, ProductGrows
    <3> QED
      BY <2>1, <3>1, <3>2, <3>3
  <2>3. /\ Since(b, e) * L \in Nat /\ Since(r, d) * L \in Nat /\ Since(b, d) * L \in Nat
        /\ L * Period \in Nat /\ L * MaxDelay \in Nat
    BY <1>0, <1>1, OwedTyped, PairTyped
  <2>4. r.tokens + Since(r, d) * L <= b.tokens + Since(b, d) * L
    BY <1>1, <1>2, <2>2, <2>3, ObjectTyped
  <2>5. r.tokens + Since(r, d) * L <= Burst
    BY <1>1, <2>2, <2>3, PairTyped
  <2> QED
    BY <2>4, <2>5 DEF Owed, AtMost
<1> QED
  BY <1>3, <1>4 DEF r

(* Numbers of the history. *)
LEMMA LateFacts ==
  ASSUME BucketInv, LateInv
  PROVE  /\ Spent \in Nat /\ TablePair \in Nat /\ Funds \in Nat /\ Burst \in Nat
         /\ MaxLimit * watched \in Nat
         /\ MaxLimit * Period \in Nat /\ MaxLimit * MaxDelay \in Nat
         /\ \A c \in swept : /\ c \in Callers /\ ref[c] \in Buckets /\ ref[c] # table /\ pc[c] # "idle"
                             /\ heap[ref[c]] \in BucketObject
                             /\ delay[c] \in 0 .. MaxDelay /\ delay[c] \in Nat
                             /\ Owed(heap[ref[c]], delay[c]) \in Nat
<1>1. grants \in Nat /\ late \in Nat /\ watched \in Nat
  BY DEF BucketInv, BucketType, LateInv
<1>2. Spent \in Nat
  BY <1>1, BucketConstants DEF Spent
<1>3. /\ Burst \in Nat /\ MaxLimit * Period \in Nat /\ MaxLimit * MaxDelay \in Nat
      /\ MaxLimit * watched \in Nat
  BY <1>1, BucketConstants DEF Burst
<1>4. TablePair \in Nat
  BY <1>3, BucketFacts, PairTyped DEF TablePair, BucketInv, BucketType
<1>5. Funds \in Nat
  BY <1>3 DEF Funds
<1>6. ASSUME NEW c \in swept
      PROVE  /\ c \in Callers /\ ref[c] \in Buckets /\ ref[c] # table /\ pc[c] # "idle"
             /\ heap[ref[c]] \in BucketObject
             /\ delay[c] \in 0 .. MaxDelay /\ delay[c] \in Nat
             /\ Owed(heap[ref[c]], delay[c]) \in Nat
  <2>1. c \in Callers
    BY DEF LateInv
  <2>2. ref[c] \in Buckets /\ ref[c] # table /\ pc[c] # "idle"
    BY <2>1 DEF BucketInv, BucketType, RefInv
  <2>3. heap[ref[c]] \in BucketObject /\ delay[c] \in 0 .. MaxDelay /\ delay[c] \in Nat
    BY <2>1, <2>2, BucketFacts, BucketConstants DEF BucketInv, BucketType
  <2> QED
    BY <2>1, <2>2, <2>3, OwedTyped
<1> QED
  BY <1>2, <1>3, <1>4, <1>5, <1>6

LEMMA LateInit == BucketInit => LateInv
<1> SUFFICES ASSUME BucketInit PROVE LateInv
  OBVIOUS
<1>1. Spent = 0 /\ MaxLimit * watched = 0
  BY BucketConstants DEF BucketInit, Spent
<1>2. TablePair = Burst /\ Burst = MaxLimit * Period + MaxLimit * MaxDelay
      /\ MaxLimit * Period \in Nat /\ MaxLimit * MaxDelay \in Nat
  BY BucketConstants DEF BucketInit, TablePair, Burst
<1>3. Spent + TablePair <= Funds
  BY <1>1, <1>2 DEF Funds
<1> QED
  BY <1>3 DEF LateInv, BucketInit

(* A step that grants nothing and makes no bucket worth more. *)
LEMMA NothingGranted ==
  ASSUME BucketInv, LateInv, BucketInv',
         UNCHANGED <<table, swept, watched, grants, late>>,
         \A c \in swept : ref'[c] = ref[c] /\ delay'[c] = delay[c],
         \A b \in Buckets : heap'[b].idle = heap[b].idle /\ heap'[b].tokens <= heap[b].tokens
  PROVE  LateInv'
<1>1. \A b \in Buckets : heap[b] \in BucketObject /\ heap'[b] \in BucketObject
  BY DEF BucketInv, BucketType
<1>2. TablePair' <= TablePair /\ TablePair' \in Nat
  <2>1. CASE table = NoBucket
    BY <2>1, LateFacts DEF TablePair
  <2>2. CASE table # NoBucket
    <3>1. table \in Buckets
      BY <2>2 DEF BucketInv, BucketType
    <3>2. Pair(heap'[table]) <= Pair(heap[table]) /\ Pair(heap'[table]) \in Nat
      BY <1>1, <3>1, PairFalls, PairTyped
    <3> QED
      BY <2>2, <3>2 DEF TablePair
  <2> QED
    BY <2>1, <2>2
<1>3. \A c \in swept : /\ Owed(heap'[ref[c]], delay[c]) <= Owed(heap[ref[c]], delay[c])
                       /\ Owed(heap'[ref[c]], delay[c]) \in Nat
  <2> TAKE c \in swept
  <2>1. /\ ref[c] \in Buckets /\ heap[ref[c]] \in BucketObject /\ heap'[ref[c]] \in BucketObject
        /\ delay[c] \in Nat /\ heap'[ref[c]].idle = heap[ref[c]].idle
        /\ heap'[ref[c]].tokens <= heap[ref[c]].tokens
    BY <1>1, LateFacts
  <2>2. Since(heap'[ref[c]], delay[c]) <= Since(heap[ref[c]], delay[c])
    BY <2>1, ObjectTyped DEF Since
  <2> QED
    BY <2>1, <2>2, OwedFalls, OwedTyped
<1>4. Spent' = Spent /\ Funds' = Funds
  BY DEF Spent, Funds
<1>5. Spent' + TablePair' <= Funds'
  BY <1>2, <1>4, LateFacts DEF LateInv
<1>6. \A c \in swept' : Spent' + TablePair' + Owed(heap'[ref'[c]], delay'[c]) <= Funds'
  <2> TAKE c \in swept'
  <2>1. c \in swept /\ Spent + TablePair + Owed(heap[ref[c]], delay[c]) <= Funds
    BY DEF LateInv
  <2> QED
    BY <1>2, <1>3, <1>4, <2>1, LateFacts
<1>7. \A c \in swept' : table' # NoBucket => heap'[table'].idle <= MaxDelay + delay'[c]
  BY DEF LateInv, BucketInv, BucketType
<1> QED
  BY <1>5, <1>6, <1>7 DEF LateInv

LEMMA SendKeepsLate ==
  ASSUME BucketInv, LateInv, BucketInv', NEW c \in Callers, SendRequest(c)
  PROVE  LateInv'
<1>1. c \notin swept
  BY DEF SendRequest, BucketInv, RefInv
<1>2. \A d \in swept : ref'[d] = ref[d] /\ delay'[d] = delay[d]
  BY <1>1, LateFacts DEF SendRequest, BucketInv, BucketType
<1>3. \A b \in Buckets : heap'[b].idle = heap[b].idle /\ heap'[b].tokens <= heap[b].tokens
  BY BucketFacts, ObjectTyped DEF SendRequest, BucketInv
<1> QED
  BY <1>2, <1>3, NothingGranted DEF SendRequest

LEMMA FindKeepsLate ==
  ASSUME BucketInv, LateInv, BucketInv', NEW c \in Callers, FindBucket(c)
  PROVE  LateInv'
<1>1. c \notin swept
  BY DEF FindBucket, BucketInv, RefInv
<1>2. \A d \in swept : ref'[d] = ref[d] /\ delay'[d] = delay[d]
  BY <1>1, LateFacts DEF FindBucket, BucketInv, BucketType
<1>3. \A b \in Buckets : heap'[b].idle = heap[b].idle /\ heap'[b].tokens <= heap[b].tokens
  BY BucketFacts, ObjectTyped DEF FindBucket, BucketInv
<1> QED
  BY <1>2, <1>3, NothingGranted DEF FindBucket, history

LEMMA UpdateKeepsLate ==
  ASSUME BucketInv, LateInv, BucketInv', NEW c \in Callers, Update(c)
  PROVE  LateInv'
<1> DEFINE o == heap[ref[c]]
           t == IF o.capacity = limit[c] THEN o.tokens ELSE AtMost(o.tokens, limit[c] * Period)
           n == [tokens |-> t, capacity |-> limit[c], idle |-> o.idle]
<1>0. ref[c] \in Buckets /\ limit[c] \in Nat
  BY BucketFacts DEF Update, BucketInv, BucketType, RefInv
<1>1. o \in BucketObject
  BY <1>0, BucketFacts DEF BucketInv
<1>2. limit[c] * Period \in Nat
  BY <1>0, BucketConstants
<1>3. t <= o.tokens
  BY <1>1, <1>2, ObjectTyped DEF AtMost
<1>4. heap' = [heap EXCEPT ![ref[c]] = n]
  <2>1. heap' = [heap EXCEPT ![ref[c]] = [o EXCEPT !.capacity = limit[c], !.tokens = t]]
    BY <1>0 DEF Update, BucketInv, BucketType
  <2>2. [o EXCEPT !.capacity = limit[c], !.tokens = t] = n
    BY <1>1, PlanChange
  <2> QED
    BY <2>1, <2>2
<1>5. n.idle = o.idle /\ n.tokens = t
  OBVIOUS
<1> HIDE DEF n, t
<1>6. \A b \in Buckets : heap'[b] = IF b = ref[c] THEN n ELSE heap[b]
  BY <1>4 DEF BucketInv, BucketType
<1>7. \A b \in Buckets : heap'[b].idle = heap[b].idle /\ heap'[b].tokens <= heap[b].tokens
  BY <1>3, <1>5, <1>6, BucketFacts, ObjectTyped DEF BucketInv
<1> QED
  BY <1>7, NothingGranted DEF Update, held

LEMMA CreateKeepsLate ==
  ASSUME BucketInv, LateInv, BucketInv', NEW c \in Callers, Create(c)
  PROVE  LateInv'
<1>0. c \notin swept /\ delay[c] \in 0 .. MaxDelay /\ limit[c] \in 1 .. MaxLimit /\ ref[c] = NoBucket
  BY BucketConstants DEF Create, BucketInv, RefInv, BucketType
<1>1. /\ UNCHANGED <<limit, delay, swept, watched, grants, late>>
      /\ \A d \in Callers : d # c => ref'[d] = ref[d]
  BY DEF Create, history, BucketInv, BucketType
<1>2. \A d \in swept : ref'[d] = ref[d] /\ delay'[d] = delay[d]
  BY <1>0, <1>1, LateFacts
<1>3. CASE table # NoBucket
  <2>1. UNCHANGED <<table, heap>>
    BY <1>3 DEF Create
  <2>2. \A b \in Buckets : heap'[b].idle = heap[b].idle /\ heap'[b].tokens <= heap[b].tokens
    BY <2>1, BucketFacts, ObjectTyped DEF BucketInv
  <2> QED
    BY <1>1, <1>2, <2>1, <2>2, NothingGranted
<1>4. CASE table = NoBucket
  <2>0. PICK b \in Buckets \ {ref[d] : d \in Callers} :
          table' = b /\ heap' = [heap EXCEPT ![b] = Full(c)]
    BY <1>4 DEF Create
  <2> DEFINE f == Full(c)
  <2>1. f = [tokens |-> limit[c] * Period, capacity |-> limit[c], idle |-> delay[c]]
    BY DEF Full
  <2>2. f.tokens = limit[c] * Period /\ f.idle = delay[c]
    BY <2>1
  <2> HIDE DEF f
  <2>3. heap'[b] = f /\ f \in BucketObject /\ b # NoBucket
        /\ \A x \in Buckets : x # b => heap'[x] = heap[x]
    BY <2>0, BucketConstants DEF BucketInv, BucketType, f
  <2>4. Pair(f) <= Burst /\ Pair(f) \in Nat
    <3>1. limit[c] * Period \in Nat /\ limit[c] * Period <= MaxLimit * Period
      BY <1>0, BucketConstants, ProductGrows
    <3>2. delay[c] * MaxLimit \in Nat /\ delay[c] * MaxLimit <= MaxLimit * MaxDelay
      BY <1>0, BucketConstants, ProductGrows
    <3> QED
      BY <2>2, <2>3, <3>1, <3>2, PairTyped
  <2>5. TablePair = Burst /\ TablePair' = Pair(f)
    BY <1>4, <2>0, <2>3 DEF TablePair
  <2>6. Spent' = Spent /\ Funds' = Funds
    BY <1>1 DEF Spent, Funds
  <2>7. Spent' + TablePair' <= Funds'
    BY <2>4, <2>5, <2>6, LateFacts DEF LateInv
  <2>8. \A d \in swept' : Spent' + TablePair' + Owed(heap'[ref'[d]], delay'[d]) <= Funds'
    <3> TAKE d \in swept'
    <3>1. /\ d \in swept /\ Spent + TablePair + Owed(heap[ref[d]], delay[d]) <= Funds
          /\ Owed(heap[ref[d]], delay[d]) \in Nat
      BY <1>1, LateFacts DEF LateInv
    <3>2. heap'[ref'[d]] = heap[ref[d]] /\ delay'[d] = delay[d]
      BY <1>2, <2>0, <2>3, <3>1, LateFacts
    <3> QED
      BY <2>4, <2>5, <2>6, <3>1, <3>2, LateFacts
  <2>9. \A d \in swept' : heap'[table'].idle <= MaxDelay + delay'[d]
    BY <1>0, <1>1, <2>0, <2>2, <2>3, LateFacts, BucketConstants
  <2> QED
    BY <1>1, <1>2, <2>7, <2>8, <2>9 DEF LateInv
<1> QED
  BY <1>3, <1>4

(* A bucket that is dropped was idle for so long that no call is left that  *)
(* lost an earlier one, and is worth two bursts.                            *)
LEMMA CleanupKeepsLate ==
  ASSUME BucketInv, LateInv, BucketInv', CleanupStale
  PROVE  LateInv'
<1> DEFINE o == heap[table]
<1>0. /\ table \in Buckets /\ table # NoBucket /\ o.idle > MaxIdle /\ table' = NoBucket
      /\ swept' = swept \cup {c \in Callers : ref[c] = table}
      /\ UNCHANGED <<pc, limit, delay, ref, watched, grants, late>>
  BY DEF CleanupStale, Stale, held, BucketInv, BucketType
<1>1. o \in BucketObject /\ o.idle \in Nat /\ o.tokens \in Nat
  BY <1>0, BucketFacts, ObjectTyped DEF BucketInv
<1>9. MaxIdle >= 2 * (Period + MaxDelay)
  BY BucketAssumption
<1>2. swept = {}
  <2> SUFFICES ASSUME NEW c \in swept PROVE FALSE
    OBVIOUS
  <2>1. o.idle <= MaxDelay + delay[c] /\ delay[c] <= MaxDelay /\ delay[c] \in Nat
    BY <1>0, LateFacts, BucketConstants DEF LateInv
  <2> QED
    BY <1>9, <1>0, <1>1, <2>1, BucketConstants
<1> HIDE DEF o
<1>3. Pair(o) = 2 * Burst
  <2> DEFINE x == o.idle * MaxLimit
  <2>1. MaxLimit * (2 * (Period + MaxDelay)) <= MaxLimit * o.idle
    BY <1>9, <1>0, <1>1, BucketConstants, ProductGrows
  <2>2. MaxLimit * (2 * (Period + MaxDelay)) = 2 * Burst
    <3> DEFINE s == Period + MaxDelay
    <3>1. s \in Nat /\ Burst = MaxLimit * s
      BY BucketConstants DEF Burst
    <3> HIDE DEF s
    <3>2. MaxLimit * (2 * s) = 2 * (MaxLimit * s)
      BY <3>1, BucketConstants
    <3> QED
      BY <3>1, <3>2 DEF s
  <2>3. 2 * Burst <= x /\ x \in Nat
    BY <1>1, <2>1, <2>2, BucketConstants
  <2> HIDE DEF x
  <2>4. AtMost(o.tokens + x, 2 * Burst) = 2 * Burst
    BY <1>1, <2>3, PairTyped DEF AtMost
  <2> QED
    BY <2>4 DEF Pair, x
<1>4. TablePair = 2 * Burst /\ TablePair' = Burst
  BY <1>0, <1>3 DEF TablePair, o
<1>5. Spent' = Spent /\ Funds' = Funds
  BY <1>0 DEF Spent, Funds
<1>6. Spent + 2 * Burst <= Funds
  BY <1>4 DEF LateInv
<1>7. Spent' + TablePair' <= Funds'
  BY <1>4, <1>5, <1>6, LateFacts
<1>8. \A c \in swept' : Spent' + TablePair' + Owed(heap'[ref'[c]], delay'[c]) <= Funds'
  <2> TAKE c \in swept'
  <2>1. c \in Callers /\ ref[c] = table
    BY <1>0, <1>2
  <2>2. heap'[table] \in BucketObject /\ delay[c] \in Nat
    BY <1>0, <2>1, BucketFacts DEF BucketInv, BucketType
  <2>3. Owed(heap'[table], delay[c]) \in Nat /\ Owed(heap'[table], delay[c]) <= Burst
    BY <2>2, OwedTyped
  <2> QED
    BY <1>0, <1>4, <1>5, <1>6, <2>1, <2>3, LateFacts
<1> QED
  BY <1>0, <1>2, <1>7, <1>8 DEF LateInv

LEMMA SecondKeepsLate ==
  ASSUME BucketInv, LateInv, BucketInv', SecondPasses
  PROVE  LateInv'
<1> DEFINE Older(b) == [b EXCEPT !.idle = AtMost(@ + 1, MaxAge)]
<1>0. /\ watched' = watched + 1
      /\ UNCHANGED <<table, pc, limit, ref, swept, grants, late>>
      /\ \A c \in Callers : pc[c] # "idle" => delay'[c] = delay[c] + 1
  BY DEF SecondPasses
<1>1. \A b \in Buckets : heap'[b] = IF heap[b] = Blank THEN Blank ELSE Older(heap[b])
  BY DEF SecondPasses
<1>2. ASSUME NEW b \in BucketObject
      PROVE  /\ Older(b) \in BucketObject /\ Older(b).tokens = b.tokens
             /\ Older(b).idle <= b.idle + 1 /\ Older(b).idle \in Nat
  <2> DEFINE i == AtMost(b.idle + 1, MaxAge)
  <2>1. i \in 0 .. MaxAge /\ i <= b.idle + 1 /\ i \in Nat
    BY ObjectTyped, BucketConstants DEF AtMost
  <2> HIDE DEF i
  <2>2. [b EXCEPT !.idle = i] = [tokens |-> b.tokens, capacity |-> b.capacity, idle |-> i]
    BY DEF BucketObject
  <2>3. [tokens |-> b.tokens, capacity |-> b.capacity, idle |-> i] \in BucketObject
    BY <2>1 DEF BucketObject
  <2> QED
    BY <2>1, <2>2, <2>3 DEF i
<1>3. \A b \in Buckets : InUse(b) => heap'[b] = Older(heap[b])
  BY <1>1 DEF BucketInv, BucketType, Blank
<1> HIDE DEF Older
<1>4. Funds' = Funds + MaxLimit /\ Spent' = Spent
  <2>1. MaxLimit * (watched + 1) = MaxLimit * watched + MaxLimit
    BY BucketConstants DEF BucketInv, BucketType
  <2> QED
    BY <1>0, <2>1, LateFacts, BucketConstants DEF Funds, Spent
<1>5. TablePair' <= TablePair + MaxLimit /\ TablePair' \in Nat
  <2>1. CASE table = NoBucket
    BY <1>0, <2>1, LateFacts, BucketConstants DEF TablePair
  <2>2. CASE table # NoBucket
    <3> DEFINE o == heap[table]
               a == Older(o)
    <3>1. o \in BucketObject /\ heap'[table] = a
      BY <1>3, <2>2, BucketFacts DEF BucketInv, BucketType, InUse
    <3>2. a \in BucketObject /\ a.tokens = o.tokens /\ a.idle <= o.idle + 1
      BY <1>2, <3>1
    <3> HIDE DEF a, o
    <3> DEFINE x == a.idle * MaxLimit
               y == o.idle * MaxLimit
    <3>3. x \in Nat /\ y \in Nat /\ x <= y + MaxLimit
      <4>1. a.idle * MaxLimit <= (o.idle + 1) * MaxLimit
        BY <3>1, <3>2, ObjectTyped, BucketConstants, ProductGrows
      <4>2. (o.idle + 1) * MaxLimit = o.idle * MaxLimit + MaxLimit
        BY <3>1, ObjectTyped, BucketConstants
      <4> QED
        BY <3>1, <3>2, <4>1, <4>2, ObjectTyped
    <3> HIDE DEF x, y
    <3>4. AtMost(a.tokens + x, 2 * Burst) <= AtMost(o.tokens + y, 2 * Burst) + MaxLimit
      BY <3>1, <3>2, <3>3, ObjectTyped, PairTyped, BucketConstants DEF AtMost
    <3>5. Pair(a) <= Pair(o) + MaxLimit
      BY <3>4 DEF Pair, x, y
    <3> QED
      BY <1>0, <2>2, <3>1, <3>2, <3>5, PairTyped DEF TablePair, o
  <2> QED
    BY <2>1, <2>2
<1>6. Spent' + TablePair' <= Funds'
  BY <1>4, <1>5, LateFacts, BucketConstants DEF LateInv
<1>7. \A c \in swept' : Spent' + TablePair' + Owed(heap'[ref'[c]], delay'[c]) <= Funds'
  <2> TAKE c \in swept'
  <2>1. /\ c \in swept /\ c \in Callers /\ ref'[c] = ref[c] /\ delay'[c] = delay[c] + 1
        /\ heap'[ref[c]] = Older(heap[ref[c]])
        /\ heap[ref[c]] \in BucketObject /\ delay[c] \in Nat
    BY <1>0, <1>3, LateFacts DEF InUse
  <2>2. Since(Older(heap[ref[c]]), delay[c] + 1) <= Since(heap[ref[c]], delay[c])
    BY <1>2, <2>1, ObjectTyped DEF Since
  <2>3. Owed(Older(heap[ref[c]]), delay[c] + 1) <= Owed(heap[ref[c]], delay[c])
        /\ Owed(Older(heap[ref[c]]), delay[c] + 1) \in Nat
    <3> DEFINE o == heap[ref[c]]
               a == Older(o)
               e == delay[c] + 1
    <3>1. /\ o \in BucketObject /\ a \in BucketObject /\ e \in Nat /\ delay[c] \in Nat
          /\ a.tokens <= o.tokens /\ Since(a, e) <= Since(o, delay[c])
      BY <1>2, <2>1, <2>2, ObjectTyped
    <3> HIDE DEF o, a, e
    <3>2. Owed(a, e) <= Owed(o, delay[c]) /\ Owed(a, e) \in Nat
      BY <3>1, OwedFalls, OwedTyped
    <3> QED
      BY <3>2 DEF o, a, e
  <2>4. Spent + TablePair + Owed(heap[ref[c]], delay[c]) <= Funds
    BY <2>1 DEF LateInv
  <2> QED
    BY <1>4, <1>5, <2>1, <2>3, <2>4, LateFacts, BucketConstants
<1>8. \A c \in swept' : table' # NoBucket => heap'[table'].idle <= MaxDelay + delay'[c]
  <2> SUFFICES ASSUME NEW c \in swept, table # NoBucket
               PROVE  heap'[table].idle <= MaxDelay + delay'[c]
    BY <1>0
  <2>1. heap[table] \in BucketObject /\ heap'[table] = Older(heap[table])
    BY <1>3, BucketFacts DEF BucketInv, BucketType, InUse
  <2>2. heap[table].idle <= MaxDelay + delay[c] /\ delay'[c] = delay[c] + 1 /\ delay[c] \in Nat
    BY <1>0, LateFacts DEF LateInv
  <2> QED
    BY <1>2, <2>1, <2>2, ObjectTyped, BucketConstants
<1> QED
  BY <1>0, <1>6, <1>7, <1>8 DEF LateInv

LEMMA WatchKeepsLate ==
  ASSUME BucketInv, LateInv, BucketInv', Watch
  PROVE  LateInv'
<1>0. /\ watched' = 0 /\ grants' = 0 /\ late' = 0
      /\ UNCHANGED <<table, heap, delay, ref, swept>>
  BY DEF Watch, held
<1>1. Spent' = 0 /\ Funds' = 2 * (MaxLimit * Period) + 3 * (MaxLimit * MaxDelay)
  <2>1. (0 + 0) * Period = 0 /\ MaxLimit * 0 = 0
    BY BucketConstants
  <2> QED
    BY <1>0, <2>1, LateFacts DEF Spent, Funds
<1>2. Burst = MaxLimit * Period + MaxLimit * MaxDelay
  BY BucketConstants DEF Burst
<1>3. TablePair' = TablePair
  BY <1>0 DEF TablePair
<1>4. TablePair <= 2 * Burst
  BY LateFacts, BucketFacts, PairTyped DEF TablePair, BucketInv, BucketType
<1>5. \A c \in swept : TablePair + Owed(heap[ref[c]], delay[c]) <= 2 * (MaxLimit * Period) + 3 * (MaxLimit * MaxDelay)
  <2> TAKE c \in swept
  <2>1. Owed(heap[ref[c]], delay[c]) <= Burst /\ Owed(heap[ref[c]], delay[c]) \in Nat
    BY LateFacts, OwedTyped
  <2>2. CASE table = NoBucket
    BY <1>2, <2>1, <2>2, LateFacts DEF TablePair
  <2>3. CASE table # NoBucket
    <3> DEFINE o == heap[table]
    <3>1. o \in BucketObject /\ TablePair = Pair(o)
      BY <2>3, BucketFacts DEF BucketInv, BucketType, TablePair
    <3>2. o.idle <= 2 * MaxDelay
      BY <2>3, LateFacts, BucketConstants, <3>1, ObjectTyped DEF LateInv
    <3> HIDE DEF o
    <3>3. o.idle * MaxLimit <= 2 * (MaxLimit * MaxDelay) /\ o.idle * MaxLimit \in Nat
      <4>1. o.idle * MaxLimit <= (2 * MaxDelay) * MaxLimit
        BY <3>1, <3>2, ObjectTyped, BucketConstants, ProductGrows
      <4>2. (2 * MaxDelay) * MaxLimit = 2 * (MaxLimit * MaxDelay)
        BY BucketConstants
      <4> QED
        BY <3>1, <4>1, <4>2, ObjectTyped
    <3>4. Pair(o) <= MaxLimit * Period + 2 * (MaxLimit * MaxDelay)
      BY <3>1, <3>3, PairTyped, ObjectTyped
    <3> QED
      BY <1>2, <2>1, <3>1, <3>4, LateFacts
  <2> QED
    BY <2>2, <2>3
<1>6. Spent' + TablePair' <= Funds'
  BY <1>1, <1>2, <1>3, <1>4, LateFacts
<1>7. \A c \in swept' : Spent' + TablePair' + Owed(heap'[ref'[c]], delay'[c]) <= Funds'
  BY <1>0, <1>1, <1>3, <1>5, LateFacts
<1> QED
  BY <1>0, <1>6, <1>7 DEF LateInv

(* A token taken is one the bucket was worth, or owed. *)
LEMMA TakeKeepsLate ==
  ASSUME BucketInv, LateInv, BucketInv', NEW c \in Callers, Take(c)
  PROVE  LateInv'
<1> DEFINE o == heap[ref[c]]
           e == delay[c]
           r == Refilled(o, e)
           Served == r.tokens >= Period
           n == IF Served THEN [r EXCEPT !.tokens = @ - Period] ELSE r
           cost == IF Served THEN Period ELSE 0
           Reached(b) == b = table \/ \E d \in Callers : ref'[d] = b
<1>0. /\ pc[c] = "take" /\ ref[c] \in Buckets /\ e \in 0 .. MaxDelay
      /\ c \in swept <=> ref[c] # table
      /\ o \in BucketObject /\ o.tokens <= o.capacity * Period
  BY DEF Take, BucketInv, BucketType, RefInv
<1>1. /\ UNCHANGED <<table, watched>> /\ swept' = swept \ {c}
      /\ \A d \in Callers : d # c => ref'[d] = ref[d] /\ delay'[d] = delay[d]
  BY DEF Take, BucketInv, BucketType
<1>2. /\ r \in BucketObject /\ r.tokens \in Nat /\ r.idle \in Nat /\ r.idle <= e /\ r.idle <= o.idle
      /\ r.tokens + r.idle * MaxLimit <= Pair(o)
  <2>1. r \in BucketObject /\ r.idle <= e /\ r.tokens + r.idle * MaxLimit <= Worth(o)
    BY <1>0, RefillTyped, RefillWorth
  <2>2. r.idle <= o.idle
    <3>1. CASE o.idle > e
      BY <2>1, <3>1, <1>0, ObjectTyped, BucketConstants
    <3>2. CASE ~(o.idle > e)
      BY <1>0, <3>2, ObjectTyped DEF Refilled
    <3> QED
      BY <3>1, <3>2
  <2>3. Worth(o) <= Pair(o) /\ Pair(o) \in Nat /\ Worth(o) \in Nat
    BY <1>0, PairTyped, WorthTyped
  <2>4. r.tokens \in Nat /\ r.idle \in Nat /\ r.idle * MaxLimit \in Nat
    BY <2>1, ObjectTyped
  <2> HIDE DEF r, o
  <2> QED
    BY <2>1, <2>2, <2>3, <2>4
<1>3. heap' = Collect([heap EXCEPT ![ref[c]] = n], table, ref')
  <2>1. CASE Served
    BY <2>1 DEF Take
  <2>2. CASE ~Served
    BY <2>2 DEF Take
  <2> QED
    BY <2>1, <2>2
<1>4. /\ Served => IF c \in swept THEN late' = late + 1 /\ grants' = grants
                                  ELSE grants' = grants + 1 /\ late' = late
      /\ ~Served => grants' = grants /\ late' = late
  BY DEF Take
<1>5. /\ r.tokens <= Owed(o, e)
      /\ \A d \in 0 .. MaxDelay : d <= e => r.tokens + Since(r, d) * MaxLimit <= Owed(o, d)
  BY <1>0, RefillOwed
<1> HIDE DEF o, r
<1>6. /\ n \in BucketObject /\ n.idle = r.idle /\ n.tokens + cost = r.tokens
      /\ cost \in Nat /\ n.tokens \in Nat
  <2>1. CASE Served
    <3>1. r.tokens - Period \in 0 .. MaxLimit * Period /\ r.tokens - Period \in Nat
      BY <1>2, <2>1, ObjectTyped, BucketConstants
    <3>2. n = [r EXCEPT !.tokens = r.tokens - Period]
      BY <2>1
    <3> QED
      BY <1>2, <2>1, <3>1, <3>2, BucketConstants DEF BucketObject
  <2>2. CASE ~Served
    BY <1>2, <2>2
  <2> QED
    BY <2>1, <2>2
<1>7. Spent' = Spent + cost /\ Funds' = Funds
  <2>1. grants \in Nat /\ late \in Nat /\ Period \in Nat
    BY BucketConstants DEF BucketInv, BucketType, LateInv
  <2>2. (grants + late + 1) * Period = (grants + late) * Period + Period
    BY <2>1
  <2>3. CASE Served
    <3>1. grants' + late' = grants + late + 1
      BY <1>4, <2>1, <2>3
    <3> QED
      BY <1>1, <2>2, <2>3, <3>1 DEF Spent, Funds
  <2>4. CASE ~Served
    BY <1>1, <1>4, <2>4, LateFacts DEF Spent, Funds
  <2> QED
    BY <2>3, <2>4
<1> HIDE DEF n, cost
<1>8. \A b \in Buckets : heap'[b] = IF ~Reached(b) THEN Blank ELSE IF b = ref[c] THEN n ELSE heap[b]
  BY <1>3 DEF Collect, BucketInv, BucketType
<1>9. late' \in Nat /\ swept' \subseteq swept
  BY <1>1, <1>4 DEF LateInv
<1>10. \A d \in swept' : /\ d \in swept /\ d \in Callers /\ d # c /\ ref'[d] = ref[d] /\ delay'[d] = delay[d]
                         /\ Reached(ref[d]) /\ ref[d] \in Buckets
  BY <1>1, LateFacts
<1>11. CASE ref[c] = table
  <2>1. table # NoBucket /\ heap'[table] = n /\ c \notin swept
    BY <1>0, <1>8, <1>11, BucketConstants
  <2>2. TablePair = Pair(o) /\ TablePair' = Pair(n)
    BY <1>1, <1>11, <2>1 DEF TablePair, o
  <2>3. Pair(n) + cost <= Pair(o) /\ Pair(n) \in Nat
    <3> DEFINE x == r.idle * MaxLimit
    <3>1. x \in Nat /\ Pair(n) <= n.tokens + x /\ Pair(n) \in Nat /\ Pair(o) \in Nat
      BY <1>0, <1>2, <1>6, PairTyped, BucketConstants
    <3>2. r.tokens + x <= Pair(o)
      BY <1>2
    <3> HIDE DEF x
    <3> QED
      BY <1>2, <1>6, <3>1, <3>2
  <2>4. Spent' + TablePair' <= Funds'
    BY <1>6, <1>7, <2>2, <2>3, LateFacts DEF LateInv
  <2>5. \A d \in swept' : Spent' + TablePair' + Owed(heap'[ref'[d]], delay'[d]) <= Funds'
    <3> TAKE d \in swept'
    <3>1. heap'[ref'[d]] = heap[ref[d]] /\ delay'[d] = delay[d]
      BY <1>8, <1>10, <1>11, LateFacts
    <3>2. /\ Spent + TablePair + Owed(heap[ref[d]], delay[d]) <= Funds
          /\ Owed(heap[ref[d]], delay[d]) \in Nat
      BY <1>10, LateFacts DEF LateInv
    <3> QED
      BY <1>6, <1>7, <2>2, <2>3, <3>1, <3>2, LateFacts
  <2>6. \A d \in swept' : heap'[table].idle <= MaxDelay + delay'[d]
    <3> TAKE d \in swept'
    <3>1. heap[table].idle <= MaxDelay + delay[d] /\ heap[table] = o /\ delay'[d] = delay[d]
      BY <1>10, <1>11, <2>1 DEF LateInv, o
    <3> QED
      BY <1>0, <1>2, <1>6, <1>10, <2>1, <3>1, LateFacts, ObjectTyped, BucketConstants
  <2> QED
    BY <1>1, <1>9, <1>10, <2>4, <2>5, <2>6 DEF LateInv
<1>12. CASE ref[c] # table
  <2>1. c \in swept /\ Spent + TablePair + Owed(o, e) <= Funds /\ Owed(o, e) \in Nat
    BY <1>0, <1>12, LateFacts DEF LateInv, o
  <2>2. TablePair' = TablePair
    <3>1. table # NoBucket => heap'[table] = heap[table]
      BY <1>8, <1>12 DEF BucketInv, BucketType
    <3> QED
      BY <1>1, <3>1 DEF TablePair
  <2>3. cost <= r.tokens
    BY <1>2, <1>6
  <2>4. Spent' + TablePair' <= Funds'
    BY <1>2, <1>5, <1>6, <1>7, <2>1, <2>2, <2>3, LateFacts
  <2>5. \A d \in swept' : Spent' + TablePair' + Owed(heap'[ref'[d]], delay'[d]) <= Funds'
    <3> TAKE d \in swept'
    <3> DEFINE f == delay[d]
    <3>1. ref[d] = ref[c] /\ heap'[ref'[d]] = n /\ delay'[d] = f
      BY <1>8, <1>10, <2>1 DEF LateInv
    <3>2. f \in 0 .. MaxDelay /\ f \in Nat /\ e \in Nat
      BY <1>0, <1>10, LateFacts, BucketConstants
    <3>3. Owed(n, f) \in Nat /\ Owed(o, f) \in Nat /\ Since(n, f) \in Nat
      BY <1>0, <1>6, <3>2, OwedTyped
    <3>4. Spent + TablePair + Owed(o, f) <= Funds
      BY <1>10, <3>1 DEF LateInv, o
    <3> HIDE DEF f, e
    <3> DEFINE x == Since(n, f) * MaxLimit
    <3>5. x \in Nat /\ Owed(n, f) <= n.tokens + x
      BY <1>6, <3>2, OwedTyped, ObjectTyped, PairTyped DEF Owed, AtMost
    <3>6. CASE f <= e
      <4>1. Since(r, f) = Since(n, f)
        BY <1>6 DEF Since
      <4>2. r.tokens + x <= Owed(o, f)
        BY <1>5, <3>2, <3>6, <4>1
      <4> HIDE DEF x
      <4>3. Owed(n, f) + cost <= Owed(o, f)
        BY <1>2, <1>6, <3>3, <3>5, <4>2
      <4> QED
        BY <1>6, <1>7, <2>2, <3>1, <3>3, <3>4, <4>3, LateFacts
    <3>7. CASE ~(f <= e)
      <4>1. Since(n, f) = 0
        BY <1>2, <1>6, <3>2, <3>7 DEF Since
      <4>2. x = 0
        BY <4>1, BucketConstants
      <4> HIDE DEF x
      <4>3. Owed(n, f) + cost <= Owed(o, e)
        BY <1>2, <1>5, <1>6, <2>1, <3>3, <3>5, <4>2
      <4> QED
        BY <1>6, <1>7, <2>1, <2>2, <3>1, <3>3, <4>3, LateFacts
    <3> QED
      BY <3>6, <3>7
  <2>6. \A d \in swept' : table # NoBucket => heap'[table].idle <= MaxDelay + delay'[d]
    <3>1. table # NoBucket => heap'[table] = heap[table]
      BY <1>8, <1>12 DEF BucketInv, BucketType
    <3> QED
      BY <1>10, <3>1 DEF LateInv
  <2> QED
    BY <1>1, <1>9, <1>10, <2>4, <2>5, <2>6 DEF LateInv
<1> QED
  BY <1>11, <1>12

LEMMA LateNext == BucketInv /\ LateInv /\ [BucketNext]_bucketVars => LateInv'
<1> SUFFICES ASSUME BucketInv, LateInv, [BucketNext]_bucketVars PROVE LateInv'
  OBVIOUS
<1>0. BucketInv'
  BY BucketNextInv
<1>1. CASE \E c \in Callers : SendRequest(c)
  BY <1>0, <1>1, SendKeepsLate
<1>2. CASE \E c \in Callers : FindBucket(c)
  BY <1>0, <1>2, FindKeepsLate
<1>3. CASE \E c \in Callers : Update(c)
  BY <1>0, <1>3, UpdateKeepsLate
<1>4. CASE \E c \in Callers : Create(c)
  BY <1>0, <1>4, CreateKeepsLate
<1>5. CASE \E c \in Callers : Take(c)
  BY <1>0, <1>5, TakeKeepsLate
<1>6. CASE CleanupStale
  BY <1>0, <1>6, CleanupKeepsLate
<1>7. CASE SecondPasses
  BY <1>0, <1>7, SecondKeepsLate
<1>8. CASE Watch
  BY <1>0, <1>8, WatchKeepsLate
<1>9. CASE UNCHANGED bucketVars
  BY <1>9 DEF LateInv, Spent, TablePair, Funds, Owed, Pair, Since, bucketVars, held, history
<1> QED
  BY <1>1, <1>2, <1>3, <1>4, <1>5, <1>6, <1>7, <1>8, <1>9 DEF BucketNext

(* Over no stretch of time does a tenant get more from the fallback than    *)
(* two bursts of the largest plan and what that plan earns meanwhile, though *)
(* buckets are created twice, change plan, and are dropped by the cleaner   *)
(* under calls; and from the bucket of the table no more than one burst and *)
(* what the plan earns.                                                     *)
THEOREM FallbackRateBounded == BucketSpec => []RateBounded
<1>1. BucketInv /\ LateInv => RateBounded
  <2> SUFFICES ASSUME BucketInv, LateInv PROVE RateBounded
    OBVIOUS
  <2>1. /\ grants * Period \in Nat /\ Earned \in Nat /\ MaxLimit * Period \in Nat
        /\ table # NoBucket => Worth(heap[table]) \in Nat
    BY BucketFacts, WorthTyped DEF BucketInv, BucketType
  <2>2. grants * Period <= MaxLimit * Period + MaxLimit * (watched + MaxDelay)
    BY <2>1 DEF BucketInv, RateInv, Earned
  <2>3. Spent <= Funds
    BY LateFacts DEF LateInv
  <2>4. Funds = 2 * MaxLimit * Period + MaxLimit * (watched + 3 * MaxDelay)
    BY BucketConstants DEF Funds, BucketInv, BucketType
  <2> QED
    BY <2>2, <2>3, <2>4 DEF RateBounded, Spent
<1>2. BucketInit /\ [][BucketNext]_bucketVars /\ []BucketInv => []LateInv
  BY LateInit, LateNext, PTL
<1> QED
  BY <1>1, <1>2, BucketSafe, PTL DEF BucketSpec

(* The Retry-After of a 429 suffices: a client that comes back then gets    *)
(* the token, unless somebody took it or the plan changed.                  *)
THEOREM WaitingSuffices == BucketSpec => RetryAfterSuffices
<1>1. ASSUME BucketInv, BucketNext
      PROVE  \A c \in patient : pc[c] = "take" /\ pc'[c] = "idle" => c \notin patient'
  <2> SUFFICES ASSUME NEW c \in patient, pc[c] = "take", pc'[c] = "idle" PROVE c \notin patient'
    BY SMTT(60)
  <2>0. c \in Callers /\ pc \in [Callers -> Stages]
    BY <1>1, SMTT(60) DEF BucketInv, PatienceInv, BucketType
  <2>1. Take(c)
    BY <1>1, <2>0 DEF BucketNext, SendRequest, FindBucket, Update, Create, Take, Goto,
                      CleanupStale, SecondPasses, Watch
  <2>2. /\ ref[c] \in Buckets /\ ref[c] # NoBucket /\ InUse(ref[c])
        /\ delay[c] \in 0 .. MaxDelay /\ wait[c] = 0
    BY <1>1, <2>0, BucketConstants DEF BucketInv, BucketType, RefInv, InUse
  <2>3. /\ heap[ref[c]] \in BucketObject /\ heap[ref[c]].capacity >= 1
        /\ heap[ref[c]].tokens <= heap[ref[c]].capacity * Period
    BY <1>1, <2>2 DEF BucketInv, BucketType
  <2>4. Enough(heap[ref[c]], delay[c], 0)
    BY <1>1, <2>2 DEF BucketInv, PatienceInv, Seen
  <2>5. Refilled(heap[ref[c]], delay[c]).tokens >= Period
    BY <2>2, <2>3, <2>4, EnoughIsServed
  <2> QED
    BY <2>1, <2>5 DEF Take
<1>2. BucketInv /\ [BucketNext]_bucketVars
      => [\A c \in patient : pc[c] = "take" /\ pc'[c] = "idle" => c \notin patient']_bucketVars
  BY <1>1
<1> QED
  BY <1>2, BucketSafe, PTL DEF BucketSpec, RetryAfterSuffices
=============================================================================
