------------------------------ MODULE PlanCache ------------------------------
(***************************************************************************)
(* The cache of plan limits in front of the rate limiter                   *)
(* (RateLimitMiddleware.getOrgRateLimit), on one replica, for one          *)
(* organization and one of its members.  Requests with an API key look the *)
(* organization up; requests with a session look up an "oidc:" key of      *)
(* their own, whose entry is made from the organization's entry.           *)
(*                                                                         *)
(* Both maps' entries live one minute from the time the lookup BEGAN       *)
(* (now is read first).  An entry is described by the ticks it has left.   *)
(***************************************************************************)
EXTENDS Integers

CONSTANTS
  Calls,     \* goroutines in getOrgRateLimit
  Plans,     \* plans the organization may have
  Default,   \* the limit taken when the database cannot be asked
  TTL,       \* one minute, in ticks
  MaxQuery,  \* ticks a lookup takes at most
  Faults     \* {"dberror"} if a query may fail, {} if not

ASSUME PlanAssumption ==
  /\ Default \in Plans
  /\ TTL \in Nat \ {0}
  /\ MaxQuery \in Nat
  /\ MaxQuery < TTL
  /\ Faults \subseteq {"dberror"}

VARIABLES
  plan,   \* the organization's plan in the database
  entry,  \* the cache: the plan each key's entry has, and the ticks it has left
  call,   \* what each lookup is doing
  wrong,  \* history: ticks for which the entry of each key has been wrong
  used    \* history: ticks for which the last answer of each lookup had been wrong

vars == <<plan, entry, call, wrong, used>>

Keys == {"org", "oidc"}
PCs  == {"idle", "resolve", "query", "storeOrg", "storeOidc"}

(***************************************************************************)
(* A lookup: its key; the ticks since it read the clock for "oidc" (outer) *)
(* and for "org" (inner); the plan it found, and for how long that plan    *)
(* has been wrong.                                                         *)
(***************************************************************************)
Lookup(pc, key, outer, inner, found, off) ==
  [pc |-> pc, key |-> key, outer |-> outer, inner |-> inner, found |-> found, off |-> off]

Idle == Lookup("idle", "org", 0, 0, Default, 0)

Init ==
  /\ plan \in Plans
  /\ entry = [k \in Keys |-> [plan |-> Default, left |-> 0]]
  /\ call = [c \in Calls |-> Idle]
  /\ wrong = [k \in Keys |-> 0]
  /\ used = [c \in Calls |-> 0]

Live(k) == entry[k].left > 0

Answer(c, off) ==
  /\ call' = [call EXCEPT ![c] = Idle]
  /\ used' = [used EXCEPT ![c] = off]

\* A live entry answers; else the lookup goes on with its own reading of the clock.
Arrive(c, k) ==
  /\ call[c].pc = "idle"
  /\ IF Live(k)
       THEN Answer(c, wrong[k])
       ELSE /\ call' = [call EXCEPT ![c] =
                          Lookup(IF k = "org" THEN "query" ELSE "resolve", k, 0, 0, Default, 0)]
            /\ UNCHANGED used
  /\ UNCHANGED <<plan, entry, wrong>>

\* The member's organization is found, and looked up like any other: its live
\* entry answers, or the database is asked.
Resolve(c) ==
  /\ call[c].pc = "resolve"
  /\ call' = [call EXCEPT ![c] =
       IF Live("org")
         THEN Lookup("storeOidc", "oidc", call[c].outer, 0, entry["org"].plan, wrong["org"])
         ELSE Lookup("query", "oidc", call[c].outer, 0, Default, 0)]
  /\ UNCHANGED <<plan, entry, wrong, used>>

\* The member's organization is not found: the default, which is not cached.
ResolveFails(c) ==
  /\ "dberror" \in Faults
  /\ call[c].pc = "resolve"
  /\ Answer(c, 0)
  /\ UNCHANGED <<plan, entry, wrong>>

\* GetOrganizationPlan: the plan, or the default after an error.
Query(c) ==
  /\ call[c].pc = "query"
  /\ \E p \in {plan} \cup (IF "dberror" \in Faults THEN {Default} ELSE {}) :
       call' = [call EXCEPT ![c] = Lookup("storeOrg", call[c].key, call[c].outer, call[c].inner, p, 0)]
  /\ UNCHANGED <<plan, entry, wrong, used>>

\* Mutant: the entry lives from the end of the lookup.
MutantLeft(age) == TTL

Left(age) == TTL - age

Store(c, k, age) ==
  /\ entry' = [entry EXCEPT ![k] = [plan |-> call[c].found, left |-> Left(age)]]
  /\ wrong' = [wrong EXCEPT ![k] = call[c].off]

\* Under m.mu.
StoreOrg(c) ==
  /\ call[c].pc = "storeOrg"
  /\ Store(c, "org", call[c].inner)
  /\ IF call[c].key = "org"
       THEN Answer(c, call[c].off)
       ELSE /\ call' = [call EXCEPT ![c] =
                 Lookup("storeOidc", "oidc", call[c].outer, 0, call[c].found, call[c].off)]
            /\ UNCHANGED used
  /\ UNCHANGED plan

StoreOidc(c) ==
  /\ call[c].pc = "storeOidc"
  /\ Store(c, "oidc", call[c].outer)
  /\ Answer(c, call[c].off)
  /\ UNCHANGED plan

\* The organization changes its plan: what has that plan is right again.
ChangePlan(p) ==
  /\ plan # p
  /\ plan' = p
  /\ wrong' = [k \in Keys |-> IF entry[k].plan = p THEN 0 ELSE wrong[k]]
  /\ call' = [c \in Calls |->
       Lookup(call[c].pc, call[c].key, call[c].outer, call[c].inner, call[c].found,
              IF call[c].found = p THEN 0 ELSE call[c].off)]
  /\ UNCHANGED <<entry, used>>

Aged(left) == IF left > 0 THEN left - 1 ELSE 0

Holding(c) == call[c].pc \in {"storeOrg", "storeOidc"}

\* No lookup, inner or outer, takes longer than MaxQuery.
Tick ==
  /\ \A c \in Calls : call[c].outer < MaxQuery /\ call[c].inner < MaxQuery
  /\ entry' = [k \in Keys |-> [plan |-> entry[k].plan, left |-> Aged(entry[k].left)]]
  /\ wrong' = [k \in Keys |-> IF Live(k) /\ entry[k].plan # plan THEN wrong[k] + 1 ELSE 0]
  /\ call' = [c \in Calls |->
       Lookup(call[c].pc, call[c].key,
              IF call[c].pc # "idle" /\ call[c].key = "oidc" THEN call[c].outer + 1 ELSE 0,
              IF call[c].pc \in {"query", "storeOrg"} THEN call[c].inner + 1 ELSE 0,
              call[c].found,
              IF Holding(c) /\ call[c].found # plan THEN call[c].off + 1 ELSE 0)]
  /\ UNCHANGED <<plan, used>>

Next ==
  \/ \E c \in Calls :
       \/ \E k \in Keys : Arrive(c, k)
       \/ Resolve(c) \/ ResolveFails(c) \/ Query(c) \/ StoreOrg(c) \/ StoreOidc(c)
  \/ \E p \in Plans : ChangePlan(p)
  \/ Tick

Spec == Init /\ [][Next]_vars

-----------------------------------------------------------------------------
(* Every variable keeps the type the code gives it. *)
TypeOK ==
  /\ plan \in Plans
  /\ entry \in [Keys -> [plan : Plans, left : 0 .. TTL]]
  /\ call \in [Calls -> [pc : PCs, key : Keys, outer : 0 .. MaxQuery, inner : 0 .. MaxQuery,
                         found : Plans, off : Nat]]
  /\ wrong \in [Keys -> Nat]
  /\ used \in [Calls -> Nat]

(* The organization's entry is never wrong for a minute: slow lookups that *)
(* overwrite newer entries do not prolong a limit that no longer applies,  *)
(* nor the default that was cached after an error.                         *)
OrgWrongWithinTTL == Live("org") => wrong["org"] + entry["org"].left <= TTL

(* Whatever the key, a limit that no longer applies is in force for less   *)
(* than two minutes.  (Not one, as getOrgRateLimit's "1-minute" cache      *)
(* suggests: a member's entry is filled from the organization's.)          *)
WrongWithinTwoTTL == \A c \in Calls : used[c] < 2 * TTL
=============================================================================
