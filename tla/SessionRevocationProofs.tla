----------------------- MODULE SessionRevocationProofs -----------------------
(***************************************************************************)
(* Safety of SessionRevocation for every number of replicas, sessions,     *)
(* validations, logouts and resets, every cache lifetime and every bound   *)
(* of the time a lookup takes.                                             *)
(***************************************************************************)
EXTENDS SessionRevocation, TLAPS

(* dead counts only while a session is revoked. *)
DeadIsRevoked == \A s \in Sessions : ~Revoked(s) => dead[s] = 0

(* A validation that asks the database knows whom it asks for. *)
LookupsKnown ==
  \A c \in Checks : check[c].pc # "idle" =>
    /\ check[c].replica \in Replicas
    /\ check[c].session \in Sessions

(* An answer of the database that would let a revoked session pass is      *)
(* older than the revocation.                                              *)
LookupLag ==
  \A c \in Checks : check[c].pc = "write" =>
    \A s \in Sessions :
      (Revoked(s) /\ ~Before(s, check[c].seen)) => dead[s] <= check[c].age

(* A live entry that lets a revoked session pass has that much less to     *)
(* live.                                                                   *)
CacheLag ==
  \A r \in Replicas :
    /\ cache[r].expires <= now + CacheTTL
    /\ Live(r) =>
         \A s \in Sessions :
           (Revoked(s) /\ ~Before(s, cache[r].validFrom)) =>
             dead[s] + (cache[r].expires - now) <= CacheTTL + MaxQuery

LagInv ==
  /\ TypeOK
  /\ DeadIsRevoked
  /\ LookupsKnown
  /\ LookupLag
  /\ CacheLag
  /\ LagBounded

(* The token on record was not redeemed, nor was one that was never sent. *)
PendingIsFresh ==
  \A t \in ResetTokens : (t = reset.token \/ t \notin mailed) => redeemed[t] = 0

(* A confirmation carries a token that was sent. *)
ConfirmsMailed ==
  \A p \in Confirms : confirm[p].pc = "consume" => confirm[p].token \in mailed

ResetInv ==
  /\ TypeOK
  /\ PendingIsFresh
  /\ ConfirmsMailed
  /\ RedeemedOnce

-----------------------------------------------------------------------------
LEMMA InitInv == Init => LagInv /\ ResetInv
<1> SUFFICES ASSUME Init PROVE LagInv /\ ResetInv
  OBVIOUS
<1> USE RevocationAssumption DEF Init
<1>1. TypeOK
  <2>1. check \in [Checks -> [pc : {"idle", "query", "write"}, replica : Replicas \cup {NoOne},
                           session : Sessions \cup {NoOne}, seen : Cutoffs, age : 0 .. MaxQuery]]
    BY DEF Idle, Lookup, Cutoffs
  <2>2. logout \in [Logouts -> [pc : {"new", "invalidate", "done"}, replica : Replicas]]
    BY DEF Cutoffs
  <2>3. reset \in [token : ResetTokens \cup {NoOne}, expires : 0 .. Horizon + ResetTTL]
    BY DEF NoReset
  <2>4. cache \in [Replicas -> [validFrom : Cutoffs, expires : 0 .. Horizon + CacheTTL]]
    BY DEF NoEntry, Cutoffs
  <2>5. confirm \in [Confirms -> [pc : {"new", "consume", "done"},
                               token : ResetTokens \cup {NoOne}, at : Times]]
    BY DEF Times
  <2> QED
    BY <2>1, <2>2, <2>3, <2>4, <2>5 DEF TypeOK, Times, Cutoffs
<1>2. \A c \in Checks : check[c].pc = "idle" /\ lag[c] = 0
  BY DEF Idle, Lookup
<1>3. \A r \in Replicas : cache[r].expires = 0
  BY DEF NoEntry
<1>4. DeadIsRevoked /\ LookupsKnown /\ LookupLag /\ CacheLag /\ LagBounded
  BY <1>2, <1>3 DEF DeadIsRevoked, LookupsKnown, LookupLag, CacheLag, LagBounded, Live
<1>5. PendingIsFresh /\ ConfirmsMailed /\ RedeemedOnce
  BY DEF PendingIsFresh, ConfirmsMailed, RedeemedOnce, NoReset
<1> QED
  BY <1>1, <1>4, <1>5 DEF LagInv, ResetInv

LEMMA Arithmetic ==
  /\ CacheTTL \in Nat /\ CacheTTL > 0 /\ MaxQuery \in Nat /\ ResetTTL \in Nat /\ Horizon \in Nat
  /\ Times \subseteq Nat /\ Times \subseteq Cutoffs /\ Cutoffs \subseteq Int
  /\ \A n \in Nat : n \div Second \in Nat
BY RevocationAssumption DEF Times, Cutoffs, Epoch

-----------------------------------------------------------------------------
(* The types. *)

LEMMA DecideTyped ==
  ASSUME TypeOK, NEW c \in Checks, NEW s \in Sessions, NEW cutoff, Decide(c, s, cutoff)
  PROVE  lag' \in [Checks -> Nat]
<1>1. dead[s] \in Nat /\ lag \in [Checks -> Nat]
  BY DEF TypeOK
<1>2. CASE Before(s, cutoff)
  BY <1>1, <1>2 DEF Decide
<1>3. CASE ~Before(s, cutoff)
  BY <1>1, <1>3 DEF Decide
<1> QED
  BY <1>2, <1>3

LEMMA MoveCutoffTyped ==
  ASSUME TypeOK, NEW instant \in Times, MoveCutoff(instant)
  PROVE  validFrom' \in Cutoffs /\ dead' \in [Sessions -> Nat]
BY Arithmetic DEF TypeOK, MoveCutoff

LEMMA TypeStep == TypeOK /\ LookupsKnown /\ [Next]_vars => TypeOK'
<1> SUFFICES ASSUME TypeOK, LookupsKnown, [Next]_vars PROVE TypeOK'
  OBVIOUS
<1> USE Arithmetic DEF row, process, history
<1>1. ASSUME NEW s \in Sessions, Login(s) PROVE TypeOK'
  BY <1>1 DEF TypeOK, Login, NotIssued
<1>2. ASSUME NEW c \in Checks, NEW r \in Replicas, NEW s \in Sessions, Validate(c, r, s) PROVE TypeOK'
  <2>1. CASE Live(r)
    BY <1>2, <2>1, DecideTyped DEF TypeOK, Validate
  <2>2. CASE ~Live(r)
    <3>1. check' \in [Checks -> [pc : {"idle", "query", "write"}, replica : Replicas \cup {NoOne},
                             session : Sessions \cup {NoOne}, seen : Cutoffs, age : 0 .. MaxQuery]]
      BY <1>2, <2>2 DEF TypeOK, Validate, Lookup, Cutoffs
    <3> QED
      BY <1>2, <2>2, <3>1 DEF TypeOK, Validate
  <2> QED
    BY <2>1, <2>2
<1>3. ASSUME NEW c \in Checks, Query(c) PROVE TypeOK'
  BY <1>3 DEF TypeOK, Query, Lookup
<1>4. ASSUME NEW c \in Checks, QueryFails(c) PROVE TypeOK'
  BY <1>4 DEF TypeOK, QueryFails, Idle, Lookup, Cutoffs
<1>5. ASSUME NEW c \in Checks, WriteCache(c) PROVE TypeOK'
  <2>1. check[c].seen \in Cutoffs /\ Expiry \in 0 .. Horizon + CacheTTL
    BY DEF TypeOK, Expiry, Times
  <2>2. check[c].session \in Sessions
    BY <1>5 DEF WriteCache, LookupsKnown
  <2>3. cache' \in [Replicas -> [validFrom : Cutoffs, expires : 0 .. Horizon + CacheTTL]]
    BY <1>5, <2>1 DEF TypeOK, WriteCache
  <2>4. check' \in [Checks -> [pc : {"idle", "query", "write"}, replica : Replicas \cup {NoOne},
                           session : Sessions \cup {NoOne}, seen : Cutoffs, age : 0 .. MaxQuery]]
    BY <1>5 DEF TypeOK, WriteCache, Idle, Lookup, Cutoffs
  <2>5. lag' \in [Checks -> Nat]
    BY <1>5, <2>2, DecideTyped DEF WriteCache
  <2> QED
    BY <1>5, <2>3, <2>4, <2>5 DEF TypeOK, WriteCache
<1>6. ASSUME NEW l \in Logouts, RevokeUserSessions(l) PROVE TypeOK'
  <2>1. validFrom' \in Cutoffs /\ dead' \in [Sessions -> Nat]
    BY <1>6, MoveCutoffTyped DEF RevokeUserSessions, TypeOK
  <2>2. logout' \in [Logouts -> [pc : {"new", "invalidate", "done"}, replica : Replicas]]
    <3>1. /\ LoggedOut(l) \in [pc : {"new", "invalidate", "done"}, replica : Replicas]
          /\ [pc |-> "invalidate", replica |-> logout[l].replica]
               \in [pc : {"new", "invalidate", "done"}, replica : Replicas]
      BY DEF LoggedOut, TypeOK, Cutoffs
    <3> QED
      BY <1>6, <3>1, ZenonT(60) DEF TypeOK, RevokeUserSessions
  <2> QED
    BY <1>6, <2>1, <2>2 DEF TypeOK, RevokeUserSessions
<1>7. ASSUME NEW l \in Logouts, RevokeFails(l) PROVE TypeOK'
  BY <1>7 DEF TypeOK, RevokeFails, LoggedOut, Cutoffs
<1>8. ASSUME NEW l \in Logouts, InvalidateRevocationCache(l) PROVE TypeOK'
  BY <1>8 DEF TypeOK, InvalidateRevocationCache, LoggedOut, NoEntry, Cutoffs
<1>9. ASSUME NEW t \in ResetTokens, SetPasswordResetToken(t) PROVE TypeOK'
  BY <1>9 DEF TypeOK, SetPasswordResetToken, Times
<1>10. ASSUME NEW t \in ResetTokens, NEW p \in Confirms, ConfirmReset(p, t) PROVE TypeOK'
  BY <1>10 DEF TypeOK, ConfirmReset
<1>11. ASSUME NEW p \in Confirms, ConsumePasswordResetToken(p) PROVE TypeOK'
  <2>1. confirm' \in [Confirms -> [pc : {"new", "consume", "done"},
                               token : ResetTokens \cup {NoOne}, at : Times]]
    BY <1>11 DEF TypeOK, ConsumePasswordResetToken, Times
  <2>2. CASE Redeems(p)
    <3>1. Consume(p)
      BY <1>11, <2>2 DEF ConsumePasswordResetToken
    <3>2. validFrom' \in Cutoffs /\ dead' \in [Sessions -> Nat]
      <4>1. confirm[p].at \in Times /\ MoveCutoff(confirm[p].at)
        BY <3>1 DEF Consume, TypeOK
      <4> QED
        BY <4>1, MoveCutoffTyped
    <3>3. reset' \in [token : ResetTokens \cup {NoOne}, expires : 0 .. Horizon + ResetTTL]
      BY <3>1 DEF Consume, NoReset
    <3>4. redeemed' \in [ResetTokens -> Nat]
      <4>1. \A t \in ResetTokens : redeemed[t] \in Nat /\ redeemed[t] + 1 \in Nat
        BY DEF TypeOK
      <4> QED
        BY <3>1, <4>1 DEF Consume, TypeOK
    <3> QED
      BY <1>11, <2>1, <3>1, <3>2, <3>3, <3>4 DEF TypeOK, ConsumePasswordResetToken, Consume
  <2>3. CASE ~Redeems(p)
    BY <1>11, <2>1, <2>3 DEF TypeOK, ConsumePasswordResetToken
  <2> QED
    BY <2>2, <2>3
<1>12. ASSUME NEW p \in Confirms, ConsumeFails(p) PROVE TypeOK'
  BY <1>12 DEF TypeOK, ConsumeFails, Times
<1>13. ASSUME NEW r \in Replicas, Restart(r) PROVE TypeOK'
  BY <1>13 DEF TypeOK, Restart, LoggedOut, Idle, Lookup, NoEntry, Cutoffs
<1>14. ASSUME Tick PROVE TypeOK'
  <2>1. now' \in Times
    BY <1>14 DEF TypeOK, Tick, Times
  <2>2. check' \in [Checks -> [pc : {"idle", "query", "write"}, replica : Replicas \cup {NoOne},
                           session : Sessions \cup {NoOne}, seen : Cutoffs, age : 0 .. MaxQuery]]
    BY <1>14 DEF TypeOK, Tick, Lookup
  <2>3. dead' \in [Sessions -> Nat]
    BY <1>14 DEF TypeOK, Tick
  <2> QED
    BY <1>14, <2>1, <2>2, <2>3 DEF TypeOK, Tick
<1>15. CASE UNCHANGED vars
  BY <1>15 DEF TypeOK, vars
<1> QED
  BY <1>1, <1>2, <1>3, <1>4, <1>5, <1>6, <1>7, <1>8, <1>9, <1>10, <1>11, <1>12, <1>13, <1>14, <1>15
  DEF Next
-----------------------------------------------------------------------------
(* How far decisions lag.  Sessions, once issued, keep their second. *)

LEMMA Numbers ==
  ASSUME TypeOK
  PROVE  /\ now \in Nat
         /\ \A r \in Replicas : cache[r].expires \in Nat
         /\ \A s \in Sessions : dead[s] \in Nat
         /\ \A c \in Checks : check[c].age \in Nat /\ check[c].age <= MaxQuery /\ lag[c] \in Nat
BY Arithmetic DEF TypeOK

(* A session newly revoked has been so for no time, and one already        *)
(* revoked for no longer than before.                                      *)
LEMMA CutoffLag ==
  ASSUME LagInv, NEW instant \in Times, MoveCutoff(instant), UNCHANGED <<now, iat, cache, check, lag>>
  PROVE  DeadIsRevoked' /\ LookupsKnown' /\ LookupLag' /\ CacheLag' /\ LagBounded'
<1> USE Arithmetic DEF LagInv
<1>1. \A s \in Sessions : Revoked(s)' <=> (iat[s] # NotIssued /\ Before(s, instant))
  BY DEF MoveCutoff, Revoked, Before
<1>2. \A s \in Sessions : dead'[s] = IF Revoked(s)' THEN dead[s] ELSE 0
  BY <1>1 DEF MoveCutoff
<1>3. DeadIsRevoked'
  BY <1>2 DEF DeadIsRevoked
<1>4. LookupsKnown' /\ LagBounded'
  BY DEF LookupsKnown, LagBounded
<1>5. LookupLag'
  <2> SUFFICES ASSUME NEW c \in Checks, check[c].pc = "write", NEW s \in Sessions,
                      Revoked(s)', ~Before(s, check[c].seen)
               PROVE  dead'[s] <= check[c].age
    BY DEF LookupLag, Before
  <2>1. CASE Revoked(s)
    BY <1>2, <2>1 DEF LookupLag
  <2>2. CASE ~Revoked(s)
    BY <1>2, <2>2, Numbers DEF DeadIsRevoked
  <2> QED
    BY <2>1, <2>2
<1>6. CacheLag'
  <2> SUFFICES ASSUME NEW r \in Replicas, Live(r), NEW s \in Sessions,
                      Revoked(s)', ~Before(s, cache[r].validFrom)
               PROVE  dead'[s] + (cache[r].expires - now) <= CacheTTL + MaxQuery
    BY DEF CacheLag, Before, Live
  <2>1. CASE Revoked(s)
    BY <1>2, <2>1 DEF CacheLag
  <2>2. CASE ~Revoked(s)
    BY <1>2, <2>2, Numbers DEF DeadIsRevoked, CacheLag
  <2> QED
    BY <2>1, <2>2
<1> QED
  BY <1>3, <1>4, <1>5, <1>6

(* Steps that leave the cutoff, the clock and the sessions alone. *)
LEMMA QuietLag ==
  ASSUME LagInv, UNCHANGED <<now, validFrom, iat, dead>>
  PROVE  /\ DeadIsRevoked'
         /\ \A s \in Sessions : Revoked(s)' <=> Revoked(s)
         /\ \A s \in Sessions, x \in Cutoffs : Before(s, x)' <=> Before(s, x)
BY DEF LagInv, DeadIsRevoked, Revoked, Before

LEMMA LagStep == LagInv /\ [Next]_vars => LagInv'
<1> SUFFICES ASSUME LagInv, [Next]_vars PROVE LagInv'
  OBVIOUS
<1> USE Arithmetic DEF LagInv, row, process, history
<1>0. TypeOK'
  BY TypeStep
<1> DEFINE Rest == DeadIsRevoked /\ LookupsKnown /\ LookupLag /\ CacheLag /\ LagBounded
<1>1. ASSUME NEW s \in Sessions, Login(s) PROVE Rest'
  <2>1. \A q \in Sessions \ {s} : iat'[q] = iat[q]
    BY <1>1 DEF Login, TypeOK
  <2>2. dead[s] = 0
    BY <1>1 DEF Login, DeadIsRevoked, Revoked
  <2>3. \A q \in Sessions \ {s} : Revoked(q)' <=> Revoked(q)
    BY <1>1, <2>1 DEF Login, Revoked, Before
  <2>4. DeadIsRevoked' /\ LookupsKnown' /\ LagBounded'
    BY <1>1, <2>2, <2>3 DEF Login, DeadIsRevoked, LookupsKnown, LagBounded
  <2>5. LookupLag'
    <3> SUFFICES ASSUME NEW c \in Checks, check[c].pc = "write", NEW q \in Sessions, Revoked(q)',
                        ~Before(q, check[c].seen)'
                 PROVE  dead[q] <= check[c].age
      BY <1>1 DEF Login, LookupLag
    <3>1. CASE q = s
      BY <2>2, <3>1, Numbers
    <3>2. CASE q # s
      BY <1>1, <2>1, <2>3, <3>2 DEF Login, LookupLag, Before
    <3> QED
      BY <3>1, <3>2
  <2>6. CacheLag'
    <3> SUFFICES ASSUME NEW r \in Replicas, Live(r), NEW q \in Sessions, Revoked(q)',
                        ~Before(q, cache[r].validFrom)'
                 PROVE  dead[q] + (cache[r].expires - now) <= CacheTTL + MaxQuery
      BY <1>1 DEF Login, CacheLag, Live
    <3>1. CASE q = s
      BY <2>2, <3>1, Numbers DEF CacheLag
    <3>2. CASE q # s
      BY <1>1, <2>1, <2>3, <3>2 DEF Login, CacheLag, Before
    <3> QED
      BY <3>1, <3>2
  <2> QED
    BY <2>4, <2>5, <2>6
<1>2. ASSUME NEW c \in Checks, NEW r \in Replicas, NEW s \in Sessions, Validate(c, r, s) PROVE Rest'
  <2>1. UNCHANGED <<now, validFrom, iat, dead, cache>>
    BY <1>2 DEF Validate
  <2>2. DeadIsRevoked' /\ CacheLag'
    BY <2>1, QuietLag DEF CacheLag, Live, Before
  <2>3. CASE Live(r)
    <3>1. UNCHANGED check /\ Decide(c, s, cache[r].validFrom)
      BY <1>2, <2>3 DEF Validate
    <3>2. LookupsKnown' /\ LookupLag'
      BY <2>1, <3>1, QuietLag DEF LookupsKnown, LookupLag, Before
    <3>3. ~Before(s, cache[r].validFrom) => dead[s] = 0 \/ dead[s] < CacheTTL + MaxQuery
      BY <2>3, Numbers DEF CacheLag, DeadIsRevoked, Live
    <3>4. lag'[c] = 0 \/ lag'[c] < CacheTTL + MaxQuery
      <4>1. CASE Before(s, cache[r].validFrom)
        BY <3>1, <4>1 DEF Decide, TypeOK
      <4>2. CASE ~Before(s, cache[r].validFrom)
        BY <3>1, <3>3, <4>2 DEF Decide, TypeOK
      <4> QED
        BY <4>1, <4>2
    <3>5. \A d \in Checks \ {c} : lag'[d] = lag[d]
      BY <3>1 DEF Decide, TypeOK
    <3>6. LagBounded'
      BY <3>4, <3>5 DEF LagBounded
    <3> QED
      BY <2>2, <3>2, <3>6
  <2>4. CASE ~Live(r)
    <3>1. UNCHANGED lag /\ check' = [check EXCEPT ![c] = Lookup("query", r, s, Epoch, 0)]
      BY <1>2, <2>4 DEF Validate
    <3>2. /\ check'[c].pc = "query" /\ check'[c].replica = r /\ check'[c].session = s
          /\ \A d \in Checks \ {c} : check'[d] = check[d]
      BY <3>1 DEF Lookup, TypeOK
    <3>3. LookupsKnown'
      BY <3>2 DEF LookupsKnown
    <3>4. LookupLag'
      BY <2>1, <3>2, QuietLag DEF LookupLag, Before
    <3>5. LagBounded'
      BY <3>1 DEF LagBounded
    <3> QED
      BY <2>2, <3>3, <3>4, <3>5
  <2> QED
    BY <2>3, <2>4
<1>3. ASSUME NEW c \in Checks, Query(c) PROVE Rest'
  <2>1. UNCHANGED <<now, validFrom, iat, dead, cache, lag>>
    BY <1>3 DEF Query
  <2>2. DeadIsRevoked' /\ CacheLag' /\ LagBounded'
    BY <2>1, QuietLag DEF CacheLag, Live, Before, LagBounded
  <2>3. /\ check[c].pc = "query" /\ check'[c].seen = validFrom
        /\ check'[c].replica = check[c].replica /\ check'[c].session = check[c].session
        /\ \A d \in Checks \ {c} : check'[d] = check[d]
    BY <1>3 DEF Query, Lookup, TypeOK
  <2>4. LookupsKnown'
    BY <2>3 DEF LookupsKnown
  <2>5. LookupLag'
    BY <2>1, <2>3, QuietLag DEF LookupLag, Before, Revoked
  <2> QED
    BY <2>2, <2>4, <2>5
<1>4. ASSUME NEW c \in Checks, QueryFails(c) PROVE Rest'
  <2>1. UNCHANGED <<now, validFrom, iat, dead, cache, lag>>
    BY <1>4 DEF QueryFails
  <2>2. DeadIsRevoked' /\ CacheLag' /\ LagBounded'
    BY <2>1, QuietLag DEF CacheLag, Live, Before, LagBounded
  <2>3. check'[c].pc = "idle" /\ \A d \in Checks \ {c} : check'[d] = check[d]
    BY <1>4 DEF QueryFails, Idle, Lookup, TypeOK
  <2>4. LookupsKnown' /\ LookupLag'
    BY <2>1, <2>3, QuietLag DEF LookupsKnown, LookupLag, Before
  <2> QED
    BY <2>2, <2>4
<1>5. ASSUME NEW c \in Checks, WriteCache(c) PROVE Rest'
  <2> DEFINE r == check[c].replica
             s == check[c].session
  <2>1. UNCHANGED <<now, validFrom, iat, dead>>
    BY <1>5 DEF WriteCache
  <2>2. r \in Replicas /\ s \in Sessions /\ check[c].pc = "write"
    BY <1>5 DEF WriteCache, LookupsKnown
  <2>3. check'[c].pc = "idle" /\ \A d \in Checks \ {c} : check'[d] = check[d]
    BY <1>5 DEF WriteCache, Idle, Lookup, TypeOK
  <2>4. DeadIsRevoked' /\ LookupsKnown' /\ LookupLag'
    BY <2>1, <2>3, QuietLag DEF LookupsKnown, LookupLag, Before
  <2>5. /\ cache'[r].validFrom = check[c].seen /\ cache'[r].expires = now + CacheTTL
        /\ \A q \in Replicas \ {r} : cache'[q] = cache[q]
    BY <1>5, <2>2 DEF WriteCache, Expiry, TypeOK
  <2>6. \A q \in Sessions : (Revoked(q) /\ ~Before(q, check[c].seen)) => dead[q] <= MaxQuery
    BY <2>2, Numbers DEF LookupLag
  <2>7. CacheLag'
    <3> SUFFICES ASSUME NEW n \in Replicas
                 PROVE  /\ cache'[n].expires <= now + CacheTTL
                        /\ cache'[n].expires > now =>
                             \A q \in Sessions :
                               (Revoked(q) /\ ~Before(q, cache'[n].validFrom)) =>
                                 dead[q] + (cache'[n].expires - now) <= CacheTTL + MaxQuery
      BY <2>1, QuietLag DEF CacheLag, Live, Before
    <3>1. CASE n = r
      BY <2>5, <2>6, <3>1, Numbers
    <3>2. CASE n # r
      BY <2>5, <3>2 DEF CacheLag, Live
    <3> QED
      BY <3>1, <3>2
  <2>8. ~Before(s, check[c].seen) => dead[s] < CacheTTL + MaxQuery
    BY <2>2, <2>6, Numbers DEF DeadIsRevoked
  <2>9. lag'[c] = 0 \/ lag'[c] < CacheTTL + MaxQuery
    <3>1. CASE Before(s, check[c].seen)
      BY <1>5, <3>1 DEF WriteCache, Decide, TypeOK
    <3>2. CASE ~Before(s, check[c].seen)
      BY <1>5, <2>8, <3>2 DEF WriteCache, Decide, TypeOK
    <3> QED
      BY <3>1, <3>2
  <2>10. \A d \in Checks \ {c} : lag'[d] = lag[d]
    BY <1>5 DEF WriteCache, Decide, TypeOK
  <2>11. LagBounded'
    BY <2>9, <2>10 DEF LagBounded
  <2> QED
    BY <2>4, <2>7, <2>11
<1>6. ASSUME NEW l \in Logouts, RevokeUserSessions(l) PROVE Rest'
  <2>1. MoveCutoff(now) /\ now \in Times /\ UNCHANGED <<now, iat, cache, check, lag>>
    BY <1>6 DEF RevokeUserSessions, TypeOK
  <2> QED
    BY <2>1, CutoffLag
<1>7. ASSUME UNCHANGED <<now, validFrom, iat, cache, check, dead, lag>> PROVE Rest'
  BY <1>7, QuietLag DEF CacheLag, Live, Before, LookupsKnown, LookupLag, LagBounded
<1>8. ASSUME NEW l \in Logouts, InvalidateRevocationCache(l) PROVE Rest'
  <2>1. UNCHANGED <<now, validFrom, iat, check, dead, lag>>
    BY <1>8 DEF InvalidateRevocationCache
  <2>2. DeadIsRevoked' /\ LookupsKnown' /\ LookupLag' /\ LagBounded'
    BY <2>1, QuietLag DEF LookupsKnown, LookupLag, Before, LagBounded
  <2>3. \A r \in Replicas : cache'[r] = cache[r] \/ cache'[r].expires = 0
    BY <1>8 DEF InvalidateRevocationCache, NoEntry, TypeOK
  <2>4. CacheLag'
    BY <2>1, <2>3, Numbers, QuietLag DEF CacheLag, Live, Before
  <2> QED
    BY <2>2, <2>4
<1>9. ASSUME NEW p \in Confirms, ConsumePasswordResetToken(p) PROVE Rest'
  <2>1. UNCHANGED <<now, iat, cache, check, lag>>
    BY <1>9 DEF ConsumePasswordResetToken
  <2>2. CASE Redeems(p)
    <3>1. confirm[p].at \in Times /\ MoveCutoff(confirm[p].at)
      BY <1>9, <2>2 DEF ConsumePasswordResetToken, Consume, TypeOK
    <3> QED
      BY <2>1, <3>1, CutoffLag
  <2>3. CASE ~Redeems(p)
    BY <1>7, <1>9, <2>3 DEF ConsumePasswordResetToken
  <2> QED
    BY <2>2, <2>3
<1>10. ASSUME NEW r \in Replicas, Restart(r) PROVE Rest'
  <2>1. UNCHANGED <<now, validFrom, iat, dead, lag>>
    BY <1>10 DEF Restart
  <2>2. \A c \in Checks : check'[c] = check[c] \/ check'[c].pc = "idle"
    BY <1>10 DEF Restart, Idle, Lookup
  <2>3. DeadIsRevoked' /\ LookupsKnown' /\ LookupLag' /\ LagBounded'
    BY <2>1, <2>2, QuietLag DEF LookupsKnown, LookupLag, Before, LagBounded
  <2>4. \A n \in Replicas : cache'[n] = cache[n] \/ cache'[n].expires = 0
    BY <1>10 DEF Restart, NoEntry, TypeOK
  <2>5. CacheLag'
    BY <2>1, <2>4, Numbers, QuietLag DEF CacheLag, Live, Before
  <2> QED
    BY <2>3, <2>5
<1>11. ASSUME Tick PROVE Rest'
  <2>1. now' = now + 1 /\ UNCHANGED <<validFrom, iat, cache, lag>>
    BY <1>11 DEF Tick
  <2>2. \A s \in Sessions : /\ Revoked(s)' <=> Revoked(s)
                            /\ dead'[s] = IF Revoked(s) THEN dead[s] + 1 ELSE 0
    BY <1>11, <2>1 DEF Tick, Revoked, Before
  <2>3. \A c \in Checks : /\ check'[c].pc = check[c].pc
                          /\ check'[c].replica = check[c].replica
                          /\ check'[c].session = check[c].session
                          /\ check'[c].seen = check[c].seen
                          /\ check[c].pc = "write" => check'[c].age = check[c].age + 1
    BY <1>11 DEF Tick, Lookup
  <2>4. DeadIsRevoked' /\ LookupsKnown' /\ LagBounded'
    BY <2>1, <2>2, <2>3 DEF DeadIsRevoked, LookupsKnown, LagBounded
  <2>5. LookupLag'
    BY <2>1, <2>2, <2>3, Numbers DEF LookupLag, Before
  <2>6. CacheLag'
    <3> SUFFICES ASSUME NEW r \in Replicas
                 PROVE  /\ cache[r].expires <= now' + CacheTTL
                        /\ cache[r].expires > now' =>
                             \A s \in Sessions :
                               (Revoked(s) /\ ~Before(s, cache[r].validFrom)) =>
                                 dead'[s] + (cache[r].expires - now') <= CacheTTL + MaxQuery
      BY <2>1, <2>2 DEF CacheLag, Live, Before
    <3>1. /\ cache[r].expires <= now + CacheTTL
          /\ cache[r].expires > now =>
               \A s \in Sessions :
                 (Revoked(s) /\ ~Before(s, cache[r].validFrom)) =>
                   dead[s] + (cache[r].expires - now) <= CacheTTL + MaxQuery
      BY DEF CacheLag, Live
    <3> QED
      BY <2>1, <2>2, <3>1, Numbers
  <2> QED
    BY <2>4, <2>5, <2>6
<1>12. \A l \in Logouts : RevokeFails(l) => Rest'
  BY <1>7 DEF RevokeFails
<1>13. \A t \in ResetTokens : SetPasswordResetToken(t) \/ (\E p \in Confirms : ConfirmReset(p, t)) => Rest'
  BY <1>7 DEF SetPasswordResetToken, ConfirmReset
<1>14. \A p \in Confirms : ConsumeFails(p) => Rest'
  BY <1>7 DEF ConsumeFails
<1>15. UNCHANGED vars => Rest'
  BY <1>7 DEF vars
<1>16. Rest'
  BY <1>1, <1>2, <1>3, <1>4, <1>5, <1>6, <1>8, <1>9, <1>10, <1>11, <1>12, <1>13, <1>14, <1>15
  DEF Next
<1> QED
  BY <1>0, <1>16

-----------------------------------------------------------------------------
(* A token is redeemed once. *)

LEMMA ResetStep == ResetInv /\ TypeOK' /\ [Next]_vars => ResetInv'
<1> SUFFICES ASSUME ResetInv, TypeOK', [Next]_vars PROVE ResetInv'
  OBVIOUS
<1> USE DEF ResetInv, row, process, history
<1> DEFINE Rest == PendingIsFresh /\ ConfirmsMailed /\ RedeemedOnce
<1>1. ASSUME UNCHANGED <<reset, confirm, mailed, redeemed>> PROVE Rest'
  BY <1>1 DEF PendingIsFresh, ConfirmsMailed, RedeemedOnce
<1>2. ASSUME NEW t \in ResetTokens, SetPasswordResetToken(t) PROVE Rest'
  BY <1>2 DEF SetPasswordResetToken, PendingIsFresh, ConfirmsMailed, RedeemedOnce
<1>3. ASSUME NEW t \in ResetTokens, NEW p \in Confirms, ConfirmReset(p, t) PROVE Rest'
  BY <1>3 DEF ConfirmReset, PendingIsFresh, ConfirmsMailed, RedeemedOnce, TypeOK
<1>4. ASSUME NEW p \in Confirms, ConsumePasswordResetToken(p) PROVE Rest'
  <2>1. UNCHANGED mailed /\ \A q \in Confirms : confirm'[q] = confirm[q] \/ confirm'[q].pc = "done"
    BY <1>4 DEF ConsumePasswordResetToken, TypeOK
  <2>2. ConfirmsMailed'
    BY <2>1 DEF ConfirmsMailed
  <2>3. CASE Redeems(p)
    <3> DEFINE t == confirm[p].token
    <3>1. t \in mailed /\ t \in ResetTokens /\ t = reset.token
      BY <1>4, <2>3 DEF ConsumePasswordResetToken, ConfirmsMailed, Redeems, TypeOK
    <3>2. /\ reset'.token = NoOne
          /\ redeemed' = [redeemed EXCEPT ![t] = @ + 1]
      BY <1>4, <2>3 DEF ConsumePasswordResetToken, Consume, NoReset
    <3>3. redeemed[t] = 0
      BY <3>1 DEF PendingIsFresh
    <3>4. redeemed'[t] = 1 /\ \A u \in ResetTokens \ {t} : redeemed'[u] = redeemed[u]
      BY <3>1, <3>2, <3>3 DEF TypeOK
    <3>5. PendingIsFresh'
      BY <2>1, <3>1, <3>2, <3>4, RevocationAssumption DEF PendingIsFresh
    <3>6. RedeemedOnce'
      BY <3>4 DEF RedeemedOnce
    <3> QED
      BY <2>2, <3>5, <3>6
  <2>4. CASE ~Redeems(p)
    BY <1>4, <2>1, <2>2, <2>4 DEF ConsumePasswordResetToken, PendingIsFresh, RedeemedOnce
  <2> QED
    BY <2>3, <2>4
<1>5. ASSUME NEW p \in Confirms, ConsumeFails(p) PROVE Rest'
  BY <1>5 DEF ConsumeFails, PendingIsFresh, ConfirmsMailed, RedeemedOnce, TypeOK
<1>6. \A s \in Sessions : Login(s) => Rest'
  BY <1>1 DEF Login
<1>7. \A c \in Checks : Query(c) \/ QueryFails(c) \/ WriteCache(c) => Rest'
  BY <1>1 DEF Query, QueryFails, WriteCache
<1>8. \A c \in Checks, r \in Replicas, s \in Sessions : Validate(c, r, s) => Rest'
  BY <1>1 DEF Validate
<1>9. \A l \in Logouts : RevokeUserSessions(l) \/ RevokeFails(l) \/ InvalidateRevocationCache(l) => Rest'
  BY <1>1 DEF RevokeUserSessions, RevokeFails, InvalidateRevocationCache
<1>10. \A r \in Replicas : Restart(r) => Rest'
  BY <1>1 DEF Restart
<1>11. Tick => Rest'
  BY <1>1 DEF Tick
<1>12. UNCHANGED vars => Rest'
  BY <1>1 DEF vars
<1>13. Rest'
  BY <1>2, <1>3, <1>4, <1>5, <1>6, <1>7, <1>8, <1>9, <1>10, <1>11, <1>12 DEF Next
<1> QED
  BY <1>13

-----------------------------------------------------------------------------
(* The two inductive invariants hold: of the cache (LagInv), and of the    *)
(* reset tokens (ResetInv).                                                *)
THEOREM RevocationSafe == Spec => [](LagInv /\ ResetInv)
<1>1. (LagInv /\ ResetInv) /\ [Next]_vars => (LagInv /\ ResetInv)'
  BY LagStep, ResetStep DEF LagInv
<1> QED
  BY InitInv, <1>1, PTL DEF Spec

(* Every variable of the session model keeps its type. *)
THEOREM TypeCorrect == Spec => []TypeOK
<1>1. LagInv => TypeOK
  BY DEF LagInv
<1> QED
  BY RevocationSafe, <1>1, PTL

(* No replica lets a session pass that has been revoked for CacheTTL and   *)
(* the time of a lookup, however long either is.                           *)
THEOREM RevocationTakesEffect == Spec => []LagBounded
<1>1. LagInv => LagBounded
  BY DEF LagInv
<1> QED
  BY RevocationSafe, <1>1, PTL

(* A mailed reset token changes the password at most once. *)
THEOREM ResetOnce == Spec => []RedeemedOnce
<1>1. ResetInv => RedeemedOnce
  BY DEF ResetInv
<1> QED
  BY RevocationSafe, <1>1, PTL
=============================================================================
