-------------------------- MODULE SessionRevocation --------------------------
(***************************************************************************)
(* Session tokens of one user and their revocation:                        *)
(*   - LoginHandler issues a token with the second of its issue (Iat);     *)
(*   - LogoutHandler moves users.sessions_valid_from to NOW(), and drops   *)
(*     the entry of the replica that serves it from its cache;             *)
(*   - a password reset (SetPasswordResetToken, ConsumePasswordResetToken) *)
(*     moves it to the time the confirmation's handler read;               *)
(*   - SessionTokenValidator accepts a token unless it was issued before   *)
(*     sessions_valid_from, which each replica caches for CacheTTL.        *)
(*                                                                         *)
(* An event of tick t happens strictly inside it: Iat is the beginning of  *)
(* the event's second, NOW() is later than the beginning of tick t.  The   *)
(* clocks of replicas and database agree.  Tokens live for seven days,     *)
(* longer than the model's Horizon.                                        *)
(***************************************************************************)
EXTENDS Integers

CONSTANTS
  Replicas,    \* API processes, each with its own cache
  Sessions,    \* session tokens of the user
  Checks,      \* goroutines in ValidateToken
  Logouts,     \* requests to log out
  ResetTokens, \* tokens of password-reset mails
  Confirms,    \* requests to confirm a reset
  NoOne,       \* NULL, or no session or replica
  Second,      \* ticks of a second
  CacheTTL,    \* sessionRevocationCacheTTL, in ticks
  ResetTTL,    \* PasswordResetTTL, in ticks
  MaxQuery,    \* ticks between the database's answer and the cache's update
  Horizon,     \* last tick of the model
  Faults       \* what the environment may do, see FaultKinds

(***************************************************************************)
(* "dberror": a statement fails, or commits and reports an error.          *)
(* "restart": a replica is restarted.                                      *)
(***************************************************************************)
FaultKinds == {"dberror", "restart"}

ASSUME RevocationAssumption ==
  /\ NoOne \notin ResetTokens
  /\ Second \in Nat \ {0}
  /\ CacheTTL \in Nat \ {0}
  /\ ResetTTL \in Nat
  /\ MaxQuery \in Nat
  /\ Horizon \in Nat
  /\ Faults \subseteq FaultKinds

VARIABLES
  now,       \* the clock
  validFrom, \* users.sessions_valid_from
  reset,     \* users.password_reset_token_hash and _expires_at
  iat,       \* the second each session was issued in
  cache,     \* the cache entry of each replica
  check,     \* what each validation is doing
  logout,    \* where each logout is
  confirm,   \* where each confirmation is
  mailed,    \* reset tokens generated so far
  redeemed,  \* history: times each reset token changed the password
  dead,      \* history: ticks since each session was last valid in the database
  lag        \* history: what dead was of the session each validation let pass last

row     == <<validFrom, reset>>
process == <<check, logout, confirm>>
history == <<redeemed, dead, lag>>
vars    == <<now, row, iat, cache, process, mailed, history>>

Epoch     == -1
NotIssued == -1
Times     == 0 .. Horizon
Cutoffs   == Times \cup {Epoch}
NoReset   == [token |-> NoOne, expires |-> 0]
NoEntry   == [validFrom |-> Epoch, expires |-> 0]

\* A validation, once it found no live entry: it asks, then it caches the answer.
Lookup(pc, r, s, seen, age) == [pc |-> pc, replica |-> r, session |-> s, seen |-> seen, age |-> age]
Idle == Lookup("idle", NoOne, NoOne, Epoch, 0)

\* time.Unix(claims.Iat, 0).Before(cutoff)
Before(s, cutoff) == iat[s] * Second <= cutoff

Revoked(s) == iat[s] # NotIssued /\ Before(s, validFrom)

Init ==
  /\ now = 0
  /\ validFrom = Epoch
  /\ reset = NoReset
  /\ iat = [s \in Sessions |-> NotIssued]
  /\ cache = [r \in Replicas |-> NoEntry]
  /\ check = [c \in Checks |-> Idle]
  /\ logout \in [Logouts -> [pc : {"new"}, replica : Replicas]]
  /\ confirm = [p \in Confirms |-> [pc |-> "new", token |-> NoOne, at |-> 0]]
  /\ mailed = {}
  /\ redeemed = [t \in ResetTokens |-> 0]
  /\ dead = [s \in Sessions |-> 0]
  /\ lag = [c \in Checks |-> 0]

-----------------------------------------------------------------------------
(* LoginHandler: CreateSessionToken with Iat: now.Unix(). *)

Login(s) ==
  /\ iat[s] = NotIssued
  /\ iat' = [iat EXCEPT ![s] = now \div Second]
  /\ UNCHANGED <<now, row, cache, process, mailed, history>>

-----------------------------------------------------------------------------
(* SessionTokenValidator.ValidateToken *)

\* A session issued before the cutoff is refused; any other passes.
Decide(c, s, cutoff) ==
  lag' = [lag EXCEPT ![c] = IF Before(s, cutoff) THEN 0 ELSE dead[s]]

\* Mutant: the entry's expiry is not looked at.
MutantLive(r) == cache[r].expires > 0

Live(r) == cache[r].expires > now

\* A live entry decides; else the database is asked.
Validate(c, r, s) ==
  /\ check[c].pc = "idle"
  /\ iat[s] # NotIssued
  /\ IF Live(r)
       THEN Decide(c, s, cache[r].validFrom) /\ UNCHANGED check
       ELSE /\ check' = [check EXCEPT ![c] = Lookup("query", r, s, Epoch, 0)]
            /\ UNCHANGED lag
  /\ UNCHANGED <<now, row, iat, cache, logout, confirm, mailed, redeemed, dead>>

\* SessionsValidFrom reads the row.
Query(c) ==
  /\ check[c].pc = "query"
  /\ check' = [check EXCEPT ![c] = Lookup("write", check[c].replica, check[c].session, validFrom, 0)]
  /\ UNCHANGED <<now, row, iat, cache, logout, confirm, mailed, history>>

\* A lookup that fails lets the token pass, and caches nothing.
QueryFails(c) ==
  /\ "dberror" \in Faults
  /\ check[c].pc = "query"
  /\ check' = [check EXCEPT ![c] = Idle]
  /\ UNCHANGED <<now, row, iat, cache, logout, confirm, mailed, history>>

Expiry == now + CacheTTL

\* Under v.mu: what was read is cached from now on, and decides.
WriteCache(c) ==
  /\ check[c].pc = "write"
  /\ cache' = [cache EXCEPT ![check[c].replica] = [validFrom |-> check[c].seen, expires |-> Expiry]]
  /\ Decide(c, check[c].session, check[c].seen)
  /\ check' = [check EXCEPT ![c] = Idle]
  /\ UNCHANGED <<now, row, iat, logout, confirm, mailed, redeemed, dead>>

-----------------------------------------------------------------------------
(* Statements that move the cutoff. *)

\* A session that the new cutoff admits again is valid again.
MoveCutoff(instant) ==
  /\ validFrom' = instant
  /\ dead' = [s \in Sessions |-> IF iat[s] # NotIssued /\ Before(s, instant) THEN dead[s] ELSE 0]

LoggedOut(l) == [pc |-> "done", replica |-> logout[l].replica]

\* LogoutHandler: RevokeUserSessions.
RevokeUserSessions(l) ==
  /\ logout[l].pc = "new"
  /\ MoveCutoff(now)
  /\ \/ logout' = [logout EXCEPT ![l] = [pc |-> "invalidate", replica |-> logout[l].replica]]
     \/ "dberror" \in Faults /\ logout' = [logout EXCEPT ![l] = LoggedOut(l)]
  /\ UNCHANGED <<now, reset, iat, cache, check, confirm, mailed, redeemed, lag>>

RevokeFails(l) ==
  /\ "dberror" \in Faults
  /\ logout[l].pc = "new"
  /\ logout' = [logout EXCEPT ![l] = LoggedOut(l)]
  /\ UNCHANGED <<now, row, iat, cache, check, confirm, mailed, history>>

InvalidateRevocationCache(l) ==
  /\ logout[l].pc = "invalidate"
  /\ cache' = [cache EXCEPT ![logout[l].replica] = NoEntry]
  /\ logout' = [logout EXCEPT ![l] = LoggedOut(l)]
  /\ UNCHANGED <<now, row, iat, check, confirm, mailed, redeemed, dead, lag>>

\* RequestPasswordResetHandler: a fresh token replaces the one before it.
SetPasswordResetToken(t) ==
  /\ t \notin mailed
  /\ mailed' = mailed \cup {t}
  /\ reset' = [token |-> t, expires |-> now + ResetTTL]
  /\ UNCHANGED <<now, validFrom, iat, cache, process, history>>

\* ConfirmPasswordResetHandler, up to time.Now(): any mailed token may come back.
ConfirmReset(p, t) ==
  /\ confirm[p].pc = "new"
  /\ t \in mailed
  /\ confirm' = [confirm EXCEPT ![p] = [pc |-> "consume", token |-> t, at |-> now]]
  /\ UNCHANGED <<now, row, iat, cache, check, logout, mailed, history>>

Redeems(p) == reset.token = confirm[p].token /\ reset.expires > confirm[p].at

\* Mutant: the token is not cleared.
MutantConsume(p) ==
  /\ MoveCutoff(confirm[p].at)
  /\ redeemed' = [redeemed EXCEPT ![confirm[p].token] = @ + 1]
  /\ UNCHANGED reset

Consume(p) ==
  /\ MoveCutoff(confirm[p].at)
  /\ redeemed' = [redeemed EXCEPT ![confirm[p].token] = @ + 1]
  /\ reset' = NoReset

\* The cache is not invalidated, on any replica.
ConsumePasswordResetToken(p) ==
  /\ confirm[p].pc = "consume"
  /\ IF Redeems(p) THEN Consume(p) ELSE UNCHANGED <<row, redeemed, dead>>
  /\ confirm' = [confirm EXCEPT ![p] = [pc |-> "done", token |-> NoOne, at |-> 0]]
  /\ UNCHANGED <<now, iat, cache, check, logout, mailed, lag>>

ConsumeFails(p) ==
  /\ "dberror" \in Faults
  /\ confirm[p].pc = "consume"
  /\ confirm' = [confirm EXCEPT ![p] = [pc |-> "done", token |-> NoOne, at |-> 0]]
  /\ UNCHANGED <<now, row, iat, cache, check, logout, mailed, history>>

-----------------------------------------------------------------------------
(* The environment. *)

\* The cache and the requests of the replica are gone.
Restart(r) ==
  /\ "restart" \in Faults
  /\ cache' = [cache EXCEPT ![r] = NoEntry]
  /\ check' = [c \in Checks |-> IF check[c].replica = r THEN Idle ELSE check[c]]
  /\ logout' = [l \in Logouts |->
                  IF logout[l].replica = r /\ logout[l].pc = "invalidate"
                    THEN LoggedOut(l)
                    ELSE logout[l]]
  /\ UNCHANGED <<now, row, iat, confirm, mailed, history>>

Tick ==
  /\ now < Horizon
  /\ \A c \in Checks : check[c].pc = "write" => check[c].age < MaxQuery
  /\ now' = now + 1
  /\ check' = [c \in Checks |->
                 IF check[c].pc = "write"
                   THEN Lookup("write", check[c].replica, check[c].session, check[c].seen, check[c].age + 1)
                   ELSE check[c]]
  /\ dead' = [s \in Sessions |-> IF Revoked(s) THEN dead[s] + 1 ELSE 0]
  /\ UNCHANGED <<row, iat, cache, logout, confirm, mailed, redeemed, lag>>

Next ==
  \/ \E s \in Sessions : Login(s)
  \/ \E c \in Checks :
       \/ \E r \in Replicas, s \in Sessions : Validate(c, r, s)
       \/ Query(c) \/ QueryFails(c) \/ WriteCache(c)
  \/ \E l \in Logouts : RevokeUserSessions(l) \/ RevokeFails(l) \/ InvalidateRevocationCache(l)
  \/ \E t \in ResetTokens :
       SetPasswordResetToken(t) \/ \E p \in Confirms : ConfirmReset(p, t)
  \/ \E p \in Confirms : ConsumePasswordResetToken(p) \/ ConsumeFails(p)
  \/ \E r \in Replicas : Restart(r)
  \/ Tick

Spec == Init /\ [][Next]_vars

-----------------------------------------------------------------------------
(* Every variable keeps the type the code gives it. *)
TypeOK ==
  /\ now \in Times
  /\ validFrom \in Cutoffs
  /\ reset \in [token : ResetTokens \cup {NoOne}, expires : 0 .. Horizon + ResetTTL]
  /\ iat \in [Sessions -> Nat \cup {NotIssued}]
  /\ cache \in [Replicas -> [validFrom : Cutoffs, expires : 0 .. Horizon + CacheTTL]]
  /\ check \in [Checks -> [pc : {"idle", "query", "write"}, replica : Replicas \cup {NoOne},
                           session : Sessions \cup {NoOne}, seen : Cutoffs, age : 0 .. MaxQuery]]
  /\ logout \in [Logouts -> [pc : {"new", "invalidate", "done"}, replica : Replicas]]
  /\ confirm \in [Confirms -> [pc : {"new", "consume", "done"},
                               token : ResetTokens \cup {NoOne}, at : Times]]
  /\ mailed \subseteq ResetTokens
  /\ redeemed \in [ResetTokens -> Nat]
  /\ dead \in [Sessions -> Nat]
  /\ lag \in [Checks -> Nat]

(* However logouts, resets, lookups and restarts interleave, no replica    *)
(* lets a session pass that the database has held revoked for CacheTTL and *)
(* the time of a lookup (but for a lookup that failed, which lets anybody  *)
(* pass).  sessionRevocationCacheTTL's comment says CacheTTL alone.        *)
LagBounded == \A c \in Checks : lag[c] > 0 => lag[c] < CacheTTL + MaxQuery

(* A mailed token changes the password once, however many confirmations    *)
(* carry it at the same time.                                              *)
RedeemedOnce == \A t \in ResetTokens : redeemed[t] <= 1

=============================================================================
