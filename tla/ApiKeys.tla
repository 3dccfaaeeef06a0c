------------------------------- MODULE ApiKeys -------------------------------
(***************************************************************************)
(* Issuing, listing and revoking API keys (handlers/api_keys.go), for      *)
(* several organizations and several requests at a time.                   *)
(*                                                                         *)
(* A request is authenticated by DualAuth, resolves the organization it    *)
(* may act on (resolveOrgID), asks SpiceDB for permission when one is      *)
(* configured, and then changes the api_keys table.  The change, the two   *)
(* relationships SpiceDB keeps about a key and the audit row are separate  *)
(* calls: any of them can fail after the ones before it took effect, and   *)
(* other requests run in between.                                          *)
(*                                                                         *)
(* Left out: the key's name, environment, hash, expiry (an expired key is  *)
(* refused like one that cannot be looked up) and last_used_at; the path   *)
(* from a project to its organization's admins, so that `manages' stands   *)
(* for both (schema.zed).                                                  *)
(***************************************************************************)
EXTENDS FiniteSets

CONSTANTS
  Requests,   \* management requests; each is served once
  Keys,       \* ids the table hands out
  Users,      \* accounts that may carry a session
  Orgs,       \* organization ids a request may name
  KnownOrgs,  \* those that exist
  DefaultOrg, \* handlers.DefaultOrgID, the seeded organization
  Home,       \* users.org_id: the default organization of each user, or NoOne
  MemberOf,   \* organization_members: the organizations of each user
  Managers,   \* <<user, org>> pairs SpiceDB starts with: manage_api_keys
  Callers,    \* who asks: [user, key], a session, a key, or a key with a companion session
  Stored,     \* keys a session issued before: <<key, org, user, wildcard>>
  NoOne

Nobody == [user |-> NoOne, key |-> NoOne]

ASSUME ApiKeysAssumption ==
  /\ KnownOrgs \subseteq Orgs
  /\ DefaultOrg \in KnownOrgs
  /\ Home \in [Users -> KnownOrgs \cup {NoOne}]
  /\ MemberOf \in [Users -> SUBSET KnownOrgs]
  /\ Managers \subseteq Users \X KnownOrgs
  /\ Stored \subseteq Keys \X KnownOrgs \X Users \X BOOLEAN
  /\ \A s, t \in Stored : s[1] = t[1] => s = t
  /\ \A s \in Stored : <<s[3], s[2]>> \in Managers /\ Home[s[3]] = s[2]
  /\ Callers \subseteq [user : Users \cup {NoOne}, key : Keys \cup {NoOne}] \ {Nobody}
  /\ NoOne \notin Orgs \cup Keys \cup Users
  /\ Keys \cap Users = {}

VARIABLES
  rebac,    \* whether SPICEDB_ENDPOINT is configured: authorizer # nil
  row,      \* api_keys, by id
  manages,  \* SpiceDB: who has manage_api_keys on which project
  linked,   \* SpiceDB: <<key, org>> pairs of api_key#project
  creators, \* SpiceDB: <<key, subject>> pairs of api_key#creator
  audit,    \* audit_logs: the rows of the requests, as a set
  pc,       \* the call each request makes next
  call,     \* what each request asks for, and who asks
  org,      \* orgID, once resolved
  answer,   \* what each request was answered
  listed    \* the keys each list request returned

vars  == <<rebac, row, manages, linked, creators, audit, pc, call, org, answer, listed>>
spice == <<manages, linked, creators>>

Subjects == Users \cup Keys
Calls    == [op : {"create", "list", "revoke"}, by : Callers,
             explicit : Orgs \cup {NoOne}, key : Keys \cup {NoOne}, wild : BOOLEAN]
NoCall   == [op |-> "none", by |-> Nobody, explicit |-> NoOne, key |-> NoOne, wild |-> FALSE]
PCs      == {"new", "resolve", "check", "insert", "linkProject", "linkCreator",
             "checkKey", "checkProject", "update", "audit", "read", "done"}
Answers  == {"none", "ok", "unauthorized", "forbidden", "badOrg", "notFound", "error"}

\* createdBy and revokedBy are history variables: the table has neither.
Rows  == [org : Orgs, wild : BOOLEAN, revoked : BOOLEAN,
          createdBy : Callers, revokedBy : Callers \cup {Nobody}]
NoRow == [org |-> NoOne, wild |-> FALSE, revoked |-> FALSE,
          createdBy |-> Nobody, revokedBy |-> Nobody]

StoredRow(s) == [org |-> s[2], wild |-> s[4], revoked |-> FALSE,
                 createdBy |-> [user |-> s[3], key |-> NoOne], revokedBy |-> Nobody]

Issued == {k \in Keys : row[k] # NoRow}

Init ==
  /\ rebac \in BOOLEAN
  /\ row = [k \in Keys |-> IF \E s \in Stored : s[1] = k
                           THEN StoredRow(CHOOSE s \in Stored : s[1] = k) ELSE NoRow]
  /\ manages = Managers
  /\ linked \in SUBSET {<<s[1], s[2]>> : s \in Stored}
  /\ creators \in SUBSET {<<s[1], s[3]>> : s \in Stored}
  /\ ~rebac => linked = {} /\ creators = {}
  /\ audit = {}
  /\ pc = [r \in Requests |-> "new"]
  /\ call = [r \in Requests |-> NoCall]
  /\ org = [r \in Requests |-> NoOne]
  /\ answer = [r \in Requests |-> "none"]
  /\ listed = [r \in Requests |-> {}]

-----------------------------------------------------------------------------
(* Who is asking, and for which organization. *)

Goto(r, step) == pc' = [pc EXCEPT ![r] = step]

Reply(r, what) ==
  /\ Goto(r, "done")
  /\ answer' = [answer EXCEPT ![r] = what]

\* resolveActorSubject: the session's user first; a key acts as "user:api_key_<id>".
Actor(c) == IF c.user # NoOne THEN c.user ELSE c.key

\* hasPlatformWildcard: the key's scopes; no session role is "*".
Wildcard(c) == c.key # NoOne /\ row[c.key].wild

\* callerOwnOrgID: the key's organization, else the user's default one.
OwnOrg(c) == IF c.key # NoOne THEN row[c.key].org ELSE Home[c.user]

\* callerIsOrgMember: never for an API key.
IsMember(c, o) == c.key = NoOne /\ o \in MemberOf[c.user]

\* DualAuth: a key must have a row that is not revoked (and has not expired).
Usable(k) == row[k] # NoRow /\ ~row[k].revoked

Authenticate(r) ==
  /\ pc[r] = "new"
  /\ \E c \in Calls :
       /\ c.op = "revoke" <=> c.key # NoOne
       /\ c.wild => c.op = "create"
       /\ call' = [call EXCEPT ![r] = c]
       /\ \/ /\ (c.by.key # NoOne => Usable(c.by.key))
             /\ Goto(r, "resolve")
             /\ UNCHANGED answer
          \/ /\ c.by.key # NoOne  \* not usable, expired, or the lookup failed
             /\ Reply(r, "unauthorized")
  /\ UNCHANGED <<rebac, row, spice, audit, org, listed>>

\* Mutant: every handler claims that a permission check follows.
MutantDelegated(r) == TRUE

\* delegatedAuthz: a permission check on the organization follows.
Delegated(r) == rebac /\ call[r].op # "list"

\* resolveOrgID, given what the lookup of the caller's own organization found.
MayActOn(r, own, o) ==
  LET c == call[r] IN
  \/ c.explicit = NoOne /\ o = (IF own # NoOne THEN own ELSE DefaultOrg)
  \/ /\ c.explicit # NoOne /\ o = c.explicit
     /\ \/ o = own
        \/ IsMember(c.by, o)
        \/ Wildcard(c.by)
        \/ Delegated(r)

FirstStep(r) ==
  CASE call[r].op = "list"   -> "read"
    [] call[r].op = "create" -> IF rebac THEN "check" ELSE "insert"
    [] call[r].op = "revoke" -> IF rebac THEN "checkKey" ELSE "update"

\* A failed lookup of a session's organization counts as "has none", and a failed
\* membership query as "no member".  Create refuses an organization that is not
\* found, and goes on when the lookup fails otherwise (an id of the wrong form).
Resolve(r) ==
  /\ pc[r] = "resolve"
  /\ \E own \in {OwnOrg(call[r].by)} \cup (IF call[r].by.key = NoOne THEN {NoOne} ELSE {}) :
       \/ \E o \in Orgs :
            /\ MayActOn(r, own, o)
            /\ \/ /\ org' = [org EXCEPT ![r] = o]
                  /\ Goto(r, FirstStep(r))
                  /\ UNCHANGED answer
               \/ /\ call[r].op = "create" /\ o \notin KnownOrgs
                  /\ Reply(r, "badOrg")
                  /\ UNCHANGED org
       \/ /\ \/ ~\E o \in Orgs : MayActOn(r, own, o)
             \/ IsMember(call[r].by, call[r].explicit) /\ call[r].explicit # own /\ ~Delegated(r)
          /\ Reply(r, "forbidden")
          /\ UNCHANGED org
  /\ UNCHANGED <<rebac, row, spice, audit, call, listed>>

-----------------------------------------------------------------------------
(* SpiceDB (spicedb.go, schema.zed).  Every check is fully consistent. *)

CanManage(s, o) == <<s, o>> \in manages

CanRevoke(s, k) ==
  \/ <<k, s>> \in creators
  \/ \E o \in Orgs : <<k, o>> \in linked /\ CanManage(s, o)

\* CheckPermission, which answers, or fails.
Ask(r, allowed, yes, no) ==
  \/ allowed /\ Goto(r, yes) /\ UNCHANGED answer
  \/ ~allowed /\ (IF no = "forbidden" THEN Reply(r, no) ELSE Goto(r, no) /\ UNCHANGED answer)
  \/ Reply(r, "error")

\* WriteRelationship: its error is discarded.
Write(r, tuples, tuple, next) ==
  /\ tuples' \in {tuples, tuples \cup {tuple}}
  /\ Goto(r, next)

-----------------------------------------------------------------------------
(* POST /api/v1/auth/api-keys *)

CheckManage(r) ==
  /\ pc[r] = "check"
  /\ Ask(r, CanManage(Actor(call[r].by), org[r]), "insert", "forbidden")
  /\ UNCHANGED <<rebac, row, spice, audit, call, org, listed>>

\* CreateAPIKey: the row of a new key.
KeyRow(r) == [org |-> org[r], wild |-> call[r].wild, revoked |-> FALSE,
              createdBy |-> call[r].by, revokedBy |-> Nobody]

\* The row's id is remembered as the key the request is about; api_keys.org_id
\* references organizations.  An INSERT that fails may have been committed.
Insert(r) ==
  /\ pc[r] = "insert"
  /\ \/ /\ org[r] \in KnownOrgs
        /\ \E k \in Keys \ Issued :
             /\ row' = [row EXCEPT ![k] = KeyRow(r)]
             /\ \/ /\ call' = [call EXCEPT ![r].key = k]
                   /\ Goto(r, IF rebac THEN "linkProject" ELSE "audit")
                   /\ UNCHANGED answer
                \/ Reply(r, "error") /\ UNCHANGED call
     \/ Reply(r, "error") /\ UNCHANGED <<row, call>>
  /\ UNCHANGED <<rebac, spice, audit, org, listed>>

LinkProject(r) ==
  /\ pc[r] = "linkProject"
  /\ Write(r, linked, <<call[r].key, org[r]>>, "linkCreator")
  /\ UNCHANGED <<rebac, row, manages, creators, audit, call, org, answer, listed>>

LinkCreator(r) ==
  /\ pc[r] = "linkCreator"
  /\ Write(r, creators, <<call[r].key, Actor(call[r].by)>>, "audit")
  /\ UNCHANGED <<rebac, row, manages, linked, audit, call, org, answer, listed>>

-----------------------------------------------------------------------------
(* DELETE /api/v1/auth/api-keys/{id} *)

\* Mutant: the fallback on the parent project is missing.
MutantCheckKey(r) ==
  /\ pc[r] = "checkKey"
  /\ Ask(r, CanRevoke(Actor(call[r].by), call[r].key), "update", "forbidden")
  /\ UNCHANGED <<rebac, row, spice, audit, call, org, listed>>

CheckKey(r) ==
  /\ pc[r] = "checkKey"
  /\ Ask(r, CanRevoke(Actor(call[r].by), call[r].key), "update", "checkProject")
  /\ UNCHANGED <<rebac, row, spice, audit, call, org, listed>>

CheckProject(r) ==
  /\ pc[r] = "checkProject"
  /\ Ask(r, CanManage(Actor(call[r].by), org[r]), "update", "forbidden")
  /\ UNCHANGED <<rebac, row, spice, audit, call, org, listed>>

\* Mutant: the statement no longer names the organization.
MutantMatches(r) == call[r].key \in Issued /\ ~row[call[r].key].revoked

\* Mutant: the statement no longer requires revoked_at IS NULL.
MutantMatchesRevoked(r) == call[r].key \in Issued /\ row[call[r].key].org = org[r]

\* WHERE id = $1 AND org_id = $2 AND revoked_at IS NULL
Matches(r) == LET k == call[r].key IN
  k \in Issued /\ row[k].org = org[r] /\ ~row[k].revoked

\* As of the INSERT, a failure may have been committed.
Update(r) ==
  /\ pc[r] = "update"
  /\ \/ /\ Matches(r)
        /\ row' = [row EXCEPT ![call[r].key].revoked = TRUE, ![call[r].key].revokedBy = call[r].by]
        /\ \/ Goto(r, "audit") /\ UNCHANGED answer
           \/ Reply(r, "error")
     \/ ~Matches(r) /\ Reply(r, "notFound") /\ UNCHANGED row
     \/ Reply(r, "error") /\ UNCHANGED row
  /\ UNCHANGED <<rebac, spice, audit, call, org, listed>>

-----------------------------------------------------------------------------
(* What both changes end with, and GET /api/v1/auth/api-keys. *)

\* The audit row a handler writes about its change: SpiceDB's subject, else the
\* key, else "system", here NoOne.
Entry(r) ==
  [action |-> call[r].op, org |-> org[r], key |-> call[r].key,
   actor |-> IF rebac THEN Actor(call[r].by) ELSE call[r].by.key]

\* RecordAuditLog: its error is discarded.
Audit(r) ==
  /\ pc[r] = "audit"
  /\ audit' \in {audit, audit \cup {Entry(r)}}
  /\ Reply(r, "ok")
  /\ UNCHANGED <<rebac, row, spice, call, org, listed>>

\* ListAPIKeysByOrg: revoked and expired keys included.
KeysOf(o) == {k \in Issued : row[k].org = o}

List(r) ==
  /\ pc[r] = "read"
  /\ \/ /\ listed' = [listed EXCEPT ![r] = KeysOf(org[r])]
        /\ Reply(r, "ok")
     \/ Reply(r, "error") /\ UNCHANGED listed
  /\ UNCHANGED <<rebac, row, spice, audit, call, org>>

-----------------------------------------------------------------------------
(* The environment: an administrator loses the right to manage keys. *)

Withdraw(m) ==
  /\ rebac
  /\ manages' = manages \ {m}
  /\ UNCHANGED <<rebac, row, linked, creators, audit, pc, call, org, answer, listed>>

Serve(r) ==
  \/ Authenticate(r) \/ Resolve(r)
  \/ CheckManage(r) \/ Insert(r) \/ LinkProject(r) \/ LinkCreator(r)
  \/ CheckKey(r) \/ CheckProject(r) \/ Update(r)
  \/ Audit(r) \/ List(r)

Next ==
  \/ \E r \in Requests : Serve(r)
  \/ \E m \in manages : Withdraw(m)

Spec == Init /\ [][Next]_vars

-----------------------------------------------------------------------------
\* An organization a caller belongs to, by its key or its account; a session
\* whose organization cannot be established acts on DefaultOrg.
Belongs(c, o) ==
  IF c.key # NoOne THEN row[c.key].org = o
                   ELSE o = Home[c.user] \/ o \in MemberOf[c.user] \/ o = DefaultOrg

\* One it may act on without a further check.  Whoever may create a key may give
\* it the scope "*" (CreateAPIKeyHandler takes the scopes as they come).
Entitled(c, o) == Belongs(c, o) \/ Wildcard(c)

\* A subject that SpiceDB was told manages an organization's keys, at some time.
Managed(c, o) == <<Actor(c), o>> \in Managers

(* A key is created by someone with the right to manage the keys of the    *)
(* organization it is created in, and revoked by such a person or by its   *)
(* creator, whichever organization the revoking request named and whoever  *)
(* changed what between its checks and its UPDATE (RevokeAPIKeyHandler     *)
(* asks SpiceDB about a key and about a project that need not be its own). *)
(* Without SpiceDB, that is someone of the organization, or the holder of  *)
(* a key with the scope "*".                                               *)
ChangedByRight ==
  \A k \in Issued :
    /\ IF rebac THEN Managed(row[k].createdBy, row[k].org)
                ELSE Entitled(row[k].createdBy, row[k].org)
    /\ row[k].revoked =>
         IF rebac THEN \/ Managed(row[k].revokedBy, row[k].org)
                       \/ Actor(row[k].revokedBy) = Actor(row[k].createdBy)
                  ELSE Entitled(row[k].revokedBy, row[k].org)

(* Who manages an organization's keys is never refused its keys, even if   *)
(* the relationships of the key were lost when it was created: CheckKey    *)
(* then fails and the fallback on the project decides.                     *)
ManagerNeverForbidden ==
  \A r \in Requests :
    (rebac /\ answer[r] = "forbidden" /\ org[r] # NoOne)
      => ~CanManage(Actor(call[r].by), org[r])

\* An audit row names the account or the key that asked.  "system" stands for a
\* session where there is no SpiceDB.
NamedBy(actor, c) == IF actor = NoOne THEN ~rebac /\ c.key = NoOne ELSE actor \in {c.user, c.key}

(* Of the requests that race to revoke one key a single one is told it     *)
(* did, and what the audit trail says of a key is so: the organization is  *)
(* the key's, and the actor is who created it, or who revoked it of those  *)
(* that tried (RecordAuditLog).  The trail may miss a change, and without  *)
(* SpiceDB it does not say which session made one.                         *)
AuditedOnce ==
  /\ \A r, q \in Requests :
       (/\ answer[r] = "ok" /\ call[r].op = "revoke"
        /\ answer[q] = "ok" /\ call[q].op = "revoke"
        /\ call[r].key = call[q].key) => r = q
  /\ \A e \in audit : LET k == e.key IN
       /\ k \in Issued /\ e.org = row[k].org
       /\ e.action = "revoke" => row[k].revoked /\ NamedBy(e.actor, row[k].revokedBy)
       /\ e.action = "create" => NamedBy(e.actor, row[k].createdBy)

(* A listing shows keys of one organization, and one its caller belongs to *)
(* (or is the seeded default of a caller whose own could not be read),     *)
(* unless the caller's key carries the scope "*", which opens them all.    *)
ListingStaysHome ==
  \A r \in Requests : \A k, l \in listed[r] :
    row[k].org = row[l].org /\ Entitled(call[r].by, row[k].org)
=============================================================================
