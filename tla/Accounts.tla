------------------------------ MODULE Accounts ------------------------------
(***************************************************************************)
(* Accounts and organizations: registration and the verification of the    *)
(* address (handlers/auth.go), login, creating an organization, changing   *)
(* its plan (handlers/account.go), and what the tables of store/account.go *)
(* answer in between.  No handler uses a transaction: a request is a chain *)
(* of statements, each of which may fail, or commit and report an error,   *)
(* and other requests run between them.                                    *)
(*                                                                         *)
(* Left out: which organization a caller may name (ApiKeys), how a reset   *)
(* token is made and redeemed and how sessions_valid_from is cached        *)
(* (SessionRevocation), names, slugs and hashes.                           *)
(* A verification token is unique to its account and stands for it.        *)
(***************************************************************************)
EXTENDS Naturals

CONSTANTS
  Requests,  \* requests with several statements; each is served once
  Users,     \* ids of the users table
  Emails,    \* addresses, in lower case
  Orgs,      \* ids of the organizations table
  Plans,     \* codes of the plans table
  Free,      \* the one a missing organization is said to have
  Unknown,   \* a code the table does not have
  Seed,      \* an account that is verified and has a session
  SeedEmail,
  NoOne

ASSUME AccountsAssumption ==
  /\ Seed \in Users /\ SeedEmail \in Emails
  /\ Free \in Plans /\ Unknown \notin Plans
  /\ NoOne \notin Users \cup Emails \cup Orgs \cup Plans \cup {Unknown}

VARIABLES
  user,     \* users, by id
  org,      \* organizations: the plan of each, NoOne if there is no row
  members,  \* organization_members, as <<org, user>>; the role is always owner
  inbox,    \* the accounts whose verification mail was delivered
  sessions, \* the session tokens issued
  time,     \* advances with the clock readings and the UPDATEs of resets
  audit,    \* audit_logs, the plan.change rows
  req       \* what each request knows, and the statement it executes next

accountVars == <<user, org, members, inbox, sessions, time, audit, req>>

\* pw is the password: the time it was set.  resets is history: for each reset of
\* the account, when its handler read the clock, and when its UPDATE was executed.
Row(e) == [email |-> e, verified |-> FALSE, token |-> TRUE, pw |-> time,
           org |-> NoOne, role |-> "member", validFrom |-> 0, resets |-> {}]
NoRow  == [email |-> NoOne, verified |-> FALSE, token |-> FALSE, pw |-> 0,
           org |-> NoOne, role |-> "member", validFrom |-> 0, resets |-> {}]

\* pw, read: history: the password checked, and when the row was read.
Session(u, e, admin, pw, read) ==
  [user |-> u, email |-> e, admin |-> admin, pw |-> pw, read |-> read, issued |-> time]
NoSession == [user |-> NoOne, email |-> NoOne, admin |-> FALSE, pw |-> 0, read |-> 0, issued |-> 0]

\* pw, now: the password a reset's token was mailed for, and its handler's clock
\* reading.  stale and replaced are history: the plan changed after it was read; the
\* plan the UPDATE replaced.
Fresh == [pc |-> "new", op |-> "none", email |-> NoOne, by |-> NoSession, user |-> NoOne,
          org |-> NoOne, plan |-> NoOne, old |-> NoOne, answer |-> "none",
          pw |-> 0, now |-> 0, stale |-> FALSE, replaced |-> NoOne]

AccountsInit ==
  /\ time = 0
  /\ user = [u \in Users |-> IF u = Seed THEN [Row(SeedEmail) EXCEPT !.verified = TRUE, !.token = FALSE]
                                         ELSE NoRow]
  /\ org = [o \in Orgs |-> NoOne]
  /\ members = {}
  /\ inbox = {Seed}
  /\ sessions = {Session(Seed, SeedEmail, FALSE, 0, 0)}
  /\ audit = {}
  /\ req = [r \in Requests |-> Fresh]

-----------------------------------------------------------------------------
(* What the tables answer. *)

Accounts     == {u \in Users : user[u] # NoRow}
WithEmail(e) == {u \in Accounts : user[u].email = e}

Existing     == {o \in Orgs : org[o] # NoOne}

\* The validator of session tokens: not issued before sessions_valid_from.
Accepted(s) == s.issued >= user[s.user].validFrom

\* ListUserOrganizations and IsOrgMember; GetOrganizationMembers.
OrganizationsOf(u) == {o \in Orgs : <<o, u>> \in members}
MembersOf(o)       == {u \in Accounts : user[u].org = o}

\* SessionOrg: the default organization of the subject, or if that cannot be
\* read of the account with the session's address.
SessionOrg(s) == {user[u].org : u \in {s.user} \cup WithEmail(s.email)} \ {NoOne}

-----------------------------------------------------------------------------
(* How a request goes on. *)

Become(r, rec)     == req' = [req EXCEPT ![r] = rec]
Continue(r, step)  == Become(r, [req[r] EXCEPT !.pc = step])
Reply(r, answer)   == Become(r, [req[r] EXCEPT !.pc = "done", !.answer = answer])

\* The handler of POST organizations ignores every error after the INSERT.
Shrug(r) == Reply(r, "created")

-----------------------------------------------------------------------------
(* POST /auth/register and /auth/verify-email *)

Register(r, e) ==
  /\ req[r].pc = "new"
  /\ LET start == [Fresh EXCEPT !.op = "register", !.email = e] IN
       \/ Become(r, [start EXCEPT !.pc = "done", !.answer =
                       IF WithEmail(e) # {} THEN "conflict" ELSE "error"])
       \/ WithEmail(e) = {} /\ Become(r, [start EXCEPT !.pc = "insertUser"])
  /\ UNCHANGED <<user, org, members, inbox, sessions, time, audit>>

\* users.email is UNIQUE: the INSERT fails although the SELECT found nothing.
Unique(e) == WithEmail(e) = {}

InsertUser(r) ==
  /\ req[r].pc = "insertUser"
  /\ LET e == req[r].email IN
       \/ \E u \in Users \ Accounts :
            /\ Unique(e)
            /\ user' = [user EXCEPT ![u] = Row(e)]
            /\ \/ Become(r, [req[r] EXCEPT !.pc = "mail", !.user = u])
               \/ Reply(r, "error")
       \/ ~Unique(e) /\ Reply(r, "conflict") /\ UNCHANGED user
       \/ Reply(r, "error") /\ UNCHANGED user
  /\ UNCHANGED <<org, members, inbox, sessions, time, audit>>

\* A mail that cannot be sent is logged; there is no second one.
Mail(r) ==
  /\ req[r].pc = "mail"
  /\ inbox' \in {inbox, inbox \cup {req[r].user}}
  /\ Reply(r, "created")
  /\ UNCHANGED <<user, org, members, sessions, time, audit>>

\* Mutant: the development flow of before, an empty token matches by address.
MutantTokenMatches(u, e, t) == user[u].email = e /\ (t = NoOne \/ (t = u /\ user[u].token))

\* LOWER(email) = LOWER($1) AND verification_token = $2, which is never "".
TokenMatches(u, e, t) == user[u].email = e /\ t = u /\ user[u].token

\* Whoever read a mail, or nobody's, presents its token with any address.
VerifyEmail(u, e, t) ==
  /\ TokenMatches(u, e, t)
  /\ user' = [user EXCEPT ![u].verified = TRUE, ![u].token = FALSE]
  /\ UNCHANGED <<org, members, inbox, sessions, time, audit, req>>

-----------------------------------------------------------------------------
(* POST /auth/login *)

\* GetUserByEmail, then the password and email_verified of what it returned.
Login(r, e, pw) ==
  /\ req[r].pc = "new"
  /\ LET start == [Fresh EXCEPT !.op = "login", !.email = e] IN
       \/ \E u \in WithEmail(e) :
            /\ user[u].pw = pw /\ user[u].verified
            /\ Become(r, [start EXCEPT !.pc = "issue", !.by =
                            Session(u, e, user[u].role = "owner", pw, time)])
       \/ Become(r, [start EXCEPT !.pc = "done", !.answer = "refused"])
  /\ UNCHANGED <<user, org, members, inbox, sessions, time, audit>>

\* CreateSessionToken: iat is the time of the call.
Issue(r) ==
  /\ req[r].pc = "issue"
  /\ sessions' = sessions \cup {[req[r].by EXCEPT !.issued = time]}
  /\ Reply(r, "ok")
  /\ UNCHANGED <<user, org, members, inbox, time, audit>>

-----------------------------------------------------------------------------
(* POST /auth/password-reset/confirm, with a token that was mailed before *)

\* The handler reads the clock, and hands the reading to the statement.
Reset(r, u) ==
  /\ req[r].pc = "new"
  /\ time' = time + 1
  /\ Become(r, [Fresh EXCEPT !.pc = "consume", !.op = "reset", !.user = u,
                             !.pw = user[u].pw, !.now = time + 1])
  /\ UNCHANGED <<user, org, members, inbox, sessions, audit>>

\* Mutant: the statement leaves sessions_valid_from alone.
MutantAfterReset(r, row) ==
  [row EXCEPT !.pw = time + 1, !.resets = @ \cup {[now |-> req[r].now, changed |-> time + 1]}]

AfterReset(r, row) ==
  [row EXCEPT !.pw = time + 1, !.validFrom = req[r].now,
              !.resets = @ \cup {[now |-> req[r].now, changed |-> time + 1]}]

\* ConsumePasswordResetToken, one UPDATE.  It matches the row's token, and clears
\* it: a token mailed for a password is worth nothing once another reset set the next.
ConsumeToken(r) ==
  /\ req[r].pc = "consume"
  /\ LET u == req[r].user IN
       \/ /\ user[u].pw = req[r].pw
          /\ time' = time + 1
          /\ user' = [user EXCEPT ![u] = AfterReset(r, user[u])]
          /\ Reply(r, "ok") \/ Reply(r, "error")
       \/ /\ Reply(r, "bad") \/ Reply(r, "error")
          /\ UNCHANGED <<user, time>>
  /\ UNCHANGED <<org, members, inbox, sessions, audit>>

-----------------------------------------------------------------------------
(* POST /account/organizations, by a session or by an API key (NoSession) *)

CreateOrg(r, s, p) ==
  /\ req[r].pc = "new"
  /\ LET start == [Fresh EXCEPT !.op = "create", !.by = s, !.plan = p] IN
       \/ p \in Plans /\ Become(r, [start EXCEPT !.pc = "insertOrg"])
       \/ Become(r, [start EXCEPT !.pc = "done", !.answer = "error"])
  /\ UNCHANGED <<user, org, members, inbox, sessions, time, audit>>

\* The slug is UNIQUE: a second organization of that name can fail.
InsertOrg(r) ==
  /\ req[r].pc = "insertOrg"
  /\ \/ \E o \in Orgs :
          /\ org[o] = NoOne
          /\ org' = [org EXCEPT ![o] = req[r].plan]
          /\ \/ Become(r, IF req[r].by = NoSession
                            THEN [req[r] EXCEPT !.org = o, !.pc = "done", !.answer = "created"]
                            ELSE [req[r] EXCEPT !.org = o, !.pc = "findOwner"])
             \/ Become(r, [req[r] EXCEPT !.org = o, !.pc = "done", !.answer = "error"])
     \/ Reply(r, "error") /\ UNCHANGED org
  /\ UNCHANGED <<user, members, inbox, sessions, time, audit>>

\* GetUserByEmail of the session's address.
FindOwner(r) ==
  /\ req[r].pc = "findOwner"
  /\ \/ \E u \in WithEmail(req[r].by.email) :
          Become(r, [req[r] EXCEPT !.pc = "addMember", !.user = u])
     \/ Shrug(r)
  /\ UNCHANGED <<user, org, members, inbox, sessions, time, audit>>

\* Mutant: AssignUserToOrg goes on when the membership cannot be recorded.
MutantAddMember(r) ==
  /\ req[r].pc = "addMember"
  /\ members' \in {members, members \cup {<<req[r].org, req[r].user>>}}
  /\ Continue(r, "setDefault")
  /\ UNCHANGED <<user, org, inbox, sessions, time, audit>>

\* AssignUserToOrg: ON CONFLICT DO UPDATE; an error ends it here.
AddMember(r) ==
  /\ req[r].pc = "addMember"
  /\ LET more == members \cup {<<req[r].org, req[r].user>>} IN
       \/ members' = more /\ Continue(r, "setDefault")
       \/ members' \in {members, more} /\ Shrug(r)
  /\ UNCHANGED <<user, org, inbox, sessions, time, audit>>

SetDefault(r) ==
  /\ req[r].pc = "setDefault"
  /\ LET chosen == [user EXCEPT ![req[r].user].org = req[r].org, ![req[r].user].role = "owner"] IN
       \/ user' = chosen /\ Reply(r, "created")
       \/ user' \in {user, chosen} /\ Shrug(r)
  /\ UNCHANGED <<org, members, inbox, sessions, time, audit>>

-----------------------------------------------------------------------------
(* PUT /account/plan, for an organization or for an id that names none (NoOne) *)

\* GetOrganizationPlan: an organization that is not there has the free plan.
PlanOf(o) == IF o \in Existing THEN org[o] ELSE Free

\* An error of GetOrganizationPlan is ignored.
UpdatePlan(r, o, p) ==
  /\ req[r].pc = "new"
  /\ \E old \in {PlanOf(o), NoOne} :
       Become(r, [Fresh EXCEPT !.op = "plan", !.org = o, !.plan = p, !.old = old, !.pc = "setPlan"])
  /\ UNCHANGED <<user, org, members, inbox, sessions, time, audit>>

\* The requests that read a plan of o which now changes hold a stale one.
Change(r, o, rec) ==
  req' = [q \in Requests |->
            IF q = r THEN rec
            ELSE [req[q] EXCEPT !.stale = @ \/ (req[q].pc = "setPlan" /\ req[q].org = o)]]

SetPlan(r) ==
  /\ req[r].pc = "setPlan"
  /\ LET o == req[r].org  p == req[r].plan IN
       \/ /\ p \in Plans /\ o \in Existing
          /\ org' = [org EXCEPT ![o] = p]
          /\ \/ Change(r, o, [req[r] EXCEPT !.pc = "audit", !.replaced = org[o]])
             \/ Change(r, o, [req[r] EXCEPT !.pc = "done", !.answer = "error"])
       \/ ~(p \in Plans /\ o \in Existing) /\ Reply(r, "bad") /\ UNCHANGED org
       \/ Reply(r, "error") /\ UNCHANGED org
  /\ UNCHANGED <<user, members, inbox, sessions, time, audit>>

\* Mutant: the old plan is read when the row is written.
MutantEntry(r) ==
  [request |-> r, org |-> req[r].org, old |-> org[req[r].org], new |-> req[r].plan]

Entry(r) == [request |-> r, org |-> req[r].org, old |-> req[r].old, new |-> req[r].plan]

\* RecordAuditLog's error is discarded.
AuditPlan(r) ==
  /\ req[r].pc = "audit"
  /\ audit' \in {audit, audit \cup {Entry(r)}}
  /\ Reply(r, "ok")
  /\ UNCHANGED <<user, org, members, inbox, sessions, time>>

-----------------------------------------------------------------------------
Serve(r) ==
  \/ \E e \in Emails : Register(r, e)
  \/ InsertUser(r) \/ Mail(r)
  \/ \E e \in Emails, pw \in 0 .. time : Login(r, e, pw)
  \/ Issue(r)
  \/ \E u \in Accounts : Reset(r, u)
  \/ ConsumeToken(r)
  \/ \E s \in {t \in sessions : Accepted(t)} \cup {NoSession}, p \in Plans \cup {Unknown} :
       CreateOrg(r, s, p)
  \/ InsertOrg(r) \/ FindOwner(r) \/ AddMember(r) \/ SetDefault(r)
  \/ \E o \in Existing \cup {NoOne}, p \in Plans \cup {Unknown} : UpdatePlan(r, o, p)
  \/ SetPlan(r) \/ AuditPlan(r)

AccountsNext ==
  \/ \E r \in Requests : Serve(r)
  \/ \E u \in Accounts, e \in Emails, t \in inbox \cup {NoOne} : VerifyEmail(u, e, t)

AccountsSpec == AccountsInit /\ [][AccountsNext]_accountVars

-----------------------------------------------------------------------------
(* Every session is of an account whose address was proved: a mail reached *)
(* that address and its token came back (VerifyUserEmail, LoginHandler).   *)
MailboxProven ==
  \A s \in sessions : s.user \in inbox /\ user[s.user].email = s.email

(* The organization a session's calls are attributed to, by its subject or *)
(* by its address, the members an organization lists and the admin role a  *)
(* token carries are all backed by a row of organization_members, though   *)
(* AssignUserToOrg writes two tables and may stop between them.            *)
AttributedToOwn ==
  /\ \A s \in sessions : SessionOrg(s) \subseteq OrganizationsOf(s.user)
  /\ \A s \in sessions : s.admin => OrganizationsOf(s.user) # {}
  /\ \A o \in Orgs : \A u \in MembersOf(o) : o \in OrganizationsOf(u)

(* A session that was obtained with a password since replaced and is still *)
(* accepted comes from a login that overlapped every reset since then: its *)
(* check came before the reset's UPDATE, and its token after the handler   *)
(* read the clock (ConfirmPasswordResetHandler, LoginHandler).  The login  *)
(* may lie between the two, or the UPDATE between its check and its token; *)
(* a session that was there when a reset began is ended by it.             *)
LateLoginOnly ==
  \A s \in sessions : \A x \in user[s.user].resets :
    (Accepted(s) /\ s.pw < x.changed) => s.read < x.changed /\ s.issued >= x.now

(* The plan an audit row says was replaced is the one that was, unless the *)
(* handler could not read it or another change came between its SELECT and *)
(* its UPDATE (UpdatePlanHandler).                                         *)
AuditedPlanTrue ==
  \A e \in audit : LET q == req[e.request] IN
    e.new = q.plan /\ (e.old = q.replaced \/ e.old = NoOne \/ q.stale)
=============================================================================
