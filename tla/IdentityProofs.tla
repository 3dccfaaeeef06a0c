--------------------------- MODULE IdentityProofs ---------------------------
(***************************************************************************)
(* Who a caller is.  Safety of Accounts for every set of requests,         *)
(* accounts, addresses, organizations and plans and any number of password *)
(* resets; and of JwksCache for every number of goroutines and keys, every *)
(* interval and timeout, and every fault.                                  *)
(***************************************************************************)
EXTENDS Accounts, JwksCache, TLAPS

(* The types of the tables and of what a request knows. *)
UserRows == [email : Emails \cup {NoOne}, verified : BOOLEAN, token : BOOLEAN, pw : Nat,
             org : Orgs \cup {NoOne}, role : {"member", "owner"}, validFrom : Nat,
             resets : SUBSET [now : Nat, changed : Nat]]
Sessions == [user : Users \cup {NoOne}, email : Emails \cup {NoOne}, admin : BOOLEAN,
             pw : Nat, read : Nat, issued : Nat]
Steps    == {"new", "insertUser", "mail", "issue", "insertOrg", "findOwner", "addMember",
             "setDefault", "setPlan", "audit", "consume", "done"}
Contexts == [pc : Steps, op : {"none", "register", "login", "create", "plan", "reset"},
             email : Emails \cup {NoOne}, by : Sessions, user : Users \cup {NoOne},
             org : Orgs \cup {NoOne}, plan : Plans \cup {Unknown, NoOne},
             old : Plans \cup {NoOne},
             answer : {"none", "conflict", "error", "created", "refused", "ok", "bad"},
             pw : Nat, now : Nat, stale : BOOLEAN, replaced : Plans \cup {NoOne}]

TablesType ==
  /\ user \in [Users -> UserRows]
  /\ org \in [Orgs -> Plans \cup {NoOne}]
  /\ members \subseteq Orgs \X Users
  /\ inbox \subseteq Users
  /\ time \in Nat

AccountsType ==
  /\ TablesType
  /\ sessions \subseteq Sessions
  /\ req \in [Requests -> Contexts]
  /\ \A e \in audit : e.request \in Requests

(* A row is verified because its mail was read, and names an organization, *)
(* or the role of an owner, because a membership was recorded before.  Its *)
(* password is as old as the last reset, whose clock reading is the latest *)
(* of the resets'.                                                         *)
CutoffInv(row) ==
  /\ row.pw <= time /\ row.validFrom <= time
  /\ \A x \in row.resets : x.now <= row.validFrom /\ x.changed <= row.pw
Cutoffs == \A u \in Users : CutoffInv(user[u])

RowsInv ==
  /\ \A u, v \in Accounts : user[u].email = user[v].email => u = v
  /\ \A u \in Accounts : user[u].email \in Emails
  /\ \A u \in Users :
       /\ user[u].verified => u \in inbox
       /\ user[u].org # NoOne => <<user[u].org, u>> \in members
       /\ user[u].role = "owner" => \E o \in Orgs : <<o, u>> \in members
  /\ Cutoffs

(* A session, or a login about to issue one, is of a verified account and  *)
(* carries its address; its password was checked before every reset that   *)
(* came after it was set.                                                  *)
SessionSound(s) ==
  /\ s.user \in Accounts
  /\ user[s.user].verified
  /\ user[s.user].email = s.email
  /\ s.admin => \E o \in Orgs : <<o, s.user>> \in members
  /\ s.read <= time
  /\ \A x \in user[s.user].resets : s.pw < x.changed => s.read < x.changed

(* What a request may rely on when its next statement is executed. *)
PlanKnown(q) ==
  q.org # NoOne => q.org \in Existing /\ (q.old \in {NoOne, org[q.org]} \/ q.stale)

(* As long as a reset's password stands, no other reset read a later clock. *)
Mailed(q) ==
  /\ q.user \in Accounts /\ q.pw <= time /\ q.now <= time
  /\ user[q.user].pw = q.pw => user[q.user].validFrom <= q.now

ContextSound(q) ==
  /\ q.pc = "insertUser" => q.email \in Emails
  /\ q.pc = "mail" => q.user \in Users
  /\ q.pc = "issue" => SessionSound(q.by)
  /\ q.pc = "insertOrg" => q.plan \in Plans
  /\ q.pc \in {"findOwner", "addMember", "setDefault"} => q.org \in Orgs
  /\ q.pc \in {"addMember", "setDefault"} => q.user \in Accounts
  /\ q.pc = "setDefault" => <<q.org, q.user>> \in members
  /\ q.pc = "setPlan" => PlanKnown(q)
  /\ q.pc = "consume" => Mailed(q)
  /\ q.pc = "audit" => q.old \in {NoOne, q.replaced} \/ q.stale

(* A request writes its audit row as the last thing it does. *)
AuditInv ==
  \A e \in audit : LET q == req[e.request] IN
    /\ q.pc = "done"
    /\ e.new = q.plan
    /\ e.old \in {NoOne, q.replaced} \/ q.stale

AccountsInv ==
  /\ AccountsType
  /\ RowsInv
  /\ \A s \in sessions : SessionSound(s)
  /\ \A r \in Requests : ContextSound(req[r])
  /\ AuditInv

-----------------------------------------------------------------------------
(* What no step takes back: accounts keep their address, verification and  *)
(* organizations; a new password is of this moment, and its reset's.       *)
AccountsGrow ==
  /\ members \subseteq members'
  /\ time \in Nat /\ time' \in Nat /\ time <= time'
  /\ \A u \in Accounts :
       /\ u \in Accounts'
       /\ user'[u].email = user[u].email
       /\ user[u].verified => user'[u].verified
       /\ \/ user'[u].pw = user[u].pw /\ user'[u].validFrom = user[u].validFrom
          \/ user'[u].pw \in Nat /\ user'[u].pw > time
       /\ \A x \in user'[u].resets : x \in user[u].resets \/ (x.changed \in Nat /\ x.changed > time)

LEMMA SessionStaysSound ==
  ASSUME AccountsGrow, NEW s \in Sessions, SessionSound(s)
  PROVE  SessionSound(s)'
<1>1. s.user \in Accounts' /\ user'[s.user].verified /\ user'[s.user].email = s.email
  BY DEF AccountsGrow, SessionSound
<1>2. s.admin => \E o \in Orgs : <<o, s.user>> \in members'
  BY DEF AccountsGrow, SessionSound
<1>3. s.read <= time'
  BY DEF AccountsGrow, SessionSound, Sessions
<1>4. \A x \in user'[s.user].resets : s.pw < x.changed => s.read < x.changed
  BY DEF AccountsGrow, SessionSound, Sessions
<1> QED
  BY <1>1, <1>2, <1>3, <1>4 DEF SessionSound

LEMMA ContextStaysSound ==
  ASSUME AccountsGrow, NEW q \in Contexts, ContextSound(q),
         q.pc = "setPlan" /\ q.org # NoOne => org'[q.org] = org[q.org]
  PROVE  ContextSound(q)'
<1>1. q.pc = "issue" => SessionSound(q.by)'
  BY SessionStaysSound DEF ContextSound, Contexts
<1>2. q.pc = "setPlan" => PlanKnown(q)'
  BY DEF ContextSound, PlanKnown, Existing
<1>3. q.pc \in {"addMember", "setDefault"} => q.user \in Accounts'
  BY DEF ContextSound, AccountsGrow
<1>4. q.pc = "setDefault" => <<q.org, q.user>> \in members'
  BY DEF ContextSound, AccountsGrow
<1>5. q.pc = "consume" => Mailed(q)'
  BY DEF ContextSound, Mailed, AccountsGrow, Contexts
<1> QED
  BY <1>1, <1>2, <1>3, <1>4, <1>5 DEF ContextSound

(* One request goes on, the tables grow, and the plans stay: what is left  *)
(* to show is that the request may rely on what it will rely on.           *)
LEMMA OneRequestGoesOn ==
  ASSUME AccountsInv, AccountsGrow, TablesType', RowsInv', UNCHANGED audit,
         NEW r \in Requests, req[r].pc # "done",
         NEW rec \in Contexts, Become(r, rec), ContextSound(rec)',
         \A o \in Existing : org'[o] = org[o],
         \A s \in sessions' : s \in Sessions /\ (s \in sessions \/ SessionSound(s)')
  PROVE  AccountsInv'
<1>1. req' = [req EXCEPT ![r] = rec] /\ req \in [Requests -> Contexts]
  BY DEF Become, AccountsInv, AccountsType
<1>2. AccountsType'
  BY <1>1 DEF AccountsInv, AccountsType
<1>3. \A s \in sessions' : SessionSound(s)'
  BY SessionStaysSound DEF AccountsInv
<1>4. ASSUME NEW q \in Requests PROVE ContextSound(req[q])'
  <2>1. CASE q = r
    <3>1. req'[q] = rec
      BY <1>1, <2>1
    <3> QED
      BY <3>1
  <2>2. CASE q # r
    <3>1. PICK c \in Contexts : c = req[q] /\ c = req'[q]
      BY <1>1, <2>2
    <3>2. ContextSound(c)
      BY <3>1 DEF AccountsInv
    <3>3. c.pc = "setPlan" /\ c.org # NoOne => org'[c.org] = org[c.org]
      BY <3>2 DEF ContextSound, PlanKnown
    <3>4. ContextSound(c)'
      BY <3>2, <3>3, ContextStaysSound
    <3> QED
      BY <3>1, <3>4
  <2> QED
    BY <2>1, <2>2
<1>5. AuditInv'
  <2>1. \A e \in audit : e.request # r
    BY DEF AccountsInv, AuditInv
  <2> QED
    BY <1>1, <2>1 DEF AccountsInv, AccountsType, AuditInv
<1> QED
  BY <1>2, <1>3, <1>4, <1>5 DEF AccountsInv

(* The tables stay as they are, up to a mail that arrives. *)
LEMMA TablesStay ==
  ASSUME AccountsInv, UNCHANGED <<user, org, members, time>>,
         inbox' = inbox \/ \E u \in Users : inbox' = inbox \cup {u}
  PROVE  AccountsGrow /\ TablesType' /\ RowsInv' /\ (\A o \in Existing : org'[o] = org[o])
<1>1. TablesType /\ RowsInv
  BY DEF AccountsInv, AccountsType
<1>2. AccountsGrow
  BY <1>1 DEF AccountsGrow, TablesType, Accounts
<1>3. TablesType'
  BY <1>1 DEF TablesType
<1>4. inbox \subseteq inbox' /\ Accounts' = Accounts
  BY DEF Accounts
<1>5. RowsInv'
  BY <1>1, <1>4 DEF RowsInv, Cutoffs, CutoffInv
<1> QED
  BY <1>2, <1>3, <1>5

(* A request that only reads, or issues a session. *)
LEMMA RequestReads ==
  ASSUME AccountsInv, UNCHANGED <<user, org, members, time, audit>>,
         inbox' = inbox \/ \E u \in Users : inbox' = inbox \cup {u},
         NEW r \in Requests, req[r].pc # "done",
         NEW rec \in Contexts, Become(r, rec), ContextSound(rec),
         \A s \in sessions' : s \in Sessions /\ (s \in sessions \/ SessionSound(s))
  PROVE  AccountsInv'
<1>1. AccountsGrow /\ TablesType' /\ RowsInv' /\ (\A o \in Existing : org'[o] = org[o])
  BY TablesStay
<1>2. ContextSound(rec)'
  BY <1>1, ContextStaysSound
<1>3. \A s \in sessions' : s \in Sessions /\ (s \in sessions \/ SessionSound(s)')
  BY <1>1, SessionStaysSound
<1> QED
  BY <1>1, <1>2, <1>3, OneRequestGoesOn

LEMMA FreshTypes ==
  /\ NoSession \in Sessions
  /\ Fresh \in Contexts
BY DEF NoSession, Sessions, Fresh, Contexts, Steps

LEMMA RegisterKeeps ==
  ASSUME AccountsInv, NEW r \in Requests, NEW e \in Emails, Register(r, e)
  PROVE  AccountsInv'
<1>s. PICK start : start = [Fresh EXCEPT !.op = "register", !.email = e]
  OBVIOUS
<1>1. req[r].pc # "done" /\ UNCHANGED <<user, org, members, inbox, sessions, time, audit>>
  BY DEF Register
<1>2. PICK rec : /\ Become(r, rec)
                 /\ \/ \E a \in {"conflict", "error"} :
                         rec = [start EXCEPT !.pc = "done", !.answer = a]
                    \/ rec = [start EXCEPT !.pc = "insertUser"]
  BY <1>s DEF Register
<1>3. start \in Contexts /\ start.email = e
  BY <1>s, FreshTypes DEF Contexts
<1>4. rec \in Contexts /\ (rec.pc = "done" \/ (rec.pc = "insertUser" /\ rec.email = e))
  <2>1. ASSUME NEW a \in {"conflict", "error"}, rec = [start EXCEPT !.pc = "done", !.answer = a]
        PROVE  rec \in Contexts /\ rec.pc = "done"
    BY <1>3, <2>1, ZenonT(60) DEF Contexts, Steps
  <2>2. CASE rec = [start EXCEPT !.pc = "insertUser"]
    BY <1>3, <2>2 DEF Contexts, Steps
  <2> QED
    BY <1>2, <2>1, <2>2
<1>5. ContextSound(rec)
  BY <1>4 DEF ContextSound
<1>6. sessions \subseteq Sessions
  BY DEF AccountsInv, AccountsType
<1> QED
  BY <1>1, <1>2, <1>4, <1>5, <1>6, RequestReads

LEMMA MailKeeps ==
  ASSUME AccountsInv, NEW r \in Requests, Mail(r)
  PROVE  AccountsInv'
<1>1. req[r] \in Contexts /\ ContextSound(req[r]) /\ sessions \subseteq Sessions
  BY DEF AccountsInv, AccountsType
<1>2. PICK rec : rec = [req[r] EXCEPT !.pc = "done", !.answer = "created"] /\ Become(r, rec)
  BY DEF Mail, Reply
<1>3. rec \in Contexts /\ ContextSound(rec)
  BY <1>1, <1>2, ZenonT(60) DEF Contexts, Steps, ContextSound
<1>4. req[r].user \in Users /\ req[r].pc # "done"
  BY <1>1 DEF Mail, ContextSound
<1>5. inbox' = inbox \/ \E u \in Users : inbox' = inbox \cup {u}
  BY <1>4 DEF Mail
<1> QED
  BY <1>1, <1>2, <1>3, <1>4, <1>5, RequestReads DEF Mail

LEMMA LoginKeeps ==
  ASSUME AccountsInv, NEW r \in Requests, NEW e \in Emails, NEW pw \in 0 .. time, Login(r, e, pw)
  PROVE  AccountsInv'
<1>s. PICK start : start = [Fresh EXCEPT !.op = "login", !.email = e]
  OBVIOUS
<1>1. req[r].pc # "done" /\ UNCHANGED <<user, org, members, inbox, sessions, time, audit>>
  BY DEF Login
<1>2. start \in Contexts /\ sessions \subseteq Sessions
  BY <1>s, FreshTypes DEF Contexts, AccountsInv, AccountsType
<1>3. CASE Become(r, [start EXCEPT !.pc = "done", !.answer = "refused"])
  <2>1. PICK rec : rec = [start EXCEPT !.pc = "done", !.answer = "refused"] /\ Become(r, rec)
    BY <1>3
  <2>2. rec \in Contexts /\ ContextSound(rec)
    BY <1>2, <2>1, ZenonT(60) DEF Contexts, Steps, ContextSound
  <2> QED
    BY <1>1, <1>2, <2>1, <2>2, RequestReads
<1>4. ASSUME NEW u \in WithEmail(e), user[u].pw = pw, user[u].verified,
             Become(r, [start EXCEPT !.pc = "issue",
                          !.by = Session(u, e, user[u].role = "owner", pw, time)])
      PROVE  AccountsInv'
  <2>1. PICK s : s = Session(u, e, user[u].role = "owner", pw, time)
    OBVIOUS
  <2>2. u \in Accounts /\ u \in Users /\ user[u].email = e /\ time \in Nat /\ pw \in Nat
    BY DEF WithEmail, Accounts, AccountsInv, AccountsType, TablesType
  <2>3. s \in Sessions
    BY <2>1, <2>2 DEF Session, Sessions
  <2>4. SessionSound(s)
    <3>1. s.user = u /\ s.email = e /\ s.pw = pw /\ s.read = time
          /\ (s.admin => user[u].role = "owner")
      BY <2>1 DEF Session
    <3>2. s.admin => \E o \in Orgs : <<o, u>> \in members
      BY <2>2, <3>1 DEF AccountsInv, RowsInv
    <3>3. ASSUME NEW x \in user[u].resets PROVE ~(pw < x.changed)
      <4>1. user[u] \in UserRows /\ x.changed <= user[u].pw
        BY <2>2 DEF AccountsInv, AccountsType, TablesType, RowsInv, Cutoffs, CutoffInv
      <4>2. x.changed \in Nat /\ user[u].pw \in Nat
        BY <4>1 DEF UserRows
      <4> QED
        BY <1>4, <4>1, <4>2
    <3>4. s.read <= time /\ \A x \in user[u].resets : ~(s.pw < x.changed)
      BY <2>2, <3>1, <3>3
    <3> QED
      BY <1>4, <2>2, <3>1, <3>2, <3>4 DEF SessionSound
  <2>5. PICK rec : rec = [start EXCEPT !.pc = "issue", !.by = s] /\ Become(r, rec)
    BY <1>4, <2>1
  <2>6. rec \in Contexts /\ rec.pc = "issue" /\ rec.by = s
    BY <1>2, <2>3, <2>5 DEF Contexts, Steps
  <2>7. ContextSound(rec)
    BY <2>4, <2>6 DEF ContextSound
  <2> QED
    BY <1>1, <1>2, <2>5, <2>6, <2>7, RequestReads
<1> QED
  BY <1>s, <1>3, <1>4 DEF Login

LEMMA IssueKeeps ==
  ASSUME AccountsInv, NEW r \in Requests, Issue(r)
  PROVE  AccountsInv'
<1>1. req[r] \in Contexts /\ ContextSound(req[r]) /\ sessions \subseteq Sessions /\ time \in Nat
  BY DEF AccountsInv, AccountsType, TablesType
<1>2. PICK rec : rec = [req[r] EXCEPT !.pc = "done", !.answer = "ok"] /\ Become(r, rec)
  BY DEF Issue, Reply
<1>3. rec \in Contexts /\ ContextSound(rec)
  BY <1>1, <1>2, ZenonT(60) DEF Contexts, Steps, ContextSound
<1>4. PICK s : s = [req[r].by EXCEPT !.issued = time] /\ sessions' = sessions \cup {s}
  BY DEF Issue
<1>5. req[r].by \in Sessions /\ SessionSound(req[r].by)
  BY <1>1 DEF Contexts, Issue, ContextSound
<1>6. s \in Sessions /\ SessionSound(s)
  BY <1>1, <1>4, <1>5 DEF Sessions, SessionSound
<1> QED
  BY <1>1, <1>2, <1>3, <1>4, <1>6, RequestReads DEF Issue

(* A row is added to users, of an address that no account has. *)
LEMMA NewRow ==
  ASSUME AccountsInv, UNCHANGED <<org, members, inbox, time>>,
         NEW e \in Emails, NEW u \in Users, u \notin Accounts, Unique(e),
         user' = [user EXCEPT ![u] = Row(e)]
  PROVE  AccountsGrow /\ TablesType' /\ RowsInv' /\ u \in Accounts'
<1>1. TablesType /\ RowsInv
  BY DEF AccountsInv, AccountsType
<1>2. PICK row \in UserRows : row = Row(e)
  BY <1>1 DEF Row, UserRows, TablesType
<1>3. /\ row.email = e /\ row.email # NoOne /\ ~row.verified /\ row.org = NoOne /\ row.role # "owner"
      /\ row.pw = time /\ row.validFrom = 0 /\ row.resets = {}
  BY <1>2, AccountsAssumption DEF Row
<1>4. user'[u] = row /\ row # NoRow /\ \A v \in Users \ {u} : user'[v] = user[v]
  BY <1>1, <1>2, <1>3 DEF TablesType, NoRow
<1>5. Accounts' = Accounts \cup {u}
  BY <1>4 DEF Accounts
<1>6. AccountsGrow
  BY <1>1, <1>4, <1>5 DEF AccountsGrow, TablesType, Accounts
<1>7. TablesType'
  BY <1>1, <1>2 DEF TablesType
<1>8. \A v, w \in Accounts' : user'[v].email = user'[w].email => v = w
  <2>1. \A v \in Accounts : user'[v].email # e /\ user'[v].email = user[v].email
    BY <1>4 DEF Unique, WithEmail, Accounts
  <2> QED
    BY <1>1, <1>3, <1>4, <1>5, <2>1 DEF RowsInv
<1>9. (\A v \in Accounts' : user'[v].email \in Emails)
      /\ \A v \in Users :
           /\ user'[v].verified => v \in inbox
           /\ user'[v].org # NoOne => <<user'[v].org, v>> \in members
           /\ user'[v].role = "owner" => \E o \in Orgs : <<o, v>> \in members
  BY <1>1, <1>3, <1>4, <1>5 DEF RowsInv, Accounts
<1>10. Cutoffs'
  <2>1. time \in Nat /\ time' = time
    BY <1>1 DEF TablesType
  <2>2. \A v \in Users \ {u} : user'[v] = user[v] /\ CutoffInv(user[v])
    BY <1>1, <1>4 DEF RowsInv, Cutoffs
  <2>3. \A v \in Users \ {u} : CutoffInv(user[v])'
    BY <2>1, <2>2 DEF CutoffInv
  <2>4. CutoffInv(user[u])'
    BY <1>3, <1>4, <2>1 DEF CutoffInv
  <2> QED
    BY <2>3, <2>4 DEF Cutoffs
<1> QED
  BY <1>5, <1>6, <1>7, <1>8, <1>9, <1>10 DEF RowsInv

LEMMA InsertUserKeeps ==
  ASSUME AccountsInv, NEW r \in Requests, InsertUser(r)
  PROVE  AccountsInv'
<1>1. req[r] \in Contexts /\ ContextSound(req[r]) /\ sessions \subseteq Sessions
  BY DEF AccountsInv, AccountsType
<1>2. req[r].pc = "insertUser" /\ UNCHANGED <<org, members, inbox, sessions, time, audit>>
  BY DEF InsertUser
<1>3. ASSUME NEW a \in {"conflict", "error"}, Reply(r, a), UNCHANGED user PROVE AccountsInv'
  <2>1. PICK rec : rec = [req[r] EXCEPT !.pc = "done", !.answer = a] /\ Become(r, rec)
    BY <1>3 DEF Reply
  <2>2. rec \in Contexts /\ ContextSound(rec)
    BY <1>1, <2>1, ZenonT(60) DEF Contexts, Steps, ContextSound
  <2> QED
    BY <1>1, <1>2, <1>3, <2>1, <2>2, RequestReads
<1>4. ASSUME NEW u \in Users \ Accounts, Unique(req[r].email),
             user' = [user EXCEPT ![u] = Row(req[r].email)],
             Become(r, [req[r] EXCEPT !.pc = "mail", !.user = u]) \/ Reply(r, "error")
      PROVE  AccountsInv'
  <2>1. req[r].email \in Emails
    BY <1>1, <1>2 DEF ContextSound
  <2>2. AccountsGrow /\ TablesType' /\ RowsInv'
    BY <1>2, <1>4, <2>1, NewRow
  <2>3. PICK rec : /\ Become(r, rec)
                   /\ \/ rec = [req[r] EXCEPT !.pc = "mail", !.user = u]
                      \/ rec = [req[r] EXCEPT !.pc = "done", !.answer = "error"]
    BY <1>4 DEF Reply
  <2>4. CASE rec = [req[r] EXCEPT !.pc = "mail", !.user = u]
    <3>1. rec \in Contexts /\ ContextSound(rec)'
      BY <1>1, <2>4, ZenonT(60) DEF Contexts, Steps, ContextSound
    <3> QED
      BY <1>1, <1>2, <2>2, <2>3, <3>1, OneRequestGoesOn
  <2>5. CASE rec = [req[r] EXCEPT !.pc = "done", !.answer = "error"]
    <3>1. rec \in Contexts /\ ContextSound(rec)'
      BY <1>1, <2>5, ZenonT(60) DEF Contexts, Steps, ContextSound
    <3> QED
      BY <1>1, <1>2, <2>2, <2>3, <3>1, OneRequestGoesOn
  <2> QED
    BY <2>3, <2>4, <2>5
<1> QED
  BY <1>3, <1>4 DEF InsertUser

(* Steps without a request change one row and no request. *)
LEMMA RowChanges ==
  ASSUME AccountsInv, UNCHANGED <<org, members, sessions, audit, req>>,
         AccountsGrow, TablesType', RowsInv'
  PROVE  AccountsInv'
<1>1. AccountsType'
  BY DEF AccountsInv, AccountsType
<1>2. \A s \in sessions' : SessionSound(s)'
  BY SessionStaysSound DEF AccountsInv, AccountsType
<1>3. ASSUME NEW q \in Requests PROVE ContextSound(req[q])'
  <2>1. PICK c \in Contexts : c = req[q] /\ c = req'[q]
    BY DEF AccountsInv, AccountsType
  <2>2. ContextSound(c)
    BY <2>1 DEF AccountsInv
  <2>3. ContextSound(c)'
    BY <2>2, ContextStaysSound
  <2> QED
    BY <2>1, <2>3
<1>4. AuditInv'
  BY DEF AccountsInv, AuditInv
<1> QED
  BY <1>1, <1>2, <1>3, <1>4 DEF AccountsInv

LEMMA VerifyEmailKeeps ==
  ASSUME AccountsInv, NEW u \in Accounts, NEW e \in Emails, NEW t \in inbox \cup {NoOne},
         VerifyEmail(u, e, t)
  PROVE  AccountsInv'
<1>1. TablesType /\ RowsInv /\ u \in Users
  BY DEF AccountsInv, AccountsType, Accounts
<1>2. u \in inbox
  BY <1>1, AccountsAssumption DEF VerifyEmail, TokenMatches
<1>3. PICK row : row = [user[u] EXCEPT !.verified = TRUE, !.token = FALSE]
  OBVIOUS
<1>4. /\ user' = [user EXCEPT ![u] = row]
      /\ row \in UserRows /\ row.email = user[u].email /\ row.org = user[u].org
      /\ row.role = user[u].role /\ row.pw = user[u].pw /\ row.validFrom = user[u].validFrom
      /\ row.verified /\ row.resets = user[u].resets
  BY <1>1, <1>3 DEF VerifyEmail, TablesType, UserRows
<1>5. Accounts' = Accounts
  BY <1>1, <1>4 DEF Accounts, NoRow, RowsInv, TablesType
<1>6. UNCHANGED <<org, members, inbox, sessions, time, audit, req>>
  BY DEF VerifyEmail
<1>7. AccountsGrow
  BY <1>1, <1>4, <1>5, <1>6 DEF AccountsGrow, TablesType, Accounts
<1>8. TablesType'
  BY <1>1, <1>4, <1>6 DEF TablesType
<1>9. RowsInv'
  <2>1. Cutoffs'
    BY <1>1, <1>4, <1>6 DEF RowsInv, Cutoffs, CutoffInv, TablesType
  <2> QED
    BY <1>1, <1>2, <1>4, <1>5, <1>6, <2>1, ZenonT(60) DEF RowsInv, TablesType, Accounts
<1> QED
  BY <1>6, <1>7, <1>8, <1>9, RowChanges

LEMMA ResetKeeps ==
  ASSUME AccountsInv, NEW r \in Requests, NEW u \in Accounts, Reset(r, u)
  PROVE  AccountsInv'
<1>1. TablesType /\ RowsInv /\ u \in Users
  BY DEF AccountsInv, AccountsType, Accounts
<1>2. /\ req[r].pc # "done" /\ time' = time + 1
      /\ UNCHANGED <<user, org, members, inbox, sessions, audit>>
  BY DEF Reset
<1>3. PICK rec : /\ Become(r, rec)
                 /\ rec = [Fresh EXCEPT !.pc = "consume", !.op = "reset", !.user = u,
                                        !.pw = user[u].pw, !.now = time + 1]
  BY DEF Reset
<1>4. /\ user[u].pw \in Nat /\ time \in Nat /\ user[u].pw <= time
      /\ user[u].validFrom \in Nat /\ user[u].validFrom <= time
  <2>1. user[u] \in UserRows
    BY <1>1 DEF TablesType
  <2>2. user[u].pw \in Nat /\ user[u].validFrom \in Nat
    BY <2>1 DEF UserRows
  <2> QED
    BY <1>1, <2>2 DEF TablesType, RowsInv, Cutoffs, CutoffInv
<1>5. rec \in Contexts /\ rec.pc = "consume" /\ rec.user = u /\ rec.pw = user[u].pw /\ rec.now = time + 1
  <2>1. time + 1 \in Nat
    BY <1>4
  <2> QED
    BY <1>1, <1>3, <1>4, <2>1, FreshTypes DEF Contexts, Steps
<1>6. Accounts' = Accounts
  BY <1>2 DEF Accounts
<1>7. AccountsGrow
  BY <1>2, <1>4, <1>6 DEF AccountsGrow
<1>8. TablesType'
  BY <1>1, <1>2, <1>4 DEF TablesType
<1>9. RowsInv'
  <2>1. Cutoffs'
    <3>1. ASSUME NEW v \in Users
          PROVE  /\ user[v].pw \in Nat /\ user[v].pw <= time
                 /\ user[v].validFrom \in Nat /\ user[v].validFrom <= time
                 /\ \A x \in user[v].resets : x.now <= user[v].validFrom /\ x.changed <= user[v].pw
      <4>1. user[v] \in UserRows
        BY <1>1 DEF TablesType
      <4>2. user[v].pw \in Nat /\ user[v].validFrom \in Nat
        BY <4>1 DEF UserRows
      <4> QED
        BY <1>1, <4>2 DEF RowsInv, Cutoffs, CutoffInv
    <3> QED
      BY <1>2, <1>4, <3>1 DEF Cutoffs, CutoffInv
  <2> QED
    BY <1>1, <1>2, <1>6, <2>1 DEF RowsInv
<1>10. ContextSound(rec)'
  BY <1>2, <1>4, <1>5, <1>6 DEF ContextSound, Mailed
<1> QED
  BY <1>2, <1>3, <1>5, <1>7, <1>8, <1>9, <1>10, OneRequestGoesOn DEF AccountsInv, AccountsType

LEMMA ConsumeTokenKeeps ==
  ASSUME AccountsInv, NEW r \in Requests, ConsumeToken(r)
  PROVE  AccountsInv'
<1> DEFINE u == req[r].user
<1>1. TablesType /\ RowsInv /\ req[r] \in Contexts /\ ContextSound(req[r])
  BY DEF AccountsInv, AccountsType
<1>2. req[r].pc = "consume" /\ UNCHANGED <<org, members, inbox, sessions, audit>>
  BY DEF ConsumeToken
<1>3. PICK answer \in {"ok", "error", "bad"} : Reply(r, answer)
  BY DEF ConsumeToken
<1>4. PICK rec : Become(r, rec) /\ rec = [req[r] EXCEPT !.pc = "done", !.answer = answer]
  BY <1>3 DEF Reply
<1>5. rec \in Contexts /\ rec.pc = "done"
  BY <1>1, <1>4 DEF Contexts, Steps
<1>6. ContextSound(rec) /\ ContextSound(rec)'
  BY <1>5 DEF ContextSound
<1>7. CASE UNCHANGED <<user, time>>
  BY <1>2, <1>5, <1>6, <1>7, <1>4, RequestReads DEF AccountsInv, AccountsType
<1>8. CASE /\ user[u].pw = req[r].pw /\ time' = time + 1
           /\ user' = [user EXCEPT ![u] = AfterReset(r, user[u])]
  <2>1. /\ u \in Accounts /\ u \in Users /\ user[u].validFrom <= req[r].now /\ req[r].now <= time
    BY <1>1, <1>2, <1>8 DEF ContextSound, Mailed, Accounts
  <2>2. PICK now \in Nat, t \in Nat, old \in UserRows : now = req[r].now /\ t = time /\ old = user[u]
    BY <1>1, <2>1 DEF TablesType, Contexts
  <2>3. /\ old.pw \in Nat /\ old.pw <= t /\ old.validFrom \in Nat /\ old.validFrom <= now /\ now <= t
        /\ old.resets \subseteq [now : Nat, changed : Nat]
        /\ \A x \in old.resets : x.now <= old.validFrom /\ x.changed <= old.pw
    BY <1>1, <2>1, <2>2 DEF RowsInv, Cutoffs, CutoffInv, UserRows
  <2>4. PICK x : x = [now |-> now, changed |-> t + 1]
    OBVIOUS
  <2>5. PICK row : row = [old EXCEPT !.pw = t + 1, !.validFrom = now, !.resets = old.resets \cup {x}]
    OBVIOUS
  <2>6. user' = [user EXCEPT ![u] = row]
    BY <1>8, <2>2, <2>4, <2>5 DEF AfterReset
  <2>7. x \in [now : Nat, changed : Nat] /\ x.now = now /\ x.changed = t + 1 /\ t + 1 \in Nat
    BY <2>4
  <2>8. /\ row \in UserRows /\ row.email = old.email /\ row.org = old.org
        /\ row.role = old.role /\ row.verified = old.verified
        /\ row.pw = t + 1 /\ row.validFrom = now /\ row.resets = old.resets \cup {x}
    BY <2>3, <2>5, <2>7 DEF UserRows
  <2>9. user' \in [Users -> UserRows] /\ user'[u] = row /\ \A v \in Users \ {u} : user'[v] = user[v]
    BY <1>1, <2>1, <2>6, <2>8 DEF TablesType
  <2>10. Accounts' = Accounts
    <3>1. row.email # NoOne
      BY <1>1, <2>1, <2>2, <2>8, AccountsAssumption DEF RowsInv
    <3> QED
      BY <2>1, <2>9, <3>1 DEF Accounts, NoRow
  <2>11. AccountsGrow
    BY <1>2, <1>8, <2>1, <2>2, <2>7, <2>8, <2>9, <2>10 DEF AccountsGrow, Accounts
  <2>12. TablesType'
    BY <1>1, <1>2, <1>8, <2>2, <2>9 DEF TablesType
  <2>13. ASSUME NEW v \in Users PROVE CutoffInv(user[v])'
    <3>1. CASE v = u
      <4>1. \A y \in row.resets : y.now <= now /\ y.changed <= t + 1
        <5>1. ASSUME NEW y \in old.resets PROVE y.now <= now /\ y.changed <= t + 1
          <6>1. y.now \in Nat /\ y.changed \in Nat /\ y.now <= old.validFrom /\ y.changed <= old.pw
            BY <2>3
          <6> QED
            BY <2>3, <6>1
        <5> QED
          BY <2>7, <2>8, <5>1
      <4> QED
        BY <1>8, <2>2, <2>3, <2>8, <2>9, <3>1, <4>1 DEF CutoffInv
    <3>2. CASE v # u
      <4>1. user[v] \in UserRows /\ CutoffInv(user[v])
        BY <1>1 DEF TablesType, RowsInv, Cutoffs
      <4>2. user[v].pw \in Nat /\ user[v].validFrom \in Nat
        BY <4>1 DEF UserRows
      <4> QED
        BY <1>8, <2>2, <2>9, <3>2, <4>1, <4>2 DEF CutoffInv
    <3> QED
      BY <3>1, <3>2
  <2>14. RowsInv'
    <3>1. Cutoffs'
      BY <2>13 DEF Cutoffs
    <3>2. \A v \in Users :
            /\ user'[v].email = user[v].email /\ user'[v].verified = user[v].verified
            /\ user'[v].org = user[v].org /\ user'[v].role = user[v].role
      BY <2>2, <2>8, <2>9
    <3> QED
      BY <1>1, <1>2, <2>10, <3>1, <3>2 DEF RowsInv, Accounts
  <2> QED
    BY <1>2, <1>4, <1>5, <1>6, <2>11, <2>12, <2>14, OneRequestGoesOn DEF AccountsInv, AccountsType
<1> QED
  BY <1>7, <1>8 DEF ConsumeToken

-----------------------------------------------------------------------------
(* Creating an organization. *)

LEMMA CreateOrgKeeps ==
  ASSUME AccountsInv, NEW r \in Requests, NEW s \in sessions \cup {NoSession},
         NEW p \in Plans \cup {Unknown}, CreateOrg(r, s, p)
  PROVE  AccountsInv'
<1>1. sessions \subseteq Sessions /\ req[r].pc # "done"
      /\ UNCHANGED <<user, org, members, inbox, sessions, time, audit>>
  BY DEF AccountsInv, AccountsType, CreateOrg
<1>2. PICK start : start = [Fresh EXCEPT !.op = "create", !.by = s, !.plan = p]
  OBVIOUS
<1>3. start \in Contexts /\ start.plan = p
  BY <1>1, <1>2, FreshTypes DEF Contexts
<1>4. CASE p \in Plans /\ Become(r, [start EXCEPT !.pc = "insertOrg"])
  <2>1. PICK rec : rec = [start EXCEPT !.pc = "insertOrg"] /\ Become(r, rec)
    BY <1>4
  <2>2. rec \in Contexts /\ ContextSound(rec)
    BY <1>3, <1>4, <2>1 DEF Contexts, Steps, ContextSound
  <2> QED
    BY <1>1, <2>1, <2>2, RequestReads
<1>5. CASE Become(r, [start EXCEPT !.pc = "done", !.answer = "error"])
  <2>1. PICK rec : rec = [start EXCEPT !.pc = "done", !.answer = "error"] /\ Become(r, rec)
    BY <1>5
  <2>2. rec \in Contexts /\ ContextSound(rec)
    BY <1>3, <2>1, ZenonT(60) DEF Contexts, Steps, ContextSound
  <2> QED
    BY <1>1, <2>1, <2>2, RequestReads
<1> QED
  BY <1>2, <1>4, <1>5 DEF CreateOrg

(* Only the plans change: nobody's row does. *)
LEMMA OrgChanges ==
  ASSUME AccountsInv, UNCHANGED <<user, members, inbox, time>>,
         org' \in [Orgs -> Plans \cup {NoOne}]
  PROVE  AccountsGrow /\ TablesType' /\ RowsInv'
<1>1. TablesType /\ RowsInv /\ Accounts' = Accounts
  BY DEF AccountsInv, AccountsType, Accounts
<1>2. AccountsGrow
  BY <1>1 DEF AccountsGrow, TablesType, Accounts
<1>3. TablesType'
  BY <1>1 DEF TablesType
<1>4. RowsInv'
  BY <1>1, SMTT(60) DEF RowsInv, Cutoffs, CutoffInv
<1> QED
  BY <1>2, <1>3, <1>4

LEMMA InsertOrgKeeps ==
  ASSUME AccountsInv, NEW r \in Requests, InsertOrg(r)
  PROVE  AccountsInv'
<1>1. req[r] \in Contexts /\ ContextSound(req[r]) /\ sessions \subseteq Sessions
      /\ org \in [Orgs -> Plans \cup {NoOne}]
  BY SMTT(60) DEF AccountsInv, AccountsType, TablesType
<1>2. req[r].pc = "insertOrg" /\ UNCHANGED <<user, members, inbox, sessions, time, audit>>
  BY DEF InsertOrg
<1>3. CASE Reply(r, "error") /\ UNCHANGED org
  <2>1. PICK rec : rec = [req[r] EXCEPT !.pc = "done", !.answer = "error"] /\ Become(r, rec)
    BY <1>3 DEF Reply
  <2>2. rec \in Contexts /\ ContextSound(rec)
    BY <1>1, <2>1, ZenonT(60) DEF Contexts, Steps, ContextSound
  <2> QED
    BY <1>1, <1>2, <1>3, <2>1, <2>2, RequestReads
<1>4. ASSUME NEW o \in Orgs, org[o] = NoOne, org' = [org EXCEPT ![o] = req[r].plan],
             NEW rec, Become(r, rec),
             \/ \E a \in {"created", "error"} :
                  rec = [req[r] EXCEPT !.org = o, !.pc = "done", !.answer = a]
             \/ rec = [req[r] EXCEPT !.org = o, !.pc = "findOwner"]
      PROVE  AccountsInv'
  <2>1. org' \in [Orgs -> Plans \cup {NoOne}] /\ \A x \in Existing : org'[x] = org[x]
    BY <1>1, <1>2, <1>4 DEF ContextSound, Existing
  <2>2. AccountsGrow /\ TablesType' /\ RowsInv'
    BY <1>2, <2>1, OrgChanges
  <2>3. ASSUME NEW a \in {"created", "error"},
               rec = [req[r] EXCEPT !.org = o, !.pc = "done", !.answer = a]
        PROVE  rec \in Contexts /\ ContextSound(rec)'
    BY <1>1, <2>3, ZenonT(60) DEF Contexts, Steps, ContextSound
  <2>4. CASE rec = [req[r] EXCEPT !.org = o, !.pc = "findOwner"]
    <3>1. rec \in Contexts /\ ContextSound(rec)'
      BY <1>1, <2>4, ZenonT(60) DEF Contexts, Steps, ContextSound
    <3> QED
      BY <1>1, <1>2, <1>4, <2>1, <2>2, <3>1, OneRequestGoesOn
  <2>5. CASE \E a \in {"created", "error"} :
               rec = [req[r] EXCEPT !.org = o, !.pc = "done", !.answer = a]
    BY <1>1, <1>2, <1>4, <2>1, <2>2, <2>3, <2>5, OneRequestGoesOn
  <2> QED
    BY <1>4, <2>4, <2>5
<1> QED
  BY <1>3, <1>4, ZenonT(60) DEF InsertOrg

LEMMA FindOwnerKeeps ==
  ASSUME AccountsInv, NEW r \in Requests, FindOwner(r)
  PROVE  AccountsInv'
<1>1. req[r] \in Contexts /\ ContextSound(req[r]) /\ sessions \subseteq Sessions
      /\ req[r].pc = "findOwner"
      /\ UNCHANGED <<user, org, members, inbox, sessions, time, audit>>
  BY DEF AccountsInv, AccountsType, FindOwner
<1>2. ASSUME NEW u \in WithEmail(req[r].by.email),
             Become(r, [req[r] EXCEPT !.pc = "addMember", !.user = u])
      PROVE  AccountsInv'
  <2>1. u \in Accounts /\ u \in Users
    BY DEF WithEmail, Accounts
  <2>2. PICK rec : rec = [req[r] EXCEPT !.pc = "addMember", !.user = u] /\ Become(r, rec)
    BY <1>2
  <2>3. rec \in Contexts /\ ContextSound(rec)
    BY <1>1, <2>1, <2>2 DEF Contexts, Steps, ContextSound
  <2> QED
    BY <1>1, <2>2, <2>3, RequestReads
<1>3. CASE Shrug(r)
  <2>1. PICK rec : rec = [req[r] EXCEPT !.pc = "done", !.answer = "created"] /\ Become(r, rec)
    BY <1>3 DEF Shrug, Reply
  <2>2. rec \in Contexts /\ ContextSound(rec)
    BY <1>1, <2>1 DEF Contexts, Steps, ContextSound
  <2> QED
    BY <1>1, <2>1, <2>2, RequestReads
<1> QED
  BY <1>2, <1>3 DEF FindOwner

LEMMA AddMemberKeeps ==
  ASSUME AccountsInv, NEW r \in Requests, AddMember(r)
  PROVE  AccountsInv'
<1> DEFINE more == members \cup {<<req[r].org, req[r].user>>}
<1>1. req[r] \in Contexts /\ ContextSound(req[r]) /\ sessions \subseteq Sessions
      /\ TablesType /\ RowsInv /\ req[r].pc = "addMember"
      /\ UNCHANGED <<user, org, inbox, sessions, time, audit>>
  BY DEF AccountsInv, AccountsType, AddMember
<1>2. req[r].org \in Orgs /\ req[r].user \in Accounts /\ req[r].user \in Users
  BY <1>1 DEF ContextSound, Accounts
<1>3. members' \in {members, more} /\ members \subseteq members' /\ members' \subseteq Orgs \X Users
  BY <1>1, <1>2 DEF AddMember, TablesType
<1>4. Accounts' = Accounts /\ AccountsGrow
  BY <1>1, <1>3 DEF AccountsGrow, TablesType, Accounts
<1>5. TablesType'
  BY <1>1, <1>3 DEF TablesType
<1>6. RowsInv'
  BY <1>1, <1>3, <1>4 DEF RowsInv, Cutoffs, CutoffInv
<1>7. PICK rec : /\ Become(r, rec)
                 /\ \/ members' = more /\ rec = [req[r] EXCEPT !.pc = "setDefault"]
                    \/ rec = [req[r] EXCEPT !.pc = "done", !.answer = "created"]
  BY DEF AddMember, Continue, Shrug, Reply
<1>8. rec \in Contexts /\ ContextSound(rec)'
  <2>1. CASE members' = more /\ rec = [req[r] EXCEPT !.pc = "setDefault"]
    <3>1. rec \in Contexts /\ rec.pc = "setDefault" /\ rec.org = req[r].org /\ rec.user = req[r].user
      BY <1>1, <2>1 DEF Contexts, Steps
    <3> QED
      BY <1>2, <1>4, <2>1, <3>1 DEF ContextSound
  <2>2. CASE rec = [req[r] EXCEPT !.pc = "done", !.answer = "created"]
    BY <1>1, <2>2, ZenonT(60) DEF Contexts, Steps, ContextSound
  <2> QED
    BY <1>7, <2>1, <2>2
<1> QED
  BY <1>1, <1>4, <1>5, <1>6, <1>7, <1>8, OneRequestGoesOn

LEMMA SetDefaultKeeps ==
  ASSUME AccountsInv, NEW r \in Requests, SetDefault(r)
  PROVE  AccountsInv'
<1>1. req[r] \in Contexts /\ ContextSound(req[r]) /\ sessions \subseteq Sessions
      /\ TablesType /\ RowsInv /\ req[r].pc = "setDefault"
      /\ UNCHANGED <<org, members, inbox, sessions, time, audit>>
  BY DEF AccountsInv, AccountsType, SetDefault
<1>2. PICK u \in Users, o \in Orgs : /\ u = req[r].user /\ u \in Accounts
                                     /\ o = req[r].org /\ <<o, u>> \in members
  BY <1>1 DEF ContextSound, Accounts
<1>3. PICK rec : /\ Become(r, rec)
                 /\ rec = [req[r] EXCEPT !.pc = "done", !.answer = "created"]
  BY DEF SetDefault, Shrug, Reply
<1>4. rec \in Contexts /\ ContextSound(rec)'
  BY <1>1, <1>3, ZenonT(60) DEF Contexts, Steps, ContextSound
<1>5. PICK row : row = [user[u] EXCEPT !.org = o, !.role = "owner"]
  OBVIOUS
<1>6. row \in UserRows /\ row.email = user[u].email /\ row.verified = user[u].verified
      /\ row.pw = user[u].pw /\ row.validFrom = user[u].validFrom
      /\ row.resets = user[u].resets /\ row.org = o /\ row.role = "owner"
  BY <1>1, <1>5 DEF TablesType, UserRows
<1>7. user' = user \/ user' = [user EXCEPT ![u] = row]
  BY <1>2, <1>5 DEF SetDefault
<1>8. AccountsGrow /\ TablesType' /\ RowsInv'
  <2>1. CASE user' = user
    BY <1>1, <2>1, TablesStay
  <2>2. CASE user' = [user EXCEPT ![u] = row]
    <3>1. Accounts' = Accounts
      BY <1>1, <1>2, <1>6, <2>2, AccountsAssumption DEF Accounts, NoRow, RowsInv, TablesType
    <3>2. AccountsGrow
      BY <1>1, <1>6, <2>2, <3>1 DEF AccountsGrow, TablesType, Accounts
    <3>3. TablesType'
      BY <1>1, <1>6, <2>2 DEF TablesType
    <3>4. \A v \in Users : /\ user'[v].email = user[v].email
                           /\ user'[v].verified = user[v].verified
                           /\ v # u => user'[v] = user[v]
      BY <1>1, <1>6, <2>2 DEF TablesType
    <3>5. user'[u].org = o /\ <<o, u>> \in members /\ o \in Orgs
      BY <1>1, <1>2, <1>6, <2>2 DEF TablesType
    <3>6. Cutoffs'
      BY <1>1, <1>6, <2>2 DEF RowsInv, Cutoffs, CutoffInv, TablesType
    <3>7. RowsInv'
      BY <1>1, <3>1, <3>4, <3>5, <3>6 DEF RowsInv, Accounts
    <3> QED
      BY <3>2, <3>3, <3>7
  <2> QED
    BY <1>7, <2>1, <2>2
<1> QED
  BY <1>1, <1>3, <1>4, <1>8, OneRequestGoesOn

-----------------------------------------------------------------------------
(* Changing a plan. *)

LEMMA UpdatePlanKeeps ==
  ASSUME AccountsInv, NEW r \in Requests, NEW o \in Existing \cup {NoOne},
         NEW p \in Plans \cup {Unknown}, UpdatePlan(r, o, p)
  PROVE  AccountsInv'
<1>1. sessions \subseteq Sessions /\ TablesType /\ req[r].pc # "done"
      /\ UNCHANGED <<user, org, members, inbox, sessions, time, audit>>
  BY DEF AccountsInv, AccountsType, UpdatePlan
<1>2. PICK old \in {PlanOf(o), NoOne} :
        Become(r, [Fresh EXCEPT !.op = "plan", !.org = o, !.plan = p, !.old = old, !.pc = "setPlan"])
  BY DEF UpdatePlan
<1>3. PICK rec : /\ Become(r, rec)
                 /\ rec = [Fresh EXCEPT !.op = "plan", !.org = o, !.plan = p, !.old = old, !.pc = "setPlan"]
  BY <1>2
<1>4. o \in Orgs \cup {NoOne} /\ old \in Plans \cup {NoOne}
      /\ (o # NoOne => o \in Existing /\ old \in {NoOne, org[o]})
  BY <1>1, <1>2, AccountsAssumption DEF Existing, PlanOf, TablesType
<1>5. rec \in Contexts /\ rec.pc = "setPlan" /\ rec.org = o /\ rec.old = old
  BY <1>3, <1>4, FreshTypes, ZenonT(60) DEF Contexts, Steps
<1>6. ContextSound(rec)
  BY <1>4, <1>5 DEF ContextSound, PlanKnown
<1> QED
  BY <1>1, <1>3, <1>5, <1>6, RequestReads

(* The plan of an organization is replaced, and whoever has read it before *)
(* and not yet written it now holds a stale one.                           *)
LEMMA PlanReplaced ==
  ASSUME AccountsInv, NEW r \in Requests, req[r].pc = "setPlan",
         NEW o \in Existing, NEW p \in Plans, org' = [org EXCEPT ![o] = p],
         UNCHANGED <<user, members, inbox, sessions, time, audit>>,
         NEW rec \in Contexts, Change(r, o, rec), ContextSound(rec)'
  PROVE  AccountsInv'
<1>1. /\ sessions \subseteq Sessions /\ TablesType /\ o \in Orgs /\ p # NoOne
      /\ req \in [Requests -> Contexts] /\ \A e \in audit : e.request \in Requests
  BY AccountsAssumption DEF AccountsInv, AccountsType, Existing
<1>2. org' \in [Orgs -> Plans \cup {NoOne}] /\ org'[o] = p
      /\ \A x \in Orgs \ {o} : org'[x] = org[x]
  BY <1>1 DEF TablesType
<1>3. AccountsGrow /\ TablesType' /\ RowsInv'
  BY <1>2, OrgChanges
<1>4. req'[r] = rec /\ DOMAIN req' = Requests
  BY DEF Change
<1>5. ASSUME NEW q \in Requests, q # r
      PROVE  \E c \in Contexts :
               /\ req'[q] = c
               /\ ContextSound(c)'
               /\ c.pc = req[q].pc /\ c.plan = req[q].plan /\ c.replaced = req[q].replaced
               /\ req[q].stale => c.stale
  <2>1. PICK d \in Contexts : d = req[q]
    BY <1>1
  <2>2. PICK b \in BOOLEAN : b <=> d.stale \/ (d.pc = "setPlan" /\ d.org = o)
    OBVIOUS
  <2>3. PICK c : c = req'[q]
    OBVIOUS
  <2>4. c = [d EXCEPT !.stale = @ \/ (d.pc = "setPlan" /\ d.org = o)]
    BY <1>5, <2>1, <2>3 DEF Change
  <2>5. d.stale \in BOOLEAN
    BY DEF Contexts
  <2>6. c = [d EXCEPT !.stale = b]
    BY <2>2, <2>4, <2>5
  <2>7. /\ c \in Contexts /\ c.stale = b
        /\ c.pc = d.pc /\ c.by = d.by /\ c.email = d.email /\ c.user = d.user /\ c.org = d.org
        /\ c.plan = d.plan /\ c.old = d.old /\ c.replaced = d.replaced
        /\ c.pw = d.pw /\ c.now = d.now
    BY <2>6 DEF Contexts
  <2>8. ContextSound(d)
    BY <2>1 DEF AccountsInv
  <2>9. ContextSound(c)
    BY <2>2, <2>7, <2>8 DEF ContextSound, PlanKnown, Mailed
  <2>10. ContextSound(c)'
    <3>1. CASE c.pc = "setPlan" /\ c.org = o
      <4>1. c.stale /\ o \in Existing'
        BY <1>1, <1>2, <2>2, <2>7, <3>1 DEF Existing
      <4> QED
        BY <3>1, <4>1 DEF ContextSound, PlanKnown, Mailed
    <3>2. CASE ~(c.pc = "setPlan" /\ c.org = o)
      <4>1. c.pc = "setPlan" /\ c.org # NoOne => org'[c.org] = org[c.org]
        BY <1>2, <2>9, <3>2 DEF ContextSound, PlanKnown, Existing
      <4> QED
        BY <1>3, <2>7, <2>9, <4>1, ContextStaysSound
    <3> QED
      BY <3>1, <3>2
  <2> QED
    BY <2>1, <2>2, <2>3, <2>7, <2>10
<1>6. AccountsType'
  <2>1. \A q \in Requests : req'[q] \in Contexts
    BY <1>4, <1>5
  <2>2. req' = [q \in Requests |-> req'[q]]
    BY DEF Change
  <2> QED
    BY <1>1, <1>3, <2>1, <2>2 DEF AccountsType
<1>7. \A s \in sessions' : SessionSound(s)'
  BY <1>1, <1>3, SessionStaysSound DEF AccountsInv
<1>8. ASSUME NEW q \in Requests PROVE ContextSound(req[q])'
  <2>1. PICK c : c = req'[q] /\ ContextSound(c)'
    BY <1>4, <1>5
  <2> QED
    BY <2>1
<1>9. AuditInv'
  <2> SUFFICES ASSUME NEW e \in audit
               PROVE  /\ req'[e.request].pc = "done"
                      /\ e.new = req'[e.request].plan
                      /\ e.old \in {NoOne, req'[e.request].replaced} \/ req'[e.request].stale
    BY DEF AuditInv
  <2>1. e.request \in Requests /\ e.request # r
    BY <1>1 DEF AccountsInv, AuditInv
  <2> QED
    BY <1>5, <2>1 DEF AccountsInv, AuditInv
<1> QED
  BY <1>3, <1>6, <1>7, <1>8, <1>9 DEF AccountsInv

LEMMA SetPlanKeeps ==
  ASSUME AccountsInv, NEW r \in Requests, SetPlan(r)
  PROVE  AccountsInv'
<1>1. req[r] \in Contexts /\ ContextSound(req[r]) /\ sessions \subseteq Sessions
      /\ TablesType /\ req[r].pc = "setPlan"
      /\ UNCHANGED <<user, members, inbox, sessions, time, audit>>
  BY DEF AccountsInv, AccountsType, SetPlan
<1>2. ASSUME NEW a \in {"bad", "error"}, Reply(r, a), UNCHANGED org PROVE AccountsInv'
  <2>1. PICK rec : rec = [req[r] EXCEPT !.pc = "done", !.answer = a] /\ Become(r, rec)
    BY <1>2 DEF Reply
  <2>2. rec \in Contexts /\ ContextSound(rec)
    BY <1>1, <2>1 DEF Contexts, Steps, ContextSound
  <2> QED
    BY <1>1, <1>2, <2>1, <2>2, RequestReads
<1>3. ASSUME req[r].plan \in Plans, req[r].org \in Existing,
             org' = [org EXCEPT ![req[r].org] = req[r].plan],
             NEW rec, Change(r, req[r].org, rec),
             \/ rec = [req[r] EXCEPT !.pc = "audit", !.replaced = org[req[r].org]]
             \/ rec = [req[r] EXCEPT !.pc = "done", !.answer = "error"]
      PROVE  AccountsInv'
  <2>1. org[req[r].org] \in Plans \cup {NoOne} /\ req[r].org # NoOne
    BY <1>1, <1>3, AccountsAssumption DEF Existing, TablesType
  <2>2. req[r].old \in {NoOne, org[req[r].org]} \/ req[r].stale
    BY <1>1, <2>1 DEF ContextSound, PlanKnown
  <2>3. CASE rec = [req[r] EXCEPT !.pc = "audit", !.replaced = org[req[r].org]]
    <3>1. rec \in Contexts /\ rec.pc = "audit" /\ rec.replaced = org[req[r].org]
          /\ rec.old = req[r].old /\ rec.stale = req[r].stale
      BY <1>1, <2>1, <2>3 DEF Contexts, Steps
    <3>2. ContextSound(rec)'
      BY <2>2, <3>1 DEF ContextSound
    <3> QED
      BY <1>1, <1>3, <3>1, <3>2, PlanReplaced
  <2>4. CASE rec = [req[r] EXCEPT !.pc = "done", !.answer = "error"]
    <3>1. rec \in Contexts /\ ContextSound(rec)'
      BY <1>1, <2>4 DEF Contexts, Steps, ContextSound
    <3> QED
      BY <1>1, <1>3, <3>1, PlanReplaced
  <2> QED
    BY <1>3, <2>3, <2>4
<1> QED
  BY <1>2, <1>3 DEF SetPlan

LEMMA AuditPlanKeeps ==
  ASSUME AccountsInv, NEW r \in Requests, AuditPlan(r)
  PROVE  AccountsInv'
<1>1. req[r] \in Contexts /\ ContextSound(req[r]) /\ req[r].pc = "audit"
      /\ req \in [Requests -> Contexts]
      /\ UNCHANGED <<user, org, members, inbox, sessions, time>>
  BY DEF AccountsInv, AccountsType, AuditPlan
<1>2. PICK rec : rec = [req[r] EXCEPT !.pc = "done", !.answer = "ok"] /\ Become(r, rec)
  BY DEF AuditPlan, Reply
<1>3. rec \in Contexts /\ rec.pc = "done" /\ rec.plan = req[r].plan /\ rec.stale = req[r].stale
      /\ rec.old = req[r].old /\ rec.replaced = req[r].replaced
  BY <1>1, <1>2 DEF Contexts, Steps
<1>4. req' = [req EXCEPT ![r] = rec]
  BY <1>2 DEF Become
<1>5. AccountsGrow /\ TablesType' /\ RowsInv'
  BY <1>1, TablesStay
<1>6. audit' \subseteq audit \cup {Entry(r)} /\ Entry(r).request = r
      /\ Entry(r).new = req[r].plan /\ Entry(r).old = req[r].old
  BY DEF AuditPlan, Entry
<1>7. AccountsType'
  BY <1>1, <1>3, <1>4, <1>5, <1>6 DEF AccountsInv, AccountsType
<1>8. \A s \in sessions' : SessionSound(s)'
  BY <1>1, <1>5, SessionStaysSound DEF AccountsInv, AccountsType
<1>9. ASSUME NEW q \in Requests PROVE ContextSound(req[q])'
  <2>1. PICK c \in Contexts : c = req'[q] /\ ContextSound(c)
    BY <1>1, <1>3, <1>4 DEF AccountsInv, ContextSound
  <2>2. ContextSound(c)'
    BY <1>1, <1>5, <2>1, ContextStaysSound
  <2> QED
    BY <2>1, <2>2
<1>10. AuditInv'
  <2> SUFFICES ASSUME NEW e \in audit'
               PROVE  /\ req'[e.request].pc = "done"
                      /\ e.new = req'[e.request].plan
                      /\ e.old \in {NoOne, req'[e.request].replaced} \/ req'[e.request].stale
    BY DEF AuditInv
  <2>1. CASE e = Entry(r)
    BY <1>1, <1>3, <1>4, <1>6, <2>1 DEF ContextSound
  <2>2. CASE e \in audit
    <3>1. e.request # r /\ e.request \in Requests
      BY <1>1, <2>2 DEF AccountsInv, AuditInv, AccountsType
    <3> QED
      BY <1>1, <1>4, <2>2, <3>1 DEF AccountsInv, AuditInv
  <2> QED
    BY <1>6, <2>1, <2>2
<1> QED
  BY <1>5, <1>7, <1>8, <1>9, <1>10 DEF AccountsInv

-----------------------------------------------------------------------------
LEMMA AccountsStart == AccountsInit => AccountsInv
<1> SUFFICES ASSUME AccountsInit PROVE AccountsInv
  OBVIOUS
<1>1. PICK first : first = [Row(SeedEmail) EXCEPT !.verified = TRUE, !.token = FALSE]
  OBVIOUS
<1>2. /\ first \in UserRows /\ first.email = SeedEmail /\ first.org = NoOne
      /\ first.role = "member" /\ first.pw = 0 /\ first.validFrom = 0 /\ first.verified
      /\ first.resets = {}
  BY <1>1, AccountsAssumption DEF AccountsInit, Row, UserRows
<1>3. NoRow \in UserRows /\ NoRow.email = NoOne /\ ~NoRow.verified /\ NoRow.org = NoOne
      /\ NoRow.role = "member" /\ NoRow.pw = 0 /\ NoRow.validFrom = 0 /\ NoRow.resets = {}
  BY DEF NoRow, UserRows
<1>4. user = [u \in Users |-> IF u = Seed THEN first ELSE NoRow] /\ Seed \in Users
  BY <1>1, AccountsAssumption DEF AccountsInit
<1>5. Accounts = {Seed}
  BY <1>2, <1>3, <1>4, AccountsAssumption DEF Accounts
<1>6. TablesType
  BY <1>2, <1>3, <1>4 DEF AccountsInit, TablesType
<1>7. PICK s : s = Session(Seed, SeedEmail, FALSE, 0, 0) /\ sessions = {s}
  BY DEF AccountsInit
<1>8. s \in Sessions /\ s.user = Seed /\ s.email = SeedEmail /\ ~s.admin /\ s.pw = 0 /\ s.read = 0
  BY <1>7, AccountsAssumption DEF AccountsInit, Session, Sessions
<1>9. SessionSound(s)
  <2>1. user[s.user] = first /\ s.user \in Accounts /\ time = 0
    BY <1>4, <1>5, <1>8 DEF AccountsInit
  <2>2. s.read <= time /\ s.pw = first.pw
    BY <1>2, <1>8, <2>1
  <2> QED
    BY <1>2, <1>8, <2>1, <2>2 DEF SessionSound
<1>10. AccountsType
  BY <1>6, <1>7, <1>8, FreshTypes DEF AccountsInit, AccountsType
<1>11. RowsInv
  <2>1. ASSUME NEW u \in Users PROVE CutoffInv(user[u])
    <3>1. user[u].pw = 0 /\ user[u].validFrom = 0 /\ user[u].resets = {}
      BY <1>2, <1>3, <1>4
    <3>2. time = 0
      BY DEF AccountsInit
    <3> QED
      BY <3>1, <3>2 DEF CutoffInv
  <2> QED
    BY <1>2, <1>3, <1>4, <1>5, <2>1, AccountsAssumption DEF RowsInv, Cutoffs, AccountsInit
<1>12. \A r \in Requests : ContextSound(req[r])
  BY DEF AccountsInit, Fresh, ContextSound
<1>13. AuditInv
  BY DEF AccountsInit, AuditInv
<1> QED
  BY <1>7, <1>9, <1>10, <1>11, <1>12, <1>13 DEF AccountsInv

LEMMA AccountsStep == AccountsInv /\ [AccountsNext]_accountVars => AccountsInv'
<1> SUFFICES ASSUME AccountsInv, [AccountsNext]_accountVars PROVE AccountsInv'
  OBVIOUS
<1>1. ASSUME NEW r \in Requests, Serve(r) PROVE AccountsInv'
  <2>1. ASSUME NEW e \in Emails, Register(r, e) PROVE AccountsInv'
    BY <2>1, RegisterKeeps
  <2>2. CASE InsertUser(r)
    BY <2>2, InsertUserKeeps
  <2>3. CASE Mail(r)
    BY <2>3, MailKeeps
  <2>4. ASSUME NEW e \in Emails, NEW pw \in 0 .. time, Login(r, e, pw) PROVE AccountsInv'
    BY <2>4, LoginKeeps
  <2>5. CASE Issue(r)
    BY <2>5, IssueKeeps
  <2>6. ASSUME NEW s \in {t \in sessions : Accepted(t)} \cup {NoSession},
               NEW p \in Plans \cup {Unknown}, CreateOrg(r, s, p)
        PROVE  AccountsInv'
    BY <2>6, CreateOrgKeeps
  <2>7. CASE InsertOrg(r)
    BY <2>7, InsertOrgKeeps
  <2>8. CASE FindOwner(r)
    BY <2>8, FindOwnerKeeps
  <2>9. CASE AddMember(r)
    BY <2>9, AddMemberKeeps
  <2>10. CASE SetDefault(r)
    BY <2>10, SetDefaultKeeps
  <2>11. ASSUME NEW o \in Existing \cup {NoOne}, NEW p \in Plans \cup {Unknown},
                UpdatePlan(r, o, p)
         PROVE  AccountsInv'
    BY <2>11, UpdatePlanKeeps
  <2>12. CASE SetPlan(r)
    BY <2>12, SetPlanKeeps
  <2>13. CASE AuditPlan(r)
    BY <2>13, AuditPlanKeeps
  <2>14. ASSUME NEW u \in Accounts, Reset(r, u) PROVE AccountsInv'
    BY <2>14, ResetKeeps
  <2>15. CASE ConsumeToken(r)
    BY <2>15, ConsumeTokenKeeps
  <2> QED
    BY <1>1, <2>1, <2>2, <2>3, <2>4, <2>5, <2>6, <2>7, <2>8, <2>9, <2>10, <2>11, <2>12, <2>13,
       <2>14, <2>15
    DEF Serve
<1>2. ASSUME NEW u \in Accounts, NEW e \in Emails, NEW t \in inbox \cup {NoOne},
             VerifyEmail(u, e, t)
      PROVE  AccountsInv'
  BY <1>2, VerifyEmailKeeps
<1>4. CASE UNCHANGED accountVars
  <2>1. AccountsGrow /\ TablesType' /\ RowsInv'
    BY <1>4, TablesStay DEF accountVars
  <2> QED
    BY <1>4, <2>1, RowChanges DEF accountVars
<1> QED
  BY <1>1, <1>2, <1>4 DEF AccountsNext

LEMMA AccountsSound == AccountsSpec => []AccountsInv
<1> QED
  BY AccountsStart, AccountsStep, PTL DEF AccountsSpec

(* Every session belongs to an account whose verification mail was         *)
(* delivered to the address the session carries (VerifyEmailHandler,       *)
(* LoginHandler).                                                          *)
THEOREM SessionsHaveMailbox == AccountsSpec => []MailboxProven
<1>1. AccountsInv => MailboxProven
  BY DEF AccountsInv, RowsInv, SessionSound, MailboxProven, Accounts
<1> QED
  BY <1>1, AccountsSound, PTL

(* What a session's calls are attributed to, what an organization lists    *)
(* and what an admin token claims are backed by a membership, wherever     *)
(* AssignUserToOrg stopped (SessionOrg, GetOrganizationMembers).           *)
THEOREM AttributionBacked == AccountsSpec => []AttributedToOwn
<1>1. AccountsInv => AttributedToOwn
  <2> SUFFICES ASSUME AccountsInv PROVE AttributedToOwn
    OBVIOUS
  <2>1. TablesType /\ RowsInv /\ \A s \in sessions : SessionSound(s)
    BY DEF AccountsInv, AccountsType
  <2>2. \A u \in Users : user[u].org # NoOne => user[u].org \in OrganizationsOf(u)
    BY <2>1 DEF TablesType, RowsInv, OrganizationsOf
  <2>3. ASSUME NEW s \in sessions PROVE SessionOrg(s) \subseteq OrganizationsOf(s.user)
    <3>1. s.user \in Users /\ WithEmail(s.email) \subseteq {s.user}
      BY <2>1 DEF SessionSound, WithEmail, RowsInv, Accounts
    <3> QED
      BY <2>2, <3>1 DEF SessionOrg
  <2>4. \A s \in sessions : s.admin => OrganizationsOf(s.user) # {}
    BY <2>1 DEF SessionSound, OrganizationsOf
  <2>5. \A o \in Orgs : \A u \in MembersOf(o) : o \in OrganizationsOf(u)
    <3>1. NoOne \notin Orgs
      BY AccountsAssumption
    <3> QED
      BY <2>2, <3>1 DEF MembersOf, Accounts
  <2> QED
    BY <2>3, <2>4, <2>5 DEF AttributedToOwn
<1> QED
  BY <1>1, AccountsSound, PTL

(* An old password survives a reset only in a session whose login          *)
(* overlapped the reset, from its clock reading to its UPDATE              *)
(* (LoginHandler, ConfirmPasswordResetHandler, ConsumePasswordResetToken). *)
THEOREM OldPasswordsOnlyLate == AccountsSpec => []LateLoginOnly
<1>1. ASSUME AccountsInv,
             NEW s \in sessions, NEW x \in user[s.user].resets, Accepted(s), s.pw < x.changed
      PROVE  s.read < x.changed /\ s.issued >= x.now
  <2>1. SessionSound(s) /\ s \in Sessions /\ TablesType /\ RowsInv
    BY <1>1 DEF AccountsInv, AccountsType
  <2>2. s.user \in Users /\ user[s.user] \in UserRows /\ CutoffInv(user[s.user])
    BY <2>1 DEF SessionSound, Accounts, TablesType, RowsInv, Cutoffs
  <2>3. x.now \in Nat /\ user[s.user].validFrom \in Nat /\ s.issued \in Nat
    BY <2>1, <2>2 DEF UserRows, Sessions
  <2> QED
    BY <1>1, <2>1, <2>2, <2>3 DEF SessionSound, CutoffInv, Accepted
<1>2. AccountsInv => LateLoginOnly
  BY <1>1 DEF LateLoginOnly
<1> QED
  BY <1>2, AccountsSound, PTL

(* The old plan in the audit log is the one that was replaced, unless the  *)
(* handler could not read it or another change came in between             *)
(* (UpdatePlanHandler).                                                    *)
THEOREM AuditedPlans == AccountsSpec => []AuditedPlanTrue
<1>1. AccountsInv => AuditedPlanTrue
  BY DEF AccountsInv, AuditInv, AuditedPlanTrue
<1> QED
  BY <1>1, AccountsSound, PTL

-----------------------------------------------------------------------------
(* The keys of the identity provider. *)

Places == {"idle", "lookup", "refresh", "fetching", "answered", "again", "claims"}

JwksType ==
  /\ sinceFetch \in 0 .. MinInterval
  /\ quiet = sinceFetch
  /\ writer \in Calls \cup {NoCall}
  /\ pc \in [Calls -> Places]
  /\ kid \in [Calls -> Kids \cup {NoKid}]
  /\ \A c \in Calls : pc[c] # "idle" => kid[c] \in Kids
  /\ blocked \in [Calls -> Nat]
  /\ fetchAge \in Nat
  /\ lastFailed \in BOOLEAN
  /\ published \subseteq Kids
  /\ age \in [Kids -> 0 .. MaxAge]
  /\ \A k \in Kids \ published : age[k] = 0

(* Whoever fetches holds the lock, and no reader is on its way then. *)
FetchInv ==
  /\ \A c \in Calls : writer = c <=> pc[c] \in {"fetching", "answered"}
  /\ writer # NoCall => /\ passing = {}
                        /\ fetchAge <= FetchTimeout
                        /\ sinceFetch = AtMost(fetchAge, MinInterval)

(* A reader has waited for the fetch under way, or for the last one, whose *)
(* end let it pass ahead of any other.                                     *)
WaitInv ==
  /\ \A c \in Calls : blocked[c] <= FetchTimeout
  /\ \A c \in Calls : pc[c] \notin Readers => blocked[c] = 0
  /\ writer # NoCall => \A c \in Calls : blocked[c] <= fetchAge
  /\ writer = NoCall => \A c \in Calls : blocked[c] # 0 => c \in passing

(* A published key that is not cached was published after the provider     *)
(* answered: since then, or since the last fetch, no more time has passed. *)
KeysInv ==
  /\ writer # NoCall =>
       (pc[writer] = "answered" => \A k \in published \ (keys \cup response) : age[k] <= fetchAge)
  /\ writer = NoCall /\ ~lastFailed =>
       \A k \in published \ keys :
         /\ Throttled => age[k] <= sinceFetch
         /\ (\E c \in Calls : pc[c] = "again") => age[k] <= Lag

JwksInv == JwksType /\ FetchInv /\ WaitInv /\ KeysInv

LEMMA LagBounds == Lag \in Nat /\ MaxAge \in Nat /\ MinInterval <= Lag /\ FetchTimeout <= Lag /\ Lag < MaxAge
BY JwksAssumption DEF Lag, MaxAge, Longer

LEMMA JwksStart == Init => JwksInv
<1> SUFFICES ASSUME Init PROVE JwksInv
  OBVIOUS
<1>1. JwksType
  <2>1. age \in [Kids -> 0 .. MaxAge] /\ sinceFetch \in 0 .. MinInterval
    BY JwksAssumption, LagBounds DEF Init
  <2>2. pc \in [Calls -> Places] /\ (\A c \in Calls : pc[c] = "idle")
        /\ kid \in [Calls -> Kids \cup {NoKid}] /\ blocked \in [Calls -> Nat]
    BY DEF Init, Places
  <2> QED
    BY <2>1, <2>2 DEF Init, JwksType
<1>2. FetchInv /\ KeysInv
  BY JwksAssumption DEF Init, FetchInv, KeysInv
<1>3. WaitInv
  BY JwksAssumption DEF Init, WaitInv
<1> QED
  BY <1>1, <1>2, <1>3 DEF JwksInv

LEMMA JwksTypeStep ==
  ASSUME JwksInv, Next
  PROVE  JwksType'
<1> USE JwksAssumption, LagBounds DEF JwksInv, JwksType, Places
<1>1. ASSUME NEW c \in Calls, Lookup(c) \/ LookupAgain(c) \/ CheckClaims(c) PROVE JwksType'
  BY <1>1 DEF Lookup, LookupAgain, CheckClaims, Read, Verify, Leave, Goto, fetch, history, provider
<1>2. ASSUME NEW c \in Calls, SkipRefresh(c) \/ StartFetch(c) PROVE JwksType'
  BY <1>2 DEF SkipRefresh, StartFetch, Goto, fetch, history, provider
<1>3. ASSUME NEW c \in Calls, Install(c) \/ FetchFails(c) \/ Disconnect(c) PROVE JwksType'
  <2>1. CASE Install(c)
    BY <2>1 DEF Install, Unlock, Goto, provider
  <2>2. CASE FetchFails(c)
    BY <2>2 DEF FetchFails, Unlock, Leave, Goto, provider
  <2>3. CASE Disconnect(c)
    BY <2>3 DEF Disconnect, Unlock, Leave, Goto, provider
  <2> QED
    BY <1>3, <2>1, <2>2, <2>3
<1>4. ASSUME NEW c \in Calls, NEW k \in Kids, ValidateToken(c, k) PROVE JwksType'
  BY <1>4 DEF ValidateToken, Goto, fetch, history, provider
<1>5. ASSUME NEW k \in Kids, Publish(k) \/ Withdraw(k) PROVE JwksType'
  BY <1>5 DEF Publish, Withdraw, validation, fetch, history
<1>6. CASE Respond
  BY <1>6 DEF Respond, Goto, history, provider
<1>7. CASE FallIll \/ Recover
  BY <1>7 DEF FallIll, Recover, validation, fetch, history
<1>8. CASE Tick
  BY <1>8 DEF Tick, AtMost
<1> QED
  BY <1>1, <1>2, <1>3, <1>4, <1>5, <1>6, <1>7, <1>8 DEF Next, Proceed

LEMMA FetchStep ==
  ASSUME JwksInv, Next
  PROVE  FetchInv'
<1> USE JwksAssumption DEF JwksInv, JwksType, FetchInv, Places
<1>1. ASSUME NEW c \in Calls, Lookup(c) PROVE FetchInv'
  BY <1>1 DEF Lookup, Read, Verify, Leave, Goto, fetch, history, provider
<1>2. ASSUME NEW c \in Calls, LookupAgain(c) \/ CheckClaims(c) PROVE FetchInv'
  BY <1>2 DEF LookupAgain, CheckClaims, Read, Verify, Leave, Goto, fetch, history, provider
<1>3. ASSUME NEW c \in Calls, SkipRefresh(c) PROVE FetchInv'
  BY <1>3 DEF SkipRefresh, Lockable, Goto, fetch, history, provider
<1>4. ASSUME NEW c \in Calls, StartFetch(c) PROVE FetchInv'
  BY <1>4 DEF StartFetch, Lockable, Goto, AtMost, provider
<1>5. ASSUME NEW c \in Calls, Install(c) \/ FetchFails(c) \/ Disconnect(c) PROVE FetchInv'
  <2>1. pc[c] \in {"fetching", "answered"} /\ writer' = NoCall
    BY <1>5 DEF Install, FetchFails, Disconnect, Unlock
  <2>2. \E place \in {"again", "idle"} : pc' = [pc EXCEPT ![c] = place]
    BY <1>5 DEF Install, FetchFails, Disconnect, Leave, Goto
  <2> QED
    BY <2>1, <2>2
<1>6. ASSUME NEW c \in Calls, NEW k \in Kids, ValidateToken(c, k) PROVE FetchInv'
  BY <1>6 DEF ValidateToken, Goto, fetch, history, provider
<1>7. ASSUME NEW k \in Kids, Publish(k) \/ Withdraw(k) PROVE FetchInv'
  BY <1>7 DEF Publish, Withdraw, validation, fetch, history
<1>8. CASE Respond
  BY <1>8 DEF Respond, Goto, history, provider
<1>9. CASE FallIll \/ Recover
  BY <1>9 DEF FallIll, Recover, validation, fetch, history
<1>10. CASE Tick
  BY <1>10 DEF Tick, AtMost
<1> QED
  BY <1>1, <1>2, <1>3, <1>4, <1>5, <1>6, <1>7, <1>8, <1>9, <1>10 DEF Next, Proceed

LEMMA WaitStep ==
  ASSUME JwksInv, Next
  PROVE  WaitInv'
<1> USE JwksAssumption DEF JwksInv, JwksType, FetchInv, WaitInv, Places, Readers
<1>1. ASSUME NEW c \in Calls, Lookup(c) PROVE WaitInv'
  BY <1>1 DEF Lookup, Read, Verify, Leave, Goto, fetch, history, provider
<1>2. ASSUME NEW c \in Calls, LookupAgain(c) \/ CheckClaims(c) PROVE WaitInv'
  BY <1>2 DEF LookupAgain, CheckClaims, Read, Verify, Leave, Goto, fetch, history, provider
<1>3. ASSUME NEW c \in Calls, SkipRefresh(c) PROVE WaitInv'
  BY <1>3 DEF SkipRefresh, Lockable, Goto, fetch, history, provider
<1>4. ASSUME NEW c \in Calls, StartFetch(c) PROVE WaitInv'
  BY <1>4 DEF StartFetch, Lockable, Goto, AtMost, provider
<1>5. ASSUME NEW c \in Calls, Install(c) \/ FetchFails(c) \/ Disconnect(c) PROVE WaitInv'
  <2>1. pc[c] \in {"fetching", "answered"} /\ writer' = NoCall /\ blocked' = blocked
        /\ passing' = {d \in Calls : pc[d] \in Readers}
    BY <1>5 DEF Install, FetchFails, Disconnect, Unlock
  <2>2. \E place \in {"again", "idle"} : pc' = [pc EXCEPT ![c] = place]
    BY <1>5 DEF Install, FetchFails, Disconnect, Leave, Goto
  <2> QED
    BY <2>1, <2>2
<1>6. ASSUME NEW c \in Calls, NEW k \in Kids, ValidateToken(c, k) PROVE WaitInv'
  BY <1>6 DEF ValidateToken, Goto, fetch, history, provider
<1>7. ASSUME NEW k \in Kids, Publish(k) \/ Withdraw(k) PROVE WaitInv'
  BY <1>7 DEF Publish, Withdraw, validation, fetch, history
<1>8. CASE Respond
  BY <1>8 DEF Respond, Goto, history, provider
<1>9. CASE FallIll \/ Recover
  BY <1>9 DEF FallIll, Recover, validation, fetch, history
<1>10. CASE Tick
  BY <1>10 DEF Tick
<1> QED
  BY <1>1, <1>2, <1>3, <1>4, <1>5, <1>6, <1>7, <1>8, <1>9, <1>10 DEF Next, Proceed

LEMMA KeysStep ==
  ASSUME JwksInv, Next
  PROVE  KeysInv'
<1> USE JwksAssumption, LagBounds DEF JwksInv, JwksType, FetchInv, KeysInv, Places, Throttled
<1>1. ASSUME NEW c \in Calls, Lookup(c) PROVE KeysInv'
  BY <1>1 DEF Lookup, Read, Verify, Leave, Goto, fetch, history, provider
<1>2. ASSUME NEW c \in Calls, LookupAgain(c) \/ CheckClaims(c) PROVE KeysInv'
  BY <1>2 DEF LookupAgain, CheckClaims, Read, Verify, Leave, Goto, fetch, history, provider
<1>3. ASSUME NEW c \in Calls, SkipRefresh(c) PROVE KeysInv'
  BY <1>3 DEF SkipRefresh, Lockable, Goto, fetch, history, provider
<1>4. ASSUME NEW c \in Calls, StartFetch(c) PROVE KeysInv'
  BY <1>4 DEF StartFetch, Goto, provider
<1>5. ASSUME NEW c \in Calls, FetchFails(c) \/ Disconnect(c) PROVE KeysInv'
  <2>1. writer' = NoCall /\ lastFailed'
    BY <1>5 DEF FetchFails, Disconnect, Unlock
  <2> QED
    BY <2>1
<1>6. ASSUME NEW c \in Calls, Install(c) PROVE KeysInv'
  <2>1. writer = c /\ pc[c] = "answered" /\ writer' = NoCall /\ keys' = keys \cup response
        /\ UNCHANGED <<sinceFetch, published, age>>
    BY <1>6 DEF Install, Unlock, provider
  <2>2. \A k \in published' \ keys' : age'[k] <= fetchAge /\ k \in Kids
    BY <2>1
  <2> QED
    BY <2>1, <2>2 DEF AtMost
<1>7. ASSUME NEW c \in Calls, NEW k \in Kids, ValidateToken(c, k) PROVE KeysInv'
  BY <1>7 DEF ValidateToken, Goto, fetch, history, provider
<1>8. ASSUME NEW k \in Kids, Publish(k) \/ Withdraw(k) PROVE KeysInv'
  BY <1>8 DEF Publish, Withdraw, validation, fetch, history
<1>9. CASE Respond
  BY <1>9 DEF Respond, Goto, history, provider
<1>10. CASE FallIll \/ Recover
  BY <1>10 DEF FallIll, Recover, validation, fetch, history
<1>11. CASE Tick
  BY <1>11 DEF Tick, AtMost
<1> QED
  BY <1>1, <1>2, <1>3, <1>4, <1>5, <1>6, <1>7, <1>8, <1>9, <1>10, <1>11 DEF Next, Proceed

LEMMA JwksUnchanged == JwksInv /\ UNCHANGED vars => JwksInv'
BY DEF vars, validation, fetch, history, provider, JwksInv, JwksType, FetchInv, WaitInv, KeysInv, Throttled

LEMMA JwksSound == Spec => []JwksInv
<1>1. JwksInv /\ [Next]_vars => JwksInv'
  BY JwksTypeStep, FetchStep, WaitStep, KeysStep, JwksUnchanged DEF JwksInv
<1> QED
  BY <1>1, JwksStart, PTL DEF Spec

(* However fetches overlap with lookups, a validation never waits longer   *)
(* for the read lock than one fetch may take (getKey, Validate).           *)
THEOREM NoReaderWaitsForTwo == Spec => []WaitForOneFetch
<1>1. JwksInv => WaitForOneFetch
  BY DEF JwksInv, WaitInv, WaitForOneFetch
<1> QED
  BY <1>1, JwksSound, PTL

(* A key that an up-to-date fetch would have brought is never the reason   *)
(* for a refusal (getKey).                                                 *)
THEOREM PublishedKeysServed == Spec => NewKeysAreServed
<1>1. JwksInv /\ [Next]_vars =>
        \A c \in Calls :
          pc[c] \in {"lookup", "again"} /\ pc'[c] = "idle" /\ kid[c] \notin keys
            => lastFailed \/ age[kid[c]] <= Lag
  <2> SUFFICES ASSUME JwksInv, [Next]_vars, NEW c \in Calls, pc[c] \in {"lookup", "again"},
                      pc'[c] = "idle", kid[c] \notin keys, ~lastFailed
               PROVE  age[kid[c]] <= Lag
    OBVIOUS
  <2>1. kid[c] \in Kids /\ pc \in [Calls -> Places]
    BY DEF JwksInv, JwksType
  <2>2. (pc[c] = "lookup" /\ Lookup(c)) \/ (pc[c] = "again" /\ LookupAgain(c))
    <3>1. ASSUME NEW d \in Calls, Proceed(d) \/ Disconnect(d) \/ \E k \in Kids : ValidateToken(d, k)
          PROVE  d = c
      <4>1. ASSUME d # c PROVE pc'[c] = pc[c]
        BY <2>1, <3>1, <4>1 DEF Proceed, Lookup, SkipRefresh, StartFetch, Install, FetchFails,
           LookupAgain, CheckClaims, Disconnect, ValidateToken, Verify, Leave, Goto
      <4> QED
        BY <4>1
    <3>2. ~Respond
      <4>1. CASE Respond
        <5>1. writer \in Calls /\ pc' = [pc EXCEPT ![writer] = "answered"]
          BY <4>1 DEF Respond, Goto, JwksInv, JwksType
        <5> QED
          BY <2>1, <5>1
      <4> QED
        BY <4>1
    <3>3. pc' # pc
      OBVIOUS
    <3>4. ~Tick /\ ~FallIll /\ ~Recover /\ ~ UNCHANGED vars /\ \A k \in Kids : ~Publish(k) /\ ~Withdraw(k)
      BY <3>3 DEF Tick, FallIll, Recover, vars, Publish, Withdraw, validation
    <3>5. Proceed(c) \/ Disconnect(c) \/ \E k \in Kids : ValidateToken(c, k)
      BY <3>1, <3>2, <3>4 DEF Next
    <3> QED
      BY <3>5 DEF Proceed, Lookup, SkipRefresh, StartFetch, Install, FetchFails,
         LookupAgain, CheckClaims, Disconnect, ValidateToken
  <2>3. writer = NoCall
    BY <2>2 DEF Lookup, LookupAgain, Read
  <2>4. CASE kid[c] \notin published
    BY <2>1, <2>4, LagBounds DEF JwksInv, JwksType
  <2>5. CASE kid[c] \in published /\ pc[c] = "again"
    BY <2>3, <2>5 DEF JwksInv, KeysInv
  <2>6. CASE kid[c] \in published /\ pc[c] = "lookup"
    <3>1. Throttled
      BY <2>1, <2>2, <2>6 DEF Lookup, Goto
    <3>2. age[kid[c]] <= sinceFetch
      BY <2>3, <2>6, <3>1 DEF JwksInv, KeysInv
    <3> QED
      BY <2>1, <3>1, <3>2, LagBounds, JwksAssumption DEF JwksInv, JwksType, Throttled
  <2> QED
    BY <2>4, <2>5, <2>6
<1> QED
  BY <1>1, JwksSound, PTL DEF Spec, NewKeysAreServed

(* However fetches end, the next one begins MinInterval later at the       *)
(* earliest (refreshKeys).                                                 *)
THEOREM FetchesRationed == Spec => FetchesSpaced
<1>1. JwksInv /\ [Next]_vars =>
        \A c \in Calls : pc[c] # "fetching" /\ pc'[c] = "fetching" => quiet = MinInterval
  <2> SUFFICES ASSUME JwksInv, [Next]_vars, NEW c \in Calls, pc[c] # "fetching", pc'[c] = "fetching"
               PROVE  quiet = MinInterval
    OBVIOUS
  <2>1. pc \in [Calls -> Places] /\ sinceFetch \in 0 .. MinInterval /\ quiet = sinceFetch
        /\ (writer # NoCall => writer \in Calls)
    BY DEF JwksInv, JwksType
  <2>2. \E d \in Calls : StartFetch(d)
    BY <2>1 DEF Next, Proceed, Lookup, SkipRefresh, Install, FetchFails, LookupAgain, CheckClaims,
       Disconnect, ValidateToken, Verify, Leave, Goto, Respond, Tick, FallIll, Recover, vars,
       Publish, Withdraw, validation
  <2> QED
    BY <2>1, <2>2, JwksAssumption DEF StartFetch, Throttled
<1> QED
  BY <1>1, JwksSound, PTL DEF Spec, FetchesSpaced
=============================================================================
