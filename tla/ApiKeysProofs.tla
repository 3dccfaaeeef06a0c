---------------------------- MODULE ApiKeysProofs ----------------------------
(***************************************************************************)
(* The safety properties of ApiKeys, for every set of requests, keys,      *)
(* users and organizations, whoever belongs to which of them and whatever  *)
(* SpiceDB was told at first.                                              *)
(***************************************************************************)
EXTENDS ApiKeys, TLAPS

Anyone  == [user : Users \cup {NoOne}, key : Keys \cup {NoOne}]
AnyRow  == [org : Orgs \cup {NoOne}, wild : BOOLEAN, revoked : BOOLEAN,
            createdBy : Anyone, revokedBy : Anyone]

TypeOK ==
  /\ rebac \in BOOLEAN
  /\ row \in [Keys -> AnyRow]
  /\ pc \in [Requests -> PCs]
  /\ call \in [Requests -> Calls \cup {NoCall}]
  /\ org \in [Requests -> Orgs \cup {NoOne}]
  /\ answer \in [Requests -> Answers]
  /\ DOMAIN listed = Requests

(* A caller that is a key has a row.                                       *)
KeyIssued(c) == c.key # NoOne => c.key \in Issued

(* Who may create keys in o, and who may revoke key k, at this moment or   *)
(* at an earlier one.                                                      *)
MayCreate(c, o) == IF rebac THEN Managed(c, o) ELSE Entitled(c, o)
MayRevoke(c, k) ==
  IF rebac THEN Managed(c, row[k].org) \/ Actor(c) = Actor(row[k].createdBy)
           ELSE Entitled(c, row[k].org)

(* A request that was told, or will be told, that it revoked its key.      *)
Revoker(r) ==
  call[r].op = "revoke" /\ (pc[r] = "audit" \/ (pc[r] = "done" /\ answer[r] = "ok"))

(* SpiceDB knows of no relationship but those of the rows.                 *)
SpiceInv ==
  /\ manages \subseteq Managers
  /\ \A t \in linked : t[1] \in Issued /\ row[t[1]].org = t[2]
  /\ \A t \in creators : t[1] \in Issued /\ Actor(row[t[1]].createdBy) = t[2]

RowInv ==
  \A k \in Issued :
    /\ row[k].org \in KnownOrgs
    /\ KeyIssued(row[k].createdBy) /\ MayCreate(row[k].createdBy, row[k].org)
    /\ row[k].revoked => KeyIssued(row[k].revokedBy) /\ MayRevoke(row[k].revokedBy, k)

(* What the steps of a request so far have established.                    *)
StepInv(r) ==
  /\ pc[r] \in {"new", "resolve"} => org[r] = NoOne
  /\ pc[r] # "new" => call[r] \in Calls
  /\ pc[r] # "done" => answer[r] = "none"
  /\ pc[r] \notin {"new", "done"} => KeyIssued(call[r].by)
  /\ pc[r] \in {"check", "checkKey", "checkProject"} => rebac
  /\ pc[r] \in {"check", "insert", "linkProject", "linkCreator"} => call[r].op = "create"
  /\ pc[r] \in {"checkKey", "checkProject", "update"} => call[r].op = "revoke"
  /\ pc[r] = "audit" => call[r].op \in {"create", "revoke"}
  /\ pc[r] = "read" => call[r].op = "list"

RightInv(r) ==
  /\ pc[r] \in {"insert", "update"} /\ ~rebac => Entitled(call[r].by, org[r])
  /\ pc[r] = "read" => Entitled(call[r].by, org[r])
  /\ pc[r] = "insert" /\ rebac => Managed(call[r].by, org[r])
  /\ pc[r] = "update" /\ rebac =>
       Managed(call[r].by, org[r]) \/ (call[r].key \in Issued /\ MayRevoke(call[r].by, call[r].key))

EffectInv(r) ==
  /\ call[r].op = "create" /\ pc[r] \in {"linkProject", "linkCreator", "audit"} =>
       LET k == call[r].key IN
         k \in Issued /\ row[k].org = org[r] /\ row[k].createdBy = call[r].by
  /\ Revoker(r) =>
       LET k == call[r].key IN
         /\ k \in Issued /\ row[k].revoked /\ row[k].org = org[r] /\ row[k].revokedBy = call[r].by

AnswerInv(r) ==
  /\ rebac /\ answer[r] = "forbidden" /\ org[r] # NoOne => ~CanManage(Actor(call[r].by), org[r])
  /\ listed[r] # {} => pc[r] = "done" /\ KeyIssued(call[r].by) /\ Entitled(call[r].by, org[r])
  /\ \A k \in listed[r] : k \in Issued /\ row[k].org = org[r]

RequestInv(r) == StepInv(r) /\ RightInv(r) /\ EffectInv(r) /\ AnswerInv(r)

AuditInv ==
  \A e \in audit : LET k == e.key IN
    /\ k \in Issued /\ e.org = row[k].org
    /\ e.action = "revoke" => row[k].revoked /\ NamedBy(e.actor, row[k].revokedBy)
    /\ e.action = "create" => NamedBy(e.actor, row[k].createdBy)

OneRevoker ==
  \A r, q \in Requests : Revoker(r) /\ Revoker(q) /\ call[r].key = call[q].key => r = q

KeysInv ==
  /\ TypeOK /\ SpiceInv /\ RowInv /\ AuditInv /\ OneRevoker
  /\ \A r \in Requests : RequestInv(r)

-----------------------------------------------------------------------------
(* Rows are added and revoked, and change in no other way.                 *)
RowsGrow ==
  \A k \in Issued :
    /\ k \in Issued' /\ row'[k].org = row[k].org /\ row'[k].wild = row[k].wild
    /\ row'[k].createdBy = row[k].createdBy
    /\ row[k].revoked => row'[k].revoked /\ row'[k].revokedBy = row[k].revokedBy

(* A right that was there remains on record.                               *)
LEMMA BelongsLasts ==
  ASSUME RowsGrow, NEW c, NEW o, KeyIssued(c), Entitled(c, o)
  PROVE  KeyIssued(c)' /\ Entitled(c, o)'
BY DEF RowsGrow, KeyIssued, Entitled, Belongs, Wildcard

LEMMA RightsLast ==
  ASSUME RowsGrow, rebac' = rebac, NEW c, KeyIssued(c)
  PROVE  /\ \A o : MayCreate(c, o) => MayCreate(c, o)'
         /\ \A k \in Issued : MayRevoke(c, k) => MayRevoke(c, k)'
<1>1. \A o : Entitled(c, o) => Entitled(c, o)'
  BY BelongsLasts
<1>2. \A o : Managed(c, o)' <=> Managed(c, o)
  BY DEF Managed, Actor
<1>3. \A k \in Issued : row'[k].org = row[k].org /\ row'[k].createdBy = row[k].createdBy
  BY DEF RowsGrow
<1> QED
  BY <1>1, <1>2, <1>3 DEF MayCreate, MayRevoke, Actor

(* A request that does not move keeps what it established.                 *)
LEMMA OthersKeep ==
  ASSUME RowsGrow, rebac' = rebac, manages' \subseteq manages,
         NEW q \in Requests, RequestInv(q),
         pc'[q] = pc[q], call'[q] = call[q], org'[q] = org[q], answer'[q] = answer[q],
         listed'[q] = listed[q]
  PROVE  RequestInv(q)'
<1>1. StepInv(q)'
  BY BelongsLasts DEF RequestInv, StepInv, KeyIssued, RowsGrow
<1>2. RightInv(q)'
  <2>1. pc[q] \in {"insert", "update", "read"} => KeyIssued(call[q].by)
    BY DEF RequestInv, StepInv
  <2>2. pc[q] \in {"insert", "update", "read"} =>
          /\ Entitled(call[q].by, org[q]) => Entitled(call[q].by, org[q])'
          /\ Managed(call[q].by, org[q]) => Managed(call[q].by, org[q])'
          /\ \A k \in Issued : k \in Issued' /\ (MayRevoke(call[q].by, k) => MayRevoke(call[q].by, k)')
    <3>1. ASSUME pc[q] \in {"insert", "update", "read"}
          PROVE  \A k \in Issued : MayRevoke(call[q].by, k) => MayRevoke(call[q].by, k)'
      <4>1. KeyIssued(call[q].by)
        BY <2>1, <3>1
      <4>2. ASSUME NEW k \in Issued
            PROVE  MayRevoke(call[q].by, k) => MayRevoke(call[q].by, k)'
        <5>1. row'[k].org = row[k].org /\ row'[k].createdBy = row[k].createdBy
          BY DEF RowsGrow
        <5>2. Entitled(call[q].by, row[k].org) => Entitled(call[q].by, row[k].org)'
          BY <4>1, <5>1 DEF RowsGrow, KeyIssued, Entitled, Belongs, Wildcard
        <5> QED
          BY <5>1, <5>2 DEF MayRevoke, Managed, Actor
      <4> QED
        BY <4>2
    <3>2. ASSUME pc[q] \in {"insert", "update", "read"}, Entitled(call[q].by, org[q])
          PROVE  Entitled(call[q].by, org[q])'
      BY <2>1, <3>2 DEF RowsGrow, KeyIssued, Entitled, Belongs, Wildcard
    <3>3. Managed(call[q].by, org[q]) => Managed(call[q].by, org[q])'
      BY DEF Managed, Actor
    <3> QED
      BY <3>1, <3>2, <3>3 DEF RowsGrow
  <2> QED
    BY <2>2 DEF RequestInv, RightInv
<1>3. EffectInv(q)'
  BY DEF RequestInv, EffectInv, Revoker, RowsGrow
<1>4. AnswerInv(q)'
  <2>1. listed[q] # {} => KeyIssued(call[q].by)' /\ Entitled(call[q].by, org[q])'
    BY DEF RequestInv, AnswerInv, RowsGrow, KeyIssued, Entitled, Belongs, Wildcard
  <2>2. CanManage(Actor(call[q].by), org[q])' => CanManage(Actor(call[q].by), org[q])
    BY DEF CanManage, Actor
  <2>3. \A k \in listed[q] : k \in Issued' /\ row'[k].org = org[q]
    BY DEF RequestInv, AnswerInv, RowsGrow
  <2> QED
    BY <2>1, <2>2, <2>3 DEF RequestInv, AnswerInv
<1> QED
  BY <1>1, <1>2, <1>3, <1>4 DEF RequestInv

-----------------------------------------------------------------------------
LEMMA InvInit == Init => KeysInv
<1> SUFFICES ASSUME Init PROVE KeysInv
  OBVIOUS
<1> DEFINE OldRow(k) == StoredRow(CHOOSE s \in Stored : s[1] = k)
<1>1. ASSUME NEW k \in Keys, \E s \in Stored : s[1] = k
      PROVE  \E s \in Stored : s[1] = k /\ row[k] = StoredRow(s)
  BY <1>1 DEF Init
<1>2. \A s \in Stored : /\ s[1] \in Keys /\ s[2] \in KnownOrgs /\ s[3] \in Users /\ s[4] \in BOOLEAN
                        /\ <<s[3], s[2]>> \in Managers /\ Home[s[3]] = s[2]
                        /\ s[2] \in Orgs /\ s[2] # NoOne /\ s[3] # NoOne
  BY ApiKeysAssumption
<1>3. \A s \in Stored : StoredRow(s) \in AnyRow /\ StoredRow(s) # NoRow
  BY <1>2 DEF StoredRow, AnyRow, Anyone, NoRow, Nobody
<1>4. ASSUME NEW k \in Keys, ~\E s \in Stored : s[1] = k
      PROVE  row[k] = NoRow
  BY <1>4 DEF Init
<1>5. NoRow \in AnyRow
  BY DEF NoRow, AnyRow, Anyone, Nobody
<1>6. \A k \in Issued : \E s \in Stored : s[1] = k /\ row[k] = StoredRow(s)
  BY <1>1, <1>4 DEF Issued
<1>7. \A s \in Stored : s[1] \in Issued /\ row[s[1]] = StoredRow(s)
  <2>1. \A s, t \in Stored : s[1] = t[1] => s = t
    BY ApiKeysAssumption
  <2> QED
    BY <1>1, <1>2, <1>3, <2>1 DEF Issued
<1>8. TypeOK
  <2>1. row \in [Keys -> AnyRow]
    <3>1. \A k \in Keys : row[k] \in AnyRow
      BY <1>1, <1>3, <1>4, <1>5
    <3>2. row = [k \in Keys |-> row[k]]
      BY DEF Init
    <3> QED
      BY <3>1, <3>2
  <2> QED
    BY <2>1 DEF Init, TypeOK, PCs, Answers
<1>9. SpiceInv
  <2>1. \A s \in Stored : Actor(row[s[1]].createdBy) = s[3] /\ row[s[1]].org = s[2]
    <3>1. \A s \in Stored : /\ StoredRow(s).createdBy = [user |-> s[3], key |-> NoOne]
                            /\ StoredRow(s).org = s[2]
      BY DEF StoredRow
    <3>2. \A s \in Stored : Actor([user |-> s[3], key |-> NoOne]) = s[3]
      BY <1>2 DEF Actor
    <3> QED
      BY <1>7, <3>1, <3>2
  <2>2. \A t \in linked : \E s \in Stored : t = <<s[1], s[2]>>
    BY DEF Init
  <2>3. \A t \in creators : \E s \in Stored : t = <<s[1], s[3]>>
    BY DEF Init
  <2>4. \A t \in linked : t[1] \in Issued /\ row[t[1]].org = t[2]
    BY <1>7, <2>1, <2>2
  <2>5. \A t \in creators : t[1] \in Issued /\ Actor(row[t[1]].createdBy) = t[2]
    BY <1>7, <2>1, <2>3
  <2> QED
    BY <2>4, <2>5 DEF Init, SpiceInv
<1>10. RowInv
  <2>1. ASSUME NEW k \in Issued
        PROVE  /\ row[k].org \in KnownOrgs /\ ~row[k].revoked
               /\ KeyIssued(row[k].createdBy) /\ MayCreate(row[k].createdBy, row[k].org)
    <3>1. PICK s \in Stored : s[1] = k /\ row[k] = StoredRow(s)
      BY <1>6
    <3>2. /\ row[k].org = s[2] /\ ~row[k].revoked
          /\ row[k].createdBy = [user |-> s[3], key |-> NoOne]
      BY <3>1 DEF StoredRow
    <3> QED
      BY <1>2, <3>2 DEF KeyIssued, MayCreate, Managed, Entitled, Belongs, Wildcard, Actor
  <2> QED
    BY <2>1 DEF RowInv
<1>11. \A r \in Requests : RequestInv(r)
  BY DEF Init, RequestInv, StepInv, RightInv, EffectInv, AnswerInv, Revoker, NoCall
<1>12. AuditInv /\ OneRevoker
  BY DEF Init, AuditInv, OneRevoker, Revoker, NoCall
<1> QED
  BY <1>8, <1>9, <1>10, <1>11, <1>12 DEF KeysInv

-----------------------------------------------------------------------------
(* A step of one request, seen by the others.                              *)
Only(r) ==
  \A q \in Requests : q # r =>
    /\ pc'[q] = pc[q] /\ call'[q] = call[q] /\ org'[q] = org[q]
    /\ answer'[q] = answer[q] /\ listed'[q] = listed[q]

LEMMA OthersStep ==
  ASSUME KeysInv, NEW r \in Requests, Only(r), pc[r] # "done",
         RowsGrow, rebac' = rebac, manages' \subseteq manages, RequestInv(r)'
  PROVE  /\ \A q \in Requests : RequestInv(q)'
         /\ \A e \in audit : LET k == e.key IN
              /\ k \in Issued' /\ e.org = row'[k].org
              /\ e.action = "revoke" => row'[k].revoked /\ NamedBy(e.actor, row'[k].revokedBy)
              /\ e.action = "create" => NamedBy(e.actor, row'[k].createdBy)
         /\ \A q \in Requests : q # r => (Revoker(q)' <=> Revoker(q))
<1>1. ASSUME NEW q \in Requests, q # r PROVE RequestInv(q)'
  BY <1>1, OthersKeep DEF KeysInv, Only
<1>2. \A actor, c : NamedBy(actor, c) => NamedBy(actor, c)'
  BY DEF NamedBy
<1>3. \A e \in audit : LET k == e.key IN
        /\ k \in Issued' /\ e.org = row'[k].org
        /\ e.action = "revoke" => row'[k].revoked /\ NamedBy(e.actor, row'[k].revokedBy)
        /\ e.action = "create" => NamedBy(e.actor, row'[k].createdBy)
  BY SMTT(60) DEF KeysInv, AuditInv, RowsGrow, NamedBy
<1>4. \A q \in Requests : q # r => (Revoker(q)' <=> Revoker(q))
  BY DEF Only, Revoker
<1> QED
  BY <1>1, <1>3, <1>4

(* A step that neither changes a key nor ends a change of one.             *)
LEMMA QuietStep ==
  ASSUME KeysInv, NEW r \in Requests, Only(r), pc[r] # "done",
         UNCHANGED <<rebac, row, spice, audit>>, TypeOK', RequestInv(r)', ~Revoker(r)'
  PROVE  KeysInv'
<1>1. /\ UNCHANGED <<rebac, row, manages, linked, creators, audit>>
      /\ RowsGrow /\ Issued' = Issued
  BY DEF spice, RowsGrow, Issued
<1>2. /\ \A q \in Requests : RequestInv(q)'
      /\ \A q \in Requests : q # r => (Revoker(q)' <=> Revoker(q))
  BY <1>1, OthersStep
<1>3. AuditInv'
  BY <1>1, OthersStep DEF AuditInv, NamedBy
<1>4. SpiceInv'
  BY <1>1 DEF KeysInv, SpiceInv, Actor
<1>5. RowInv'
  BY <1>1 DEF KeysInv, RowInv, KeyIssued, MayCreate, MayRevoke, Managed, Entitled, Belongs, Wildcard, Actor
<1>6. OneRevoker'
  BY <1>2 DEF KeysInv, OneRevoker, Only
<1> QED
  BY <1>2, <1>3, <1>4, <1>5, <1>6 DEF KeysInv

LEMMA AuthenticateStep ==
  ASSUME KeysInv, NEW r \in Requests, Authenticate(r)
  PROVE  KeysInv'
<1>1. PICK c \in Calls :
        /\ call' = [call EXCEPT ![r] = c]
        /\ \/ /\ c.by.key # NoOne => Usable(c.by.key)
              /\ pc' = [pc EXCEPT ![r] = "resolve"] /\ answer' = answer
           \/ /\ pc' = [pc EXCEPT ![r] = "done"]
              /\ answer' = [answer EXCEPT ![r] = "unauthorized"]
  BY DEF Authenticate, Goto, Reply
<1>2. /\ pc[r] = "new" /\ UNCHANGED <<rebac, row, spice, audit, org, listed>>
      /\ Issued' = Issued
  BY DEF Authenticate, Issued
<1>3. TypeOK /\ RequestInv(r)
  BY DEF KeysInv
<1>4. TypeOK'
  BY <1>1, <1>2, <1>3 DEF TypeOK, PCs, Answers
<1>5. Only(r)
  BY <1>1, <1>2, <1>3 DEF TypeOK, Only
<1>6. /\ call'[r] = c /\ org'[r] = NoOne /\ listed'[r] = {}
      /\ \/ pc'[r] = "resolve" /\ answer'[r] = "none" /\ (c.by.key # NoOne => Usable(c.by.key))
         \/ pc'[r] = "done" /\ answer'[r] = "unauthorized"
  BY <1>1, <1>2, <1>3 DEF TypeOK, RequestInv, StepInv, AnswerInv
<1>7. c.by.key # NoOne /\ Usable(c.by.key) => c.by.key \in Issued'
  <2>1. c.by \in Anyone
    BY ApiKeysAssumption DEF Calls, Anyone
  <2> QED
    BY <1>2, <2>1 DEF Usable, Issued, Anyone
<1>8. RequestInv(r)'
  BY <1>1, <1>6, <1>7 DEF RequestInv, StepInv, RightInv, EffectInv, AnswerInv, Revoker, KeyIssued
<1>9. ~Revoker(r)'
  BY <1>6 DEF Revoker
<1> QED
  BY <1>2, <1>4, <1>5, <1>8, <1>9, QuietStep

(* Without a check to follow, the organization is one the caller belongs   *)
(* to, or the default.                                                     *)
LEMMA ResolvedBelongs ==
  ASSUME TypeOK, RowInv, NEW r \in Requests, call[r] \in Calls, KeyIssued(call[r].by),
         NEW own \in {OwnOrg(call[r].by)} \cup (IF call[r].by.key = NoOne THEN {NoOne} ELSE {}),
         NEW o \in Orgs, MayActOn(r, own, o), ~Delegated(r)
  PROVE  Entitled(call[r].by, o)
<1> DEFINE c == call[r].by
<1>1. o # NoOne /\ c \in Anyone
  BY ApiKeysAssumption DEF Calls, Anyone
<1>2. CASE c.key # NoOne
  <2>1. own = row[c.key].org /\ c.key \in Issued
    BY <1>2 DEF OwnOrg, KeyIssued
  <2>2. own # NoOne
    BY <2>1, ApiKeysAssumption DEF RowInv
  <2> QED
    BY <1>1, <1>2, <2>1, <2>2 DEF MayActOn, IsMember, Entitled, Belongs, Wildcard
<1>3. CASE c.key = NoOne
  <2>1. own = Home[c.user] \/ own = NoOne
    BY <1>3 DEF OwnOrg
  <2> QED
    BY <1>1, <1>3, <2>1 DEF MayActOn, IsMember, Entitled, Belongs, Wildcard
<1> QED
  BY <1>2, <1>3

LEMMA ResolveStep ==
  ASSUME KeysInv, NEW r \in Requests, Resolve(r)
  PROVE  KeysInv'
<1>1. /\ pc[r] = "resolve" /\ UNCHANGED <<rebac, row, spice, audit, call, listed>>
      /\ Issued' = Issued
  BY DEF Resolve, Issued
<1>2. /\ TypeOK /\ RowInv /\ RequestInv(r)
      /\ call[r] \in Calls /\ KeyIssued(call[r].by) /\ answer[r] = "none" /\ org[r] = NoOne /\ listed[r] = {}
  BY <1>1 DEF KeysInv, RequestInv, StepInv, AnswerInv
<1>3. call[r].op \in {"create", "list", "revoke"}
  BY <1>2 DEF Calls
<1>4. \/ \E what \in {"badOrg", "forbidden"} :
           pc' = [pc EXCEPT ![r] = "done"] /\ answer' = [answer EXCEPT ![r] = what] /\ org' = org
      \/ \E o \in Orgs :
           /\ org' = [org EXCEPT ![r] = o] /\ answer' = answer
           /\ pc' = [pc EXCEPT ![r] = FirstStep(r)]
           /\ ~Delegated(r) => Entitled(call[r].by, o)
  BY <1>2, ResolvedBelongs DEF Resolve, Goto, Reply
<1>5. /\ FirstStep(r) \in {"read", "check", "insert", "checkKey", "update"}
      /\ FirstStep(r) = "read" <=> call[r].op = "list"
      /\ FirstStep(r) \in {"check", "insert"} => call[r].op = "create"
      /\ FirstStep(r) \in {"checkKey", "update"} => call[r].op = "revoke"
      /\ FirstStep(r) \in {"check", "checkKey"} => rebac
      /\ FirstStep(r) \in {"insert", "update"} => ~rebac
  BY <1>3 DEF FirstStep
<1>6. TypeOK' /\ Only(r)
  <2>1. /\ pc' \in [Requests -> PCs] /\ org' \in [Requests -> Orgs \cup {NoOne}]
        /\ answer' \in [Requests -> Answers]
        /\ \A q \in Requests : q # r => pc'[q] = pc[q] /\ org'[q] = org[q] /\ answer'[q] = answer[q]
    BY <1>2, <1>4, <1>5 DEF TypeOK, PCs, Answers
  <2> QED
    BY <1>1, <1>2, <2>1 DEF TypeOK, Only
<1>7. CASE \E what \in {"badOrg", "forbidden"} :
             pc' = [pc EXCEPT ![r] = "done"] /\ answer' = [answer EXCEPT ![r] = what] /\ org' = org
  <2>1. /\ pc'[r] = "done" /\ answer'[r] \in {"badOrg", "forbidden"} /\ org'[r] = NoOne
        /\ call'[r] = call[r] /\ listed'[r] = {}
    BY <1>1, <1>2, <1>7 DEF TypeOK
  <2>2. RequestInv(r)' /\ ~Revoker(r)'
    BY <1>2, <2>1 DEF RequestInv, StepInv, RightInv, EffectInv, AnswerInv, Revoker
  <2> QED
    BY <1>1, <1>6, <2>2, QuietStep
<1>8. CASE \E o \in Orgs :
             /\ org' = [org EXCEPT ![r] = o] /\ answer' = answer
             /\ pc' = [pc EXCEPT ![r] = FirstStep(r)]
             /\ ~Delegated(r) => Entitled(call[r].by, o)
  <2>1. /\ pc'[r] = FirstStep(r) /\ answer'[r] = "none" /\ call'[r] = call[r] /\ listed'[r] = {}
        /\ ~Delegated(r) => Entitled(call[r].by, org'[r])
    BY <1>1, <1>2, <1>8 DEF TypeOK
  <2>2. StepInv(r)'
    BY <1>1, <1>2, <1>5, <2>1 DEF StepInv, KeyIssued
  <2>3. RightInv(r)'
    <3>1. pc'[r] \in {"read", "insert", "update"} => ~Delegated(r)
      BY <1>5, <2>1 DEF Delegated
    <3>2. pc'[r] \in {"read", "insert", "update"} => Entitled(call[r].by, org[r])'
      BY <1>1, <2>1, <3>1 DEF Entitled, Belongs, Wildcard
    <3> QED
      BY <1>1, <1>5, <2>1, <3>2 DEF RightInv
  <2>4. ~Revoker(r)' /\ EffectInv(r)' /\ AnswerInv(r)'
    BY <1>5, <2>1 DEF Revoker, EffectInv, AnswerInv
  <2> QED
    BY <1>1, <1>6, <2>2, <2>3, <2>4, QuietStep DEF RequestInv
<1> QED
  BY <1>4, <1>7, <1>8

(* The three questions to SpiceDB.                                         *)
LEMMA CheckStep ==
  ASSUME KeysInv, NEW r \in Requests, CheckManage(r) \/ CheckKey(r) \/ CheckProject(r)
  PROVE  KeysInv'
<1> DEFINE c == call[r].by
           k == call[r].key
<1>1. /\ pc[r] \in {"check", "checkKey", "checkProject"} /\ rebac
      /\ UNCHANGED <<rebac, row, spice, audit, call, org, listed>>
      /\ TypeOK /\ SpiceInv /\ RequestInv(r)
  BY DEF CheckManage, CheckKey, CheckProject, KeysInv, RequestInv, StepInv
<1>2. Issued' = Issued /\ manages' = manages
  BY <1>1 DEF Issued, spice
<1>3. /\ call[r] \in Calls /\ KeyIssued(c) /\ answer[r] = "none" /\ listed[r] = {}
      /\ call'[r] = call[r] /\ org'[r] = org[r] /\ listed'[r] = {}
      /\ call[r].op = (IF pc[r] = "check" THEN "create" ELSE "revoke")
  BY <1>1 DEF RequestInv, StepInv, AnswerInv
<1>4. \A o : CanManage(Actor(c), o) => Managed(c, o)
  BY <1>1 DEF CanManage, Managed, SpiceInv
<1>5. CanRevoke(Actor(c), k) => k \in Issued /\ MayRevoke(c, k)
  <2>1. ASSUME <<k, Actor(c)>> \in creators PROVE k \in Issued /\ MayRevoke(c, k)
    BY <1>1, <2>1 DEF SpiceInv, MayRevoke
  <2>2. ASSUME NEW o \in Orgs, <<k, o>> \in linked, CanManage(Actor(c), o)
        PROVE  k \in Issued /\ MayRevoke(c, k)
    BY <1>1, <1>4, <2>2 DEF SpiceInv, MayRevoke
  <2> QED
    BY <2>1, <2>2 DEF CanRevoke
<1>6. \/ /\ pc' = [pc EXCEPT ![r] = "insert"] /\ answer' = answer
         /\ pc[r] = "check" /\ Managed(c, org[r])
      \/ /\ pc' = [pc EXCEPT ![r] = "update"] /\ answer' = answer
         /\ pc[r] # "check" /\ (Managed(c, org[r]) \/ (k \in Issued /\ MayRevoke(c, k)))
      \/ /\ pc' = [pc EXCEPT ![r] = "checkProject"] /\ answer' = answer /\ pc[r] # "check"
      \/ /\ pc' = [pc EXCEPT ![r] = "done"] /\ answer' = [answer EXCEPT ![r] = "error"]
      \/ /\ pc' = [pc EXCEPT ![r] = "done"] /\ answer' = [answer EXCEPT ![r] = "forbidden"]
         /\ ~CanManage(Actor(c), org[r])
  <2>1. CASE CheckManage(r)
    BY <1>4, <2>1 DEF CheckManage, Ask, Goto, Reply
  <2>2. CASE CheckKey(r)
    BY <1>5, <2>2 DEF CheckKey, Ask, Goto, Reply
  <2>3. CASE CheckProject(r)
    BY <1>4, <2>3 DEF CheckProject, Ask, Goto, Reply
  <2> QED
    BY <2>1, <2>2, <2>3
<1>7. TypeOK' /\ Only(r)
  <2>1. /\ pc' \in [Requests -> PCs] /\ answer' \in [Requests -> Answers]
        /\ \A q \in Requests : q # r => pc'[q] = pc[q] /\ answer'[q] = answer[q]
    BY <1>1, <1>6 DEF TypeOK, PCs, Answers
  <2> QED
    BY <1>1, <2>1 DEF TypeOK, Only
<1>8. /\ \A o : Managed(c, o) => Managed(call[r].by, o)'
      /\ \A o : CanManage(Actor(call[r].by), o)' => CanManage(Actor(c), o)
      /\ k \in Issued /\ MayRevoke(c, k) => (call[r].key \in Issued)' /\ MayRevoke(call[r].by, call[r].key)'
      /\ KeyIssued(call[r].by)'
  BY <1>1, <1>2, <1>3 DEF Managed, CanManage, Actor, MayRevoke, Entitled, Belongs, Wildcard, KeyIssued
<1>9. \/ /\ pc'[r] = "insert" /\ answer'[r] = "none" /\ pc[r] = "check" /\ Managed(c, org[r])
      \/ /\ pc'[r] = "update" /\ answer'[r] = "none" /\ pc[r] # "check"
         /\ (Managed(c, org[r]) \/ (k \in Issued /\ MayRevoke(c, k)))
      \/ /\ pc'[r] = "checkProject" /\ answer'[r] = "none" /\ pc[r] # "check"
      \/ /\ pc'[r] = "done" /\ answer'[r] = "error"
      \/ /\ pc'[r] = "done" /\ answer'[r] = "forbidden" /\ ~CanManage(Actor(c), org[r])
  BY <1>1, <1>3, <1>6 DEF TypeOK
<1> HIDE DEF c, k
<1>10. StepInv(r)'
  BY <1>1, <1>3, <1>8, <1>9 DEF StepInv
<1>11. RightInv(r)'
  BY <1>1, <1>3, <1>8, <1>9 DEF RightInv
<1>12. ~Revoker(r)'
  BY <1>9 DEF Revoker
<1>13. EffectInv(r)'
  BY <1>9, <1>12 DEF EffectInv
<1>14. AnswerInv(r)'
  BY <1>3, <1>8, <1>9 DEF AnswerInv
<1> QED
  BY <1>1, <1>7, <1>10, <1>11, <1>12, <1>13, <1>14, QuietStep DEF RequestInv

LEMMA ListStep ==
  ASSUME KeysInv, NEW r \in Requests, List(r)
  PROVE  KeysInv'
<1>1. /\ pc[r] = "read" /\ UNCHANGED <<rebac, row, spice, audit, call, org>>
      /\ pc' = [pc EXCEPT ![r] = "done"]
      /\ \/ listed' = [listed EXCEPT ![r] = KeysOf(org[r])] /\ answer' = [answer EXCEPT ![r] = "ok"]
         \/ listed' = listed /\ answer' = [answer EXCEPT ![r] = "error"]
      /\ Issued' = Issued
  BY DEF List, Reply, Goto, Issued
<1>2. /\ TypeOK /\ RequestInv(r) /\ listed[r] = {} /\ call[r] \in Calls /\ call[r].op = "list"
      /\ KeyIssued(call[r].by) /\ Entitled(call[r].by, org[r])
  BY <1>1 DEF KeysInv, RequestInv, StepInv, RightInv, AnswerInv
<1>3. TypeOK' /\ Only(r)
  BY <1>1, <1>2 DEF TypeOK, Only, PCs, Answers
<1>4. /\ pc'[r] = "done" /\ answer'[r] \in {"ok", "error"} /\ call'[r] = call[r] /\ org'[r] = org[r]
      /\ listed'[r] \in {{}, KeysOf(org[r])}
  BY <1>1, <1>2 DEF TypeOK
<1>5. KeyIssued(call[r].by)' /\ Entitled(call[r].by, org[r])'
  BY <1>1, <1>2 DEF KeyIssued, Entitled, Belongs, Wildcard
<1>6. \A k \in listed'[r] : k \in Issued' /\ row'[k].org = org'[r]
  BY <1>1, <1>4 DEF KeysOf
<1>7. AnswerInv(r)'
  BY <1>4, <1>5, <1>6 DEF AnswerInv
<1>8. StepInv(r)' /\ RightInv(r)' /\ EffectInv(r)' /\ ~Revoker(r)'
  BY <1>2, <1>4 DEF StepInv, RightInv, EffectInv, Revoker
<1> QED
  BY <1>1, <1>3, <1>7, <1>8, QuietStep DEF RequestInv

-----------------------------------------------------------------------------
(* The steps that change a row, a relationship or the audit trail.         *)

LEMMA InsertStep ==
  ASSUME KeysInv, NEW r \in Requests, Insert(r)
  PROVE  KeysInv'
<1>1. /\ pc[r] = "insert" /\ UNCHANGED <<rebac, spice, audit, org, listed>>
      /\ TypeOK /\ RequestInv(r)
  BY DEF Insert, KeysInv
<1>2. /\ call[r] \in Calls /\ call[r].op = "create" /\ answer[r] = "none" /\ listed[r] = {}
      /\ KeyIssued(call[r].by) /\ MayCreate(call[r].by, org[r])
  BY <1>1 DEF RequestInv, StepInv, RightInv, AnswerInv, MayCreate
<1>3. CASE Reply(r, "error") /\ UNCHANGED <<row, call>>
  <2>1. /\ pc' = [pc EXCEPT ![r] = "done"] /\ answer' = [answer EXCEPT ![r] = "error"]
        /\ UNCHANGED <<rebac, row, spice, audit, call, org, listed>>
    BY <1>1, <1>3 DEF Reply, Goto
  <2>2. TypeOK' /\ Only(r)
    BY <1>1, <2>1 DEF TypeOK, Only, PCs, Answers
  <2>3. pc'[r] = "done" /\ answer'[r] = "error" /\ call'[r] = call[r] /\ listed'[r] = {}
    BY <1>1, <1>2, <2>1 DEF TypeOK
  <2>4. RequestInv(r)' /\ ~Revoker(r)'
    BY <1>2, <2>3 DEF RequestInv, StepInv, RightInv, EffectInv, AnswerInv, Revoker
  <2> QED
    BY <1>1, <2>1, <2>2, <2>4, QuietStep
<1>4. ASSUME NEW k \in Keys \ Issued, org[r] \in KnownOrgs,
             row' = [row EXCEPT ![k] = KeyRow(r)],
             \/ /\ call' = [call EXCEPT ![r].key = k] /\ answer' = answer
                /\ Goto(r, IF rebac THEN "linkProject" ELSE "audit")
             \/ Reply(r, "error") /\ call' = call
      PROVE  KeysInv'
  <2>1. /\ call[r].by \in Anyone /\ call[r].wild \in BOOLEAN
        /\ KeyRow(r) \in AnyRow /\ KeyRow(r).org = org[r] /\ KeyRow(r).createdBy = call[r].by
        /\ ~KeyRow(r).revoked /\ KeyRow(r) # NoRow
    <3>1. call[r].by \in Callers /\ call[r].wild \in BOOLEAN
      BY <1>2 DEF Calls
    <3>2. call[r].by \in Anyone /\ Nobody \in Anyone /\ org[r] \in Orgs /\ org[r] # NoOne
      BY <1>4, <3>1, ApiKeysAssumption DEF Anyone, Nobody
    <3> QED
      BY <3>1, <3>2 DEF KeyRow, AnyRow, NoRow
  <2>2. /\ row' \in [Keys -> AnyRow] /\ Issued' = Issued \cup {k}
        /\ row'[k] = KeyRow(r) /\ \A l \in Issued : row'[l] = row[l]
    BY <1>1, <1>4, <2>1 DEF TypeOK, Issued
  <2>3. /\ call'[r] \in Calls /\ call'[r].op = "create" /\ call'[r].by = call[r].by
        /\ call' = [call EXCEPT ![r] = call'[r]]
        /\ call'[r].key = k \/ call' = call
    <3>1. CASE call' = [call EXCEPT ![r].key = k]
      <4>1. call'[r] = [call[r] EXCEPT !.key = k] /\ call' = [call EXCEPT ![r] = [call[r] EXCEPT !.key = k]]
        BY <1>1, <3>1 DEF TypeOK
      <4>2. [call[r] EXCEPT !.key = k] \in Calls
        BY <1>2 DEF Calls
      <4> QED
        BY <1>2, <4>1, <4>2 DEF Calls
    <3>2. CASE call' = call
      BY <1>1, <1>2, <3>2 DEF TypeOK
    <3> QED
      BY <1>4, <3>1, <3>2
  <2>4. TypeOK' /\ Only(r)
    <3>1. /\ pc' \in [Requests -> PCs] /\ call' \in [Requests -> Calls \cup {NoCall}]
          /\ answer' \in [Requests -> Answers]
          /\ \A q \in Requests : q # r => pc'[q] = pc[q] /\ call'[q] = call[q] /\ answer'[q] = answer[q]
      BY <1>1, <1>4, <2>3 DEF TypeOK, PCs, Answers, Goto, Reply
    <3> QED
      BY <1>1, <1>4, <2>2, <2>3, <3>1 DEF TypeOK, Only
  <2>5. RowsGrow
    BY <2>2 DEF RowsGrow
  <2>6. /\ org'[r] = org[r] /\ listed'[r] = {}
        /\ \/ pc'[r] \in {"linkProject", "audit"} /\ answer'[r] = "none" /\ call'[r].key = k
           \/ pc'[r] = "done" /\ answer'[r] = "error"
    <3>1. call' = [call EXCEPT ![r].key = k] => call'[r].key = k
      BY <1>1, <1>2 DEF TypeOK, Calls
    <3> QED
      BY <1>1, <1>2, <1>4, <3>1 DEF TypeOK, Goto, Reply
  <2>7. KeyIssued(call[r].by)'
    BY <1>2, <2>2, <2>3 DEF KeyIssued
  <2>8. RequestInv(r)' /\ ~Revoker(r)'
    <3>1. ~Revoker(r)'
      BY <2>3 DEF Revoker
    <3>2. StepInv(r)'
      BY <2>3, <2>6, <2>7 DEF StepInv
    <3>3. EffectInv(r)'
      BY <2>1, <2>2, <2>3, <2>6, <3>1 DEF EffectInv
    <3>4. RightInv(r)' /\ AnswerInv(r)'
      BY <2>6 DEF RightInv, AnswerInv
    <3> QED
      BY <3>1, <3>2, <3>3, <3>4 DEF RequestInv
  <2>9. rebac' = rebac /\ manages' = manages /\ linked' = linked /\ creators' = creators /\ audit' = audit
    BY <1>1 DEF spice
  <2>10. /\ \A q \in Requests : RequestInv(q)'
         /\ \A q \in Requests : q # r => (Revoker(q)' <=> Revoker(q))
    BY <1>1, <2>4, <2>5, <2>8, <2>9, OthersStep
  <2>11. AuditInv'
    BY <1>1, <2>4, <2>5, <2>8, <2>9, OthersStep DEF AuditInv, NamedBy
  <2>12. OneRevoker'
    BY <2>4, <2>8, <2>10 DEF KeysInv, OneRevoker, Only
  <2>13. SpiceInv'
    BY <2>2, <2>9 DEF KeysInv, SpiceInv, Actor
  <2>14. RowInv'
    <3>1. ASSUME NEW l \in Issued
          PROVE  /\ row'[l].org \in KnownOrgs
                 /\ KeyIssued(row[l].createdBy)' /\ MayCreate(row[l].createdBy, row[l].org)'
                 /\ row'[l].revoked => KeyIssued(row[l].revokedBy)' /\ MayRevoke(row[l].revokedBy, l)'
      <4>1. row'[l] = row[l] /\ \A c : KeyIssued(c) /\ c.key # NoOne => row'[c.key] = row[c.key]
        BY <2>2 DEF KeyIssued
      <4>2. /\ row[l].org \in KnownOrgs
            /\ KeyIssued(row[l].createdBy) /\ MayCreate(row[l].createdBy, row[l].org)
            /\ row[l].revoked => KeyIssued(row[l].revokedBy) /\ MayRevoke(row[l].revokedBy, l)
        BY DEF KeysInv, RowInv
      <4>3. KeyIssued(row[l].createdBy)' /\ MayCreate(row[l].createdBy, row[l].org)'
        BY <2>2, <2>9, <4>1, <4>2 DEF KeyIssued, MayCreate, Managed, Entitled, Belongs, Wildcard, Actor
      <4>4. row'[l].revoked => KeyIssued(row[l].revokedBy)' /\ MayRevoke(row[l].revokedBy, l)'
        BY <2>2, <2>9, <4>1, <4>2 DEF KeyIssued, MayRevoke, Managed, Entitled, Belongs, Wildcard, Actor
      <4> QED
        BY <4>1, <4>2, <4>3, <4>4
    <3>2. KeyIssued(row[k].createdBy)' /\ MayCreate(row[k].createdBy, row[k].org)'
      BY <1>2, <2>1, <2>2, <2>9 DEF KeyIssued, MayCreate, Managed, Entitled, Belongs, Wildcard, Actor
    <3> QED
      BY <1>4, <2>1, <2>2, <3>1, <3>2 DEF RowInv
  <2> QED
    BY <2>4, <2>10, <2>11, <2>12, <2>13, <2>14 DEF KeysInv
<1> QED
  BY <1>3, <1>4 DEF Insert, Goto

LEMMA LinkStep ==
  ASSUME KeysInv, NEW r \in Requests, LinkProject(r) \/ LinkCreator(r)
  PROVE  KeysInv'
<1>1. /\ pc[r] \in {"linkProject", "linkCreator"}
      /\ UNCHANGED <<rebac, row, manages, audit, call, org, answer, listed>>
      /\ \E next \in {"linkCreator", "audit"} : pc' = [pc EXCEPT ![r] = next]
      /\ Issued' = Issued
      /\ TypeOK /\ RequestInv(r) /\ SpiceInv
  BY DEF LinkProject, LinkCreator, Write, Goto, Issued, KeysInv
<1>2. /\ call[r].op = "create" /\ call[r] \in Calls /\ answer[r] = "none" /\ listed[r] = {}
      /\ KeyIssued(call[r].by)
      /\ call[r].key \in Issued /\ row[call[r].key].org = org[r]
      /\ row[call[r].key].createdBy = call[r].by
  BY <1>1 DEF RequestInv, StepInv, EffectInv, AnswerInv
<1>3. TypeOK' /\ Only(r) /\ pc'[r] \in {"linkCreator", "audit"}
  BY <1>1 DEF TypeOK, Only, PCs
<1>4. RowsGrow
  BY <1>1 DEF RowsGrow
<1>5. RequestInv(r)' /\ ~Revoker(r)'
  <2>1. ~Revoker(r)'
    BY <1>1, <1>2 DEF Revoker
  <2>2. StepInv(r)'
    BY <1>1, <1>2, <1>3 DEF StepInv, KeyIssued
  <2>3. EffectInv(r)'
    BY <1>1, <1>2, <2>1 DEF EffectInv
  <2>4. RightInv(r)' /\ AnswerInv(r)'
    BY <1>1, <1>2, <1>3 DEF RightInv, AnswerInv
  <2> QED
    BY <2>1, <2>2, <2>3, <2>4 DEF RequestInv
<1>6. /\ \A q \in Requests : RequestInv(q)'
      /\ \A q \in Requests : q # r => (Revoker(q)' <=> Revoker(q))
  BY <1>1, <1>3, <1>4, <1>5, OthersStep
<1>7. AuditInv'
  BY <1>1, <1>3, <1>4, <1>5, OthersStep DEF AuditInv, NamedBy
<1>8. OneRevoker'
  BY <1>1, <1>5, <1>6 DEF KeysInv, OneRevoker
<1>9. SpiceInv'
  <2>1. linked' \subseteq linked \cup {<<call[r].key, org[r]>>}
    BY DEF LinkProject, LinkCreator, Write
  <2>2. creators' \subseteq creators \cup {<<call[r].key, Actor(call[r].by)>>}
    BY DEF LinkProject, LinkCreator, Write
  <2>3. \A t \in linked' : t[1] \in Issued /\ row[t[1]].org = t[2]
    BY <1>1, <1>2, <2>1 DEF SpiceInv
  <2>4. \A t \in creators' : t[1] \in Issued /\ Actor(row[t[1]].createdBy) = t[2]
    BY <1>1, <1>2, <2>2, SMTT(60) DEF SpiceInv
  <2> QED
    BY <1>1, <2>3, <2>4 DEF SpiceInv, Actor
<1>10. RowInv'
  BY <1>1 DEF KeysInv, RowInv, KeyIssued, MayCreate, MayRevoke, Managed, Entitled, Belongs, Wildcard, Actor
<1> QED
  BY <1>3, <1>6, <1>7, <1>8, <1>9, <1>10 DEF KeysInv

LEMMA UpdateStep ==
  ASSUME KeysInv, NEW r \in Requests, Update(r)
  PROVE  KeysInv'
<1> DEFINE k == call[r].key
<1>1. /\ pc[r] = "update" /\ UNCHANGED <<rebac, spice, audit, call, org, listed>>
      /\ TypeOK /\ RequestInv(r)
  BY DEF Update, KeysInv
<1>2. /\ call[r] \in Calls /\ call[r].op = "revoke" /\ answer[r] = "none" /\ listed[r] = {}
      /\ KeyIssued(call[r].by)
  BY <1>1 DEF RequestInv, StepInv, AnswerInv
<1>3. CASE \E what \in {"notFound", "error"} : Reply(r, what) /\ UNCHANGED row
  <2>1. /\ \E what \in {"notFound", "error"} :
             pc' = [pc EXCEPT ![r] = "done"] /\ answer' = [answer EXCEPT ![r] = what]
        /\ UNCHANGED <<rebac, row, spice, audit, call, org, listed>>
    BY <1>1, <1>3 DEF Reply, Goto
  <2>2. TypeOK' /\ Only(r)
    BY <1>1, <2>1 DEF TypeOK, Only, PCs, Answers
  <2>3. pc'[r] = "done" /\ answer'[r] \in {"notFound", "error"} /\ call'[r] = call[r] /\ listed'[r] = {}
    BY <1>1, <1>2, <2>1 DEF TypeOK
  <2>4. RequestInv(r)' /\ ~Revoker(r)'
    BY <1>2, <2>3 DEF RequestInv, StepInv, RightInv, EffectInv, AnswerInv, Revoker
  <2> QED
    BY <1>1, <2>1, <2>2, <2>4, QuietStep
<1>4. CASE /\ Matches(r)
           /\ row' = [row EXCEPT ![k].revoked = TRUE, ![k].revokedBy = call[r].by]
           /\ (Goto(r, "audit") /\ answer' = answer) \/ Reply(r, "error")
  <2>1. k \in Issued /\ k \in Keys /\ row[k].org = org[r] /\ ~row[k].revoked /\ row[k] \in AnyRow
    BY <1>1, <1>4 DEF Matches, Issued, TypeOK
  <2>2. call[r].by \in Anyone
    BY <1>2, ApiKeysAssumption DEF Calls, Anyone
  <2>3. MayRevoke(call[r].by, k)
    BY <1>1, <2>1 DEF RequestInv, RightInv, MayRevoke
  <2>4. /\ row'[k] = [row[k] EXCEPT !.revoked = TRUE, !.revokedBy = call[r].by]
        /\ \A l \in Keys : l # k => row'[l] = row[l]
        /\ DOMAIN row' = Keys
    <3>1. row \in [Keys -> AnyRow]
      BY <1>1 DEF TypeOK
    <3> QED
      BY <1>4, <2>1, <3>1
  <2>5. /\ row'[k].revoked /\ row'[k].revokedBy = call[r].by /\ row'[k].org = row[k].org
        /\ row'[k].wild = row[k].wild /\ row'[k].createdBy = row[k].createdBy /\ row'[k] \in AnyRow
    BY <2>1, <2>2, <2>4 DEF AnyRow
  <2>6. row' \in [Keys -> AnyRow]
    <3>1. row \in [Keys -> AnyRow]
      BY <1>1 DEF TypeOK
    <3>2. \A l \in Keys : row'[l] \in AnyRow
      BY <2>4, <2>5, <3>1
    <3>3. row' = [l \in Keys |-> row'[l]]
      BY <1>4, <3>1
    <3> QED
      BY <3>2, <3>3
  <2>7. Issued' = Issued
    <3>1. row'[k] # NoRow
      BY <2>5 DEF NoRow
    <3> QED
      BY <2>1, <2>4, <3>1 DEF Issued
  <2>8. \A l \in Issued : /\ row'[l].org = row[l].org /\ row'[l].wild = row[l].wild
                          /\ row'[l].createdBy = row[l].createdBy
                          /\ l # k => row'[l] = row[l]
    BY <2>4, <2>5 DEF Issued
  <2>9. RowsGrow
    BY <2>1, <2>7, <2>8 DEF RowsGrow
  <2>10. /\ call'[r] = call[r] /\ org'[r] = org[r] /\ listed'[r] = {}
         /\ \/ pc'[r] = "audit" /\ answer'[r] = "none"
            \/ pc'[r] = "done" /\ answer'[r] = "error"
    BY <1>1, <1>2, <1>4 DEF TypeOK, Goto, Reply
  <2>11. TypeOK' /\ Only(r)
    <3>1. /\ pc' \in [Requests -> PCs] /\ answer' \in [Requests -> Answers]
          /\ \A q \in Requests : q # r => pc'[q] = pc[q] /\ answer'[q] = answer[q]
      BY <1>1, <1>4 DEF TypeOK, PCs, Answers, Goto, Reply
    <3> QED
      BY <1>1, <1>4, <2>6, <3>1 DEF TypeOK, Only
  <2>12. RequestInv(r)'
    <3>1. StepInv(r)'
      BY <1>2, <2>7, <2>10 DEF StepInv, KeyIssued
    <3>2. EffectInv(r)'
      BY <1>2, <2>1, <2>5, <2>7, <2>10 DEF EffectInv, Revoker
    <3>3. RightInv(r)' /\ AnswerInv(r)'
      BY <2>10 DEF RightInv, AnswerInv
    <3> QED
      BY <3>1, <3>2, <3>3 DEF RequestInv
  <2>13. rebac' = rebac /\ manages' = manages /\ linked' = linked /\ creators' = creators /\ audit' = audit
    BY <1>1 DEF spice
  <2>14. /\ \A q \in Requests : RequestInv(q)'
         /\ \A q \in Requests : q # r => (Revoker(q)' <=> Revoker(q))
    BY <1>1, <2>9, <2>11, <2>12, <2>13, OthersStep
  <2>15. AuditInv'
    BY <1>1, <2>9, <2>11, <2>12, <2>13, OthersStep DEF AuditInv, NamedBy
  <2>16. OneRevoker'
    <3>1. \A q \in Requests : Revoker(q) => call[q].key # k
      BY <2>1 DEF KeysInv, RequestInv, EffectInv
    <3> QED
      BY <1>1, <2>14, <3>1 DEF KeysInv, OneRevoker
  <2>17. SpiceInv'
    BY <2>7, <2>8, <2>13 DEF KeysInv, SpiceInv, Actor
  <2>18. RowInv'
    <3>1. \A c, o : KeyIssued(c) => (KeyIssued(c)' /\ (Entitled(c, o) => Entitled(c, o)'))
      BY <2>9 DEF RowsGrow, KeyIssued, Entitled, Belongs, Wildcard
    <3>2. ASSUME NEW l \in Issued
          PROVE  /\ row'[l].org \in KnownOrgs
                 /\ KeyIssued(row[l].createdBy)' /\ MayCreate(row[l].createdBy, row[l].org)'
      <4>1. /\ row[l].org \in KnownOrgs
            /\ KeyIssued(row[l].createdBy) /\ MayCreate(row[l].createdBy, row[l].org)
        BY DEF KeysInv, RowInv
      <4>2. row'[l].org = row[l].org /\ row'[l].createdBy = row[l].createdBy
        BY <2>8
      <4> QED
        BY <2>9, <2>13, <4>1, <4>2 DEF RowsGrow, KeyIssued, MayCreate, Managed, Entitled, Belongs, Wildcard, Actor
    <3>3. ASSUME NEW l \in Issued, l # k, row'[l].revoked
          PROVE  KeyIssued(row[l].revokedBy)' /\ MayRevoke(row[l].revokedBy, l)'
      <4>1. row'[l] = row[l] /\ KeyIssued(row[l].revokedBy) /\ MayRevoke(row[l].revokedBy, l)
        BY <2>8, <3>3, SMTT(60) DEF KeysInv, RowInv
      <4> QED
        BY <2>9, <2>13, <4>1, SMTT(60) DEF RowsGrow, KeyIssued, MayRevoke, Managed, Entitled, Belongs, Wildcard, Actor
    <3>4. KeyIssued(row[k].revokedBy)' /\ MayRevoke(row[k].revokedBy, k)'
      <4>1. call' = call
        BY <1>1
      <4>2. KeyIssued(call[r].by)'
        BY <1>2, <2>9, <4>1 DEF RowsGrow, KeyIssued
      <4>3. Entitled(call[r].by, row[k].org) => Entitled(call[r].by, row[k].org)'
        BY <1>2, <2>1, <2>5, <2>9, <4>1 DEF RowsGrow, KeyIssued, Entitled, Belongs, Wildcard
      <4>4. MayRevoke(call[r].by, k)'
        BY <2>3, <2>5, <2>13, <4>1, <4>3 DEF MayRevoke, Managed, Actor
      <4> QED
        BY <2>5, <2>13, <4>1, <4>2, <4>4 DEF KeyIssued, MayRevoke, Managed, Entitled, Belongs, Wildcard, Actor
    <3> QED
      BY <1>1, <2>7, <3>2, <3>3, <3>4 DEF RowInv
  <2> QED
    BY <2>11, <2>14, <2>15, <2>16, <2>17, <2>18 DEF KeysInv
<1> QED
  BY <1>3, <1>4 DEF Update

LEMMA AuditStep ==
  ASSUME KeysInv, NEW r \in Requests, Audit(r)
  PROVE  KeysInv'
<1>1. /\ pc[r] = "audit" /\ UNCHANGED <<rebac, row, spice, call, org, listed>>
      /\ pc' = [pc EXCEPT ![r] = "done"] /\ answer' = [answer EXCEPT ![r] = "ok"]
      /\ audit' \subseteq audit \cup {Entry(r)}
      /\ TypeOK /\ RequestInv(r)
  BY DEF Audit, Reply, Goto, KeysInv
<1>2. /\ call[r] \in Calls /\ call[r].op \in {"create", "revoke"} /\ listed[r] = {}
  BY <1>1 DEF RequestInv, StepInv, AnswerInv
<1>3. /\ UNCHANGED <<rebac, row, manages, linked, creators>>
      /\ RowsGrow /\ Issued' = Issued
  BY <1>1 DEF spice, RowsGrow, Issued
<1>4. TypeOK' /\ Only(r)
  BY <1>1 DEF TypeOK, Only, PCs, Answers
<1>5. pc'[r] = "done" /\ answer'[r] = "ok" /\ call'[r] = call[r] /\ org'[r] = org[r] /\ listed'[r] = {}
  BY <1>1, <1>2 DEF TypeOK
<1>6. Revoker(r)' <=> Revoker(r)
  BY <1>1, <1>5 DEF Revoker
<1>7. RequestInv(r)'
  <2>1. EffectInv(r)'
    BY <1>1, <1>3, <1>5, <1>6 DEF RequestInv, EffectInv
  <2>2. StepInv(r)' /\ RightInv(r)' /\ AnswerInv(r)'
    BY <1>2, <1>5 DEF StepInv, RightInv, AnswerInv
  <2> QED
    BY <2>1, <2>2 DEF RequestInv
<1>8. /\ \A q \in Requests : RequestInv(q)'
      /\ \A q \in Requests : q # r => (Revoker(q)' <=> Revoker(q))
      /\ \A e \in audit : LET k == e.key IN
           /\ k \in Issued' /\ e.org = row'[k].org
           /\ e.action = "revoke" => row'[k].revoked /\ NamedBy(e.actor, row'[k].revokedBy)
           /\ e.action = "create" => NamedBy(e.actor, row'[k].createdBy)
  BY <1>1, <1>3, <1>4, <1>7, OthersStep
<1>9. AuditInv'
  <2>1. /\ Entry(r).action = call[r].op /\ NamedBy(Entry(r).actor, call[r].by)
        /\ Entry(r).org = org[r] /\ Entry(r).key = call[r].key
    <3>1. call[r].by \in Callers
      BY <1>2 DEF Calls
    <3>2. call[r].by \in [user : Users \cup {NoOne}, key : Keys \cup {NoOne}] \ {Nobody}
      BY <3>1, ApiKeysAssumption
    <3>3. Entry(r).actor = IF rebac THEN Actor(call[r].by) ELSE call[r].by.key
      BY DEF Entry
    <3>4. rebac => Actor(call[r].by) # NoOne /\ Actor(call[r].by) \in {call[r].by.user, call[r].by.key}
      BY <3>2 DEF Actor, Nobody
    <3> QED
      BY <3>3, <3>4 DEF Entry, NamedBy
  <2>2. LET k == call[r].key IN
          /\ k \in Issued /\ row[k].org = org[r]
          /\ call[r].op = "create" => row[k].createdBy = call[r].by
          /\ call[r].op = "revoke" => row[k].revoked /\ row[k].revokedBy = call[r].by
    BY <1>1, <1>2 DEF RequestInv, EffectInv, Revoker
  <2> QED
    BY <1>1, <1>3, <1>8, <2>1, <2>2 DEF AuditInv, NamedBy
<1>10. OneRevoker'
  BY <1>1, <1>6, <1>8 DEF KeysInv, OneRevoker
<1>11. SpiceInv'
  BY <1>3 DEF KeysInv, SpiceInv, Actor
<1>12. RowInv'
  BY <1>3 DEF KeysInv, RowInv, KeyIssued, MayCreate, MayRevoke, Managed, Entitled, Belongs, Wildcard, Actor
<1> QED
  BY <1>4, <1>8, <1>9, <1>10, <1>11, <1>12 DEF KeysInv

LEMMA WithdrawStep ==
  ASSUME KeysInv, UNCHANGED <<rebac, row, linked, creators, audit, pc, call, org, answer, listed>>,
         manages' \subseteq manages
  PROVE  KeysInv'
<1>1. RowsGrow /\ Issued' = Issued
  BY DEF RowsGrow, Issued
<1>2. \A q \in Requests : RequestInv(q)'
  BY <1>1, OthersKeep DEF KeysInv
<1>3. TypeOK' /\ SpiceInv'
  BY <1>1 DEF KeysInv, TypeOK, SpiceInv, Actor
<1>4. RowInv'
  BY <1>1 DEF KeysInv, RowInv, KeyIssued, MayCreate, MayRevoke, Managed, Entitled, Belongs, Wildcard, Actor
<1>5. AuditInv' /\ OneRevoker'
  BY <1>1 DEF KeysInv, AuditInv, OneRevoker, Revoker, NamedBy
<1> QED
  BY <1>2, <1>3, <1>4, <1>5 DEF KeysInv

LEMMA InvStep == KeysInv /\ [Next]_vars => KeysInv'
<1> SUFFICES ASSUME KeysInv, [Next]_vars PROVE KeysInv'
  OBVIOUS
<1>1. ASSUME NEW r \in Requests, Serve(r) PROVE KeysInv'
  <2>1. CASE Authenticate(r)
    BY <2>1, AuthenticateStep
  <2>2. CASE Resolve(r)
    BY <2>2, ResolveStep
  <2>3. CASE CheckManage(r) \/ CheckKey(r) \/ CheckProject(r)
    BY <2>3, CheckStep
  <2>4. CASE Insert(r)
    BY <2>4, InsertStep
  <2>5. CASE LinkProject(r) \/ LinkCreator(r)
    BY <2>5, LinkStep
  <2>6. CASE Update(r)
    BY <2>6, UpdateStep
  <2>7. CASE Audit(r)
    BY <2>7, AuditStep
  <2>8. CASE List(r)
    BY <2>8, ListStep
  <2> QED
    BY <1>1, <2>1, <2>2, <2>3, <2>4, <2>5, <2>6, <2>7, <2>8 DEF Serve
<1>2. CASE \E m \in manages : Withdraw(m)
  BY <1>2, WithdrawStep DEF Withdraw
<1>3. CASE UNCHANGED vars
  BY <1>3, WithdrawStep DEF vars
<1> QED
  BY <1>1, <1>2, <1>3 DEF Next

LEMMA Invariant == Spec => []KeysInv
<1>1. Init => KeysInv
  BY InvInit
<1>2. KeysInv /\ [Next]_vars => KeysInv'
  BY InvStep
<1> QED
  BY <1>1, <1>2, PTL DEF Spec

-----------------------------------------------------------------------------
(* Every key was created, and every revoked one revoked, by somebody with  *)
(* the right to, whichever organization the request named.                 *)
THEOREM KeysChangeByRight == Spec => []ChangedByRight
<1>1. KeysInv => ChangedByRight
  BY DEF KeysInv, RowInv, MayCreate, MayRevoke, ChangedByRight
<1> QED
  BY <1>1, Invariant, PTL

(* Who manages an organization's keys is never refused one of them.        *)
THEOREM ManagersMayManage == Spec => []ManagerNeverForbidden
<1>1. KeysInv => ManagerNeverForbidden
  BY DEF KeysInv, RequestInv, AnswerInv, ManagerNeverForbidden
<1> QED
  BY <1>1, Invariant, PTL

(* A key is revoked once, and the audit trail names its organization and   *)
(* who made or revoked it.                                                 *)
THEOREM AuditIsTrue == Spec => []AuditedOnce
<1>1. ASSUME KeysInv PROVE AuditedOnce
  <2>1. \A r, q \in Requests :
          (/\ answer[r] = "ok" /\ call[r].op = "revoke"
           /\ answer[q] = "ok" /\ call[q].op = "revoke"
           /\ call[r].key = call[q].key) => r = q
    <3>1. \A r \in Requests : answer[r] = "ok" /\ call[r].op = "revoke" => Revoker(r)
      BY <1>1 DEF KeysInv, RequestInv, StepInv, Revoker
    <3> QED
      BY <1>1, <3>1 DEF KeysInv, OneRevoker
  <2> QED
    BY <1>1, <2>1 DEF KeysInv, AuditInv, AuditedOnce
<1> QED
  BY <1>1, Invariant, PTL

(* A listing shows the keys of one organization, one of its caller's, or   *)
(* any one to the holder of a key with the scope "*".                      *)
THEOREM ListingsStayHome == Spec => []ListingStaysHome
<1>1. KeysInv => ListingStaysHome
  BY DEF KeysInv, RequestInv, AnswerInv, ListingStaysHome
<1> QED
  BY <1>1, Invariant, PTL

=============================================================================
