SPECIFICATION AccountsSpec
CONSTANTS
  NoOne = NoOne
  Requests = {r1, r2, r3}
  Users = {u0, u1, u2}
  Emails = {e0, e1}
  Orgs = {o1, o2}
  Plans = {free, pro}
  Free = free
  Unknown = nosuch
  Seed = u0
  SeedEmail = e0
SYMMETRY Symmetry
CHECK_DEADLOCK FALSE
INVARIANTS
  MailboxProven
  AttributedToOwn
  LateLoginOnly
  AuditedPlanTrue
