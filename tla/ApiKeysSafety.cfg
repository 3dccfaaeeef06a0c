SPECIFICATION Spec
CONSTANTS
  NoOne = NoOne
  u1 = u1
  u2 = u2
  o1 = o1
  o2 = o2
  o3 = o3
  k1 = k1
  k2 = k2
  Requests = {r1, r2}
  Keys = {k1, k2}
  Users <- MCUsers
  Orgs <- MCOrgs
  KnownOrgs <- MCKnownOrgs
  DefaultOrg = o1
  Home <- MCHome
  MemberOf <- MCMemberOf
  Managers <- MCManagers
  Callers <- MCCallers
  Stored <- MCStored
SYMMETRY Symmetry
CHECK_DEADLOCK FALSE
INVARIANTS
  ChangedByRight
  ManagerNeverForbidden
  AuditedOnce
  ListingStaysHome
