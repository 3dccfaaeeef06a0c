------------------------------ MODULE MCApiKeys ------------------------------
(* Instances of ApiKeys for TLC: one account in one organization, one whose  *)
(* default is another but which is a member of both, and an organization id  *)
(* that names nothing; one wildcard key was issued before.                   *)
EXTENDS ApiKeys, TLC

CONSTANTS u1, u2, o1, o2, o3, k1, k2

MCUsers     == {u1, u2}
MCOrgs      == {o1, o2, o3}
MCKnownOrgs == {o1, o2}
MCHome      == (u1 :> o1) @@ (u2 :> o2)
MCMemberOf  == (u1 :> {o1}) @@ (u2 :> {o1, o2})
MCManagers  == {<<u1, o1>>, <<u2, o2>>}
Session(u)  == [user |-> u, key |-> NoOne]
MCCallers   == {Session(u1), Session(u2), [user |-> u2, key |-> k1], [user |-> NoOne, key |-> k2]}
MCStored    == {<<k1, o1, u1, TRUE>>}

Symmetry == Permutations(Requests)
=============================================================================
