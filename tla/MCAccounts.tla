------------------------------ MODULE MCAccounts ------------------------------
(* Instances of Accounts for TLC: requests are interchangeable, and so are    *)
(* the ids the tables hand out to them.                                       *)
EXTENDS Accounts, TLC

Symmetry == Permutations(Requests) \cup Permutations(Users \ {Seed}) \cup Permutations(Orgs)
==============================================================================
