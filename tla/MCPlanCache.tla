----------------------------- MODULE MCPlanCache -----------------------------
(* Instances of PlanCache for TLC.  Calls are interchangeable.               *)
EXTENDS PlanCache, TLC

Symmetry == Permutations(Calls)
=============================================================================
