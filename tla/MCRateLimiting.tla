---------------------------- MODULE MCRateLimiting ----------------------------
(* Instances of RateLimiting for TLC.  Calls and replicas are              *)
(* interchangeable.                                                        *)
EXTENDS RateLimiting, TLC

Symmetry == Permutations(Calls) \cup Permutations(Replicas)
=============================================================================
