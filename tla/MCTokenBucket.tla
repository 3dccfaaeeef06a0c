---------------------------- MODULE MCTokenBucket ----------------------------
(* Instances of TokenBucket for TLC.  Calls and addresses are             *)
(* interchangeable.                                                        *)
EXTENDS TokenBucket, TLC

Symmetry == Permutations(Callers) \cup Permutations(Buckets)
=============================================================================
