----------------------------- MODULE MCJwksCache -----------------------------
(* Instances of JwksCache for TLC.  Goroutines and keys are                *)
(* interchangeable.                                                        *)
EXTENDS JwksCache, TLC

Symmetry == Permutations(Calls) \cup Permutations(Kids)
=============================================================================
