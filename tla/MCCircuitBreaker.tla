-------------------------- MODULE MCCircuitBreaker --------------------------
(* Instances of CircuitBreaker for TLC.  The goroutines are interchangeable. *)
EXTENDS CircuitBreaker, TLC

Symmetry == Permutations(Calls)
=============================================================================
