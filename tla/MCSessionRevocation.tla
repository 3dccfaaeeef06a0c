------------------------- MODULE MCSessionRevocation -------------------------
(* Instances of SessionRevocation for TLC.  The members of each set are      *)
(* interchangeable.                                                          *)
EXTENDS SessionRevocation, TLC

Symmetry ==
  UNION {Permutations(S) : S \in {Replicas, Sessions, Checks, Logouts, ResetTokens, Confirms}}
=============================================================================
