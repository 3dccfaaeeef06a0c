--------------------------- MODULE MCUsageMetering ---------------------------
(* Instances of UsageMetering for TLC.  Extractions are interchangeable, and *)
(* so are reads, and the requests to other replicas.                         *)
EXTENDS UsageMetering, TLC

Symmetry == Permutations(Extractions) \cup Permutations(Reads) \cup Permutations(Remote)
=============================================================================
