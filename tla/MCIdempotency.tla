---------------------------- MODULE MCIdempotency ----------------------------
(* Instances of Idempotency for TLC.  Liveness rules out symmetry sets; the   *)
(* payloads are interchangeable all the same, so that one request's is given. *)
EXTENDS Idempotency

MCInit == Init /\ body[CHOOSE r \in Requests : TRUE] = CHOOSE b \in Bodies : TRUE

MCSpec == MCInit /\ [][Next]_vars /\ Fairness
==============================================================================
