----------------------------- MODULE UsageLedger -----------------------------
(***************************************************************************)
(* What usage metering promises to whoever reads the bill, without saying  *)
(* how records travel: the record of an answered request is pending until  *)
(* it is written, dropped or lost, which is final; a process that dies     *)
(* loses the pending ones, and there are never more than AtRisk of those.  *)
(***************************************************************************)
EXTENDS Naturals, FiniteSets

CONSTANTS
  Requests,
  AtRisk    \* how many records a process may hold that are not written

VARIABLE
  fate      \* what became of each request's record

Pending == {r \in Requests : fate[r] = "pending"}

LedgerInit == fate = [r \in Requests |-> "none"]

\* The request is answered.
Enter(r) ==
  /\ fate[r] = "none"
  /\ Cardinality(Pending) < AtRisk
  /\ fate' = [fate EXCEPT ![r] = "pending"]

Settle(r) ==
  /\ fate[r] = "pending"
  /\ \E end \in {"written", "dropped", "lost"} : fate' = [fate EXCEPT ![r] = end]

\* The process dies.
LoseAll == fate' = [r \in Requests |-> IF fate[r] = "pending" THEN "lost" ELSE fate[r]]

LedgerNext ==
  \/ \E r \in Requests : Enter(r) \/ Settle(r)
  \/ LoseAll

LedgerSpec == LedgerInit /\ [][LedgerNext]_fate
=============================================================================
