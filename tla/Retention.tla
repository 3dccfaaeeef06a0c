------------------------------ MODULE Retention ------------------------------
(***************************************************************************)
(* The retention sweeps of the background cleaners (cmd/server/cleaner.go, *)
(* store/retention.go).  Every hour the cleaner of each replica goes       *)
(* through three tables and deletes from each at most one batch of the     *)
(* rows that were past their retention when its sweep began.               *)
(*                                                                         *)
(* A row is "none" (not written yet), "fresh", "due" (past its retention)  *)
(* or "gone": an id is not used again.                                     *)
(***************************************************************************)
EXTENDS Naturals, FiniteSets

CONSTANTS OcrRows, UsageRows, AuditRows,  \* the ids of the rows of each table
          Cleaners,                       \* the replicas
          Batch                           \* batchSize: 5000 in the code

VARIABLES rows,   \* [Rows -> {"none", "fresh", "due", "gone"}]
          sweep   \* for each cleaner, the sweep it is at or its last one

Tables == <<OcrRows, UsageRows, AuditRows>>
Rows   == OcrRows \cup UsageRows \cup AuditRows

\* at: the table (0: at rest); old: the rows past the sweep's cutoff; chosen:
\* the ids its statement has selected, once it has; left: whether it met an
\* error or a table that filled its batch; raced: whether another cleaner
\* deleted a row that it had selected.
Sweep == [at : 0 .. 3, old : SUBSET Rows, selected : BOOLEAN, chosen : SUBSET Rows,
          left : BOOLEAN, raced : BOOLEAN]

\* A sweep that has selected nothing from the table it is at.
SweepAt(table, old, left, raced) ==
  [at |-> table, old |-> old, selected |-> FALSE, chosen |-> {}, left |-> left, raced |-> raced]

ASSUME RetentionAssumption ==
  /\ Batch \in Nat \ {0}
  /\ IsFiniteSet(Rows)
  /\ OcrRows \cap (UsageRows \cup AuditRows) = {} /\ UsageRows \cap AuditRows = {}

RetentionInit ==
  /\ rows = [r \in Rows |-> "none"]
  /\ sweep = [p \in Cleaners |-> SweepAt(0, {}, FALSE, FALSE)]

\* A usage record or an audit entry is written by the rest of the system.
Write(r) ==
  /\ r \in UsageRows \cup AuditRows /\ rows[r] = "none"
  /\ rows' = [rows EXCEPT ![r] = "fresh"]
  /\ UNCHANGED sweep

\* Time goes by: any of the rows are past their retention now, for the sweeps
\* that begin from here on.
TimePasses ==
  /\ \E late \in SUBSET {r \in Rows : rows[r] = "fresh"} :
       late # {} /\ rows' = [r \in Rows |-> IF r \in late THEN "due" ELSE rows[r]]
  /\ UNCHANGED sweep

\* retentionTicker; now, and so each cutoff, is read once.
StartSweep(p) ==
  /\ sweep[p].at = 0
  /\ sweep' = [sweep EXCEPT ![p] = SweepAt(1, {r \in Rows : rows[r] = "due"}, FALSE, FALSE)]
  /\ UNCHANGED rows

\* SELECT id ... LIMIT batch, on what the statement sees when it begins.
Overdue(p) == {r \in Tables[sweep[p].at] \cap sweep[p].old : rows[r] = "due"}

Batches(p) ==
  LET count == IF Cardinality(Overdue(p)) < Batch THEN Cardinality(Overdue(p)) ELSE Batch
  IN {ids \in SUBSET Overdue(p) : Cardinality(ids) = count}

Select(p) ==
  /\ sweep[p].at # 0 /\ ~sweep[p].selected
  /\ \E ids \in Batches(p) : sweep' = [sweep EXCEPT ![p].selected = TRUE, ![p].chosen = ids]
  /\ UNCHANGED rows

\* DELETE ... WHERE id IN the selected ones: it waits for another cleaner's
\* DELETE of the same row, and skips the row when that has committed.
Deletes(p) == {r \in sweep[p].chosen : rows[r] = "due"}

Delete(gone) == rows' = [r \in Rows |-> IF r \in gone THEN "gone" ELSE rows[r]]

\* p goes on with `next', the others lose what it has deleted.
Continue(p, next, gone) ==
  sweep' = [q \in Cleaners |->
              IF q = p THEN next
              ELSE [sweep[q] EXCEPT !.raced = @ \/ sweep[q].chosen \cap gone # {}]]

\* Mutant: a table with nothing to delete ends the sweep.
MutantNextTable(at, gone) == IF at = 3 \/ gone = {} THEN 0 ELSE at + 1

NextTable(at, gone) == IF at = 3 THEN 0 ELSE at + 1

Purge(p) ==
  /\ sweep[p].selected
  /\ Delete(Deletes(p))
  /\ LET full == Cardinality(Deletes(p)) = Batch IN
     Continue(p, SweepAt(NextTable(sweep[p].at, Deletes(p)), sweep[p].old, sweep[p].left \/ full, sweep[p].raced),
              Deletes(p))

\* The first error (the timeout of 30 seconds among them) ends the sweep; the
\* statement may have been committed.
PurgeFails(p) ==
  /\ sweep[p].at # 0
  /\ \E gone \in {{}, Deletes(p)} :
       /\ Delete(gone)
       /\ Continue(p, SweepAt(0, {}, TRUE, FALSE), gone)

RetentionNext ==
  \/ \E r \in UsageRows \cup AuditRows : Write(r)
  \/ TimePasses
  \/ \E p \in Cleaners : StartSweep(p) \/ Select(p) \/ Purge(p) \/ PurgeFails(p)

(* A sweep that met no error, filled no batch and lost none of the rows it    *)
(* had selected to the sweep of another replica leaves no row of any table    *)
(* that was past its retention when it began, the last table like the first.  *)
CleanSweepLeavesNothing ==
  [][\A p \in Cleaners :
       (sweep[p].at # 0 /\ sweep'[p].at = 0 /\ ~sweep'[p].left /\ ~sweep'[p].raced)
         => \A r \in sweep[p].old : rows'[r] = "gone"]_<<rows, sweep>>
==============================================================================
