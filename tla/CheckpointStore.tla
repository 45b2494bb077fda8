---------------------------- MODULE CheckpointStore ----------------------------
(***************************************************************************)
(* The SQLite checkpoint store of one migration: the batches table.        *)
(*                                                                         *)
(* Every statement autocommits, so a row survives the death of the process *)
(* as the last statement left it.  A batch id contains its table's name    *)
(* ("migration:table:op:index"), so a row's table is fixed by its id and   *)
(* only status and rowid are kept here.  Rowids matter because             *)
(* get_last_completed_batch orders by them.                                *)
(***************************************************************************)
EXTENDS Models, Naturals

CONSTANT BatchIds       \* identifiers of the batches of one migration

VARIABLES
    connected,          \* create_migration has opened the SQLite connection
    rowStatus,          \* status column, or "absent" when there is no row
    rowid,              \* SQLite rowid of each row, 0 when there is none
    lastRowid           \* the largest rowid handed out

storeVars == <<connected, rowStatus, rowid, lastRowid>>

RowStatus == BatchStatus \cup {"absent"}

StoreTypeOK ==
    /\ connected \in BOOLEAN
    /\ rowStatus \in [BatchIds -> RowStatus]
    /\ rowid \in [BatchIds -> Nat]
    /\ lastRowid \in Nat

StoreInit ==
    /\ connected = FALSE
    /\ rowStatus = [b \in BatchIds |-> "absent"]
    /\ rowid = [b \in BatchIds |-> 0]
    /\ lastRowid = 0

\* create_migration: opens the file of this migration, reusing its rows if
\* it exists already.
CreateMigration ==
    /\ connected' = TRUE
    /\ UNCHANGED <<rowStatus, rowid, lastRowid>>

\* save_batch is INSERT OR REPLACE: an old row is deleted and the new one
\* takes the next rowid.
SaveBatch(b, status) ==
    /\ connected
    /\ rowStatus' = [rowStatus EXCEPT ![b] = status]
    /\ rowid' = [rowid EXCEPT ![b] = lastRowid + 1]
    /\ lastRowid' = lastRowid + 1
    /\ UNCHANGED connected

\* The mark_batch_* methods are UPDATEs: no row, no effect; the rowid stays.
UpdateStatus(b, status) ==
    /\ connected
    /\ rowStatus' = [rowStatus EXCEPT
                        ![b] = IF @ = "absent" THEN "absent" ELSE status]
    /\ UNCHANGED <<connected, rowid, lastRowid>>

MarkBatchStarted(b) == UpdateStatus(b, "running")
MarkBatchCompleted(b) == UpdateStatus(b, "completed")

\* Mutant of MarkBatchFailed: the UPDATE matches no row.
ForgetFailure(b) == connected /\ UNCHANGED storeVars

MarkBatchFailed(b) == UpdateStatus(b, "failed")

\* The process died: the connection is gone, the rows stay.
LoseConnection ==
    /\ connected' = FALSE
    /\ UNCHANGED <<rowStatus, rowid, lastRowid>>

-------------------------------------------------------------------------------
Completed == {b \in BatchIds : rowStatus[b] = "completed"}

\* Mutant of IsLastCompleted: any completed batch of the table will do.
AnyCompleted(b, siblings) == b \in siblings /\ siblings \cap Completed # {}

\* b is what get_last_completed_batch returns for a table whose batches are
\* "siblings": the completed row with the largest rowid.
IsLastCompleted(b, siblings) ==
    /\ b \in siblings \cap Completed
    /\ \A c \in siblings \cap Completed : rowid[c] <= rowid[b]

===============================================================================
