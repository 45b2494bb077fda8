---------------------------- MODULE TargetDatabase ----------------------------
(***************************************************************************)
(* The target side of a Database adapter: what is committed, what the      *)
(* session sees, and when the adapter commits on its own.                  *)
(*                                                                         *)
(*   postgresql  connects in autocommit mode; begin_transaction leaves it  *)
(*               and neither commit nor rollback_transaction returns to it.*)
(*   db2         connects with autocommit off; begin_transaction is a      *)
(*               no-op; to insert into a GENERATED ALWAYS identity column  *)
(*               insert_batch alters the column to BY DEFAULT, inserts,    *)
(*               and alters it back in a finally block, and each ALTER     *)
(*               ends with a commit.                                       *)
(***************************************************************************)
EXTENDS RowEffects

CONSTANTS
    Adapter,            \* "postgresql" or "db2"
    AlwaysTables        \* tables planned with IdentityStrategy.ALWAYS

ASSUME AdapterAssumption == Adapter \in {"postgresql", "db2"}
ASSUME AlwaysTablesAssumption == AlwaysTables \subseteq Tables

VARIABLES
    committed,          \* the durable contents
    session,            \* the contents as the adapter's connection sees them
    autocommit,
    identity            \* generation mode of each table's identity column

targetVars == <<committed, session, autocommit, identity>>

TargetTypeOK ==
    /\ committed \in Contents
    /\ session \in Contents
    /\ autocommit \in BOOLEAN
    /\ identity \in [AlwaysTables -> {"always", "by_default"}]

\* A freshly connected adapter on a database with the given contents.
TargetInit(db) ==
    /\ committed = db
    /\ session = db
    /\ autocommit = (Adapter = "postgresql")
    /\ identity = [t \in AlwaysTables |-> "always"]

\* The old connection is gone with whatever it had not committed, and a new
\* process connects.
Reconnect ==
    /\ session' = committed
    /\ autocommit' = (Adapter = "postgresql")
    /\ UNCHANGED <<committed, identity>>

BeginTransaction ==
    /\ autocommit' = IF Adapter = "postgresql" THEN FALSE ELSE autocommit
    /\ UNCHANGED <<committed, session, identity>>

\* Statements that leave the session at db.
RunStatements(db) ==
    /\ session' = db
    /\ committed' = IF autocommit THEN db ELSE committed
    /\ UNCHANGED <<autocommit, identity>>

\* Mutant of CommitWork and RollbackWork: the call never reaches the server.
NoEffect == UNCHANGED targetVars

CommitWork ==
    /\ committed' = session
    /\ UNCHANGED <<session, autocommit, identity>>

RollbackWork ==
    /\ session' = committed
    /\ UNCHANGED <<committed, autocommit, identity>>

\* _set_identity_generated: ALTER TABLE followed by commit.
SetIdentityGenerated(t, mode) ==
    /\ identity' = [identity EXCEPT ![t] = mode]
    /\ committed' = session
    /\ UNCHANGED <<session, autocommit>>

\* insert_batch of this batch wraps the rows in two ALTER TABLEs.
NeedsOverride(b, src) ==
    /\ Adapter = "db2"
    /\ b.op = "insert"
    /\ b.table \in AlwaysTables
    /\ FetchedRows(b, src) # {}

===============================================================================
