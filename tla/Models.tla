-------------------------------- MODULE Models --------------------------------
(***************************************************************************)
(* The vocabulary the components share: the enumerations of                *)
(* dbmigrate.models and the tables of the profile being migrated.          *)
(***************************************************************************)

CONSTANTS
    Tables,             \* names of the tables being migrated
    Mode                \* MigrationMode: "sync" or "rollback"

ASSUME ModeAssumption == Mode \in {"sync", "rollback"}

\* MigrationOperation, without NO_ACTION: no batch carries it.
Operations == {"insert", "update", "delete"}

BatchStatus == {"pending", "running", "completed", "failed", "skipped"}

===============================================================================
