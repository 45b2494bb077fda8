-------------------------- MODULE MCPlannedMigration --------------------------
(***************************************************************************)
(* Small instances of PlannedMigration over two tables, items and orders;  *)
(* item k belongs to order k.                                              *)
(***************************************************************************)
EXTENDS PlannedMigration, TLC

MCTables == {"items", "orders"}
MCCommonTables == <<"items", "orders">>
MCLevel == [t \in MCTables |-> IF t = "items" THEN 1 ELSE 0]
MCRefs == [r \in MCTables \X Keys |->
            IF r[1] = "items" THEN {<<"orders", r[2]>>} ELSE {}]

\* Inputs whose batches reach over no row they were not planned for.
GapFreeInputs == {i \in PlannedInputs : RangesHaveNoGaps(i)}

\* Parents are on lower levels than their children.
ASSUME LevelsAssumption == \A r \in Rows : \A p \in Refs[r] : Level[p[1]] < Level[r[1]]

===============================================================================
