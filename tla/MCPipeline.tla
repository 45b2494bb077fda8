------------------------------ MODULE MCPipeline ------------------------------
(***************************************************************************)
(* Small instances of Pipeline over two tables, items and orders; item k   *)
(* belongs to order k.                                                     *)
(***************************************************************************)
EXTENDS Pipeline

MCTables == {"items", "orders"}
MCCommonTables == <<"items", "orders">>
MCLevel == [t \in MCTables |-> IF t = "items" THEN 1 ELSE 0]
MCRefs == [r \in MCTables \X Keys |->
            IF r[1] = "items" THEN {<<"orders", r[2]>>} ELSE {}]

\* Contents over some versions whose foreign keys hold.
Sound(versionsOfRows) ==
    {db \in [Rows -> versionsOfRows \cup {Absent}] :
        \A r \in Present(db) : Refs[r] \subseteq Present(db)}

\* The source is up to date, the target may lag behind.
SoundInputs == [source : Sound({"new"}), target : Sound({"old", "new"})]

\* Every row the target has is out of date.
OutdatedInputs == [source : Sound({"new"}), target : Sound({"old"})]

Given(dry_run, confirm, confirm_deletes) ==
    [dry_run |-> dry_run, confirm |-> confirm, confirm_deletes |-> confirm_deletes,
     delete_allowed |-> {"items"}]

FullFlags == {Given(FALSE, TRUE, TRUE)}

\* A profile that allows all deletes.
AllDeletes == {[o EXCEPT !.delete_allowed = MCTables] : o \in FullFlags}

\* Each flag is missing once, and one profile allows all deletes.
MixedFlags == FullFlags \cup
    {Given(TRUE, TRUE, TRUE), Given(FALSE, FALSE, TRUE), Given(FALSE, TRUE, FALSE)} \cup
    AllDeletes

===============================================================================
