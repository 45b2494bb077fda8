------------------------------ MODULE ColumnCopy ------------------------------
(***************************************************************************)
(* What happens to the columns of one table when it is compared and        *)
(* migrated, run after run: by the orchestrator ("pipeline": detect_delta, *)
(* _migrate_table, row counts) or by DeltaPlanner and BatchExecutor on the *)
(* same delta ("executor").  The two adapters differ in how they find the  *)
(* column a name stands for and under which name they return its value.    *)
(*                                                                         *)
(* Nothing fails here but what the columns make fail, and a run is not     *)
(* interrupted: BatchExecutor, Pipeline and DeltaDetection are about that. *)
(***************************************************************************)
EXTENDS PreValidation

CONSTANTS
    Keys,               \* values of the primary key column
    Absent,             \* the mark of a key that holds no row
    Schemas,            \* [adapters, source, target, multibyte] of the table
    Calls,              \* [way, strategy, identity]: how it is migrated
    Inputs,             \* versions of the rows at the start, see Init
    MaxWrites           \* bound: writes of applications to the source

Sides == {"source", "target"}
KeyColumn == "id"

\* Values of columns other than the key; those of the key are not kept.  A CHAR
\* column pads what is stored in it.
Values == {"null", "empty", "short", "long", "padded"}

\* A row is not the mark of its absence.
ASSUME AbsentAssumption ==
    \A names \in SUBSET Names : Absent \notin [names \ {KeyColumn} -> Values]
ASSUME KeyColumnAssumption == KeyColumn \in Names
ASSUME SchemasAssumption ==
    \A s \in Schemas :
        /\ s.adapters \in [Sides -> {"postgresql", "db2"}]
        /\ s.multibyte \in BOOLEAN
        /\ \A side \in Sides :
            /\ s[side] \in TableMetadata
            /\ KeyColumn \in ColumnsOf(s[side])
            /\ s.adapters[side] = "db2" =>
                \A n \in ColumnsOf(s[side]) : s[side].columns[n].spelling = "lower"
ASSUME CallsAssumption ==
    Calls \subseteq [way : {"pipeline", "executor"}, strategy : {"primary_key", "checksum"},
                     identity : {"none", "always", "by_default"}]
ASSUME InputsAssumption ==
    Inputs \subseteq [Sides -> [Keys -> Values \cup {Absent}]]
ASSUME WritesAssumption == MaxWrites \in Nat

VARIABLES
    schema, call,       \* the table, and how it is migrated; they never change
    rows,               \* rows[side][k]: the value of each column, or Absent
    pc,                 \* "compare", "insert", "update", "count" or "done"
    delta,
    outcome,            \* what became of the last run: where it failed, or "success"
    writes              \* history: how often applications have written

vars == <<schema, call, rows, pc, delta, outcome, writes>>

src == schema.source
tgt == schema.target
Stored(side) == {k \in Keys : rows[side][k] # Absent}
Mappings == BuildColumnMappings(src, tgt)
Copied == Transferable(Mappings)
SourceColumns == {m.source_column : m \in Copied}

NoDelta == [insert |-> {}, update |-> {}, delete |-> {}]

TypeOK ==
    /\ schema \in Schemas
    /\ call \in Calls
    /\ \A side \in Sides : \A k \in Keys :
        rows[side][k] # Absent =>
            rows[side][k] \in [ColumnsOf(schema[side]) \ {KeyColumn} -> Values]
    /\ pc \in {"compare", "insert", "update", "count", "done"}
    /\ delta \in [insert : SUBSET Keys, update : SUBSET Keys, delete : SUBSET Keys]
    /\ outcome \in {"none", "compare", "insert", "update", "count", "success"}
    /\ writes \in 0..MaxWrites

-------------------------------------------------------------------------------
(* Names and values in the databases.                                       *)

\* The statement's name c stands for a column: PostgreSQL names are quoted, DB2
\* names are written in upper case.
Finds(side, c) ==
    /\ c.name \in ColumnsOf(schema[side])
    /\ schema.adapters[side] = "postgresql" => c = Spelled(schema[side], c.name)

\* The key under which a row of the result holds the column asked for as c.
ResultName(side, c) == IF schema.adapters[side] = "db2" THEN Lower(c) ELSE c

\* Rows are compared with the row of the same key: which it is, is left out.
ValueAt(side, k, n) == IF n = KeyColumn THEN "key" ELSE rows[side][k][n]

\* The row with key k as a result: dict(zip(names, row)).
ResultRow(side, k, columns) ==
    [c \in {ResultName(side, d) : d \in columns} |-> ValueAt(side, k, c.name)]

\* row.get(c)
Get(row, c) == IF c \in DOMAIN row THEN row[c] ELSE "null"

\* What a column gives back of a value stored in it.
Kept(v, column) ==
    IF column.data_type = "character" /\ v \in {"empty", "short"} THEN "padded" ELSE v

\* A column refuses values that are too long for it.
Fits(v, column) == v = "long" => column.max_length > 1

-------------------------------------------------------------------------------
(* COMPARE.                                                                 *)

\* _resolve_pk_columns: the primary key in lower case.
PkColumn == [name |-> KeyColumn, spelling |-> "lower"]

\* The columns given to detect_delta: all those of the source.
Compared == {Spelled(src, n) : n \in ColumnsOf(src)}

\* A side can be asked for its rows, and they hold the key under its name.
ReadsRows(side) ==
    /\ \A c \in Compared : Finds(side, c)
    /\ PkColumn \in {ResultName(side, c) : c \in Compared}

\* PRIMARY_KEY asks for rows only of the keys both sides have.
CompareRaises ==
    \/ \E side \in Sides : ~Finds(side, PkColumn)
    \/ \E side \in Sides : ~ReadsRows(side) /\
            \/ call.strategy = "checksum"
            \/ Stored("source") \cap Stored("target") # {}

\* _hash_row takes NULL for the empty string.
Seen(v) == IF call.strategy = "checksum" /\ v = "null" THEN "empty" ELSE v

\* Mutant of RowsDiffer: a NULL on either side is passed over.
NullIsPassedOver(k) ==
    \E c \in Compared :
        LET s == Get(ResultRow("source", k, Compared), c)
            t == Get(ResultRow("target", k, Compared), c)
        IN  "null" \notin {s, t} /\ Seen(s) # Seen(t)

RowsDiffer(k) ==
    \E c \in Compared :
        Seen(Get(ResultRow("source", k, Compared), c))
            # Seen(Get(ResultRow("target", k, Compared), c))

Delta ==
    [insert |-> Stored("source") \ Stored("target"),
     update |-> {k \in Stored("source") \cap Stored("target") : RowsDiffer(k)},
     delete |-> Stored("target") \ Stored("source")]

Ends(result) ==
    /\ outcome' = result
    /\ pc' = "done"

\* The table is compared; deletes are not planned.
Compare ==
    /\ pc = "compare"
    /\ ~CompareRaises
    /\ delta' = [Delta EXCEPT !.delete = {}]
    /\ pc' = "insert"
    /\ UNCHANGED <<schema, call, rows, outcome, writes>>

CompareFails ==
    /\ pc = "compare"
    /\ CompareRaises
    /\ Ends("compare")
    /\ UNCHANGED <<schema, call, rows, delta, writes>>

-------------------------------------------------------------------------------
(* MIGRATE, and the batches of the executor.                                *)

\* The plan's key columns; the planner sets none, and _get_pk_columns takes the
\* first mapping, whatever column that is.
PlanKey ==
    IF call.way = "pipeline" THEN PkColumn ELSE FirstMapping(src, tgt).source_column

\* The name under which a copied column is written: the executor uses the name
\* the source has for it.
WrittenAs(m) == IF call.way = "pipeline" THEN m.target_column ELSE m.source_column

\* Rows of the source whose column c is one of the keys.  No other column holds
\* keys.
Matching(c, keys) == IF c.name = KeyColumn THEN keys \cap Stored("source") ELSE {}

\* PostgreSQL does not compare a column of characters with integers.
Comparable(side, c) == schema.adapters[side] = "postgresql" => c.name = KeyColumn

\* Mutant of Written: a column whose type differs is not written.
WrittenUncast(k, old, but) ==
    [n \in ColumnsOf(tgt) \ {KeyColumn} |->
        IF \E m \in Copied : m.target_column.name = n /\ ~m.requires_cast
        THEN Kept(rows["source"][k][n], tgt.columns[n])
        ELSE old[n]]

\* The row a statement writes over "old" for the copied columns other than
\* "but": columns that are not copied keep what they hold.
Written(k, old, but) ==
    [n \in ColumnsOf(tgt) \ {KeyColumn} |->
        IF \E m \in Copied :
                m.target_column.name = n /\ Lower(m.source_column) # Lower(but)
        THEN Kept(rows["source"][k][n], tgt.columns[n])
        ELSE old[n]]

Defaults == [n \in ColumnsOf(tgt) \ {KeyColumn} |-> "null"]

\* Every value fits that is written for key k.
RowFits(k) ==
    \A n \in Common(src, tgt) \ {KeyColumn} : Fits(rows["source"][k][n], tgt.columns[n])

\* A statement finds its columns on the side it goes to.
StatementStands(side, columns) == \A c \in columns : Finds(side, c)

\* The source answers the query for the rows of the plan.
SourceAnswers ==
    /\ StatementStands("source", SourceColumns \cup {PlanKey})
    /\ Comparable("source", PlanKey)

\* IdentityStrategy of the plan: the orchestrator's plans have none.
PlanIdentity == IF call.way = "pipeline" THEN "none" ELSE call.identity

\* The MigrationTablePlan: _stage_plan leaves source_only_columns empty.
Plan ==
    [identity_strategy |-> PlanIdentity,
     column_mappings |-> Mappings,
     source_only_columns |->
        IF call.way = "pipeline" THEN {} ELSE ColumnsOf(src) \ ColumnsOf(tgt)]

IdentityRefuses == tgt.identity = "always" /\ PlanIdentity # "always"

InsertRows == Matching(PlanKey, delta.insert)

\* The target takes the statement, if not every row.
InsertAccepted ==
    /\ StatementStands("target", {WrittenAs(m) : m \in Copied})
    /\ ~IdentityRefuses

\* Nothing is sent to the target if the source returns no row.
InsertStands ==
    /\ SourceAnswers
    /\ InsertRows # {} => InsertAccepted /\ \A k \in InsertRows : RowFits(k)

Insert ==
    /\ pc = "insert"
    /\ delta.insert # {} => InsertStands
    /\ rows' = [rows EXCEPT !["target"] =
            [k \in Keys |-> IF k \in InsertRows THEN Written(k, Defaults, PkColumn) ELSE @[k]]]
    /\ pc' = "update"
    /\ UNCHANGED <<schema, call, delta, outcome, writes>>

\* PostgreSQL writes a page as a whole; DB2 row by row.
InsertFails ==
    /\ pc = "insert"
    /\ delta.insert # {}
    /\ ~InsertStands
    /\ \E done \in SUBSET {k \in InsertRows : RowFits(k)} :
        /\ done # {} =>
            schema.adapters["target"] = "db2" /\ SourceAnswers /\ InsertAccepted
        /\ rows' = [rows EXCEPT !["target"] =
                [k \in Keys |-> IF k \in done THEN Written(k, Defaults, PkColumn) ELSE @[k]]]
    /\ Ends("insert")
    /\ UNCHANGED <<schema, call, delta, writes>>

UpdateRows == Matching(PlanKey, delta.update)

\* The columns set by an update: those copied, without the key.
UpdateColumns ==
    {WrittenAs(m) : m \in {m \in Copied : Lower(m.source_column) # Lower(PlanKey)}}

UpdateAccepted ==
    /\ UpdateColumns # {}
    /\ StatementStands("target", UpdateColumns \cup {PlanKey})

UpdateStands ==
    /\ SourceAnswers
    /\ UpdateRows # {} => UpdateAccepted /\ \A k \in UpdateRows : RowFits(k)

\* Mutant of Update: the row is written as an insert would, defaults included.
Replace ==
    /\ pc = "update"
    /\ delta.update # {} => UpdateStands
    /\ rows' = [rows EXCEPT !["target"] =
            [k \in Keys |-> IF k \in UpdateRows THEN Written(k, Defaults, PlanKey) ELSE @[k]]]
    /\ pc' = "count"
    /\ UNCHANGED <<schema, call, delta, outcome, writes>>

Update ==
    /\ pc = "update"
    /\ delta.update # {} => UpdateStands
    /\ rows' = [rows EXCEPT !["target"] =
            [k \in Keys |-> IF k \in UpdateRows THEN Written(k, @[k], PlanKey) ELSE @[k]]]
    /\ pc' = "count"
    /\ UNCHANGED <<schema, call, delta, outcome, writes>>

UpdateFails ==
    /\ pc = "update"
    /\ delta.update # {}
    /\ ~UpdateStands
    /\ \E done \in SUBSET {k \in UpdateRows : RowFits(k)} :
        /\ done # {} =>
            schema.adapters["target"] = "db2" /\ SourceAnswers /\ UpdateAccepted
        /\ rows' = [rows EXCEPT !["target"] =
                [k \in Keys |-> IF k \in done THEN Written(k, @[k], PlanKey) ELSE @[k]]]
    /\ Ends("update")
    /\ UNCHANGED <<schema, call, delta, writes>>

\* The orchestrator compares the row counts of a table it had to do something
\* for; execute has nothing more to do.
Count ==
    /\ pc = "count"
    /\ IF /\ call.way = "pipeline"
          /\ delta # NoDelta
          /\ Cardinality(Stored("source")) # Cardinality(Stored("target"))
       THEN Ends("count") ELSE Ends("success")
    /\ UNCHANGED <<schema, call, rows, delta, writes>>

-------------------------------------------------------------------------------
\* Contents of a table: Inputs gives, for each key, the value of all its columns
\* on a side, or Absent.
Content(side, input) ==
    [k \in Keys |->
        IF input[side][k] = Absent THEN Absent
        ELSE [n \in ColumnsOf(schema[side]) \ {KeyColumn} |->
                Kept(input[side][k], schema[side].columns[n])]]

Init ==
    /\ schema \in Schemas
    /\ call \in Calls
    /\ \E input \in Inputs : rows = [side \in Sides |-> Content(side, input)]
    /\ \A side \in Sides : \A k \in Stored(side) : \A n \in DOMAIN rows[side][k] :
            Fits(rows[side][k][n], schema[side].columns[n])
    /\ pc = "compare"
    /\ delta = NoDelta
    /\ outcome = "none"
    /\ writes = 0

\* Between runs an application writes a column of a row of the source.
AppWrites(k, n, v) ==
    /\ pc = "done"
    /\ writes < MaxWrites
    /\ writes' = writes + 1
    /\ k \in Stored("source")
    /\ Fits(v, src.columns[n])
    /\ rows' = [rows EXCEPT !["source"][k][n] = Kept(v, src.columns[n])]
    /\ rows' # rows
    /\ outcome' = "none"
    /\ UNCHANGED <<schema, call, pc, delta>>

\* The next run of the same profile.
RunAgain ==
    /\ pc = "done"
    /\ pc' = "compare"
    /\ UNCHANGED <<schema, call, rows, delta, outcome, writes>>

Next ==
    \/ Compare \/ CompareFails
    \/ Insert \/ InsertFails \/ Update \/ UpdateFails
    \/ Count
    \/ RunAgain
    \/ \E k \in Keys, n \in ColumnsOf(src) \ {KeyColumn}, v \in Values \ {"padded"} :
            AppWrites(k, n, v)

Spec == Init /\ [][Next]_vars

-------------------------------------------------------------------------------
\* The executor's key is the key: its name comes first in the alphabet.
KeyIsFirst == call.way = "pipeline" \/ PlanKey.name = KeyColumn

SpelledAlike ==
    /\ \A n \in Common(src, tgt) : Spelled(src, n) = Spelled(tgt, n)
    /\ Spelled(src, KeyColumn) = PkColumn

\* DB2Adapter gives column n of the target another name than it was asked for.
Renamed(n) == ResultName("target", Spelled(src, n)) # Spelled(src, n)

\* The comparison takes w in the target's column n for the source's v: every
\* value of a renamed column is missing, which it takes for NULL.
TakenFor(v, n, w) ==
    \/ w = Kept(v, tgt.columns[n])
    \/ Seen(v) = Seen(w)
    \/ Renamed(n) /\ Seen(v) = Seen("null")

\* A run that ends well has brought every row of the source and every column
\* both sides have, whatever they are called and of whatever type, but for what
\* the comparison cannot tell apart: NULL and the empty string by checksum, and
\* NULL and anything in a column with capitals that DB2Adapter reads.  A run
\* that fails for the row counts has done so as well: the rows too many are the
\* target's own.
ColumnsAreCopied ==
    pc = "done" /\ outcome \in {"success", "count"} /\ KeyIsFirst =>
        \A k \in Stored("source") :
            /\ k \in Stored("target")
            /\ \A n \in Common(src, tgt) \ {KeyColumn} :
                    TakenFor(rows["source"][k][n], n, rows["target"][k][n])

\* No step takes a row from the target, or changes a column of it that the
\* source does not have: an update sets only columns that are mapped.
TargetOnlyColumnsAreKept ==
    [][\A k \in Stored("target") :
        /\ rows'["target"][k] # Absent
        /\ \A n \in ColumnsOf(tgt) \ ColumnsOf(src) :
                rows'["target"][k][n] = rows["target"][k][n]]_vars

\* Once a run has ended well the next one finds nothing to do, if the columns
\* have the same names on both sides and no column of the target alone pads its
\* values: otherwise a table is updated again by every run.
RunsSettle ==
    /\ pc = "done" /\ outcome = "success" /\ KeyIsFirst
    /\ SpelledAlike /\ ColumnsOf(src) \subseteq ColumnsOf(tgt)
    /\ \A n \in Common(src, tgt) :
            tgt.columns[n].data_type = "character" => ~TypesDiffer(src, tgt, n)
    => ~CompareRaises /\ Delta.insert = {} /\ Delta.update = {}

\* What pre_validate would have said of the plan.
Findings == PreFindings(Plan, src, tgt, schema.multibyte)

\* What pre_validate does not look at: how names are spelled, the column taken
\* for the key, who generates the key, columns that only the source has if the
\* plan does not list them, and lengths but of a "varchar" in a
\* multi-byte encoding.
NotLookedAt ==
    \/ ~SpelledAlike
    \/ ~KeyIsFirst
    \/ IdentityRefuses
    \/ call.way = "pipeline" /\ ColumnsOf(src) \ ColumnsOf(tgt) # {}
    \/ \E n \in Common(src, tgt) \ {KeyColumn} :
        /\ src.columns[n].max_length > tgt.columns[n].max_length
        /\ ~schema.multibyte \/ src.columns[n].data_type \notin Varchars

\* A run whose columns make it fail, in whatever stage, was announced by a check
\* of pre_validate, or failed for what none of its checks looks at.
FailuresAreAnnounced ==
    pc = "done" /\ outcome \in {"compare", "insert", "update"} =>
        Findings # {} \/ NotLookedAt

===============================================================================
