--------------------------- MODULE SchemaComparator ---------------------------
(***************************************************************************)
(* SchemaComparator for one table both databases have: the differences of  *)
(* its columns and the column mappings of the plans.                       *)
(*                                                                         *)
(* A column name is its lower-case letters and how the catalogue spells    *)
(* it: DB2Adapter reports every name in lower case, PostgreSQLAdapter as   *)
(* the table was created.  No table has two names that differ in case only.*)
(***************************************************************************)
EXTENDS Integers, SequencesExt

CONSTANTS
    Alphabet,           \* the column names, in lower case and sorted
    DataTypes,          \* ColumnMetadata.data_type
    Lengths             \* ColumnMetadata.max_length

ASSUME AlphabetAssumption == Alphabet \in Seq(STRING)
ASSUME LengthsAssumption == Lengths \subseteq Nat

Names == Range(Alphabet)
Spellings == {"lower", "mixed"}

\* ColumnMetadata and TableMetadata.
ColumnMetadata == [spelling : Spellings, data_type : DataTypes, max_length : Lengths]
TableMetadata ==
    [columns : UNION {[some -> ColumnMetadata] : some \in SUBSET Names},
     identity : {"none", "always", "by_default"}]

ColumnsOf(table) == DOMAIN table.columns

\* A name as it is written in a statement.
Spelled(table, n) == [name |-> n, spelling |-> table.columns[n].spelling]

\* c.lower()
Lower(c) == [c EXCEPT !.spelling = "lower"]

Common(src, tgt) == ColumnsOf(src) \cap ColumnsOf(tgt)

TypesDiffer(src, tgt, n) == src.columns[n].data_type # tgt.columns[n].data_type

\* column_diffs: lengths and spellings are not compared.
ColumnDiffs(src, tgt) ==
    {[column_name |-> n, difference_type |-> "source_only"] :
        n \in ColumnsOf(src) \ ColumnsOf(tgt)}
    \cup {[column_name |-> n, difference_type |-> "target_only"] :
        n \in ColumnsOf(tgt) \ ColumnsOf(src)}
    \cup {[column_name |-> n, difference_type |-> "type_mismatch"] :
        n \in {n \in Common(src, tgt) : TypesDiffer(src, tgt, n)}}

IdentityDiffers(src, tgt) == src.identity # tgt.identity

\* has_differences.  The tables' lists of sequences, which are compared too,
\* are never filled.
HasDifferences(src, tgt) == ColumnDiffs(src, tgt) # {} \/ IdentityDiffers(src, tgt)

\* A column that one side lacks is given the name it has on the other.
Mapping(src, tgt, n) ==
    LET inSource == n \in ColumnsOf(src)
        inTarget == n \in ColumnsOf(tgt)
    IN  [source_column |-> Spelled(IF inSource THEN src ELSE tgt, n),
         target_column |-> Spelled(IF inTarget THEN tgt ELSE src, n),
         requires_cast |-> inSource /\ inTarget /\ TypesDiffer(src, tgt, n),
         source_only |-> ~inTarget,
         target_only |-> ~inSource]

\* One mapping for each column of either side.
BuildColumnMappings(src, tgt) ==
    {Mapping(src, tgt, n) : n \in ColumnsOf(src) \cup ColumnsOf(tgt)}

\* The list of mappings is in the order of the names; this one comes first.
FirstMapping(src, tgt) ==
    LET has(i) == Alphabet[i] \in ColumnsOf(src) \cup ColumnsOf(tgt)
    IN  Mapping(src, tgt, Alphabet[CHOOSE i \in DOMAIN Alphabet :
                                    has(i) /\ \A j \in 1 .. i - 1 : ~has(j)])

\* The columns that are copied: "m.source_only" and "m.target_only" are not.
Transferable(mappings) == {m \in mappings : ~m.source_only /\ ~m.target_only}

===============================================================================
