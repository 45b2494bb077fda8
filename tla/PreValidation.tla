----------------------------- MODULE PreValidation -----------------------------
(***************************************************************************)
(* MigrationValidator.pre_validate for one table of the plan that both     *)
(* databases have.                                                         *)
(***************************************************************************)
EXTENDS SchemaComparator

CONSTANTS
    Lobs,               \* _LOB_TYPES
    Varchars            \* the data types with "varchar" in their names

\* _check_identity_compatibility: "none", or the target has an identity column.
IdentityIncompatible(strategy, tgt) == strategy # "none" /\ tgt.identity = "none"

\* Mutant of VarcharTooShort: the lengths are compared the wrong way round.
VarcharTooLong(m, src, tgt, multibyte) ==
    LET s == src.columns[m.source_column.name]
        t == tgt.columns[m.target_column.name]
    IN  /\ multibyte
        /\ s.data_type \in Varchars \/ t.data_type \in Varchars
        /\ s.max_length < t.max_length

\* _check_varchar_lengths looks only where the source's encoding is multi-byte.
VarcharTooShort(m, src, tgt, multibyte) ==
    LET s == src.columns[m.source_column.name]
        t == tgt.columns[m.target_column.name]
    IN  /\ multibyte
        /\ s.data_type \in Varchars \/ t.data_type \in Varchars
        /\ s.max_length > t.max_length

\* _check_lob_compatibility.
LobIncompatible(m, src, tgt) ==
    LET s == src.columns[m.source_column.name].data_type
        t == tgt.columns[m.target_column.name].data_type
    IN  (s \in Lobs \/ t \in Lobs) /\ t \notin Lobs \cup {"varchar", "character varying"}

\* The names of the checks that have something to say of a plan.  A mapping is
\* made from the same metadata, so its target column is there; the tables
\* compared here have primary keys.
PreFindings(plan, src, tgt, multibyte) ==
    LET copied == Transferable(plan.column_mappings)
    IN  {check \in {"identity_compatible", "column_type_compatible",
                    "varchar_length_sufficient", "lob_type_compatible",
                    "source_only_column_excluded"} :
            \/ /\ check = "identity_compatible"
               /\ IdentityIncompatible(plan.identity_strategy, tgt)
            \/ /\ check = "column_type_compatible"
               /\ \E m \in copied : m.requires_cast
            \/ /\ check = "varchar_length_sufficient"
               /\ \E m \in copied : VarcharTooShort(m, src, tgt, multibyte)
            \/ /\ check = "lob_type_compatible"
               /\ \E m \in copied : LobIncompatible(m, src, tgt)
            \/ /\ check = "source_only_column_excluded"
               /\ plan.source_only_columns # {}}

\* Only this one is an error.
PreErrors(findings) == findings \cap {"identity_compatible"}

===============================================================================
