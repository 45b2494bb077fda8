------------------------------ MODULE Validation ------------------------------
(***************************************************************************)
(* MigrationValidator.post_validate and batch_validate: what they make of  *)
(* the rows of source and target.  The validator keeps no state.  Of each  *)
(* check only whether it fails is kept, and of the checks those that can:  *)
(* the row count of a batch and the foreign key spot check, whose query's  *)
(* result nobody reads, pass whatever the target holds, and a table with a *)
(* key has no duplicates.                                                  *)
(***************************************************************************)
EXTENDS RowEffects

CONSTANT SampleSize     \* _PK_SAMPLE_SIZE

ASSUME SampleSizeAssumption == SampleSize \in Nat \ {0}

Count(db, t) == Cardinality(KeysOf(db, t))

\* Mutant of RowCountFails: the mode is not looked at.
RowCountDiffers(t, src, tgt) == Count(src, t) # Count(tgt, t)

\* _check_row_counts: in sync mode the target may have rows of its own.
RowCountFails(t, src, tgt) ==
    IF Mode = "sync" THEN Count(tgt, t) < Count(src, t)
                     ELSE Count(src, t) # Count(tgt, t)

\* The keys of the first page of stream_primary_keys; no second page is read.
Sample(src, t) ==
    {k \in KeysOf(src, t) :
        Cardinality({m \in KeysOf(src, t) : m < k}) < SampleSize}

\* Mutant of MissingFrom: any larger key of the target will do.
BeyondMaxKey(tgt, t, sample) == {k \in sample : \A m \in KeysOf(tgt, t) : m < k}

\* Keys fetched from the target and not found.
MissingFrom(tgt, t, sample) == sample \ KeysOf(tgt, t)

\* _check_pk_sampling
PkSamplingFails(t, src, tgt) == MissingFrom(tgt, t, Sample(src, t)) # {}

\* _check_missing_duplicates: the same question about the same keys.  The key
\* being a key, the rows fetched are no more than their keys.
MissingRowsFail(t, src, tgt) == MissingFrom(tgt, t, Sample(src, t)) # {}

\* The largest key of db's table is at least k.
MaxKeyReaches(db, t, k) == \E m \in KeysOf(db, t) : m >= k

\* _check_identity_sequence compares the largest keys in the two tables; the
\* sequence behind the identity column is not asked.
IdentitySequenceFails(t, src, tgt) ==
    \E k \in KeysOf(src, t) : ~MaxKeyReaches(tgt, t, k)

\* The tables for which post_validate reports an error.
PostErrors(tables, src, tgt) ==
    {t \in tables :
        \/ RowCountFails(t, src, tgt)
        \/ PkSamplingFails(t, src, tgt)
        \/ MissingRowsFail(t, src, tgt)}

\* The tables with an identity strategy for which it reports a warning.
PostWarnings(tables, src, tgt) ==
    {t \in tables : IdentitySequenceFails(t, src, tgt)}

\* batch_validate reports an error: _check_batch_pk_exists_on_target.
BatchFails(b, tgt) == b.op = "insert" /\ ~MaxKeyReaches(tgt, b.table, b.first)

===============================================================================
