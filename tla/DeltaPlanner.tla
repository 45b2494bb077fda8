----------------------------- MODULE DeltaPlanner -----------------------------
(***************************************************************************)
(* DeltaPlanner.plan: from the difference between source and target to the *)
(* list of batches of a manifest.  The planner keeps no state, so it is a  *)
(* family of operators.  Lists of keys are sorted, so they are sets here.  *)
(***************************************************************************)
EXTENDS RowEffects, SortedLists, SequencesExt

CONSTANTS
    CommonTables,       \* comparison.common_tables: a list, sorted by name
    SkipTables,         \* config.skip_tables
    BatchSize           \* config.batch_size

ASSUME CommonTablesAssumption == CommonTables \in Seq(Tables)
ASSUME BatchSizeAssumption == BatchSize \in Nat \ {0}

\* The tables that are neither missing on a side nor skipped.
Compared == ToSet(CommonTables) \ SkipTables

\* Where in the list of common tables a table comes.
Position(t) == CHOOSE i \in DOMAIN CommonTables : CommonTables[i] = t

\* TableDelta, as found by comparing key sets and then the common rows.
Delta(src, tgt, t) ==
    [insert_pks |-> KeysOf(src, t) \ KeysOf(tgt, t),
     update_pks |-> {k \in KeysOf(src, t) \cap KeysOf(tgt, t) :
                        src[<<t, k>>] # tgt[<<t, k>>]},
     delete_pks |-> KeysOf(tgt, t) \ KeysOf(src, t)]

\* _create_batches: chunks of BatchSize keys, of which a batch keeps only the
\* first and the last.
CreateBatches(t, op, pks) ==
    {[table |-> t, op |-> op, first |-> Min(chunk), last |-> Max(chunk)] :
        chunk \in ToSet(Pieces(pks, BatchSize))}

\* Mutant of ClassifyOperations: the mode is not looked at.
ClassifyInAnyMode(t, delta) ==
    CreateBatches(t, "insert", delta.insert_pks)
    \cup CreateBatches(t, "update", delta.update_pks)
    \cup CreateBatches(t, "delete", delta.delete_pks)

\* _classify_operations: deletes in rollback mode only.
ClassifyOperations(t, delta) ==
    CreateBatches(t, "insert", delta.insert_pks)
    \cup CreateBatches(t, "update", delta.update_pks)
    \cup (IF Mode = "rollback" THEN CreateBatches(t, "delete", delta.delete_pks) ELSE {})

BatchesOf(src, tgt) == UNION {ClassifyOperations(t, Delta(src, tgt, t)) : t \in Compared}

\* Batches are listed table by table, an operation after the other, by key.
OperationPlace == [insert |-> 1, update |-> 2, delete |-> 3]

IsListedBefore(b, c) ==
    \/ Position(b.table) < Position(c.table)
    \/ /\ b.table = c.table
       /\ \/ OperationPlace[b.op] < OperationPlace[c.op]
          \/ b.op = c.op /\ b.first < c.first

\* plan: the batches of the tables that are not skipped, in table order.
Plan(src, tgt) ==
    LET batches == BatchesOf(src, tgt)
    IN  InOrder(batches, {p \in batches \X batches : IsListedBefore(p[1], p[2])})

===============================================================================
