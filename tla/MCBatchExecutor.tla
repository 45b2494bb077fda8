--------------------------- MODULE MCBatchExecutor ---------------------------
(***************************************************************************)
(* Small instances of BatchExecutor.  items references orders, so orders   *)
(* is at dependency level 0 and items at level 1.  As in the planner's     *)
(* manifests, batches are listed table by table, not in dependency order.  *)
(***************************************************************************)
EXTENDS BatchExecutor, TLC

MCTables == {"items", "orders"}
MCLevel == [t \in MCTables |-> IF t = "items" THEN 1 ELSE 0]

\* Item k belongs to order k.
MCRefs == [r \in MCTables \X Keys |->
            IF r[1] = "items" THEN {<<"orders", r[2]>>} ELSE {}]

Single(table, op, k) == [table |-> table, op |-> op, first |-> k, last |-> k]
Span(table, op, k, l) == [table |-> table, op |-> op, first |-> k, last |-> l]

\* The contents whose rows are given by the pairs of a table and a key.
With(v, rows) == [r \in MCTables \X Keys |-> IF r \in rows THEN v ELSE Absent]

All == MCTables \X Keys
Both(ks) == MCTables \X ks

\* Everything is new in the source: inserts only, two batches per table.
FreshCopy == [
    manifest |-> <<Single("items", "insert", 1), Span("items", "insert", 2, 3),
                   Span("orders", "insert", 1, 2), Single("orders", "insert", 3)>>,
    source |-> With("new", All),
    target |-> With("old", {})]

\* One order and its item are new, one has changed, one is only in the target.
MixedRollback == [
    manifest |-> <<Single("items", "insert", 1), Single("items", "update", 2),
                   Single("items", "delete", 3), Single("orders", "insert", 1),
                   Single("orders", "update", 2), Single("orders", "delete", 3)>>,
    source |-> With("new", Both({1, 2})),
    target |-> With("old", Both({2, 3}))]

\* The batch of orders reaches over a row that both sides have.
OverlappingRange == [
    manifest |-> <<Span("orders", "insert", 1, 3), Single("orders", "update", 2),
                   Single("items", "insert", 1)>>,
    source |-> With("new", All),
    target |-> With("old", Both({2}))]

\* One table of five insert batches.
LongTable == [
    manifest |-> [k \in 1 .. 5 |-> Single("orders", "insert", k)],
    source |-> [r \in MCTables \X Keys |-> IF r[1] = "orders" THEN "new" ELSE Absent],
    target |-> With("old", {})]

MixedInputs == {FreshCopy, MixedRollback}
LongInputs == {LongTable}
AllInputs == {FreshCopy, MixedRollback, OverlappingRange}

===============================================================================
