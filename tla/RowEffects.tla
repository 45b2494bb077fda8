------------------------------ MODULE RowEffects ------------------------------
(***************************************************************************)
(* What one migration batch does to the rows of the target database.       *)
(*                                                                         *)
(* The executor turns a batch into the integer range start_pk..end_pk,     *)
(* reads the source rows of that range and sends them to the adapter's     *)
(* insert_batch or update_batch; a delete sends the whole range to         *)
(* delete_batch.  Contents is the abstraction of a database: which version *)
(* of a row, if any, sits at each primary key of each table.               *)
(***************************************************************************)
EXTENDS Models, Integers, FiniteSets

CONSTANTS
    Keys,       \* integer primary keys
    Values,     \* versions of a row's other columns
    Absent,     \* the mark of a key that holds no row
    Refs        \* Refs[r]: the rows that row r references (foreign keys)

Rows == Tables \X Keys

ASSUME KeysAssumption == Keys \subseteq Int
ASSUME KeysFiniteAssumption == IsFiniteSet(Keys)
ASSUME AbsentAssumption == Absent \notin Values
\* References from a row to rows of its own table are left out: whether they
\* hold depends on the order of the rows inside one batch.
ASSUME RefsAssumption ==
    /\ Refs \in [Rows -> SUBSET Rows]
    /\ \A r \in Rows : \A p \in Refs[r] : p[1] # r[1]

Contents == [Rows -> Values \cup {Absent}]

Batch == [table : Tables, op : Operations, first : Keys, last : Keys]

Present(db) == {r \in Rows : db[r] # Absent}

KeysOf(db, t) == {k \in Keys : db[<<t, k>>] # Absent}

\* Mutant of RangeRows: the last key left out.
HalfOpenRange(b) ==
    {r \in Rows : r[1] = b.table /\ b.first <= r[2] /\ r[2] < b.last}

\* The rows between the batch's first and last key, whether or not the delta
\* that produced the batch named them.
RangeRows(b) ==
    {r \in Rows : r[1] = b.table /\ b.first <= r[2] /\ r[2] <= b.last}

\* fetch_rows_by_keys returns the rows of the range that exist in the source.
FetchedRows(b, src) == {r \in RangeRows(b) : src[r] # Absent}

TouchedRows(b, src) ==
    IF b.op = "delete" THEN RangeRows(b) ELSE FetchedRows(b, src)

\* The value a statement of the batch leaves at row r.  An UPDATE of a row
\* that is not there matches nothing.
NewValue(b, src, db, r) ==
    CASE b.op = "insert" -> src[r]
      [] b.op = "update" -> IF db[r] = Absent THEN Absent ELSE src[r]
      [] b.op = "delete" -> Absent

\* The database after the statements for the rows in "done" have run.
WriteRows(b, src, db, done) ==
    [r \in Rows |-> IF r \in done THEN NewValue(b, src, db, r) ELSE db[r]]

Effect(b, src, db) == WriteRows(b, src, db, TouchedRows(b, src))

\* Rows whose statement the database refuses: a duplicate key or a missing
\* parent for an INSERT, a referencing child for a DELETE.
RefusedAmong(op, rows, db) ==
    {r \in rows :
        \/ op = "insert" /\ (db[r] # Absent \/ ~(Refs[r] \subseteq Present(db)))
        \/ op = "delete" /\ db[r] # Absent
                         /\ \E c \in Present(db) : r \in Refs[c]}

RefusedRows(b, src, db) == RefusedAmong(b.op, TouchedRows(b, src), db)

Refused(b, src, db) == RefusedRows(b, src, db) # {}

===============================================================================
