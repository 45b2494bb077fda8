--------------------------- MODULE PlannedMigration ---------------------------
(***************************************************************************)
(* The planner and the executor together: the manifest executed is the one *)
(* DeltaPlanner.plan makes from the contents of source and target.  The    *)
(* specification is BatchExecutor's; Inputs is one of the sets below.      *)
(***************************************************************************)
EXTENDS ValidatedMigration, DeltaPlanner

\* Contents whose foreign keys hold.
Consistent(db) == \A r \in Present(db) : Refs[r] \subseteq Present(db)
ConsistentContents == {db \in Contents : Consistent(db)}

PlannedInput(src, tgt) ==
    [manifest |-> Plan(src, tgt), source |-> src, target |-> tgt]

\* Every pair of consistent contents between which there is something to do.
PlannedInputs ==
    {PlannedInput(p[1], p[2]) : p \in
        {q \in ConsistentContents \X ConsistentContents : Plan(q[1], q[2]) # <<>>}}

\* The range of every batch names only rows the batch was planned for: an
\* insert no row of the target, an update no row that is on one side only, a
\* delete no row of the source.
RangesHaveNoGaps(i) ==
    \A n \in DOMAIN i.manifest : \A k \in Keys :
        LET b == i.manifest[n]
            inSource == i.source[<<b.table, k>>] # Absent
            inTarget == i.target[<<b.table, k>>] # Absent
        IN  b.first <= k /\ k <= b.last =>
            /\ b.op = "insert" => ~(inSource /\ inTarget)
            /\ b.op = "update" => (inSource <=> inTarget)
            /\ b.op = "delete" => ~inSource

-------------------------------------------------------------------------------
(* What the executor relies on in a manifest and the contents it is made    *)
(* from.  PlannerPlansWell of PlannedMigrationProofs says that the          *)
(* planner's plans are well made wherever their ranges have no gaps.        *)

\* Some batch of this operation reaches row r.
IsPlanned(i, op, r) ==
    \E n \in DOMAIN i.manifest :
        i.manifest[n].op = op /\ r \in RangeRows(i.manifest[n])

\* Every row that is not as the mode wants it is planned for, deletes in
\* rollback mode only.
PlanIsComplete(i) ==
    \A r \in Rows :
        \/ i.target[r] = i.source[r]
        \/ i.source[r] # Absent /\ i.target[r] = Absent /\ IsPlanned(i, "insert", r)
        \/ i.source[r] # Absent /\ i.target[r] # Absent /\ IsPlanned(i, "update", r)
        \/ i.source[r] = Absent /\ (Mode = "sync" \/ IsPlanned(i, "delete", r))

\* Batches start with a row they are there for, batches of one operation do
\* not overlap, and in sync mode none deletes.
BatchesAreWellMade(i) ==
    \A m, n \in DOMAIN i.manifest :
        LET b == i.manifest[m]
            c == i.manifest[n]
        IN  /\ b.op = "insert" => i.source[<<b.table, b.first>>] # Absent
            /\ b.op = "delete" => Mode = "rollback"
            /\ b.op = c.op /\ m # n => RangeRows(b) \cap RangeRows(c) = {}

WellPlanned(i) ==
    /\ RangesHaveNoGaps(i)
    /\ PlanIsComplete(i)
    /\ BatchesAreWellMade(i)

-------------------------------------------------------------------------------
(* Properties.                                                              *)

\* What the migration is for: every row of the source is in the target in the
\* source's version, and in rollback mode no other row is.
CaughtUp ==
    \A r \in Rows :
        IF source[r] # Absent THEN committed[r] = source[r]
        ELSE Mode = "rollback" => committed[r] = Absent

\* When execute returns, reports no batch as failed and the breaker has stopped
\* no table, the target has caught up with the source, even if processes died on
\* the way and this is a later one, executing some batches again.
ReturnMeansCaughtUp ==
    pc = "done" /\ (\A b \in Ids : status[b] # "failed" /\ ~IsTripped(TableOf(b)))
        => CaughtUp

\* In sync mode rows that only the target has are preserved: no durable row
\* ever goes away.
SyncDeletesNothing ==
    [][Mode = "sync" =>
        \A r \in Rows : committed[r] # Absent => committed'[r] # Absent]_vars

\* Deletes are planned "for target-only rows (ROLLBACK mode only)": a row the
\* source has as well is never removed from the target.
CommonRowsSurvive ==
    [][\A r \in Rows :
        source[r] # Absent /\ committed[r] # Absent => committed'[r] # Absent]_vars

===============================================================================
