------------------------------- MODULE Pipeline -------------------------------
(***************************************************************************)
(* PipelineOrchestrator: run takes the two databases through the stages    *)
(* INSPECT, COMPARE, PLAN, VALIDATE_PRE, MIGRATE and VALIDATE_POST.  Its   *)
(* MIGRATE stage writes through the target adapter directly: it uses       *)
(* neither BatchExecutor nor checkpoints nor a circuit breaker, and it     *)
(* never begins or commits a transaction.                                  *)
(*                                                                         *)
(* Meanwhile applications may write to the source, statements may fail,    *)
(* and the process may die; an operator may run the pipeline again.        *)
(*                                                                         *)
(* pc is what run does next: "connect", one of the stages, the "gate"      *)
(* before MIGRATE, or "close"; it is "idle" when no run is in progress and *)
(* "done" when one has returned.  The delta of a table is that of one      *)
(* moment here; DeltaDetection shows how it is read page by page.          *)
(***************************************************************************)
EXTENDS TargetDatabase, DeltaPlanner

CONSTANTS
    Level,                  \* the dependency graph's level of each table
    PageSize,               \* page_size of the adapter's execute_batch
    AutomationMode,         \* profile.automation.mode
    Environment,            \* what resolve_environment makes of the target's DSN
    AutoConfirmBelowRows,   \* profile.automation.auto_confirm_below_rows
    Invocations,            \* the flags and profiles run may be called with
    Inputs,                 \* pairs of a source's and a target's contents
    MaxWrites,              \* bound: writes of applications
    MaxFaults               \* bound: failing statements and crashes

\* The flags of a run, and what its profile has for delete_allowed_tables.
Options ==
    [dry_run : BOOLEAN, confirm : BOOLEAN, confirm_deletes : BOOLEAN,
     delete_allowed : SUBSET Tables]

ASSUME LevelAssumption == Level \in [Tables -> Nat]
ASSUME PageSizeAssumption == PageSize \in Nat \ {0}
ASSUME AutomationAssumption ==
    /\ AutomationMode \in {"supervised", "auto_non_prod", "auto_approved"}
    /\ Environment \in {"production", "pre-production", "development", "unknown"}
    /\ AutoConfirmBelowRows \in Nat
ASSUME InvocationsAssumption == Invocations \subseteq Options
ASSUME InputsAssumption == Inputs \subseteq [source : Contents, target : Contents]
ASSUME PipelineBoundsAssumption == MaxWrites \in Nat /\ MaxFaults \in Nat

Stages == {"INSPECT", "COMPARE", "PLAN", "VALIDATE_PRE", "MIGRATE", "VALIDATE_POST"}

VARIABLES
    source,             \* contents of the source database
    versions,           \* history: every version a source row has had in this run
    writes,             \* history: how often applications have written
    faults,             \* history: how many statements have failed, and crashes
    options,            \* flags and profile of the run
    pc,
    stages,             \* result.stages: status of each stage
    success,            \* result.success
    deltas,
    plans,              \* manifest.tables
    index,              \* how many tables the stage has dealt with
    work,               \* the slices of the last one's keys still to come
    batch               \* the rows of batch_pks that are still to be written

runVars == <<options, pc, stages, success, deltas, plans, index, work, batch>>
vars == <<targetVars, source, versions, writes, faults, runVars>>

NoDelta == [insert_pks |-> {}, update_pks |-> {}, delete_pks |-> {}]
NoRows == [r \in Rows |-> Absent]
NoBatch == [op |-> "insert", rows |-> {}, image |-> NoRows]

TableDeltas ==
    [insert_pks : SUBSET Keys, update_pks : SUBSET Keys, delete_pks : SUBSET Keys]

SliceOfKeys == [table : Tables, op : Operations, keys : SUBSET Keys]

\* Every variable has its type; no table plan is a DELETE plan.
TypeOK ==
    /\ TargetTypeOK
    /\ source \in Contents
    /\ versions \in [Rows -> SUBSET (Values \cup {Absent})]
    /\ writes \in Nat
    /\ faults \in Nat
    /\ options \in Options
    /\ pc \in {"idle", "connect", "inspect", "compare", "plan", "validate_pre",
               "gate", "migrate", "validate_post", "close", "done"}
    /\ stages \in [Stages -> {"none", "success", "failed", "skipped"}]
    /\ success \in BOOLEAN
    /\ deltas \in [Tables -> TableDeltas]
    /\ plans \in Seq([table : Tables, operation : {"insert", "update", "no_action"},
                      delta : TableDeltas])
    /\ index \in Nat
    /\ work \in Seq(SliceOfKeys)
    /\ batch \in [op : Operations, rows : SUBSET Rows, image : Contents]

-------------------------------------------------------------------------------
(* Starting a run, and reading both databases.                              *)

Init ==
    /\ \E i \in Inputs : source = i.source /\ TargetInit(i.target)
    /\ versions = [r \in Rows |-> {source[r]}]
    /\ writes = 0
    /\ faults = 0
    /\ options \in Invocations
    /\ pc = "idle"
    /\ stages = [s \in Stages |-> "none"]
    /\ success = TRUE
    /\ deltas = [t \in Tables |-> NoDelta]
    /\ plans = <<>>
    /\ index = 0
    /\ work = <<>>
    /\ batch = NoBatch

\* run is called, for the first time or again: it knows nothing of earlier runs.
Start(invocation) ==
    /\ pc \in {"idle", "done"}
    /\ options' = invocation
    /\ pc' = "connect"
    /\ stages' = [s \in Stages |-> "none"]
    /\ success' = TRUE
    /\ deltas' = [t \in Tables |-> NoDelta]
    /\ plans' = <<>>
    /\ index' = 0
    /\ work' = <<>>
    /\ batch' = NoBatch
    /\ versions' = [r \in Rows |-> {source[r]}]
    /\ UNCHANGED <<targetVars, source, writes, faults>>

Connect ==
    /\ pc = "connect"
    /\ Reconnect
    /\ pc' = "inspect"
    /\ UNCHANGED <<source, versions, writes, faults, options, stages, success,
                   deltas, plans, index, work, batch>>

\* A stage that changes nothing but its own status and some of run's variables.
Passes(stage, next) ==
    /\ stages' = [stages EXCEPT ![stage] = "success"]
    /\ pc' = next
    /\ UNCHANGED <<targetVars, source, versions, writes, faults, options, success>>

Inspect ==
    /\ pc = "inspect"
    /\ Passes("INSPECT", "compare")
    /\ UNCHANGED <<deltas, plans, index, work, batch>>

\* detect_delta of the next table, unless it is skipped.
CompareTable ==
    /\ pc = "compare"
    /\ index < Len(CommonTables)
    /\ index' = index + 1
    /\ LET t == CommonTables[index + 1] IN
        deltas' = IF t \in SkipTables THEN deltas
                  ELSE [deltas EXCEPT ![t] = Delta(source, session, t)]
    /\ UNCHANGED <<targetVars, source, versions, writes, faults, options, pc,
                   stages, success, plans, work, batch>>

CompareEnds ==
    /\ pc = "compare"
    /\ index = Len(CommonTables)
    /\ Passes("COMPARE", "plan")
    /\ UNCHANGED <<deltas, plans, index, work, batch>>

-------------------------------------------------------------------------------
(* Planning.                                                                *)

\* Mutant of Strip: every table's deletes stay in the plan.
StripNothing(t, delta) == delta

\* Deletes of a table that is not in delete_allowed_tables are dropped.
Strip(t, delta) ==
    IF t \in options.delete_allowed THEN delta ELSE [delta EXCEPT !.delete_pks = {}]

IsEmpty(pks) == pks = {}

\* A plan of updates alone is an UPDATE plan, and every other plan that has
\* something to do an INSERT plan, one of deletes alone included.
PrimaryOperation(delta) ==
    CASE delta = NoDelta -> "no_action"
      [] IsEmpty(delta.insert_pks) /\ IsEmpty(delta.delete_pks)
            /\ ~IsEmpty(delta.update_pks) -> "update"
      [] OTHER -> "insert"

TablePlan(t) ==
    [table |-> t,
     operation |-> PrimaryOperation(Strip(t, deltas[t])),
     delta |-> Strip(t, deltas[t])]

IsNamedBefore(t, u) == Position(t) < Position(u)

\* Mutant of ByLevel: the tables as they come.
ByName == InOrder(Compared, {p \in Compared \X Compared : IsNamedBefore(p[1], p[2])})

\* table_plans.sort by dependency level, which is stable.
ByLevel ==
    InOrder(Compared, {p \in Compared \X Compared :
                        \/ Level[p[1]] < Level[p[2]]
                        \/ Level[p[1]] = Level[p[2]] /\ IsNamedBefore(p[1], p[2])})

MakePlan ==
    /\ pc = "plan"
    /\ plans' = [i \in DOMAIN ByLevel |-> TablePlan(ByLevel[i])]
    /\ Passes("PLAN", "validate_pre")
    /\ UNCHANGED <<deltas, index, work, batch>>

\* The plan deletes from a table it may not delete from.  Mode is looked at
\* only here.
ForbiddenDeletes ==
    \E i \in DOMAIN plans :
        /\ ~IsEmpty(plans[i].delta.delete_pks)
        /\ Mode = "rollback"
        /\ plans[i].table \notin options.delete_allowed

ValidatePre ==
    /\ pc = "validate_pre"
    /\ stages' = [stages EXCEPT !["VALIDATE_PRE"] =
                    IF ForbiddenDeletes THEN "failed" ELSE "success"]
    /\ success' = ~ForbiddenDeletes
    /\ pc' = IF ForbiddenDeletes THEN "close" ELSE "gate"
    /\ UNCHANGED <<targetVars, source, versions, writes, faults, options,
                   deltas, plans, index, work, batch>>

-------------------------------------------------------------------------------
(* Confirmation.                                                            *)

TotalRows ==
    FoldLeft(LAMBDA n, p : n + Cardinality(p.delta.insert_pks)
                             + Cardinality(p.delta.update_pks)
                             + Cardinality(p.delta.delete_pks),
             0, plans)

IsProductionTarget == Environment \in {"production", "unknown"}

\* AutomationPolicy.requires_confirmation.
RequiresConfirmation ==
    CASE AutomationMode = "supervised" -> TRUE
      [] AutomationMode = "auto_non_prod" ->
            \/ IsProductionTarget
            \/ AutoConfirmBelowRows > 0 /\ TotalRows > AutoConfirmBelowRows
      [] AutomationMode = "auto_approved" -> FALSE

\* AutomationPolicy.requires_delete_confirmation.
RequiresDeleteConfirmation ==
    \E i \in DOMAIN plans : ~IsEmpty(plans[i].delta.delete_pks)

\* Mutant of MayMigrate: one confirmation is enough for everything.
MayMigrateOnConfirm == ~options.dry_run /\ options.confirm

MayMigrate ==
    /\ ~options.dry_run
    /\ options.confirm
    /\ ~(RequiresConfirmation /\ ~options.confirm)
    /\ ~(RequiresDeleteConfirmation /\ ~options.confirm_deletes)

\* A run that may not migrate skips the last two stages and is successful.
Skip ==
    /\ pc = "gate"
    /\ ~MayMigrate
    /\ stages' = [stages EXCEPT !["MIGRATE"] = "skipped", !["VALIDATE_POST"] = "skipped"]
    /\ pc' = "close"
    /\ UNCHANGED <<targetVars, source, versions, writes, faults, options, success,
                   deltas, plans, index, work, batch>>

Proceed ==
    /\ pc = "gate"
    /\ MayMigrate
    /\ pc' = "migrate"
    /\ index' = 0
    /\ UNCHANGED <<targetVars, source, versions, writes, faults, options, stages,
                   success, deltas, plans, work, batch>>

-------------------------------------------------------------------------------
(* Migrating: _stage_migrate and _migrate_table.                            *)

\* Mutant of Slice: a full slice loses its last key.
ShortSlice(pks, i) ==
    {k \in pks : (i - 1) * BatchSize < Rank(k, pks) /\ Rank(k, pks) < i * BatchSize}

\* pks[i : i + batch_size] of _migrate_table.
Slice(pks, i) == Piece(pks, BatchSize, i)

Slices(t, op, pks) ==
    [i \in DOMAIN Pieces(pks, BatchSize) |-> [table |-> t, op |-> op, keys |-> Slice(pks, i)]]

\* Mutant of TableWork: updates and deletes mixed up.
TableWorkMixedUp(p) ==
    Slices(p.table, "insert", p.delta.insert_pks)
    \o Slices(p.table, "update", p.delta.delete_pks)
    \o Slices(p.table, "delete", p.delta.update_pks)

TableWork(p) ==
    Slices(p.table, "insert", p.delta.insert_pks)
    \o Slices(p.table, "update", p.delta.update_pks)
    \o Slices(p.table, "delete", p.delta.delete_pks)

\* _migrate_table of the next table.
MigrateTable ==
    /\ pc = "migrate"
    /\ work = <<>> /\ batch.rows = {}
    /\ index < Len(plans)
    /\ index' = index + 1
    /\ work' = TableWork(plans[index + 1])
    /\ UNCHANGED <<targetVars, source, versions, writes, faults, options, pc,
                   stages, success, deltas, plans, batch>>

\* The rows of the next slice as the source has them now; nothing is read for
\* deletes.  Rows that are gone are left out.
FetchBatch ==
    /\ pc = "migrate"
    /\ batch.rows = {}
    /\ work # <<>>
    /\ work' = Tail(work)
    /\ LET slice == Head(work)
           rows == {slice.table} \X slice.keys
       IN  batch' =
            IF slice.op = "delete"
            THEN [op |-> slice.op, rows |-> rows, image |-> NoRows]
            ELSE [op |-> slice.op, rows |-> rows \cap Present(source),
                  image |-> [r \in Rows |-> IF r \in rows THEN source[r] ELSE Absent]]
    /\ UNCHANGED <<targetVars, source, versions, writes, faults, options, pc,
                   stages, success, deltas, plans, index>>

\* The rows of the next page of execute_batch; DB2's execute_many has no pages.
Page ==
    {r \in batch.rows :
        \/ Adapter = "db2"
        \/ Cardinality({s \in batch.rows : s[2] < r[2]}) < PageSize}

\* Rows the target refuses.  The plans carry no identity strategy, so nothing
\* is done about a GENERATED ALWAYS column.
RefusedInPage ==
    RefusedAmong(batch.op, Page, session)
    \cup {r \in Page : /\ batch.op = "insert"
                       /\ r[1] \in AlwaysTables
                       /\ identity[r[1]] = "always"}

WriteSome(rows) == RunStatements(WriteRows(batch, batch.image, session, rows))

WritePage ==
    /\ pc = "migrate"
    /\ batch.rows # {}
    /\ RefusedInPage = {}
    /\ WriteSome(Page)
    /\ batch' = [batch EXCEPT !.rows = @ \ Page]
    /\ UNCHANGED <<source, versions, writes, faults, options, pc, stages, success,
                   deltas, plans, index, work>>

\* The stage fails, run returns.
Fails(stage) ==
    /\ stages' = [stages EXCEPT ![stage] = "failed"]
    /\ success' = FALSE
    /\ pc' = "close"
    /\ UNCHANGED <<source, versions, writes, options, deltas, plans, index, work, batch>>

\* PostgreSQL executes a page, one message, as a whole; DB2 executes it row by row, in a
\* transaction that is still open.
WriteRefused ==
    /\ pc = "migrate"
    /\ RefusedInPage # {}
    /\ \E done \in IF Adapter = "db2" THEN SUBSET (Page \ RefusedInPage) ELSE {{}} :
            WriteSome(done)
    /\ Fails("MIGRATE")
    /\ UNCHANGED faults

MigrateEnds ==
    /\ pc = "migrate"
    /\ work = <<>> /\ batch.rows = {}
    /\ index = Len(plans)
    /\ Passes("MIGRATE", "validate_post")
    /\ index' = 0
    /\ UNCHANGED <<deltas, plans, work, batch>>

-------------------------------------------------------------------------------
(* After the migration.                                                     *)

CountRows(db, t) == Cardinality({r \in Present(db) : r[1] = t})

\* The counts of the next table are compared, unless it had nothing to do.
ValidateTable ==
    /\ pc = "validate_post"
    /\ index < Len(plans)
    /\ index' = index + 1
    /\ LET p == plans[index + 1] IN
        IF p.operation # "no_action"
            /\ CountRows(source, p.table) # CountRows(session, p.table)
        THEN stages' = [stages EXCEPT !["VALIDATE_POST"] = "failed"]
        ELSE UNCHANGED stages
    /\ UNCHANGED <<targetVars, source, versions, writes, faults, options, pc,
                   success, deltas, plans, work, batch>>

ValidateEnds ==
    /\ pc = "validate_post"
    /\ index = Len(plans)
    /\ stages' = [stages EXCEPT !["VALIDATE_POST"] = IF @ = "failed" THEN @ ELSE "success"]
    /\ success' = (stages["VALIDATE_POST"] # "failed")
    /\ pc' = "close"
    /\ UNCHANGED <<targetVars, source, versions, writes, faults, options,
                   deltas, plans, index, work, batch>>

\* The connections are closed; what the target has not committed is lost.
Close ==
    /\ pc = "close"
    /\ Reconnect
    /\ pc' = "done"
    /\ UNCHANGED <<source, versions, writes, faults, options, stages, success,
                   deltas, plans, index, work, batch>>

-------------------------------------------------------------------------------
(* What goes on around a run.                                               *)

InRun == pc \notin {"idle", "done"}

StageAt ==
    [inspect |-> "INSPECT", compare |-> "COMPARE", migrate |-> "MIGRATE",
     validate_post |-> "VALIDATE_POST"]

\* A statement of a stage raises.  VALIDATE_POST goes on with its other tables
\* before it fails.  When the connection broke before the answer
\* to a page came, PostgreSQL may have executed it.
StatementFails ==
    /\ pc \in DOMAIN StageAt
    /\ faults < MaxFaults
    /\ faults' = faults + 1
    /\ \/ UNCHANGED targetVars
       \/ pc = "migrate" /\ RefusedInPage = {} /\ WriteSome(Page)
    /\ Fails(StageAt[pc])

\* connect raises: run notes the error and returns.
ConnectFails ==
    /\ pc = "connect"
    /\ faults < MaxFaults
    /\ faults' = faults + 1
    /\ success' = FALSE
    /\ pc' = "close"
    /\ UNCHANGED <<targetVars, source, versions, writes, options, stages,
                   deltas, plans, index, work, batch>>

Crash ==
    /\ InRun
    /\ faults < MaxFaults
    /\ faults' = faults + 1
    /\ Reconnect
    /\ pc' = "idle"
    /\ UNCHANGED <<source, versions, writes, options, stages, success, deltas,
                   plans, index, work, batch>>

\* An application replaces a row of the source during a run, keeping its
\* foreign keys.
AppWrites(r, v) ==
    /\ InRun
    /\ writes < MaxWrites
    /\ writes' = writes + 1
    /\ v # source[r]
    /\ source' = [source EXCEPT ![r] = v]
    /\ \A c \in Present(source') : Refs[c] \subseteq Present(source')
    /\ versions' = [versions EXCEPT ![r] = @ \cup {v}]
    /\ UNCHANGED <<targetVars, faults, runVars>>

Step ==
    \/ Connect \/ Inspect \/ CompareTable \/ CompareEnds
    \/ MakePlan \/ ValidatePre \/ Skip \/ Proceed
    \/ MigrateTable \/ FetchBatch \/ WritePage \/ WriteRefused \/ MigrateEnds
    \/ ValidateTable \/ ValidateEnds \/ Close

Run == \E o \in Invocations : Start(o)

\* Tables whose rows others refer to.
Referenced == {p[1] : p \in UNION {Refs[r] : r \in Rows}}

\* A confirmed run whose profile allows no deletes that foreign keys might refuse.
ConfirmedRun ==
    \E o \in Invocations :
        /\ ~o.dry_run /\ o.confirm /\ o.confirm_deletes
        /\ o.delete_allowed \cap Referenced = {}
        /\ Start(o)

Next ==
    \/ Run
    \/ Step
    \/ StatementFails \/ ConnectFails \/ Crash
    \/ \E r \in Rows, v \in Values \cup {Absent} : AppWrites(r, v)

Spec == Init /\ [][Next]_vars

\* The pipeline runs in one thread, and among the operator's runs there are
\* always confirmed ones again that foreign keys let pass.
FairSpec == Spec /\ WF_vars(Step) /\ SF_vars(ConfirmedRun)

-------------------------------------------------------------------------------
(* Properties.                                                              *)

Covered(r) == r[1] \in Compared

\* Nobody has written to the source since the run began.
Quiet == \A r \in Rows : versions[r] = {source[r]}

\* A run that migrated and is reported successful has copied the tables: a row
\* that was in the source all the time is durable in the target in a version
\* it had meanwhile, and a row that was not there is gone where deletes are
\* allowed.
SuccessMeansCopied ==
    pc = "done" /\ success /\ stages["MIGRATE"] = "success" =>
        \A r \in Rows : Covered(r) =>
            /\ Absent \notin versions[r] => committed[r] \in versions[r]
            /\ versions[r] = {Absent} /\ r[1] \in options.delete_allowed => committed[r] = Absent

\* What is durable changes only in a confirmed run that is not a dry run, only
\* in tables that are not skipped, and rows go away only where
\* delete_allowed_tables says so and the deletes are confirmed.
OnlyConfirmedWrites ==
    [][\A r \in Rows : committed'[r] # committed[r] =>
        /\ ~options.dry_run /\ options.confirm /\ Covered(r)
        /\ committed'[r] = Absent => options.confirm_deletes /\ r[1] \in options.delete_allowed]_vars

\* Deltas grow old between COMPARE and MIGRATE; a row that was in the source
\* all through the run is still never deleted from the target.
KeptRowsSurvive ==
    [][\A r \in Rows :
        committed[r] # Absent /\ committed'[r] = Absent => Absent \in versions[r]]_vars

\* A run that nothing disturbs is refused no statement: what it inserts has its
\* parents, whatever earlier runs that failed or died have left behind.  The
\* exception are deletes of rows that others refer to: parents come first.
QuietRunsAreNotRefused ==
    [][WriteRefused /\ Quiet =>
        /\ batch.op = "delete"
        /\ Page \cap UNION {Refs[r] : r \in Present(session)} # {}]_vars

\* Confirmed runs, repeated, bring the target up to date and keep it so,
\* whatever runs that failed, died or were not confirmed leave behind.
EventuallyCopied ==
    <>[](\A r \in Rows : Covered(r) /\ source[r] # Absent => committed[r] = source[r])

===============================================================================
