# A verification development for db-migration-toolkit

TLA+ models of the toolkit in `src/`, checked with TLC on small instances, and
theorems about them proved with TLAPS for every instance. Paths below are
relative to `src/src/dbmigrate/`.

## The system

The toolkit compares a source and a target database and brings the target in
line: it plans INSERTs, UPDATEs and (in rollback mode) DELETEs in batches and
executes them in dependency order.

| Part | State it keeps | Operations | Talks to |
|---|---|---|---|
| Delta planner (`migration/__init__.py` 144-393) | none | `plan`: deltas to manifest | comparator, dependency graph |
| Batch executor (`migration/__init__.py` 401-742) | in-memory status of batches | `execute`, `_execute_batch` | adapters, checkpoint, breaker |
| Circuit breaker (`migration/__init__.py` 62-126) | streak per table, totals | `record_success`, `record_failure`, `is_tripped` | executor |
| Checkpoint store (`checkpoint/`) | SQLite tables `migrations`, `batches`, `ddl_changes` | `create_migration`, `save_batch`, `mark_*`, `get_*` | executor |
| Database adapters (`database/`) | connection, autocommit, open transaction; on DB2 the identity mode of a column | connect, begin/commit/rollback, insert/update/delete batch, streams, bulk load | everything |
| Schema comparator, delta detector (`comparison/__init__.py`) | none | `compare`, `detect_delta` by four strategies | adapters |
| Dependency graph (`comparison/dependency.py`) | levels | `build`, `get_insert_order`, `get_delete_order`, `get_level` | planner, pipeline |
| Pipeline orchestrator (`orchestration/`) | stage results | `run`: seven stages | all of the above but executor, checkpoint and breaker |
| Validation (`validation/`) | none | `pre_validate`, `batch_validate`, `post_validate` | adapters; only tests call it |
| Policy (`policy/`) | none | what needs a confirmation | pipeline |
| Performance, logging, discovery, config, CLI | measurements, records, YAML | no influence on what is migrated beyond parameters | |

There are two write paths. `BatchExecutor` is the checkpointed one, with a
transaction per batch; nothing in `src/` outside the tests calls it. The
pipeline behind `dbmigrate migrate` writes through the adapters on its own
(`orchestration/__init__.py` 656-722), with neither checkpoint nor breaker nor
transaction. Both are modelled.

### Hard behaviours, and what makes each part correct

* **Executor.** Between the target's commit and the checkpoint's update there
  is a window in which a process can die, the checkpoint can fail, or the
  answer to the commit can get lost. Correct means: the checkpoint never claims
  more than the target holds, what it claims stays true, a failed batch leaves
  nothing behind, every batch is accounted for, and a rerun catches up.
* **Checkpoint store.** The "last completed batch" is the one with the largest
  rowid, and `INSERT OR REPLACE` renews rowids. Correct means skipping by it
  never hides undone work.
* **Breaker.** It outlives a call of `execute`, not a process. Correct means a
  tripped table is left alone.
* **Adapters.** PostgreSQL leaves autocommit at the first batch and never
  returns; DB2 commits inside `insert_batch` to alter an identity column.
  Correct means transactions are those the executor asks for, and the column is
  altered back.
* **Planner.** A batch keeps the first and last key of its chunk, and the
  executor acts on every key between. Correct means only planned rows are
  touched, in an order the foreign keys allow.
* **Dependency graph.** Kahn's algorithm on lower-cased names, with cycles,
  self-references and unknown tables. Correct means a table comes after the
  tables it refers to wherever that is possible, no later than it must, and
  `build` returns.
* **Delta detector.** Dozens of statements, no common snapshot, applications
  writing meanwhile. Correct means whatever the delta says of a key was true of
  versions the key had meanwhile, and above all that a row the source kept is
  never listed for deletion.
* **Pipeline and policy.** Flags, mode and plan gate the migration; deltas
  grow old between COMPARE and MIGRATE; nobody commits; a rerun starts over.
  Correct means success implies copied and durable, nothing is written
  unconfirmed, kept rows survive, and repeated runs converge.
* **Sessions of the adapters, all calls.** PostgreSQL's server-side cursors borrow
  autocommit mode and roll back when they end; DB2 commits inside bulk loads,
  trigger switches and identity resets. Correct means what a call that returned
  has promised stays in the session until commit or rollback, those two mean
  what they say after failed calls too, and half the triggers off or an altered
  identity column become durable in known ways only.
* **Columns.** Either side may lack a column, spell it with capitals, give it
  another type or length; each adapter has its own idea of what name stands for
  a column. Correct means every column both sides have is copied, the others are
  kept, a second run finds nothing to do, and a failure could have been
  announced.
* **Validation.** It looks at counts, at a sample of keys and at largest keys.
  Correct means a pass is worth something that can be stated, and a complete
  migration raises no alarm.

`PROJECT.json` lists every hazard at its line, with the properties that cover
it.

## The modules

```
Models -- RowEffects -- TargetDatabase --.
   |          |                           \
   |          +------ AtomicMigration <..... BatchExecutor -- ValidatedMigration --.
   |          |                           /                   /  (refines)          \
   |          +------ Validation --------/-------------------/                       \
   |          +------ DeltaPlanner -----/-------------------------------- PlannedMigration
   +-- CheckpointStore ----------------/
   +-- CircuitBreaker ----------------/

TargetDatabase, DeltaPlanner -- Pipeline           DeltaDetection        DependencyGraph
SchemaComparator -- PreValidation -- ColumnCopy    SortedLists -- DeltaPlanner, AdapterSession
```

* **Models** - the enumerations.
* **RowEffects** - what a batch does to the rows of a database. `Contents` maps
  each table and integer key to a row version or `Absent`; `RangeRows` is the
  range `start_pk..end_pk`, `FetchedRows` what `fetch_rows_by_keys` returns of
  it, `Effect` what the batch's statements leave, `Refused` whether a unique or
  foreign key constraint refuses one of them. Constraints are the database's,
  so they are external.
* **SortedLists** - a sorted list of keys is the set of them: `Rank` is the place
  of a key in it, `Pieces` are the slices the code takes of it, n keys at a time.
  `InOrder` is a list sorted by some other order. All are written by counting, so
  that they can be reasoned about without induction.
* **CheckpointStore** - status and rowid of each row of the `batches` table.
  Every statement autocommits (`isolation_level=None`), so rows survive the
  process. One action per method. A row's table is part of its batch id.
* **CircuitBreaker** - one action per method. The rate is a fraction and the
  comparison is cross-multiplied.
* **TargetDatabase** - the adapter's transaction behaviour over `committed`
  (durable) and `session` (as the connection sees it) contents, for PostgreSQL
  and DB2.
* **BatchExecutor** - composes the three and adds the executor's control. One
  action per step between two points at which something outside can intervene:
  each call to the checkpoint, to the target, and each branch of the loop. `pc`
  names the place (the module's head lists them). `Execute` calls `execute`
  again on the same executor, `Resume` does so from a new process. Six kinds of
  fault are switched on by the constant `Faults`: `statement` (a statement,
  ALTER, begin or source read raises), `commit` (refused), `ack` (committed,
  the answer lost), `rollback` (raises, connection broken), `checkpoint` (an
  SQLite statement raises, `get_last_completed_batch` before a batch included), `crash` (the process dies).
* **AtomicMigration** - what the executor promises: durable contents change by
  whole batches that the database accepted, and a batch is recorded only after
  it was applied.
* **DeltaPlanner** - `Plan`, the manifest as a function of the two contents.
  `Delta` is the detector's primary-key strategy. The batches are first a set
  (`BatchesOf`) and then in the order in which the code appends them
  (`IsListedBefore`): table by table, an operation after the other, by key.
* **Validation** - `post_validate` and `batch_validate` as predicates of two
  contents: which tables get an error or a warning. `SampleSize` is the page of
  keys the validator reads. `Mode` is the planner's constant.
* **ValidatedMigration** - what the validator says of the target the executor
  leaves behind. It only reads, so it adds no step.
* **PlannedMigration** - the executor on manifests the planner makes, with the
  properties that relate the result to the source. `WellPlanned` is what the
  executor relies on in a plan; `RangesHaveNoGaps` is the part of it that the
  planner does not see to.
* **SchemaComparator** - `compare` for one table: its differences and column
  mappings. A name is its lower-case letters and a spelling; the mappings are a
  set, since all that anyone asks of their order is which comes first
  (`FirstMapping`, the alphabetically first).
* **PreValidation** - `pre_validate` as the set of its checks that have something
  to say of a plan.
* **ColumnCopy** - what happens to the columns of one table, run after run:
  `Compare` is the delta as far as columns decide it, `Insert` and `Update` the
  statements, `Count` the pipeline's row count. `call.way` chooses between the
  pipeline's names and key and the planner's and executor's. `Finds` says which
  column a name stands for and `ResultName` under which name its value comes back,
  for either adapter; `Kept` and `Fits` are what a column does to a value. Nothing
  but the columns makes anything fail here.
* **AdapterSession** - one caller of an adapter, free to call what it likes, after
  an exception too: `Ready` asks for a connection, as the adapters do, and nothing else.
  A call is a list of statements before a `try` block, in it and in its `finally`
  block (`prepare`, `body`, `cleanup`); `Execute` and `Raise` take one of them,
  `LoseConnection` falls between any two, with the answer to the last one lost.
  `aborted` says that an error made the database undo the whole transaction: on
  PostgreSQL every error in a transaction does, and statements are then refused until
  it ends; on DB2 that of a deadlock victim, and the session goes on.
  `OpenStream` and `EndStream` are PostgreSQL's `_named_cursor`. Of the history
  variables, `owed` is what the calls that returned have promised; a call that
  raised neither adds to it nor takes from it. `unsure` is what calls that raised
  may have done on top (their own keys; on DB2 triggers or a restart; an identity
  column before or behind the `try` block), `left` what of that has ever become
  durable, `base` what was durable when the transaction began; `mixed`, `begun`
  and `selfCommitted` are limits a caller has met.
* **DependencyGraph** - `build` with `_compute_levels`. Foreign keys are pairs of
  names; `Lower` is `str.lower`. `Build` collects edges and in-degrees,
  `TakeLayer` is one round of the queue, `BreakCycle` the level of what is left
  over. Edges are a set-valued function, so duplicate foreign keys collapse as
  they do in the code's sets.
* **DeltaDetection** - `detect_delta` of one table. Each action is one statement
  or one fetch: the two counts, a page of keys, a batch of rows fetched by key,
  a page of the row stream. `Write` is an application that commits a row in
  between. PostgreSQL runs one statement per page; DB2 one per stream, whose
  fetches deliver rows as old as the statement or as new as the fetch
  (`Views`). A key is its place in the order of the primary key, `First` its
  first column: composite keys are paged by OFFSET when keys are read and by the
  first column alone when rows are. `versions` is a history variable.
* **Pipeline** - `run` and its stages. `Start` forgets everything an earlier run
  knew. `MigrateTable` is the loop over the plans: the slices of one table become
  `work`, in the order in which `_migrate_table` takes them. `FetchBatch` reads a slice of keys from the source as it is then,
  `WritePage` is one statement (a page of PostgreSQL's `execute_batch`, the whole
  batch on DB2), `WriteRefused` a statement the target refuses. `Close`, `Crash`
  and a failed stage drop what was not committed. Of the delta of a table only
  one moment is modelled here, DeltaDetection and ColumnCopy being its close-ups; `Level` is a
  constant with the levels DependencyGraph computes. `AlwaysTables` are tables
  with a GENERATED ALWAYS column. `StatementFails`, `ConnectFails`, `Crash` and
  `AppWrites` are the surroundings. `versions` is the history of each source row
  since the run began.
* **MCBatchExecutor**, **MCPlannedMigration**, **MCPipeline** - instances: two
  tables, `items` referencing `orders`. **MCDependencyGraph** - all graphs on four
  tables. **MCDeltaDetection** - keys of one and of two columns.
  **MCColumnCopy** - a key and a column on each side of it in the alphabet, one
  difference between the sides at a time. **MCAdapterSession** - two keys, two
  triggers.
* **SortedListsProofs**, **BatchExecutorProofs**, **PlannedMigrationProofs**,
  **PipelineProofs**, **DependencyGraphProofs**, **DeltaDetectionProofs**,
  **ColumnCopyProofs**, **AdapterSessionProofs** - lemmas and theorems.

`commits` is a history variable: it counts the commits of each batch, and no
action reads it. Operators introduced by "Mutant of ..." are faulty variants of
the definition that follows them. They take no part in the specification; each
is put in that definition's place to see that a property notices.

## The runs

| Run | Question | States |
|---|---|---|
| `executor_pg` | All six faults, two calls of `execute`, PostgreSQL. Are types kept, does the checkpoint follow the target, do completed batches stay settled, does a return account for every batch, does the report match the checkpoint, is a tripped table left alone, is the abstract migration refined? Yes. | 163 000 |
| `planned_crash` | Rollback mode, batches of one key, every pair of consistent contents, deaths and a second process. Is a statement of the first pass refused? No. If `execute` returns, has the target caught up? Yes. | 542 000 |
| `planned_sync` | Sync mode, batches of two keys, DB2 with an ALWAYS identity on `items`, every fault but failing statements; statements are refused where an earlier batch has failed. Is a batch that DB2 has committed only half of ever recorded as completed? No. Does a return without failed batches mean caught up, is the column altered back, does `execute` end? Yes. Does a row go away? No. Is a passed validation worth what it can be, and is a complete migration spared its alarms? Yes. | 473 000 |
| `planned_gaps` | Rollback mode, batches of two keys. Is a row the source has ever deleted? **It is**: see Findings. | |
| `resume_raises` | A crash, nothing else, in a table of five insert batches. Does executing again raise? **It does**: see Findings. | |
| `graph_levels` | Every set of foreign keys among four tables, with a self-reference and an unknown table. Do children come after parents, no later than needed, cycles last, do both orders follow, does `build` return? Yes. | 61 000 |
| `delta_auto` | AUTO on a one-column key, two writes by applications; the primary keys of a two-column key, one update; source PostgreSQL, target DB2. Is every entry explained, are kept rows spared, does the checksum read every row, does detection end? Yes. | 501 000 |
| `delta_checksum_composite` | A two-column key, nobody writes. Does the checksum read every row? **It does not**: see Findings. | |
| `pipeline_pg` | PostgreSQL, sync mode, in which only the planning stage looks after deletes; runs with different flags one after the other, deletes allowed for `items` or for both tables, one application write, one failure or crash, any number of runs. Does success mean copied, do kept rows survive? Yes. Is anything written or deleted unconfirmed, is an undisturbed run refused anything but a delete of a parent? No, no. Do repeated confirmed runs bring the target up to date? Yes. | 591 000 |
| `pipeline_db2` | A DB2 target. Does success mean copied? **It does not**: see Findings. | |
| `columns` | A table whose sides differ in one way, on each pair of adapters that can have it, migrated again and again by the pipeline and by planner and executor, one application write. Are columns copied, does a second run find nothing to do, is a failure announced, are columns of the target alone kept? Yes, as far as the properties say. | 344 000 |
| `session` | Any three calls of an adapter, transactions and a server-side cursor among them, after exceptions too, two failures. Does a failed call spare the work of the others, does commit keep all and rollback undo all, is a call outside transactions durable? Yes. Are triggers or the identity column ever durable half switched? Only in the two ways that `SchemaIsLeftWhole` names. | 943 000 |

`CHECK_DEADLOCK FALSE` stands in the configurations of systems that really stop,
when `execute`, `build` or `detect_delta` has returned or raised, or a run has
ended, and a bound is used up. `columns` and `session` are checked for deadlock.

TypeOK of DeltaDetection, Pipeline, ColumnCopy and AdapterSession says which values their
variables take; it is no property of a run.

### Bounds, and why they suffice

* Two tables, one referencing the other: ordering needs a parent and a child,
  and breaker and store treat tables independently.
* Keys `1..2` or `1..3`: a batch of two keys with a gap needs three keys.
* Row versions `old` and `new`: a row is up to date or not. Where a run has one
  version no updates are planned, and the row count matters instead.
* `MaxRuns` 1 or 2: one rerun meets every state that a run can leave behind;
  `executor_pg` and `planned_*` start it from each of them.
* `MaxConsecutive` 2 in `executor_pg` and `planned_sync`, so that a table can trip within the
  two or three batches it has; the code's default 3 in the others. The failure
  rate is the code's 1/2, from the fifth batch on, reached in the six-batch
  manifests.
* `Faults`: any number of faults of the kinds given may occur.
* Four tables in `graph_levels`: a cycle of two, a table behind it, and one that
  is free; or a diamond. The graphs are all those on four tables.
* `delta_*`: three or four keys and pages of two, so that a stream has a full
  page, a boundary and a short page; the checksum threshold is 3 rows instead
  of a million, so AUTO meets empty, small and large tables. `maxWrites` 2: one
  write ahead of the reader and one behind it. A row of the source starts as
  `v1`: versions are only compared with one another, so that loses nothing.
* `pipeline_*`: `MaxWrites` and `MaxFaults` 1, while the number of runs is not
  bounded. `pipeline_pg` has the confirmed combination of the flags and the
  three that lack one of them, a profile that allows all deletes, and targets
  whose rows are all out of date. `PageSize` 1 below `BatchSize` 2 lets a failure
  fall between two pages of a batch.
* `SampleSize` 1 in `planned_*`, so that a table of two rows has one that the
  validator does not look at.
* `columns`: two keys, so that one row can be inserted and one updated; a column
  before and one behind the key in the alphabet, as the executor takes the first
  for the key. The sides differ in one way at a time: what a column does to its
  values does not depend on the other columns. The lengths are one too short for
  the value `long` and one long enough. One application write is enough to make
  any value change into any other; the number of runs is not bounded.
* `session`: `MaxCalls` 3, a call before, in and after a transaction;
  `MaxFaults` 2, a statement that fails and a connection lost in the `finally`
  block that follows. Connecting, begin, commit, rollback and cursors are not
  counted. `ChunkSize` and `PageSize` 1 put a boundary between any two rows.

### Fairness

`FairSpec` of the executor is weak fairness of `Step`, the executor's own steps:
one thread that keeps being scheduled as long as its process lives. Nothing is
assumed of `Fault`, `Execute` and `Resume`. `ExecuteEnds` uses it.
`BuildReturns` and `DetectionEnds` assume the same of the one thread that builds
the graph or reads the tables, and nothing of the applications; those stop
writing because of `maxWrites`, which an endless stream of inserts at the end of
the table would not. `EventuallyCopied` also assumes that among the operator's
runs, whatever their flags, there are always confirmed ones again whose profile
allows no deletes that foreign keys might refuse (`SF_vars(ConfirmedRun)`):
without a checkpoint, running again is the way on after a failure.

## Findings

1. **A resumed migration re-executes completed batches and may raise**
   (`resume_raises`). Only the last completed batch of a table is skipped, so
   the earlier ones run again; insert batches fail on duplicate keys and the
   third failure in a row raises `CircuitBreakerError`. The documentation says a
   crashed migration resumes from the last committed batch. `planned_crash`
   shows what still holds: if the second run returns, the target has caught up.
2. **A delete batch deletes rows the source has** (`planned_gaps`), if its
   first and last key enclose a key present on both sides.
3. **The checksum strategy misses rows of composite keys**
   (`delta_checksum_composite`): pages continue behind the first column, so
   rows that share it with the last row of a page are skipped. Rows missed in
   one database only are then inserted or deleted.
4. **On a DB2 target the pipeline's writes are lost** (`pipeline_db2`): nobody
   commits, `close` rolls back, and the row counts are compared on the same
   connection before that. The run is reported successful.

### Known limits

What the passing runs hold back from, because it is known to fail. Each can be
seen by changing the constant named.

* DB2 commits inside `insert_batch`, in a `finally` block too
  (`database/db2.py` 700, 956), so a batch with an identity override is not
  atomic: `ImplementsAtomicMigration` with `Adapter = "db2"` and a table in
  `AlwaysTables`.
* The pipeline deletes parents first (`orchestration/__init__.py` 497, 564) and
  foreign keys refuse it; `get_delete_order` (`comparison/dependency.py` 109) would
  give the right order, but the pipeline does not call it. This is the exception in
  `QuietRunsAreNotRefused`, which the runs of `pipeline_pg` with both tables in
  `delete_allowed` meet. Such a run fails however often it is repeated.
* The pipeline's plans carry no identity strategy (484), so inserts into a
  GENERATED ALWAYS column are refused: `QuietRunsAreNotRefused` with
  `AlwaysTables = {"orders"}`.
* VALIDATE_POST asks for equal counts in every mode (637): a sync run is
  reported failed if the target has rows of its own. In sync mode, too, rows
  are deleted from the tables in `delete_allowed_tables` (448), confirmed.
* No automation mode approves anything: without `--confirm` the migration is
  skipped before the policy is asked (254).
* Composite keys are paged by OFFSET (`database/postgresql.py` 566), one statement a
  page: a source row deleted from an earlier page meanwhile makes the next one pass
  over another, which is then listed for deletion. `KeptRowsAreNotDeleted` (and
  `DeltaIsExplained`) is violated in `delta_auto` with `Calls <- OffsetCalls`.
* PostgreSQL's row stream starts behind -1 (461), so rows with negative keys are not
  read. `ChecksumReadsEveryRow` (and `DeltaIsExplained`) is violated in `delta_auto` with
  `Calls <- NegativeCalls` and `Keys <- NegativeKeys`.

The following are conditions in the properties themselves.

* *Which column is the key.* The orchestrator takes the primary key in lower case,
  DeltaPlanner none at all: `pk_columns`, which `models/__init__.py` 214 says is
  set during planning, is not, and the executor then takes the first mapping, the
  alphabetically first column of either side. It finds other rows or none there, and
  reports success: `ColumnsAreCopied` is violated in `columns` without `KeyIsFirst`.
* *Names with capitals.* On PostgreSQL they break COMPARE if only one side
  has them. DB2Adapter returns lower-case names only, so such a column is
  missing in each row it reads: always different, except from NULL, and a change
  to NULL is never copied (`TakenFor`, `SpelledAlike`).
* *NULL and the empty string* have the same row hash (`Seen`).
* *CHAR.* A column that pads what is written to it is different from its
  unpadded source for ever, and updated by every run (`RunsSettle`).
* *What `pre_validate` does not look at* (`NotLookedAt`): spelling, the key's
  column, who generates the key; lengths, unless the source's encoding is
  multi-byte, which `get_database_metadata` never finds out, and unless
  "varchar" is in the type's name, as it is not in PostgreSQL's "character
  varying"; source-only columns in the orchestrator's plans, which leave
  `source_only_columns` empty.
* *What `post_validate` does not look at*: keys behind its first page, the values
  of rows, the result of its foreign key query, and the sequence behind an
  identity column, whose name one check has. It assumes the key is called "id".
* *PostgreSQL sessions.* `rollback_transaction` says it restores autocommit and
  does not; neither does `commit`: later calls outside transactions stay
  uncommitted (`begun`). What a caller writes while a server-side cursor opened in
  autocommit mode is read is rolled back with it (`mixed`). `commit` after an error
  keeps nothing and returns normally (`aborted` in `CommitKeepsAll`): a caller
  that caught the error loses the work before it without a sign. What becomes of a
  cursor when its caller commits or rolls back under it is not modelled.
* *DB2 sessions.* Bulk loads, trigger switches, identity resets and overridden
  inserts commit what their caller has not committed (`selfCommitted`). After the
  rollback of a deadlock victim nothing but the exception tells the caller that its
  earlier calls are gone; if it goes on, its commit keeps the later ones only
  (`aborted` in `WorkIsKept` and `CommitKeepsAll`).
* *Altering back* (`left` in `SchemaIsLeftWhole`). A DB2 `disable_triggers` that
  fails between two triggers (`database/db2.py` 889-892) neither goes on nor rolls
  back, so any commit that follows, the caller's or that of a later bulk load,
  makes triggers durable half off; likewise the first ALTER of an override whose
  own commit failed. And an ALTER of a `finally` block that fails, or is not reached
  because the connection is lost, leaves the column BY DEFAULT. DB2's override
  sets the column to GENERATED ALWAYS whatever it was: callers must ask for it only
  where it is ALWAYS, as `Call` says.

## The proofs

Assumptions are the ASSUMEs of the modules: types of the constants; `Inputs`
well typed; no row references a row of its own table; finite sets of keys,
tables or triggers where they are counted. Nothing bounds the number of tables,
keys, columns, batches, calls or runs, or the sizes of pages and chunks, and the
set of faults and the adapter are arbitrary unless stated. Unless it says
otherwise a theorem below is a property of a run, stated for every value of the
constants; what else it assumes is in its statement and named here.

### The executor (`BatchExecutorProofs`)

* `TypeCorrectness`: `Spec => []TypeOK`, component by component
  (`StoreOperations`, `BreakerOperations`, `TargetOperations`, `ExecStep`).
* `CheckpointFollowsCommit`: `Spec => []CompletedImpliesCommitted`. The
  invariant alone is not inductive: `Complete` marks the batch in hand. `CommitInv`
  adds that at `pc = "complete"` that batch has been committed. `NewlyCompleted`
  says no other step makes a batch completed, `CommitsGrow` that no commit is
  ever taken back.
* `Refinement`: on PostgreSQL, or with no identity column to override
  (`NoOverrides`), `Spec => ImplementsAtomicMigration`. `SessionInv` says that
  outside a transaction the session sees what is durable and that at
  `pc = "commit"` it sees exactly the whole batch, accepted as the durable contents
  stood. Then `Commit` and `CommitAckLost` are `Apply`, `Complete` is `Record`,
  marking a batch running or failed is `Withdraw`, and every other step
  stutters. Without `NoOverrides` it is false (Known limits).
* `TrippedTables`: `Spec => TrippedTableIsLeftAlone`, for either adapter.
  `LocalInv` says session and durable contents differ only inside the range of
  the batch in hand, so a step changes only durable rows of that range
  (`DurableChange`); `TrippedInv` says the table of the batch in hand has not
  tripped.
* `CompletedBatchesStaySettled`: `Spec => []CompletedBatchesAreSettled`, for
  either adapter. `SettledInv` says the batch in hand is not recorded as
  completed, and that it is settled in the session before the commit and in the
  durable contents after. It rests on `EffectIdempotent` (executing a batch
  twice leaves what executing it once leaves) and `SettledLocal` (whether a
  batch has anything to do depends on its range only).
* `ReportsAreOnRecord`: `Spec => []ReportMatchesCheckpoint`. `InHandInv` says
  the batch in hand is recorded as running until its outcome is, so the outcome
  of an earlier pass never survives under a new report.
* `ReturnsAccount`: `Spec => []ReturnAccountsForAll`. `AccountInv` says that
  each batch the loop has visited is recorded as completed, reported failed, or
  of a tripped table, and that at the return it has visited all; with
  `CommitInv`, completed means committed.
* `IdentitiesAreRestored`: `Spec => []IdentityIsRestored`, if `"statement"` is
  not among the `Faults`: where an ALTER may fail, the `finally` block leaves
  the column as it is. `IdentityInv` says a column that is BY DEFAULT is owed
  (`OwedTo`) to a batch that overrides it, has not been completed and is still to
  come, unless its table has tripped. That is what makes the property survive
  deaths: the batch a dead process left is executed again.

### Planned migrations (`PlannedMigrationProofs`)

Hypothesis of all but `PassIsWorth` and `PlannerPlansWell`: `PlansAreWellMade`,
every input is `WellPlanned`. Where ranges have gaps the conclusions are false
(finding 2); where they have none, it is what the planner gives:

* `PlannerPlansWell`: the plan of any two contents is `WellPlanned`, if no table is
  skipped (rows of skipped tables stay as they are, while `WellPlanned` speaks of
  all rows) and either `BatchSize` is 1 or the ranges have no gaps.
  `PlanLists` says `Plan` lists each batch of `BatchesOf` once; a difference lies in
  some piece of its list of keys, whose first and last key enclose it; pieces are
  disjoint and in order, and so are their ranges. `SingleKeysLeaveNoGaps` is the
  case of batches of one key.
* `MigrationsCatchUp`: `Spec => []ReturnMeansCaughtUp`. `Reached` says that a row
  is always as the target had it or as the source has it; `DoneInv` that the rows
  of a batch that is through are right, in the session before its commit, in the
  durable contents after. The return accounts for all batches (`ReturnInv`), and
  the plan is complete, so all rows are right.
* `CommonRowsStay`: no row that both sides have is ever deleted. Only the violation
  run `planned_gaps` checks `CommonRowsSurvive`, without the hypothesis.
* `SyncKeepsRows`: `Spec => SyncDeletesNothing`: well made plans of sync mode have
  no delete batches.
* `AlarmsAreTrue`: `Spec => []NoFalseAlarm`, from `MigrationsCatchUp`'s invariant
  `RightInv`, and `NoErrors`: contents that have caught up give the validator
  nothing to say.
* `StatementsAreAccepted`: `Spec => []NoStatementIsRefused`, if also nothing fails
  but the process (`OnlyCrashes`), the levels of the tables follow the foreign keys
  (`LevelsFit`, which the dependency graph's `ParentsComeFirst` gives for acyclic
  ones) and the foreign keys of the source hold. `FirstPassInv` says that in a first pass
  the batches before the one in hand are completed, and a row differs from what the
  target had only where one of them, or the one in hand, has written; so parents
  are there before children, and children gone before parents.
* `PassIsWorth`: `Spec => []PassMeansKeysCopied`, for tables and samples of any
  size. It is an argument about contents alone and so needs no invariant:
  `KeysAreCounted` (row counts are numbers), `ExtraRowsMakeUp` (a target with as
  many rows that lacks one has another) and `AsManyExtraAsMissing` (equal counts
  mean equally many).

### The dependency graph (`DependencyGraphProofs`)

* `GraphTypeCorrectness` and `ParentsComeFirst`: `Spec => []TypeOK`, and, if
  the names of the tables are lower case (`AllLowerCase`, which
  `get_database_metadata` sees to, `database/__init__.py` 187), `Spec => []ForeignKeysAreOrdered`, for any finite schema. `LoopInv` is
  the invariant of the loop: in-degrees count the dependencies without a level, the
  queue is exactly the tables without a level that have none, and
  levels given so far respect the edges. `QueueRunsDry` turns an empty queue
  into a statement about what is left over: each such table has a dependency
  among them, so all are behind a cycle.
* `OrdersAreByLevel`: `Spec => []OrdersFollowLevels`. `OrderInv` says the i-th
  layer of the order is the tables of level i - 1.
* `NoTableWaits`: `Spec => []LevelsAreTight`. `TightInv` says a table in the queue
  has a dependency in the layer taken last.
* `CyclesAreLast`: `Spec => []CyclesComeLast`, with `AllLowerCase`. `CycleInv`
  says no table behind a cycle gets a level while layers are taken: a set of
  tables that wait for each other would have to have a first one.

### The detector (`DeltaDetectionProofs`)

`TypeCorrect` holds for every call. The other three are stated under `Orderly`:
a PostgreSQL side has a key of one column that is never negative. Both parts are
needed (finding 3, Known limits); DB2 is not restricted.

* `DeltasAreExplained`, `KeptRowsStay`, `ChecksumsAreComplete`:
  `Spec => [](Orderly => P)` for `DeltaIsExplained`, `KeptRowsAreNotDeleted` and
  `ChecksumReadsEveryRow`. The invariant `ReadInv` is about positions: what a
  stream has read of a key was one of its versions (`HistoryInv`, `FetchInv`,
  `HashInv`); a key the stream has passed (`Behind`) without noticing it was absent in
  some version (`ScanInv`, `HashInv`); a stream ends only when it has passed
  every key, which is an argument about the size of the last page. `StreamInv`,
  `CountInv` and `StrategyInv` tie the place in the code to what has been read.
  Applications may write as often as they like.

### Columns (`ColumnCopyProofs`)

* `ColumnsKeepTheirTypes`, `RunsCopyColumns`, `RunsComeToRest`,
  `FailuresAreForeseen`: `Spec => []P` for `TypeOK`, `ColumnsAreCopied`, `RunsSettle`,
  `FailuresAreAnnounced`, and `OwnColumnsAreKept`:
  `Spec => TargetOnlyColumnsAreKept`. `CopyInv` is the inductive invariant:
  what the source holds was stored in its columns (`SourceInv`); the keys that are
  not in what is left of the delta agree (`DeltaInv`); a run that ended well has
  left agreement (`CopiedInv`); where `pre_validate` has nothing to say and
  nothing to overlook, nothing has failed (`FailureInv`). The constants may have
  any alphabet, any columns and types, and any values. `TypeOK` is proved only.

### Sessions (`AdapterSessionProofs`)

* `WorkStaysDone`, `CommitsAreComplete`, `RollbacksAreComplete`,
  `UnbegunWorkIsSafe`, `SchemaStaysWhole`: `WorkIsKept`, `CommitKeepsAll`,
  `RollbackUndoesAll`, `UnbegunWorkIsDurable` and `SchemaIsLeftWhole`, for any
  keys, triggers and calls, without further hypotheses: calls after an exception
  and commits of aborted transactions included. The invariant `SessionInv`, which
  TLC has checked on the run `session` first, says what is true between any two
  statements: `ConnectionInv` and `TransactionInv` what the connection's mode and
  open transaction are; `StatementsInv` that what is left of a call is what that
  call may have left; `CallInv` how far the call has come (`RowPhase`, `IdentityPhase`,
  `SwitchPhase`, `ResetPhase`, `LoadPhase`): what it is asked for is done except for
  the keys or triggers its remaining statements name (`KeysLeft`, `TriggersLeft`);
  `OwedInv` that session and promise agree outside the call in hand but for `unsure`,
  which `Agrees` leaves open, whatever failed; `WholeInv` in which phase the identity
  column is, and that triggers are half off (`AllOrNone`) or the column not
  `AsFound` only with a statement still to come, in `unsure` or in `left`.
  `PiecesCover` says pages and chunks of any size leave out no key.

### The pipeline (`PipelineProofs`)

For any tables, rows, flags, number of runs and writes by applications. TLC has
checked the three invariants on `pipeline_pg` and `pipeline_db2` first.

* `OnlyConfirmedRunsWrite` and `KeptRowsStay`: `Spec => OnlyConfirmedWrites` and
  `Spec => KeptRowsSurvive`, for either adapter. `SoundInv` follows what is to be
  written through the run: a key listed for deletion was seen to be missing
  (`DeltasAreSound`), and once planned its table is one in which deletes are allowed
  (`PlansAreSound`); MIGRATE is reached confirmed (`RunIsConfirmed`); slices and
  batch inherit both (`WorkIsSound`, `BatchIsSound`); other values written are
  versions the source has had. `DurableWrites`: durable rows change by the batch
  in hand only.
* `SuccessfulRunsCopy`: `Spec => []SuccessMeansCopied` on PostgreSQL; on DB2 it
  is false (finding 4). `CopyInv` says that from the comparison of a table on
  (`Reached`) no row of it is missed: it is in the target as it should be, or it is
  still listed (`Owed`, `ToDo`) in the delta, then in a plan, then in a slice or the
  batch. When MIGRATE has ended well nothing is listed any more, and PostgreSQL has
  committed each statement (`TargetIsDurable`).
* `QuietRunsPass`: `Spec => QuietRunsAreNotRefused`, under `ForeignKeysFit`: no
  compared table has a GENERATED ALWAYS column (Known limits), the foreign keys
  of the source hold, and they lead from compared tables to compared tables of
  lower levels. `QuietInv` says plans are in the order of the levels, each table
  once; slices and batch are of the table MIGRATE has come to and share no row;
  and what is still to be inserted is missing. With `CopyInv`, a parent that is
  no longer listed is there.

### Sorted lists (`SortedListsProofs`)

What the proofs about planner, pipeline and sessions cite: places are distinct
and grow with the keys, the pieces of a list cover it, do not overlap and lie
in order, and `InOrder` lists each element once, earlier ones first. They rest
on the library's facts about cardinalities.

### What is only model-checked

Liveness (`ExecuteEnds`, `BuildReturns`, `DetectionEnds`, `EventuallyCopied`):
it needs ENABLED. `SuccessMeansCopied` and `QuietRunsAreNotRefused` where the
hypotheses above do not hold; what the violation runs show.

## Left out, and why

* Composite and non-integer keys in the executor: its
  `range(start_pk, end_pk + 1)` raises on them and the batch fails like any
  other. The planner never sets a plan's `pk_columns`, so they cannot get there
  by it.
* References of a row to its own table: whether they hold inside a batch
  depends on the order of its rows.
* Writers other than the migration, on source or target during `execute`, on the
  target during a pipeline run.
* Loss of SQLite's last transactions on power failure (WAL with
  `synchronous=NORMAL`); a process death does not lose them. `create_migration`
  failing, and a lost answer to the commit of DB2's ALTER.
* In the pipeline: tables without any key, which COMPARE skips; the report
  file; `resume`, which `run` does not read; `run_stage`, a placeholder. Pipeline
  takes the columns to be the same on both sides; ColumnCopy is about those.
* Of the validator: missing tables and keys in `pre_validate`, which no plan made
  from the compared schemas has; the row counts of a batch and the foreign key
  spot check, which pass whatever is there; the note on deletes. Nothing outside
  the tests calls it; ValidatedMigration is the use its interface is meant for.
* Sequence differences of SchemaComparator: `get_database_metadata` leaves the
  lists it compares empty.
* `execute` and `execute_many` of the adapters, which send the caller's SQL.
  PostgreSQL's COPY expects a header line in the file where DB2's insert fallback
  does not: files are sets of rows here.
* `get_pending_batches` and `get_migration_status`, which only read, and the
  `ddl_changes` table: nothing in `src/` outside the tests calls them.
* Performance tracker, logging, discovery, configuration, command line and the
  test harness: they measure, format, read catalogues or parse YAML and
  arguments; what of it matters is a CONSTANT.

## Plan

1. The safe half of convergence: that a confirmed run nobody disturbs and nothing
   makes fail leaves the target equal to the source in the compared tables.
2. `Pipeline` over a delta read page by page, `DeltaDetection` refining
   `DeltaPlanner.Delta` when nobody writes.
3. The `ddl_changes` table, once something calls it.
