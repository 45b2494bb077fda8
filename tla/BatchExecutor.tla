---------------------------- MODULE BatchExecutor ----------------------------
(***************************************************************************)
(* BatchExecutor.execute: one pass over the batches of a manifest, each in *)
(* a transaction of its own, with a checkpoint row per batch and a circuit *)
(* breaker.  The executor is one thread; what interleaves with it are      *)
(* failing statements and commits, failing checkpoint writes, and the      *)
(* death of the process, after which a new process may execute the same    *)
(* manifest against the same checkpoint file and the same target.          *)
(*                                                                         *)
(* pc is the place in execute and _execute_batch:                          *)
(*   idle      execute has not been called                                 *)
(*   scan      the head of the loop over the batches                       *)
(*   save      mark_batch_started done, save_batch next                    *)
(*   begin     begin_transaction next                                      *)
(*   apply     the statements of the batch next                            *)
(*   write     (DB2) identity column altered, the rows next                *)
(*   restoreOk, restoreFailed                                              *)
(*             (DB2) the finally block, rows written or an exception live  *)
(*   commit    commit next                                                 *)
(*   complete  mark_batch_completed and record_success next                *)
(*   rollback  an exception is being handled, rollback_transaction next    *)
(*   fail      mark_batch_failed and record_failure next                   *)
(*   done, raised                                                          *)
(*             execute returned, or let an exception out                   *)
(*   lost      an exception left execute with the target connection broken *)
(*   crashed   the process died                                            *)
(***************************************************************************)
EXTENDS CheckpointStore, CircuitBreaker, TargetDatabase, Sequences

CONSTANTS
    Level,              \* dependency level the planner gave each table
    Inputs,             \* the manifests and database contents to start from
    Faults,             \* the kinds of failure the environment may cause
    MaxRuns             \* bound: how often execute is called

ASSUME LevelAssumption == Level \in [Tables -> Nat]
ASSUME FaultsAssumption ==
    Faults \subseteq {"statement", "commit", "ack", "rollback", "checkpoint", "crash"}
ASSUME MaxRunsAssumption == MaxRuns \in Nat
ASSUME InputsAssumption ==
    \A i \in Inputs :
        /\ i.manifest \in Seq(Batch)
        /\ DOMAIN i.manifest \subseteq BatchIds
        /\ i.source \in Contents
        /\ i.target \in Contents

VARIABLES
    manifest,           \* the batches, in the order the planner listed them
    source,             \* the source's rows; the executor only reads them
    pc,
    cur,                \* the batch in hand, while pc is inside _execute_batch
    status,             \* batch.status of the in-memory batches
    visited,            \* the batches this call of execute is through with
    commits,            \* history: how often a batch's transaction committed
    runs                \* how often execute has been called

execVars == <<manifest, source, pc, cur, status, visited, commits, runs>>
vars == <<storeVars, breakerVars, targetVars, execVars>>

Ids == DOMAIN manifest
TableOf(b) == manifest[b].table
Siblings(b) == {c \in Ids : TableOf(c) = TableOf(b)}

InBatch == {"save", "begin", "apply", "write", "restoreOk", "restoreFailed",
            "commit", "complete", "rollback", "fail"}
Running == {"scan"} \cup InBatch
Stopped == {"done", "raised", "lost", "crashed"}

ExecTypeOK ==
    /\ manifest \in Seq(Batch)
    /\ Ids \subseteq BatchIds
    /\ source \in Contents
    /\ pc \in {"idle"} \cup Running \cup Stopped
    /\ pc \in InBatch => cur \in Ids
    /\ status \in [Ids -> BatchStatus]
    /\ visited \subseteq Ids
    /\ commits \in [Ids -> Nat]
    /\ runs \in Nat

\* Every component is in a state of its type; while a batch is in hand, cur
\* names a batch of the manifest.
TypeOK ==
    /\ StoreTypeOK
    /\ BreakerTypeOK
    /\ TargetTypeOK
    /\ ExecTypeOK

-------------------------------------------------------------------------------
(* The order of execution: inserts, then updates, then deletes; inside each *)
(* by dependency level, deletes from the highest level down, and batches of *)
(* one level in the order of the manifest (both sorts are stable).          *)

Phase(b) == CASE manifest[b].op = "insert" -> 1
              [] manifest[b].op = "update" -> 2
              [] manifest[b].op = "delete" -> 3

\* Mutant of SortKey: deletes in the order of inserts.
AscendingKey(b) == Level[TableOf(b)]

SortKey(b) == IF manifest[b].op = "delete" THEN -Level[TableOf(b)]
                                           ELSE Level[TableOf(b)]

Before(b, c) ==
    \/ Phase(b) < Phase(c)
    \/ Phase(b) = Phase(c) /\ SortKey(b) < SortKey(c)
    \/ Phase(b) = Phase(c) /\ SortKey(b) = SortKey(c) /\ b < c

IsNext(b) ==
    /\ b \in Ids \ visited
    /\ \A c \in Ids \ visited : c = b \/ Before(b, c)

-------------------------------------------------------------------------------
Init ==
    /\ \E i \in Inputs :
        /\ manifest = i.manifest
        /\ source = i.source
        /\ TargetInit(i.target)
        /\ status = [b \in DOMAIN i.manifest |-> "pending"]
        /\ commits = [b \in DOMAIN i.manifest |-> 0]
    /\ StoreInit
    /\ FreshBreaker
    /\ pc = "idle"
    /\ cur = 0
    /\ visited = {}
    /\ runs = 0

\* execute is called (again) on the same executor, with the same manifest
\* object, breaker and connections.
Execute ==
    /\ pc \in {"idle", "done", "raised"}
    /\ runs < MaxRuns
    /\ CreateMigration
    /\ pc' = "scan"
    /\ visited' = {}
    /\ runs' = runs + 1
    /\ UNCHANGED <<breakerVars, targetVars, manifest, source, cur, status, commits>>

\* A new process executes the manifest against the old checkpoint file.
Resume ==
    /\ pc \in Stopped
    /\ runs < MaxRuns
    /\ CreateMigration
    /\ Reconnect
    /\ ResetBreaker
    /\ status' = [b \in Ids |-> "pending"]
    /\ pc' = "scan"
    /\ visited' = {}
    /\ runs' = runs + 1
    /\ UNCHANGED <<manifest, source, cur, commits>>

-------------------------------------------------------------------------------
(* The loop of execute.                                                     *)

\* The checkpoint says this batch is its table's last completed one.
SkipCompleted(b) ==
    /\ pc = "scan"
    /\ IsNext(b)
    /\ IsLastCompleted(b, Siblings(b))
    /\ status' = [status EXCEPT ![b] = "skipped"]
    /\ visited' = visited \cup {b}
    /\ UNCHANGED <<storeVars, breakerVars, targetVars,
                   manifest, source, pc, cur, commits, runs>>

\* The breaker has tripped for the batch's table.
SkipTripped(b) ==
    /\ pc = "scan"
    /\ IsNext(b)
    /\ ~IsLastCompleted(b, Siblings(b))
    /\ IsTripped(TableOf(b))
    /\ status' = [status EXCEPT ![b] = "skipped"]
    /\ visited' = visited \cup {b}
    /\ UNCHANGED <<storeVars, breakerVars, targetVars,
                   manifest, source, pc, cur, commits, runs>>

\* Mutant of StartBatch: the breaker is not asked.
StartUnasked(b) ==
    /\ pc = "scan"
    /\ IsNext(b)
    /\ ~IsLastCompleted(b, Siblings(b))
    /\ status' = [status EXCEPT ![b] = "running"]
    /\ MarkBatchStarted(b)
    /\ cur' = b
    /\ pc' = "save"
    /\ UNCHANGED <<breakerVars, targetVars, manifest, source, visited, commits, runs>>

StartBatch(b) ==
    /\ pc = "scan"
    /\ IsNext(b)
    /\ ~IsLastCompleted(b, Siblings(b))
    /\ ~IsTripped(TableOf(b))
    /\ status' = [status EXCEPT ![b] = "running"]
    /\ MarkBatchStarted(b)
    /\ cur' = b
    /\ pc' = "save"
    /\ UNCHANGED <<breakerVars, targetVars, manifest, source, visited, commits, runs>>

Return ==
    /\ pc = "scan"
    /\ visited = Ids
    /\ pc' = "done"
    /\ UNCHANGED <<storeVars, breakerVars, targetVars,
                   manifest, source, cur, status, visited, commits, runs>>

-------------------------------------------------------------------------------
(* _execute_batch of the batch in hand.                                     *)

Goto(place) ==
    /\ pc' = place
    /\ UNCHANGED <<manifest, source, cur, status, visited, commits, runs>>

SaveRunning ==
    /\ pc = "save"
    /\ SaveBatch(cur, "running")
    /\ Goto("begin")
    /\ UNCHANGED <<breakerVars, targetVars>>

Begin ==
    /\ pc = "begin"
    /\ BeginTransaction
    /\ Goto("apply")
    /\ UNCHANGED <<storeVars, breakerVars>>

OverrideIdentity ==
    /\ pc = "apply"
    /\ NeedsOverride(manifest[cur], source)
    /\ SetIdentityGenerated(TableOf(cur), "by_default")
    /\ Goto("write")
    /\ UNCHANGED <<storeVars, breakerVars>>

\* The rows are sent: directly, or inside the identity override.
AtWrite ==
    \/ pc = "apply" /\ ~NeedsOverride(manifest[cur], source)
    \/ pc = "write"

\* Mutant of Write: the batch is checkpointed without a commit.
WriteUncommitted ==
    /\ AtWrite
    /\ ~Refused(manifest[cur], source, session)
    /\ RunStatements(Effect(manifest[cur], source, session))
    /\ Goto(IF pc = "write" THEN "restoreOk" ELSE "complete")
    /\ UNCHANGED <<storeVars, breakerVars>>

Write ==
    /\ AtWrite
    /\ ~Refused(manifest[cur], source, session)
    /\ RunStatements(Effect(manifest[cur], source, session))
    /\ Goto(IF pc = "write" THEN "restoreOk" ELSE "commit")
    /\ UNCHANGED <<storeVars, breakerVars>>

\* A statement is refused, or fails; the statements before it have run.
WriteFails ==
    /\ AtWrite
    /\ Refused(manifest[cur], source, session) \/ "statement" \in Faults
    /\ \E ran \in SUBSET (TouchedRows(manifest[cur], source)
                            \ RefusedRows(manifest[cur], source, session)) :
           RunStatements(WriteRows(manifest[cur], source, session, ran))
    /\ Goto(IF pc = "write" THEN "restoreFailed" ELSE "rollback")
    /\ UNCHANGED <<storeVars, breakerVars>>

\* Mutant of RestoreIdentity: the column is altered back on success only, not
\* in a finally block.
RestoreOnSuccess ==
    /\ \/ /\ pc = "restoreOk"
          /\ SetIdentityGenerated(TableOf(cur), "always")
          /\ Goto("commit")
       \/ /\ pc = "restoreFailed"
          /\ UNCHANGED targetVars
          /\ Goto("rollback")
    /\ UNCHANGED <<storeVars, breakerVars>>

\* Mutant of RestoreIdentity: the finally block swallows the exception.
RestoreAndForget ==
    /\ pc \in {"restoreOk", "restoreFailed"}
    /\ SetIdentityGenerated(TableOf(cur), "always")
    /\ Goto("commit")
    /\ UNCHANGED <<storeVars, breakerVars>>

RestoreIdentity ==
    /\ pc \in {"restoreOk", "restoreFailed"}
    /\ SetIdentityGenerated(TableOf(cur), "always")
    /\ Goto(IF pc = "restoreOk" THEN "commit" ELSE "rollback")
    /\ UNCHANGED <<storeVars, breakerVars>>

\* begin_transaction, an ALTER or a read of the source raises.
StepFails ==
    /\ "statement" \in Faults
    /\ pc \in {"begin", "apply", "restoreOk", "restoreFailed"}
    /\ Goto("rollback")
    /\ UNCHANGED <<storeVars, breakerVars, targetVars>>

CountCommit ==
    /\ commits' = [commits EXCEPT ![cur] = @ + 1]
    /\ UNCHANGED <<manifest, source, cur, status, visited, runs>>

Commit ==
    /\ pc = "commit"
    /\ CommitWork
    /\ CountCommit
    /\ pc' = "complete"
    /\ UNCHANGED <<storeVars, breakerVars>>

\* Mutant of CommitFails: a failed commit is retried, without a limit.
RetryCommit ==
    /\ "commit" \in Faults
    /\ pc = "commit"
    /\ RollbackWork
    /\ Goto("begin")
    /\ UNCHANGED <<storeVars, breakerVars>>

CommitFails ==
    /\ "commit" \in Faults
    /\ pc = "commit"
    /\ Goto("rollback")
    /\ UNCHANGED <<storeVars, breakerVars, targetVars>>

\* The server committed, but the client got an error in place of the answer.
CommitAckLost ==
    /\ "ack" \in Faults
    /\ pc = "commit"
    /\ CommitWork
    /\ CountCommit
    /\ pc' = "rollback"
    /\ UNCHANGED <<storeVars, breakerVars>>

\* The status attribute is set before the checkpoint is written.
Complete ==
    /\ pc = "complete"
    /\ status' = [status EXCEPT ![cur] = "completed"]
    /\ MarkBatchCompleted(cur)
    /\ RecordSuccess(TableOf(cur))
    /\ visited' = visited \cup {cur}
    /\ pc' = "scan"
    /\ UNCHANGED <<targetVars, manifest, source, cur, commits, runs>>

\* mark_batch_completed raises inside the try block: the committed batch is
\* handled as a failed one.
CompleteFails ==
    /\ "checkpoint" \in Faults
    /\ pc = "complete"
    /\ status' = [status EXCEPT ![cur] = "completed"]
    /\ pc' = "rollback"
    /\ UNCHANGED <<storeVars, breakerVars, targetVars,
                   manifest, source, cur, visited, commits, runs>>

Rollback ==
    /\ pc = "rollback"
    /\ RollbackWork
    /\ status' = [status EXCEPT ![cur] = "failed"]
    /\ pc' = "fail"
    /\ UNCHANGED <<storeVars, breakerVars, manifest, source, cur, visited, commits, runs>>

\* rollback_transaction raises, the connection being broken; the server drops
\* the open transaction and the exception leaves execute.
RollbackFails ==
    /\ "rollback" \in Faults
    /\ pc = "rollback"
    /\ RollbackWork
    /\ Goto("lost")
    /\ UNCHANGED <<storeVars, breakerVars>>

\* record_failure may raise CircuitBreakerError, which leaves execute.
Fail ==
    /\ pc = "fail"
    /\ MarkBatchFailed(cur)
    /\ RecordFailure(TableOf(cur))
    /\ IF RecordFailureRaises(TableOf(cur))
       THEN pc' = "raised" /\ UNCHANGED visited
       ELSE pc' = "scan" /\ visited' = visited \cup {cur}
    /\ UNCHANGED <<targetVars, manifest, source, cur, status, commits, runs>>

\* get_last_completed_batch, mark_batch_started, save_batch or mark_batch_failed
\* raises: none is inside the try block, so the exception leaves execute.
CheckpointFails ==
    /\ "checkpoint" \in Faults
    /\ \/ pc = "scan" /\ \E b \in Ids :
            /\ IsNext(b)
            /\ \/ UNCHANGED status
               \/ /\ ~IsLastCompleted(b, Siblings(b))
                  /\ ~IsTripped(TableOf(b))
                  /\ status' = [status EXCEPT ![b] = "running"]
       \/ pc \in {"save", "fail"} /\ UNCHANGED status
    /\ pc' = "raised"
    /\ UNCHANGED <<storeVars, breakerVars, targetVars,
                   manifest, source, cur, visited, commits, runs>>

\* The process dies; the target's server drops the open transaction.
Crash ==
    /\ "crash" \in Faults
    /\ pc \in Running
    /\ LoseConnection
    /\ RollbackWork
    /\ Goto("crashed")
    /\ UNCHANGED breakerVars

-------------------------------------------------------------------------------
\* The steps the executor takes when nothing goes wrong around it.  A refused
\* statement is the database's answer, not a fault.
Step ==
    \/ \E b \in Ids : SkipCompleted(b) \/ SkipTripped(b) \/ StartBatch(b)
    \/ Return \/ SaveRunning \/ Begin \/ OverrideIdentity
    \/ Write \/ WriteFails \/ RestoreIdentity
    \/ Commit \/ Complete \/ Rollback \/ Fail

Fault ==
    \/ StepFails \/ CommitFails \/ CommitAckLost
    \/ CompleteFails \/ RollbackFails \/ CheckpointFails \/ Crash

Next == Execute \/ Resume \/ Step \/ Fault

Spec == Init /\ [][Next]_vars

FairSpec == Spec /\ WF_vars(Step)

-------------------------------------------------------------------------------
(* Properties.                                                              *)

\* A batch the checkpoint calls completed has had its transaction committed:
\* mark_batch_completed follows the target's commit, never the other way
\* round, also when processes die and batches are executed again.
CompletedImpliesCommitted ==
    \A b \in Completed \cap Ids : commits[b] > 0

\* No two batches of the manifest reach into the same rows.
BatchesAreDisjoint ==
    \A b, c \in Ids :
        b # c => RangeRows(manifest[b]) \cap RangeRows(manifest[c]) = {}

\* A completed batch is settled: as long as batches do not overlap, its rows
\* stand in the durable contents as the batch was to leave them, so executing
\* its statements once more would change nothing.
CompletedBatchesAreSettled ==
    BatchesAreDisjoint =>
        \A b \in Completed \cap Ids :
            Effect(manifest[b], source, committed) = committed

\* When execute returns, no batch has fallen through the cracks: each has been
\* committed at some time, or is reported failed, or belongs to a table the
\* breaker has tripped for.
ReturnAccountsForAll ==
    pc = "done" =>
        \A b \in Ids :
            commits[b] > 0 \/ status[b] = "failed" \/ IsTripped(TableOf(b))

\* The batches execute reports as completed or failed are recorded as such in
\* the checkpoint, which is all a later process has to go by.
ReportMatchesCheckpoint ==
    \A b \in visited :
        status[b] \in {"completed", "failed"} => rowStatus[b] = status[b]

\* An identity column that a dead process left BY DEFAULT is GENERATED ALWAYS
\* again when a later execute returns, unless the breaker stopped its table.
IdentityIsRestored ==
    pc = "done" =>
        \A t \in AlwaysTables : identity[t] = "always" \/ IsTripped(t)

\* The durable rows of a table change no more once the breaker has tripped for
\* it, until a new process starts with a new breaker.
TrippedTableIsLeftAlone ==
    [][\A t \in Tables :
        IsTripped(t) => \A r \in Rows : r[1] = t => committed'[r] = committed[r]]_vars

\* As long as nothing fails but the process, the first pass over a plan that fits
\* the contents is refused no statement: parents are inserted before children
\* and children deleted before parents.
NoStatementIsRefused == runs <= 1 => pc # "rollback"

\* execute comes to an end, by returning or by raising.
ExecuteEnds == (pc \in Running) ~> (pc \in Stopped)

\* "A crashed migration resumes from the last committed batch, not from
\* scratch" (docs/architecture.md), by skipping "already-completed batches"
\* (the comment in execute): where nothing fails but the process, executing the
\* manifest again raises no exception.
CrashedMigrationResumes == pc # "raised"

\* The executor implements the abstract migration.
Atomic == INSTANCE AtomicMigration WITH
    data <- committed,
    applied <- {b \in Ids : commits[b] > 0},
    recorded <- Completed \cap Ids

ImplementsAtomicMigration == Atomic!Spec

===============================================================================
