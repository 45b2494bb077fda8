------------------------- MODULE BatchExecutorProofs -------------------------
(***************************************************************************)
(* Theorems about BatchExecutor, for every schema, manifest, adapter and   *)
(* set of faults: that checkpoint and target agree and the executor        *)
(* implements the abstract migration; what it leaves in the target,        *)
(* batch by batch; and what it says of that when it returns.               *)
(***************************************************************************)
EXTENDS BatchExecutor, TLAPS

-------------------------------------------------------------------------------
(* What a batch does to the rows of a database.                             *)

(***************************************************************************)
(* Running any part of a batch's statements leads from contents to         *)
(* contents.                                                               *)
(***************************************************************************)
LEMMA WriteRowsType ==
    ASSUME NEW b \in Batch, NEW src \in Contents, NEW db \in Contents, NEW done
    PROVE  WriteRows(b, src, db, done) \in Contents
<1>1. ASSUME NEW r \in Rows
      PROVE  NewValue(b, src, db, r) \in Values \cup {Absent}
  <2>1. b.op \in {"insert", "update", "delete"}
    BY DEF Batch, Operations
  <2>2. src[r] \in Values \cup {Absent}
    BY DEF Contents
  <2>. QED
    BY <2>1, <2>2 DEF NewValue
<1>. QED
  BY <1>1 DEF WriteRows, Contents

LEMMA EffectType ==
    ASSUME NEW b \in Batch, NEW src \in Contents, NEW db \in Contents
    PROVE  Effect(b, src, db) \in Contents
BY WriteRowsType DEF Effect

(***************************************************************************)
(* A batch touches only rows of its range: elsewhere its statements leave  *)
(* the contents alone.                                                     *)
(***************************************************************************)
LEMMA WriteRowsLocal ==
    ASSUME NEW b \in Batch, NEW src \in Contents, NEW db \in Contents,
           NEW done \in SUBSET TouchedRows(b, src),
           NEW r \in Rows, r \notin RangeRows(b)
    PROVE  WriteRows(b, src, db, done)[r] = db[r]
<1>1. TouchedRows(b, src) \subseteq RangeRows(b)
  BY DEF TouchedRows, FetchedRows
<1>. QED
  BY <1>1 DEF WriteRows

(***************************************************************************)
(* Executing a batch twice leaves what executing it once leaves.           *)
(***************************************************************************)
LEMMA EffectIdempotent ==
    ASSUME NEW b \in Batch, NEW src \in Contents, NEW db \in Contents
    PROVE  Effect(b, src, Effect(b, src, db)) = Effect(b, src, db)
<1>. DEFINE once == Effect(b, src, db)
            touched == TouchedRows(b, src)
<1>1. ASSUME NEW r \in touched
      PROVE  NewValue(b, src, once, r) = NewValue(b, src, db, r)
  <2>1. r \in Rows
    BY DEF TouchedRows, FetchedRows, RangeRows
  <2>2. once[r] = NewValue(b, src, db, r)
    BY <2>1 DEF Effect, WriteRows
  <2>3. b.op \in {"insert", "update", "delete"}
    BY DEF Batch, Operations
  <2>4. CASE b.op = "insert"
    BY <2>4 DEF NewValue
  <2>5. CASE b.op = "update"
    <3>1. src[r] # Absent
      BY <2>5 DEF TouchedRows, FetchedRows
    <3>2. once[r] = IF db[r] = Absent THEN Absent ELSE src[r]
      BY <2>2, <2>5 DEF NewValue
    <3>. QED
      BY <2>5, <3>1, <3>2 DEF NewValue
  <2>6. CASE b.op = "delete"
    BY <2>6 DEF NewValue
  <2>. QED
    BY <2>3, <2>4, <2>5, <2>6
<1>2. once = [r \in Rows |-> IF r \in touched THEN NewValue(b, src, db, r) ELSE db[r]]
  BY DEF Effect, WriteRows
<1>3. Effect(b, src, once)
        = [r \in Rows |-> IF r \in touched THEN NewValue(b, src, once, r) ELSE once[r]]
  BY DEF Effect, WriteRows
<1>. QED
  BY <1>1, <1>2, <1>3

(***************************************************************************)
(* Whether a batch has anything left to do depends on the rows of its      *)
(* range only.                                                             *)
(***************************************************************************)
LEMMA SettledLocal ==
    ASSUME NEW b \in Batch, NEW src \in Contents,
           NEW db1 \in Contents, NEW db2 \in Contents,
           \A r \in RangeRows(b) : db1[r] = db2[r],
           Effect(b, src, db1) = db1
    PROVE  Effect(b, src, db2) = db2
<1>1. TouchedRows(b, src) \subseteq RangeRows(b) /\ RangeRows(b) \subseteq Rows
  BY DEF TouchedRows, FetchedRows, RangeRows
<1>2. ASSUME NEW r \in TouchedRows(b, src)
      PROVE  NewValue(b, src, db2, r) = db2[r]
  <2>1. NewValue(b, src, db1, r) = db1[r]
    BY <1>1 DEF Effect, WriteRows
  <2>2. db1[r] = db2[r]
    BY <1>1
  <2>3. b.op \in {"insert", "update", "delete"}
    BY DEF Batch, Operations
  <2>. QED
    BY <2>1, <2>2, <2>3 DEF NewValue
<1>3. Effect(b, src, db2) \in Contents
  BY EffectType
<1>4. \A r \in Rows : Effect(b, src, db2)[r] = db2[r]
  BY <1>2 DEF Effect, WriteRows
<1>. QED
  BY <1>3, <1>4 DEF Contents

-------------------------------------------------------------------------------
(* Types.                                                                   *)

(***************************************************************************)
(* The initial states are well typed.                                      *)
(***************************************************************************)
LEMMA InitTypeOK == Init => TypeOK
<1> SUFFICES ASSUME Init PROVE TypeOK
  OBVIOUS
<1>1. PICK i \in Inputs :
        /\ manifest = i.manifest
        /\ source = i.source
        /\ TargetInit(i.target)
        /\ status = [b \in DOMAIN i.manifest |-> "pending"]
        /\ commits = [b \in DOMAIN i.manifest |-> 0]
  BY DEF Init
<1>2. StoreTypeOK
  BY DEF Init, StoreInit, StoreTypeOK, RowStatus
<1>3. BreakerTypeOK
  BY DEF Init, FreshBreaker, BreakerTypeOK
<1>4. TargetTypeOK
  BY <1>1, InputsAssumption DEF TargetInit, TargetTypeOK
<1>5. manifest \in Seq(Batch) /\ Ids \subseteq BatchIds /\ source \in Contents
  BY <1>1, InputsAssumption DEF Ids
<1>6. /\ pc \in {"idle"} \cup Running \cup Stopped
      /\ pc \in InBatch => cur \in Ids
      /\ visited \subseteq Ids
      /\ runs \in Nat
  BY DEF Init, InBatch
<1>7. status \in [Ids -> BatchStatus] /\ commits \in [Ids -> Nat]
  BY <1>1 DEF Ids, BatchStatus
<1>. QED
  BY <1>2, <1>3, <1>4, <1>5, <1>6, <1>7 DEF TypeOK, ExecTypeOK

(***************************************************************************)
(* Each operation of the store, the breaker and the target preserves the   *)
(* type of its own component.                                              *)
(***************************************************************************)
LEMMA StoreOperations ==
    ASSUME StoreTypeOK, NEW b, NEW s \in BatchStatus,
           \/ CreateMigration \/ LoseConnection
           \/ SaveBatch(b, s) \/ UpdateStatus(b, s) \/ UNCHANGED storeVars
    PROVE  StoreTypeOK'
<1>. USE DEF StoreTypeOK, RowStatus
<1>1. CASE CreateMigration \/ LoseConnection \/ UNCHANGED storeVars
  BY <1>1 DEF CreateMigration, LoseConnection, storeVars
<1>2. CASE SaveBatch(b, s)
  <2>1. connected' \in BOOLEAN
    BY <1>2, Zenon DEF SaveBatch
  <2>2. /\ rowStatus' = [rowStatus EXCEPT ![b] = s]
        /\ rowid' = [rowid EXCEPT ![b] = lastRowid + 1]
        /\ lastRowid' = lastRowid + 1
    BY <1>2, Zenon DEF SaveBatch
  <2>3. rowStatus' \in [BatchIds -> BatchStatus \cup {"absent"}]
    BY <2>2
  <2>4. lastRowid + 1 \in Nat
    OBVIOUS
  <2>5. rowid' \in [BatchIds -> Nat] /\ lastRowid' \in Nat
    BY <2>2, <2>4
  <2>. QED
    BY <2>1, <2>3, <2>5
<1>3. CASE UpdateStatus(b, s)
  <2>. DEFINE new == IF rowStatus[b] = "absent" THEN "absent" ELSE s
  <2>1. new \in RowStatus
    OBVIOUS
  <2>2. rowStatus' = [rowStatus EXCEPT ![b] = new]
    BY <1>3 DEF UpdateStatus
  <2>3. UNCHANGED <<connected, rowid, lastRowid>>
    BY <1>3 DEF UpdateStatus
  <2>. QED
    BY <2>1, <2>2, <2>3
<1>. QED
  BY <1>1, <1>2, <1>3

LEMMA BreakerOperations ==
    ASSUME BreakerTypeOK, NEW t,
           \/ ResetBreaker \/ RecordSuccess(t) \/ RecordFailure(t)
           \/ UNCHANGED breakerVars
    PROVE  BreakerTypeOK'
BY DEF BreakerTypeOK, ResetBreaker, RecordSuccess, RecordFailure, breakerVars

LEMMA TargetOperations ==
    ASSUME TargetTypeOK, NEW t, NEW m \in {"always", "by_default"},
           NEW db \in Contents,
           \/ Reconnect \/ BeginTransaction \/ RunStatements(db)
           \/ CommitWork \/ RollbackWork \/ SetIdentityGenerated(t, m)
           \/ UNCHANGED targetVars
    PROVE  TargetTypeOK'
BY DEF TargetTypeOK, Reconnect, BeginTransaction, RunStatements, CommitWork,
       RollbackWork, SetIdentityGenerated, targetVars

-------------------------------------------------------------------------------
(***************************************************************************)
(* What a step of the executor does to each of the components it drives.   *)
(***************************************************************************)
LEMMA StoreSteps ==
    ASSUME [Next]_vars
    PROVE  \/ CreateMigration \/ LoseConnection
           \/ \E b, s : s \in BatchStatus /\ (SaveBatch(b, s) \/ UpdateStatus(b, s))
           \/ UNCHANGED storeVars
BY DEF Next, vars, Step, Fault, Execute, Resume, SkipCompleted, SkipTripped,
       StartBatch, Return, SaveRunning, Begin, OverrideIdentity, Write,
       WriteFails, RestoreIdentity, Commit, Complete, Rollback, Fail, StepFails,
       CommitFails, CommitAckLost, CompleteFails, RollbackFails,
       CheckpointFails, Crash, MarkBatchStarted, MarkBatchCompleted,
       MarkBatchFailed, BatchStatus

LEMMA BreakerSteps ==
    ASSUME [Next]_vars
    PROVE  \/ ResetBreaker
           \/ \E t : RecordSuccess(t) \/ RecordFailure(t)
           \/ UNCHANGED breakerVars
BY DEF Next, vars, Step, Fault, Execute, Resume, SkipCompleted, SkipTripped,
       StartBatch, Return, SaveRunning, Begin, OverrideIdentity, Write,
       WriteFails, RestoreIdentity, Commit, Complete, Rollback, Fail, StepFails,
       CommitFails, CommitAckLost, CompleteFails, RollbackFails,
       CheckpointFails, Crash

LEMMA TargetSteps ==
    ASSUME TypeOK, [Next]_vars
    PROVE  \/ Reconnect \/ BeginTransaction \/ CommitWork \/ RollbackWork
           \/ \E db \in Contents : RunStatements(db)
           \/ \E t : \E m \in {"always", "by_default"} : SetIdentityGenerated(t, m)
           \/ UNCHANGED targetVars
<1>1. CASE Write
  <2>1. manifest[cur] \in Batch /\ source \in Contents /\ session \in Contents
    BY <1>1 DEF Write, AtWrite, TypeOK, ExecTypeOK, TargetTypeOK, Ids, InBatch
  <2>. QED
    BY <1>1, <2>1, EffectType DEF Write
<1>2. CASE WriteFails
  <2>1. manifest[cur] \in Batch /\ source \in Contents /\ session \in Contents
    BY <1>2 DEF WriteFails, AtWrite, TypeOK, ExecTypeOK, TargetTypeOK, Ids, InBatch
  <2>. QED
    BY <1>2, <2>1, WriteRowsType DEF WriteFails
<1>3. CASE [Next]_vars /\ ~Write /\ ~WriteFails
  BY <1>3 DEF Next, vars, Step, Fault, Execute, Resume, SkipCompleted,
       SkipTripped, StartBatch, Return, SaveRunning, Begin, OverrideIdentity,
       RestoreIdentity, Commit, Complete, Rollback, Fail, StepFails,
       CommitFails, CommitAckLost, CompleteFails, RollbackFails,
       CheckpointFails, Crash
<1>. QED
  BY <1>1, <1>2, <1>3

(***************************************************************************)
(* The executor's own variables keep their types, action by action.        *)
(***************************************************************************)
LEMMA ExecStep ==
    ASSUME TypeOK, [Next]_vars
    PROVE  ExecTypeOK'
<1>. USE DEF ExecTypeOK, Ids, Running, Stopped, InBatch
<1>1. CASE Execute
  BY <1>1 DEF TypeOK, Execute
<1>2. CASE Resume
  BY <1>2 DEF TypeOK, Resume, BatchStatus
<1>3. ASSUME NEW b \in Ids, SkipCompleted(b) \/ SkipTripped(b) \/ StartBatch(b)
      PROVE  ExecTypeOK'
  BY <1>3 DEF TypeOK, SkipCompleted, SkipTripped, StartBatch, BatchStatus
<1>4. CASE Return
  BY <1>4 DEF TypeOK, Return
<1>5. CASE SaveRunning \/ Begin \/ OverrideIdentity \/ Write \/ WriteFails
           \/ RestoreIdentity \/ StepFails \/ CommitFails \/ RollbackFails \/ Crash
  BY <1>5 DEF TypeOK, SaveRunning, Begin, OverrideIdentity, Write, WriteFails,
       RestoreIdentity, StepFails, CommitFails, RollbackFails, Crash, Goto, AtWrite
<1>6. CASE Commit \/ CommitAckLost
  <2>1. cur \in Ids /\ commits[cur] + 1 \in Nat
    BY <1>6 DEF TypeOK, Commit, CommitAckLost
  <2>. QED
    BY <1>6, <2>1 DEF TypeOK, Commit, CommitAckLost, CountCommit
<1>7. CASE Complete \/ CompleteFails \/ Rollback
  BY <1>7 DEF TypeOK, Complete, CompleteFails, Rollback, BatchStatus
<1>8. CASE Fail
  BY <1>8 DEF TypeOK, Fail
<1>9. CASE CheckpointFails
  BY <1>9 DEF TypeOK, CheckpointFails, BatchStatus
<1>10. CASE UNCHANGED vars
  BY <1>10 DEF TypeOK, vars, execVars
<1>. QED
  BY <1>1, <1>2, <1>3, <1>4, <1>5, <1>6, <1>7, <1>8, <1>9, <1>10
     DEF Next, Step, Fault

(***************************************************************************)
(* Type correctness.                                                       *)
(***************************************************************************)
LEMMA NextTypeOK == TypeOK /\ [Next]_vars => TypeOK'
<1> SUFFICES ASSUME TypeOK, [Next]_vars PROVE TypeOK'
  OBVIOUS
<1>1. StoreTypeOK'
  BY StoreSteps, StoreOperations DEF TypeOK, BatchStatus
<1>2. BreakerTypeOK'
  BY BreakerSteps, BreakerOperations DEF TypeOK
<1>3. TargetTypeOK'
  <2>1. \A t, m : SetIdentityGenerated(t, m) /\ m \in {"always", "by_default"}
                    => TargetTypeOK'
    BY DEF TypeOK, TargetTypeOK, SetIdentityGenerated
  <2>2. \A db \in Contents : RunStatements(db) => TargetTypeOK'
    BY TargetOperations DEF TypeOK
  <2>3. session \in Contents
    BY DEF TypeOK, TargetTypeOK
  <2>4. Reconnect \/ BeginTransaction \/ CommitWork \/ RollbackWork
        \/ UNCHANGED targetVars => TargetTypeOK'
    BY <2>3, TargetOperations DEF TypeOK
  <2>. QED
    BY <2>1, <2>2, <2>4, TargetSteps
<1>4. ExecTypeOK'
  BY ExecStep
<1>. QED
  BY <1>1, <1>2, <1>3, <1>4 DEF TypeOK

(***************************************************************************)
(* The executor, its store, its breaker and its target keep their types in *)
(* every behaviour.                                                        *)
(***************************************************************************)
THEOREM TypeCorrectness == Spec => []TypeOK
<1>1. Init => TypeOK
  BY InitTypeOK
<1>2. TypeOK /\ [Next]_vars => TypeOK'
  BY NextTypeOK
<1>. QED
  BY <1>1, <1>2, PTL DEF Spec
-------------------------------------------------------------------------------
(***************************************************************************)
(* The checkpoint runs behind the target.  The inductive invariant adds    *)
(* what mark_batch_completed relies on: that it is reached only with the   *)
(* transaction of the batch in hand committed.                             *)
(***************************************************************************)
CommitInv ==
    /\ TypeOK
    /\ CompletedImpliesCommitted
    /\ pc = "complete" => commits[cur] > 0

(***************************************************************************)
(* No step takes a commit back or exchanges the manifest.                  *)
(***************************************************************************)
LEMMA CommitsGrow ==
    ASSUME TypeOK, [Next]_vars
    PROVE  /\ manifest' = manifest
           /\ source' = source
           /\ \A b \in Ids : commits[b] > 0 => commits'[b] > 0
<1>1. CASE Commit \/ CommitAckLost
  <2>1. commits \in [Ids -> Nat] /\ cur \in Ids
    BY <1>1 DEF TypeOK, ExecTypeOK, Commit, CommitAckLost, InBatch
  <2>2. commits' = [commits EXCEPT ![cur] = commits[cur] + 1]
    BY <1>1 DEF Commit, CommitAckLost, CountCommit
  <2>3. manifest' = manifest /\ source' = source
    BY <1>1 DEF Commit, CommitAckLost, CountCommit
  <2>. QED
    BY <2>1, <2>2, <2>3
<1>2. CASE [Next]_vars /\ ~Commit /\ ~CommitAckLost
  <2>1. UNCHANGED <<manifest, source, commits>>
    BY <1>2 DEF Next, vars, execVars, Step, Fault, Execute, Resume,
         SkipCompleted, SkipTripped, StartBatch, Return, SaveRunning, Begin,
         OverrideIdentity, Write, WriteFails, RestoreIdentity, Complete,
         Rollback, Fail, StepFails, CommitFails, CompleteFails, RollbackFails,
         CheckpointFails, Crash, Goto
  <2>. QED
    BY <2>1
<1>. QED
  BY <1>1, <1>2

(***************************************************************************)
(* Only the step Complete makes the checkpoint call a batch completed, and *)
(* that batch is the one in hand.                                          *)
(***************************************************************************)
LEMMA NewlyCompleted ==
    ASSUME TypeOK, [Next]_vars, NEW b \in BatchIds,
           rowStatus[b] # "completed", rowStatus'[b] = "completed"
    PROVE  Complete /\ b = cur
<1>1. rowStatus \in [BatchIds -> RowStatus]
  BY DEF TypeOK, StoreTypeOK
<1>2. CASE Complete
  BY <1>1, <1>2 DEF Complete, MarkBatchCompleted, UpdateStatus
<1>3. ASSUME NEW c, NEW s, s # "completed", SaveBatch(c, s) \/ UpdateStatus(c, s)
      PROVE  FALSE
  BY <1>1, <1>3 DEF SaveBatch, UpdateStatus
<1>4. CASE \/ CreateMigration \/ LoseConnection \/ UNCHANGED storeVars
  BY <1>4 DEF CreateMigration, LoseConnection, storeVars
<1>5. CASE [Next]_vars /\ ~Complete
  <2>1. \/ CreateMigration \/ LoseConnection \/ UNCHANGED storeVars
        \/ \E c, s : s # "completed" /\ (SaveBatch(c, s) \/ UpdateStatus(c, s))
    BY <1>5 DEF Next, vars, Step, Fault, Execute, Resume, SkipCompleted,
         SkipTripped, StartBatch, Return, SaveRunning, Begin, OverrideIdentity,
         Write, WriteFails, RestoreIdentity, Commit, Rollback, Fail, StepFails,
         CommitFails, CommitAckLost, CompleteFails, RollbackFails,
         CheckpointFails, Crash, MarkBatchStarted, MarkBatchFailed
  <2>. QED
    BY <2>1, <1>3, <1>4
<1>. QED
  BY <1>2, <1>5

LEMMA CommitInvStep == CommitInv /\ [Next]_vars => CommitInv'
<1> SUFFICES ASSUME CommitInv, [Next]_vars PROVE CommitInv'
  OBVIOUS
<1>0. TypeOK /\ TypeOK'
  BY NextTypeOK DEF CommitInv
<1>1. /\ Ids' = Ids
      /\ \A b \in Ids : commits[b] > 0 => commits'[b] > 0
  BY <1>0, CommitsGrow DEF Ids
<1>2. ASSUME NEW b \in BatchIds, b \in Ids, rowStatus'[b] = "completed"
      PROVE  commits'[b] > 0
  <2>1. CASE rowStatus[b] = "completed"
    BY <1>1, <1>2, <2>1 DEF CommitInv, CompletedImpliesCommitted, Completed
  <2>2. CASE rowStatus[b] # "completed"
    <3>1. Complete /\ b = cur
      BY <1>0, <1>2, <2>2, NewlyCompleted
    <3>2. commits[b] > 0
      BY <3>1 DEF CommitInv, Complete
    <3>. QED
      BY <1>1, <1>2, <3>2
  <2>. QED
    BY <2>1, <2>2
<1>3. CompletedImpliesCommitted'
  BY <1>1, <1>2 DEF CompletedImpliesCommitted, Completed
<1>4. ASSUME pc' = "complete" PROVE commits'[cur'] > 0
  <2>1. CASE Commit
    <3>1. commits \in [Ids -> Nat] /\ cur \in Ids
      BY <1>0, <2>1 DEF TypeOK, ExecTypeOK, Commit, InBatch
    <3>2. commits' = [commits EXCEPT ![cur] = commits[cur] + 1] /\ cur' = cur
      BY <2>1 DEF Commit, CountCommit
    <3>. QED
      BY <3>1, <3>2
  <2>2. CASE UNCHANGED vars
    BY <1>4, <2>2 DEF CommitInv, vars, execVars
  <2>. QED
    BY <1>4, <2>1, <2>2 DEF Next, Step, Fault, Execute, Resume, SkipCompleted,
       SkipTripped, StartBatch, Return, SaveRunning, Begin, OverrideIdentity,
       Write, WriteFails, RestoreIdentity, Complete, Rollback, Fail, StepFails,
       CommitFails, CommitAckLost, CompleteFails, RollbackFails,
       CheckpointFails, Crash, Goto
<1>. QED
  BY <1>0, <1>3, <1>4 DEF CommitInv

(***************************************************************************)
(* A batch the checkpoint calls completed has had its transaction          *)
(* committed, in every behaviour: with any faults, restarts and reruns.    *)
(***************************************************************************)
THEOREM CheckpointFollowsCommit == Spec => []CompletedImpliesCommitted
<1>1. Init => CommitInv
  <2>1. Init => CompletedImpliesCommitted /\ pc # "complete"
    BY DEF Init, StoreInit, CompletedImpliesCommitted, Completed
  <2>. QED
    BY <2>1, InitTypeOK DEF CommitInv
<1>2. CommitInv /\ [Next]_vars => CommitInv'
  BY CommitInvStep
<1>3. CommitInv => CompletedImpliesCommitted
  BY DEF CommitInv
<1>. QED
  BY <1>1, <1>2, <1>3, PTL DEF Spec
-------------------------------------------------------------------------------
(***************************************************************************)
(* Refinement.  Where the adapter never commits on its own, a batch is a   *)
(* transaction: outside a transaction the session sees what is durable,    *)
(* and when commit is called it sees the whole batch and nothing else.     *)
(***************************************************************************)
NoOverrides == Adapter = "postgresql" \/ AlwaysTables = {}

SessionInv ==
    /\ pc \notin {"write", "restoreOk", "restoreFailed"}
    /\ Adapter = "db2" => ~autocommit
    /\ pc \in {"apply", "commit"} => ~autocommit
    /\ pc \notin {"commit", "rollback"} => session = committed
    /\ pc = "commit" =>
          /\ session = Effect(manifest[cur], source, committed)
          /\ ~Refused(manifest[cur], source, committed)

LEMMA SessionInit == Init => SessionInv
BY DEF Init, TargetInit, SessionInv

LEMMA SessionStep ==
    ASSUME NoOverrides, TypeOK, SessionInv, [Next]_vars
    PROVE  SessionInv'
<1>. USE DEF SessionInv
<1>0. ~NeedsOverride(manifest[cur], source)
  BY DEF NeedsOverride, NoOverrides
<1>1. CASE Execute \/ Return
  BY <1>1 DEF Execute, Return, targetVars, Running, Stopped
<1>2. CASE Resume
  BY <1>2 DEF Resume, Reconnect
<1>3. ASSUME NEW b \in Ids, SkipCompleted(b) \/ SkipTripped(b) \/ StartBatch(b)
      PROVE  SessionInv'
  BY <1>3 DEF SkipCompleted, SkipTripped, StartBatch, targetVars
<1>4. CASE SaveRunning
  BY <1>4 DEF SaveRunning, Goto, targetVars
<1>5. CASE Begin
  BY <1>5, AdapterAssumption DEF Begin, BeginTransaction, Goto
<1>6. CASE OverrideIdentity \/ RestoreIdentity
  BY <1>6, <1>0 DEF OverrideIdentity, RestoreIdentity
<1>7. CASE Write
  <2>1. pc = "apply" /\ pc' = "commit" /\ session = committed /\ ~autocommit
    BY <1>7 DEF Write, AtWrite, Goto
  <2>2. /\ session' = Effect(manifest[cur], source, session)
        /\ ~Refused(manifest[cur], source, session)
        /\ committed' = committed /\ autocommit' = autocommit
        /\ UNCHANGED <<manifest, source, cur>>
    BY <1>7, <2>1 DEF Write, RunStatements, Goto
  <2>. QED
    BY <2>1, <2>2
<1>8. CASE WriteFails
  BY <1>8 DEF WriteFails, AtWrite, RunStatements, Goto
<1>9. CASE StepFails \/ CommitFails \/ CompleteFails
  BY <1>9 DEF StepFails, CommitFails, CompleteFails, Goto, targetVars
<1>10. CASE Commit \/ CommitAckLost
  BY <1>10 DEF Commit, CommitAckLost, CommitWork
<1>11. CASE Complete \/ Fail \/ CheckpointFails
  BY <1>11 DEF Complete, Fail, CheckpointFails, targetVars
<1>12. CASE Rollback \/ RollbackFails \/ Crash
  BY <1>12 DEF Rollback, RollbackFails, Crash, RollbackWork, Goto
<1>13. CASE UNCHANGED vars
  BY <1>13 DEF vars, execVars, targetVars
<1>. QED
  BY <1>1, <1>2, <1>3, <1>4, <1>5, <1>6, <1>7, <1>8, <1>9, <1>10, <1>11, <1>12,
     <1>13 DEF Next, Step, Fault

(***************************************************************************)
(* The abstract migration's rows, batches and effects are the executor's.  *)
(***************************************************************************)
LEMMA SameEffects ==
    /\ Atomic!Batch = Batch
    /\ Atomic!Contents = Contents
    /\ \A b, src, db : Atomic!Effect(b, src, db) = Effect(b, src, db)
    /\ \A b, src, db : Atomic!Refused(b, src, db) = Refused(b, src, db)
BY DEF Atomic!Batch, Batch, Atomic!Operations, Operations,
       Atomic!Contents, Contents, Atomic!Rows, Rows,
       Atomic!Effect, Effect, Atomic!WriteRows, WriteRows,
       Atomic!TouchedRows, TouchedRows, Atomic!FetchedRows, FetchedRows,
       Atomic!RangeRows, RangeRows, Atomic!NewValue, NewValue,
       Atomic!Refused, Refused, Atomic!RefusedRows, RefusedRows,
       Atomic!RefusedAmong, RefusedAmong,
       Atomic!Present, Present

(***************************************************************************)
(* What a step of the executor is in the abstract migration.               *)
(***************************************************************************)
LEMMA AbstractStep ==
    ASSUME NoOverrides, TypeOK, CommitInv, SessionInv, [Next]_vars
    PROVE  [Atomic!Next]_(Atomic!absVars)
<1>. USE DEF Atomic!absVars, Atomic!Next
<1>. DEFINE applied == {b \in Ids : commits[b] > 0}
            recorded == Completed \cap Ids
<1>0. ~NeedsOverride(manifest[cur], source)
  BY DEF NeedsOverride, NoOverrides
<1>1. manifest' = manifest /\ source' = source /\ Ids' = Ids
  BY CommitsGrow DEF Ids
<1>2. CASE Commit \/ CommitAckLost
  <2>1. commits \in [Ids -> Nat] /\ cur \in Ids
    BY <1>2 DEF TypeOK, ExecTypeOK, Commit, CommitAckLost, InBatch
  <2>2. commits' = [commits EXCEPT ![cur] = commits[cur] + 1]
    BY <1>2 DEF Commit, CommitAckLost, CountCommit
  <2>3. applied' = applied \cup {cur}
    BY <2>1, <2>2, <1>1
  <2>4. /\ committed' = Effect(manifest[cur], source, committed)
        /\ ~Refused(manifest[cur], source, committed)
    BY <1>2 DEF Commit, CommitAckLost, CommitWork, SessionInv
  <2>5. recorded' = recorded
    BY <1>1, <1>2 DEF Commit, CommitAckLost, storeVars, Completed
  <2>6. Atomic!Apply(cur)
    BY <1>1, <2>3, <2>4, <2>5, SameEffects DEF Atomic!Apply
  <2>7. cur \in DOMAIN manifest
    BY <2>1 DEF Ids
  <2>8. Atomic!Next
    BY <2>6, <2>7, Zenon DEF Atomic!Apply
  <2>. QED
    BY <2>8
<1>3. CASE [Next]_vars /\ ~Commit /\ ~CommitAckLost
  <2>1. commits' = commits /\ applied' = applied
    BY <1>1, <1>3 DEF Next, vars, execVars, Step, Fault, Execute, Resume,
         SkipCompleted, SkipTripped, StartBatch, Return, SaveRunning, Begin,
         OverrideIdentity, Write, WriteFails, RestoreIdentity, Complete,
         Rollback, Fail, StepFails, CommitFails, CompleteFails, RollbackFails,
         CheckpointFails, Crash, Goto
  <2>2. committed' = committed
    <3>1. CASE Write \/ WriteFails
      BY <3>1 DEF Write, WriteFails, AtWrite, RunStatements, SessionInv
    <3>2. CASE OverrideIdentity \/ RestoreIdentity
      BY <3>2, <1>0 DEF OverrideIdentity, RestoreIdentity, SessionInv
    <3>3. CASE ~(Write \/ WriteFails \/ OverrideIdentity \/ RestoreIdentity)
      BY <1>3, <3>3 DEF Next, vars, targetVars, Step, Fault, Execute, Resume,
           SkipCompleted, SkipTripped, StartBatch, Return, SaveRunning, Begin,
           Complete, Rollback, Fail, StepFails, CommitFails, CompleteFails,
           RollbackFails, CheckpointFails, Crash, BeginTransaction,
           RollbackWork, Reconnect
    <3>. QED
      BY <3>1, <3>2, <3>3
  <2>3. \/ recorded' = recorded
        \/ \E b \in Ids : recorded' = recorded \ {b}
        \/ \E b \in Ids : b \in applied /\ recorded' = recorded \cup {b}
    <3>1. rowStatus \in [BatchIds -> RowStatus] /\ Ids \subseteq BatchIds
      BY DEF TypeOK, StoreTypeOK, ExecTypeOK
    <3>2. ASSUME NEW b \in Ids, NEW s, s # "completed",
                 SaveBatch(b, s) \/ UpdateStatus(b, s)
          PROVE  recorded' = recorded \ {b}
      BY <1>1, <3>1, <3>2 DEF SaveBatch, UpdateStatus, Completed
    <3>3. CASE CreateMigration \/ LoseConnection \/ UNCHANGED storeVars
      BY <1>1, <3>3 DEF CreateMigration, LoseConnection, storeVars, Completed
    <3>4. CASE Complete
      <4>1. cur \in Ids /\ cur \in applied
        BY <3>4 DEF Complete, CommitInv, TypeOK, ExecTypeOK, InBatch
      <4>2. \/ recorded' = recorded
            \/ recorded' = recorded \cup {cur}
        BY <1>1, <3>1, <3>4, <4>1
           DEF Complete, MarkBatchCompleted, UpdateStatus, Completed
      <4>. QED
        BY <4>1, <4>2
    <3>5. CASE ~Complete
      <4>1. \/ CreateMigration \/ LoseConnection \/ UNCHANGED storeVars
            \/ \E b \in Ids : \E s : s # "completed"
                                  /\ (SaveBatch(b, s) \/ UpdateStatus(b, s))
        <5>1. pc \in InBatch => cur \in Ids
          BY DEF TypeOK, ExecTypeOK
        <5>. QED
          BY <5>1, <1>3, <3>5 DEF Next, vars, Step, Fault, Execute, Resume,
             SkipCompleted, SkipTripped, StartBatch, Return, SaveRunning, Begin,
             OverrideIdentity, Write, WriteFails, RestoreIdentity, Rollback,
             Fail, StepFails, CommitFails, CompleteFails, RollbackFails,
             CheckpointFails, Crash, MarkBatchStarted, MarkBatchFailed, InBatch
      <4>. QED
        BY <4>1, <3>2, <3>3
    <3>. QED
      BY <3>4, <3>5
  <2>4. CASE recorded' = recorded
    BY <1>1, <2>1, <2>2, <2>4
  <2>5. ASSUME NEW b \in Ids, recorded' = recorded \ {b}
        PROVE  Atomic!Withdraw(b)
    BY <1>1, <2>1, <2>2, <2>5 DEF Atomic!Withdraw
  <2>6. ASSUME NEW b \in Ids, b \in applied, recorded' = recorded \cup {b}
        PROVE  Atomic!Record(b)
    BY <1>1, <2>1, <2>2, <2>6 DEF Atomic!Record
  <2>. QED
    BY <2>3, <2>4, <2>5, <2>6 DEF Ids
<1>. QED
  BY <1>2, <1>3

(***************************************************************************)
(* The executor implements the abstract migration, with every fault, if    *)
(* the target is PostgreSQL or no identity column has to be overridden.    *)
(***************************************************************************)
THEOREM Refinement ==
    ASSUME NoOverrides
    PROVE  Spec => ImplementsAtomicMigration
<1>1. Init => Atomic!Init
  <2> SUFFICES ASSUME Init PROVE Atomic!Init
    OBVIOUS
  <2>1. manifest \in Seq(Batch) /\ source \in Contents /\ committed \in Contents
    BY InitTypeOK DEF TypeOK, ExecTypeOK, TargetTypeOK
  <2>2. {b \in Ids : commits[b] > 0} = {} /\ Completed \cap Ids = {}
    BY DEF Init, StoreInit, Completed, Ids
  <2>. QED
    BY <2>1, <2>2, SameEffects DEF Atomic!Init
<1>2. Init => CommitInv /\ SessionInv
  BY InitTypeOK, SessionInit
     DEF CommitInv, CompletedImpliesCommitted, Completed, Init, StoreInit
<1>3. CommitInv /\ SessionInv /\ [Next]_vars => (CommitInv /\ SessionInv)'
  BY CommitInvStep, SessionStep DEF CommitInv
<1>4. CommitInv /\ SessionInv /\ [Next]_vars => [Atomic!Next]_(Atomic!absVars)
  BY AbstractStep DEF CommitInv
<1>. QED
  BY <1>1, <1>2, <1>3, <1>4, PTL DEF Spec, ImplementsAtomicMigration, Atomic!Spec

-------------------------------------------------------------------------------
(***************************************************************************)
(* The places at which the session may see what is not durable.            *)
(***************************************************************************)
Open == {"restoreOk", "restoreFailed", "commit", "rollback"}

LocalInv ==
    \A r \in Rows :
        session[r] # committed[r] => pc \in Open /\ r \in RangeRows(manifest[cur])

(***************************************************************************)
(* What a step does to the target's contents: nothing; lose the open       *)
(* transaction; make durable what the session sees; or run statements of   *)
(* the batch in hand.                                                      *)
(***************************************************************************)
Writing ==
    /\ pc \in {"apply", "write"}
    /\ pc' \in Open
    /\ cur \in Ids
    /\ cur' = cur
    /\ committed' \in {committed, session'}
    /\ \E ran \in SUBSET TouchedRows(manifest[cur], source) :
           session' = WriteRows(manifest[cur], source, session, ran)

LEMMA TargetMoves ==
    ASSUME TypeOK, [Next]_vars
    PROVE  \/ /\ UNCHANGED <<committed, session>>
              /\ pc \in Open => pc' \in Open /\ cur' = cur
           \/ committed' = committed /\ session' = committed
           \/ committed' = session /\ session' = session
           \/ Writing
<1>1. CASE Write \/ WriteFails
  <2>1. cur \in Ids /\ pc \in {"apply", "write"}
    BY <1>1 DEF Write, WriteFails, AtWrite, TypeOK, ExecTypeOK, InBatch
  <2>2. cur' = cur /\ pc' \in Open
    BY <1>1 DEF Write, WriteFails, Goto, Open
  <2>3. committed' \in {committed, session'}
    BY <1>1 DEF Write, WriteFails, RunStatements
  <2>4. \E ran \in SUBSET TouchedRows(manifest[cur], source) :
           session' = WriteRows(manifest[cur], source, session, ran)
    <3>1. CASE Write
      BY <3>1 DEF Write, RunStatements, Effect
    <3>2. CASE WriteFails
      BY <3>2 DEF WriteFails, RunStatements
    <3>. QED
      BY <1>1, <3>1, <3>2
  <2>. QED
    BY <2>1, <2>2, <2>3, <2>4 DEF Writing
<1>2. CASE Resume \/ Rollback \/ RollbackFails \/ Crash
  BY <1>2 DEF Resume, Rollback, RollbackFails, Crash, Reconnect, RollbackWork
<1>3. CASE Commit \/ CommitAckLost \/ OverrideIdentity \/ RestoreIdentity
  BY <1>3 DEF Commit, CommitAckLost, CommitWork, OverrideIdentity,
     RestoreIdentity, SetIdentityGenerated
<1>4. CASE StepFails \/ CommitFails \/ UNCHANGED vars
  BY <1>4 DEF StepFails, CommitFails, Goto, vars, targetVars, execVars, Open
<1>5. CASE \/ Execute \/ Return \/ SaveRunning \/ Begin \/ Complete \/ Fail
           \/ CompleteFails \/ CheckpointFails
           \/ \E b \in Ids : SkipCompleted(b) \/ SkipTripped(b) \/ StartBatch(b)
  BY <1>5 DEF Execute, Return, SaveRunning, Begin, BeginTransaction, Complete,
     Fail, CompleteFails, CheckpointFails, SkipCompleted, SkipTripped,
     StartBatch, targetVars, Open
<1>. QED
  BY <1>1, <1>2, <1>3, <1>4, <1>5 DEF Next, Step, Fault

(***************************************************************************)
(* Statements of the batch in hand leave every other row alone.            *)
(***************************************************************************)
LEMMA WritingIsLocal ==
    ASSUME TypeOK, Writing, NEW r \in Rows, r \notin RangeRows(manifest[cur])
    PROVE  session'[r] = session[r]
<1>1. /\ manifest[cur] \in Batch
      /\ source \in Contents
      /\ session \in Contents
  BY DEF Writing, TypeOK, ExecTypeOK, TargetTypeOK, Ids
<1>2. PICK ran \in SUBSET TouchedRows(manifest[cur], source) :
           session' = WriteRows(manifest[cur], source, session, ran)
  BY DEF Writing
<1>. QED
  BY <1>1, <1>2, WriteRowsLocal

LEMMA LocalStep ==
    ASSUME TypeOK, LocalInv, [Next]_vars
    PROVE  LocalInv'
<1>1. manifest' = manifest
  BY CommitsGrow
<1>2. CASE UNCHANGED <<committed, session>>
           /\ (pc \in Open => pc' \in Open /\ cur' = cur)
  BY <1>1, <1>2 DEF LocalInv, Rows
<1>3. CASE committed' = committed /\ session' = committed
  BY <1>3 DEF LocalInv
<1>4. CASE committed' = session /\ session' = session
  BY <1>4 DEF LocalInv
<1>5. CASE Writing
  <2> SUFFICES ASSUME NEW r \in Rows, session'[r] # committed'[r],
                      r \notin RangeRows(manifest[cur])
               PROVE  FALSE
    BY <1>1, <1>5 DEF LocalInv, Writing, Rows, RangeRows
  <2>1. session'[r] = session[r]
    BY <1>5, WritingIsLocal
  <2>2. committed'[r] = committed[r]
    BY <1>5, <2>1 DEF Writing
  <2>3. pc \notin Open
    BY <1>5 DEF Writing, Open
  <2>. QED
    BY <2>1, <2>2, <2>3 DEF LocalInv
<1>. QED
  BY <1>2, <1>3, <1>4, <1>5, TargetMoves

(***************************************************************************)
(* A step that changes durable rows changes rows of the batch in hand.     *)
(***************************************************************************)
LEMMA DurableChange ==
    ASSUME TypeOK, LocalInv, [Next]_vars, NEW r \in Rows,
           committed'[r] # committed[r]
    PROVE  pc \in InBatch /\ cur \in Ids /\ r \in RangeRows(manifest[cur])
<1>1. CASE session[r] # committed[r]
  BY <1>1 DEF LocalInv, Open, InBatch, TypeOK, ExecTypeOK
<1>2. CASE session[r] = committed[r]
  <2>1. Writing
    BY <1>2, TargetMoves
  <2>2. committed'[r] = session'[r]
    BY <2>1 DEF Writing
  <2>3. r \in RangeRows(manifest[cur])
    BY <1>2, <2>1, <2>2, WritingIsLocal
  <2>. QED
    BY <2>1, <2>3 DEF Writing, InBatch
<1>. QED
  BY <1>1, <1>2
-------------------------------------------------------------------------------
(***************************************************************************)
(* The breaker: a batch is started only if its table has not tripped, and  *)
(* until that batch is finished the breaker does not move.                 *)
(***************************************************************************)
TrippedInv == pc \in InBatch => ~IsTripped(TableOf(cur))

LEMMA TrippedStep ==
    ASSUME TypeOK, TrippedInv, [Next]_vars
    PROVE  TrippedInv'
<1>1. manifest' = manifest
  BY CommitsGrow
<1>2. CASE \E b \in Ids : StartBatch(b)
  BY <1>1, <1>2 DEF StartBatch, TrippedInv, IsTripped, TableOf, breakerVars
<1>3. CASE pc \in InBatch /\ cur' = cur /\ UNCHANGED breakerVars
  BY <1>1, <1>3 DEF TrippedInv, IsTripped, TableOf, breakerVars
<1>4. CASE pc' \notin InBatch
  BY <1>4 DEF TrippedInv
<1>5. \/ \E b \in Ids : StartBatch(b)
      \/ pc \in InBatch /\ cur' = cur /\ UNCHANGED breakerVars
      \/ pc' \notin InBatch
  BY DEF Next, vars, execVars, Step, Fault, Execute, Resume, SkipCompleted,
     SkipTripped, Return, SaveRunning, Begin, OverrideIdentity, Write,
     WriteFails, RestoreIdentity, Commit, Complete, Rollback, Fail, StepFails,
     CommitFails, CommitAckLost, CompleteFails, RollbackFails, CheckpointFails,
     Crash, Goto, CountCommit, AtWrite, InBatch
<1>. QED
  BY <1>2, <1>3, <1>4, <1>5

LEMMA TrippedRowsStay ==
    ASSUME TypeOK, LocalInv, TrippedInv, [Next]_vars,
           NEW t \in Tables, IsTripped(t), NEW r \in Rows, r[1] = t
    PROVE  committed'[r] = committed[r]
<1> SUFFICES ASSUME committed'[r] # committed[r] PROVE FALSE
  OBVIOUS
<1>1. pc \in InBatch /\ cur \in Ids /\ r \in RangeRows(manifest[cur])
  BY DurableChange
<1>2. TableOf(cur) = t
  BY <1>1 DEF RangeRows, TableOf
<1>. QED
  BY <1>1, <1>2 DEF TrippedInv

LEMMA LocalAndTrippedInit == Init => LocalInv /\ TrippedInv
BY DEF Init, TargetInit, LocalInv, TrippedInv, InBatch

(***************************************************************************)
(* Once the breaker has tripped for a table, its durable rows stay as they *)
(* are for as long as the process lives.                                   *)
(***************************************************************************)
THEOREM TrippedTables == Spec => TrippedTableIsLeftAlone
<1>1. Init => TypeOK /\ LocalInv /\ TrippedInv
  BY InitTypeOK, LocalAndTrippedInit
<1>2. TypeOK /\ LocalInv /\ TrippedInv /\ [Next]_vars
        => (TypeOK /\ LocalInv /\ TrippedInv)'
  BY NextTypeOK, LocalStep, TrippedStep
<1>3. TypeOK /\ LocalInv /\ TrippedInv /\ [Next]_vars
        => [\A t \in Tables :
              IsTripped(t) => \A r \in Rows : r[1] = t
                                => committed'[r] = committed[r]]_vars
  BY TrippedRowsStay
<1>. QED
  BY <1>1, <1>2, <1>3, PTL DEF Spec, TrippedTableIsLeftAlone

-------------------------------------------------------------------------------
(***************************************************************************)
(* Completed batches are settled.  The batch in hand is not a completed    *)
(* one, having been marked running; its rows are settled in the session    *)
(* before the commit and in the durable contents after it; and as long as  *)
(* no other batch reaches into them they stay so.                          *)
(***************************************************************************)
SettledInv ==
    /\ pc \in InBatch => rowStatus[cur] # "completed"
    /\ pc \in {"restoreOk", "commit"} => Effect(manifest[cur], source, session) = session
    /\ pc = "complete" => Effect(manifest[cur], source, committed) = committed
    /\ CompletedBatchesAreSettled

LEMMA InHandIsNotCompleted ==
    ASSUME TypeOK, [Next]_vars, pc \in InBatch => rowStatus[cur] # "completed",
           pc' \in InBatch
    PROVE  rowStatus'[cur'] # "completed"
<1>1. CASE \E b \in Ids : StartBatch(b)
  BY <1>1 DEF StartBatch, MarkBatchStarted, UpdateStatus, TypeOK, StoreTypeOK,
     ExecTypeOK
<1>2. CASE SaveRunning
  BY <1>2 DEF SaveRunning, SaveBatch, Goto, TypeOK, StoreTypeOK, ExecTypeOK, InBatch
<1>3. CASE pc \in InBatch /\ cur' = cur /\ UNCHANGED rowStatus
  BY <1>3
<1>4. \/ \E b \in Ids : StartBatch(b)
      \/ SaveRunning
      \/ pc \in InBatch /\ cur' = cur /\ UNCHANGED rowStatus
  BY DEF Next, vars, execVars, storeVars, Step, Fault, Execute, Resume,
     SkipCompleted, SkipTripped, Return, Begin, OverrideIdentity, Write,
     WriteFails, RestoreIdentity, Commit, Complete, Rollback, Fail, StepFails,
     CommitFails, CommitAckLost, CompleteFails, RollbackFails, CheckpointFails,
     Crash, Goto, CountCommit, AtWrite, InBatch
<1>. QED
  BY <1>1, <1>2, <1>3, <1>4

LEMMA SessionIsSettled ==
    ASSUME TypeOK, SettledInv, [Next]_vars, pc' \in {"restoreOk", "commit"}
    PROVE  Effect(manifest'[cur'], source', session') = session'
<1>1. manifest' = manifest /\ source' = source
  BY CommitsGrow
<1>2. CASE Write
  <2>1. /\ cur' = cur
        /\ session' = Effect(manifest[cur], source, session)
    BY <1>2 DEF Write, RunStatements, Goto
  <2>2. manifest[cur] \in Batch /\ source \in Contents /\ session \in Contents
    BY <1>2 DEF Write, AtWrite, TypeOK, ExecTypeOK, TargetTypeOK, Ids, InBatch
  <2>. QED
    BY <1>1, <2>1, <2>2, EffectIdempotent
<1>3. CASE RestoreIdentity
  BY <1>1, <1>3 DEF RestoreIdentity, SetIdentityGenerated, Goto, SettledInv
<1>4. CASE UNCHANGED vars
  BY <1>4 DEF vars, execVars, targetVars, SettledInv
<1>5. Write \/ RestoreIdentity \/ UNCHANGED vars
  BY DEF Next, vars, execVars, Step, Fault, Execute, Resume, SkipCompleted,
     SkipTripped, StartBatch, Return, SaveRunning, Begin, OverrideIdentity,
     WriteFails, Commit, Complete, Rollback, Fail, StepFails, CommitFails,
     CommitAckLost, CompleteFails, RollbackFails, CheckpointFails, Crash, Goto
<1>. QED
  BY <1>2, <1>3, <1>4, <1>5

LEMMA CommittedIsSettled ==
    ASSUME TypeOK, SettledInv, [Next]_vars, pc' = "complete"
    PROVE  Effect(manifest'[cur'], source', committed') = committed'
<1>1. manifest' = manifest /\ source' = source
  BY CommitsGrow
<1>2. CASE Commit
  BY <1>1, <1>2 DEF Commit, CommitWork, CountCommit, SettledInv
<1>3. CASE UNCHANGED vars
  BY <1>3 DEF vars, execVars, targetVars, SettledInv
<1>4. Commit \/ UNCHANGED vars
  BY DEF Next, vars, execVars, Step, Fault, Execute, Resume, SkipCompleted,
     SkipTripped, StartBatch, Return, SaveRunning, Begin, OverrideIdentity,
     Write, WriteFails, RestoreIdentity, Complete, Rollback, Fail, StepFails,
     CommitFails, CommitAckLost, CompleteFails, RollbackFails, CheckpointFails,
     Crash, Goto
<1>. QED
  BY <1>2, <1>3, <1>4

LEMMA OthersStaySettled ==
    ASSUME TypeOK, TypeOK', LocalInv, SettledInv, [Next]_vars, BatchesAreDisjoint,
           NEW b \in Ids, rowStatus[b] = "completed"
    PROVE  Effect(manifest[b], source, committed') = committed'
<1>1. /\ manifest[b] \in Batch
      /\ source \in Contents
      /\ committed \in Contents
      /\ committed' \in Contents
      /\ b \in BatchIds
  BY DEF TypeOK, ExecTypeOK, TargetTypeOK, Ids
<1>2. Effect(manifest[b], source, committed) = committed
  BY <1>1 DEF SettledInv, CompletedBatchesAreSettled, Completed
<1>3. ASSUME NEW r \in RangeRows(manifest[b])
      PROVE  committed[r] = committed'[r]
  <2> SUFFICES ASSUME committed'[r] # committed[r] PROVE FALSE
    OBVIOUS
  <2>1. pc \in InBatch /\ cur \in Ids /\ r \in RangeRows(manifest[cur])
    BY DurableChange DEF RangeRows
  <2>2. cur # b
    BY <2>1 DEF SettledInv
  <2>. QED
    BY <2>1, <2>2 DEF BatchesAreDisjoint
<1>. QED
  BY <1>1, <1>2, <1>3, SettledLocal

LEMMA SettledStep ==
    ASSUME TypeOK, LocalInv, SettledInv, [Next]_vars
    PROVE  SettledInv'
<1>0. TypeOK'
  BY NextTypeOK
<1>1. manifest' = manifest /\ source' = source /\ Ids' = Ids
  BY CommitsGrow DEF Ids
<1>2. CompletedBatchesAreSettled'
  <2> SUFFICES ASSUME BatchesAreDisjoint, NEW b \in Ids, b \in BatchIds,
                      rowStatus'[b] = "completed"
               PROVE  Effect(manifest[b], source, committed') = committed'
    BY <1>1 DEF CompletedBatchesAreSettled, BatchesAreDisjoint, Completed
  <2>1. CASE rowStatus[b] = "completed"
    BY <1>0, <2>1, OthersStaySettled
  <2>2. CASE rowStatus[b] # "completed"
    <3>1. Complete /\ b = cur
      BY <2>2, NewlyCompleted
    <3>. QED
      BY <3>1 DEF Complete, SettledInv, targetVars
  <2>. QED
    BY <2>1, <2>2
<1>3. (pc \in InBatch => rowStatus[cur] # "completed")'
  BY InHandIsNotCompleted DEF SettledInv, InBatch
<1>. QED
  BY <1>2, <1>3, SessionIsSettled, CommittedIsSettled DEF SettledInv

(***************************************************************************)
(* As long as batches do not overlap, every batch the checkpoint calls     *)
(* completed has its rows standing in the durable contents, with any       *)
(* faults, restarts and reruns, on either database.                        *)
(***************************************************************************)
THEOREM CompletedBatchesStaySettled == Spec => []CompletedBatchesAreSettled
<1>1. Init => TypeOK /\ LocalInv /\ SettledInv
  <2>1. Init => SettledInv
    BY DEF Init, StoreInit, SettledInv, CompletedBatchesAreSettled, Completed,
       InBatch
  <2>. QED
    BY <2>1, InitTypeOK, LocalAndTrippedInit
<1>2. TypeOK /\ LocalInv /\ SettledInv /\ [Next]_vars
        => (TypeOK /\ LocalInv /\ SettledInv)'
  BY NextTypeOK, LocalStep, SettledStep
<1>3. SettledInv => CompletedBatchesAreSettled
  BY DEF SettledInv
<1>. QED
  BY <1>1, <1>2, <1>3, PTL DEF Spec

-------------------------------------------------------------------------------
(***************************************************************************)
(* What the executor reports.  The batch in hand is not among those it is  *)
(* through with; from save_batch on it has a row in the checkpoint, marked *)
(* running; and when its failure is recorded its status says failed.       *)
(***************************************************************************)
InHandInv ==
    pc \in InBatch =>
        /\ cur \notin visited
        /\ pc # "save" => rowStatus[cur] = "running"
        /\ pc = "fail" => status[cur] = "failed"

ReportInv == InHandInv /\ ReportMatchesCheckpoint

LEMMA InHandStep ==
    ASSUME TypeOK, InHandInv, [Next]_vars
    PROVE  InHandInv'
<1>1. CASE \E b \in Ids : StartBatch(b)
  BY <1>1 DEF StartBatch, IsNext, InHandInv
<1>2. CASE SaveRunning
  BY <1>2 DEF SaveRunning, SaveBatch, Goto, TypeOK, StoreTypeOK, ExecTypeOK,
     InHandInv, InBatch
<1>3. CASE Rollback
  BY <1>3 DEF Rollback, storeVars, TypeOK, ExecTypeOK, InHandInv, InBatch
<1>4. CASE /\ pc \in InBatch \ {"save"} /\ pc' # "fail"
           /\ UNCHANGED <<cur, visited, rowStatus>>
  BY <1>4 DEF InHandInv
<1>5. CASE pc' \notin InBatch
  BY <1>5 DEF InHandInv
<1>6. CASE UNCHANGED vars
  BY <1>6 DEF InHandInv, vars, execVars, storeVars
<1>7. \/ \E b \in Ids : StartBatch(b)
      \/ SaveRunning \/ Rollback \/ UNCHANGED vars
      \/ /\ pc \in InBatch \ {"save"} /\ pc' # "fail"
         /\ UNCHANGED <<cur, visited, rowStatus>>
      \/ pc' \notin InBatch
  BY DEF Next, storeVars, Step, Fault, Execute, Resume,
     SkipCompleted, SkipTripped, Return, Begin, OverrideIdentity, Write,
     WriteFails, RestoreIdentity, Commit, Complete, Fail, StepFails,
     CommitFails, CommitAckLost, CompleteFails, RollbackFails, CheckpointFails,
     Crash, Goto, CountCommit, AtWrite, InBatch
<1>. QED
  BY <1>1, <1>2, <1>3, <1>4, <1>5, <1>6, <1>7

(***************************************************************************)
(* What a step does to the batches the executor is through with: it starts *)
(* over; leaves them, their statuses and their rows alone; or adds one, a  *)
(* skipped one or the one in hand.                                         *)
(***************************************************************************)
Finishing(b) ==
    /\ b = cur
    /\ \/ Complete
       \/ Fail /\ ~RecordFailureRaises(TableOf(cur))

LEMMA VisitedMoves ==
    ASSUME TypeOK, InHandInv, [Next]_vars
    PROVE  \/ visited' = {}
           \/ /\ visited' = visited
              /\ \A b \in visited :
                    status'[b] = status[b] /\ rowStatus'[b] = rowStatus[b]
           \/ \E b \in Ids \ visited :
                 /\ visited' = visited \cup {b}
                 /\ \A c \in visited :
                       status'[c] = status[c] /\ rowStatus'[c] = rowStatus[c]
                 /\ SkipCompleted(b) \/ SkipTripped(b) \/ Finishing(b)
<1>t. /\ rowStatus \in [BatchIds -> RowStatus] /\ Ids \subseteq BatchIds
      /\ status \in [Ids -> BatchStatus] /\ visited \subseteq Ids
      /\ pc \in InBatch => cur \in Ids /\ cur \notin visited
  BY DEF TypeOK, StoreTypeOK, ExecTypeOK, InHandInv
\* Statements of the store about a batch leave the others' rows alone.
<1>u. \A b, s, c : c \in BatchIds /\ c # b /\ (SaveBatch(b, s) \/ UpdateStatus(b, s))
                     => rowStatus'[c] = rowStatus[c]
  BY <1>t DEF SaveBatch, UpdateStatus
<1>1. CASE Execute \/ Resume
  BY <1>1 DEF Execute, Resume
<1>2. ASSUME NEW b \in Ids, SkipCompleted(b) \/ SkipTripped(b)
      PROVE  /\ b \notin visited /\ visited' = visited \cup {b}
             /\ \A c \in visited :
                   status'[c] = status[c] /\ rowStatus'[c] = rowStatus[c]
  BY <1>2, <1>t DEF SkipCompleted, SkipTripped, IsNext, storeVars
<1>3. ASSUME NEW b \in Ids, StartBatch(b)
      PROVE  /\ visited' = visited
             /\ \A c \in visited :
                   status'[c] = status[c] /\ rowStatus'[c] = rowStatus[c]
  BY <1>3, <1>t, <1>u DEF StartBatch, IsNext, MarkBatchStarted
<1>4. CASE Complete \/ Fail
  <2>1. cur \in Ids \ visited
    BY <1>4, <1>t DEF Complete, Fail, InBatch
  <2>2. \A c \in visited : status'[c] = status[c] /\ rowStatus'[c] = rowStatus[c]
    BY <1>4, <2>1, <1>t, <1>u DEF Complete, Fail, MarkBatchCompleted, MarkBatchFailed
  <2>3. \/ visited' = visited
        \/ visited' = visited \cup {cur} /\ Finishing(cur)
    BY <1>4 DEF Complete, Fail, Finishing
  <2>. QED
    BY <2>1, <2>2, <2>3
<1>5. CASE SaveRunning
  BY <1>5, <1>t, <1>u DEF SaveRunning, Goto, InBatch
<1>6. CASE CompleteFails \/ Rollback
  BY <1>6, <1>t DEF CompleteFails, Rollback, storeVars, InBatch
<1>7. CASE CheckpointFails
  BY <1>7, <1>t DEF CheckpointFails, IsNext, storeVars
<1>8. CASE \/ Return \/ Begin \/ OverrideIdentity \/ Write \/ WriteFails
           \/ RestoreIdentity \/ Commit \/ CommitAckLost \/ StepFails
           \/ CommitFails \/ RollbackFails \/ Crash \/ UNCHANGED vars
  BY <1>8 DEF Return, Begin, OverrideIdentity, Write, WriteFails, RestoreIdentity,
     Commit, CommitAckLost, StepFails, CommitFails, RollbackFails, Crash, Goto,
     CountCommit, LoseConnection, storeVars, vars, execVars
<1>. QED
  BY <1>1, <1>2, <1>3, <1>4, <1>5, <1>6, <1>7, <1>8 DEF Next, Step, Fault

LEMMA ReportStep ==
    ASSUME TypeOK, ReportInv, [Next]_vars
    PROVE  ReportInv'
<1>1. InHandInv /\ InHandInv'
  BY InHandStep DEF ReportInv
<1>2. ReportMatchesCheckpoint'
  <2>1. CASE visited' = {}
    BY <2>1 DEF ReportMatchesCheckpoint
  <2>2. CASE /\ visited' = visited
             /\ \A b \in visited :
                   status'[b] = status[b] /\ rowStatus'[b] = rowStatus[b]
    BY <2>2 DEF ReportInv, ReportMatchesCheckpoint
  <2>3. ASSUME NEW b \in Ids \ visited, visited' = visited \cup {b},
               \A c \in visited :
                  status'[c] = status[c] /\ rowStatus'[c] = rowStatus[c],
               SkipCompleted(b) \/ SkipTripped(b) \/ Finishing(b)
        PROVE  ReportMatchesCheckpoint'
    <3>t. /\ rowStatus \in [BatchIds -> RowStatus] /\ b \in BatchIds
          /\ status \in [Ids -> BatchStatus]
      BY DEF TypeOK, StoreTypeOK, ExecTypeOK
    <3>1. CASE SkipCompleted(b) \/ SkipTripped(b)
      <4>1. status'[b] = "skipped"
        BY <3>1, <3>t DEF SkipCompleted, SkipTripped
      <4>. QED
        BY <2>3, <4>1 DEF ReportInv, ReportMatchesCheckpoint
    <3>2. CASE Finishing(b) /\ Complete
      <4>1. rowStatus[cur] = "running"
        BY <1>1, <3>2 DEF Complete, InHandInv, InBatch
      <4>2. status'[b] = "completed" /\ rowStatus'[b] = "completed"
        BY <3>2, <3>t, <4>1 DEF Finishing, Complete, MarkBatchCompleted, UpdateStatus
      <4>. QED
        BY <2>3, <4>2 DEF ReportInv, ReportMatchesCheckpoint
    <3>3. CASE Finishing(b) /\ Fail
      <4>1. rowStatus[cur] = "running" /\ status[cur] = "failed"
        BY <1>1, <3>3 DEF Fail, InHandInv, InBatch
      <4>2. status'[b] = "failed" /\ rowStatus'[b] = "failed"
        BY <3>3, <3>t, <4>1 DEF Finishing, Fail, MarkBatchFailed, UpdateStatus
      <4>. QED
        BY <2>3, <4>2 DEF ReportInv, ReportMatchesCheckpoint
    <3>. QED
      BY <2>3, <3>1, <3>2, <3>3 DEF Finishing
  <2>. QED
    BY <1>1, <2>1, <2>2, <2>3, VisitedMoves
<1>. QED
  BY <1>1, <1>2 DEF ReportInv

(***************************************************************************)
(* What execute reports of a batch is what the checkpoint says of it, with *)
(* any faults.                                                             *)
(***************************************************************************)
THEOREM ReportsAreOnRecord == Spec => []ReportMatchesCheckpoint
<1>1. Init => TypeOK /\ ReportInv
  <2>1. Init => ReportInv
    BY DEF Init, ReportInv, InHandInv, ReportMatchesCheckpoint, InBatch
  <2>. QED
    BY <2>1, InitTypeOK
<1>2. TypeOK /\ ReportInv /\ [Next]_vars => (TypeOK /\ ReportInv)'
  BY NextTypeOK, ReportStep
<1>3. ReportInv => ReportMatchesCheckpoint
  BY DEF ReportInv
<1>. QED
  BY <1>1, <1>2, <1>3, PTL DEF Spec

-------------------------------------------------------------------------------
(***************************************************************************)
(* When execute returns.  Each batch it is through with is accounted for;  *)
(* and it returns only when it is through with all of them.                *)
(***************************************************************************)
Accounted(b) ==
    rowStatus[b] = "completed" \/ status[b] = "failed" \/ IsTripped(TableOf(b))

AccountInv ==
    /\ \A b \in visited : Accounted(b)
    /\ pc = "done" => visited = Ids

(***************************************************************************)
(* A table stays tripped until a new process builds a new breaker.         *)
(***************************************************************************)
LEMMA TrippedStays ==
    ASSUME TypeOK, TrippedInv, [Next]_vars, NEW t \in Tables, IsTripped(t)
    PROVE  Resume \/ IsTripped(t)'
<1>t. consecutive \in [Tables -> Nat] /\ MaxConsecutive \in Nat
  BY MaxConsecutiveAssumption DEF TypeOK, BreakerTypeOK
<1>1. CASE Complete
  <2>1. TableOf(cur) # t
    BY <1>1 DEF Complete, TrippedInv, InBatch
  <2>. QED
    BY <1>1, <1>t, <2>1 DEF Complete, RecordSuccess, IsTripped
<1>2. CASE Fail
  <2>1. consecutive'[t] >= consecutive[t]
    BY <1>2, <1>t DEF Fail, RecordFailure
  <2>2. consecutive'[t] \in Nat
    BY <1>2, <1>t DEF Fail, RecordFailure
  <2>. QED
    BY <1>t, <2>1, <2>2 DEF IsTripped
<1>3. CASE UNCHANGED breakerVars
  BY <1>3 DEF breakerVars, IsTripped
<1>4. Resume \/ Complete \/ Fail \/ UNCHANGED breakerVars
  BY DEF Next, vars, Step, Fault, Execute, SkipCompleted, SkipTripped,
     StartBatch, Return, SaveRunning, Begin, OverrideIdentity, Write,
     WriteFails, RestoreIdentity, Commit, Rollback, StepFails, CommitFails,
     CommitAckLost, CompleteFails, RollbackFails, CheckpointFails, Crash
<1>. QED
  BY <1>1, <1>2, <1>3, <1>4

LEMMA AccountStep ==
    ASSUME CommitInv, TrippedInv, ReportInv, AccountInv, [Next]_vars
    PROVE  AccountInv'
<1>0. /\ TypeOK /\ TypeOK' /\ InHandInv /\ visited \subseteq Ids
      /\ manifest \in Seq(Batch)
  BY NextTypeOK DEF CommitInv, ReportInv, TypeOK, ExecTypeOK
<1>1. /\ manifest' = manifest /\ Ids' = Ids
      /\ \A b \in Ids : commits[b] > 0 => commits'[b] > 0
  BY <1>0, CommitsGrow DEF Ids
<1>t. \A b \in Ids : TableOf(b)' = TableOf(b) /\ TableOf(b) \in Tables
  <2>1. \A b \in Ids : manifest[b] \in Batch
    BY <1>0 DEF Ids
  <2>2. \A b \in Ids : manifest[b].table \in Tables
    BY <2>1 DEF Batch
  <2>. QED
    BY <1>1, <2>2 DEF TableOf
\* A batch whose status and row stay remains accounted for, except in a new
\* process.
<1>2. \A b \in Ids : /\ Accounted(b)
                    /\ status'[b] = status[b] /\ rowStatus'[b] = rowStatus[b]
                       => Accounted(b)' \/ Resume
  <2>. SUFFICES ASSUME NEW b \in Ids, Accounted(b), ~Resume,
                       status'[b] = status[b], rowStatus'[b] = rowStatus[b]
                PROVE  Accounted(b)'
    OBVIOUS
  <2>1. IsTripped(TableOf(b)) => IsTripped(TableOf(b))'
    <3>1. ASSUME IsTripped(TableOf(b)) PROVE IsTripped(TableOf(b))'
      <4>1. consecutive'[TableOf(b)] >= MaxConsecutive
        BY <3>1, <1>0, <1>t, TrippedStays DEF IsTripped
      <4>. QED
        BY <4>1, <1>t DEF IsTripped
    <3>. QED
      BY <3>1
  <2>. QED
    BY <1>1, <2>1 DEF Accounted
<1>3. Resume => visited' = {}
  BY DEF Resume
<1>4. \A b \in visited' : Accounted(b)'
  <2>1. CASE visited' = {}
    BY <2>1
  <2>2. CASE /\ visited' = visited
             /\ \A b \in visited :
                   status'[b] = status[b] /\ rowStatus'[b] = rowStatus[b]
    BY <1>0, <1>2, <1>3, <2>2 DEF AccountInv
  <2>3. ASSUME NEW b \in Ids \ visited, visited' = visited \cup {b},
               \A c \in visited :
                  status'[c] = status[c] /\ rowStatus'[c] = rowStatus[c],
               SkipCompleted(b) \/ SkipTripped(b) \/ Finishing(b)
        PROVE  \A c \in visited' : Accounted(c)'
    <3>1. \A c \in visited : Accounted(c)'
      BY <1>0, <1>2, <1>3, <2>3 DEF AccountInv
    <3>2. CASE SkipCompleted(b)
      <4>1. rowStatus'[b] = "completed"
        BY <3>2 DEF SkipCompleted, IsLastCompleted, Completed, storeVars
      <4>. QED
        BY <2>3, <3>1, <4>1 DEF Accounted
    <3>3. CASE SkipTripped(b)
      <4>1. IsTripped(TableOf(b))'
        BY <1>1, <3>3 DEF SkipTripped, IsTripped, TableOf, breakerVars
      <4>. QED
        BY <2>3, <3>1, <4>1 DEF Accounted
    <3>4. CASE Finishing(b) /\ Complete
      <4>1. cur \in BatchIds /\ rowStatus[cur] = "running"
        BY <1>0, <3>4 DEF Complete, InHandInv, InBatch, TypeOK, ExecTypeOK
      <4>2. rowStatus'[b] = "completed"
        BY <1>0, <3>4, <4>1 DEF Finishing, Complete, MarkBatchCompleted,
           UpdateStatus, TypeOK, StoreTypeOK
      <4>. QED
        BY <2>3, <3>1, <4>2 DEF Accounted
    <3>5. CASE Finishing(b) /\ Fail
      <4>1. status'[b] = "failed"
        BY <3>5 DEF Finishing, Fail, ReportInv, InHandInv, InBatch
      <4>. QED
        BY <2>3, <3>1, <4>1 DEF Accounted
    <3>. QED
      BY <2>3, <3>2, <3>3, <3>4, <3>5 DEF Finishing
  <2>. QED
    BY <1>0, <2>1, <2>2, <2>3, VisitedMoves
<1>5. pc' = "done" => visited' = Ids'
  <2>1. CASE Return
    BY <1>1, <2>1 DEF Return
  <2>2. CASE UNCHANGED vars
    BY <1>1, <2>2 DEF vars, execVars, AccountInv
  <2>3. pc' = "done" => Return \/ UNCHANGED vars
    BY DEF Next, Step, Fault, Execute, Resume, SkipCompleted, SkipTripped,
       StartBatch, SaveRunning, Begin, OverrideIdentity, Write, WriteFails,
       RestoreIdentity, Commit, Complete, Rollback, Fail, StepFails,
       CommitFails, CommitAckLost, CompleteFails, RollbackFails,
       CheckpointFails, Crash, Goto
  <2>. QED
    BY <2>1, <2>2, <2>3
<1>. QED
  BY <1>4, <1>5 DEF AccountInv

ReturnInv == CommitInv /\ TrippedInv /\ ReportInv /\ AccountInv

LEMMA ReturnInvInit == Init => ReturnInv
<1>1. Init => CommitInv
  BY InitTypeOK DEF Init, StoreInit, CommitInv, CompletedImpliesCommitted, Completed
<1>2. Init => TrippedInv /\ ReportInv /\ AccountInv
  BY LocalAndTrippedInit
     DEF Init, ReportInv, InHandInv, ReportMatchesCheckpoint, AccountInv, InBatch
<1>. QED
  BY <1>1, <1>2 DEF ReturnInv

LEMMA ReturnInvStep == ReturnInv /\ [Next]_vars => ReturnInv'
<1>. SUFFICES ASSUME ReturnInv, [Next]_vars PROVE ReturnInv'
  OBVIOUS
<1>1. CommitInv' /\ TypeOK
  BY CommitInvStep DEF ReturnInv, CommitInv
<1>2. TrippedInv' /\ ReportInv' /\ AccountInv'
  BY <1>1, TrippedStep, ReportStep, AccountStep DEF ReturnInv
<1>. QED
  BY <1>1, <1>2 DEF ReturnInv

(***************************************************************************)
(* When execute returns, every batch has been committed at some time, is   *)
(* reported failed, or belongs to a table the breaker has tripped for.     *)
(***************************************************************************)
THEOREM ReturnsAccount == Spec => []ReturnAccountsForAll
<1>1. ReturnInv => ReturnAccountsForAll
  <2>1. CommitInv => Ids \subseteq BatchIds
    BY DEF CommitInv, TypeOK, ExecTypeOK
  <2>. QED
    BY <2>1 DEF ReturnInv, AccountInv, Accounted, ReturnAccountsForAll, CommitInv,
       CompletedImpliesCommitted, Completed
<1>. QED
  BY <1>1, ReturnInvInit, ReturnInvStep, PTL DEF Spec

-------------------------------------------------------------------------------
(***************************************************************************)
(* Identity columns.  A column that is BY DEFAULT is owed to a batch which *)
(* overrides it, is not completed and is still to come, unless its table   *)
(* has tripped; that batch in hand, it is altered back before the commit   *)
(* and before the rollback.  Where an ALTER itself may fail, this does not *)
(* hold: the finally block is then left with the column as it is.          *)
(***************************************************************************)
Restored == {"commit", "complete", "rollback", "fail"}

OwedTo(b, t) ==
    /\ TableOf(b) = t
    /\ NeedsOverride(manifest[b], source)
    /\ rowStatus[b] # "completed"
    /\ b \notin visited \/ IsTripped(t)
    /\ b = cur => pc \notin Restored

IdentityInv ==
    /\ pc \in {"write", "restoreOk", "restoreFailed"} =>
          NeedsOverride(manifest[cur], source)
    /\ \A t \in AlwaysTables :
          identity[t] # "always" => \E b \in Ids : OwedTo(b, t)

(***************************************************************************)
(* The batch in hand overrides its column while its rows are written.      *)
(***************************************************************************)
LEMMA OverrideStep ==
    ASSUME TypeOK, IdentityInv, [Next]_vars,
           pc' \in {"write", "restoreOk", "restoreFailed"}
    PROVE  NeedsOverride(manifest[cur], source)'
<1>1. manifest' = manifest /\ source' = source
  BY CommitsGrow
<1>2. CASE OverrideIdentity
  BY <1>1, <1>2 DEF OverrideIdentity, Goto, NeedsOverride
<1>3. CASE pc \in {"write", "restoreOk", "restoreFailed"} /\ cur' = cur
  BY <1>1, <1>3 DEF IdentityInv, NeedsOverride
<1>4. OverrideIdentity \/ (pc \in {"write", "restoreOk", "restoreFailed"} /\ cur' = cur)
  BY DEF Next, vars, execVars, Step, Fault, Execute, Resume, SkipCompleted,
     SkipTripped, StartBatch, Return, SaveRunning, Begin, Write, WriteFails,
     RestoreIdentity, Commit, Complete, Rollback, Fail, StepFails, CommitFails,
     CommitAckLost, CompleteFails, RollbackFails, CheckpointFails, Crash, Goto
<1>. QED
  BY <1>2, <1>3, <1>4

(***************************************************************************)
(* Only an override makes a column BY DEFAULT.                             *)
(***************************************************************************)
LEMMA NewlyByDefault ==
    ASSUME TypeOK, [Next]_vars, NEW t \in AlwaysTables,
           identity[t] = "always", identity'[t] # "always"
    PROVE  OverrideIdentity /\ t = TableOf(cur)
<1>1. CASE OverrideIdentity \/ RestoreIdentity
  BY <1>1 DEF OverrideIdentity, RestoreIdentity, SetIdentityGenerated, TypeOK,
     TargetTypeOK
<1>2. OverrideIdentity \/ RestoreIdentity \/ identity' = identity
  BY DEF Next, vars, targetVars, Step, Fault, Execute, Resume, SkipCompleted,
     SkipTripped, StartBatch, Return, SaveRunning, Begin, Write, WriteFails,
     Commit, Complete, Rollback, Fail, StepFails, CommitFails, CommitAckLost,
     CompleteFails, RollbackFails, CheckpointFails, Crash, Reconnect,
     BeginTransaction, RunStatements, CommitWork, RollbackWork
<1>. QED
  BY <1>1, <1>2

(***************************************************************************)
(* A batch that overrides its column reaches the commit or the rollback    *)
(* only with the column altered back.                                      *)
(***************************************************************************)
LEMMA RestoredFirst ==
    ASSUME "statement" \notin Faults, TypeOK, [Next]_vars,
           NEW b \in Ids, NEW t \in AlwaysTables, OwedTo(b, t),
           b = cur', pc' \in Restored
    PROVE  identity'[t] = "always"
<1>1. CASE RestoreIdentity
  BY <1>1 DEF RestoreIdentity, Goto, OwedTo, SetIdentityGenerated, TypeOK, TargetTypeOK
<1>2. CASE cur' = cur /\ pc \in Restored
  BY <1>2 DEF OwedTo
<1>w. CASE Write \/ WriteFails
  <2>1. cur' = cur /\ AtWrite /\ pc = "apply"
    BY <1>w DEF Write, WriteFails, Goto, AtWrite, Restored
  <2>. QED
    BY <2>1 DEF OwedTo, AtWrite
<1>3. \/ RestoreIdentity \/ Write \/ WriteFails
      \/ cur' = cur /\ pc \in Restored
  BY DEF Next, vars, execVars, Step, Fault, Execute, Resume, SkipCompleted,
     SkipTripped, StartBatch, Return, SaveRunning, Begin, OverrideIdentity,
     Commit, Complete, Rollback, Fail, StepFails,
     CommitFails, CommitAckLost, CompleteFails, RollbackFails, CheckpointFails,
     Crash, Goto, CountCommit, Restored
<1>. QED
  BY <1>1, <1>2, <1>w, <1>3

LEMMA IdentityStep ==
    ASSUME "statement" \notin Faults, ReturnInv, IdentityInv, [Next]_vars
    PROVE  IdentityInv'
<1>0. /\ TypeOK /\ InHandInv /\ TrippedInv /\ Ids \subseteq BatchIds
      /\ identity \in [AlwaysTables -> {"always", "by_default"}]
      /\ AlwaysTables \subseteq Tables
  BY AlwaysTablesAssumption
     DEF ReturnInv, CommitInv, ReportInv, TypeOK, ExecTypeOK, TargetTypeOK
<1>1. manifest' = manifest /\ source' = source /\ Ids' = Ids
  BY <1>0, CommitsGrow DEF Ids
<1>2. ASSUME NEW t \in AlwaysTables, identity'[t] # "always"
      PROVE  \E b \in Ids' : OwedTo(b, t)'
  <2>1. CASE identity[t] = "always"
    <3>1. OverrideIdentity /\ t = TableOf(cur)
      BY <1>0, <1>2, <2>1, NewlyByDefault
    <3>2. PICK b \in Ids : b = cur /\ b \notin visited /\ rowStatus[b] = "running"
      BY <1>0, <3>1 DEF OverrideIdentity, InHandInv, TypeOK, ExecTypeOK, InBatch
    <3>3. OwedTo(b, t)'
      BY <1>1, <3>1, <3>2 DEF OverrideIdentity, Goto, storeVars, OwedTo, TableOf,
         NeedsOverride, Restored
    <3>. QED
      BY <1>1, <3>2, <3>3
  <2>2. CASE identity[t] # "always"
    <3>1. PICK b \in Ids : OwedTo(b, t)
      BY <2>2 DEF IdentityInv
    <3>2. TableOf(b)' = t /\ NeedsOverride(manifest[b], source)'
      BY <1>1, <3>1 DEF OwedTo, TableOf, NeedsOverride
    <3>3. rowStatus'[b] # "completed"
      <4>1. ~(Complete /\ b = cur)
        BY <3>1 DEF OwedTo, Complete, Restored
      <4>. QED
        BY <1>0, <3>1, <4>1, NewlyCompleted DEF OwedTo
    <3>4. b \notin visited' \/ IsTripped(t)'
      <4>1. IsTripped(t) => IsTripped(t)' \/ visited' = {}
        <5>1. ASSUME IsTripped(t) PROVE Resume \/ IsTripped(t)'
          BY <5>1, <1>0, TrippedStays
        <5>. QED
          BY <5>1 DEF Resume
      <4>2. CASE visited' = {} \/ visited' = visited
        BY <3>1, <4>1, <4>2 DEF OwedTo
      <4>3. ASSUME NEW c \in Ids \ visited, visited' = visited \cup {c},
                   SkipCompleted(c) \/ SkipTripped(c) \/ Finishing(c)
            PROVE  b \notin visited' \/ IsTripped(t)'
        <5>1. CASE c # b
          BY <3>1, <4>1, <4>3, <5>1 DEF OwedTo
        <5>2. CASE c = b /\ SkipCompleted(b)
          BY <3>1, <5>2 DEF SkipCompleted, IsLastCompleted, Completed, OwedTo
        <5>3. CASE c = b /\ SkipTripped(b)
          <6>1. IsTripped(t)
            BY <3>1, <5>3 DEF SkipTripped, OwedTo
          <6>. QED
            BY <4>1, <6>1, <4>3
        <5>4. CASE c = b /\ Finishing(b)
          BY <3>1, <5>4 DEF Finishing, Complete, Fail, OwedTo, Restored
        <5>. QED
          BY <4>3, <5>1, <5>2, <5>3, <5>4
      <4>. QED
        BY <1>0, <4>2, <4>3, VisitedMoves
    <3>5. b = cur' => pc' \notin Restored
      BY <1>0, <1>2, <3>1, RestoredFirst
    <3>6. OwedTo(b, t)'
      BY <3>2, <3>3, <3>4, <3>5 DEF OwedTo
    <3>. QED
      BY <1>1, <3>6
  <2>. QED
    BY <2>1, <2>2
<1>3. pc' \in {"write", "restoreOk", "restoreFailed"} =>
         NeedsOverride(manifest[cur], source)'
  BY <1>0, OverrideStep
<1>. QED
  BY <1>2, <1>3 DEF IdentityInv

(***************************************************************************)
(* Where no statement fails but those the database refuses, an identity    *)
(* column is GENERATED ALWAYS when execute returns, whatever processes     *)
(* died on the way, unless the breaker has stopped its table.              *)
(***************************************************************************)
THEOREM IdentitiesAreRestored ==
    ASSUME "statement" \notin Faults
    PROVE  Spec => []IdentityIsRestored
<1>1. Init => IdentityInv
  BY DEF Init, TargetInit, IdentityInv
<1>2. ReturnInv /\ IdentityInv /\ [Next]_vars => (ReturnInv /\ IdentityInv)'
  BY ReturnInvStep, IdentityStep
<1>3. ReturnInv /\ IdentityInv => IdentityIsRestored
  BY DEF ReturnInv, AccountInv, IdentityInv, OwedTo, IdentityIsRestored
<1>. QED
  BY <1>1, <1>2, <1>3, ReturnInvInit, PTL DEF Spec
===============================================================================
