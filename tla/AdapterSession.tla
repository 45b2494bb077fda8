---------------------------- MODULE AdapterSession ----------------------------
(***************************************************************************)
(* One caller of a Database adapter, PostgreSQLAdapter or DB2Adapter: it   *)
(* connects, begins, writes, loads in bulk, switches triggers, reads       *)
(* through a server-side cursor, commits, rolls back and closes, in any    *)
(* order the interface allows, on one table with an identity column.       *)
(*                                                                         *)
(* A call is the statements it sends, one step each; a statement may fail, *)
(* and the connection may be lost between any two.  BatchExecutor and      *)
(* Pipeline use a fixed pattern of these calls; here is the whole API.     *)
(***************************************************************************)
EXTENDS SortedLists, SequencesExt

CONSTANTS
    Keys,               \* primary keys of the table
    Triggers,           \* its triggers
    Adapters,           \* the adapters to look at
    PageSize,           \* page_size of PostgreSQL's execute_batch
    ChunkSize,          \* _DEFAULT_FETCH_SIZE: rows between DB2's commits
    MaxCalls,           \* bound: calls of the interface
    MaxFaults           \* bound: failing statements and lost connections

ASSUME AdaptersAssumption == Adapters \subseteq {"postgresql", "db2"}
ASSUME SizesAssumption ==
    /\ IsFiniteSet(Keys) /\ Keys \subseteq Int
    /\ IsFiniteSet(Triggers)
    /\ PageSize \in Nat \ {0}
    /\ ChunkSize \in Nat \ {0}
ASSUME SessionBoundsAssumption == MaxCalls \in Nat /\ MaxFaults \in Nat

\* The version of a row says who wrote it last.
Versions == {"none", "inserted", "updated"}
Generated == {"always", "by_default"}

Database ==
    [rows : [Keys -> Versions],
     generated : Generated,         \* the identity column's generation mode
     disabled : SUBSET Triggers,
     restart : {"first", "next"}]   \* where the identity column goes on

VARIABLES
    adapter,
    committed,          \* the durable contents
    session,            \* the contents as the connection sees them
    connected,
    autocommit,
    aborted,            \* an error made the database undo the open transaction
    stream,             \* the open server-side cursor: "none", or "own" or
                        \* "callers" according to whose transaction it lives in
    request,            \* the call being answered and its arguments
    todo,               \* the statements it has still to send
    raising,            \* an exception is on its way through the finally block
    found,              \* history: the identity column's mode as it was found
    calls, faults,      \* history: how many calls; failures
    begun,              \* history: begin_transaction was called on this connection
    mixed,              \* history: writes or begins while an own cursor was open
    selfCommitted,      \* history: a call of this transaction has committed
    unsure,             \* history: what the calls of this transaction that raised
                        \* may have done
    left,               \* history: what was ever left half done durably
    base,               \* history: durable contents when the transaction began
    owed                \* history: what the calls that returned have promised

connectionVars == <<connected, autocommit, aborted, stream>>
callVars == <<request, todo, raising>>
historyVars == <<calls, faults, begun, mixed, selfCommitted, unsure, left,
                base, owed>>
vars == <<adapter, found, committed, session, connectionVars, callVars, historyVars>>

Statement ==
    [do : {"insert", "override", "copy", "load", "update", "delete"}, arg : SUBSET Keys]
    \cup [do : {"alter"}, arg : Generated]
    \cup [do : {"disable", "enable"}, arg : SUBSET Triggers]
    \cup [do : {"restart", "commit"}, arg : {"next", ""}]

Idle == [call |-> "none", keys |-> {}, override |-> FALSE]
NoStatements == [prepare |-> <<>>, body |-> <<>>, cleanup |-> <<>>]

\* What a call that raises can leave half done besides rows.
Parts == {"generated", "disabled", "restart"}

Sure == [rows |-> {}, parts |-> {}]

\* Every variable has its type; no transaction is aborted in autocommit mode.
TypeOK ==
    /\ adapter \in Adapters
    /\ found \in Generated
    /\ committed \in Database
    /\ session \in Database
    /\ connected \in BOOLEAN
    /\ autocommit \in BOOLEAN
    /\ aborted \in BOOLEAN /\ (aborted => ~autocommit)
    /\ stream \in {"none", "own", "callers"}
    /\ request.keys \subseteq Keys
    /\ DOMAIN todo = DOMAIN NoStatements
    /\ \A part \in DOMAIN todo : \A i \in DOMAIN todo[part] : todo[part][i] \in Statement
    /\ raising \in BOOLEAN /\ (raising => request # Idle)
    /\ calls \in 0..MaxCalls
    /\ faults \in 0..MaxFaults
    /\ begun \in BOOLEAN
    /\ mixed \in BOOLEAN
    /\ selfCommitted \in BOOLEAN
    /\ unsure.rows \subseteq Keys /\ unsure.parts \subseteq Parts
    /\ left \subseteq Parts
    /\ base \in Database
    /\ owed \in Database

-------------------------------------------------------------------------------
(* Statements.                                                              *)

Set(db, keys, version) ==
    [db EXCEPT !.rows = [k \in Keys |-> IF k \in keys THEN version ELSE @[k]]]

Stored(db) == {k \in Keys : db.rows[k] # "none"}

\* Rows LOAD does not reject.
Loadable(db, keys, override) ==
    IF override \/ db.generated = "by_default" THEN keys \ Stored(db) ELSE {}

\* The contents after a statement.
After(s, db) ==
    CASE s.do \in {"insert", "override", "copy", "load"} -> Set(db, s.arg, "inserted")
      [] s.do = "update" -> Set(db, s.arg \cap Stored(db), "updated")
      [] s.do = "delete" -> Set(db, s.arg, "none")
      [] s.do = "alter" -> [db EXCEPT !.generated = s.arg]
      [] s.do = "disable" -> [db EXCEPT !.disabled = @ \cup s.arg]
      [] s.do = "enable" -> [db EXCEPT !.disabled = @ \ s.arg]
      [] s.do = "restart" -> [db EXCEPT !.restart = "next"]
      [] s.do = "commit" -> db

\* A statement the database refuses: a duplicate key; a value for an identity
\* column that is GENERATED ALWAYS, unless overridden (COPY always does); LOAD
\* while the session holds locks on the table; on PostgreSQL anything in an
\* aborted transaction.
Refused(s) ==
    \/ aborted /\ adapter = "postgresql"
    \/ s.do \in {"insert", "override", "copy"} /\ s.arg \cap Stored(session) # {}
    \/ s.do = "insert" /\ session.generated = "always"
    \/ s.do = "load" /\ session # committed

-------------------------------------------------------------------------------
(* The statements of each call.  Those of "prepare" come before the try    *)
(* block, those of "body" in it, those of "cleanup" in its finally block.  *)

St(do, arg) == [do |-> do, arg |-> arg]
CommitSt == St("commit", "")

Body(statements) == [NoStatements EXCEPT !.body = statements]

\* PostgreSQL executes a page of rows at once, DB2 row by row.
RowStatements(do, keys) ==
    [i \in DOMAIN Pieces(keys, IF adapter = "db2" THEN 1 ELSE PageSize) |->
        St(do, Pieces(keys, IF adapter = "db2" THEN 1 ELSE PageSize)[i])]

\* _set_identity_generated.
SetIdentityGenerated(mode) == <<St("alter", mode), CommitSt>>

\* Mutant of Overridden: the column is altered back in the try block.
OverriddenInTry(statements) ==
    [prepare |-> SetIdentityGenerated("by_default"),
     body |-> statements \o SetIdentityGenerated("always"),
     cleanup |-> <<>>]

\* Mutant of Overridden: nothing alters the column back.
OverriddenForGood(statements) ==
    [prepare |-> SetIdentityGenerated("by_default"), body |-> statements, cleanup |-> <<>>]

\* Statements between the two ALTER TABLEs of DB2's override.
Overridden(statements) ==
    [prepare |-> SetIdentityGenerated("by_default"),
     body |-> statements,
     cleanup |-> SetIdentityGenerated("always")]

InsertBatch(keys, override) ==
    CASE adapter = "postgresql" ->
            Body(RowStatements(IF override THEN "override" ELSE "insert", keys))
      [] adapter = "db2" /\ override -> Overridden(RowStatements("insert", keys))
      [] OTHER -> Body(RowStatements("insert", keys))

\* PostgreSQL: COPY, the first column altered around it within the try block.
CopyFrom(keys, override) ==
    IF override
    THEN [prepare |-> <<>>,
          body |-> <<St("alter", "by_default"), St("copy", keys)>>,
          cleanup |-> <<St("alter", "always")>>]
    ELSE Body(<<St("copy", keys)>>)

\* _bulk_load_via_insert commits after each chunk: every statement behind as many
\* rows is a COMMIT, and the last one.
BulkLoadViaInsert(keys, override) ==
    LET rows == Cardinality(keys)
        all == rows + (rows + ChunkSize - 1) \div ChunkSize
        statements ==
            [j \in 1 .. all |->
                IF j = all \/ j % (ChunkSize + 1) = 0 THEN CommitSt
                ELSE St("insert", {k \in keys : Rank(k, keys) = j - j \div (ChunkSize + 1)})]
    IN  IF override /\ session.generated = "always" THEN Overridden(statements)
                                                   ELSE Body(statements)

\* _bulk_load_via_cli: the db2 program has a connection of its own.
BulkLoadViaCli(keys, override) ==
    Body(<<St("load", Loadable(committed, keys, override))>>)

\* Mutant of SwitchTriggers: DB2 commits after each trigger.
SwitchEachTrigger(do) ==
    IF adapter = "postgresql" THEN Body(<<St(do, Triggers)>>)
    ELSE Body(LET order == SetToSeq(Triggers)
              IN  [i \in 1 .. 2 * Len(order) |->
                    IF i % 2 = 1 THEN St(do, {order[(i + 1) \div 2]}) ELSE CommitSt])

\* disable_triggers, enable_triggers: one statement for all triggers, or one
\* for each and a commit if there are any.
SwitchTriggers(do) ==
    IF adapter = "postgresql" THEN Body(<<St(do, Triggers)>>)
    ELSE Body(LET order == SetToSeq(Triggers)
              IN  [i \in DOMAIN order |-> St(do, {order[i]})]
                  \o IF Triggers = {} THEN <<>> ELSE <<CommitSt>>)

\* reset_identity; reset_sequence is the same for a standalone sequence.
ResetIdentity ==
    Body(IF adapter = "db2" THEN <<St("restart", "next"), CommitSt>>
                            ELSE <<St("restart", "next")>>)

Statements(r) ==
    CASE r.call = "insert_batch" -> InsertBatch(r.keys, r.override)
      [] r.call = "update_batch" -> Body(RowStatements("update", r.keys))
      [] r.call = "delete_batch" -> Body(RowStatements("delete", r.keys))
      [] r.call = "bulk_load" ->
            IF adapter = "postgresql" THEN CopyFrom(r.keys, r.override)
                                      ELSE BulkLoadViaInsert(r.keys, r.override)
      [] r.call = "bulk_load_cli" -> BulkLoadViaCli(r.keys, r.override)
      [] r.call = "disable_triggers" -> SwitchTriggers("disable")
      [] r.call = "enable_triggers" -> SwitchTriggers("enable")
      [] r.call = "reset_identity" -> ResetIdentity

-------------------------------------------------------------------------------
Running == request # Idle

\* The caller may call what it likes, after an exception too: the adapters check
\* only that they are connected.
Ready == connected /\ ~Running

Fresh == [rows |-> [k \in Keys |-> "none"], generated |-> "by_default",
          disabled |-> {}, restart |-> "first"]

Init ==
    /\ adapter \in Adapters
    /\ found \in Generated
    /\ committed = [Fresh EXCEPT !.generated = found]
    /\ session = committed
    /\ connected = FALSE
    /\ autocommit = FALSE
    /\ aborted = FALSE
    /\ stream = "none"
    /\ request = Idle
    /\ todo = NoStatements
    /\ raising = FALSE
    /\ calls = 0
    /\ faults = 0
    /\ begun = FALSE
    /\ mixed = FALSE
    /\ selfCommitted = FALSE
    /\ unsure = Sure
    /\ left = {}
    /\ base = committed
    /\ owed = committed

\* A transaction, or a connection, starts from what is durable.
StartAfresh ==
    /\ session' = committed'
    /\ base' = committed'
    /\ owed' = committed'
    /\ unsure' = Sure
    /\ aborted' = FALSE
    /\ selfCommitted' = FALSE

Connect ==
    /\ ~connected
    /\ connected' = TRUE
    /\ autocommit' = (adapter = "postgresql")
    /\ begun' = FALSE
    /\ mixed' = FALSE
    /\ UNCHANGED committed
    /\ StartAfresh
    /\ UNCHANGED <<adapter, found, stream, callVars, calls, faults, left>>

\* The connection is gone, with its cursors and the work it has not committed.
Disconnect ==
    /\ connected' = FALSE
    /\ autocommit' = FALSE
    /\ stream' = "none"
    /\ request' = Idle
    /\ todo' = NoStatements
    /\ raising' = FALSE
    /\ StartAfresh
    /\ UNCHANGED <<adapter, found, calls, begun, mixed>>

Close ==
    /\ Ready
    /\ UNCHANGED <<committed, faults, left>>
    /\ Disconnect

\* Mutant of BeginTransaction: autocommit mode is not left.
BeginInAutocommit ==
    /\ Ready
    /\ ~begun
    /\ begun' = TRUE
    /\ mixed' = (mixed \/ stream = "own")
    /\ base' = IF autocommit THEN committed ELSE base
    /\ UNCHANGED <<adapter, found, committed, session, connectionVars, callVars,
                   calls, faults, selfCommitted, unsure, left, owed>>

\* DB2's begin_transaction does nothing: the transaction has begun already.
BeginTransaction ==
    /\ Ready
    /\ autocommit \/ ~begun
    /\ autocommit' = FALSE
    /\ begun' = TRUE
    /\ mixed' = (mixed \/ stream = "own")
    /\ base' = IF autocommit THEN committed ELSE base
    /\ UNCHANGED <<adapter, found, committed, session, connected, aborted, stream, callVars,
                   calls, faults, selfCommitted, unsure, left, owed>>

\* Whatever has failed before: of a transaction PostgreSQL has aborted nothing is
\* left to commit, and COMMIT does not say so.
Commit ==
    /\ Ready
    /\ committed' = session
    /\ left' = left \cup unsure.parts
    /\ StartAfresh
    /\ UNCHANGED <<adapter, found, connected, autocommit, stream, callVars,
                   calls, faults, begun, mixed>>

\* rollback_transaction; autocommit stays as it is.
RollbackTransaction ==
    /\ Ready
    /\ UNCHANGED committed
    /\ StartAfresh
    /\ UNCHANGED <<adapter, found, connected, autocommit, stream, callVars,
                   calls, faults, begun, mixed, left>>

\* stream_rows without a key: _named_cursor leaves autocommit mode for it.  In an
\* aborted transaction it raises and changes nothing.
OpenStream ==
    /\ Ready
    /\ adapter = "postgresql"
    /\ ~aborted
    /\ stream = "none"
    /\ stream' = IF autocommit THEN "own" ELSE "callers"
    /\ autocommit' = FALSE
    /\ base' = IF autocommit THEN committed ELSE base
    /\ UNCHANGED <<adapter, found, committed, session, connected, aborted, callVars,
                   calls, faults, begun, mixed, selfCommitted, unsure, left, owed>>

\* Mutant of EndStream: the caller's transaction is rolled back as well.
EndAnyTransaction ==
    /\ Ready
    /\ stream # "none"
    /\ stream' = "none"
    /\ session' = committed
    /\ aborted' = FALSE
    /\ autocommit' = (stream = "own")
    /\ UNCHANGED <<adapter, found, committed, connected, callVars, historyVars>>

\* Mutant of EndStream: autocommit mode is not restored.
EndStreamOnly ==
    /\ Ready
    /\ stream # "none"
    /\ stream' = "none"
    /\ UNCHANGED <<adapter, found, committed, session, connected, autocommit, aborted,
                   callVars, historyVars>>

\* The stream is read to its end, dropped or failed: its own transaction is
\* rolled back, and the connection returns to autocommit mode.
EndStream ==
    /\ Ready
    /\ stream # "none"
    /\ stream' = "none"
    /\ IF stream = "own"
       THEN /\ session' = committed /\ base' = committed
            /\ aborted' = FALSE /\ selfCommitted' = FALSE
            /\ autocommit' = TRUE
       ELSE UNCHANGED <<session, base, aborted, selfCommitted, autocommit>>
    /\ UNCHANGED <<adapter, found, committed, connected, callVars, calls, faults, begun,
                   mixed, unsure, left, owed>>

\* The caller asks to override an identity column only if it found it GENERATED
\* ALWAYS.
Requests ==
    [call : {"insert_batch", "bulk_load"}, keys : SUBSET Keys \ {{}}, override : BOOLEAN]
    \cup [call : {"update_batch", "delete_batch"}, keys : SUBSET Keys \ {{}},
          override : {FALSE}]
    \cup [call : {"disable_triggers", "enable_triggers", "reset_identity"},
          keys : {{}}, override : {FALSE}]
    \cup IF adapter = "db2"
         THEN [call : {"bulk_load_cli"}, keys : SUBSET Keys \ {{}}, override : BOOLEAN]
         ELSE {}

Call(r) ==
    /\ Ready
    /\ calls < MaxCalls
    /\ calls' = calls + 1
    /\ r.override => found = "always"
    /\ request' = r
    /\ todo' = Statements(r)
    /\ todo' # NoStatements
    /\ mixed' = (mixed \/ stream = "own")
    /\ UNCHANGED <<adapter, found, committed, session, connectionVars, raising, faults,
                   begun, selfCommitted, unsure, left, base, owed>>

Part ==
    CASE todo.prepare # <<>> -> "prepare"
      [] todo.prepare = <<>> /\ todo.body # <<>> -> "body"
      [] OTHER -> "cleanup"

NextStatement == Head(todo[Part])

\* What the interface promises of a call that returns.  LOAD goes by the identity
\* column as it is.
Promised(r, db) ==
    CASE r.call \in {"insert_batch", "bulk_load"} -> After(St("insert", r.keys), db)
      [] r.call = "update_batch" -> After(St("update", r.keys), db)
      [] r.call = "delete_batch" -> After(St("delete", r.keys), db)
      [] r.call = "bulk_load_cli" ->
            After(St("load", Loadable([db EXCEPT !.generated = session.generated],
                                      r.keys, r.override)), db)
      [] r.call = "disable_triggers" -> After(St("disable", Triggers), db)
      [] r.call = "enable_triggers" -> After(St("enable", Triggers), db)
      [] r.call = "reset_identity" -> After(St("restart", "next"), db)

\* The identity column after a call, or after its finally block: DB2's bulk load
\* alters a column only if it is GENERATED ALWAYS.
PutBack(r, db) ==
    IF r.override /\ r.call = (IF adapter = "db2" THEN "insert_batch" ELSE "bulk_load")
    THEN [db EXCEPT !.generated = "always"] ELSE db

\* The call goes on with "rest", or is over; a call that raised promises no more
\* than it promised before.
GoOn(rest, raised) ==
    /\ todo' = rest
    /\ raising' = (raised /\ rest # NoStatements)
    /\ IF rest # NoStatements
       THEN UNCHANGED <<request, owed>>
       ELSE /\ request' = Idle
            /\ owed' = PutBack(request, IF raised THEN owed ELSE Promised(request, owed))

\* What is durable once a statement has been executed.
DurableAfter(s) ==
    IF autocommit \/ s.do \in {"commit", "load"} THEN After(s, session) ELSE committed

\* What a COMMIT would make durable half done.
LeftBy(s) == IF s.do = "commit" THEN unsure.parts ELSE {}

Execute ==
    /\ Running
    /\ ~Refused(NextStatement)
    /\ session' = After(NextStatement, session)
    /\ committed' = DurableAfter(NextStatement)
    /\ left' = left \cup LeftBy(NextStatement)
    /\ selfCommitted' = (selfCommitted \/ NextStatement.do \in {"commit", "load"})
    /\ GoOn([todo EXCEPT ![Part] = Tail(@)], raising)
    /\ UNCHANGED <<adapter, found, connectionVars, calls, faults, begun, mixed,
                   unsure, base>>

\* What is still executed after an exception: the finally block, if the try
\* block had begun.
Remaining ==
    IF Part = "body" THEN [NoStatements EXCEPT !.cleanup = todo.cleanup] ELSE NoStatements

\* What the call that raises may have done.  PostgreSQL switches triggers and
\* resets in one statement.
Unsettled ==
    [rows |-> unsure.rows \cup request.keys,
     parts |-> unsure.parts \cup
        {part \in Parts :
            \/ part = "generated" /\ Part # "body"
            \/ /\ part = "disabled" /\ adapter = "db2"
               /\ request.call \in {"disable_triggers", "enable_triggers"}
            \/ part = "restart" /\ adapter = "db2" /\ request.call = "reset_identity"}]

\* An identity column whose mode is durable while it is altered.
LeftAltered == IF adapter = "db2" \/ autocommit THEN {"generated"} ELSE {}

\* Mutant of SessionAfterError: the adapter rolls back after every error.
SessionRolledBack(undone) == committed

\* _cursor, execute, execute_many: an error closes the cursor and nothing more.
SessionAfterError(undone) == IF undone THEN committed ELSE session

\* A statement raises.  PostgreSQL undoes the transaction; DB2 undoes the
\* statement, or the transaction if it was chosen to end a deadlock.
Raise ==
    /\ Running
    /\ \/ Refused(NextStatement) /\ UNCHANGED faults
       \/ faults < MaxFaults /\ faults' = faults + 1
    /\ \E undone \in BOOLEAN :
        /\ IF adapter = "postgresql" THEN undone = ~autocommit
                                     ELSE undone => faults' # faults
        /\ session' = SessionAfterError(undone)
        /\ aborted' = (aborted \/ undone)
        /\ unsure' = IF undone THEN Sure ELSE Unsettled
    /\ left' = left \cup IF Part = "cleanup" THEN LeftAltered ELSE {}
    /\ GoOn(Remaining, TRUE)
    /\ UNCHANGED <<adapter, found, committed, connected, autocommit, stream, calls, begun,
                   mixed, selfCommitted, base>>

\* The connection is lost, or the process dies; a statement or a commit whose
\* answer has not come may have been executed.
LoseConnection ==
    /\ connected
    /\ faults < MaxFaults
    /\ faults' = faults + 1
    /\ \E lost \in SUBSET Parts :
        /\ left' = left \cup lost \cup IF todo.cleanup # <<>> THEN LeftAltered ELSE {}
        /\ \/ UNCHANGED committed /\ lost = {}
           \/ /\ Running /\ ~Refused(NextStatement)
              /\ committed' = DurableAfter(NextStatement) /\ lost = LeftBy(NextStatement)
           \/ Ready /\ committed' = session /\ lost = unsure.parts
    /\ Disconnect

Next ==
    \/ Connect \/ Close
    \/ BeginTransaction \/ Commit \/ RollbackTransaction
    \/ OpenStream \/ EndStream
    \/ \E r \in Requests : Call(r)
    \/ Execute \/ Raise \/ LoseConnection

Spec == Init /\ [][Next]_vars

-------------------------------------------------------------------------------
(* Properties.                                                              *)

\* The contents agree but for what calls that raised may have done.
Agrees(db, other) ==
    /\ \A k \in Keys \ unsure.rows : db.rows[k] = other.rows[k]
    /\ "generated" \notin unsure.parts => db.generated = other.generated
    /\ "disabled" \notin unsure.parts => db.disabled = other.disabled
    /\ "restart" \notin unsure.parts => db.restart = other.restart

\* A caller that does not write or begin while a cursor with a transaction of
\* its own is open sees exactly what the calls that returned have promised,
\* whichever calls have raised in between, and may have written rows of their
\* own keys, and whichever streams have ended: unless the database has undone
\* the whole transaction, no failure undoes the work of another call.
WorkIsKept ==
    Ready /\ ~mixed /\ ~aborted => Agrees(session, owed)

\* commit, after failed calls too, makes all of that durable.  Of a transaction
\* that PostgreSQL has aborted it keeps nothing at all, whatever was called
\* after the error.
CommitKeepsAll ==
    [][Commit /\ ~mixed =>
        IF aborted THEN adapter = "postgresql" => committed' = base
                   ELSE Agrees(committed', owed)]_vars

InTransaction == IF adapter = "db2" THEN ~selfCommitted ELSE begun

\* rollback_transaction leaves durable what was durable when the transaction
\* began.  On DB2 that is promised only if no call has committed meanwhile, as
\* an overridden insert, a bulk load, a switch of triggers and a reset do.
RollbackUndoesAll ==
    [][RollbackTransaction /\ ~mixed /\ InTransaction => committed' = base]_vars

\* On PostgreSQL a call outside any transaction is durable when it returns, as
\* long as begin_transaction was not called on the connection: neither commit
\* nor rollback_transaction returns to autocommit mode, whatever the docstring
\* of the latter says.
UnbegunWorkIsDurable ==
    Ready /\ adapter = "postgresql" /\ ~begun /\ stream = "none" => committed = session

\* Between calls, what is durable has the triggers all on or all off and the
\* identity column as it was found, whatever has failed, been rolled back or
\* lost, but for two cases: a commit, by the caller or by a later call, after a
\* call that raised (on DB2, between two triggers or before its try block); an
\* ALTER TABLE of a finally block that failed or was not reached.
SchemaIsLeftWhole ==
    ~Running =>
        /\ committed.disabled \in {{}, Triggers} \/ "disabled" \in left
        /\ committed.generated = found \/ "generated" \in left

===============================================================================
