------------------------- MODULE AdapterSessionProofs -------------------------
(***************************************************************************)
(* Theorems about AdapterSession, for any calls in any order on tables,    *)
(* pages and chunks of any size.                                           *)
(*                                                                         *)
(* A call is described by what it has still to send: the statements that   *)
(* write rows, the state of the identity column between the two ALTER      *)
(* TABLEs, the triggers not yet switched.  What has been sent and what is  *)
(* left make up what the interface promises, and a finally block that runs *)
(* to its end puts back what its try block found.                          *)
(***************************************************************************)
EXTENDS AdapterSession, SortedListsProofs

-------------------------------------------------------------------------------
(* What the variables hold.                                                 *)

RowCalls == {"insert_batch", "update_batch", "delete_batch", "bulk_load"}
SwitchCalls == {"disable_triggers", "enable_triggers"}

\* The statements by which a call writes rows.
Writers(call) ==
    CASE call = "insert_batch" -> {"insert", "override"}
      [] call = "bulk_load" -> {"insert", "copy"}
      [] call = "update_batch" -> {"update"}
      [] call = "delete_batch" -> {"delete"}

SessionTypes ==
    /\ adapter \in {"postgresql", "db2"}
    /\ found \in Generated
    /\ committed \in Database
    /\ session \in Database
    /\ connected \in BOOLEAN
    /\ autocommit \in BOOLEAN
    /\ aborted \in BOOLEAN
    /\ stream \in {"none", "own", "callers"}
    /\ request = Idle \/ request \in Requests
    /\ todo \in [prepare : Seq(Statement), body : Seq(Statement), cleanup : Seq(Statement)]
    /\ request = Idle <=> todo = NoStatements
    /\ raising \in BOOLEAN
    /\ calls \in 0..MaxCalls
    /\ faults \in 0..MaxFaults
    /\ begun \in BOOLEAN
    /\ mixed \in BOOLEAN
    /\ selfCommitted \in BOOLEAN
    /\ unsure.rows \in SUBSET Keys /\ unsure.parts \in SUBSET Parts
    /\ left \in SUBSET Parts
    /\ base \in Database
    /\ owed \in Database

\* How the connection's modes go together.
ConnectionInv ==
    /\ ~connected => request = Idle /\ stream = "none" /\ ~autocommit
    /\ autocommit => adapter = "postgresql" /\ stream = "none" /\ committed = session
    /\ raising => request # Idle
    /\ aborted => ~autocommit
    /\ aborted /\ adapter = "postgresql" => session = committed
    /\ stream # "none" => adapter = "postgresql"

\* A transaction that was begun, and what was durable then.
TransactionInv ==
    /\ adapter = "postgresql" /\ connected /\ ~begun => autocommit \/ stream = "own"
    /\ adapter = "postgresql" /\ begun /\ ~mixed =>
        ~autocommit /\ stream # "own" /\ committed = base
    /\ adapter = "db2" /\ ~selfCommitted => committed = base

\* Only statements of DB2 commit.
StatementsInv ==
    adapter = "postgresql" =>
        \A part \in DOMAIN todo : \A i \in DOMAIN todo[part] :
            todo[part][i].do \notin {"commit", "load"}

-------------------------------------------------------------------------------
(* A call half way.                                                         *)

NoAlters(statements) == \A i \in DOMAIN statements : statements[i].do # "alter"

\* The mode of the identity column between the statements of a call.
Unaltered ==
    todo.prepare = <<>> /\ NoAlters(todo.body) /\ todo.cleanup = <<>>
AlteredByDB2 ==
    /\ adapter = "db2"
    /\ request.call \in {"insert_batch", "bulk_load"}
    /\ NoAlters(todo.body)
    /\ \/ /\ todo.prepare \in {SetIdentityGenerated("by_default"), <<CommitSt>>, <<>>}
          /\ todo.cleanup = SetIdentityGenerated("always")
       \/ /\ todo.prepare = <<>> /\ todo.body = <<>>
          /\ todo.cleanup = <<CommitSt>>
          /\ session.generated = "always"
AlteredByCopy ==
    /\ adapter = "postgresql"
    /\ request.call = "bulk_load"
    /\ todo.prepare = <<>>
    /\ todo.body \in {<<St("alter", "by_default"), St("copy", request.keys)>>,
                     <<St("copy", request.keys)>>, <<>>}
    /\ todo.cleanup = <<St("alter", "always")>>

IdentityPhase == Unaltered \/ AlteredByDB2 \/ AlteredByCopy

\* Keys whose rows are still to be written.
KeysLeft == UNION {todo.body[i].arg :
                    i \in {i \in DOMAIN todo.body : todo.body[i].do \in Writers(request.call)}}

\* Triggers still to be switched.
TriggersLeft == UNION {todo.body[i].arg :
                    i \in {i \in DOMAIN todo.body : todo.body[i].do \in {"disable", "enable"}}}

SwitchTo == IF request.call = "disable_triggers" THEN "disable" ELSE "enable"

RowPhase ==
    \A i \in DOMAIN todo.body :
        \/ todo.body[i].do \in {"commit", "alter"}
        \/ todo.body[i].do \in Writers(request.call) /\ todo.body[i].arg \subseteq request.keys

SwitchPhase ==
    /\ Unaltered /\ ~raising
    /\ adapter = "postgresql" => Len(todo.body) = 1
    /\ \A i \in DOMAIN todo.body :
        \/ todo.body[i] = CommitSt /\ i = Len(todo.body)
        \/ todo.body[i].do = SwitchTo /\ todo.body[i].arg \subseteq Triggers
    /\ \A t \in Triggers \ TriggersLeft : t \in session.disabled <=> SwitchTo = "disable"

ResetPhase ==
    /\ Unaltered /\ ~raising
    /\ \/ todo.body \in {<<St("restart", "next"), CommitSt>>, <<St("restart", "next")>>}
       \/ todo.body = <<CommitSt>> /\ session.restart = "next"

LoadPhase ==
    /\ Unaltered /\ ~raising
    /\ todo.body = <<St("load", Loadable(committed, request.keys, request.override))>>

CallInv ==
    request # Idle =>
        /\ IdentityPhase
        /\ request.call \in RowCalls => RowPhase
        /\ request.call \in SwitchCalls => SwitchPhase
        /\ request.call = "reset_identity" => ResetPhase
        /\ request.call = "bulk_load_cli" => LoadPhase

-------------------------------------------------------------------------------
(* What the caller is owed.                                                 *)

\* What a call has sent and has left make up what it promises.
OwedHalfWay ==
    /\ \/ "generated" \in unsure.parts
       \/ Unaltered /\ session.generated = PutBack(request, owed).generated
       \/ ~Unaltered /\ PutBack(request, owed).generated = "always"
    /\ raising => request.keys \subseteq unsure.rows
    /\ request.call \in RowCalls =>
        \A k \in Keys \ unsure.rows :
            \/ session.rows[k] = Promised(request, owed).rows[k]
            \/ k \in KeysLeft /\ session.rows[k] = owed.rows[k]
    /\ request.call \notin RowCalls =>
        \A k \in Keys \ unsure.rows : session.rows[k] = owed.rows[k]
    /\ request.call \notin SwitchCalls \/ adapter = "postgresql" =>
        session.disabled = owed.disabled \/ "disabled" \in unsure.parts
    /\ request.call # "reset_identity" \/ adapter = "postgresql" =>
        session.restart = owed.restart \/ "restart" \in unsure.parts

OwedInv ==
    ~mixed =>
        /\ stream = "own" => request = Idle /\ session = committed /\ ~aborted
        /\ ~aborted /\ request = Idle => Agrees(session, owed)
        /\ ~aborted /\ request # Idle => OwedHalfWay

-------------------------------------------------------------------------------
(* The schema.                                                              *)

AllOrNone(db, parts) == db.disabled \in {{}, Triggers} \/ "disabled" \in parts
AsFound(db, parts) == db.generated = found \/ "generated" \in parts
Whole(db, parts) == AllOrNone(db, parts) /\ AsFound(db, parts)

WholeInv ==
    /\ request = Idle => Whole(committed, left) /\ Whole(session, left \cup unsure.parts)
    /\ request # Idle =>
        /\ AllOrNone(committed, left)
        /\ request.call \notin SwitchCalls \/ adapter = "postgresql" =>
            AllOrNone(session, left \cup unsure.parts)
        /\ Unaltered => AsFound(committed, left) /\ AsFound(session, left \cup unsure.parts)
        /\ ~Unaltered => found = "always"
        /\ AlteredByCopy /\ ~autocommit => AsFound(committed, left)
        /\ AlteredByDB2 /\ todo.prepare # <<>> => AsFound(committed, left)

SessionInv ==
    SessionTypes /\ ConnectionInv /\ TransactionInv /\ StatementsInv
        /\ CallInv /\ OwedInv /\ WholeInv

-------------------------------------------------------------------------------
(* Sequences of statements.                                                 *)

\* The first statement of a sequence, and the others.
LEMMA FirstAndOthers ==
    ASSUME NEW S, NEW s \in Seq(S), s # <<>>
    PROVE  /\ Head(s) \in S /\ Head(s) = s[1] /\ 1 \in DOMAIN s
           /\ Tail(s) \in Seq(S)
           /\ DOMAIN s = 1 .. Len(s) /\ Len(s) \in Nat
           /\ Len(Tail(s)) = Len(s) - 1
           /\ \A i \in DOMAIN Tail(s) : i + 1 \in DOMAIN s /\ Tail(s)[i] = s[i + 1]
           /\ \A i \in DOMAIN s :
                i = 1 \/ (i - 1 \in DOMAIN Tail(s) /\ s[i] = Tail(s)[i - 1])
  OBVIOUS

LEMMA OneStatement ==
    ASSUME NEW a
    PROVE  /\ <<a>> # <<>> /\ Head(<<a>>) = a /\ Tail(<<a>>) = <<>>
           /\ DOMAIN <<a>> = {1} /\ Len(<<a>>) = 1 /\ <<a>>[1] = a
  OBVIOUS

LEMMA TwoStatements ==
    ASSUME NEW a, NEW b
    PROVE  /\ <<a, b>> # <<>> /\ Head(<<a, b>>) = a /\ Tail(<<a, b>>) = <<b>>
           /\ DOMAIN <<a, b>> = {1, 2} /\ Len(<<a, b>>) = 2
           /\ <<a, b>>[1] = a /\ <<a, b>>[2] = b
  OBVIOUS

LEMMA Appended ==
    ASSUME NEW S, NEW a \in Seq(S), NEW b \in Seq(S)
    PROVE  /\ a \o b \in Seq(S) /\ Len(a) \in Nat /\ Len(b) \in Nat
           /\ Len(a \o b) = Len(a) + Len(b)
           /\ DOMAIN (a \o b) = 1 .. Len(a) + Len(b)
           /\ \A i \in 1 .. Len(a) : (a \o b)[i] = a[i]
           /\ \A i \in 1 .. Len(b) : (a \o b)[Len(a) + i] = b[i]
  OBVIOUS

\* Where a statement is a COMMIT after every n rows and at the end, the row of
\* place r has a statement.
LEMMA StatementOf ==
    ASSUME NEW n \in Nat \ {0}, NEW c \in Nat, NEW r \in 1 .. c
    PROVE  \E j \in 1 .. c + (c + n - 1) \div n :
                /\ j # c + (c + n - 1) \div n
                /\ j % (n + 1) # 0
                /\ r = j - j \div (n + 1)
<1> DEFINE q == (r - 1) \div n
           all == (c + n - 1) \div n
           j == r + q
           d == j \div (n + 1)
<1>1. q \in Int /\ all \in Int /\ d \in Int /\ j \in Int
  OBVIOUS
<1>2. q * n <= r - 1 /\ r - 1 < q * n + n
  OBVIOUS
<1>3. all * n <= c + n - 1 /\ c + n - 1 < all * n + n
  OBVIOUS
<1>4. d * (n + 1) <= j /\ j < d * (n + 1) + (n + 1) /\ j % (n + 1) = j - d * (n + 1)
  OBVIOUS
<1>5. j = r + q
  OBVIOUS
<1> HIDE DEF q, all, d, j
<1>6. q * n \in Int /\ all * n \in Int /\ d * (n + 1) \in Int
  BY <1>1
<1>7. q * (n + 1) = q * n + q /\ (q + 1) * (n + 1) = q * n + q + n + 1
      /\ (q + 1) * n = q * n + n /\ (all + 1) * n = all * n + n
      /\ (d + 1) * (n + 1) = d * (n + 1) + n + 1
  BY <1>1
<1>8. d = q
  <2>1. ~(d >= q + 1)
    <3> SUFFICES ASSUME d >= q + 1
                 PROVE  FALSE
      OBVIOUS
    <3>1. d * (n + 1) >= (q + 1) * (n + 1)
      BY <1>1
    <3> QED
      BY <1>1, <1>2, <1>4, <1>5, <1>6, <1>7, <3>1
  <2>2. ~(q >= d + 1)
    <3> SUFFICES ASSUME q >= d + 1
                 PROVE  FALSE
      OBVIOUS
    <3>1. q * (n + 1) >= (d + 1) * (n + 1)
      BY <1>1
    <3> QED
      BY <1>1, <1>2, <1>4, <1>5, <1>6, <1>7, <3>1
  <2> QED
    BY <1>1, <2>1, <2>2
<1>9. q >= 0
  <2> SUFFICES ASSUME q + 1 <= 0
               PROVE  FALSE
    BY <1>1
  <2>1. (q + 1) * n <= 0
    BY <1>1
  <2> QED
    BY <1>2, <1>6, <1>7, <2>1
<1>10. q + 1 <= all
  <2> SUFFICES ASSUME q + 1 >= all + 1
               PROVE  FALSE
    BY <1>1
  <2>1. (q + 1) * n >= (all + 1) * n
    BY <1>1
  <2> QED
    BY <1>2, <1>3, <1>6, <1>7, <2>1
<1>11. j \in 1 .. c + all /\ j # c + all
  BY <1>1, <1>5, <1>9, <1>10
<1>12. j % (n + 1) # 0
  BY <1>1, <1>2, <1>4, <1>5, <1>6, <1>7, <1>8
<1>13. r = j - d
  BY <1>1, <1>5, <1>8
<1> QED
  BY <1>11, <1>12, <1>13 DEF all, d

LEMMA KeysAreFinite ==
    ASSUME NEW keys \in SUBSET Keys
    PROVE  keys \in SUBSET Int /\ IsFiniteSet(keys) /\ Cardinality(keys) \in Nat
  BY FS_Subset, FS_CardinalityType, SizesAssumption

\* SetToSeq enumerates the triggers.
LEMMA TriggersInOrder ==
    /\ SetToSeq(Triggers) \in Seq(Triggers)
    /\ \A t \in Triggers : \E i \in DOMAIN SetToSeq(Triggers) : SetToSeq(Triggers)[i] = t
<1> DEFINE n == Cardinality(Triggers)
<1>1. n \in Nat /\ ExistsBijection(1 .. n, Triggers)
  BY SizesAssumption, FS_CardinalityType
<1>2. PICK b \in Bijection(1 .. n, Triggers) : TRUE
  BY <1>1 DEF ExistsBijection
<1>3. b \in [1 .. n -> Triggers] /\ IsInjective(b)
  BY <1>2 DEF Bijection, Injection, IsInjective
<1>4. SetToSeq(Triggers) \in [1 .. n -> Triggers] /\ IsInjective(SetToSeq(Triggers))
  BY <1>3 DEF SetToSeq
<1>5. SetToSeq(Triggers) \in Injection(1 .. n, Triggers)
  BY <1>4 DEF Injection, IsInjective
<1>6. Cardinality(1 .. n) = n
  BY <1>1, FS_Interval
<1>7. SetToSeq(Triggers) \in Surjection(1 .. n, Triggers)
  BY <1>5, <1>6, SizesAssumption, FS_Injection
<1>8. SetToSeq(Triggers) \in Seq(Triggers)
  BY <1>1, <1>4
<1> QED
  BY <1>4, <1>7, <1>8 DEF Surjection

-------------------------------------------------------------------------------
(* What a statement does.                                                   *)

LEMMA Effects ==
    ASSUME NEW s \in Statement, NEW db \in Database
    PROVE  /\ After(s, db) \in Database
           /\ After(s, db).generated = IF s.do = "alter" THEN s.arg ELSE db.generated
           /\ After(s, db).disabled =
                IF s.do = "disable" THEN db.disabled \cup s.arg
                ELSE IF s.do = "enable" THEN db.disabled \ s.arg ELSE db.disabled
           /\ After(s, db).restart = IF s.do = "restart" THEN "next" ELSE db.restart
           /\ \A k \in Keys : After(s, db).rows[k] =
                IF s.do \in {"insert", "override", "copy", "load"} /\ k \in s.arg
                THEN "inserted"
                ELSE IF s.do = "update" /\ k \in s.arg /\ db.rows[k] # "none"
                THEN "updated"
                ELSE IF s.do = "delete" /\ k \in s.arg THEN "none" ELSE db.rows[k]
<1>1. ASSUME NEW keys, NEW version \in Versions
      PROVE  /\ Set(db, keys, version) \in Database
             /\ Set(db, keys, version).generated = db.generated
             /\ Set(db, keys, version).disabled = db.disabled
             /\ Set(db, keys, version).restart = db.restart
             /\ \A k \in Keys : Set(db, keys, version).rows[k] =
                    IF k \in keys THEN version ELSE db.rows[k]
  BY DEF Set, Database
<1>2. CASE s.do \in {"insert", "override", "copy", "load"}
  <2>1. After(s, db) = Set(db, s.arg, "inserted")
    BY <1>2 DEF After
  <2> QED
    BY <1>1, <1>2, <2>1 DEF Versions
<1>3. CASE s.do = "update"
  <2>1. After(s, db) = Set(db, s.arg \cap Stored(db), "updated")
    BY <1>3 DEF After
  <2> QED
    BY <1>1, <1>3, <2>1 DEF Versions, Stored
<1>4. CASE s.do = "delete"
  <2>1. After(s, db) = Set(db, s.arg, "none")
    BY <1>4 DEF After
  <2> QED
    BY <1>1, <1>4, <2>1 DEF Versions
<1>5. CASE s.do = "alter"
  <2>1. s.arg \in Generated
    BY <1>5 DEF Statement
  <2>2. After(s, db) = [db EXCEPT !.generated = s.arg]
    BY <1>5 DEF After
  <2> QED
    BY <1>5, <2>1, <2>2 DEF Database
<1>6. CASE s.do = "disable"
  <2>1. s.arg \in SUBSET Triggers
    BY <1>6 DEF Statement
  <2>2. After(s, db) = [db EXCEPT !.disabled = @ \cup s.arg]
    BY <1>6 DEF After
  <2> QED
    BY <1>6, <2>1, <2>2 DEF Database
<1>7. CASE s.do = "enable"
  <2>1. After(s, db) = [db EXCEPT !.disabled = @ \ s.arg]
    BY <1>7 DEF After
  <2> QED
    BY <1>7, <2>1 DEF Database
<1>8. CASE s.do = "restart"
  <2>1. After(s, db) = [db EXCEPT !.restart = "next"]
    BY <1>8 DEF After
  <2> QED
    BY <1>8, <2>1 DEF Database
<1>9. CASE s.do = "commit"
  <2>1. After(s, db) = db
    BY <1>9 DEF After
  <2> QED
    BY <1>9, <2>1
<1> QED
  BY <1>2, <1>3, <1>4, <1>5, <1>6, <1>7, <1>8, <1>9 DEF Statement

LEMMA SameDatabase ==
    ASSUME NEW a \in Database, NEW b \in Database,
           a.generated = b.generated, a.disabled = b.disabled, a.restart = b.restart,
           \A k \in Keys : a.rows[k] = b.rows[k]
    PROVE  a = b
<1>1. a.rows = b.rows
  BY DEF Database
<1> QED
  BY <1>1 DEF Database

LEMMA StatementTypes ==
    /\ CommitSt \in Statement /\ CommitSt.do = "commit"
    /\ \A mode \in Generated : St("alter", mode) \in Statement
    /\ \A keys \in SUBSET Keys :
        \A do \in {"insert", "override", "copy", "load", "update", "delete"} :
            St(do, keys) \in Statement
    /\ \A some \in SUBSET Triggers : \A do \in {"disable", "enable"} :
            St(do, some) \in Statement
    /\ St("restart", "next") \in Statement
    /\ \A do, arg : St(do, arg).do = do /\ St(do, arg).arg = arg
  BY DEF Statement, St, CommitSt

-------------------------------------------------------------------------------
(* What a call sends.                                                       *)

LEMMA RequestTypes ==
    ASSUME NEW r \in Requests
    PROVE  /\ r.keys \in SUBSET Keys /\ r.override \in BOOLEAN
           /\ r.call \in RowCalls \cup SwitchCalls \cup {"reset_identity", "bulk_load_cli"}
           /\ r.call = "bulk_load_cli" => adapter = "db2"
           /\ r.override => r.call \in {"insert_batch", "bulk_load", "bulk_load_cli"}
           /\ r # Idle
<1>1. \/ r \in [call : {"insert_batch", "bulk_load"}, keys : SUBSET Keys \ {{}},
                override : BOOLEAN]
      \/ r \in [call : {"update_batch", "delete_batch"}, keys : SUBSET Keys \ {{}},
                override : {FALSE}]
      \/ r \in [call : {"disable_triggers", "enable_triggers", "reset_identity"},
                keys : {{}}, override : {FALSE}]
      \/ /\ adapter = "db2"
         /\ r \in [call : {"bulk_load_cli"}, keys : SUBSET Keys \ {{}}, override : BOOLEAN]
  BY DEF Requests
<1>2. r.keys \in SUBSET Keys /\ r.override \in BOOLEAN
  BY <1>1
<1>3. \/ r.call \in {"insert_batch", "bulk_load"}
      \/ r.call \in {"update_batch", "delete_batch"} /\ r.override = FALSE
      \/ /\ r.call \in {"disable_triggers", "enable_triggers", "reset_identity"}
         /\ r.override = FALSE
      \/ adapter = "db2" /\ r.call = "bulk_load_cli"
  BY <1>1
<1>4. r # Idle
  BY <1>3 DEF Idle
<1> QED
  BY <1>2, <1>3, <1>4 DEF RowCalls, SwitchCalls

\* The statements that write rows with some keys, page by page.
LEMMA RowSequence ==
    ASSUME NEW do \in {"insert", "override", "update", "delete"}, NEW keys \in SUBSET Keys
    PROVE  /\ RowStatements(do, keys) \in Seq(Statement)
           /\ \A i \in DOMAIN RowStatements(do, keys) :
                /\ RowStatements(do, keys)[i].do = do
                /\ RowStatements(do, keys)[i].arg \in SUBSET keys
           /\ \A k \in keys : \E i \in DOMAIN RowStatements(do, keys) :
                k \in RowStatements(do, keys)[i].arg
<1> DEFINE n == IF adapter = "db2" THEN 1 ELSE PageSize
           pieces == Pieces(keys, n)
<1>1. n \in Nat \ {0}
  BY SizesAssumption
<1>2. /\ pieces \in Seq(SUBSET keys)
      /\ \A k \in keys : \E i \in DOMAIN pieces : k \in pieces[i]
  BY <1>1, KeysAreFinite, PiecesCover
<1>3. RowStatements(do, keys) = [i \in DOMAIN pieces |-> St(do, pieces[i])]
  BY DEF RowStatements
<1> HIDE DEF pieces
<1>4. \A i \in DOMAIN pieces : St(do, pieces[i]) \in Statement
  BY <1>2, StatementTypes
<1>5. RowStatements(do, keys) \in Seq(Statement)
  BY <1>2, <1>3, <1>4
<1>6. \A i \in DOMAIN pieces : St(do, pieces[i]).do = do /\ St(do, pieces[i]).arg = pieces[i]
  BY StatementTypes
<1> QED
  BY <1>2, <1>3, <1>5, <1>6

\* The statements of a chunked load.
Chunked(keys) ==
    [j \in 1 .. Cardinality(keys) + (Cardinality(keys) + ChunkSize - 1) \div ChunkSize |->
        IF \/ j = Cardinality(keys) + (Cardinality(keys) + ChunkSize - 1) \div ChunkSize
           \/ j % (ChunkSize + 1) = 0
        THEN CommitSt
        ELSE St("insert", {k \in keys : Rank(k, keys) = j - j \div (ChunkSize + 1)})]

LEMMA ChunkSequence ==
    ASSUME NEW keys \in SUBSET Keys
    PROVE  /\ Chunked(keys) \in Seq(Statement)
           /\ \A j \in DOMAIN Chunked(keys) :
                \/ Chunked(keys)[j] = CommitSt
                \/ Chunked(keys)[j].do = "insert" /\ Chunked(keys)[j].arg \in SUBSET keys
           /\ \A k \in keys : \E j \in DOMAIN Chunked(keys) :
                Chunked(keys)[j].do = "insert" /\ k \in Chunked(keys)[j].arg
<1> DEFINE c == Cardinality(keys)
           all == c + (c + ChunkSize - 1) \div ChunkSize
           s == Chunked(keys)
<1>1. c \in Nat
  BY FS_Subset, FS_CardinalityType, SizesAssumption
<1>2. all \in Nat
  BY <1>1, SizesAssumption
<1>3. s = [j \in 1 .. all |->
            IF j = all \/ j % (ChunkSize + 1) = 0 THEN CommitSt
            ELSE St("insert", {k \in keys : Rank(k, keys) = j - j \div (ChunkSize + 1)})]
  BY DEF Chunked
<1> HIDE DEF s
<1>4. ASSUME NEW j \in 1 .. all
      PROVE  /\ s[j] \in Statement
             /\ \/ s[j] = CommitSt
                \/ s[j].do = "insert" /\ s[j].arg \in SUBSET keys
  <2>1. CASE j = all \/ j % (ChunkSize + 1) = 0
    BY <1>3, <2>1, StatementTypes
  <2>2. CASE ~(j = all \/ j % (ChunkSize + 1) = 0)
    <3> DEFINE some == {k \in keys : Rank(k, keys) = j - j \div (ChunkSize + 1)}
    <3>1. s[j] = St("insert", some) /\ some \in SUBSET keys
      BY <1>3, <2>2
    <3> HIDE DEF some
    <3> QED
      BY <3>1, StatementTypes
  <2> QED
    BY <2>1, <2>2
<1>5. ASSUME NEW k \in keys
      PROVE  \E j \in 1 .. all : s[j].do = "insert" /\ k \in s[j].arg
  <2>1. Rank(k, keys) \in 1 .. c
    BY KeysAreFinite, Ranks
  <2>2. PICK j \in 1 .. all :
            /\ j # all /\ j % (ChunkSize + 1) # 0
            /\ Rank(k, keys) = j - j \div (ChunkSize + 1)
    BY <1>1, <2>1, StatementOf, SizesAssumption, ZenonT(60)
  <2>3. s[j] = St("insert", {m \in keys : Rank(m, keys) = j - j \div (ChunkSize + 1)})
    BY <1>3, <2>2
  <2> QED
    BY <2>2, <2>3, StatementTypes
<1>6. s \in [1 .. all -> Statement]
  BY <1>3, <1>4
<1>7. s \in Seq(Statement) /\ DOMAIN s = 1 .. all
  <2> HIDE DEF all
  <2> QED
    BY <1>2, <1>6
<1> QED
  BY <1>4, <1>5, <1>7 DEF s

Todo == [prepare : Seq(Statement), body : Seq(Statement), cleanup : Seq(Statement)]

\* The call leaves the identity column GENERATED ALWAYS, whatever it was.
PutsBack(r) == r.override /\ r.call = (IF adapter = "db2" THEN "insert_batch" ELSE "bulk_load")

\* What Statements gives for a request.
Sent(r, t) ==
    /\ t \in Todo
    /\ adapter = "postgresql" =>
        \A part \in DOMAIN t : \A i \in DOMAIN t[part] : t[part][i].do \notin {"commit", "load"}
    /\ \/ t.prepare = <<>> /\ NoAlters(t.body) /\ t.cleanup = <<>> /\ ~PutsBack(r)
       \/ /\ adapter = "db2" /\ r.call \in {"insert_batch", "bulk_load"} /\ r.override
          /\ r.call = "insert_batch" \/ session.generated = "always"
          /\ t.prepare = SetIdentityGenerated("by_default")
          /\ NoAlters(t.body)
          /\ t.cleanup = SetIdentityGenerated("always")
       \/ /\ adapter = "postgresql" /\ r.call = "bulk_load" /\ r.override
          /\ t.prepare = <<>>
          /\ t.body = <<St("alter", "by_default"), St("copy", r.keys)>>
          /\ t.cleanup = <<St("alter", "always")>>
    /\ r.call \in RowCalls =>
        /\ \A i \in DOMAIN t.body :
            \/ t.body[i].do \in {"commit", "alter"}
            \/ t.body[i].do \in Writers(r.call) /\ t.body[i].arg \in SUBSET r.keys
        /\ \A k \in r.keys : \E i \in DOMAIN t.body :
            t.body[i].do \in Writers(r.call) /\ k \in t.body[i].arg
    /\ r.call \in SwitchCalls =>
        /\ t.prepare = <<>> /\ t.cleanup = <<>>
        /\ adapter = "postgresql" => Len(t.body) = 1
        /\ \A i \in DOMAIN t.body :
            \/ t.body[i] = CommitSt /\ i = Len(t.body)
            \/ /\ t.body[i].do = IF r.call = "disable_triggers" THEN "disable" ELSE "enable"
               /\ t.body[i].arg \in SUBSET Triggers
        /\ \A x \in Triggers : \E i \in DOMAIN t.body :
            t.body[i].do \in {"disable", "enable"} /\ x \in t.body[i].arg
    /\ r.call = "reset_identity" =>
        /\ t.prepare = <<>> /\ t.cleanup = <<>>
        /\ t.body \in {<<St("restart", "next"), CommitSt>>, <<St("restart", "next")>>}
    /\ r.call = "bulk_load_cli" =>
        /\ t.prepare = <<>> /\ t.cleanup = <<>>
        /\ t.body = <<St("load", Loadable(committed, r.keys, r.override))>>

LEMMA PartsOfCalls ==
    /\ DOMAIN NoStatements = {"prepare", "body", "cleanup"}
    /\ NoStatements.prepare = <<>> /\ NoStatements.body = <<>> /\ NoStatements.cleanup = <<>>
    /\ \A s : /\ Body(s).prepare = <<>> /\ Body(s).body = s /\ Body(s).cleanup = <<>>
              /\ DOMAIN Body(s) = {"prepare", "body", "cleanup"}
    /\ \A s \in Seq(Statement) : Body(s) \in Todo
    /\ \A s : /\ Overridden(s).prepare = SetIdentityGenerated("by_default")
              /\ Overridden(s).body = s
              /\ Overridden(s).cleanup = SetIdentityGenerated("always")
    /\ \A s \in Seq(Statement) : Overridden(s) \in Todo
    /\ \A mode \in Generated :
        /\ SetIdentityGenerated(mode) = <<St("alter", mode), CommitSt>>
        /\ SetIdentityGenerated(mode) \in Seq(Statement)
<1>1. \A mode \in Generated : SetIdentityGenerated(mode) \in Seq(Statement)
  BY StatementTypes DEF SetIdentityGenerated
<1>2. \A s \in Seq(Statement) : Overridden(s) \in Todo
  BY <1>1 DEF Overridden, Todo, Generated
<1>3. \A s : Body(s) = [prepare |-> <<>>, body |-> s, cleanup |-> <<>>]
  BY DEF Body, NoStatements
<1>4. <<>> \in Seq(Statement)
  OBVIOUS
<1>5. \A s \in Seq(Statement) : Body(s) \in Todo
  BY <1>3, <1>4 DEF Todo
<1> QED
  BY <1>1, <1>2, <1>3, <1>5 DEF NoStatements, Overridden, SetIdentityGenerated

LEMMA RowsAreSent ==
    ASSUME SessionTypes, NEW r \in Requests, r.call \in {"insert_batch", "update_batch", "delete_batch"}
    PROVE  Sent(r, Statements(r))
<1> DEFINE do == CASE r.call = "insert_batch" ->
                            IF adapter = "postgresql" /\ r.override THEN "override" ELSE "insert"
                   [] r.call = "update_batch" -> "update"
                   [] r.call = "delete_batch" -> "delete"
           s == RowStatements(do, r.keys)
<1>1. do \in {"insert", "override", "update", "delete"} /\ do \in Writers(r.call)
  BY DEF Writers
<1>2. r.keys \in SUBSET Keys /\ r.override \in BOOLEAN
  BY RequestTypes
<1>3. \/ Statements(r) = Body(s) /\ ~PutsBack(r)
      \/ /\ adapter = "db2" /\ r.call = "insert_batch" /\ r.override
         /\ Statements(r) = Overridden(s)
  BY <1>2, RequestTypes DEF Statements, InsertBatch, SessionTypes, PutsBack
<1> HIDE DEF do
<1>4. /\ s \in Seq(Statement)
      /\ \A i \in DOMAIN s : s[i].do = do /\ s[i].arg \in SUBSET r.keys
      /\ \A k \in r.keys : \E i \in DOMAIN s : k \in s[i].arg
  BY <1>1, <1>2, RowSequence
<1>5. r.call \in RowCalls /\ r.call \notin SwitchCalls
      /\ r.call # "reset_identity" /\ r.call # "bulk_load_cli"
  BY DEF RowCalls, SwitchCalls
<1> HIDE DEF s
<1>6. NoAlters(s) /\ \A i \in DOMAIN s : s[i].do \notin {"commit", "load"}
  BY <1>1, <1>4 DEF NoAlters
<1>7. CASE Statements(r) = Body(s) /\ ~PutsBack(r)
  BY <1>1, <1>4, <1>5, <1>6, <1>7, PartsOfCalls DEF Sent
<1>8. CASE adapter = "db2" /\ r.call = "insert_batch" /\ r.override
           /\ Statements(r) = Overridden(s)
  BY <1>1, <1>4, <1>5, <1>6, <1>8, PartsOfCalls DEF Sent
<1> QED
  BY <1>3, <1>7, <1>8

LEMMA LoadsAreSent ==
    ASSUME SessionTypes, NEW r \in Requests, r.call = "bulk_load"
    PROVE  Sent(r, Statements(r))
<1>1. r.keys \in SUBSET Keys /\ r.override \in BOOLEAN
  BY RequestTypes
<1>2. /\ r.call \in RowCalls /\ r.call \notin SwitchCalls
      /\ r.call # "reset_identity" /\ r.call # "bulk_load_cli"
      /\ Writers(r.call) = {"insert", "copy"}
  BY DEF RowCalls, SwitchCalls, Writers
<1>3. CASE adapter = "postgresql"
  <2>1. Statements(r) = CopyFrom(r.keys, r.override)
    BY <1>3 DEF Statements
  <2>2. CASE ~r.override
    <3> DEFINE s == <<St("copy", r.keys)>>
    <3>1. Statements(r) = Body(s)
      BY <2>1, <2>2 DEF CopyFrom
    <3>2. /\ s \in Seq(Statement) /\ DOMAIN s = {1}
          /\ s[1].do = "copy" /\ s[1].arg = r.keys
      BY <1>1, StatementTypes
    <3> HIDE DEF s
    <3> QED
      BY <1>2, <1>3, <2>2, <3>1, <3>2, PartsOfCalls DEF Sent, NoAlters, PutsBack
  <2>3. CASE r.override
    <3> DEFINE s == <<St("alter", "by_default"), St("copy", r.keys)>>
               back == <<St("alter", "always")>>
    <3>1. Statements(r) = [prepare |-> <<>>, body |-> s, cleanup |-> back]
      BY <2>1, <2>3 DEF CopyFrom
    <3>2. /\ s \in Seq(Statement) /\ DOMAIN s = {1, 2}
          /\ s[1].do = "alter" /\ s[2].do = "copy" /\ s[2].arg = r.keys
          /\ back \in Seq(Statement) /\ DOMAIN back = {1} /\ back[1].do = "alter"
      BY <1>1, StatementTypes DEF Generated
    <3>3. Statements(r).prepare = <<>> /\ Statements(r).body = s /\ Statements(r).cleanup = back
          /\ DOMAIN Statements(r) = {"prepare", "body", "cleanup"}
      BY <3>1
    <3>4. Statements(r) \in Todo
      BY <3>1, <3>2 DEF Todo
    <3>5. \A part \in DOMAIN Statements(r) : \A i \in DOMAIN Statements(r)[part] :
            Statements(r)[part][i].do \notin {"commit", "load"}
      BY <3>2, <3>3
    <3>6. /\ \A i \in DOMAIN Statements(r).body :
            \/ Statements(r).body[i].do \in {"commit", "alter"}
            \/ /\ Statements(r).body[i].do \in Writers(r.call)
               /\ Statements(r).body[i].arg \in SUBSET r.keys
          /\ \A k \in r.keys : \E i \in DOMAIN Statements(r).body :
            Statements(r).body[i].do \in Writers(r.call) /\ k \in Statements(r).body[i].arg
      BY <1>2, <3>2, <3>3
    <3> QED
      BY <1>2, <1>3, <2>3, <3>3, <3>4, <3>5, <3>6 DEF Sent
  <2> QED
    BY <2>2, <2>3
<1>4. CASE adapter = "db2"
  <2> DEFINE s == Chunked(r.keys)
  <2>1. \/ Statements(r) = Body(s)
        \/ r.override /\ session.generated = "always" /\ Statements(r) = Overridden(s)
    BY <1>4 DEF Statements, BulkLoadViaInsert, Chunked
  <2>2. /\ s \in Seq(Statement)
        /\ \A j \in DOMAIN s :
            s[j] = CommitSt \/ (s[j].do = "insert" /\ s[j].arg \in SUBSET r.keys)
        /\ \A k \in r.keys : \E j \in DOMAIN s : s[j].do = "insert" /\ k \in s[j].arg
    BY <1>1, ChunkSequence
  <2> HIDE DEF s
  <2>3. NoAlters(s) /\ \A j \in DOMAIN s :
            \/ s[j].do \in {"commit", "alter"}
            \/ s[j].do \in Writers(r.call) /\ s[j].arg \in SUBSET r.keys
    BY <1>2, <2>2, StatementTypes DEF NoAlters
  <2>4. \A k \in r.keys : \E j \in DOMAIN s : s[j].do \in Writers(r.call) /\ k \in s[j].arg
    BY <1>2, <2>2
  <2>5. CASE Statements(r) = Body(s)
    <3>1. ~PutsBack(r)
      BY <1>4 DEF PutsBack
    <3> QED
      BY <1>2, <1>4, <2>2, <2>3, <2>4, <2>5, <3>1, PartsOfCalls DEF Sent
  <2>6. CASE r.override /\ session.generated = "always" /\ Statements(r) = Overridden(s)
    BY <1>2, <1>4, <2>2, <2>3, <2>4, <2>6, PartsOfCalls DEF Sent
  <2> QED
    BY <2>1, <2>5, <2>6
<1> QED
  BY <1>3, <1>4 DEF SessionTypes

LEMMA SwitchesAreSent ==
    ASSUME SessionTypes, NEW r \in Requests, r.call \in SwitchCalls
    PROVE  Sent(r, Statements(r))
<1> DEFINE do == IF r.call = "disable_triggers" THEN "disable" ELSE "enable"
<1>1. do \in {"disable", "enable"}
  OBVIOUS
<1>2. Statements(r) = SwitchTriggers(do)
  BY DEF Statements, SwitchCalls
<1> HIDE DEF do
<1>3. r.call \notin RowCalls /\ r.call # "reset_identity" /\ r.call # "bulk_load_cli"
  BY DEF RowCalls, SwitchCalls
<1>4. CASE adapter = "postgresql"
  <2> DEFINE s == <<St(do, Triggers)>>
  <2>1. Statements(r) = Body(s)
    BY <1>2, <1>4 DEF SwitchTriggers
  <2>2. /\ s \in Seq(Statement) /\ DOMAIN s = {1} /\ Len(s) = 1
        /\ s[1].do = do /\ s[1].arg = Triggers
    BY <1>1, StatementTypes
  <2> HIDE DEF s
  <2>3. NoAlters(s) /\ \A i \in DOMAIN s : s[i].do \notin {"commit", "load"}
    BY <1>1, <2>2 DEF NoAlters
  <2> QED
    BY <1>1, <1>3, <1>4, <2>1, <2>2, <2>3, PartsOfCalls DEF Sent, do, PutsBack, SwitchCalls
<1>5. CASE adapter = "db2"
  <2> DEFINE order == SetToSeq(Triggers)
             switches == [i \in DOMAIN order |-> St(do, {order[i]})]
             end == IF Triggers = {} THEN <<>> ELSE <<CommitSt>>
             s == switches \o end
  <2>1. Statements(r) = Body(s)
    BY <1>2, <1>5 DEF SwitchTriggers
  <2>2. /\ order \in Seq(Triggers) /\ Len(order) \in Nat /\ DOMAIN order = 1 .. Len(order)
        /\ \A t \in Triggers : \E i \in DOMAIN order : order[i] = t
    BY TriggersInOrder
  <2> HIDE DEF order
  <2>3. \A i \in DOMAIN order : {order[i]} \in SUBSET Triggers
    BY <2>2
  <2>4. \A i \in DOMAIN order : St(do, {order[i]}) \in Statement
    BY <1>1, <2>3, StatementTypes
  <2>5. /\ switches \in Seq(Statement) /\ Len(switches) = Len(order)
        /\ \A i \in 1 .. Len(order) : switches[i] = St(do, {order[i]})
    BY <2>2, <2>4
  <2>6. end \in Seq(Statement) /\ Len(end) \in {0, 1} /\ (Len(end) = 1 => end[1] = CommitSt)
    BY StatementTypes
  <2> HIDE DEF switches, end
  <2>7. /\ s \in Seq(Statement) /\ Len(s) = Len(order) + Len(end) /\ DOMAIN s = 1 .. Len(s)
        /\ \A i \in 1 .. Len(order) : s[i] = St(do, {order[i]})
        /\ \A i \in DOMAIN s : i \in 1 .. Len(order) \/ (s[i] = CommitSt /\ i = Len(s))
    <3>1. /\ s \in Seq(Statement) /\ Len(s) = Len(order) + Len(end)
          /\ DOMAIN s = 1 .. Len(order) + Len(end)
          /\ \A i \in 1 .. Len(order) : s[i] = switches[i]
          /\ \A i \in 1 .. Len(end) : s[Len(order) + i] = end[i]
      BY <2>5, <2>6, Appended
    <3> HIDE DEF s
    <3>2. ASSUME NEW i \in DOMAIN s, i \notin 1 .. Len(order)
          PROVE  s[i] = CommitSt /\ i = Len(s)
      <4>1. i \in 1 .. Len(order) + Len(end) /\ Len(order) \in Nat /\ Len(end) \in {0, 1}
        BY <2>2, <2>6, <3>1
      <4>2. Len(end) = 1 /\ i = Len(order) + 1
        <5>1. \A m \in Nat, n \in {0, 1} : \A j \in 1 .. m + n :
                j \notin 1 .. m => n = 1 /\ j = m + 1
          OBVIOUS
        <5> QED
          BY <3>2, <4>1, <5>1
      <4>3. 1 \in 1 .. Len(end)
        BY <4>2
      <4>4. s[Len(order) + 1] = end[1] /\ Len(s) = Len(order) + 1
        BY <3>1, <4>2, <4>3
      <4> QED
        BY <2>6, <4>2, <4>4
    <3> QED
      BY <2>5, <3>1, <3>2
  <2> HIDE DEF s
  <2>8. \A i \in DOMAIN s :
            \/ s[i] = CommitSt /\ i = Len(s)
            \/ s[i].do = do /\ s[i].arg \in SUBSET Triggers
    <3> TAKE i \in DOMAIN s
    <3>1. CASE i \in 1 .. Len(order)
      <4>1. s[i] = St(do, {order[i]}) /\ {order[i]} \in SUBSET Triggers
        BY <2>2, <2>3, <2>7, <3>1
      <4> QED
        BY <4>1, StatementTypes, ZenonT(60)
    <3> QED
      BY <2>7, <3>1
  <2>9. ASSUME NEW t \in Triggers
        PROVE  \E i \in DOMAIN s : s[i].do \in {"disable", "enable"} /\ t \in s[i].arg
    <3>1. PICK i \in 1 .. Len(order) : order[i] = t
      BY <2>2
    <3>2. i \in DOMAIN s
      BY <2>2, <2>6, <2>7
    <3>3. s[i] = St(do, {t})
      BY <2>7, <3>1
    <3>4. s[i].do = do /\ s[i].arg = {t}
      BY <3>3, StatementTypes
    <3> QED
      BY <1>1, <3>2, <3>4
  <2>10. NoAlters(s)
    BY <1>1, <2>8, StatementTypes DEF NoAlters
  <2> QED
    BY <1>3, <1>5, <2>1, <2>7, <2>8, <2>9, <2>10, PartsOfCalls DEF Sent, do, PutsBack, SwitchCalls
<1> QED
  BY <1>4, <1>5 DEF SessionTypes

LEMMA OthersAreSent ==
    ASSUME SessionTypes, NEW r \in Requests, r.call \in {"reset_identity", "bulk_load_cli"}
    PROVE  Sent(r, Statements(r))
<1>1. r.keys \in SUBSET Keys /\ r.call \notin RowCalls /\ r.call \notin SwitchCalls
  BY RequestTypes DEF RowCalls, SwitchCalls
<1>2. CASE r.call = "reset_identity"
  <2> DEFINE s == IF adapter = "db2" THEN <<St("restart", "next"), CommitSt>>
                                     ELSE <<St("restart", "next")>>
  <2>1. Statements(r) = Body(s)
    BY <1>2 DEF Statements, ResetIdentity
  <2>2. /\ s \in Seq(Statement) /\ s \in {<<St("restart", "next"), CommitSt>>, <<St("restart", "next")>>}
        /\ NoAlters(s)
        /\ adapter = "postgresql" => \A i \in DOMAIN s : s[i].do = "restart"
    BY StatementTypes DEF NoAlters
  <2> HIDE DEF s
  <2> QED
    BY <1>1, <1>2, <2>1, <2>2, PartsOfCalls DEF Sent, PutsBack
<1>3. CASE r.call = "bulk_load_cli"
  <2> DEFINE s == <<St("load", Loadable(committed, r.keys, r.override))>>
  <2>1. Statements(r) = Body(s)
    BY <1>3 DEF Statements, BulkLoadViaCli
  <2>2. Loadable(committed, r.keys, r.override) \in SUBSET Keys
    BY <1>1 DEF Loadable
  <2>3. s \in Seq(Statement) /\ NoAlters(s)
    BY <2>2, StatementTypes DEF NoAlters
  <2>4. adapter # "postgresql"
    BY <1>3, RequestTypes
  <2>5. s = <<St("load", Loadable(committed, r.keys, r.override))>>
    OBVIOUS
  <2>6. Statements(r).body = <<St("load", Loadable(committed, r.keys, r.override))>>
    BY <2>1, <2>5, PartsOfCalls
  <2> HIDE DEF s
  <2>7. /\ Statements(r) \in Todo /\ NoAlters(Statements(r).body)
        /\ Statements(r).prepare = <<>> /\ Statements(r).cleanup = <<>>
    BY <2>1, <2>3, PartsOfCalls
  <2> QED
    BY <1>1, <1>3, <2>4, <2>6, <2>7 DEF Sent, PutsBack
<1> QED
  BY <1>2, <1>3

LEMMA AllIsSent ==
    ASSUME SessionTypes, NEW r \in Requests
    PROVE  Sent(r, Statements(r))
<1>1. r.call \in RowCalls \cup SwitchCalls \cup {"reset_identity", "bulk_load_cli"}
  BY RequestTypes
<1> QED
  BY <1>1, RowsAreSent, LoadsAreSent, SwitchesAreSent, OthersAreSent DEF RowCalls

-------------------------------------------------------------------------------
(* Which statement comes next.                                              *)

LEMMA PromisedRows ==
    ASSUME NEW r \in Requests, NEW db \in Database
    PROVE  /\ Promised(r, db) \in Database
           /\ Promised(r, db).generated = db.generated
           /\ Promised(r, db).disabled =
                IF r.call = "disable_triggers" THEN db.disabled \cup Triggers
                ELSE IF r.call = "enable_triggers" THEN db.disabled \ Triggers ELSE db.disabled
           /\ Promised(r, db).restart =
                IF r.call = "reset_identity" THEN "next" ELSE db.restart
           /\ r.call \in RowCalls => \A k \in Keys : Promised(r, db).rows[k] =
                IF k \notin r.keys THEN db.rows[k]
                ELSE IF r.call \in {"insert_batch", "bulk_load"} THEN "inserted"
                ELSE IF r.call = "update_batch" /\ db.rows[k] # "none" THEN "updated"
                ELSE IF r.call = "delete_batch" THEN "none" ELSE db.rows[k]
           /\ r.call \in SwitchCalls \cup {"reset_identity"} =>
                \A k \in Keys : Promised(r, db).rows[k] = db.rows[k]
           /\ r.call = "bulk_load_cli" =>
                Promised(r, db) =
                    After(St("load", Loadable([db EXCEPT !.generated = session.generated],
                                              r.keys, r.override)), db)
<1> DEFINE loadable == Loadable([db EXCEPT !.generated = session.generated],
                                r.keys, r.override)
<1>1. r.keys \in SUBSET Keys /\ loadable \in SUBSET Keys
      /\ r.call \in RowCalls \cup SwitchCalls \cup {"reset_identity", "bulk_load_cli"}
  BY RequestTypes DEF Loadable
<1> DEFINE p == Promised(r, db)
           Does(do, arg) ==
            /\ p \in Database
            /\ p.generated = db.generated
            /\ p.disabled = IF do = "disable" THEN db.disabled \cup arg
                            ELSE IF do = "enable" THEN db.disabled \ arg ELSE db.disabled
            /\ p.restart = IF do = "restart" THEN "next" ELSE db.restart
            /\ \A k \in Keys : p.rows[k] =
                IF do \in {"insert", "load"} /\ k \in arg THEN "inserted"
                ELSE IF do = "update" /\ k \in arg /\ db.rows[k] # "none" THEN "updated"
                ELSE IF do = "delete" /\ k \in arg THEN "none" ELSE db.rows[k]
<1>2. ASSUME NEW do \in {"insert", "load", "update", "delete", "disable", "enable", "restart"},
             NEW arg, St(do, arg) \in Statement, p = After(St(do, arg), db)
      PROVE  Does(do, arg)
  <2> DEFINE s == St(do, arg)
  <2>1. s.do = do /\ s.arg = arg /\ s \in Statement /\ p = After(s, db)
    BY <1>2, StatementTypes
  <2> HIDE DEF s, p
  <2>2. /\ p \in Database /\ p.generated = db.generated
        /\ p.disabled = IF do = "disable" THEN db.disabled \cup arg
                            ELSE IF do = "enable" THEN db.disabled \ arg ELSE db.disabled
        /\ p.restart = IF do = "restart" THEN "next" ELSE db.restart
    BY <2>1, Effects
  <2>3. ASSUME NEW k \in Keys
        PROVE  p.rows[k] =
                IF do \in {"insert", "load"} /\ k \in arg THEN "inserted"
                ELSE IF do = "update" /\ k \in arg /\ db.rows[k] # "none" THEN "updated"
                ELSE IF do = "delete" /\ k \in arg THEN "none" ELSE db.rows[k]
    <3>1. After(s, db).rows[k] =
                IF s.do \in {"insert", "override", "copy", "load"} /\ k \in s.arg
                THEN "inserted"
                ELSE IF s.do = "update" /\ k \in s.arg /\ db.rows[k] # "none"
                THEN "updated"
                ELSE IF s.do = "delete" /\ k \in s.arg THEN "none" ELSE db.rows[k]
      BY <2>1, Effects
    <3> QED
      BY <2>1, <3>1
  <2> QED
    BY <2>2, <2>3
<1>3. /\ r.call \in {"insert_batch", "bulk_load"} => Does("insert", r.keys)
      /\ r.call = "update_batch" => Does("update", r.keys)
      /\ r.call = "delete_batch" => Does("delete", r.keys)
  <2> HIDE DEF Does
  <2> QED
    BY <1>1, <1>2, StatementTypes DEF Promised
<1>4. /\ r.call = "disable_triggers" => Does("disable", Triggers)
      /\ r.call = "enable_triggers" => Does("enable", Triggers)
      /\ r.call = "reset_identity" => Does("restart", "next")
  <2> HIDE DEF Does
  <2> QED
    BY <1>2, StatementTypes DEF Promised
<1>5. r.call = "bulk_load_cli" =>
        /\ Does("load", loadable)
        /\ p = After(St("load", loadable), db)
  <2> HIDE DEF Does
  <2> QED
    BY <1>1, <1>2, StatementTypes DEF Promised
<1> HIDE DEF p
<1>6. CASE r.call \in {"insert_batch", "bulk_load"}
  BY <1>3, <1>6 DEF RowCalls, SwitchCalls, p
<1>7. CASE r.call = "update_batch"
  BY <1>3, <1>7 DEF RowCalls, SwitchCalls, p
<1>8. CASE r.call = "delete_batch"
  BY <1>3, <1>8 DEF RowCalls, SwitchCalls, p
<1>9. CASE r.call \in {"disable_triggers", "enable_triggers", "reset_identity"}
  BY <1>4, <1>9 DEF RowCalls, SwitchCalls, p
<1>10. CASE r.call = "bulk_load_cli"
  BY <1>5, <1>10 DEF RowCalls, SwitchCalls, p
<1> QED
  BY <1>1, <1>6, <1>7, <1>8, <1>9, <1>10 DEF RowCalls, SwitchCalls

LEMMA PutBackChanges ==
    ASSUME NEW r, NEW db \in Database
    PROVE  /\ PutBack(r, db) \in Database
           /\ PutBack(r, db).rows = db.rows
           /\ PutBack(r, db).disabled = db.disabled
           /\ PutBack(r, db).restart = db.restart
           /\ PutBack(r, db).generated = db.generated \/ PutBack(r, db).generated = "always"
           /\ PutsBack(r) => PutBack(r, db).generated = "always"
           /\ ~PutsBack(r) => PutBack(r, db) = db
  BY DEF PutBack, PutsBack, Database, Generated

\* The mode a call puts back depends on that alone.
LEMMA PutsBackAlike ==
    ASSUME NEW r, NEW db \in Database, NEW other \in Database, db.generated = other.generated
    PROVE  PutBack(r, db).generated = PutBack(r, other).generated
  BY DEF PutBack, Database

\* A call that runs has a next statement, and the others remain.
Rest == [todo EXCEPT ![Part] = Tail(@)]

LEMMA FirstStatement ==
    ASSUME SessionTypes, Running
    PROVE  /\ Part \in {"prepare", "body", "cleanup"}
           /\ todo[Part] \in Seq(Statement) /\ todo[Part] # <<>>
           /\ NextStatement \in Statement /\ NextStatement = todo[Part][1]
           /\ Part = "prepare" <=> todo.prepare # <<>>
           /\ Part = "body" => todo.prepare = <<>> /\ todo.body # <<>>
           /\ Part = "cleanup" => todo.prepare = <<>> /\ todo.body = <<>>
           /\ Rest \in Todo
           /\ Rest.prepare = IF Part = "prepare" THEN Tail(todo.prepare) ELSE todo.prepare
           /\ Rest.body = IF Part = "body" THEN Tail(todo.body) ELSE todo.body
           /\ Rest.cleanup = IF Part = "cleanup" THEN Tail(todo.cleanup) ELSE todo.cleanup
<1>1. todo \in Todo /\ todo # NoStatements
  BY DEF SessionTypes, Running, Todo
<1>2. ~(todo.prepare = <<>> /\ todo.body = <<>> /\ todo.cleanup = <<>>)
  BY <1>1 DEF Todo, NoStatements
<1>3. /\ Part \in {"prepare", "body", "cleanup"}
      /\ Part = "prepare" <=> todo.prepare # <<>>
      /\ Part = "body" => todo.prepare = <<>> /\ todo.body # <<>>
      /\ Part = "cleanup" => todo.prepare = <<>> /\ todo.body = <<>>
  BY DEF Part
<1> HIDE DEF Part
<1>4. todo[Part] \in Seq(Statement) /\ todo[Part] # <<>>
  BY <1>1, <1>2, <1>3 DEF Todo
<1>5. /\ Head(todo[Part]) \in Statement /\ Head(todo[Part]) = todo[Part][1]
      /\ Tail(todo[Part]) \in Seq(Statement)
  BY <1>4, FirstAndOthers
<1>6. /\ Rest \in Todo
      /\ Rest.prepare = IF Part = "prepare" THEN Tail(todo.prepare) ELSE todo.prepare
      /\ Rest.body = IF Part = "body" THEN Tail(todo.body) ELSE todo.body
      /\ Rest.cleanup = IF Part = "cleanup" THEN Tail(todo.cleanup) ELSE todo.cleanup
  BY <1>1, <1>3, <1>5 DEF Rest, Todo
<1> QED
  BY <1>3, <1>4, <1>5, <1>6 DEF NextStatement

LEMMA RemainingTypes ==
    ASSUME SessionTypes
    PROVE  /\ Remaining \in Todo
           /\ Remaining.prepare = <<>> /\ Remaining.body = <<>>
           /\ Remaining.cleanup = IF Part = "body" THEN todo.cleanup ELSE <<>>
           /\ Part # "body" => Remaining = NoStatements
<1>1. todo.cleanup \in Seq(Statement) /\ <<>> \in Seq(Statement)
  BY DEF SessionTypes
<1>2. Remaining = [prepare |-> <<>>, body |-> <<>>,
                   cleanup |-> IF Part = "body" THEN todo.cleanup ELSE <<>>]
  BY DEF Remaining, NoStatements
<1> QED
  BY <1>1, <1>2 DEF Todo, NoStatements

\* Nothing is left exactly when each part is empty.
LEMMA NothingLeft ==
    ASSUME NEW t \in Todo
    PROVE  t = NoStatements <=> t.prepare = <<>> /\ t.body = <<>> /\ t.cleanup = <<>>
  BY DEF Todo, NoStatements

-------------------------------------------------------------------------------
(* Every variable keeps its type.                                           *)

\* The contents a statement leaves behind.
LEMMA ContentTypes ==
    ASSUME SessionTypes, Running
    PROVE  /\ After(NextStatement, session) \in Database
           /\ DurableAfter(NextStatement) \in Database
<1>1. NextStatement \in Statement
  BY FirstStatement
<1>2. session \in Database /\ committed \in Database
  BY DEF SessionTypes
<1>3. After(NextStatement, session) \in Database
  BY <1>1, <1>2, Effects
<1> QED
  BY <1>2, <1>3 DEF DurableAfter

LEMMA TypesGoOn ==
    ASSUME SessionTypes, Running, NEW rest \in Todo, NEW raised \in BOOLEAN,
           session' \in Database, UNCHANGED adapter, GoOn(rest, raised)
    PROVE  /\ request' = Idle \/ request' \in Requests'
           /\ todo' \in Todo
           /\ request' = Idle <=> todo' = NoStatements
           /\ raising' \in BOOLEAN
           /\ owed' \in Database
<1>1. request \in Requests /\ request # Idle /\ owed \in Database /\ autocommit \in BOOLEAN
  BY DEF SessionTypes, Running
<1>2. /\ Promised(request, owed) \in Database
      /\ PutBack(request, IF raised THEN owed ELSE Promised(request, owed)) \in Database
  BY <1>1, PromisedRows, PutBackChanges
<1>3. Requests' = Requests
  BY DEF Requests
<1>4. CASE rest # NoStatements
  BY <1>1, <1>3, <1>4 DEF GoOn
<1>5. CASE rest = NoStatements
  <2>1. raising' \in BOOLEAN
    BY <1>1, <1>5 DEF GoOn
  <2>2. owed' \in Database
    BY <1>1, <1>2, <1>5 DEF GoOn
  <2> QED
    BY <1>5, <2>1, <2>2 DEF GoOn
<1> QED
  BY <1>4, <1>5

LEMMA SureTypes ==
    Sure.rows = {} /\ Sure.parts = {}
  BY DEF Sure

\* The histories of what was left undone have parts of the table in them.
LEMMA HistoriesGrow ==
    ASSUME SessionTypes
    PROVE  /\ Running => Unsettled.rows \in SUBSET Keys /\ Unsettled.parts \in SUBSET Parts
           /\ LeftAltered \in SUBSET Parts
           /\ \A s : LeftBy(s) \in SUBSET Parts
<1>1. Running => request.keys \in SUBSET Keys
  BY RequestTypes DEF SessionTypes, Running
<1> QED
  BY <1>1 DEF SessionTypes, Unsettled, LeftAltered, LeftBy, Parts

LEMMA TypesAreKept ==
    ASSUME SessionTypes, [Next]_vars
    PROVE  SessionTypes'
<1> USE DEF SessionTypes
<1>0. /\ NoStatements \in Todo
      /\ UNCHANGED adapter => Requests' = Requests
  <2>1. <<>> \in Seq(Statement)
    OBVIOUS
  <2> QED
    BY <2>1 DEF NoStatements, Todo, Requests
<1>1. CASE Connect
  BY <1>0, <1>1, SureTypes DEF Connect, StartAfresh, callVars
<1>2. CASE Close
  BY <1>0, <1>2, SureTypes DEF Close, Disconnect, StartAfresh, Todo
<1>3. CASE BeginTransaction
  BY <1>0, <1>3 DEF BeginTransaction, callVars
<1>4. CASE Commit
  BY <1>0, <1>4, SureTypes DEF Commit, StartAfresh, callVars
<1>5. CASE RollbackTransaction
  BY <1>0, <1>5, SureTypes DEF RollbackTransaction, StartAfresh, callVars
<1>6. CASE OpenStream
  BY <1>0, <1>6 DEF OpenStream, callVars
<1>7. CASE EndStream
  BY <1>0, <1>7, ZenonT(60) DEF EndStream, callVars
<1>8. ASSUME NEW r \in Requests, Call(r)
      PROVE  SessionTypes'
  <2>2. todo' \in Todo /\ todo' # NoStatements /\ request' = r /\ r # Idle
    BY <1>8, AllIsSent, RequestTypes DEF Call, Sent
  <2>3. Requests' = Requests
    BY <1>8 DEF Call, Requests
  <2>4. calls' \in 0 .. MaxCalls
    BY <1>8, SessionBoundsAssumption DEF Call
  <2> QED
    BY <1>8, <2>2, <2>3, <2>4 DEF Call, connectionVars, Todo
<1>9. CASE Execute
  <2>1. Running /\ Rest \in Todo /\ session' \in Database /\ committed' \in Database
    BY <1>9, FirstStatement, ContentTypes DEF Execute
  <2>2. UNCHANGED adapter /\ GoOn(Rest, raising)
    BY <1>9 DEF Execute, Rest
  <2>3. /\ request' = Idle \/ request' \in Requests'
        /\ todo' \in Todo
        /\ request' = Idle <=> todo' = NoStatements
        /\ raising' \in BOOLEAN
        /\ owed' \in Database
    BY <2>1, <2>2, TypesGoOn
  <2>4. left' \in SUBSET Parts
    BY <1>9, HistoriesGrow DEF Execute
  <2> QED
    BY <1>9, <2>1, <2>3, <2>4 DEF Execute, connectionVars, Todo
<1>10. CASE Raise
  <2>1. Running /\ Remaining \in Todo /\ session' \in Database
    BY <1>10, RemainingTypes DEF Raise, SessionAfterError
  <2>2. UNCHANGED adapter /\ GoOn(Remaining, TRUE)
    BY <1>10 DEF Raise
  <2>3. /\ request' = Idle \/ request' \in Requests'
        /\ todo' \in Todo
        /\ request' = Idle <=> todo' = NoStatements
        /\ raising' \in BOOLEAN
        /\ owed' \in Database
    BY <2>1, <2>2, TypesGoOn
  <2>4. faults' \in 0 .. MaxFaults
    BY <1>10, SessionBoundsAssumption DEF Raise
  <2>5. unsure'.rows \in SUBSET Keys /\ unsure'.parts \in SUBSET Parts /\ left' \in SUBSET Parts
    BY <1>10, <2>1, HistoriesGrow, SureTypes DEF Raise
  <2>6. aborted' \in BOOLEAN
    BY <1>10 DEF Raise
  <2> QED
    BY <1>10, <2>1, <2>3, <2>4, <2>5, <2>6 DEF Raise, Todo
<1>11. CASE LoseConnection
  <2>1. committed' \in Database
    BY <1>11, ContentTypes DEF LoseConnection
  <2>2. faults' \in 0 .. MaxFaults /\ left' \in SUBSET Parts
    BY <1>11, HistoriesGrow, SessionBoundsAssumption DEF LoseConnection
  <2>3. Disconnect
    BY <1>11 DEF LoseConnection
  <2> QED
    BY <1>0, <2>1, <2>2, <2>3, SureTypes DEF Disconnect, StartAfresh, Todo
<1>12. CASE UNCHANGED vars
  BY <1>0, <1>12 DEF vars, connectionVars, callVars, historyVars
<1> QED
  BY <1>1, <1>2, <1>3, <1>4, <1>5, <1>6, <1>7, <1>8, <1>9, <1>10, <1>11, <1>12 DEF Next

-------------------------------------------------------------------------------
(* The modes of the connection, and its transaction.                        *)

LEMMA StatementsStay ==
    ASSUME SessionTypes, StatementsInv, [Next]_vars
    PROVE  StatementsInv'
<1> SUFFICES ASSUME adapter' = "postgresql",
                    NEW part \in DOMAIN todo', NEW i \in DOMAIN todo'[part]
             PROVE  todo'[part][i].do \notin {"commit", "load"}
  BY DEF StatementsInv
<1> DEFINE Uncommitted(t) ==
        \A p \in DOMAIN t : \A j \in DOMAIN t[p] : t[p][j].do \notin {"commit", "load"}
<1>1. adapter' = adapter \/ ~[Next]_vars
  BY DEF Next, vars, Connect, Close, Disconnect, BeginTransaction, Commit, RollbackTransaction,
         OpenStream, EndStream, Call, Execute, Raise, LoseConnection
<1>2. adapter = "postgresql" /\ Uncommitted(todo)
  BY <1>1 DEF StatementsInv
<1>3. Uncommitted(NoStatements)
  BY DEF NoStatements
<1>4. ASSUME NEW r \in Requests, Call(r)
      PROVE  Uncommitted(todo')
  <2>1. Sent(r, todo')
    BY <1>4, AllIsSent DEF Call
  <2> QED
    BY <1>2, <2>1 DEF Sent
<1>5. ASSUME Execute
      PROVE  Uncommitted(todo')
  <2>1. Running /\ todo' = Rest
    BY <1>5 DEF Execute, GoOn, Rest
  <2>2. ASSUME NEW p \in {"prepare", "body", "cleanup"}, NEW j \in DOMAIN Rest[p]
        PROVE  Rest[p][j].do \notin {"commit", "load"}
    <3>1. p \in DOMAIN todo /\ todo[p] \in Seq(Statement)
      BY DEF SessionTypes
    <3>2. Rest[p] = todo[p] \/ (p = Part /\ Rest[p] = Tail(todo[p]) /\ todo[p] # <<>>)
      BY <2>1, FirstStatement
    <3>3. CASE Rest[p] = todo[p]
      BY <1>2, <2>2, <3>1, <3>3
    <3>4. CASE p = Part /\ Rest[p] = Tail(todo[p]) /\ todo[p] # <<>>
      <4>1. j + 1 \in DOMAIN todo[p] /\ Rest[p][j] = todo[p][j + 1]
        BY <2>2, <3>1, <3>4, FirstAndOthers
      <4> QED
        BY <1>2, <3>1, <4>1
    <3> QED
      BY <3>2, <3>3, <3>4
  <2>3. DOMAIN Rest = {"prepare", "body", "cleanup"}
    BY <2>1, FirstStatement DEF Todo
  <2> QED
    BY <2>1, <2>2, <2>3
<1>6. ASSUME Raise
      PROVE  Uncommitted(todo')
  <2>1. todo' = Remaining
    BY <1>6 DEF Raise, GoOn
  <2>2. DOMAIN Remaining = {"prepare", "body", "cleanup"} /\ "cleanup" \in DOMAIN todo
    BY RemainingTypes DEF Todo, SessionTypes
  <2>3. \A p \in DOMAIN Remaining : Remaining[p] = <<>> \/ Remaining[p] = todo.cleanup
    BY <2>2, RemainingTypes
  <2> QED
    BY <1>2, <2>1, <2>2, <2>3
<1>7. todo' = NoStatements \/ todo' = todo \/ Execute \/ Raise \/ \E r \in Requests : Call(r)
  BY DEF Next, vars, callVars, Connect, Close, Disconnect, BeginTransaction, Commit,
         RollbackTransaction, OpenStream, EndStream, LoseConnection
<1>8. Uncommitted(todo')
  BY <1>2, <1>3, <1>4, <1>5, <1>6, <1>7
<1> QED
  BY <1>8

LEMMA ConnectionStays ==
    ASSUME SessionTypes, ConnectionInv, [Next]_vars
    PROVE  ConnectionInv'
<1> USE DEF ConnectionInv, SessionTypes
<1>1. CASE Connect
  BY <1>1 DEF Connect, StartAfresh, callVars
<1>2. CASE Close
  BY <1>2 DEF Close, Disconnect, StartAfresh
<1>3. CASE BeginTransaction
  BY <1>3 DEF BeginTransaction, callVars, Ready
<1>4. CASE Commit
  BY <1>4 DEF Commit, StartAfresh, callVars, Ready
<1>5. CASE RollbackTransaction
  BY <1>5 DEF RollbackTransaction, StartAfresh, callVars, Ready
<1>6. CASE OpenStream
  BY <1>6 DEF OpenStream, callVars, Ready
<1>7. CASE EndStream
  BY <1>7 DEF EndStream, callVars, Ready
<1>8. ASSUME NEW r \in Requests, Call(r)
      PROVE  ConnectionInv'
  BY <1>8, RequestTypes DEF Call, connectionVars, Ready, Running
<1>9. CASE Execute
  <2>1. connected /\ (aborted => adapter # "postgresql")
    BY <1>9 DEF Execute, Refused, Running
  <2>2. autocommit => committed' = session'
    BY <1>9 DEF Execute, DurableAfter
  <2>3. raising' => request' # Idle
    BY <1>9 DEF Execute, GoOn, Running
  <2>4. UNCHANGED <<adapter, connectionVars>>
    BY <1>9 DEF Execute
  <2> QED
    BY <2>1, <2>2, <2>3, <2>4 DEF connectionVars
<1>10. CASE Raise
  <2>1. connected
    BY <1>10 DEF Raise, Running
  <2>2. PICK undone \in BOOLEAN :
        /\ adapter = "postgresql" => undone = ~autocommit
        /\ session' = IF undone THEN committed ELSE session
        /\ aborted' = (aborted \/ undone)
    BY <1>10 DEF Raise, SessionAfterError
  <2>3. raising' => request' # Idle
    BY <1>10 DEF Raise, GoOn, Running
  <2>4. UNCHANGED <<adapter, committed, connected, autocommit, stream>>
    BY <1>10 DEF Raise
  <2> QED
    BY <2>1, <2>2, <2>3, <2>4
<1>11. CASE LoseConnection
  BY <1>11 DEF LoseConnection, Disconnect, StartAfresh
<1>12. CASE UNCHANGED vars
  BY <1>12 DEF vars, connectionVars, callVars, historyVars
<1> QED
  BY <1>1, <1>2, <1>3, <1>4, <1>5, <1>6, <1>7, <1>8, <1>9, <1>10, <1>11, <1>12 DEF Next

LEMMA TransactionStays ==
    ASSUME SessionTypes, ConnectionInv, TransactionInv, StatementsInv, [Next]_vars
    PROVE  TransactionInv'
<1> USE DEF TransactionInv, ConnectionInv, SessionTypes
<1>1. CASE Connect
  BY <1>1 DEF Connect, StartAfresh, callVars
<1>2. CASE Close
  BY <1>2 DEF Close, Disconnect, StartAfresh
<1>3. CASE BeginTransaction
  BY <1>3 DEF BeginTransaction, callVars, Ready
<1>4. CASE Commit
  BY <1>4 DEF Commit, StartAfresh, callVars
<1>5. CASE RollbackTransaction
  BY <1>5 DEF RollbackTransaction, StartAfresh, callVars, Ready
<1>6. CASE OpenStream
  BY <1>6 DEF OpenStream, callVars, Ready
<1>7. CASE EndStream
  BY <1>7 DEF EndStream, callVars, Ready
<1>8. ASSUME NEW r \in Requests, Call(r)
      PROVE  TransactionInv'
  BY <1>8 DEF Call, connectionVars, Ready
<1>9. CASE Execute
  <2>1. adapter = "postgresql" => NextStatement.do \notin {"commit", "load"}
    <3>1. /\ Part \in {"prepare", "body", "cleanup"} /\ todo[Part] \in Seq(Statement)
          /\ todo[Part] # <<>> /\ NextStatement = todo[Part][1]
      BY <1>9, FirstStatement DEF Execute
    <3>2. 1 \in DOMAIN todo[Part] /\ Part \in DOMAIN todo
      BY <3>1, FirstAndOthers
    <3> QED
      BY <3>1, <3>2 DEF StatementsInv
  <2>2. /\ ~autocommit /\ NextStatement.do \notin {"commit", "load"} => committed' = committed
        /\ selfCommitted' = (selfCommitted \/ NextStatement.do \in {"commit", "load"})
        /\ UNCHANGED <<adapter, connectionVars, begun, mixed, base>>
    BY <1>9 DEF Execute, DurableAfter
  <2> QED
    BY <2>1, <2>2 DEF connectionVars
<1>10. CASE Raise
  BY <1>10 DEF Raise
<1>11. CASE LoseConnection
  BY <1>11 DEF LoseConnection, Disconnect, StartAfresh
<1>12. CASE UNCHANGED vars
  BY <1>12 DEF vars, connectionVars, callVars, historyVars
<1> QED
  BY <1>1, <1>2, <1>3, <1>4, <1>5, <1>6, <1>7, <1>8, <1>9, <1>10, <1>11, <1>12 DEF Next

-------------------------------------------------------------------------------
(* What is owed, and the schema, while no call runs.                        *)

WorkInv == CallInv /\ OwedInv /\ WholeInv

LEMMA AtRest ==
    ASSUME request' = Idle, UNCHANGED found,
           ~mixed' /\ ~aborted' => Agrees(session, owed)',
           ~mixed' /\ stream' = "own" => session' = committed' /\ ~aborted',
           Whole(committed', left'), Whole(session', left' \cup unsure'.parts)
    PROVE  WorkInv'
  BY DEF WorkInv, CallInv, OwedInv, WholeInv, Whole, AllOrNone, AsFound

\* More may be in doubt than is known.
LEMMA WholeForMore ==
    ASSUME NEW db, NEW parts, NEW more, parts \subseteq more
    PROVE  /\ AllOrNone(db, parts) => AllOrNone(db, more)
           /\ AsFound(db, parts) => AsFound(db, more)
           /\ Whole(db, parts) => Whole(db, more)
  BY DEF Whole, AllOrNone, AsFound

LEMMA RestGoesOn ==
    ASSUME SessionTypes, ConnectionInv, WorkInv,
           Connect \/ Close \/ BeginTransaction \/ Commit \/ RollbackTransaction
                   \/ OpenStream \/ EndStream
    PROVE  WorkInv'
<1> USE DEF ConnectionInv
<1>1. request = Idle
  BY DEF Connect, Close, BeginTransaction, Commit, RollbackTransaction, OpenStream, EndStream,
         Ready, Running
<1>2. /\ ~mixed /\ ~aborted => Agrees(session, owed)
      /\ ~mixed /\ stream = "own" => session = committed /\ ~aborted
  BY <1>1 DEF WorkInv, OwedInv
<1>3. Whole(committed, left) /\ Whole(session, left \cup unsure.parts)
  BY <1>1 DEF WorkInv, WholeInv
\* A new transaction: the session sees what is durable, and nothing else is owed.
<1>4. ASSUME StartAfresh, request' = Idle, UNCHANGED found, Whole(committed', left')
      PROVE  WorkInv'
  <2>1. session' = committed' /\ owed' = committed' /\ aborted' = FALSE
    BY <1>4 DEF StartAfresh
  <2>2. Agrees(session, owed)'
    BY <2>1 DEF Agrees
  <2>3. Whole(session', left' \cup unsure'.parts)
    BY <1>4, <2>1, WholeForMore
  <2> QED
    BY <1>4, <2>1, <2>2, <2>3, AtRest
<1>5. CASE Connect
  BY <1>1, <1>3, <1>4, <1>5 DEF Connect, callVars
<1>6. CASE Close
  BY <1>1, <1>3, <1>4, <1>6 DEF Close, Disconnect
<1>7. CASE Commit
  BY <1>1, <1>3, <1>4, <1>7 DEF Commit, callVars
<1>8. CASE RollbackTransaction
  BY <1>1, <1>3, <1>4, <1>8 DEF RollbackTransaction, callVars
\* The same transaction goes on.
<1>9. ASSUME UNCHANGED <<request, found, committed, session, owed, unsure, left, aborted>>,
             mixed => mixed', ~mixed' /\ stream' = "own" => session = committed /\ ~aborted
      PROVE  WorkInv'
  <2>1. ~mixed' /\ ~aborted' => Agrees(session, owed)'
    BY <1>2, <1>9 DEF Agrees
  <2> QED
    BY <1>1, <1>3, <1>9, <2>1, AtRest
<1>10. CASE BeginTransaction
  BY <1>2, <1>9, <1>10 DEF BeginTransaction, callVars
<1>11. CASE OpenStream
  BY <1>2, <1>9, <1>11 DEF OpenStream, callVars
<1>12. CASE EndStream /\ stream # "own"
  BY <1>2, <1>9, <1>12 DEF EndStream, callVars
<1>13. CASE EndStream /\ stream = "own"
  <2>1. /\ session' = committed' /\ aborted' = FALSE
        /\ UNCHANGED <<request, found, committed, owed, unsure, left, mixed>>
    BY <1>13 DEF EndStream, callVars
  <2>2. ~mixed' => Agrees(session, owed)'
    BY <1>2, <1>13, <2>1 DEF Agrees
  <2>3. Whole(session', left' \cup unsure'.parts)
    BY <1>3, <2>1, WholeForMore
  <2> QED
    BY <1>1, <1>3, <2>1, <2>2, <2>3, AtRest
<1> QED
  BY <1>5, <1>6, <1>7, <1>8, <1>10, <1>11, <1>12, <1>13

LEMMA WorkStutters ==
    ASSUME WorkInv, UNCHANGED vars
    PROVE  WorkInv'
<1>1. UNCHANGED <<adapter, found, committed, session, request, todo, raising, autocommit,
                  stream, aborted, mixed, unsure, left, owed>>
  BY DEF vars, connectionVars, callVars, historyVars
<1>2. CallInv'
  BY <1>1 DEF WorkInv, CallInv, IdentityPhase, Unaltered, AlteredByDB2, AlteredByCopy,
              RowPhase, SwitchPhase, ResetPhase, LoadPhase, TriggersLeft, SwitchTo
<1>3. OwedInv'
  BY <1>1, ZenonT(60) DEF WorkInv, OwedInv, OwedHalfWay, Agrees, KeysLeft, Unaltered, PutBack, Promised
<1>4. WholeInv'
  BY <1>1 DEF WorkInv, WholeInv, Whole, AllOrNone, AsFound, Unaltered, AlteredByDB2,
              AlteredByCopy
<1> QED
  BY <1>2, <1>3, <1>4 DEF WorkInv

-------------------------------------------------------------------------------
(* A call begins.                                                           *)

LEMMA CallStarts ==
    ASSUME SessionTypes, ConnectionInv, WorkInv, NEW r \in Requests, Call(r)
    PROVE  WorkInv'
<1>1. /\ request = Idle /\ ~raising /\ request' = r /\ request' # Idle
      /\ r.override => found = "always"
      /\ UNCHANGED <<adapter, found, committed, session, raising, stream, autocommit, aborted,
                     unsure, left, owed>>
      /\ mixed' = (mixed \/ stream = "own")
  BY RequestTypes DEF Call, Ready, Running, connectionVars, ConnectionInv
<1>2. todo' = Statements(r) /\ Sent(r, todo')
  BY <1>1, AllIsSent DEF Call
<1>3. \/ Unaltered' /\ ~PutsBack(r)
      \/ /\ ~Unaltered' /\ r.override
         /\ PutsBack(r) \/ session.generated = "always"
         /\ AlteredByDB2' \/ AlteredByCopy'
  <2>1. CASE todo'.prepare = <<>> /\ NoAlters(todo'.body) /\ todo'.cleanup = <<>> /\ ~PutsBack(r)
    BY <2>1 DEF Unaltered, NoAlters
  <2>2. CASE /\ adapter = "db2" /\ r.call \in {"insert_batch", "bulk_load"} /\ r.override
             /\ r.call = "insert_batch" \/ session.generated = "always"
             /\ todo'.prepare = SetIdentityGenerated("by_default")
             /\ NoAlters(todo'.body)
             /\ todo'.cleanup = SetIdentityGenerated("always")
    <3>1. ~Unaltered'
      BY <2>2 DEF Unaltered, SetIdentityGenerated
    <3>2. AlteredByDB2'
      BY <1>1, <2>2 DEF AlteredByDB2, NoAlters, SetIdentityGenerated, CommitSt, St
    <3> QED
      BY <1>1, <2>2, <3>1, <3>2 DEF PutsBack
  <2>3. CASE /\ adapter = "postgresql" /\ r.call = "bulk_load" /\ r.override
             /\ todo'.prepare = <<>>
             /\ todo'.body = <<St("alter", "by_default"), St("copy", r.keys)>>
             /\ todo'.cleanup = <<St("alter", "always")>>
    <3>1. ~Unaltered'
      BY <2>3 DEF Unaltered
    <3>2. AlteredByCopy'
      BY <1>1, <2>3 DEF AlteredByCopy, St
    <3> QED
      BY <1>1, <2>3, <3>1, <3>2 DEF PutsBack
  <2> QED
    BY <1>2, <2>1, <2>2, <2>3 DEF Sent
<1>4. /\ r.call \in RowCalls => \A k \in r.keys : k \in KeysLeft'
      /\ r.call \in SwitchCalls => \A t \in Triggers : t \in TriggersLeft'
  <2>1. ASSUME r.call \in RowCalls, NEW k \in r.keys
        PROVE  k \in KeysLeft'
    <3>1. PICK i \in DOMAIN todo'.body :
            todo'.body[i].do \in Writers(r.call) /\ k \in todo'.body[i].arg
      BY <1>2, <2>1 DEF Sent
    <3> QED
      BY <1>1, <3>1 DEF KeysLeft
  <2>2. ASSUME r.call \in SwitchCalls, NEW t \in Triggers
        PROVE  t \in TriggersLeft'
    <3>1. PICK i \in DOMAIN todo'.body :
            todo'.body[i].do \in {"disable", "enable"} /\ t \in todo'.body[i].arg
      BY <1>2, <2>2 DEF Sent
    <3> QED
      BY <3>1 DEF TriggersLeft
  <2> QED
    BY <2>1, <2>2
<1>5. CallInv'
  <2>1. r.call \in RowCalls => RowPhase'
    BY <1>1, <1>2 DEF Sent, RowPhase, Writers
  <2>2. r.call \notin RowCalls => Unaltered'
    BY <1>2, RequestTypes DEF Sent, Unaltered, NoAlters, RowCalls
  <2>3. r.call \in SwitchCalls => SwitchPhase'
    <3> SUFFICES ASSUME r.call \in SwitchCalls
                 PROVE  SwitchPhase'
      OBVIOUS
    <3>1. Unaltered' /\ ~raising' /\ (adapter' = "postgresql" => Len(todo'.body) = 1)
      BY <1>1, <1>2, <2>2 DEF Sent, SwitchCalls, RowCalls
    <3>2. SwitchTo' = IF r.call = "disable_triggers" THEN "disable" ELSE "enable"
      BY <1>1 DEF SwitchTo
    <3>3. \A i \in DOMAIN todo'.body :
            \/ todo'.body[i] = CommitSt /\ i = Len(todo'.body)
            \/ todo'.body[i].do = SwitchTo' /\ todo'.body[i].arg \subseteq Triggers
      BY <1>2, <3>2 DEF Sent
    <3> QED
      BY <1>4, <3>1, <3>3 DEF SwitchPhase, CommitSt, St
  <2>4. r.call = "reset_identity" => ResetPhase'
    BY <1>1, <1>2, <2>2 DEF Sent, ResetPhase, RowCalls, St, CommitSt
  <2>5. r.call = "bulk_load_cli" => LoadPhase'
    BY <1>1, <1>2, <2>2 DEF Sent, LoadPhase, RowCalls, St, Loadable, Stored
  <2> QED
    BY <1>1, <1>3, <2>1, <2>3, <2>4, <2>5 DEF CallInv, IdentityPhase
<1>6. OwedInv'
  <2>1. /\ stream' = "own" => mixed'
        /\ mixed => mixed'
    BY <1>1
  <2>2. ASSUME ~mixed', ~aborted'
        PROVE  OwedHalfWay'
    <3>1. Agrees(session, owed) /\ owed \in Database
      BY <1>1, <2>1, <2>2 DEF WorkInv, OwedInv, SessionTypes
    <3>2. ASSUME NEW k \in Keys \ unsure.rows, r.call \in RowCalls
          PROVE  \/ session.rows[k] = Promised(r, owed).rows[k]
                 \/ k \in KeysLeft' /\ session.rows[k] = owed.rows[k]
      <4>1. session.rows[k] = owed.rows[k]
        BY <3>1 DEF Agrees
      <4>2. k \notin r.keys => Promised(r, owed).rows[k] = owed.rows[k]
        BY <3>1, <3>2, PromisedRows
      <4> QED
        BY <1>4, <3>2, <4>1, <4>2
    <3>3. Promised(request, owed)' = Promised(r, owed) /\ PutBack(request, owed)' = PutBack(r, owed)
      BY <1>1 DEF Promised, PutBack
    <3>4. \/ "generated" \in unsure.parts
          \/ Unaltered' /\ session.generated = PutBack(r, owed).generated
          \/ ~Unaltered' /\ PutBack(r, owed).generated = "always"
      <4>1. "generated" \in unsure.parts \/ session.generated = owed.generated
        BY <3>1 DEF Agrees
      <4>2. /\ PutsBack(r) => PutBack(r, owed).generated = "always"
            /\ ~PutsBack(r) => PutBack(r, owed) = owed
        BY <3>1, PutBackChanges
      <4> QED
        BY <1>3, <4>1, <4>2
    <3>5. /\ \A k \in Keys \ unsure.rows : session.rows[k] = owed.rows[k]
          /\ session.disabled = owed.disabled \/ "disabled" \in unsure.parts
          /\ session.restart = owed.restart \/ "restart" \in unsure.parts
      BY <3>1 DEF Agrees
    <3> QED
      BY <1>1, <3>2, <3>3, <3>4, <3>5 DEF OwedHalfWay
  <2> QED
    BY <1>1, <2>1, <2>2 DEF OwedInv
<1>7. WholeInv'
  <2>1. Whole(committed, left) /\ Whole(session, left \cup unsure.parts)
    BY <1>1 DEF WorkInv, WholeInv
  <2> QED
    BY <1>1, <1>3, <2>1 DEF WholeInv, Whole, AllOrNone, AsFound
<1> QED
  BY <1>5, <1>6, <1>7 DEF WorkInv

-------------------------------------------------------------------------------
(* What a statement makes durable.                                          *)

\* Around the try block the column is altered and nothing else is done.
LEMMA AroundTheTryBlock ==
    ASSUME SessionTypes, Running, IdentityPhase, Part # "body"
    PROVE  NextStatement.do \in {"commit", "alter"}
<1>1. /\ NextStatement = todo[Part][1] /\ Part \in {"prepare", "cleanup"}
      /\ todo[Part] # <<>> /\ (Part = "prepare" <=> todo.prepare # <<>>)
  BY FirstStatement
<1>2. \A mode : SetIdentityGenerated(mode)[1] = St("alter", mode)
  BY DEF SetIdentityGenerated
<1>3. CASE Part = "prepare"
  <2>1. todo.prepare \in {SetIdentityGenerated("by_default"), <<CommitSt>>}
    BY <1>1, <1>3 DEF IdentityPhase, Unaltered, AlteredByDB2, AlteredByCopy
  <2>2. NextStatement \in {St("alter", "by_default"), CommitSt}
    BY <1>1, <1>2, <1>3, <2>1
  <2> QED
    BY <2>2, StatementTypes
<1>4. CASE Part = "cleanup"
  <2>1. todo.cleanup \in {SetIdentityGenerated("always"), <<CommitSt>>, <<St("alter", "always")>>}
    BY <1>1, <1>4 DEF IdentityPhase, Unaltered, AlteredByDB2, AlteredByCopy
  <2>2. NextStatement \in {St("alter", "always"), CommitSt}
    BY <1>1, <1>2, <1>4, <2>1
  <2> QED
    BY <2>2, StatementTypes
<1> QED
  BY <1>1, <1>3, <1>4

\* Triggers that some statements switch.
SwitchedBy(statements) ==
    UNION {statements[i].arg :
            i \in {i \in DOMAIN statements : statements[i].do \in {"disable", "enable"}}}

\* A statement of a switch: it switches its triggers, and the last one all that
\* are left.
LEMMA SwitchTakes ==
    ASSUME SessionTypes, Running, request.call \in SwitchCalls, SwitchPhase,
           NEW after, after = After(NextStatement, session)
    PROVE  /\ Part = "body" /\ NextStatement = todo.body[1] /\ 1 \in DOMAIN todo.body
           /\ Rest.body = Tail(todo.body) /\ Rest.prepare = <<>> /\ Rest.cleanup = <<>>
           /\ Len(Rest.body) = Len(todo.body) - 1 /\ Len(todo.body) \in Nat
           /\ \A i \in DOMAIN Rest.body :
                i + 1 \in DOMAIN todo.body /\ Rest.body[i] = todo.body[i + 1]
           /\ Rest.body \in Seq(Statement)
           /\ \/ NextStatement = CommitSt /\ Len(todo.body) = 1
              \/ NextStatement.do = SwitchTo /\ NextStatement.arg \subseteq Triggers
           /\ SwitchTo \in {"disable", "enable"} /\ CommitSt.do = "commit"
           /\ after \in Database
           /\ after.generated = session.generated /\ after.restart = session.restart
           /\ after.rows = session.rows
           /\ \A t \in Triggers \ SwitchedBy(Rest.body) :
                t \in after.disabled <=> SwitchTo = "disable"
           /\ Rest.body = <<>> =>
                after.disabled = IF SwitchTo = "disable" THEN Triggers ELSE {}
<1> DEFINE s == NextStatement
<1>1. /\ s \in Statement /\ todo.body \in Seq(Statement)
      /\ session \in Database /\ after = After(s, session) /\ after \in Database
      /\ Rest \in Todo /\ Unaltered
  BY FirstStatement, Effects DEF SessionTypes, SwitchPhase
<1>3. /\ Part = "body" /\ todo.body # <<>> /\ s = todo.body[1]
      /\ Rest.body = Tail(todo.body) /\ Rest.prepare = <<>> /\ Rest.cleanup = <<>>
  BY <1>1, FirstStatement, NothingLeft DEF Unaltered
<1>4. /\ 1 \in DOMAIN todo.body /\ Len(Rest.body) = Len(todo.body) - 1 /\ Len(todo.body) \in Nat
      /\ \A i \in DOMAIN Rest.body :
            i + 1 \in DOMAIN todo.body /\ Rest.body[i] = todo.body[i + 1]
      /\ Rest.body \in Seq(Statement)
  BY <1>1, <1>3, FirstAndOthers
<1>5. \/ s = CommitSt /\ Len(todo.body) = 1
      \/ s.do = SwitchTo /\ s.arg \subseteq Triggers
  BY <1>3, <1>4 DEF SwitchPhase
<1>6. SwitchTo \in {"disable", "enable"} /\ CommitSt.do = "commit"
  BY StatementTypes DEF SwitchTo
<1> HIDE DEF s
<1>7. /\ after.generated = session.generated /\ after.restart = session.restart
      /\ after.disabled = IF s.do = "disable" THEN session.disabled \cup s.arg
                          ELSE IF s.do = "enable" THEN session.disabled \ s.arg
                          ELSE session.disabled
      /\ \A k \in Keys : after.rows[k] = session.rows[k]
  <2>1. s.do \in {"commit", "disable", "enable"}
    BY <1>5, <1>6
  <2>2. /\ after.generated = session.generated /\ after.restart = session.restart
        /\ after.disabled = IF s.do = "disable" THEN session.disabled \cup s.arg
                            ELSE IF s.do = "enable" THEN session.disabled \ s.arg
                            ELSE session.disabled
    <3>1. /\ After(s, session).generated =
                IF s.do = "alter" THEN s.arg ELSE session.generated
          /\ After(s, session).disabled =
                IF s.do = "disable" THEN session.disabled \cup s.arg
                ELSE IF s.do = "enable" THEN session.disabled \ s.arg ELSE session.disabled
          /\ After(s, session).restart = IF s.do = "restart" THEN "next" ELSE session.restart
      BY <1>1, Effects
    <3> QED
      BY <1>1, <2>1, <3>1
  <2>3. ASSUME NEW k \in Keys
        PROVE  after.rows[k] = session.rows[k]
    <3>1. After(s, session).rows[k] =
                IF s.do \in {"insert", "override", "copy", "load"} /\ k \in s.arg
                THEN "inserted"
                ELSE IF s.do = "update" /\ k \in s.arg /\ session.rows[k] # "none"
                THEN "updated"
                ELSE IF s.do = "delete" /\ k \in s.arg THEN "none" ELSE session.rows[k]
      BY <1>1, Effects
    <3> QED
      BY <1>1, <2>1, <3>1
  <2> QED
    BY <2>2, <2>3
<1>8. after.rows = session.rows
  BY <1>1, <1>7 DEF Database
<1>9. ASSUME NEW t \in Triggers \ SwitchedBy(Rest.body)
      PROVE  t \in after.disabled <=> SwitchTo = "disable"
  <2>1. CASE t \in TriggersLeft
    <3>1. PICK i \in DOMAIN todo.body :
            todo.body[i].do \in {"disable", "enable"} /\ t \in todo.body[i].arg
      BY <2>1 DEF TriggersLeft
    <3>2. i = 1
      <4> SUFFICES ASSUME i # 1
                   PROVE  FALSE
        OBVIOUS
      <4>1. i - 1 \in DOMAIN Rest.body /\ Rest.body[i - 1] = todo.body[i]
        BY <1>1, <1>3, FirstAndOthers
      <4> QED
        BY <1>9, <3>1, <4>1 DEF SwitchedBy
    <3>3. s.do = SwitchTo /\ t \in s.arg
      BY <1>3, <1>5, <1>6, <3>1, <3>2
    <3> QED
      BY <1>6, <1>7, <3>3
  <2>2. CASE t \notin TriggersLeft
    <3>1. t \in session.disabled <=> SwitchTo = "disable"
      BY <1>9, <2>2 DEF SwitchPhase
    <3> QED
      BY <1>5, <1>6, <1>7, <3>1
  <2> QED
    BY <2>1, <2>2
<1>10. ASSUME Rest.body = <<>>
       PROVE  after.disabled = IF SwitchTo = "disable" THEN Triggers ELSE {}
  <2>1. SwitchedBy(Rest.body) = {}
    BY <1>10 DEF SwitchedBy
  <2>2. after.disabled \subseteq Triggers
    BY <1>1 DEF Database
  <2> QED
    BY <1>9, <2>1, <2>2
<1> QED
  BY <1>1, <1>3, <1>4, <1>5, <1>6, <1>7, <1>8, <1>9, <1>10 DEF s

\* Only rows, or triggers, or the column: what the statements of a call leave alone.
LEMMA StatementsStick ==
    ASSUME SessionTypes, WorkInv, Running
    PROVE  /\ NextStatement.do \in {"disable", "enable"} => request.call \in SwitchCalls
           /\ NextStatement.do = "alter" => ~Unaltered
           /\ ~Unaltered => todo.cleanup # <<>>
<1>1. /\ NextStatement = todo[Part][1] /\ Part \in {"prepare", "body", "cleanup"}
      /\ todo[Part] # <<>> /\ todo[Part] \in Seq(Statement)
      /\ Part = "prepare" <=> todo.prepare # <<>>
      /\ Part = "body" => todo.prepare = <<>> /\ todo.body # <<>>
      /\ request \in Requests /\ request # Idle /\ 1 \in DOMAIN todo[Part]
  BY FirstStatement, FirstAndOthers DEF SessionTypes, Running
<1>2. IdentityPhase
  BY <1>1 DEF WorkInv, CallInv
<1>3. Part # "body" => NextStatement.do \in {"commit", "alter"}
  BY <1>2, AroundTheTryBlock
<1>4. ASSUME Part = "body"
      PROVE  NextStatement.do \in {"disable", "enable"} => request.call \in SwitchCalls
  <2>1. CASE request.call \in RowCalls
    <3>1. NextStatement.do \in {"commit", "alter"} \cup Writers(request.call)
      BY <1>1, <1>4, <2>1 DEF WorkInv, CallInv, RowPhase
    <3> QED
      BY <2>1, <3>1 DEF Writers, RowCalls
  <2>2. CASE request.call = "reset_identity"
    <3>1. todo.body[1] \in {St("restart", "next"), CommitSt}
      BY <1>1, <2>2, TwoStatements, OneStatement DEF WorkInv, CallInv, ResetPhase
    <3> QED
      BY <1>1, <1>4, <3>1, StatementTypes
  <2>3. CASE request.call = "bulk_load_cli"
    <3>1. todo.body[1] = St("load", Loadable(committed, request.keys, request.override))
      BY <1>1, <2>3, OneStatement DEF WorkInv, CallInv, LoadPhase
    <3> QED
      BY <1>1, <1>4, <3>1, StatementTypes
  <2> QED
    BY <1>1, <2>1, <2>2, <2>3, RequestTypes
<1>5. NextStatement.do = "alter" => ~Unaltered
  <2>1. Unaltered => Part = "body"
    BY <1>1 DEF Unaltered
  <2> QED
    BY <1>1, <2>1 DEF Unaltered, NoAlters
<1>6. ~Unaltered => todo.cleanup # <<>>
  BY <1>2, OneStatement, TwoStatements DEF IdentityPhase, AlteredByDB2, AlteredByCopy,
        SetIdentityGenerated
<1> QED
  BY <1>3, <1>4, <1>5, <1>6

\* When a statement has been executed, what is durable is whole but for what the
\* transaction left undone, and for a column that is altered.
LEMMA DurableHalfWay ==
    ASSUME SessionTypes, ConnectionInv, StatementsInv, WorkInv, Running,
           ~Refused(NextStatement)
    PROVE  /\ AllOrNone(DurableAfter(NextStatement), left \cup LeftBy(NextStatement))
           /\ todo.cleanup = <<>> =>
                Whole(DurableAfter(NextStatement), left \cup LeftBy(NextStatement))
           /\ Whole(DurableAfter(NextStatement),
                    left \cup LeftBy(NextStatement)
                         \cup IF todo.cleanup # <<>> THEN LeftAltered ELSE {})
<1> DEFINE s == NextStatement
           durable == DurableAfter(s)
           after == After(s, session)
           parts == left \cup LeftBy(s)
<1>1. /\ request # Idle /\ request \in Requests /\ s \in Statement
      /\ session \in Database /\ committed \in Database /\ after \in Database
      /\ autocommit \in BOOLEAN /\ adapter \in {"postgresql", "db2"}
      /\ Part \in DOMAIN todo /\ 1 \in DOMAIN todo[Part] /\ s = todo[Part][1]
  BY FirstStatement, FirstAndOthers, ContentTypes DEF SessionTypes, Running
<1>2. /\ durable = IF autocommit \/ s.do \in {"commit", "load"} THEN after ELSE committed
      /\ s.do = "commit" => LeftBy(s) = unsure.parts
      /\ s.do = "load" => session = committed
      /\ autocommit => session = committed /\ adapter = "postgresql"
      /\ adapter = "postgresql" => s.do \notin {"commit", "load"}
  BY <1>1 DEF DurableAfter, LeftBy, Refused, ConnectionInv, StatementsInv
<1>3. /\ AllOrNone(committed, left)
      /\ request.call \notin SwitchCalls \/ adapter = "postgresql" =>
            AllOrNone(session, left \cup unsure.parts)
      /\ Unaltered => AsFound(committed, left) /\ AsFound(session, left \cup unsure.parts)
      /\ ~Unaltered => AlteredByDB2 \/ AlteredByCopy
      /\ AlteredByCopy /\ ~autocommit => AsFound(committed, left)
      /\ AlteredByDB2 => adapter = "db2"
  BY <1>1 DEF WorkInv, WholeInv, CallInv, IdentityPhase, AlteredByDB2
<1>4. /\ s.do \in {"disable", "enable"} => request.call \in SwitchCalls
      /\ s.do = "alter" => ~Unaltered
      /\ ~Unaltered => todo.cleanup # <<>>
  BY StatementsStick
<1>5. /\ s.do \notin {"disable", "enable"} => after.disabled = session.disabled
      /\ s.do # "alter" => after.generated = session.generated
  BY <1>1, Effects
<1>6. ASSUME request.call \in SwitchCalls, durable = after
      PROVE  after.disabled \in {{}, Triggers} \/ durable = committed \/ session = committed
  <2>1. SwitchPhase
    BY <1>1, <1>6 DEF WorkInv, CallInv
  <2>2. /\ Len(Rest.body) = Len(todo.body) - 1 /\ Len(todo.body) \in Nat
        /\ Rest.body \in Seq(Statement)
        /\ (s = CommitSt /\ Len(todo.body) = 1) \/ s.do \in {"disable", "enable"}
        /\ Rest.body = <<>> => after.disabled \in {{}, Triggers}
    BY <1>6, <2>1, SwitchTakes
  <2>3. Len(todo.body) = 1 => Rest.body = <<>>
    BY <2>2
  <2>4. CASE s = CommitSt /\ Len(todo.body) = 1
    BY <2>2, <2>3, <2>4
  <2>5. CASE s.do \in {"disable", "enable"}
    <3>1. autocommit \/ durable = committed
      BY <1>2, <2>5
    <3>2. autocommit => Len(todo.body) = 1
      BY <1>2, <2>1 DEF SwitchPhase
    <3> QED
      BY <2>2, <2>3, <3>1, <3>2
  <2> QED
    BY <2>2, <2>4, <2>5
<1> HIDE DEF s, durable, after
<1>7. AllOrNone(durable, parts)
  <2>1. CASE durable = committed
    BY <1>3, <2>1 DEF AllOrNone
  <2>2. CASE durable # committed /\ request.call \in SwitchCalls
    <3>1. durable = after
      BY <1>2, <2>2
    <3>2. after.disabled \in {{}, Triggers} \/ session = committed
      BY <1>6, <2>2, <3>1
    <3>3. session = committed => AllOrNone(session, left)
      BY <1>3
    <3>4. ASSUME ~(after.disabled \in {{}, Triggers}), session = committed
          PROVE  AllOrNone(durable, parts)
      <4>1. CASE s.do \notin {"disable", "enable"}
        BY <1>5, <3>1, <3>3, <3>4, <4>1 DEF AllOrNone
      <4>2. CASE s.do \in {"disable", "enable"}
        <5>1. autocommit
          BY <1>2, <2>2, <4>2
        <5>2. SwitchPhase
          BY <1>1, <2>2 DEF WorkInv, CallInv
        <5>3. /\ Len(Rest.body) = Len(todo.body) - 1 /\ Len(todo.body) = 1
              /\ Rest.body \in Seq(Statement)
              /\ Rest.body = <<>> => after.disabled \in {{}, Triggers}
          BY <1>2, <2>2, <5>1, <5>2, SwitchTakes DEF SwitchPhase, after, s
        <5>4. Rest.body = <<>>
          BY <5>3
        <5> QED
          BY <3>4, <5>3, <5>4
      <4> QED
        BY <4>1, <4>2
    <3> QED
      BY <3>1, <3>2, <3>4 DEF AllOrNone
  <2>3. CASE durable # committed /\ request.call \notin SwitchCalls
    <3>1. durable = after /\ after.disabled = session.disabled
      BY <1>2, <1>4, <1>5, <2>3
    <3>2. autocommit \/ s.do = "load" => AllOrNone(session, left)
      BY <1>2, <1>3
    <3>3. s.do = "commit" => AllOrNone(session, parts)
      BY <1>2, <1>3, <2>3
    <3> QED
      BY <1>2, <2>3, <3>1, <3>2, <3>3 DEF AllOrNone
  <2> QED
    BY <2>1, <2>2, <2>3
<1>8. Unaltered => AsFound(durable, parts)
  <2> SUFFICES ASSUME Unaltered
               PROVE  AsFound(durable, parts)
    OBVIOUS
  <2>1. CASE durable = committed
    BY <1>3, <2>1 DEF AsFound
  <2>2. CASE durable # committed
    <3>1. durable = after /\ after.generated = session.generated
      BY <1>2, <1>4, <1>5, <2>2
    <3>2. autocommit \/ s.do = "load" => AsFound(session, left)
      BY <1>2, <1>3
    <3>3. s.do = "commit" => AsFound(session, parts)
      BY <1>2, <1>3
    <3> QED
      BY <1>2, <2>2, <3>1, <3>2, <3>3 DEF AsFound
  <2> QED
    BY <2>1, <2>2
<1>9. ~Unaltered => AsFound(durable, parts \cup LeftAltered) /\ todo.cleanup # <<>>
  <2>1. CASE adapter = "db2" \/ autocommit
    BY <1>4, <2>1 DEF AsFound, LeftAltered
  <2>2. CASE adapter = "postgresql" /\ ~autocommit
    BY <1>2, <1>3, <1>4, <2>2 DEF AsFound
  <2> QED
    BY <1>1, <2>1, <2>2
<1>10. todo.cleanup = <<>> => Whole(durable, parts)
  BY <1>7, <1>8, <1>9 DEF Whole
<1>11. todo.cleanup # <<>> => Whole(durable, parts \cup LeftAltered)
  BY <1>7, <1>8, <1>9 DEF Whole, AllOrNone, AsFound
<1>12. parts \cup {} = parts
  OBVIOUS
<1> QED
  BY <1>7, <1>10, <1>11, <1>12 DEF durable, s

\* A lost connection sees what is durable when it is made again.
LEMMA LostForGood ==
    ASSUME request' = Idle, UNCHANGED found, session' = committed', owed' = committed',
           aborted' = FALSE, AllOrNone(committed', left'), AsFound(committed', left')
    PROVE  WorkInv'
<1>1. Agrees(session, owed)'
  BY DEF Agrees
<1>2. Whole(committed', left') /\ Whole(session', left' \cup unsure'.parts)
  BY WholeForMore DEF Whole, AllOrNone, AsFound
<1> QED
  BY <1>1, <1>2, AtRest

LEMMA ConnectionsAreLost ==
    ASSUME SessionTypes, ConnectionInv, StatementsInv, WorkInv, LoseConnection
    PROVE  WorkInv'
<1>1. /\ request' = Idle /\ UNCHANGED found /\ session' = committed' /\ owed' = committed'
      /\ aborted' = FALSE
  BY DEF LoseConnection, Disconnect, StartAfresh
<1> DEFINE alt == IF todo.cleanup # <<>> THEN LeftAltered ELSE {}
<1>2. PICK lost \in SUBSET Parts :
        /\ left' = left \cup lost \cup alt
        /\ \/ UNCHANGED committed /\ lost = {}
           \/ /\ Running /\ ~Refused(NextStatement)
              /\ committed' = DurableAfter(NextStatement) /\ lost = LeftBy(NextStatement)
           \/ Ready /\ committed' = session /\ lost = unsure.parts
  BY DEF LoseConnection
<1>3. CASE Running /\ UNCHANGED committed
  <2>1. /\ AllOrNone(committed, left)
        /\ Unaltered => AsFound(committed, left)
        /\ AlteredByCopy /\ ~autocommit => AsFound(committed, left)
        /\ Unaltered \/ AlteredByDB2 \/ AlteredByCopy
    BY <1>3 DEF WorkInv, WholeInv, CallInv, IdentityPhase, Running
  <2>2. ~Unaltered => todo.cleanup # <<>>
    BY <1>3, StatementsStick
  <2>3. AllOrNone(committed, left')
    BY <1>2, <2>1 DEF AllOrNone
  <2>4. AsFound(committed, left')
    <3>1. CASE AsFound(committed, left)
      BY <1>2, <3>1 DEF AsFound
    <3>2. CASE ~AsFound(committed, left)
      <4>1. todo.cleanup # <<>> /\ (adapter = "db2" \/ autocommit)
        BY <2>1, <2>2, <3>2 DEF AlteredByDB2
      <4>2. "generated" \in left'
        BY <1>2, <4>1 DEF LeftAltered
      <4> QED
        BY <4>2 DEF AsFound
    <3> QED
      BY <3>1, <3>2
  <2> QED
    BY <1>1, <1>3, <2>3, <2>4, LostForGood
<1>4. CASE /\ Running /\ ~Refused(NextStatement)
           /\ committed' = DurableAfter(NextStatement) /\ left' = left \cup LeftBy(NextStatement) \cup alt
  <2>1. Whole(committed', left')
    BY <1>4, DurableHalfWay
  <2> QED
    BY <1>1, <2>1, LostForGood DEF Whole
<1>5. CASE ~Running
  <2>1. Whole(committed, left) /\ Whole(session, left \cup unsure.parts)
    BY <1>5 DEF WorkInv, WholeInv, Running
  <2>2. Whole(committed', left')
    <3>1. \/ committed' = committed /\ left \subseteq left'
          \/ committed' = session /\ left \cup unsure.parts \subseteq left'
      BY <1>2, <1>5
    <3> QED
      BY <2>1, <3>1 DEF Whole, AllOrNone, AsFound
  <2> QED
    BY <1>1, <2>2, LostForGood DEF Whole
<1> QED
  BY <1>2, <1>3, <1>4, <1>5 DEF Ready

-------------------------------------------------------------------------------
(* A statement raises.                                                      *)

\* What a call that raises has done is in doubt, and nothing else.
LEMMA RaisedHalfWay ==
    ASSUME SessionTypes, ConnectionInv, WorkInv, Running, ~mixed, ~aborted
    PROVE  /\ \A k \in Keys \ Unsettled.rows : session.rows[k] = owed.rows[k]
           /\ \/ "generated" \in Unsettled.parts
              \/ /\ Part = "body"
                 /\ \/ Unaltered /\ session.generated = PutBack(request, owed).generated
                    \/ ~Unaltered /\ PutBack(request, owed).generated = "always"
           /\ session.disabled = owed.disabled \/ "disabled" \in Unsettled.parts
           /\ session.restart = owed.restart \/ "restart" \in Unsettled.parts
           /\ request.call \in RowCalls =>
                \A k \in Keys \ Unsettled.rows :
                    session.rows[k] = Promised(request, owed).rows[k]
<1>1. /\ request # Idle /\ request \in Requests /\ owed \in Database
      /\ request.call \in RowCalls \cup SwitchCalls \cup {"reset_identity", "bulk_load_cli"}
      /\ adapter \in {"postgresql", "db2"}
  BY RequestTypes DEF SessionTypes, Running
<1>2. OwedHalfWay
  BY <1>1 DEF WorkInv, OwedInv
<1>3. /\ Unsettled.rows = unsure.rows \cup request.keys
      /\ unsure.parts \subseteq Unsettled.parts
      /\ Part # "body" => "generated" \in Unsettled.parts
      /\ adapter = "db2" /\ request.call \in SwitchCalls => "disabled" \in Unsettled.parts
      /\ adapter = "db2" /\ request.call = "reset_identity" => "restart" \in Unsettled.parts
  BY DEF Unsettled, Parts, SwitchCalls
<1>4. ASSUME request.call \in RowCalls, NEW k \in Keys \ Unsettled.rows
      PROVE  /\ session.rows[k] = owed.rows[k]
             /\ session.rows[k] = Promised(request, owed).rows[k]
  <2>1. k \notin request.keys /\ k \notin unsure.rows
    BY <1>3, <1>4
  <2>2. Promised(request, owed).rows[k] = owed.rows[k]
    BY <1>1, <1>4, <2>1, PromisedRows
  <2> QED
    BY <1>2, <1>4, <2>1, <2>2 DEF OwedHalfWay
<1>5. ASSUME request.call \notin RowCalls, NEW k \in Keys \ Unsettled.rows
      PROVE  session.rows[k] = owed.rows[k]
  BY <1>2, <1>3, <1>5 DEF OwedHalfWay
<1>6. \/ "generated" \in Unsettled.parts
      \/ /\ Part = "body"
         /\ \/ Unaltered /\ session.generated = PutBack(request, owed).generated
            \/ ~Unaltered /\ PutBack(request, owed).generated = "always"
  BY <1>2, <1>3 DEF OwedHalfWay
<1>7. /\ session.disabled = owed.disabled \/ "disabled" \in Unsettled.parts
      /\ session.restart = owed.restart \/ "restart" \in Unsettled.parts
  BY <1>1, <1>2, <1>3 DEF OwedHalfWay
<1> QED
  BY <1>4, <1>5, <1>6, <1>7

LEMMA RaiseTakes ==
    ASSUME SessionTypes, ConnectionInv, WorkInv, Raise
    PROVE  WorkInv'
<1>1. PICK undone \in BOOLEAN :
        /\ adapter = "postgresql" => undone = ~autocommit
        /\ session' = IF undone THEN committed ELSE session
        /\ aborted' = (aborted \/ undone)
        /\ unsure' = IF undone THEN Sure ELSE Unsettled
  BY DEF Raise, SessionAfterError
<1>2. /\ Running /\ request # Idle /\ request \in Requests /\ GoOn(Remaining, TRUE)
      /\ UNCHANGED <<adapter, found, committed, autocommit, stream, mixed>>
      /\ left' = left \cup IF Part = "cleanup" THEN LeftAltered ELSE {}
      /\ autocommit => session = committed
      /\ adapter \in {"postgresql", "db2"}
      /\ owed \in Database
  BY DEF Raise, Running, SessionTypes, ConnectionInv
<1>3. ~mixed => stream # "own"
  BY <1>2 DEF WorkInv, OwedInv
<1>4. /\ IdentityPhase
      /\ AllOrNone(committed, left)
      /\ request.call \notin SwitchCalls \/ adapter = "postgresql" =>
            AllOrNone(session, left \cup unsure.parts)
      /\ Unaltered => AsFound(committed, left) /\ AsFound(session, left \cup unsure.parts)
      /\ ~Unaltered => found = "always"
      /\ AlteredByCopy /\ ~autocommit => AsFound(committed, left)
      /\ AlteredByDB2 /\ todo.prepare # <<>> => AsFound(committed, left)
  BY <1>2 DEF WorkInv, CallInv, WholeInv
<1>5. /\ unsure.parts \subseteq Unsettled.parts
      /\ Part # "body" => "generated" \in Unsettled.parts
      /\ adapter = "db2" /\ request.call \in SwitchCalls => "disabled" \in Unsettled.parts
      /\ Unsettled.rows = unsure.rows \cup request.keys
  BY DEF Unsettled, Parts, SwitchCalls
<1>6. ~mixed' /\ ~aborted' => /\ ~mixed /\ ~aborted /\ ~undone
                              /\ session' = session /\ unsure' = Unsettled
  BY <1>1, <1>2
<1>7. AllOrNone(committed', left') /\ AllOrNone(session', left' \cup unsure'.parts)
  <2>1. AllOrNone(committed', left')
    BY <1>2, <1>4 DEF AllOrNone
  <2>2. CASE session = committed \/ undone
    BY <1>1, <1>2, <2>1, <2>2 DEF AllOrNone
  <2>3. CASE session # committed /\ ~undone
    <3>1. session' = session /\ unsure' = Unsettled /\ adapter = "db2"
      BY <1>1, <1>2, <2>3
    <3>2. CASE request.call \in SwitchCalls
      BY <1>5, <2>1, <3>1, <3>2 DEF AllOrNone
    <3>3. CASE request.call \notin SwitchCalls
      <4>1. AllOrNone(session, left \cup unsure.parts)
        BY <1>4, <3>3
      <4>2. left \cup unsure.parts \subseteq left' \cup unsure'.parts
        BY <1>2, <1>5, <3>1
      <4> QED
        BY <2>1, <3>1, <4>1, <4>2 DEF AllOrNone
    <3> QED
      BY <3>2, <3>3
  <2> QED
    BY <2>2, <2>3
<1>8. /\ Part \in {"prepare", "body", "cleanup"}
      /\ Part = "prepare" <=> todo.prepare # <<>>
      /\ Part = "body" => todo.prepare = <<>> /\ todo.body # <<>>
      /\ Part = "cleanup" => todo.prepare = <<>> /\ todo.body = <<>> /\ todo.cleanup # <<>>
      /\ Remaining.prepare = <<>> /\ Remaining.body = <<>>
      /\ Remaining.cleanup = IF Part = "body" THEN todo.cleanup ELSE <<>>
      /\ Remaining = NoStatements <=> Part # "body" \/ todo.cleanup = <<>>
  BY <1>2, FirstStatement, RemainingTypes, NothingLeft
<1>9. ~Unaltered => todo.cleanup # <<>>
  BY <1>2, StatementsStick
\* The call is over.
<1>10. CASE Remaining = NoStatements
  <2>1. request' = Idle /\ owed' = PutBack(request, owed)
    BY <1>2, <1>10 DEF GoOn
  <2>2. AsFound(committed', left')
    <3>1. CASE Unaltered
      BY <1>2, <1>4, <3>1 DEF AsFound
    <3>2. CASE ~Unaltered /\ Part = "prepare"
      <4>1. AlteredByDB2
        BY <1>4, <1>8, <3>2 DEF IdentityPhase, AlteredByCopy
      <4> QED
        BY <1>2, <1>4, <1>8, <3>2, <4>1 DEF AsFound
    <3>3. CASE ~Unaltered /\ Part = "cleanup"
      <4>1. CASE adapter = "db2" \/ autocommit
        BY <1>2, <3>3, <4>1 DEF AsFound, LeftAltered
      <4>2. CASE adapter # "db2" /\ ~autocommit
        <5>1. AlteredByCopy
          BY <1>4, <3>3, <4>2 DEF IdentityPhase, AlteredByDB2
        <5> QED
          BY <1>2, <1>4, <4>2, <5>1 DEF AsFound
      <4> QED
        BY <4>1, <4>2
    <3>4. ~Unaltered => Part # "body"
      BY <1>8, <1>9, <1>10
    <3> QED
      BY <1>8, <3>1, <3>2, <3>3, <3>4
  <2>3. AsFound(session', left' \cup unsure'.parts)
    <3>1. CASE undone \/ session = committed
      BY <1>1, <1>2, <2>2, <3>1 DEF AsFound
    <3>2. CASE ~undone /\ Part # "body"
      BY <1>1, <1>5, <3>2 DEF AsFound
    <3>3. CASE ~undone /\ Part = "body"
      <4>1. Unaltered
        BY <1>8, <1>9, <1>10, <3>3
      <4>2. /\ AsFound(session, left \cup unsure.parts) /\ session' = session
            /\ left \cup unsure.parts \subseteq left' \cup unsure'.parts
        BY <1>1, <1>2, <1>4, <1>5, <3>3, <4>1
      <4> QED
        BY <4>2 DEF AsFound
    <3> QED
      BY <3>1, <3>2, <3>3
  <2>4. ~mixed' /\ ~aborted' => Agrees(session, owed)'
    <3> SUFFICES ASSUME ~mixed', ~aborted'
                 PROVE  Agrees(session, owed)'
      OBVIOUS
    <3>1. /\ \A k \in Keys \ Unsettled.rows : session.rows[k] = owed.rows[k]
          /\ \/ "generated" \in Unsettled.parts
             \/ /\ Part = "body"
                /\ \/ Unaltered /\ session.generated = PutBack(request, owed).generated
                   \/ ~Unaltered /\ PutBack(request, owed).generated = "always"
          /\ session.disabled = owed.disabled \/ "disabled" \in Unsettled.parts
          /\ session.restart = owed.restart \/ "restart" \in Unsettled.parts
      BY <1>2, <1>6, RaisedHalfWay
    <3>2. "generated" \in Unsettled.parts \/ session.generated = owed'.generated
      BY <1>8, <1>9, <1>10, <2>1, <3>1
    <3>3. owed'.rows = owed.rows /\ owed'.disabled = owed.disabled
          /\ owed'.restart = owed.restart
      BY <1>2, <2>1, PutBackChanges
    <3>4. /\ \A k \in Keys \ Unsettled.rows : session.rows[k] = owed'.rows[k]
          /\ session.disabled = owed'.disabled \/ "disabled" \in Unsettled.parts
          /\ session.restart = owed'.restart \/ "restart" \in Unsettled.parts
      BY <3>1, <3>3
    <3>5. session' = session /\ unsure' = Unsettled
      BY <1>6
    <3> QED
      BY <3>2, <3>4, <3>5 DEF Agrees
  <2> QED
    BY <1>2, <1>3, <1>7, <2>1, <2>2, <2>3, <2>4, AtRest DEF Whole
\* The finally block goes on.
<1>11. CASE Remaining # NoStatements
  <2>1. Part = "body" /\ todo.cleanup # <<>> /\ ~Unaltered
    BY <1>8, <1>11 DEF Unaltered
  <2>2. /\ todo'.prepare = <<>> /\ todo'.body = <<>> /\ todo'.cleanup = todo.cleanup
        /\ request' = request /\ raising' = TRUE /\ owed' = owed
    BY <1>2, <1>8, <1>11, <2>1 DEF GoOn
  <2>3. /\ ~Unaltered'
        /\ AlteredByDB2' \/ AlteredByCopy'
        /\ request.call \in {"insert_batch", "bulk_load"}
    <3>1. ~Unaltered'
      BY <2>1, <2>2 DEF Unaltered
    <3>2. CASE AlteredByDB2
      <4>1. todo.cleanup = SetIdentityGenerated("always") /\ adapter = "db2"
            /\ request.call \in {"insert_batch", "bulk_load"}
        BY <1>8, <2>1, <3>2 DEF AlteredByDB2
      <4>2. AlteredByDB2'
        <5>1. NoAlters(todo'.body) /\ adapter' = "db2" /\ todo'.prepare = <<>>
              /\ request'.call \in {"insert_batch", "bulk_load"}
              /\ todo'.cleanup = SetIdentityGenerated("always")
          BY <1>2, <2>2, <4>1 DEF NoAlters
        <5> QED
          BY <5>1 DEF AlteredByDB2, NoAlters, SetIdentityGenerated, St, CommitSt
      <4> QED
        BY <3>1, <4>1, <4>2
    <3>3. CASE AlteredByCopy
      <4>1. AlteredByCopy'
        BY <1>2, <2>2, <3>3 DEF AlteredByCopy, St
      <4> QED
        BY <3>1, <3>3, <4>1 DEF AlteredByCopy
    <3> QED
      BY <1>4, <2>1, <3>2, <3>3 DEF IdentityPhase
  <2>4. CallInv'
    BY <2>2, <2>3 DEF CallInv, IdentityPhase, RowPhase, RowCalls, SwitchCalls
  <2>5. request.call \in RowCalls /\ request.call \notin SwitchCalls
        /\ request.call # "reset_identity"
    BY <2>3 DEF RowCalls, SwitchCalls
  <2>6. OwedInv'
    <3>1. ASSUME ~mixed', ~aborted'
          PROVE  OwedHalfWay'
      <4>1. /\ "generated" \in Unsettled.parts \/ PutBack(request, owed).generated = "always"
            /\ session.disabled = owed.disabled \/ "disabled" \in Unsettled.parts
            /\ session.restart = owed.restart \/ "restart" \in Unsettled.parts
            /\ \A k \in Keys \ Unsettled.rows :
                session.rows[k] = Promised(request, owed).rows[k]
        BY <1>2, <1>6, <2>1, <2>5, <3>1, RaisedHalfWay
      <4>2. session' = session /\ unsure' = Unsettled
        BY <1>6, <3>1
      <4>3. Promised(request, owed)' = Promised(request, owed)
            /\ PutBack(request, owed)' = PutBack(request, owed)
        BY <1>2, <2>2, <4>2 DEF Promised, PutBack
      <4>4. request.keys \subseteq Unsettled.rows
        BY <1>5
      <4> QED
        BY <2>2, <2>3, <2>5, <4>1, <4>2, <4>3, <4>4 DEF OwedHalfWay
    <3> QED
      BY <1>2, <1>3, <2>2, <3>1 DEF OwedInv
  <2>7. WholeInv'
    <3>1. AlteredByCopy' /\ ~autocommit' => AsFound(committed', left')
      <4> SUFFICES ASSUME AlteredByCopy', ~autocommit'
                   PROVE  AsFound(committed', left')
        OBVIOUS
      <4>1. adapter = "postgresql"
        BY <1>2 DEF AlteredByCopy
      <4>2. AlteredByCopy
        BY <1>4, <2>1, <4>1 DEF IdentityPhase, AlteredByDB2
      <4> QED
        BY <1>2, <1>4, <4>2 DEF AsFound
    <3>2. request' # Idle /\ found' = found /\ todo'.prepare = <<>>
      BY <1>2, <2>2
    <3> QED
      BY <1>4, <1>7, <2>1, <2>3, <3>1, <3>2 DEF WholeInv, AllOrNone, AsFound
  <2> QED
    BY <2>4, <2>6, <2>7 DEF WorkInv
<1> QED
  BY <1>10, <1>11

-------------------------------------------------------------------------------
(* A statement is executed.                                                 *)

\* What a call that ends leaves the caller with.
Owed == PutBack(request, IF raising THEN owed ELSE Promised(request, owed))

LEMMA Executed ==
    ASSUME SessionTypes, ConnectionInv, StatementsInv, WorkInv, Execute
    PROVE  /\ Running /\ request # Idle /\ request \in Requests
           /\ ~Refused(NextStatement) /\ NextStatement \in Statement
           /\ session' = After(NextStatement, session) /\ session' \in Database
           /\ committed' = IF autocommit \/ NextStatement.do \in {"commit", "load"}
                           THEN session' ELSE committed
           /\ UNCHANGED <<adapter, found, autocommit, aborted, stream, mixed, unsure>>
           /\ left \subseteq left'
           /\ Rest # NoStatements =>
                /\ request' = request /\ todo' = Rest /\ raising' = raising /\ owed' = owed
           /\ Rest = NoStatements => request' = Idle /\ owed' = Owed
           /\ ~mixed => stream # "own"
           /\ AllOrNone(committed', left')
           /\ todo.cleanup = <<>> => Whole(committed', left')
<1>1. Running /\ request # Idle /\ request \in Requests /\ NextStatement \in Statement
  BY FirstStatement DEF Execute, Running, SessionTypes
<1>2. /\ ~Refused(NextStatement)
      /\ session' = After(NextStatement, session) /\ session' \in Database
  BY <1>1, ContentTypes DEF Execute
<1>3. committed' = IF autocommit \/ NextStatement.do \in {"commit", "load"}
                   THEN session' ELSE committed
  BY DEF Execute, DurableAfter
<1>4. UNCHANGED <<adapter, found, autocommit, aborted, stream, mixed, unsure>>
  BY DEF Execute, connectionVars
<1>5. GoOn(Rest, raising)
  BY DEF Execute, Rest
<1>6. ~mixed => stream # "own"
  BY <1>1 DEF WorkInv, OwedInv
<1>7. /\ Rest # NoStatements =>
            /\ request' = request /\ todo' = Rest /\ raising' = raising /\ owed' = owed
      /\ Rest = NoStatements => request' = Idle /\ owed' = Owed
  BY <1>5 DEF GoOn, Owed, SessionTypes
<1>8. /\ committed' = DurableAfter(NextStatement)
      /\ left' = left \cup LeftBy(NextStatement)
  BY DEF Execute
<1>9. /\ AllOrNone(committed', left')
      /\ todo.cleanup = <<>> => Whole(committed', left')
  BY <1>1, <1>2, <1>8, DurableHalfWay
<1> QED
  BY <1>1, <1>2, <1>3, <1>4, <1>6, <1>7, <1>8, <1>9

\* A call returns: it has kept its promise, and the schema is whole.
LEMMA CallReturns ==
    ASSUME SessionTypes, ConnectionInv, StatementsInv, WorkInv, Execute, Rest = NoStatements,
           ~mixed /\ ~aborted => Agrees(session', Owed),
           Whole(committed', left'), Whole(session', left' \cup unsure.parts)
    PROVE  WorkInv'
<1>1. /\ request' = Idle /\ owed' = Owed
      /\ UNCHANGED <<found, stream, mixed, aborted, unsure>>
      /\ ~mixed => stream # "own"
  BY Executed
<1>2. ~mixed' /\ ~aborted' => Agrees(session, owed)'
  BY <1>1 DEF Agrees
<1> QED
  BY <1>1, <1>2, AtRest

\* What is owed in the end agrees with contents whose parts do.
LEMMA OwedInTheEnd ==
    ASSUME SessionTypes, Running, NEW db \in Database,
           \A k \in Keys \ unsure.rows :
                db.rows[k] = IF raising THEN owed.rows[k] ELSE Promised(request, owed).rows[k],
           \/ "generated" \in unsure.parts
           \/ db.generated = PutBack(request, owed).generated,
           "disabled" \in unsure.parts \/
                db.disabled = IF raising THEN owed.disabled ELSE Promised(request, owed).disabled,
           "restart" \in unsure.parts \/
                db.restart = IF raising THEN owed.restart ELSE Promised(request, owed).restart
    PROVE  Agrees(db, Owed)
<1> DEFINE promised == IF raising THEN owed ELSE Promised(request, owed)
<1>1. /\ request \in Requests /\ owed \in Database /\ raising \in BOOLEAN
  BY DEF SessionTypes, Running
<1>2. Promised(request, owed) \in Database /\ Promised(request, owed).generated = owed.generated
  BY <1>1, PromisedRows
<1>3. /\ promised \in Database /\ promised.generated = owed.generated
      /\ promised.rows = IF raising THEN owed.rows ELSE Promised(request, owed).rows
      /\ promised.disabled = IF raising THEN owed.disabled ELSE Promised(request, owed).disabled
      /\ promised.restart = IF raising THEN owed.restart ELSE Promised(request, owed).restart
  BY <1>1, <1>2
<1>4. Owed = PutBack(request, promised)
  BY DEF Owed
<1> HIDE DEF promised
<1>5. /\ Owed.generated = PutBack(request, owed).generated
      /\ Owed.rows = promised.rows /\ Owed.disabled = promised.disabled
      /\ Owed.restart = promised.restart
  BY <1>1, <1>3, <1>4, PutBackChanges, PutsBackAlike
<1>6. \A k \in Keys \ unsure.rows : db.rows[k] = Owed.rows[k]
  BY <1>3, <1>5
<1> QED
  BY <1>3, <1>5, <1>6 DEF Agrees

\* Keys of the rows that some statements write.
Written(statements) ==
    UNION {statements[i].arg :
            i \in {i \in DOMAIN statements : statements[i].do \in Writers(request.call)}}

LEMMA WrittenNow ==
    ASSUME NEW statements \in Seq(Statement), statements # <<>>, NEW k \in Written(statements)
    PROVE  \/ k \in statements[1].arg /\ statements[1].do \in Writers(request.call)
           \/ k \in Written(Tail(statements))
<1>1. PICK i \in DOMAIN statements :
        statements[i].do \in Writers(request.call) /\ k \in statements[i].arg
  BY DEF Written
<1>2. CASE i = 1
  BY <1>1, <1>2
<1>3. CASE i # 1
  <2>1. i - 1 \in DOMAIN Tail(statements) /\ Tail(statements)[i - 1] = statements[i]
    BY <1>1, <1>3, FirstAndOthers
  <2> QED
    BY <1>1, <2>1 DEF Written
<1> QED
  BY <1>2, <1>3

\* The rows a call has written are as it promises, the others as they were.
LEMMA RowsAreWritten ==
    ASSUME SessionTypes, Running, request.call \in RowCalls, RowPhase,
           Part = "body" \/ NextStatement.do \in {"commit", "alter"},
           NEW k \in Keys,
           \/ session.rows[k] = Promised(request, owed).rows[k]
           \/ k \in KeysLeft /\ session.rows[k] = owed.rows[k]
    PROVE  \/ After(NextStatement, session).rows[k] = Promised(request, owed).rows[k]
           \/ /\ k \in Written(Rest.body)
              /\ After(NextStatement, session).rows[k] = owed.rows[k]
<1> DEFINE s == NextStatement
           p == Promised(request, owed)
<1>1. /\ request \in Requests /\ owed \in Database /\ session \in Database
      /\ todo.body \in Seq(Statement) /\ s \in Statement
      /\ KeysLeft = Written(todo.body)
  BY FirstStatement DEF SessionTypes, Running, KeysLeft, Written
<1>2. p.rows[k] = IF k \notin request.keys THEN owed.rows[k]
                  ELSE IF request.call \in {"insert_batch", "bulk_load"} THEN "inserted"
                  ELSE IF request.call = "update_batch" /\ owed.rows[k] # "none" THEN "updated"
                  ELSE IF request.call = "delete_batch" THEN "none" ELSE owed.rows[k]
  BY <1>1, PromisedRows
<1>3. After(s, session).rows[k] =
                IF s.do \in {"insert", "override", "copy", "load"} /\ k \in s.arg
                THEN "inserted"
                ELSE IF s.do = "update" /\ k \in s.arg /\ session.rows[k] # "none"
                THEN "updated"
                ELSE IF s.do = "delete" /\ k \in s.arg THEN "none" ELSE session.rows[k]
  BY <1>1, Effects, ZenonT(60)
<1> HIDE DEF s, p
<1>4. CASE s.do \in {"commit", "alter"}
  <2>1. After(s, session).rows[k] = session.rows[k]
    BY <1>3, <1>4
  <2>2. k \in Written(todo.body) => k \in Written(Rest.body)
    <3>1. Rest.body = todo.body \/ (Part = "body" /\ Rest.body = Tail(todo.body))
      BY FirstStatement
    <3>2. CASE Part = "body" /\ Rest.body = Tail(todo.body)
      <4>1. todo.body # <<>> /\ todo.body[1] = s
        BY <3>2, FirstStatement DEF s
      <4>2. s.do \notin Writers(request.call)
        BY <1>4 DEF Writers, RowCalls
      <4> QED
        BY <1>1, <3>2, <4>1, <4>2, WrittenNow
    <3> QED
      BY <3>1, <3>2
  <2> QED
    BY <1>1, <2>1, <2>2 DEF s, p
<1>5. CASE s.do \notin {"commit", "alter"}
  <2>1. Part = "body" /\ todo.body # <<>> /\ todo.body[1] = s /\ Rest.body = Tail(todo.body)
    BY <1>5, FirstStatement DEF s
  <2>2. s.do \in Writers(request.call) /\ s.arg \subseteq request.keys
    BY <1>1, <1>5, <2>1, FirstAndOthers DEF RowPhase
  <2>3. CASE k \in s.arg
    <3>1. After(s, session).rows[k] = p.rows[k]
      BY <1>2, <1>3, <2>2, <2>3 DEF RowCalls, Writers, p
    <3> QED
      BY <3>1 DEF s, p
  <2>4. CASE k \notin s.arg
    <3>1. After(s, session).rows[k] = session.rows[k]
      BY <1>3, <2>4
    <3>2. k \in Written(todo.body) => k \in Written(Rest.body)
      BY <1>1, <2>1, <2>4, WrittenNow
    <3> QED
      BY <1>1, <3>1, <3>2 DEF s, p
  <2> QED
    BY <2>3, <2>4
<1> QED
  BY <1>4, <1>5

\* What a statement of a call that writes rows changes, and what it leaves.
LEMMA RowCallTakes ==
    ASSUME SessionTypes, ConnectionInv, StatementsInv, WorkInv, Execute,
           request.call \in RowCalls
    PROVE  /\ session'.disabled = session.disabled /\ session'.restart = session.restart
           /\ session'.generated =
                IF NextStatement.do = "alter" THEN NextStatement.arg ELSE session.generated
           /\ ~mixed /\ ~aborted => \A k \in Keys \ unsure.rows :
                \/ session'.rows[k] = Promised(request, owed).rows[k]
                \/ k \in Written(Rest.body) /\ session'.rows[k] = owed.rows[k]
           /\ \A i \in DOMAIN Rest.body :
                \/ Rest.body[i].do \in {"commit", "alter"}
                \/ /\ Rest.body[i].do \in Writers(request.call)
                   /\ Rest.body[i].arg \subseteq request.keys
           /\ NoAlters(todo.body) => NoAlters(Rest.body)
           /\ NoAlters(todo.body) /\ Part = "body" => NextStatement.do # "alter"
<1>1. /\ Running /\ request # Idle /\ session \in Database /\ todo.body \in Seq(Statement)
      /\ NextStatement \in Statement /\ session' = After(NextStatement, session)
  BY Executed DEF SessionTypes
<1>2. IdentityPhase /\ RowPhase
  BY <1>1 DEF WorkInv, CallInv
<1>3. Part = "body" \/ NextStatement.do \in {"commit", "alter"}
  BY <1>1, <1>2, AroundTheTryBlock
<1>4. Part = "body" => /\ todo.body # <<>> /\ NextStatement = todo.body[1]
                       /\ 1 \in DOMAIN todo.body /\ Rest.body = Tail(todo.body)
  BY <1>1, FirstStatement, FirstAndOthers
<1>5. Part # "body" => Rest.body = todo.body
  BY <1>1, FirstStatement
<1>6. NextStatement.do \in Writers(request.call) \cup {"commit", "alter"}
  BY <1>2, <1>3, <1>4 DEF RowPhase
<1>7. NextStatement.do \notin {"disable", "enable", "restart"}
  BY <1>6 DEF Writers, RowCalls
<1>8. /\ session'.disabled = session.disabled /\ session'.restart = session.restart
      /\ session'.generated =
                IF NextStatement.do = "alter" THEN NextStatement.arg ELSE session.generated
  BY <1>1, <1>7, Effects
<1>9. ASSUME ~mixed, ~aborted, NEW k \in Keys \ unsure.rows
      PROVE  \/ session'.rows[k] = Promised(request, owed).rows[k]
             \/ k \in Written(Rest.body) /\ session'.rows[k] = owed.rows[k]
  <2>1. \/ session.rows[k] = Promised(request, owed).rows[k]
        \/ k \in KeysLeft /\ session.rows[k] = owed.rows[k]
    BY <1>1, <1>9 DEF WorkInv, OwedInv, OwedHalfWay
  <2> QED
    BY <1>1, <1>2, <1>3, <2>1, RowsAreWritten
<1>10. ASSUME NEW i \in DOMAIN Rest.body
       PROVE  \E j \in DOMAIN todo.body : Rest.body[i] = todo.body[j]
  <2>1. CASE Part = "body"
    <3>1. /\ todo.body \in Seq(Statement) /\ todo.body # <<>>
          /\ Rest.body = Tail(todo.body) /\ i \in DOMAIN Tail(todo.body)
      BY <1>1, <1>4, <2>1
    <3>2. i + 1 \in DOMAIN todo.body /\ Tail(todo.body)[i] = todo.body[i + 1]
      BY <3>1, FirstAndOthers
    <3> QED
      BY <3>1, <3>2
  <2>2. CASE Part # "body"
    BY <1>5, <2>2
  <2> QED
    BY <2>1, <2>2
<1>11. /\ \A i \in DOMAIN Rest.body :
            \/ Rest.body[i].do \in {"commit", "alter"}
            \/ /\ Rest.body[i].do \in Writers(request.call)
               /\ Rest.body[i].arg \subseteq request.keys
       /\ NoAlters(todo.body) => NoAlters(Rest.body)
       /\ NoAlters(todo.body) /\ Part = "body" => NextStatement.do # "alter"
  BY <1>2, <1>4, <1>10 DEF RowPhase, NoAlters
<1> QED
  BY <1>8, <1>9, <1>11

\* A call that has written all its rows, and whose column is as it promises, has
\* kept its promise.
LEMMA RowCallReturns ==
    ASSUME SessionTypes, ConnectionInv, StatementsInv, WorkInv, Execute,
           request.call \in RowCalls, Rest = NoStatements,
           ~mixed /\ ~aborted =>
                \/ "generated" \in unsure.parts
                \/ session'.generated = PutBack(request, owed).generated,
           AsFound(committed', left'), AsFound(session', left' \cup unsure.parts)
    PROVE  WorkInv'
<1>1. /\ request \in Requests /\ request # Idle /\ owed \in Database /\ session' \in Database
      /\ request.call \notin SwitchCalls /\ request.call # "reset_identity"
      /\ Running /\ left \subseteq left' /\ AllOrNone(committed', left')
  BY Executed DEF SessionTypes, RowCalls, SwitchCalls
<1>2. ASSUME ~mixed, ~aborted
      PROVE  Agrees(session', Owed)
  <2>1. Rest.body = <<>> /\ Written(<<>>) = {}
    BY PartsOfCalls DEF Written
  <2>2. OwedHalfWay
    BY <1>1, <1>2 DEF WorkInv, OwedInv
  <2>3. \A k \in Keys \ unsure.rows : session'.rows[k] = Promised(request, owed).rows[k]
    BY <1>2, <2>1, RowCallTakes
  <2>4. ASSUME raising, NEW k \in Keys \ unsure.rows
        PROVE  Promised(request, owed).rows[k] = owed.rows[k]
    <3>1. k \notin request.keys
      BY <2>2, <2>4 DEF OwedHalfWay
    <3> QED
      BY <1>1, <2>4, <3>1, PromisedRows
  <2>5. /\ session'.disabled = owed.disabled \/ "disabled" \in unsure.parts
        /\ session'.restart = owed.restart \/ "restart" \in unsure.parts
    BY <1>1, <2>2, RowCallTakes DEF OwedHalfWay
  <2>6. /\ Promised(request, owed).disabled = owed.disabled
        /\ Promised(request, owed).restart = owed.restart
    BY <1>1, PromisedRows DEF SwitchCalls
  <2>7. \A k \in Keys \ unsure.rows : session'.rows[k] =
            IF raising THEN owed.rows[k] ELSE Promised(request, owed).rows[k]
    BY <2>3, <2>4
  <2> QED
    BY <1>1, <1>2, <2>5, <2>6, <2>7, OwedInTheEnd
<1>3. AllOrNone(session', left' \cup unsure.parts)
  <2>1. session'.disabled = session.disabled /\ AllOrNone(session, left \cup unsure.parts)
    BY <1>1, RowCallTakes DEF WorkInv, WholeInv
  <2> QED
    BY <1>1, <2>1 DEF AllOrNone
<1> QED
  BY <1>1, <1>2, <1>3, CallReturns DEF Whole

\* A call that goes on still owes the rows it has not written.
LEMMA RowCallGoesOn ==
    ASSUME SessionTypes, ConnectionInv, StatementsInv, WorkInv, Execute,
           request.call \in RowCalls, Rest # NoStatements, IdentityPhase',
           ~mixed /\ ~aborted =>
                \/ "generated" \in unsure.parts
                \/ Unaltered' /\ session'.generated = PutBack(request, owed).generated
                \/ ~Unaltered' /\ PutBack(request, owed).generated = "always",
           Unaltered' => AsFound(committed', left') /\ AsFound(session', left' \cup unsure.parts),
           ~Unaltered' => found = "always",
           AlteredByCopy' /\ ~autocommit => AsFound(committed', left'),
           AlteredByDB2' /\ Rest.prepare # <<>> => AsFound(committed', left')
    PROVE  WorkInv'
<1>1. /\ request' = request /\ todo' = Rest /\ raising' = raising /\ owed' = owed
      /\ UNCHANGED <<adapter, found, autocommit, aborted, stream, mixed, unsure>>
      /\ request \in Requests /\ request # Idle
      /\ ~mixed => stream # "own"
      /\ request.call \notin SwitchCalls /\ request.call # "reset_identity"
      /\ request.call # "bulk_load_cli"
      /\ left \subseteq left' /\ AllOrNone(committed', left')
  BY Executed DEF RowCalls, SwitchCalls
<1>2. RowPhase'
  BY <1>1, RowCallTakes DEF RowPhase
<1>3. CallInv'
  BY <1>1, <1>2 DEF CallInv
<1>4. OwedInv'
  <2>1. ASSUME ~mixed', ~aborted'
        PROVE  OwedHalfWay'
    <3>1. OwedHalfWay /\ ~mixed /\ ~aborted
      BY <1>1, <2>1 DEF WorkInv, OwedInv
    <3>2. KeysLeft' = Written(Rest.body)
      BY <1>1 DEF KeysLeft, Written
    <3>3. PutBack(request, owed)' = PutBack(request, owed)
      BY <1>1 DEF PutBack
    <3>4. Promised(request, owed)' = Promised(request, owed)
      BY <1>1 DEF Promised, RowCalls
    <3>5. \A k \in Keys \ unsure.rows :
            \/ session'.rows[k] = Promised(request, owed).rows[k]
            \/ k \in Written(Rest.body) /\ session'.rows[k] = owed.rows[k]
      BY <3>1, RowCallTakes
    <3>6. /\ session'.disabled = owed.disabled \/ "disabled" \in unsure.parts
          /\ session'.restart = owed.restart \/ "restart" \in unsure.parts
          /\ raising => request.keys \subseteq unsure.rows
      BY <1>1, <3>1, RowCallTakes DEF OwedHalfWay
    <3>7. \/ "generated" \in unsure.parts
          \/ Unaltered' /\ session'.generated = PutBack(request, owed).generated
          \/ ~Unaltered' /\ PutBack(request, owed).generated = "always"
      BY <3>1
    <3> QED
      BY <1>1, <3>2, <3>3, <3>4, <3>5, <3>6, <3>7 DEF OwedHalfWay
  <2> QED
    BY <1>1, <2>1 DEF OwedInv
<1>5. WholeInv'
  <2>1. session'.disabled = session.disabled /\ AllOrNone(session, left \cup unsure.parts)
    BY <1>1, RowCallTakes DEF WorkInv, WholeInv
  <2>2. AllOrNone(session', left' \cup unsure'.parts)
    BY <1>1, <2>1 DEF AllOrNone
  <2> QED
    BY <1>1, <2>2 DEF WholeInv, AllOrNone, AsFound
<1> QED
  BY <1>3, <1>4, <1>5 DEF WorkInv

LEMMA UnalteredRowsGoOn ==
    ASSUME SessionTypes, ConnectionInv, StatementsInv, WorkInv, Execute,
           request.call \in RowCalls, Unaltered
    PROVE  WorkInv'
<1>1. /\ Running /\ request # Idle /\ UNCHANGED <<found, unsure, mixed>>
      /\ request.call \notin SwitchCalls
      /\ Rest \in Todo /\ left \subseteq left'
      /\ todo.cleanup = <<>> /\ Whole(committed', left')
  BY Executed, FirstStatement DEF RowCalls, SwitchCalls, Unaltered
<1>2. Part = "body"
  BY <1>1, FirstStatement, NothingLeft DEF Unaltered, SessionTypes, Todo, Running
<1>3. session'.generated = session.generated /\ NoAlters(Rest.body)
  BY <1>2, RowCallTakes DEF Unaltered
<1>4. Rest.prepare = <<>> /\ Rest.cleanup = <<>>
  BY <1>1, <1>2, FirstStatement DEF Unaltered
<1>5. AsFound(session, left \cup unsure.parts)
  BY <1>1 DEF WorkInv, WholeInv
<1>6. AsFound(committed', left') /\ AsFound(session', left' \cup unsure.parts)
  BY <1>1, <1>3, <1>5 DEF Whole, AsFound
<1>7. ~mixed /\ ~aborted => \/ "generated" \in unsure.parts
                            \/ session'.generated = PutBack(request, owed).generated
  BY <1>1, <1>3 DEF WorkInv, OwedInv, OwedHalfWay
<1>8. CASE Rest = NoStatements
  BY <1>6, <1>7, <1>8, RowCallReturns
<1>9. CASE Rest # NoStatements
  <2>1. todo' = Rest /\ Unaltered'
    <3>1. todo' = Rest
      BY <1>9, Executed
    <3>2. todo'.prepare = <<>> /\ NoAlters(todo'.body) /\ todo'.cleanup = <<>>
      BY <1>3, <1>4, <3>1
    <3> QED
      BY <3>1, <3>2 DEF Unaltered, NoAlters
  <2>2. IdentityPhase'
    BY <2>1 DEF IdentityPhase
  <2> QED
    BY <1>4, <1>6, <1>7, <1>9, <2>1, <2>2, RowCallGoesOn
<1> QED
  BY <1>8, <1>9

LEMMA RowsUnderDB2sOverride ==
    ASSUME SessionTypes, ConnectionInv, StatementsInv, WorkInv, Execute,
           AlteredByDB2, ~Unaltered
    PROVE  WorkInv'
<1>1. /\ Running /\ request # Idle /\ request \in Requests
      /\ UNCHANGED <<adapter, found, unsure, mixed>>
      /\ committed' = IF NextStatement.do \in {"commit", "load"} THEN session' ELSE committed
      /\ request.call \notin SwitchCalls /\ request.call \in RowCalls
      /\ Rest \in Todo /\ adapter = "db2" /\ left \subseteq left'
  BY Executed, FirstStatement DEF RowCalls, SwitchCalls, AlteredByDB2, ConnectionInv
<1>2. /\ session'.generated =
            IF NextStatement.do = "alter" THEN NextStatement.arg ELSE session.generated
      /\ NoAlters(Rest.body)
      /\ Part = "body" => NextStatement.do # "alter"
  BY <1>1, RowCallTakes DEF AlteredByDB2
<1>3. found = "always" /\ (todo.prepare # <<>> => AsFound(committed, left))
  BY <1>1 DEF WorkInv, WholeInv
<1>4. ~mixed /\ ~aborted => \/ "generated" \in unsure.parts
                            \/ PutBack(request, owed).generated = "always"
  BY <1>1 DEF WorkInv, OwedInv, OwedHalfWay
<1>5. \A mode \in Generated :
        /\ SetIdentityGenerated(mode) # <<>>
        /\ SetIdentityGenerated(mode)[1] = St("alter", mode)
        /\ Tail(SetIdentityGenerated(mode)) = <<CommitSt>>
  BY TwoStatements DEF SetIdentityGenerated
<1>6. <<CommitSt>> # <<>> /\ <<CommitSt>>[1] = CommitSt /\ Tail(<<CommitSt>>) = <<>>
  BY OneStatement
<1>7. /\ NextStatement = todo[Part][1] /\ Part \in {"prepare", "body", "cleanup"}
      /\ Part = "prepare" <=> todo.prepare # <<>>
      /\ Part = "body" => todo.prepare = <<>> /\ todo.body # <<>>
      /\ Part = "cleanup" => todo.prepare = <<>> /\ todo.body = <<>>
      /\ Rest.prepare = IF Part = "prepare" THEN Tail(todo.prepare) ELSE todo.prepare
      /\ Rest.body = IF Part = "body" THEN Tail(todo.body) ELSE todo.body
      /\ Rest.cleanup = IF Part = "cleanup" THEN Tail(todo.cleanup) ELSE todo.cleanup
  BY <1>1, FirstStatement
<1>8. "always" \in Generated /\ "by_default" \in Generated
      /\ \A mode : St("alter", mode).do = "alter" /\ St("alter", mode).arg = mode
      /\ CommitSt.do = "commit"
  BY StatementTypes DEF Generated
\* The call goes on between the two ALTER TABLEs.
<1>9. ASSUME Rest # NoStatements, Rest.cleanup # <<>>,
             \/ /\ Rest.prepare \in {<<CommitSt>>, <<>>}
                /\ Rest.cleanup = SetIdentityGenerated("always")
             \/ /\ Rest.prepare = <<>> /\ Rest.body = <<>>
                /\ Rest.cleanup = <<CommitSt>>
                /\ session'.generated = "always",
             Rest.prepare # <<>> => committed' = committed /\ todo.prepare # <<>>
      PROVE  WorkInv'
  <2>1. todo' = Rest /\ request' = request
    BY <1>9, Executed
  <2>2. ~Unaltered'
    BY <1>9, <2>1 DEF Unaltered
  <2>3. AlteredByDB2'
    BY <1>1, <1>2, <1>9, <2>1 DEF AlteredByDB2, NoAlters, SetIdentityGenerated, St, CommitSt
  <2>4. ~AlteredByCopy'
    BY <1>1 DEF AlteredByCopy
  <2>5. Rest.prepare # <<>> => AsFound(committed', left')
    BY <1>1, <1>3, <1>9 DEF AsFound
  <2> QED
    BY <1>1, <1>3, <1>4, <1>9, <2>2, <2>3, <2>4, <2>5, RowCallGoesOn DEF IdentityPhase
<1>10. CASE Part = "prepare"
  <2>1. CASE /\ todo.prepare = SetIdentityGenerated("by_default")
             /\ todo.cleanup = SetIdentityGenerated("always")
    <3>1. NextStatement = St("alter", "by_default") /\ Rest.prepare = <<CommitSt>>
          /\ Rest.cleanup = SetIdentityGenerated("always")
      BY <1>5, <1>7, <1>8, <1>10, <2>1
    <3>2. committed' = committed
      BY <1>1, <1>2, <1>8, <3>1
    <3> QED
      BY <1>5, <1>6, <1>7, <1>8, <1>9, <1>10, <3>1, <3>2, PartsOfCalls
  <2>2. CASE /\ todo.prepare = <<CommitSt>>
             /\ todo.cleanup = SetIdentityGenerated("always")
    <3>1. NextStatement = CommitSt /\ Rest.prepare = <<>>
          /\ Rest.cleanup = SetIdentityGenerated("always")
      BY <1>6, <1>7, <1>10, <2>2
    <3> QED
      BY <1>5, <1>8, <1>9, <3>1, PartsOfCalls
  <2> QED
    BY <1>7, <1>10, <2>1, <2>2 DEF AlteredByDB2
<1>11. CASE Part = "body"
  <2>1. /\ todo.prepare = <<>> /\ todo.body # <<>>
        /\ todo.cleanup = SetIdentityGenerated("always")
    BY <1>5, <1>6, <1>7, <1>8, <1>11 DEF AlteredByDB2
  <2>2. Rest.prepare = <<>> /\ Rest.cleanup = SetIdentityGenerated("always")
    BY <1>7, <1>11, <2>1
  <2> QED
    BY <1>5, <1>8, <1>9, <2>2, PartsOfCalls
<1>12. CASE Part = "cleanup"
  <2>1. CASE todo.cleanup = SetIdentityGenerated("always")
    <3>1. NextStatement = St("alter", "always") /\ Rest.cleanup = <<CommitSt>>
          /\ Rest.prepare = <<>> /\ Rest.body = <<>>
      BY <1>5, <1>7, <1>8, <1>12, <2>1
    <3>2. session'.generated = "always"
      BY <1>2, <1>8, <3>1
    <3> QED
      BY <1>6, <1>9, <3>1, <3>2, PartsOfCalls
  <2>2. CASE todo.cleanup = <<CommitSt>> /\ session.generated = "always"
    <3>1. NextStatement = CommitSt /\ Rest.prepare = <<>> /\ Rest.body = <<>>
          /\ Rest.cleanup = <<>>
      BY <1>6, <1>7, <1>12, <2>2
    <3>2. Rest = NoStatements
      BY <1>1, <3>1, NothingLeft
    <3>3. session'.generated = "always" /\ committed' = session'
      BY <1>1, <1>2, <1>8, <2>2, <3>1
    <3>4. AsFound(committed', left') /\ AsFound(session', left' \cup unsure.parts)
      BY <1>1, <1>3, <3>3 DEF AsFound
    <3> QED
      BY <1>1, <1>4, <3>2, <3>3, <3>4, RowCallReturns
  <2> QED
    BY <1>7, <1>12, <2>1, <2>2 DEF AlteredByDB2
<1> QED
  BY <1>7, <1>10, <1>11, <1>12

LEMMA RowsUnderCopysOverride ==
    ASSUME SessionTypes, ConnectionInv, StatementsInv, WorkInv, Execute,
           AlteredByCopy, ~Unaltered
    PROVE  WorkInv'
<1>1. /\ Running /\ request # Idle /\ request \in Requests
      /\ UNCHANGED <<adapter, found, unsure, mixed, autocommit>>
      /\ committed' = IF autocommit \/ NextStatement.do \in {"commit", "load"}
                      THEN session' ELSE committed
      /\ request.call \notin SwitchCalls /\ request.call \in RowCalls
      /\ Rest \in Todo /\ adapter = "postgresql" /\ left \subseteq left'
  BY Executed, FirstStatement DEF RowCalls, SwitchCalls, AlteredByCopy
<1>2. session'.generated =
            IF NextStatement.do = "alter" THEN NextStatement.arg ELSE session.generated
  BY <1>1, RowCallTakes
<1>3. found = "always" /\ (~autocommit => AsFound(committed, left))
  BY <1>1 DEF WorkInv, WholeInv
<1>4. ~mixed /\ ~aborted => \/ "generated" \in unsure.parts
                            \/ PutBack(request, owed).generated = "always"
  BY <1>1 DEF WorkInv, OwedInv, OwedHalfWay
<1>5. /\ NextStatement = todo[Part][1] /\ Part \in {"prepare", "body", "cleanup"}
      /\ Part = "prepare" <=> todo.prepare # <<>>
      /\ Part = "body" => todo.prepare = <<>> /\ todo.body # <<>>
      /\ Part = "cleanup" => todo.prepare = <<>> /\ todo.body = <<>>
      /\ Rest.prepare = IF Part = "prepare" THEN Tail(todo.prepare) ELSE todo.prepare
      /\ Rest.body = IF Part = "body" THEN Tail(todo.body) ELSE todo.body
      /\ Rest.cleanup = IF Part = "cleanup" THEN Tail(todo.cleanup) ELSE todo.cleanup
  BY <1>1, FirstStatement
<1>6. \A do, arg : St(do, arg).do = do /\ St(do, arg).arg = arg
  BY StatementTypes
<1>7. todo.prepare = <<>> /\ todo.cleanup = <<St("alter", "always")>>
  BY DEF AlteredByCopy
\* The call goes on within the try block, or to the finally block.
<1>9. ASSUME Part = "body", NextStatement.do \in {"alter", "copy"},
             Rest.body \in {<<St("copy", request.keys)>>, <<>>}
      PROVE  WorkInv'
  <2>1. Rest.prepare = <<>> /\ Rest.cleanup = <<St("alter", "always")>> /\ Rest.cleanup # <<>>
    BY <1>5, <1>7, <1>9
  <2>2. Rest # NoStatements
    BY <2>1, PartsOfCalls
  <2>3. todo' = Rest /\ request' = request /\ raising' = raising
    BY <2>2, Executed
  <2>4. ~Unaltered'
    BY <2>1, <2>3 DEF Unaltered
  <2>5. AlteredByCopy'
    BY <1>1, <1>9, <2>1, <2>3 DEF AlteredByCopy, St
  <2>6. ~AlteredByDB2'
    BY <1>1 DEF AlteredByDB2
  <2>7. ~autocommit => AsFound(committed', left')
    BY <1>1, <1>3, <1>9 DEF AsFound
  <2> QED
    BY <1>1, <1>3, <1>4, <2>2, <2>4, <2>5, <2>6, <2>7, RowCallGoesOn DEF IdentityPhase
<1>10. CASE todo.body = <<St("alter", "by_default"), St("copy", request.keys)>>
  <2>1. Part = "body"
    BY <1>5, <1>7, <1>10
  <2>2. NextStatement = St("alter", "by_default") /\ Rest.body = <<St("copy", request.keys)>>
    BY <1>5, <1>10, <2>1, TwoStatements
  <2> QED
    BY <1>6, <1>9, <2>1, <2>2
<1>11. CASE todo.body = <<St("copy", request.keys)>>
  <2>1. Part = "body"
    BY <1>5, <1>7, <1>11
  <2>2. NextStatement = St("copy", request.keys) /\ Rest.body = <<>>
    BY <1>5, <1>11, <2>1, OneStatement
  <2> QED
    BY <1>6, <1>9, <2>1, <2>2
<1>12. CASE todo.body = <<>>
  <2>1. Part = "cleanup"
    BY <1>5, <1>7, <1>12
  <2>2. NextStatement = St("alter", "always") /\ Rest.cleanup = <<>>
    BY <1>5, <1>7, <2>1, OneStatement
  <2>3. Rest = NoStatements
    BY <1>1, <1>5, <1>7, <1>12, <2>1, <2>2, NothingLeft
  <2>4. session'.generated = "always" /\ NextStatement.do = "alter"
    BY <1>2, <1>6, <2>2
  <2>5. AsFound(committed', left') /\ AsFound(session', left' \cup unsure.parts)
    BY <1>1, <1>3, <2>4 DEF AsFound
  <2> QED
    BY <1>1, <1>4, <2>3, <2>4, <2>5, RowCallReturns
<1> QED
  BY <1>10, <1>11, <1>12 DEF AlteredByCopy

LEMMA SwitchesGoOn ==
    ASSUME SessionTypes, ConnectionInv, StatementsInv, WorkInv, Execute,
           request.call \in SwitchCalls
    PROVE  WorkInv'
<1> DEFINE s == NextStatement
<1>1. /\ Running /\ request # Idle /\ request \in Requests /\ s \in Statement
      /\ UNCHANGED <<adapter, found, unsure, mixed, aborted, autocommit, stream>>
      /\ session' = After(s, session) /\ session' \in Database
      /\ committed' = IF autocommit \/ s.do \in {"commit", "load"} THEN session' ELSE committed
      /\ request.call \notin RowCalls /\ request.call # "reset_identity"
      /\ request.call # "bulk_load_cli"
      /\ Rest \in Todo
      /\ session \in Database /\ owed \in Database
      /\ ~mixed => stream # "own"
      /\ left \subseteq left' /\ AllOrNone(committed', left')
      /\ todo.cleanup = <<>> => Whole(committed', left')
  BY Executed, FirstStatement DEF RowCalls, SwitchCalls, SessionTypes
<1>2. SwitchPhase /\ Unaltered /\ ~raising /\ todo.cleanup = <<>>
  BY <1>1 DEF WorkInv, CallInv, SwitchPhase, Unaltered
<1>3. /\ Part = "body" /\ s = todo.body[1] /\ 1 \in DOMAIN todo.body
      /\ Rest.body = Tail(todo.body) /\ Rest.prepare = <<>> /\ Rest.cleanup = <<>>
      /\ Len(Rest.body) = Len(todo.body) - 1 /\ Len(todo.body) \in Nat
      /\ \A i \in DOMAIN Rest.body :
            i + 1 \in DOMAIN todo.body /\ Rest.body[i] = todo.body[i + 1]
      /\ Rest.body \in Seq(Statement)
      /\ \/ s = CommitSt /\ Len(todo.body) = 1
         \/ s.do = SwitchTo /\ s.arg \subseteq Triggers
      /\ SwitchTo \in {"disable", "enable"} /\ CommitSt.do = "commit"
      /\ session'.generated = session.generated /\ session'.restart = session.restart
      /\ session'.rows = session.rows
      /\ \A t \in Triggers \ SwitchedBy(Rest.body) :
            t \in session'.disabled <=> SwitchTo = "disable"
      /\ Rest.body = <<>> =>
            session'.disabled = IF SwitchTo = "disable" THEN Triggers ELSE {}
  <2>1. PICK after \in Database : after = session'
    BY <1>1
  <2>2. after = After(NextStatement, session)
    BY <1>1, <2>1
  <2> HIDE DEF s
  <2>3. /\ Part = "body" /\ NextStatement = todo.body[1] /\ 1 \in DOMAIN todo.body
        /\ Rest.body = Tail(todo.body) /\ Rest.prepare = <<>> /\ Rest.cleanup = <<>>
        /\ Len(Rest.body) = Len(todo.body) - 1 /\ Len(todo.body) \in Nat
        /\ \A i \in DOMAIN Rest.body :
              i + 1 \in DOMAIN todo.body /\ Rest.body[i] = todo.body[i + 1]
        /\ Rest.body \in Seq(Statement)
        /\ \/ NextStatement = CommitSt /\ Len(todo.body) = 1
           \/ NextStatement.do = SwitchTo /\ NextStatement.arg \subseteq Triggers
        /\ SwitchTo \in {"disable", "enable"} /\ CommitSt.do = "commit"
        /\ after.generated = session.generated /\ after.restart = session.restart
        /\ after.rows = session.rows
        /\ \A t \in Triggers \ SwitchedBy(Rest.body) :
              t \in after.disabled <=> SwitchTo = "disable"
        /\ Rest.body = <<>> =>
              after.disabled = IF SwitchTo = "disable" THEN Triggers ELSE {}
    BY <1>1, <1>2, <2>2, SwitchTakes
  <2> QED
    BY <2>1, <2>3 DEF s
<1> HIDE DEF s
<1>4. AsFound(session, left \cup unsure.parts)
  BY <1>1, <1>2 DEF WorkInv, WholeInv
<1>5. /\ Whole(committed', left')
      /\ AsFound(session', left' \cup unsure.parts)
  BY <1>1, <1>2, <1>3, <1>4 DEF AsFound
<1>6. ~mixed /\ ~aborted => OwedHalfWay
  BY <1>1 DEF WorkInv, OwedInv
<1>7. PutBack(request, owed) = owed
  <2>1. ~PutsBack(request)
    BY <1>1, RequestTypes DEF PutsBack, SwitchCalls
  <2> QED
    BY <1>1, <2>1, PutBackChanges
<1>8. CASE Rest = NoStatements
  <2>1. session'.disabled = IF SwitchTo = "disable" THEN Triggers ELSE {}
    BY <1>3, <1>8, PartsOfCalls
  <2>2. Whole(session', left' \cup unsure.parts)
    BY <1>5, <2>1 DEF Whole, AllOrNone
  <2>3. ASSUME ~mixed, ~aborted
        PROVE  Agrees(session', Owed)
    <3>1. /\ \A k \in Keys \ unsure.rows : session.rows[k] = owed.rows[k]
          /\ session.restart = owed.restart \/ "restart" \in unsure.parts
          /\ session.generated = PutBack(request, owed).generated
                \/ "generated" \in unsure.parts
      BY <1>1, <1>2, <1>6, <2>3 DEF OwedHalfWay
    <3>2. owed.disabled \subseteq Triggers
      BY <1>1 DEF Database
    <3>3. /\ Promised(request, owed).disabled =
                IF request.call = "disable_triggers" THEN owed.disabled \cup Triggers
                ELSE IF request.call = "enable_triggers" THEN owed.disabled \ Triggers
                ELSE owed.disabled
          /\ Promised(request, owed).restart = owed.restart
          /\ \A k \in Keys : Promised(request, owed).rows[k] = owed.rows[k]
      BY <1>1, PromisedRows
    <3>4. Promised(request, owed).disabled = session'.disabled
      BY <2>1, <3>2, <3>3 DEF SwitchTo, SwitchCalls
    <3>5. /\ \A k \in Keys \ unsure.rows : session'.rows[k] =
                IF raising THEN owed.rows[k] ELSE Promised(request, owed).rows[k]
          /\ "generated" \in unsure.parts \/ session'.generated = PutBack(request, owed).generated
      BY <1>2, <1>3, <3>1, <3>3
    <3>6. /\ session'.disabled =
                IF raising THEN owed.disabled ELSE Promised(request, owed).disabled
          /\ "restart" \in unsure.parts \/ session'.restart =
                IF raising THEN owed.restart ELSE Promised(request, owed).restart
      BY <1>2, <1>3, <3>1, <3>3, <3>4
    <3> QED
      BY <1>1, <3>5, <3>6, OwedInTheEnd
  <2> QED
    BY <1>5, <1>8, <2>2, <2>3, CallReturns
<1>9. CASE Rest # NoStatements
  <2>1. /\ request' = request /\ todo' = Rest /\ raising' = raising /\ owed' = owed
        /\ SwitchTo' = SwitchTo
    BY <1>9, Executed DEF SwitchTo
  <2>2. Rest.body # <<>>
    BY <1>1, <1>3, <1>9, NothingLeft
  <2>3. adapter = "db2"
    <3> SUFFICES ASSUME adapter # "db2"
                 PROVE  FALSE
      OBVIOUS
    <3>1. Len(Rest.body) = 0
      BY <1>2, <1>3 DEF SwitchPhase, SessionTypes
    <3> QED
      BY <1>3, <2>2, <3>1
  <2>5. Unaltered' /\ IdentityPhase' /\ ~AlteredByCopy' /\ Rest.prepare = <<>>
    <3>1. NoAlters(Rest.body)
      BY <1>2, <1>3 DEF Unaltered, NoAlters
    <3>2. todo'.prepare = <<>> /\ NoAlters(todo'.body) /\ todo'.cleanup = <<>>
      BY <1>3, <2>1, <3>1
    <3>3. Unaltered'
      BY <3>2 DEF Unaltered, NoAlters
    <3>4. IdentityPhase'
      BY <3>3 DEF IdentityPhase
    <3>5. ~AlteredByCopy'
      BY <3>2, OneStatement DEF AlteredByCopy
    <3> QED
      BY <1>3, <3>3, <3>4, <3>5
  <2>6. SwitchPhase'
    <3>1. TriggersLeft' = SwitchedBy(Rest.body)
      BY <2>1 DEF TriggersLeft, SwitchedBy
    <3>2. ASSUME NEW i \in DOMAIN Rest.body
          PROVE  \/ Rest.body[i] = CommitSt /\ i = Len(Rest.body)
                 \/ Rest.body[i].do = SwitchTo /\ Rest.body[i].arg \subseteq Triggers
      <4>1. i + 1 \in DOMAIN todo.body /\ Rest.body[i] = todo.body[i + 1] /\ i \in Nat
        BY <1>3
      <4>2. \/ todo.body[i + 1] = CommitSt /\ i + 1 = Len(todo.body)
            \/ todo.body[i + 1].do = SwitchTo /\ todo.body[i + 1].arg \subseteq Triggers
        BY <1>2, <4>1 DEF SwitchPhase
      <4>3. Len(Rest.body) = Len(todo.body) - 1 /\ Len(todo.body) \in Nat
        BY <1>3
      <4>4. i + 1 = Len(todo.body) => i = Len(Rest.body)
        BY <4>1, <4>3
      <4> HIDE DEF Rest, CommitSt, SwitchTo
      <4> QED
        BY <4>1, <4>2, <4>4, Zenon
    <3>3. CommitSt' = CommitSt
      BY DEF CommitSt, St
    <3>4. \A t \in Triggers \ SwitchedBy(Rest.body) :
            t \in session'.disabled <=> SwitchTo = "disable"
      BY <1>3
    <3> QED
      BY <1>1, <1>2, <2>1, <2>3, <2>5, <3>1, <3>2, <3>3, <3>4 DEF SwitchPhase
  <2>7. CallInv'
    BY <1>1, <2>1, <2>5, <2>6 DEF CallInv
  <2>8. OwedInv'
    <3>1. ASSUME ~mixed', ~aborted'
          PROVE  OwedHalfWay'
      <4>1. OwedHalfWay
        BY <1>1, <1>6, <3>1
      <4>2. PutBack(request, owed)' = PutBack(request, owed)
        BY <1>1, <2>1 DEF PutBack
      <4>3. /\ \A k \in Keys \ unsure.rows : session.rows[k] = owed.rows[k]
            /\ session.restart = owed.restart \/ "restart" \in unsure.parts
            /\ session.generated = PutBack(request, owed).generated
                    \/ "generated" \in unsure.parts
        BY <1>1, <1>2, <4>1 DEF OwedHalfWay
      <4>4. adapter' # "postgresql"
        BY <1>1, <2>3
      <4> QED
        BY <1>1, <1>2, <1>3, <2>1, <2>5, <4>2, <4>3, <4>4 DEF OwedHalfWay
    <3> QED
      BY <1>1, <2>1, <3>1 DEF OwedInv
  <2>9. WholeInv'
    <3>1. adapter' # "postgresql" /\ request' # Idle /\ request'.call \in SwitchCalls
      BY <1>1, <2>1, <2>3
    <3>2. AsFound(session', left' \cup unsure'.parts) /\ Whole(committed', left')
      BY <1>1, <1>5
    <3> QED
      BY <1>1, <2>1, <2>5, <3>1, <3>2 DEF WholeInv, Whole, AllOrNone, AsFound
  <2> QED
    BY <2>7, <2>8, <2>9 DEF WorkInv
<1> QED
  BY <1>8, <1>9

LEMMA ResetsGoOn ==
    ASSUME SessionTypes, ConnectionInv, StatementsInv, WorkInv, Execute,
           request.call = "reset_identity"
    PROVE  WorkInv'
<1> DEFINE s == NextStatement
<1>1. /\ Running /\ request # Idle /\ request \in Requests /\ s \in Statement
      /\ UNCHANGED <<adapter, found, unsure, mixed, aborted, autocommit, stream>>
      /\ session' = After(s, session) /\ session' \in Database
      /\ request.call \notin RowCalls /\ request.call \notin SwitchCalls
      /\ request.call # "bulk_load_cli"
      /\ Rest \in Todo /\ session \in Database /\ owed \in Database
      /\ ~mixed => stream # "own"
      /\ left \subseteq left'
      /\ todo.cleanup = <<>> => Whole(committed', left')
  BY Executed, FirstStatement DEF RowCalls, SwitchCalls, SessionTypes
<1>2. ResetPhase /\ Unaltered /\ ~raising /\ todo.cleanup = <<>>
  BY <1>1 DEF WorkInv, CallInv, ResetPhase, Unaltered
<1>3. /\ Part = "body" /\ s = todo.body[1]
      /\ Rest.body = Tail(todo.body) /\ Rest.prepare = <<>> /\ Rest.cleanup = <<>>
  BY <1>1, <1>2, FirstStatement, NothingLeft DEF Unaltered
<1>4. /\ St("restart", "next").do = "restart" /\ CommitSt.do = "commit"
  BY StatementTypes
<1>5. \/ s.do = "restart" /\ Rest.body \in {<<CommitSt>>, <<>>}
      \/ s.do = "commit" /\ Rest.body = <<>> /\ session.restart = "next"
  <2>1. CASE todo.body = <<St("restart", "next"), CommitSt>>
    BY <1>3, <1>4, <2>1, TwoStatements
  <2>2. CASE todo.body = <<St("restart", "next")>>
    BY <1>3, <1>4, <2>2, OneStatement
  <2>3. CASE todo.body = <<CommitSt>> /\ session.restart = "next"
    BY <1>3, <1>4, <2>3, OneStatement
  <2> QED
    BY <1>2, <2>1, <2>2, <2>3 DEF ResetPhase
<1>6. /\ session'.generated = session.generated /\ session'.restart = "next"
      /\ session'.disabled = session.disabled
  BY <1>1, <1>5, Effects
<1>7. ASSUME NEW k \in Keys
      PROVE  session'.rows[k] = session.rows[k]
  <2>1. s \in Statement /\ session \in Database /\ session' = After(s, session)
    BY <1>1
  <2>2. s.do \notin {"insert", "override", "copy", "load", "update", "delete"}
    BY <1>5
  <2> HIDE DEF s
  <2>3. After(s, session).rows[k] = session.rows[k]
    BY <2>1, <2>2, Effects, ZenonT(60)
  <2> QED
    BY <2>1, <2>3
<1>8. PutBack(request, owed) = owed
  <2>1. ~PutsBack(request)
    BY <1>1, RequestTypes DEF PutsBack
  <2> QED
    BY <1>1, <2>1, PutBackChanges
<1>9. Whole(session, left \cup unsure.parts)
  BY <1>1, <1>2 DEF WorkInv, WholeInv, Whole
<1>10. Whole(committed', left') /\ Whole(session', left' \cup unsure.parts)
  BY <1>1, <1>2, <1>6, <1>9 DEF Whole, AllOrNone, AsFound
<1>11. ~mixed /\ ~aborted =>
            /\ \A k \in Keys \ unsure.rows : session.rows[k] = owed.rows[k]
            /\ session.disabled = owed.disabled \/ "disabled" \in unsure.parts
            /\ session.generated = PutBack(request, owed).generated
                    \/ "generated" \in unsure.parts
  BY <1>1, <1>2 DEF WorkInv, OwedInv, OwedHalfWay
<1>12. CASE Rest = NoStatements
  <2>1. ASSUME ~mixed, ~aborted
        PROVE  Agrees(session', Owed)
    <3>1. /\ Promised(request, owed).restart = "next"
          /\ Promised(request, owed).disabled = owed.disabled
      BY <1>1, PromisedRows DEF SwitchCalls
    <3>2. \A k \in Keys : Promised(request, owed).rows[k] = owed.rows[k]
      BY <1>1, PromisedRows
    <3>3. \A k \in Keys \ unsure.rows : session'.rows[k] =
                IF raising THEN owed.rows[k] ELSE Promised(request, owed).rows[k]
      BY <1>2, <1>7, <1>11, <2>1, <3>2
    <3>4. /\ "disabled" \in unsure.parts \/ session'.disabled =
                IF raising THEN owed.disabled ELSE Promised(request, owed).disabled
          /\ session'.restart =
                IF raising THEN owed.restart ELSE Promised(request, owed).restart
          /\ "generated" \in unsure.parts \/ session'.generated = PutBack(request, owed).generated
      BY <1>2, <1>6, <1>11, <2>1, <3>1
    <3> QED
      BY <1>1, <3>3, <3>4, OwedInTheEnd
  <2> QED
    BY <1>10, <1>12, <2>1, CallReturns
<1>13. CASE Rest # NoStatements
  <2>1. request' = request /\ todo' = Rest /\ raising' = raising /\ owed' = owed
    BY <1>13, Executed
  <2>2. Rest.body = <<CommitSt>>
    BY <1>1, <1>3, <1>5, <1>13, NothingLeft
  <2>3. NoAlters(<<CommitSt>>)
    BY <1>4 DEF NoAlters
  <2>4. todo'.prepare = <<>> /\ NoAlters(todo'.body) /\ todo'.cleanup = <<>>
        /\ todo'.body = <<CommitSt>>
    BY <1>3, <2>1, <2>2, <2>3
  <2>5. Unaltered'
    BY <2>4 DEF Unaltered, NoAlters
  <2>6. IdentityPhase' /\ ~AlteredByCopy'
    BY <2>4, <2>5 DEF IdentityPhase, AlteredByCopy
  <2>7. ResetPhase'
    BY <1>2, <1>6, <2>1, <2>4, <2>5 DEF ResetPhase, CommitSt, St
  <2>8. CallInv'
    BY <1>1, <2>1, <2>6, <2>7 DEF CallInv
  <2>9. adapter = "db2"
    <3>1. todo.body = <<St("restart", "next"), CommitSt>>
      <4>1. Tail(<<St("restart", "next")>>) = <<>> /\ Tail(<<CommitSt>>) = <<>>
        BY OneStatement
      <4>2. <<CommitSt>> # <<>>
        BY OneStatement
      <4> QED
        BY <1>2, <1>3, <2>2, <4>1, <4>2 DEF ResetPhase
    <3>2. 2 \in DOMAIN todo.body /\ todo.body[2].do = "commit" /\ "body" \in DOMAIN todo
      BY <1>4, <3>1, TwoStatements DEF SessionTypes
    <3> QED
      BY <3>2 DEF StatementsInv, SessionTypes
  <2>10. OwedInv'
    <3>1. ASSUME ~mixed', ~aborted'
          PROVE  OwedHalfWay'
      <4>1. PutBack(request, owed)' = PutBack(request, owed)
        BY <1>1, <2>1 DEF PutBack
      <4>2. adapter' # "postgresql"
        BY <1>1, <2>9
      <4>3. ~mixed /\ ~aborted
        BY <1>1, <3>1
      <4> QED
        BY <1>1, <1>2, <1>6, <1>7, <1>11, <2>1, <2>5, <4>1, <4>2, <4>3 DEF OwedHalfWay
    <3> QED
      BY <1>1, <2>1, <3>1 DEF OwedInv
  <2>11. WholeInv'
    BY <1>1, <1>10, <2>1, <2>4, <2>5 DEF WholeInv, Whole, AllOrNone, AsFound
  <2> QED
    BY <2>8, <2>10, <2>11 DEF WorkInv
<1> QED
  BY <1>12, <1>13

LEMMA CliLoadsGoOn ==
    ASSUME SessionTypes, ConnectionInv, StatementsInv, WorkInv, Execute,
           request.call = "bulk_load_cli"
    PROVE  WorkInv'
<1> DEFINE s == NextStatement
<1>1. /\ Running /\ request # Idle /\ request \in Requests /\ s \in Statement
      /\ session' = After(s, session) /\ session' \in Database
      /\ committed' = IF autocommit \/ s.do \in {"commit", "load"} THEN session' ELSE committed
      /\ ~Refused(s)
      /\ request.call \notin RowCalls /\ request.call \notin SwitchCalls
      /\ request.call # "reset_identity"
      /\ Rest \in Todo /\ session \in Database /\ owed \in Database
      /\ left \subseteq left' /\ adapter = "db2"
      /\ todo.cleanup = <<>> => Whole(committed', left')
      /\ request.keys \in SUBSET Keys
  BY Executed, FirstStatement, RequestTypes DEF RowCalls, SwitchCalls, SessionTypes
<1>2. LoadPhase /\ Unaltered /\ ~raising /\ todo.cleanup = <<>>
  BY <1>1 DEF WorkInv, CallInv, LoadPhase, Unaltered
<1>3. /\ Part = "body" /\ s = todo.body[1]
      /\ Rest.body = Tail(todo.body) /\ Rest.prepare = <<>> /\ Rest.cleanup = <<>>
  BY <1>1, <1>2, FirstStatement, NothingLeft DEF Unaltered
<1> DEFINE loadable == Loadable(committed, request.keys, request.override)
<1>4. s = St("load", loadable) /\ Rest.body = <<>>
  BY <1>2, <1>3, OneStatement DEF LoadPhase
<1>5. s.do = "load" /\ s.arg = loadable
  BY <1>4, StatementTypes
<1>6. committed' = session' /\ session = committed
  BY <1>1, <1>5 DEF Refused
<1>7. Rest = NoStatements
  BY <1>1, <1>3, <1>4, NothingLeft
<1>8. /\ session'.generated = session.generated /\ session'.disabled = session.disabled
      /\ session'.restart = session.restart
  BY <1>1, <1>5, Effects
<1>9. ASSUME ~mixed, ~aborted
      PROVE  Agrees(session', Owed)
  <2>1. /\ \A k \in Keys \ unsure.rows : session.rows[k] = owed.rows[k]
        /\ session.disabled = owed.disabled \/ "disabled" \in unsure.parts
        /\ session.restart = owed.restart \/ "restart" \in unsure.parts
        /\ session.generated = PutBack(request, owed).generated
                \/ "generated" \in unsure.parts
    BY <1>1, <1>2, <1>9 DEF WorkInv, OwedInv, OwedHalfWay
  <2> DEFINE as == [owed EXCEPT !.generated = session.generated]
             other == Loadable(as, request.keys, request.override)
  <2>2. /\ Promised(request, owed) = After(St("load", other), owed)
        /\ Promised(request, owed).disabled = owed.disabled
        /\ Promised(request, owed).restart = owed.restart
    BY <1>1, PromisedRows
  <2>3. as.generated = session.generated /\ as.rows = owed.rows
    BY <1>1 DEF Database
  <2> HIDE DEF as
  <2>4. other \in SUBSET Keys
    BY <1>1 DEF Loadable
  <2>5. \A k \in Keys \ unsure.rows : k \in other <=> k \in loadable
    BY <1>6, <2>1, <2>3 DEF Loadable, Stored
  <2> HIDE DEF other, loadable
  <2>6. ASSUME NEW k \in Keys \ unsure.rows
        PROVE  session'.rows[k] = Promised(request, owed).rows[k]
    <3>1. St("load", other) \in Statement /\ St("load", other).do = "load"
          /\ St("load", other).arg = other
      BY <2>4, StatementTypes
    <3>2. PICK t \in Statement : t = St("load", other)
      BY <3>1
    <3>3. PICK u \in Statement : u = s
      BY <1>1
    <3>4. /\ t.do = "load" /\ t.arg = other /\ Promised(request, owed) = After(t, owed)
          /\ u.do = "load" /\ u.arg = loadable /\ session' = After(u, session)
      BY <1>1, <1>5, <2>2, <3>1, <3>2, <3>3
    <3>5. k \in Keys /\ owed \in Database /\ session \in Database
      BY <1>1
    <3>6. After(t, owed).rows[k] = IF k \in other THEN "inserted" ELSE owed.rows[k]
      BY <3>4, <3>5, Effects, ZenonT(60)
    <3>7. After(u, session).rows[k] = IF k \in loadable THEN "inserted" ELSE session.rows[k]
      BY <3>4, <3>5, Effects, ZenonT(60)
    <3> QED
      BY <2>1, <2>5, <2>6, <3>4, <3>6, <3>7
  <2> QED
    BY <1>1, <1>2, <1>8, <2>1, <2>2, <2>6, OwedInTheEnd
<1>10. Whole(committed', left') /\ Whole(session', left' \cup unsure.parts)
  BY <1>1, <1>2, <1>6 DEF Whole, AllOrNone, AsFound
<1> QED
  BY <1>7, <1>9, <1>10, CallReturns

LEMMA ExecuteTakes ==
    ASSUME SessionTypes, ConnectionInv, StatementsInv, WorkInv, Execute
    PROVE  WorkInv'
<1>1. request # Idle /\ request \in Requests
  BY Executed
<1>2. request.call \in RowCalls \cup SwitchCalls \cup {"reset_identity", "bulk_load_cli"}
  BY <1>1, RequestTypes
<1>3. IdentityPhase
  BY <1>1 DEF WorkInv, CallInv
<1>4. CASE request.call \in RowCalls
  BY <1>3, <1>4, UnalteredRowsGoOn, RowsUnderDB2sOverride, RowsUnderCopysOverride
     DEF IdentityPhase
<1> QED
  BY <1>2, <1>4, SwitchesGoOn, ResetsGoOn, CliLoadsGoOn

-------------------------------------------------------------------------------
(* The inductive invariant.                                                 *)

THEOREM SessionInvariant ==
    Spec => []SessionInv
<1>1. Init => SessionInv
  <2> SUFFICES ASSUME Init
               PROVE  SessionInv
    OBVIOUS
  <2>1. Fresh \in Database /\ [Fresh EXCEPT !.generated = found] \in Database
        /\ [Fresh EXCEPT !.generated = found].generated = found
        /\ [Fresh EXCEPT !.generated = found].disabled = {}
    BY DEF Init, Fresh, Database, Versions, Generated
  <2>2. NoStatements \in Todo
    <3>1. <<>> \in Seq(Statement)
      OBVIOUS
    <3> QED
      BY <3>1 DEF NoStatements, Todo
  <2>3. SessionTypes
    <3>1. calls \in 0 .. MaxCalls /\ faults \in 0 .. MaxFaults
      BY SessionBoundsAssumption DEF Init
    <3>2. adapter \in {"postgresql", "db2"} /\ found \in Generated
      BY AdaptersAssumption DEF Init
    <3>3. committed \in Database /\ session \in Database /\ base \in Database /\ owed \in Database
      BY <2>1 DEF Init
    <3>4. request = Idle /\ todo = NoStatements
      BY DEF Init
    <3>5. /\ connected \in BOOLEAN /\ autocommit \in BOOLEAN /\ aborted \in BOOLEAN
          /\ stream \in {"none", "own", "callers"} /\ raising \in BOOLEAN /\ begun \in BOOLEAN
          /\ mixed \in BOOLEAN /\ selfCommitted \in BOOLEAN
          /\ unsure.rows \in SUBSET Keys /\ unsure.parts \in SUBSET Parts /\ left \in SUBSET Parts
      BY DEF Init, Sure
    <3> QED
      BY <2>2, <3>1, <3>2, <3>3, <3>4, <3>5 DEF SessionTypes, Todo
  <2>4. ConnectionInv /\ TransactionInv
    BY DEF Init, ConnectionInv, TransactionInv
  <2>5. StatementsInv
    BY DEF Init, StatementsInv, NoStatements
  <2>6. CallInv /\ OwedInv /\ WholeInv
    <3>1. Whole(committed, left) /\ Whole(session, left \cup unsure.parts)
      BY <2>1 DEF Init, Whole, AllOrNone, AsFound
    <3>2. Agrees(session, owed)
      BY DEF Init, Agrees
    <3> QED
      BY <3>1, <3>2 DEF Init, CallInv, OwedInv, WholeInv
  <2> QED
    BY <2>3, <2>4, <2>5, <2>6 DEF SessionInv
<1>2. SessionInv /\ [Next]_vars => SessionInv'
  <2> SUFFICES ASSUME SessionInv, [Next]_vars
               PROVE  SessionInv'
    OBVIOUS
  <2>1. SessionTypes /\ ConnectionInv /\ TransactionInv /\ StatementsInv /\ WorkInv
    BY DEF SessionInv, WorkInv
  <2>2. SessionTypes' /\ ConnectionInv' /\ TransactionInv' /\ StatementsInv'
    BY <2>1, TypesAreKept, ConnectionStays, TransactionStays, StatementsStay
  <2>3. WorkInv'
    BY <2>1, RestGoesOn, CallStarts, ExecuteTakes, RaiseTakes, ConnectionsAreLost, WorkStutters
       DEF Next
  <2> QED
    BY <2>2, <2>3 DEF SessionInv, WorkInv
<1> QED
  BY <1>1, <1>2, PTL DEF Spec

-------------------------------------------------------------------------------
(* What the runs check, for every value of the constants.                   *)

\* A caller that does not write or begin while an own cursor is open sees what the
\* calls that returned have promised, but for what the calls that raised may have
\* written, unless the database has undone the transaction.
THEOREM WorkStaysDone ==
    Spec => []WorkIsKept
<1>1. SessionInv => WorkIsKept
  BY DEF SessionInv, OwedInv, WorkIsKept, Ready, Running
<1> QED
  BY <1>1, SessionInvariant, PTL

\* commit, after failed calls too, makes durable what the calls of the transaction
\* have promised, and nothing of a transaction that PostgreSQL has aborted.
THEOREM CommitsAreComplete ==
    Spec => CommitKeepsAll
<1>1. ASSUME SessionInv, Commit, ~mixed
      PROVE  IF aborted THEN adapter = "postgresql" => committed' = base
                        ELSE Agrees(committed', owed)
  <2>1. /\ committed' = session /\ connected /\ request = Idle
        /\ UNCHANGED <<adapter, autocommit>>
    BY <1>1 DEF Commit, Ready, Running
  <2>2. CASE aborted
    <3> SUFFICES ASSUME adapter = "postgresql"
                 PROVE  committed' = base
      BY <2>2
    <3>1. session = committed /\ ~autocommit
      BY <1>1, <2>2 DEF SessionInv, ConnectionInv
    <3>2. stream # "own"
      BY <1>1, <2>2 DEF SessionInv, OwedInv
    <3>3. committed = base
      BY <1>1, <2>1, <3>1, <3>2 DEF SessionInv, TransactionInv, SessionTypes
    <3> QED
      BY <2>1, <3>1, <3>3
  <2>3. CASE ~aborted
    <3>1. Agrees(session, owed)
      BY <1>1, <2>1, <2>3 DEF SessionInv, OwedInv
    <3> QED
      BY <2>1, <2>3, <3>1
  <2> QED
    BY <2>2, <2>3
<1>2. SessionInv /\ [Next]_vars =>
        [Commit /\ ~mixed => IF aborted THEN adapter = "postgresql" => committed' = base
                                        ELSE Agrees(committed', owed)]_vars
  BY <1>1
<1> QED
  BY <1>2, SessionInvariant, PTL DEF Spec, CommitKeepsAll

\* rollback_transaction leaves durable what was when the transaction began, unless
\* a call has committed on DB2.
THEOREM RollbacksAreComplete ==
    Spec => RollbackUndoesAll
<1>1. SessionInv /\ [Next]_vars =>
        [RollbackTransaction /\ ~mixed /\ InTransaction => committed' = base]_vars
  BY DEF SessionInv, SessionTypes, TransactionInv, RollbackTransaction, InTransaction
<1> QED
  BY <1>1, SessionInvariant, PTL DEF Spec, RollbackUndoesAll

\* On PostgreSQL, work outside any transaction is durable when the call returns.
THEOREM UnbegunWorkIsSafe ==
    Spec => []UnbegunWorkIsDurable
<1>1. SessionInv => UnbegunWorkIsDurable
  BY DEF SessionInv, ConnectionInv, TransactionInv, UnbegunWorkIsDurable, Ready
<1> QED
  BY <1>1, SessionInvariant, PTL

\* Between calls the durable schema has the identity column as it was found and the
\* triggers all on or all off, but for a commit after a call that raised and for
\* a finally block that failed or was not reached.
THEOREM SchemaStaysWhole ==
    Spec => []SchemaIsLeftWhole
<1>1. SessionInv => SchemaIsLeftWhole
  BY DEF SessionInv, WholeInv, Whole, AllOrNone, AsFound, SchemaIsLeftWhole, Running
<1> QED
  BY <1>1, SessionInvariant, PTL

===============================================================================
