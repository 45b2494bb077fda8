---------------------------- MODULE PipelineProofs ----------------------------
(***************************************************************************)
(* Theorems about Pipeline, for any tables, rows, flags, page and batch    *)
(* sizes.                                                                  *)
(*                                                                         *)
(* The argument follows what is to be written from the deltas through the  *)
(* plans to the slices and the batch: a row that may be deleted was seen   *)
(* to be missing from the source in this run, and a row in which source    *)
(* and target differ is listed in one of them until it is written.         *)
(***************************************************************************)
EXTENDS Pipeline, SortedListsProofs

PksOf(delta, op) ==
    CASE op = "insert" -> delta.insert_pks
      [] op = "update" -> delta.update_pks
      [] op = "delete" -> delta.delete_pks

TablePlans ==
    [table : Tables, operation : {"insert", "update", "no_action"}, delta : TableDeltas]

-------------------------------------------------------------------------------
(* The tables in order.                                                     *)

\* There are finitely many tables to compare, each with its position.
LEMMA ComparedTables ==
    /\ Compared \in SUBSET Tables /\ IsFiniteSet(Compared)
    /\ \A t \in Compared : Position(t) \in DOMAIN CommonTables /\ CommonTables[Position(t)] = t
    /\ DOMAIN CommonTables = 1 .. Len(CommonTables) /\ Len(CommonTables) \in Nat
    /\ \A i \in DOMAIN CommonTables : CommonTables[i] \in Tables
<1>. DEFINE n == Len(CommonTables)
<1>1. n \in Nat /\ CommonTables \in [1 .. n -> Tables] /\ DOMAIN CommonTables = 1 .. n
  BY CommonTablesAssumption
<1>2. IsFiniteSet(1 .. n)
  BY <1>1, FS_Interval
<1>3. CommonTables \in Surjection(1 .. n, ToSet(CommonTables))
  BY <1>1 DEF Surjection, ToSet
<1>4. IsFiniteSet(ToSet(CommonTables))
  BY <1>2, <1>3, FS_Surjection
<1>5. Compared \in SUBSET ToSet(CommonTables)
  BY DEF Compared
<1>6. ToSet(CommonTables) \in SUBSET Tables
  BY <1>1 DEF ToSet
<1>7. IsFiniteSet(Compared)
  BY <1>4, <1>5, FS_Subset
<1>8. ASSUME NEW t \in Compared
      PROVE  Position(t) \in DOMAIN CommonTables /\ CommonTables[Position(t)] = t
  <2>1. \E i \in DOMAIN CommonTables : CommonTables[i] = t
    BY <1>1, <1>5 DEF ToSet
  <2>. QED
    BY <2>1 DEF Position
<1>. QED
  BY <1>1, <1>5, <1>6, <1>7, <1>8

\* ByLevel lists each compared table once, by ascending level.
LEMMA TablesByLevel ==
    /\ ByLevel \in Seq(Compared) /\ ByLevel \in Seq(Tables)
    /\ \A t \in Compared : \E i \in DOMAIN ByLevel : ByLevel[i] = t
    /\ \A i, j \in DOMAIN ByLevel : i < j =>
        ByLevel[i] # ByLevel[j] /\ Level[ByLevel[i]] <= Level[ByLevel[j]]
<1>. DEFINE before == {p \in Compared \X Compared :
                        \/ Level[p[1]] < Level[p[2]]
                        \/ Level[p[1]] = Level[p[2]] /\ IsNamedBefore(p[1], p[2])}
<1>1. \A t \in Compared : Level[t] \in Int /\ Position(t) \in Int
                          /\ CommonTables[Position(t)] = t
  BY ComparedTables, LevelAssumption
<1>2. \A t, u \in Compared : <<t, u>> \in before <=>
            \/ Level[t] < Level[u]
            \/ Level[t] = Level[u] /\ Position(t) < Position(u)
  BY DEF IsNamedBefore
<1>3. ByLevel = InOrder(Compared, before)
  BY DEF ByLevel
<1>. HIDE DEF before
<1>4. IsStrictTotalOrder(before, Compared)
  <2>1. \A t \in Compared : <<t, t>> \notin before
    BY <1>1, <1>2
  <2>2. \A t, u, v \in Compared :
            <<t, u>> \in before /\ <<u, v>> \in before => <<t, v>> \in before
    BY <1>1, <1>2
  <2>3. \A t, u \in Compared : t # u => <<t, u>> \in before \/ <<u, t>> \in before
    BY <1>1, <1>2
  <2>. QED
    BY <2>1, <2>2, <2>3 DEF IsStrictTotalOrder
<1>5. /\ ByLevel \in Seq(Compared)
      /\ \A t \in Compared : \E i \in DOMAIN ByLevel : ByLevel[i] = t
      /\ \A i, j \in DOMAIN ByLevel : i < j <=> <<ByLevel[i], ByLevel[j]>> \in before
  BY <1>3, <1>4, ComparedTables, InOrderLists
<1>6. ASSUME NEW i \in DOMAIN ByLevel, NEW j \in DOMAIN ByLevel, i < j
      PROVE  ByLevel[i] # ByLevel[j] /\ Level[ByLevel[i]] <= Level[ByLevel[j]]
  <2>1. ByLevel[i] \in Compared /\ ByLevel[j] \in Compared
    BY <1>5
  <2>2. <<ByLevel[i], ByLevel[j]>> \in before
    BY <1>5, <1>6
  <2>3. ASSUME NEW t \in Compared, NEW u \in Compared, <<t, u>> \in before
        PROVE  t # u /\ Level[t] <= Level[u]
    BY <1>1, <1>2, <2>3
  <2>. QED
    BY <2>1, <2>2, <2>3
<1>7. ByLevel \in Seq(Tables)
  BY <1>5, ComparedTables
<1>. QED
  BY <1>5, <1>6, <1>7

-------------------------------------------------------------------------------
(* The work on a table.                                                     *)

LEMMA SlicesCover ==
    ASSUME NEW t \in Tables, NEW op \in Operations, NEW pks \in SUBSET Keys
    PROVE  /\ Slices(t, op, pks) \in Seq(SliceOfKeys)
           /\ \A i \in DOMAIN Slices(t, op, pks) :
                /\ Slices(t, op, pks)[i].table = t /\ Slices(t, op, pks)[i].op = op
                /\ Slices(t, op, pks)[i].keys \subseteq pks
           /\ \A k \in pks : \E i \in DOMAIN Slices(t, op, pks) : k \in Slices(t, op, pks)[i].keys
           /\ \A i, j \in DOMAIN Slices(t, op, pks) : i # j =>
                Slices(t, op, pks)[i].keys \cap Slices(t, op, pks)[j].keys = {}
<1>. DEFINE P == Pieces(pks, BatchSize)
            S == Slices(t, op, pks)
<1>1. pks \in SUBSET Int /\ IsFiniteSet(pks) /\ BatchSize \in Nat \ {0}
  BY KeysAssumption, KeysFiniteAssumption, FS_Subset, BatchSizeAssumption
<1>2. /\ P \in Seq(SUBSET pks)
      /\ \A i \in DOMAIN P : P[i] = Piece(pks, BatchSize, i)
      /\ \A k \in pks : \E i \in DOMAIN P : k \in P[i]
  BY <1>1, PiecesCover
<1>3. \A i, j \in DOMAIN P : i < j => \A k \in P[i], m \in P[j] : k < m
  BY <1>1, PiecesAscend
<1>. HIDE DEF P
<1>4. S = [i \in DOMAIN P |-> [table |-> t, op |-> op, keys |-> P[i]]]
  BY <1>2 DEF Slices, Slice, P
<1>. HIDE DEF S
<1>5. /\ DOMAIN P = 1 .. Len(P) /\ Len(P) \in Nat /\ DOMAIN S = DOMAIN P
      /\ \A i \in DOMAIN P : P[i] \in SUBSET pks
  BY <1>2, <1>4
<1>6. \A i \in DOMAIN S : S[i] \in SliceOfKeys /\ S[i].table = t /\ S[i].op = op /\ S[i].keys = P[i]
  BY <1>4, <1>5 DEF SliceOfKeys
<1>7. S \in Seq(SliceOfKeys)
  BY <1>4, <1>5, <1>6
<1>8. ASSUME NEW i \in DOMAIN S, NEW j \in DOMAIN S, i # j
      PROVE  S[i].keys \cap S[j].keys = {}
  <2>1. i \in Int /\ j \in Int
    BY <1>5
  <2>2. i < j \/ j < i
    BY <1>8, <2>1
  <2>3. \A k \in P[i] \cap P[j] : k \in Int /\ k < k
    BY <1>1, <1>3, <1>5, <2>2
  <2>. QED
    BY <1>6, <2>3
<1>. QED
  BY <1>2, <1>5, <1>6, <1>7, <1>8 DEF S

\* No two slices of one operation have a key in common.
IsDistinct(list) ==
    \A i, j \in DOMAIN list :
        i # j /\ list[i].op = list[j].op => list[i].keys \cap list[j].keys = {}

\* One list after the other.
LEMMA Appended ==
    ASSUME NEW S, NEW a \in Seq(S), NEW b \in Seq(S)
    PROVE  /\ a \o b \in Seq(S) /\ Len(a) \in Nat /\ Len(b) \in Nat
           /\ DOMAIN a = 1 .. Len(a) /\ DOMAIN b = 1 .. Len(b)
           /\ DOMAIN (a \o b) = 1 .. Len(a) + Len(b)
           /\ \A i \in 1 .. Len(a) : (a \o b)[i] = a[i]
           /\ \A i \in 1 .. Len(b) : (a \o b)[Len(a) + i] = b[i]
  OBVIOUS

LEMMA ListsJoined ==
    ASSUME NEW a \in Seq(SliceOfKeys), NEW b \in Seq(SliceOfKeys)
    PROVE  /\ a \o b \in Seq(SliceOfKeys)
           /\ \A i \in DOMAIN (a \o b) :
                \/ \E j \in DOMAIN a : (a \o b)[i] = a[j]
                \/ \E j \in DOMAIN b : (a \o b)[i] = b[j]
           /\ \A j \in DOMAIN a : \E i \in DOMAIN (a \o b) : (a \o b)[i] = a[j]
           /\ \A j \in DOMAIN b : \E i \in DOMAIN (a \o b) : (a \o b)[i] = b[j]
           /\ IsDistinct(a) /\ IsDistinct(b)
                /\ (\A i \in DOMAIN a, j \in DOMAIN b : a[i].op # b[j].op) => IsDistinct(a \o b)
<1>. DEFINE d == a \o b
            m == Len(a)
            n == Len(b)
<1>1. /\ d \in Seq(SliceOfKeys) /\ m \in Nat /\ n \in Nat
      /\ DOMAIN a = 1 .. m /\ DOMAIN b = 1 .. n /\ DOMAIN d = 1 .. m + n
      /\ \A i \in 1 .. m : d[i] = a[i]
      /\ \A i \in 1 .. n : d[m + i] = b[i]
  BY Appended
<1>. HIDE DEF d, m, n
<1>2. ASSUME NEW i \in DOMAIN d
      PROVE  \/ i \in DOMAIN a /\ d[i] = a[i]
             \/ i - m \in DOMAIN b /\ d[i] = b[i - m]
  <2>1. i \in 1 .. m \/ (i - m \in 1 .. n /\ m + (i - m) = i)
    BY <1>1
  <2>. QED
    BY <1>1, <2>1
<1>3. \A j \in DOMAIN a : j \in DOMAIN d /\ d[j] = a[j]
  BY <1>1
<1>4. \A j \in DOMAIN b : m + j \in DOMAIN d /\ d[m + j] = b[j]
  BY <1>1
<1>5. ASSUME IsDistinct(a), IsDistinct(b),
             \A i \in DOMAIN a, j \in DOMAIN b : a[i].op # b[j].op,
             NEW i \in DOMAIN d, NEW j \in DOMAIN d, i # j, d[i].op = d[j].op
      PROVE  d[i].keys \cap d[j].keys = {}
  <2>1. i \in Int /\ j \in Int /\ m \in Int
    BY <1>1
  <2>2. \/ /\ i \in DOMAIN a /\ d[i] = a[i]
           /\ j \in DOMAIN a /\ d[j] = a[j]
        \/ /\ i - m \in DOMAIN b /\ d[i] = b[i - m]
           /\ j - m \in DOMAIN b /\ d[j] = b[j - m]
    BY <1>2, <1>5
  <2>3. i - m # j - m
    BY <1>5, <2>1
  <2>. QED
    BY <1>5, <2>2, <2>3 DEF IsDistinct
<1>6. \A i \in DOMAIN d : \/ \E j \in DOMAIN a : d[i] = a[j]
                          \/ \E j \in DOMAIN b : d[i] = b[j]
  BY <1>2
<1>7. \A j \in DOMAIN a : \E i \in DOMAIN d : d[i] = a[j]
  BY <1>3
<1>8. \A j \in DOMAIN b : \E i \in DOMAIN d : d[i] = b[j]
  BY <1>4
<1>9. IsDistinct(a) /\ IsDistinct(b)
      /\ (\A i \in DOMAIN a, j \in DOMAIN b : a[i].op # b[j].op) => IsDistinct(d)
  BY <1>5 DEF IsDistinct
<1>. QED
  BY <1>1, <1>6, <1>7, <1>8, <1>9 DEF d

\* _migrate_table takes every key of the plan's deltas, once for each operation.
LEMMA TableWorkCovers ==
    ASSUME NEW p \in TablePlans
    PROVE  /\ TableWork(p) \in Seq(SliceOfKeys)
           /\ \A i \in DOMAIN TableWork(p) :
                /\ TableWork(p)[i].table = p.table
                /\ TableWork(p)[i].op \in Operations
                /\ TableWork(p)[i].keys \subseteq PksOf(p.delta, TableWork(p)[i].op)
           /\ \A op \in Operations : \A k \in PksOf(p.delta, op) :
                \E i \in DOMAIN TableWork(p) :
                    TableWork(p)[i].op = op /\ k \in TableWork(p)[i].keys
           /\ IsDistinct(TableWork(p))
<1>. DEFINE t == p.table
            a == Slices(t, "insert", p.delta.insert_pks)
            b == Slices(t, "update", p.delta.update_pks)
            c == Slices(t, "delete", p.delta.delete_pks)
            Is(s, op) ==
                /\ s \in Seq(SliceOfKeys)
                /\ \A i \in DOMAIN s :
                    /\ s[i].table = t /\ s[i].op = op
                    /\ s[i].keys \subseteq PksOf(p.delta, op)
                /\ \A k \in PksOf(p.delta, op) : \E i \in DOMAIN s : k \in s[i].keys
                /\ \A i, j \in DOMAIN s : i # j => s[i].keys \cap s[j].keys = {}
<1>1. /\ t \in Tables /\ p.delta.insert_pks \in SUBSET Keys
      /\ p.delta.update_pks \in SUBSET Keys /\ p.delta.delete_pks \in SUBSET Keys
  BY DEF TablePlans, TableDeltas
<1>2. {"insert", "update", "delete"} = Operations
  BY DEF Operations
<1>3. /\ PksOf(p.delta, "insert") = p.delta.insert_pks
      /\ PksOf(p.delta, "update") = p.delta.update_pks
      /\ PksOf(p.delta, "delete") = p.delta.delete_pks
  BY DEF PksOf
<1>4. Is(a, "insert")
  <2>1. "insert" \in Operations
    BY <1>2
  <2>. QED
    BY <1>1, <1>3, <2>1, SlicesCover
<1>5. Is(b, "update")
  <2>1. "update" \in Operations
    BY <1>2
  <2>. QED
    BY <1>1, <1>3, <2>1, SlicesCover
<1>6. Is(c, "delete")
  <2>1. "delete" \in Operations
    BY <1>2
  <2>. QED
    BY <1>1, <1>3, <2>1, SlicesCover
<1>7. TableWork(p) = (a \o b) \o c
  BY DEF TableWork
<1>. HIDE DEF t, a, b, c
<1>. DEFINE d == a \o b
<1>8. /\ d \in Seq(SliceOfKeys)
      /\ \A i \in DOMAIN d : \/ \E j \in DOMAIN a : d[i] = a[j]
                             \/ \E j \in DOMAIN b : d[i] = b[j]
      /\ \A j \in DOMAIN a : \E i \in DOMAIN d : d[i] = a[j]
      /\ \A j \in DOMAIN b : \E i \in DOMAIN d : d[i] = b[j]
      /\ IsDistinct(d)
  <2>1. IsDistinct(a) /\ IsDistinct(b)
    BY <1>4, <1>5 DEF IsDistinct
  <2>2. \A i \in DOMAIN a, j \in DOMAIN b : a[i].op # b[j].op
    BY <1>4, <1>5
  <2>. QED
    BY <1>4, <1>5, <2>1, <2>2, ListsJoined
<1>. HIDE DEF d
<1>. DEFINE e == d \o c
<1>9. /\ e \in Seq(SliceOfKeys)
      /\ \A i \in DOMAIN e : \/ \E j \in DOMAIN d : e[i] = d[j]
                             \/ \E j \in DOMAIN c : e[i] = c[j]
      /\ \A j \in DOMAIN d : \E i \in DOMAIN e : e[i] = d[j]
      /\ \A j \in DOMAIN c : \E i \in DOMAIN e : e[i] = c[j]
      /\ IsDistinct(e)
  <2>1. IsDistinct(c)
    BY <1>6 DEF IsDistinct
  <2>2. \A i \in DOMAIN d, j \in DOMAIN c : d[i].op # c[j].op
    BY <1>4, <1>5, <1>6, <1>8, SMTT(40)
  <2>. QED
    BY <1>6, <1>8, <2>1, <2>2, ListsJoined
<1>. HIDE DEF e
<1>10. \A i \in DOMAIN e : \/ \E j \in DOMAIN a : e[i] = a[j]
                           \/ \E j \in DOMAIN b : e[i] = b[j]
                           \/ \E j \in DOMAIN c : e[i] = c[j]
  <2>1. \A j \in DOMAIN d : (\E m \in DOMAIN a : d[j] = a[m]) \/ (\E m \in DOMAIN b : d[j] = b[m])
    BY <1>8
  <2>2. \A i \in DOMAIN e : (\E j \in DOMAIN d : e[i] = d[j]) \/ (\E j \in DOMAIN c : e[i] = c[j])
    BY <1>9
  <2>. QED
    BY <2>1, <2>2
<1>11. ASSUME NEW i \in DOMAIN e
       PROVE  /\ e[i].table = t /\ e[i].op \in Operations
              /\ e[i].keys \subseteq PksOf(p.delta, e[i].op)
  <2>1. ASSUME NEW j \in DOMAIN a, e[i] = a[j]
        PROVE  /\ e[i].table = t /\ e[i].op \in Operations
               /\ e[i].keys \subseteq PksOf(p.delta, e[i].op)
    BY <1>2, <1>4, <2>1
  <2>2. ASSUME NEW j \in DOMAIN b, e[i] = b[j]
        PROVE  /\ e[i].table = t /\ e[i].op \in Operations
               /\ e[i].keys \subseteq PksOf(p.delta, e[i].op)
    BY <1>2, <1>5, <2>2
  <2>3. ASSUME NEW j \in DOMAIN c, e[i] = c[j]
        PROVE  /\ e[i].table = t /\ e[i].op \in Operations
               /\ e[i].keys \subseteq PksOf(p.delta, e[i].op)
    BY <1>2, <1>6, <2>3
  <2>. QED
    BY <1>10, <2>1, <2>2, <2>3
<1>12. /\ \A s \in {a, b, c} : \A j \in DOMAIN s : \E i \in DOMAIN e : e[i] = s[j]
  BY <1>8, <1>9
<1>13. ASSUME NEW op \in Operations, NEW k \in PksOf(p.delta, op)
       PROVE  \E i \in DOMAIN e : e[i].op = op /\ k \in e[i].keys
  <2>1. \E s \in {a, b, c} : Is(s, op)
    BY <1>2, <1>4, <1>5, <1>6
  <2>2. PICK s \in {a, b, c} : Is(s, op)
    BY <2>1
  <2>3. PICK j \in DOMAIN s : s[j].op = op /\ k \in s[j].keys
    BY <2>2
  <2>. QED
    BY <1>12, <2>3
<1>14. e = TableWork(p)
  BY <1>7 DEF d, e
<1>. QED
  BY <1>9, <1>11, <1>13, <1>14 DEF t

-------------------------------------------------------------------------------
(* Types.                                                                   *)

LEMMA DeltaIsTyped ==
    ASSUME NEW db1, NEW db2, NEW t
    PROVE  Delta(db1, db2, t) \in TableDeltas
BY DEF Delta, KeysOf, TableDeltas

\* What a table's plan keeps of its delta.
LEMMA PlanOfTable ==
    ASSUME TypeOK, NEW t \in Tables
    PROVE  /\ TablePlan(t) \in TablePlans /\ TablePlan(t).table = t
           /\ TablePlan(t).delta.insert_pks = deltas[t].insert_pks
           /\ TablePlan(t).delta.update_pks = deltas[t].update_pks
           /\ t \in options.delete_allowed => TablePlan(t).delta.delete_pks = deltas[t].delete_pks
           /\ t \notin options.delete_allowed => TablePlan(t).delta.delete_pks = {}
<1>1. deltas[t] \in TableDeltas
  BY DEF TypeOK
<1>2. /\ Strip(t, deltas[t]) \in TableDeltas
      /\ Strip(t, deltas[t]).insert_pks = deltas[t].insert_pks
      /\ Strip(t, deltas[t]).update_pks = deltas[t].update_pks
      /\ t \in options.delete_allowed => Strip(t, deltas[t]).delete_pks = deltas[t].delete_pks
      /\ t \notin options.delete_allowed => Strip(t, deltas[t]).delete_pks = {}
  BY <1>1 DEF Strip, TableDeltas
<1>3. PrimaryOperation(Strip(t, deltas[t])) \in {"insert", "update", "no_action"}
  BY DEF PrimaryOperation
<1>. QED
  BY <1>2, <1>3 DEF TablePlan, TablePlans

\* What statements for some rows of the batch leave behind.
LEMMA SomeAreWritten ==
    ASSUME TypeOK, NEW rows \in SUBSET batch.rows, WriteSome(rows)
    PROVE  /\ TargetTypeOK' /\ autocommit' = autocommit /\ identity' = identity
           /\ \A r \in Rows : session'[r] = IF r \in rows
                                            THEN NewValue(batch, batch.image, session, r)
                                            ELSE session[r]
           /\ autocommit => committed' = session'
           /\ ~autocommit => committed' = committed
<1>. DEFINE db == WriteRows(batch, batch.image, session, rows)
<1>1. batch \in [op : Operations, rows : SUBSET Rows, image : Contents] /\ TargetTypeOK
  BY DEF TypeOK
<1>2. \A r \in Rows : NewValue(batch, batch.image, session, r) \in Values \cup {Absent}
  BY <1>1 DEF NewValue, Operations, Contents, TargetTypeOK
<1>3. /\ \A r \in Rows : db[r] = IF r \in rows THEN NewValue(batch, batch.image, session, r)
                                 ELSE session[r]
      /\ db \in Contents
  BY <1>1, <1>2 DEF WriteRows, Contents, TargetTypeOK
<1>4. /\ session' = db /\ committed' = (IF autocommit THEN db ELSE committed)
      /\ autocommit' = autocommit /\ identity' = identity
  BY DEF WriteSome, RunStatements
<1>. HIDE DEF db
<1>5. TargetTypeOK'
  BY <1>1, <1>3, <1>4 DEF TargetTypeOK
<1>. QED
  BY <1>3, <1>4, <1>5

LEMMA PageIsOfBatch ==
    ASSUME TypeOK
    PROVE  Page \in SUBSET batch.rows
BY DEF Page

\* What a step of the pipeline may write: some rows of the batch, in MIGRATE.
LEMMA WritesAreOfBatch ==
    ASSUME TypeOK, [Next]_vars
    PROVE  \/ UNCHANGED <<committed, identity>> /\ session' = session /\ autocommit' = autocommit
           \/ Reconnect
           \/ /\ pc = "migrate"
              /\ \E rows \in SUBSET batch.rows : WriteSome(rows)
              /\ UNCHANGED <<source, versions, options, deltas, plans, index, work>>
<1>. USE DEF targetVars
<1>1. ASSUME WritePage PROVE WriteSome(Page) /\ pc = "migrate"
  BY <1>1 DEF WritePage
<1>2. ASSUME WriteRefused
      PROVE  \E rows \in SUBSET batch.rows : WriteSome(rows)
  <2>1. PICK done \in IF Adapter = "db2" THEN SUBSET (Page \ RefusedInPage) ELSE {{}} :
            WriteSome(done)
    BY <1>2 DEF WriteRefused
  <2>2. done \in SUBSET batch.rows
    BY PageIsOfBatch
  <2>. QED
    BY <2>1, <2>2
<1>. QED
  BY <1>1, <1>2, PageIsOfBatch
    DEF Next, Run, Step, vars, Start, Connect, Inspect, CompareTable, CompareEnds, MakePlan,
        ValidatePre, Skip, Proceed, MigrateTable, FetchBatch, WritePage, WriteRefused,
        MigrateEnds, ValidateTable, ValidateEnds, Close, StatementFails, ConnectFails,
        Crash, AppWrites, Passes, Fails

\* What a write leaves alone, and that the target keeps its types.
LEMMA TargetStaysTyped ==
    ASSUME TypeOK, [Next]_vars
    PROVE  TargetTypeOK'
<1>1. TargetTypeOK
  BY DEF TypeOK
<1>2. ASSUME UNCHANGED <<committed, identity>>, session' = session, autocommit' = autocommit
      PROVE  TargetTypeOK'
  BY <1>1, <1>2 DEF TargetTypeOK
<1>3. ASSUME Reconnect PROVE TargetTypeOK'
  BY <1>1, <1>3 DEF TargetTypeOK, Reconnect
<1>4. ASSUME NEW rows \in SUBSET batch.rows, WriteSome(rows)
      PROVE  TargetTypeOK'
  BY <1>4, SomeAreWritten
<1>. QED
  BY <1>2, <1>3, <1>4, WritesAreOfBatch

LEMMA TypesStep ==
    ASSUME TypeOK, [Next]_vars
    PROVE  TypeOK'
<1>1. /\ TargetTypeOK' /\ source \in Contents
      /\ versions \in [Rows -> SUBSET (Values \cup {Absent})]
      /\ writes \in Nat /\ faults \in Nat /\ options \in Options
      /\ pc \in {"idle", "connect", "inspect", "compare", "plan", "validate_pre",
                 "gate", "migrate", "validate_post", "close", "done"}
      /\ stages \in [Stages -> {"none", "success", "failed", "skipped"}]
      /\ success \in BOOLEAN
      /\ deltas \in [Tables -> TableDeltas]
      /\ plans \in Seq(TablePlans)
      /\ index \in Nat
      /\ work \in Seq(SliceOfKeys)
      /\ batch \in [op : Operations, rows : SUBSET Rows, image : Contents]
  BY TargetStaysTyped DEF TypeOK, TablePlans
<1>2. NoDelta \in TableDeltas /\ NoRows \in Contents
      /\ NoBatch \in [op : Operations, rows : SUBSET Rows, image : Contents]
  BY DEF NoDelta, TableDeltas, NoRows, Contents, NoBatch, Operations
<1>. DEFINE Typed(p, st, su, d, pl, i, w, b) ==
                /\ p \in {"idle", "connect", "inspect", "compare", "plan", "validate_pre",
                          "gate", "migrate", "validate_post", "close", "done"}
                /\ st \in [Stages -> {"none", "success", "failed", "skipped"}]
                /\ su \in BOOLEAN
                /\ d \in [Tables -> TableDeltas]
                /\ pl \in Seq(TablePlans)
                /\ i \in Nat
                /\ w \in Seq(SliceOfKeys)
                /\ b \in [op : Operations, rows : SUBSET Rows, image : Contents]
            OfRun == Typed(pc, stages, success, deltas, plans, index, work, batch)
            OfSource == /\ source \in Contents
                        /\ versions \in [Rows -> SUBSET (Values \cup {Absent})]
                        /\ writes \in Nat /\ faults \in Nat /\ options \in Options
<1>3. OfRun /\ OfSource
  BY <1>1
<1>. SUFFICES OfRun' /\ OfSource'
  BY <1>1 DEF TypeOK, TablePlans
<1>4. ASSUME NEW o \in Invocations, Start(o) PROVE OfRun' /\ OfSource'
  <2>1. o \in Options
    BY InvocationsAssumption
  <2>2. \A r \in Rows : {source[r]} \in SUBSET (Values \cup {Absent})
    BY <1>3 DEF Contents
  <2>. QED
    BY <1>2, <1>3, <1>4, <2>1, <2>2 DEF Start
<1>5. ASSUME Connect \/ Inspect \/ CompareEnds \/ Skip \/ Proceed \/ MigrateEnds \/ Close
      PROVE  OfRun' /\ OfSource'
  <2>1. ASSUME Inspect \/ CompareEnds \/ MigrateEnds PROVE OfRun' /\ OfSource'
    BY <1>3, <2>1 DEF Inspect, CompareEnds, MigrateEnds, Passes, Stages
  <2>2. ASSUME Connect \/ Skip \/ Proceed \/ Close PROVE OfRun' /\ OfSource'
    BY <1>3, <2>2 DEF Connect, Skip, Proceed, Close, Stages
  <2>. QED
    BY <1>5, <2>1, <2>2
<1>6. ASSUME CompareTable PROVE OfRun' /\ OfSource'
  <2>. DEFINE t == CommonTables[index + 1]
              d == Delta(source, session, t)
  <2>1. d \in TableDeltas
    BY DeltaIsTyped
  <2>2. deltas' = IF t \in SkipTables THEN deltas ELSE [deltas EXCEPT ![t] = d]
    BY <1>6 DEF CompareTable
  <2>. HIDE DEF t, d
  <2>3. deltas' \in [Tables -> TableDeltas]
    BY <1>3, <2>1, <2>2
  <2>. QED
    BY <1>3, <1>6, <2>3 DEF CompareTable
<1>7. ASSUME MakePlan PROVE OfRun' /\ OfSource'
  <2>1. \A i \in DOMAIN ByLevel : TablePlan(ByLevel[i]) \in TablePlans
    BY PlanOfTable, TablesByLevel
  <2>2. [i \in DOMAIN ByLevel |-> TablePlan(ByLevel[i])] \in Seq(TablePlans)
    BY <2>1, TablesByLevel
  <2>. QED
    BY <1>3, <1>7, <2>2 DEF MakePlan, Passes, Stages
<1>8. ASSUME MigrateTable PROVE OfRun' /\ OfSource'
  <2>1. index + 1 \in DOMAIN plans
    BY <1>3, <1>8 DEF MigrateTable
  <2>2. TableWork(plans[index + 1]) \in Seq(SliceOfKeys)
    BY <1>3, <2>1, TableWorkCovers
  <2>. QED
    BY <1>3, <1>8, <2>2 DEF MigrateTable
<1>9. ASSUME FetchBatch PROVE OfRun' /\ OfSource'
  <2>1. Head(work) \in SliceOfKeys /\ Tail(work) \in Seq(SliceOfKeys)
    BY <1>3, <1>9 DEF FetchBatch
  <2>. DEFINE rows == {Head(work).table} \X Head(work).keys
              image == [r \in Rows |-> IF r \in rows THEN source[r] ELSE Absent]
  <2>2. rows \in SUBSET Rows /\ Head(work).op \in Operations
    BY <2>1 DEF SliceOfKeys, Rows
  <2>3. image \in Contents
    BY <1>3 DEF Contents
  <2>4. batch' = IF Head(work).op = "delete"
                 THEN [op |-> Head(work).op, rows |-> rows, image |-> NoRows]
                 ELSE [op |-> Head(work).op, rows |-> rows \cap Present(source), image |-> image]
    BY <1>9 DEF FetchBatch
  <2>. HIDE DEF rows, image
  <2>5. batch' \in [op : Operations, rows : SUBSET Rows, image : Contents]
    BY <1>2, <2>2, <2>3, <2>4
  <2>. QED
    BY <1>3, <1>9, <2>1, <2>5 DEF FetchBatch
<1>10. ASSUME WritePage PROVE OfRun' /\ OfSource'
  BY <1>3, <1>10 DEF WritePage
<1>11. ASSUME WriteRefused \/ StatementFails \/ ConnectFails \/ Crash
       PROVE  OfRun' /\ OfSource'
  <2>1. ASSUME NEW stage, Fails(stage), faults' \in Nat PROVE OfRun' /\ OfSource'
    <3>1. OfRun'
      BY <1>3, <2>1 DEF Fails
    <3>2. OfSource'
      BY <1>3, <2>1 DEF Fails
    <3>. QED
      BY <3>1, <3>2
  <2>2. ASSUME ConnectFails \/ Crash PROVE OfRun' /\ OfSource'
    <3>1. /\ pc' \in {"close", "idle"} /\ success' \in BOOLEAN /\ faults' \in Nat
          /\ UNCHANGED <<source, versions, writes, options, stages, deltas, plans, index, work,
                         batch>>
      <4>1. pc' \in {"close", "idle"}
        BY <2>2 DEF ConnectFails, Crash
      <4>2. success' = FALSE \/ success' = success
        BY <2>2 DEF ConnectFails, Crash
      <4>3. faults' \in Nat
        BY <1>3, <2>2 DEF ConnectFails, Crash
      <4>4. UNCHANGED <<source, versions, writes, options, stages, deltas, plans, index, work,
                        batch>>
        BY <2>2 DEF ConnectFails, Crash
      <4>5. success' \in BOOLEAN
        BY <1>3, <4>2
      <4>. QED
        BY <4>1, <4>3, <4>4, <4>5
    <3>2. OfRun'
      BY <1>3, <3>1
    <3>3. OfSource'
      BY <1>3, <3>1
    <3>. QED
      BY <3>2, <3>3
  <2>3. WriteRefused => Fails("MIGRATE") /\ faults' \in Nat
    BY <1>3 DEF WriteRefused
  <2>4. StatementFails => Fails(StageAt[pc]) /\ faults' \in Nat
    BY <1>3 DEF StatementFails
  <2>. QED
    BY <1>11, <2>1, <2>2, <2>3, <2>4
<1>12. ASSUME ValidatePre PROVE OfRun' /\ OfSource'
  <2>1. stages' \in [Stages -> {"none", "success", "failed", "skipped"}]
        /\ pc' \in {"close", "gate"}
    BY <1>3, <1>12 DEF ValidatePre, Stages
  <2>2. success' = ~ForbiddenDeletes
    BY <1>12 DEF ValidatePre
  <2>3. success' \in BOOLEAN
    BY <2>2
  <2>. QED
    BY <1>3, <1>12, <2>1, <2>3 DEF ValidatePre
<1>13. ASSUME ValidateTable PROVE OfRun' /\ OfSource'
  BY <1>3, <1>13 DEF ValidateTable, Stages
<1>14. ASSUME ValidateEnds PROVE OfRun' /\ OfSource'
  BY <1>3, <1>14 DEF ValidateEnds, Stages
<1>15. ASSUME NEW r \in Rows, NEW v \in Values \cup {Absent}, AppWrites(r, v)
       PROVE  OfRun' /\ OfSource'
  BY <1>3, <1>15 DEF AppWrites, runVars, Contents
<1>16. ASSUME UNCHANGED vars PROVE OfRun' /\ OfSource'
  BY <1>3, <1>16 DEF vars, runVars
<1>. QED
  BY <1>4, <1>5, <1>6, <1>7, <1>8, <1>9, <1>10, <1>11, <1>12, <1>13, <1>14, <1>15,
     <1>16 DEF Next, Run, Step

LEMMA TypesInit ==
    ASSUME Init
    PROVE  TypeOK
<1>1. NoDelta \in TableDeltas /\ NoRows \in Contents
      /\ NoBatch \in [op : Operations, rows : SUBSET Rows, image : Contents]
  BY DEF NoDelta, TableDeltas, NoRows, Contents, NoBatch, Operations
<1>2. /\ source \in Contents /\ TargetTypeOK
  BY AdapterAssumption, InputsAssumption DEF Init, TargetInit, TargetTypeOK
<1>3. versions \in [Rows -> SUBSET (Values \cup {Absent})]
  BY <1>2 DEF Init, Contents
<1>4. options \in Options
  BY InvocationsAssumption DEF Init
<1>. QED
  BY <1>1, <1>2, <1>3, <1>4 DEF Init, TypeOK

\* Every variable keeps its type.
THEOREM PipelineTyped == Spec => []TypeOK
<1>1. TypeOK /\ [Next]_vars => TypeOK'
  BY TypesStep
<1>. QED
  BY <1>1, TypesInit, PTL DEF Spec

-------------------------------------------------------------------------------
(* What a step leaves alone.                                                *)

LEMMA WhoChangesWhat ==
    ASSUME [Next]_vars
    PROVE  \/ \E o \in Invocations : Start(o)
           \/ /\ options' = options
              /\ deltas' = deltas \/ CompareTable
              /\ plans' = plans \/ MakePlan
              /\ work' = work \/ MigrateTable \/ FetchBatch
              /\ batch' = batch \/ FetchBatch \/ WritePage
              /\ \/ source' = source /\ versions' = versions
                 \/ \E r \in Rows, v \in Values \cup {Absent} : AppWrites(r, v)
              /\ pc' = "migrate" => pc = "migrate" \/ Proceed
<1>. USE DEF runVars
<1>1. ASSUME Connect \/ Inspect \/ CompareTable \/ CompareEnds \/ MakePlan \/ ValidatePre
             \/ Skip \/ Proceed
      PROVE  /\ UNCHANGED <<options, work, batch, source, versions>>
             /\ deltas' = deltas \/ CompareTable
             /\ plans' = plans \/ MakePlan
             /\ pc' = "migrate" => pc = "migrate" \/ Proceed
  BY <1>1 DEF Connect, Inspect, CompareTable, CompareEnds, MakePlan, ValidatePre, Skip,
              Proceed, Passes
<1>2. ASSUME MigrateTable \/ FetchBatch \/ WritePage \/ WriteRefused \/ MigrateEnds
      PROVE  /\ UNCHANGED <<options, deltas, plans, source, versions>>
             /\ work' = work \/ MigrateTable \/ FetchBatch
             /\ batch' = batch \/ FetchBatch \/ WritePage
             /\ pc = "migrate"
  BY <1>2 DEF MigrateTable, FetchBatch, WritePage, WriteRefused, MigrateEnds, Fails, Passes
<1>3. ASSUME ValidateTable \/ ValidateEnds \/ Close \/ StatementFails \/ ConnectFails \/ Crash
      PROVE  /\ UNCHANGED <<options, deltas, plans, work, batch, source, versions>>
             /\ pc' # "migrate"
  BY <1>3 DEF ValidateTable, ValidateEnds, Close, StatementFails, ConnectFails, Crash, Fails
<1>4. ASSUME NEW r \in Rows, NEW v \in Values \cup {Absent}, AppWrites(r, v)
      PROVE  UNCHANGED <<options, deltas, plans, work, batch, pc>>
  BY <1>4 DEF AppWrites
<1>5. ASSUME UNCHANGED vars
      PROVE  UNCHANGED <<options, deltas, plans, work, batch, pc, source, versions>>
  BY <1>5 DEF vars
<1>. QED
  BY <1>1, <1>2, <1>3, <1>4, <1>5 DEF Next, Run, Step

\* A run forgets no version that it has seen.
LEMMA VersionsGrow ==
    ASSUME TypeOK, [Next]_vars
    PROVE  \/ \E o \in Invocations : Start(o)
           \/ options' = options /\ \A r \in Rows : versions[r] \subseteq versions'[r]
<1>1. ASSUME NEW q \in Rows, NEW v \in Values \cup {Absent}, AppWrites(q, v)
      PROVE  \A r \in Rows : versions[r] \subseteq versions'[r]
  <2>1. versions \in [Rows -> SUBSET (Values \cup {Absent})]
    BY DEF TypeOK
  <2>2. versions' = [versions EXCEPT ![q] = @ \cup {v}]
    BY <1>1 DEF AppWrites
  <2>. QED
    BY <2>1, <2>2
<1>. QED
  BY <1>1, WhoChangesWhat

-------------------------------------------------------------------------------
(* Deletes, and other writes: who may do what.                              *)

\* Where rows may be deleted.
MayDelete(r) ==
    /\ Absent \in versions[r]
    /\ r[1] \in options.delete_allowed /\ options.confirm_deletes

TargetIsDurable ==
    /\ autocommit = (Adapter = "postgresql")
    /\ autocommit => committed = session

SourceIsSeen == \A r \in Rows : source[r] \in versions[r]

DeltasAreSound ==
    \A t \in Tables : \A k \in deltas[t].delete_pks : Absent \in versions[<<t, k>>]

PlansAreSound ==
    \A i \in DOMAIN plans :
        /\ plans[i].table \in Compared
        /\ \A k \in plans[i].delta.delete_pks :
            /\ Absent \in versions[<<plans[i].table, k>>]
            /\ plans[i].table \in options.delete_allowed

RunIsConfirmed ==
    pc = "migrate" =>
        /\ ~options.dry_run /\ options.confirm
        /\ \A i \in DOMAIN plans : plans[i].delta.delete_pks # {} => options.confirm_deletes

WorkIsSound ==
    \A i \in DOMAIN work :
        /\ work[i].table \in Compared
        /\ work[i].op = "delete" => \A k \in work[i].keys : MayDelete(<<work[i].table, k>>)

BatchIsSound ==
    \A r \in batch.rows :
        /\ Covered(r)
        /\ batch.op = "delete" => MayDelete(r)
        /\ batch.op # "delete" => batch.image[r] # Absent /\ batch.image[r] \in versions[r]

SoundInv ==
    /\ TargetIsDurable /\ SourceIsSeen /\ DeltasAreSound /\ PlansAreSound
    /\ RunIsConfirmed /\ WorkIsSound /\ BatchIsSound

LEMMA SoundInit ==
    ASSUME Init
    PROVE  SoundInv
<1>1. TypeOK
  BY TypesInit
<1>. QED
  BY <1>1 DEF Init, SoundInv, TargetInit, TargetIsDurable, SourceIsSeen, DeltasAreSound,
              PlansAreSound, RunIsConfirmed, WorkIsSound, BatchIsSound, NoDelta, NoBatch

LEMMA DurableStep ==
    ASSUME TypeOK, TargetIsDurable, [Next]_vars
    PROVE  TargetIsDurable'
<1>1. ASSUME NEW rows \in SUBSET batch.rows, WriteSome(rows)
      PROVE  TargetIsDurable'
  BY <1>1, SomeAreWritten DEF TargetIsDurable
<1>2. ASSUME Reconnect PROVE TargetIsDurable'
  BY <1>2 DEF TargetIsDurable, Reconnect
<1>3. ASSUME UNCHANGED <<committed, identity>>, session' = session, autocommit' = autocommit
      PROVE  TargetIsDurable'
  BY <1>3 DEF TargetIsDurable
<1>. QED
  BY <1>1, <1>2, <1>3, WritesAreOfBatch

\* A run that starts has nothing in mind yet.
LEMMA StartIsSound ==
    ASSUME TypeOK, NEW o \in Invocations, Start(o)
    PROVE  SourceIsSeen' /\ DeltasAreSound' /\ PlansAreSound' /\ RunIsConfirmed'
           /\ WorkIsSound' /\ BatchIsSound'
<1>1. /\ versions' = [r \in Rows |-> {source[r]}] /\ source' = source
      /\ deltas' = [t \in Tables |-> NoDelta] /\ plans' = <<>> /\ work' = <<>>
      /\ batch' = NoBatch /\ pc' = "connect"
  BY DEF Start
<1>2. SourceIsSeen'
  BY <1>1 DEF SourceIsSeen
<1>3. DeltasAreSound'
  BY <1>1 DEF DeltasAreSound, NoDelta
<1>4. PlansAreSound' /\ RunIsConfirmed' /\ WorkIsSound'
  BY <1>1 DEF PlansAreSound, RunIsConfirmed, WorkIsSound
<1>5. BatchIsSound'
  BY <1>1 DEF BatchIsSound, NoBatch
<1>. QED
  BY <1>2, <1>3, <1>4, <1>5

LEMMA PlansAreTyped ==
    ASSUME TypeOK
    PROVE  /\ plans \in Seq(TablePlans) /\ DOMAIN plans = 1 .. Len(plans) /\ Len(plans) \in Nat
           /\ \A i \in DOMAIN plans :
                /\ plans[i] \in TablePlans /\ plans[i].table \in Tables
                /\ plans[i].delta.insert_pks \in SUBSET Keys
                /\ plans[i].delta.update_pks \in SUBSET Keys
                /\ plans[i].delta.delete_pks \in SUBSET Keys
<1>1. plans \in Seq(TablePlans)
  BY DEF TypeOK, TablePlans
<1>2. \A p \in TablePlans :
        /\ p.table \in Tables
        /\ p.delta.insert_pks \in SUBSET Keys
        /\ p.delta.update_pks \in SUBSET Keys
        /\ p.delta.delete_pks \in SUBSET Keys
  BY DEF TablePlans, TableDeltas
<1>3. DOMAIN plans = 1 .. Len(plans) /\ Len(plans) \in Nat
      /\ \A i \in DOMAIN plans : plans[i] \in TablePlans
  BY <1>1
<1>. QED
  BY <1>1, <1>2, <1>3

LEMMA SoundStep ==
    ASSUME TypeOK, SoundInv, [Next]_vars
    PROVE  SoundInv'
<1>1. TargetIsDurable'
  BY DurableStep DEF SoundInv
<1>2. ASSUME NEW o \in Invocations, Start(o) PROVE SoundInv'
  BY <1>1, <1>2, StartIsSound DEF SoundInv
<1>3. SUFFICES ASSUME ~\E o \in Invocations : Start(o)
               PROVE  SoundInv'
  BY <1>2
<1>4. /\ options' = options
      /\ \A r \in Rows : versions[r] \subseteq versions'[r]
  BY <1>3, VersionsGrow
<1>5. \A r \in Rows : MayDelete(r) => MayDelete(r)'
  BY <1>4 DEF MayDelete
<1>6. /\ deltas' = deltas \/ CompareTable
      /\ plans' = plans \/ MakePlan
      /\ work' = work \/ MigrateTable \/ FetchBatch
      /\ batch' = batch \/ FetchBatch \/ WritePage
      /\ \/ source' = source /\ versions' = versions
         \/ \E r \in Rows, v \in Values \cup {Absent} : AppWrites(r, v)
      /\ pc' = "migrate" => pc = "migrate" \/ Proceed
  BY <1>3, WhoChangesWhat
<1>7. \A t \in Tables, k \in Keys : <<t, k>> \in Rows
  BY DEF Rows
<1>8. SourceIsSeen'
  <2>1. ASSUME NEW r \in Rows, NEW v \in Values \cup {Absent}, AppWrites(r, v)
        PROVE  SourceIsSeen'
    <3>1. versions \in [Rows -> SUBSET (Values \cup {Absent})] /\ source \in Contents
      BY DEF TypeOK
    <3>2. source' = [source EXCEPT ![r] = v] /\ versions' = [versions EXCEPT ![r] = @ \cup {v}]
      BY <2>1 DEF AppWrites
    <3>. QED
      BY <3>1, <3>2 DEF SoundInv, SourceIsSeen, Contents
  <2>2. ASSUME source' = source, versions' = versions PROVE SourceIsSeen'
    BY <2>2 DEF SoundInv, SourceIsSeen
  <2>. QED
    BY <1>6, <2>1, <2>2
<1>9. DeltasAreSound'
  <2>1. deltas \in [Tables -> TableDeltas] /\ \A t \in Tables : deltas[t].delete_pks \in SUBSET Keys
    BY DEF TypeOK, TableDeltas
  <2>2. ASSUME deltas' = deltas PROVE DeltasAreSound'
    BY <1>4, <1>7, <2>1, <2>2 DEF SoundInv, DeltasAreSound
  <2>3. ASSUME CompareTable PROVE DeltasAreSound'
    <3>. DEFINE u == CommonTables[index + 1]
                d == Delta(source, session, u)
    <3>1. deltas' = (IF u \in SkipTables THEN deltas ELSE [deltas EXCEPT ![u] = d])
          /\ versions' = versions
      BY <2>3 DEF CompareTable
    <3>2. \A k \in d.delete_pks : k \in Keys /\ source[<<u, k>>] = Absent
      BY DEF Delta, KeysOf
    <3>. HIDE DEF u, d
    <3>3. ASSUME NEW t \in Tables
          PROVE  deltas'[t] = deltas[t] \/ (t = u /\ deltas'[t] = d)
      BY <2>1, <3>1
    <3>4. ASSUME u \in Tables, NEW k \in d.delete_pks
          PROVE  Absent \in versions[<<u, k>>]
      BY <1>7, <3>2, <3>4 DEF SoundInv, SourceIsSeen
    <3>. QED
      BY <3>1, <3>3, <3>4 DEF SoundInv, DeltasAreSound
  <2>. QED
    BY <1>6, <2>2, <2>3
<1>10. PlansAreSound'
  <2>1. ASSUME plans' = plans PROVE PlansAreSound'
    BY <1>4, <1>7, <2>1, PlansAreTyped DEF SoundInv, PlansAreSound
  <2>2. ASSUME MakePlan PROVE PlansAreSound'
    <3>1. plans' = [i \in DOMAIN ByLevel |-> TablePlan(ByLevel[i])] /\ versions' = versions
      BY <2>2 DEF MakePlan, Passes
    <3>2. \A i \in DOMAIN ByLevel : ByLevel[i] \in Compared /\ ByLevel[i] \in Tables
      BY TablesByLevel
    <3>3. ASSUME NEW t \in Tables, NEW k \in TablePlan(t).delta.delete_pks
          PROVE  t \in options.delete_allowed /\ Absent \in versions[<<t, k>>]
      BY <3>3, PlanOfTable DEF SoundInv, DeltasAreSound
    <3>4. \A t \in Tables : TablePlan(t).table = t
      BY PlanOfTable
    <3>. QED
      BY <1>4, <3>1, <3>2, <3>3, <3>4 DEF PlansAreSound
  <2>. QED
    BY <1>6, <2>1, <2>2
<1>11. RunIsConfirmed'
  <2>1. ASSUME Proceed PROVE RunIsConfirmed'
    <3>1. MayMigrate /\ options' = options /\ plans' = plans
      BY <2>1 DEF Proceed
    <3>. QED
      BY <3>1 DEF RunIsConfirmed, MayMigrate, RequiresDeleteConfirmation, IsEmpty
  <2>2. ASSUME pc = "migrate", pc' = "migrate" PROVE RunIsConfirmed'
    <3>1. plans' = plans
      BY <1>6, <2>2 DEF MakePlan
    <3>. QED
      BY <1>4, <2>2, <3>1 DEF SoundInv, RunIsConfirmed
  <2>. QED
    BY <1>6, <2>1, <2>2 DEF RunIsConfirmed
<1>12. WorkIsSound'
  <2>1. /\ work \in Seq(SliceOfKeys)
        /\ \A i \in DOMAIN work : work[i] \in SliceOfKeys
    BY DEF TypeOK
  <2>2. \A i \in DOMAIN work : \A k \in work[i].keys : <<work[i].table, k>> \in Rows
    BY <1>7, <2>1 DEF SliceOfKeys
  <2>3. ASSUME work' = work PROVE WorkIsSound'
    BY <1>5, <2>2, <2>3 DEF SoundInv, WorkIsSound
  <2>4. ASSUME FetchBatch PROVE WorkIsSound'
    <3>1. work # <<>> /\ work' = Tail(work)
      BY <2>4 DEF FetchBatch
    <3>2. \A i \in DOMAIN work' : i + 1 \in DOMAIN work /\ work'[i] = work[i + 1]
      BY <2>1, <3>1
    <3>. QED
      BY <1>5, <2>2, <3>2 DEF SoundInv, WorkIsSound
  <2>5. ASSUME MigrateTable PROVE WorkIsSound'
    <3>1. /\ work' = TableWork(plans[index + 1]) /\ pc = "migrate"
          /\ index + 1 \in DOMAIN plans
      <4>1. index \in Nat
        BY DEF TypeOK
      <4>. QED
        BY <2>5, <4>1, PlansAreTyped DEF MigrateTable
    <3>2. PICK p \in TablePlans : p = plans[index + 1]
      BY <3>1, PlansAreTyped
    <3>3. \A i \in DOMAIN work' :
            /\ work'[i].table = p.table
            /\ work'[i].op = "delete" => work'[i].keys \subseteq p.delta.delete_pks
      BY <3>1, <3>2, TableWorkCovers DEF PksOf
    <3>4. /\ p.table \in Compared
          /\ \A k \in p.delta.delete_pks : MayDelete(<<p.table, k>>)
      BY <3>1, <3>2 DEF SoundInv, PlansAreSound, RunIsConfirmed, MayDelete
    <3>5. p.table \in Tables /\ p.delta.delete_pks \in SUBSET Keys
      BY <3>1, <3>2, PlansAreTyped
    <3>6. \A k \in p.delta.delete_pks : MayDelete(<<p.table, k>>)'
      BY <1>5, <1>7, <3>4, <3>5
    <3>. QED
      BY <3>3, <3>4, <3>6 DEF WorkIsSound
  <2>. QED
    BY <1>6, <2>3, <2>4, <2>5
<1>13. BatchIsSound'
  <2>1. batch \in [op : Operations, rows : SUBSET Rows, image : Contents]
    BY DEF TypeOK
  <2>2. ASSUME batch'.op = batch.op, batch'.image = batch.image, batch'.rows \subseteq batch.rows
        PROVE  BatchIsSound'
    BY <1>4, <1>5, <2>1, <2>2 DEF SoundInv, BatchIsSound, Covered
  <2>3. ASSUME WritePage PROVE BatchIsSound'
    <3>1. batch' = [batch EXCEPT !.rows = @ \ Page]
      BY <2>3 DEF WritePage
    <3>. QED
      BY <2>1, <2>2, <3>1
  <2>4. ASSUME FetchBatch PROVE BatchIsSound'
    <3>. DEFINE slice == Head(work)
                rows == {slice.table} \X slice.keys
                image == [r \in Rows |-> IF r \in rows THEN source[r] ELSE Absent]
    <3>1. /\ work # <<>> /\ versions' = versions
          /\ batch' = IF slice.op = "delete"
                      THEN [op |-> slice.op, rows |-> rows, image |-> NoRows]
                      ELSE [op |-> slice.op, rows |-> rows \cap Present(source), image |-> image]
      BY <2>4 DEF FetchBatch
    <3>2. /\ slice \in SliceOfKeys /\ slice.table \in Compared
          /\ slice.op = "delete" => \A k \in slice.keys : MayDelete(<<slice.table, k>>)
      <4>1. work \in Seq(SliceOfKeys)
        BY DEF TypeOK
      <4>2. 1 \in DOMAIN work /\ slice = work[1] /\ work[1] \in SliceOfKeys
        BY <3>1, <4>1
      <4>. QED
        BY <4>2 DEF SoundInv, WorkIsSound
    <3>. HIDE DEF slice
    <3>3. ASSUME NEW r \in rows
          PROVE  /\ r \in Rows /\ Covered(r)
                 /\ slice.op = "delete" => MayDelete(r)
                 /\ r \in Present(source) => image[r] # Absent /\ image[r] \in versions[r]
      <4>1. r[1] = slice.table /\ r[2] \in slice.keys /\ r = <<slice.table, r[2]>>
        OBVIOUS
      <4>2. r \in Rows /\ Covered(r) /\ (slice.op = "delete" => MayDelete(r))
        BY <3>2, <4>1 DEF SliceOfKeys, Rows, Covered
      <4>3. r \in Present(source) => source[r] # Absent /\ source[r] \in versions[r]
        BY <4>2 DEF Present, SoundInv, SourceIsSeen
      <4>. QED
        BY <4>2, <4>3
    <3>. HIDE DEF rows, image
    <3>4. /\ batch'.op = slice.op
          /\ batch'.rows = IF slice.op = "delete" THEN rows ELSE rows \cap Present(source)
          /\ slice.op # "delete" => batch'.image = image
      BY <3>1
    <3>5. ASSUME NEW r \in batch'.rows
          PROVE  /\ Covered(r)
                 /\ batch'.op = "delete" => MayDelete(r)'
                 /\ batch'.op # "delete" =>
                        batch'.image[r] # Absent /\ batch'.image[r] \in versions'[r]
      <4>1. r \in rows /\ (slice.op # "delete" => r \in Present(source))
        BY <3>4, <3>5
      <4>2. r \in Rows /\ Covered(r) /\ (slice.op = "delete" => MayDelete(r))
        BY <3>3, <4>1
      <4>3. slice.op = "delete" => MayDelete(r)'
        BY <1>5, <4>2
      <4>4. slice.op # "delete" => image[r] # Absent /\ image[r] \in versions'[r]
        BY <3>1, <3>3, <4>1
      <4>. QED
        BY <3>4, <4>2, <4>3, <4>4
    <3>. QED
      BY <3>5 DEF BatchIsSound, Covered
  <2>. QED
    BY <1>6, <2>2, <2>3, <2>4
<1>. QED
  BY <1>1, <1>8, <1>9, <1>10, <1>11, <1>12, <1>13 DEF SoundInv

\* In every run what is to be written can be traced back: deltas, plans, slices
\* and batch list only compared rows, a delete among them only where the flags
\* allow it and the row was seen to be missing, other values only as the source
\* had them; MIGRATE is reached only confirmed; and the target's contents are
\* durable whenever its session commits each statement.
THEOREM PipelineSound == Spec => [](TypeOK /\ SoundInv)
<1>1. Init => TypeOK /\ SoundInv
  BY TypesInit, SoundInit
<1>2. TypeOK /\ SoundInv /\ [Next]_vars => (TypeOK /\ SoundInv)'
  BY TypesStep, SoundStep
<1>. QED
  BY <1>1, <1>2, PTL DEF Spec

\* What is durable changes by a write of the batch alone.
LEMMA DurableWrites ==
    ASSUME TypeOK, SoundInv, [Next]_vars, NEW r \in Rows, committed'[r] # committed[r]
    PROVE  /\ pc = "migrate" /\ Covered(r)
           /\ committed'[r] = Absent => MayDelete(r)
<1>1. /\ pc = "migrate"
      /\ \E rows \in SUBSET batch.rows : WriteSome(rows)
  <2>1. committed' # committed
    OBVIOUS
  <2>2. ~Reconnect
    BY <2>1 DEF Reconnect
  <2>. QED
    BY <2>1, <2>2, WritesAreOfBatch
<1>2. PICK rows \in SUBSET batch.rows : WriteSome(rows)
  BY <1>1
<1>3. /\ committed'[r] = (IF r \in rows THEN NewValue(batch, batch.image, session, r)
                          ELSE session[r])
      /\ committed = session
  BY <1>2, SomeAreWritten DEF SoundInv, TargetIsDurable
<1>4. r \in batch.rows /\ committed'[r] = NewValue(batch, batch.image, session, r)
  BY <1>3
<1>5. /\ Covered(r)
      /\ batch.op = "delete" => MayDelete(r)
      /\ batch.op # "delete" => batch.image[r] # Absent
  BY <1>4 DEF SoundInv, BatchIsSound
<1>6. batch.op \in Operations
  BY DEF TypeOK
<1>7. committed'[r] = Absent => batch.op = "delete"
  BY <1>3, <1>4, <1>5, <1>6 DEF NewValue, Operations
<1>. QED
  BY <1>1, <1>5, <1>7

\* What is durable changes only in a confirmed run that is not a dry run, only
\* in tables that are compared, and rows go away only where the profile and the
\* flags allow deletes: MIGRATE begins behind the confirmations, and every
\* delete of its slices goes back to a plan from which forbidden ones are stripped.
THEOREM OnlyConfirmedRunsWrite == Spec => OnlyConfirmedWrites
<1>1. ASSUME TypeOK, SoundInv, [Next]_vars, NEW r \in Rows, committed'[r] # committed[r]
      PROVE  /\ ~options.dry_run /\ options.confirm /\ Covered(r)
             /\ committed'[r] = Absent =>
                    options.confirm_deletes /\ r[1] \in options.delete_allowed
  BY <1>1, DurableWrites DEF SoundInv, RunIsConfirmed, MayDelete
<1>2. TypeOK /\ SoundInv /\ [Next]_vars =>
        \A r \in Rows : committed'[r] # committed[r] =>
            /\ ~options.dry_run /\ options.confirm /\ Covered(r)
            /\ committed'[r] = Absent =>
                    options.confirm_deletes /\ r[1] \in options.delete_allowed
  BY <1>1
<1>. QED
  BY <1>2, PipelineSound, PTL DEF Spec, OnlyConfirmedWrites

\* A row that was in the source all through the run is not deleted, however old
\* the delta has grown: a delete in hand was seen to be missing in this run.
THEOREM KeptRowsStay == Spec => KeptRowsSurvive
<1>1. ASSUME TypeOK, SoundInv, [Next]_vars, NEW r \in Rows,
             committed[r] # Absent, committed'[r] = Absent
      PROVE  Absent \in versions[r]
  BY <1>1, DurableWrites DEF MayDelete
<1>2. TypeOK /\ SoundInv /\ [Next]_vars =>
        \A r \in Rows :
            committed[r] # Absent /\ committed'[r] = Absent => Absent \in versions[r]
  BY <1>1
<1>. QED
  BY <1>2, PipelineSound, PTL DEF Spec, KeptRowsSurvive

-------------------------------------------------------------------------------
(* What a run has still to do.                                              *)

InPlan(i, op, r) == plans[i].table = r[1] /\ r[2] \in PksOf(plans[i].delta, op)

InWork(op, r) ==
    \E i \in DOMAIN work : work[i].op = op /\ work[i].table = r[1] /\ r[2] \in work[i].keys

InBatch(op, r) == batch.op = op /\ r \in batch.rows

\* Where a row is listed, from COMPARE to the end of MIGRATE.
ToDo(op, r) ==
    \/ pc \in {"compare", "plan"} /\ r[2] \in PksOf(deltas[r[1]], op)
    \/ pc \in {"validate_pre", "gate"} /\ \E i \in DOMAIN plans : InPlan(i, op, r)
    \/ /\ pc = "migrate"
       /\ \/ InBatch(op, r)
          \/ InWork(op, r)
          \/ \E i \in DOMAIN plans : index < i /\ InPlan(i, op, r)

\* What the target lacks is listed.
Owed(r) ==
    /\ Absent \notin versions[r] =>
        \/ session[r] \in versions[r]
        \/ ToDo("insert", r)
        \/ ToDo("update", r) /\ session[r] # Absent
    /\ versions[r] = {Absent} /\ r[1] \in options.delete_allowed =>
        session[r] = Absent \/ ToDo("delete", r)

\* From when on that can be said of a table.  With DB2, whose session is not
\* durable, it ends with MIGRATE.
Reached(t) ==
    \/ pc = "compare" /\ \E i \in 1 .. index : i \in DOMAIN CommonTables /\ CommonTables[i] = t
    \/ pc \in {"plan", "validate_pre", "gate", "migrate"}
    \/ /\ pc \in {"validate_post", "close", "done"} /\ stages["MIGRATE"] = "success"
       /\ Adapter = "postgresql"

CompareBegins == pc \in {"connect", "inspect"} => index = 0

MigrateHasEnded ==
    stages["MIGRATE"] = "success" => pc \in {"validate_post", "close", "done", "idle"}

NothingIsMissed == \A r \in Rows : Covered(r) /\ Reached(r[1]) => Owed(r)

CopyInv == CompareBegins /\ MigrateHasEnded /\ NothingIsMissed

LEMMA CopyInit ==
    ASSUME Init
    PROVE  CopyInv
BY DEF Init, CopyInv, CompareBegins, MigrateHasEnded, NothingIsMissed, Reached, Stages

LEMMA CompareBeginsStep ==
    ASSUME TypeOK, CompareBegins, [Next]_vars
    PROVE  CompareBegins'
<1>1. ASSUME NEW o \in Invocations, Start(o) PROVE CompareBegins'
  BY <1>1 DEF Start, CompareBegins
<1>2. ASSUME NEW r \in Rows, NEW v \in Values \cup {Absent}, AppWrites(r, v)
      PROVE  CompareBegins'
  BY <1>2 DEF AppWrites, runVars, CompareBegins
<1>3. ASSUME UNCHANGED vars PROVE CompareBegins'
  BY <1>3 DEF vars, runVars, CompareBegins
<1>4. ASSUME Connect PROVE CompareBegins'
  BY <1>4 DEF Connect, CompareBegins
<1>5. ASSUME Step \/ StatementFails \/ ConnectFails \/ Crash, ~Connect PROVE CompareBegins'
  <2>1. pc' \notin {"connect", "inspect"}
    BY <1>5 DEF Step, StatementFails, ConnectFails, Crash, Inspect, CompareTable, CompareEnds,
                MakePlan, ValidatePre, Skip, Proceed, MigrateTable, FetchBatch, WritePage,
                WriteRefused, MigrateEnds, ValidateTable, ValidateEnds, Close, Passes, Fails
  <2>. QED
    BY <2>1 DEF CompareBegins
<1>. QED
  BY <1>1, <1>2, <1>3, <1>4, <1>5 DEF Next, Run

LEMMA MigrateHasEndedStep ==
    ASSUME TypeOK, MigrateHasEnded, [Next]_vars
    PROVE  MigrateHasEnded'
<1>1. stages \in [Stages -> {"none", "success", "failed", "skipped"}] /\ "MIGRATE" \in Stages
  BY DEF TypeOK, Stages
<1>2. ASSUME NEW o \in Invocations, Start(o) PROVE MigrateHasEnded'
  BY <1>1, <1>2 DEF Start, MigrateHasEnded
<1>3. ASSUME UNCHANGED <<stages, pc>> PROVE MigrateHasEnded'
  BY <1>3 DEF MigrateHasEnded
<1>4. ASSUME Connect \/ Inspect \/ CompareEnds \/ MakePlan \/ ValidatePre \/ Skip \/ Proceed
             \/ ConnectFails
      PROVE  MigrateHasEnded'
  <2>1. stages["MIGRATE"] # "success"
    BY <1>4 DEF Connect, Inspect, CompareEnds, MakePlan, ValidatePre, Skip, Proceed,
                ConnectFails, MigrateHasEnded
  <2>2. stages'["MIGRATE"] \in {stages["MIGRATE"], "skipped"}
    BY <1>1, <1>4 DEF Connect, Inspect, CompareEnds, MakePlan, ValidatePre, Skip, Proceed,
                ConnectFails, Passes
  <2>. QED
    BY <2>1, <2>2 DEF MigrateHasEnded
<1>5. ASSUME CompareTable \/ MigrateTable \/ FetchBatch \/ WritePage
      PROVE  MigrateHasEnded'
  BY <1>3, <1>5 DEF CompareTable, MigrateTable, FetchBatch, WritePage
<1>6. ASSUME WriteRefused \/ MigrateEnds \/ ValidateTable \/ ValidateEnds \/ Close
             \/ StatementFails \/ Crash
      PROVE  MigrateHasEnded'
  <2>1. pc' \in {"validate_post", "close", "done", "idle"}
    BY <1>6 DEF WriteRefused, MigrateEnds, ValidateTable, ValidateEnds, Close, StatementFails,
                Crash, Passes, Fails
  <2>. QED
    BY <2>1 DEF MigrateHasEnded
<1>7. ASSUME NEW r \in Rows, NEW v \in Values \cup {Absent}, AppWrites(r, v)
      PROVE  MigrateHasEnded'
  BY <1>3, <1>7 DEF AppWrites, runVars
<1>8. ASSUME UNCHANGED vars PROVE MigrateHasEnded'
  BY <1>3, <1>8 DEF vars, runVars
<1>. QED
  BY <1>2, <1>4, <1>5, <1>6, <1>7, <1>8 DEF Next, Run, Step

\* A step that neither writes nor takes what is still to do from the lists.
LEMMA OwedStays ==
    ASSUME NEW r \in Rows, Owed(r), session'[r] = session[r], versions'[r] = versions[r],
           options' = options,
           Absent \notin versions[r] => /\ ToDo("insert", r) => ToDo("insert", r)'
                                        /\ ToDo("update", r) => ToDo("update", r)',
           r[1] \in options.delete_allowed => (ToDo("delete", r) => ToDo("delete", r)')
    PROVE  Owed(r)'
BY DEF Owed

\* The comparison lists all differences of its table.
LEMMA OwedByCompare ==
    ASSUME TypeOK, SourceIsSeen, CompareTable,
           NEW r \in Rows, Covered(r), Reached(r[1])', Reached(r[1]) => Owed(r)
    PROVE  Owed(r)'
<1>. DEFINE t == CommonTables[index + 1]
            d == Delta(source, session, t)
<1>1. /\ pc = "compare" /\ pc' = "compare" /\ index' = index + 1
      /\ session' = session /\ versions' = versions /\ options' = options
      /\ deltas' = IF t \in SkipTables THEN deltas ELSE [deltas EXCEPT ![t] = d]
  BY DEF CompareTable, targetVars
<1>2. r[1] \in Tables /\ r[2] \in Keys /\ r = <<r[1], r[2]>>
  BY DEF Rows
<1>3. r[1] \notin SkipTables
  BY DEF Covered, Compared
<1>4. deltas \in [Tables -> TableDeltas] /\ index \in Nat
  BY DEF TypeOK
<1>5. ASSUME r[1] = t PROVE Owed(r)'
  <2>. DEFINE new == deltas'[r[1]]
  <2>1. new = Delta(source, session, r[1])
    BY <1>1, <1>2, <1>3, <1>4, <1>5
  <2>2. source[r] \in versions[r]
    BY DEF SourceIsSeen
  <2>3. /\ source[r] # Absent /\ session[r] = Absent => r[2] \in PksOf(new, "insert")
        /\ source[r] # Absent /\ session[r] # Absent /\ source[r] # session[r]
            => r[2] \in PksOf(new, "update")
        /\ source[r] = Absent /\ session[r] # Absent => r[2] \in PksOf(new, "delete")
    BY <1>2, <2>1 DEF PksOf, Delta, KeysOf
  <2>. HIDE DEF new
  <2>4. /\ r[2] \in PksOf(new, "insert") => ToDo("insert", r)'
        /\ r[2] \in PksOf(new, "update") => ToDo("update", r)'
        /\ r[2] \in PksOf(new, "delete") => ToDo("delete", r)'
    BY <1>1 DEF ToDo, new
  <2>. QED
    BY <1>1, <2>2, <2>3, <2>4 DEF Owed
<1>6. ASSUME r[1] # t PROVE Owed(r)'
  <2>1. Reached(r[1])
    <3>1. PICK i \in 1 .. index + 1 : i \in DOMAIN CommonTables /\ CommonTables[i] = r[1]
      BY <1>1 DEF Reached
    <3>2. i \in 1 .. index
      BY <1>4, <1>6, <3>1
    <3>. QED
      BY <1>1, <3>1, <3>2 DEF Reached
  <2>2. deltas'[r[1]] = deltas[r[1]]
    BY <1>1, <1>2, <1>4, <1>6
  <2>3. \A op \in Operations : ToDo(op, r) => ToDo(op, r)'
    BY <1>1, <2>2 DEF ToDo
  <2>. QED
    BY <1>1, <2>1, <2>3, OwedStays DEF Operations
<1>. QED
  BY <1>5, <1>6

\* A plan lists what the deltas list, but for deletes that are not allowed.
LEMMA OwedByPlan ==
    ASSUME TypeOK, MakePlan, NEW r \in Rows, Covered(r), Owed(r)
    PROVE  Owed(r)'
<1>1. /\ pc = "plan" /\ pc' = "validate_pre"
      /\ plans' = [i \in DOMAIN ByLevel |-> TablePlan(ByLevel[i])]
      /\ session' = session /\ versions' = versions /\ options' = options
  BY DEF MakePlan, Passes, targetVars
<1>2. r[1] \in Tables /\ r[1] \in Compared
  BY DEF Rows, Covered
<1>3. PICK i \in DOMAIN ByLevel : ByLevel[i] = r[1]
  BY <1>2, TablesByLevel
<1>4. i \in DOMAIN plans' /\ plans'[i] = TablePlan(r[1])
  BY <1>1, <1>3
<1>5. /\ plans'[i].table = r[1]
      /\ plans'[i].delta.insert_pks = deltas[r[1]].insert_pks
      /\ plans'[i].delta.update_pks = deltas[r[1]].update_pks
      /\ r[1] \in options.delete_allowed => plans'[i].delta.delete_pks = deltas[r[1]].delete_pks
  BY <1>2, <1>4, PlanOfTable
<1>6. ASSUME NEW op \in Operations, ToDo(op, r),
             op = "delete" => r[1] \in options.delete_allowed
      PROVE  ToDo(op, r)'
  <2>1. r[2] \in PksOf(deltas[r[1]], op)
    BY <1>1, <1>6 DEF ToDo
  <2>2. InPlan(i, op, r)'
    BY <1>5, <1>6, <2>1 DEF InPlan, PksOf, Operations
  <2>. QED
    BY <1>1, <1>4, <2>2 DEF ToDo
<1>. QED
  BY <1>1, <1>6, OwedStays DEF Operations

\* The slices of a table list what its plan lists.
LEMMA ListedByTable ==
    ASSUME TypeOK, MigrateTable, NEW r \in Rows, NEW op \in Operations, ToDo(op, r)
    PROVE  ToDo(op, r)'
<1>1. /\ pc = "migrate" /\ pc' = "migrate" /\ index' = index + 1 /\ plans' = plans
      /\ work = <<>> /\ batch.rows = {}
      /\ work' = TableWork(plans[index + 1]) /\ index \in Nat /\ index < Len(plans)
  BY DEF MigrateTable, TypeOK
<1>2. PICK i \in DOMAIN plans : index < i /\ InPlan(i, op, r)
  BY <1>1 DEF ToDo, InBatch, InWork
<1>3. i \in Nat /\ index + 1 \in DOMAIN plans
  BY <1>1, <1>2, PlansAreTyped
<1>4. ASSUME i = index + 1 PROVE InWork(op, r)'
  <2>1. PICK p \in TablePlans : p = plans[i]
    BY PlansAreTyped
  <2>2. p.table = r[1] /\ r[2] \in PksOf(p.delta, op)
    BY <1>2, <2>1 DEF InPlan
  <2>3. work' = TableWork(p)
    BY <1>1, <1>4, <2>1
  <2>4. \E j \in DOMAIN TableWork(p) : /\ TableWork(p)[j].op = op
                                       /\ TableWork(p)[j].table = r[1]
                                       /\ r[2] \in TableWork(p)[j].keys
    <3>1. /\ \A j \in DOMAIN TableWork(p) : TableWork(p)[j].table = p.table
          /\ \A k \in PksOf(p.delta, op) : \E j \in DOMAIN TableWork(p) :
                TableWork(p)[j].op = op /\ k \in TableWork(p)[j].keys
      BY <2>1, TableWorkCovers, SMTT(40)
    <3>2. PICK j \in DOMAIN TableWork(p) :
            TableWork(p)[j].op = op /\ r[2] \in TableWork(p)[j].keys
      BY <2>2, <3>1
    <3>. QED
      BY <2>2, <3>1, <3>2
  <2>. QED
    BY <2>3, <2>4 DEF InWork
<1>5. ASSUME i # index + 1 PROVE i \in DOMAIN plans' /\ index' < i /\ InPlan(i, op, r)'
  BY <1>1, <1>2, <1>3, <1>5 DEF InPlan
<1>. QED
  BY <1>1, <1>4, <1>5 DEF ToDo

\* The batch lists what its slice lists, but for inserts and updates of rows
\* that are gone.
LEMMA ListedByBatch ==
    ASSUME TypeOK, FetchBatch, NEW r \in Rows, NEW op \in Operations, ToDo(op, r),
           op = "delete" \/ source[r] # Absent
    PROVE  ToDo(op, r)'
<1>. DEFINE slice == Head(work)
            rows == {slice.table} \X slice.keys
<1>1. /\ pc = "migrate" /\ pc' = "migrate" /\ index' = index /\ plans' = plans
      /\ batch.rows = {} /\ work # <<>> /\ work' = Tail(work)
      /\ batch'.op = slice.op
      /\ batch'.rows = IF slice.op = "delete" THEN rows ELSE rows \cap Present(source)
  BY DEF FetchBatch
<1>2. /\ work \in Seq(SliceOfKeys) /\ slice = work[1] /\ slice \in SliceOfKeys
      /\ DOMAIN work = 1 .. Len(work) /\ Len(work) \in Nat
      /\ DOMAIN work' = 1 .. Len(work) - 1
      /\ \A j \in DOMAIN work' : work'[j] = work[j + 1]
  BY <1>1 DEF TypeOK
<1>. HIDE DEF slice
<1>3. ASSUME InWork(op, r) PROVE InWork(op, r)' \/ InBatch(op, r)'
  <2>1. PICK i \in DOMAIN work : /\ work[i].op = op /\ work[i].table = r[1]
                                 /\ r[2] \in work[i].keys
    BY <1>3 DEF InWork
  <2>2. ASSUME i = 1 PROVE InBatch(op, r)'
    <3>1. slice.op = op /\ r[1] = slice.table /\ r[2] \in slice.keys
      BY <1>2, <2>1, <2>2
    <3>2. r \in rows
      BY <3>1 DEF Rows
    <3>3. r \in batch'.rows
      BY <1>1, <3>1, <3>2 DEF Present
    <3>. QED
      BY <1>1, <3>1, <3>3 DEF InBatch
  <2>3. ASSUME i # 1 PROVE InWork(op, r)'
    <3>1. i - 1 \in DOMAIN work' /\ work'[i - 1] = work[i]
      BY <1>2, <2>1, <2>3
    <3>. QED
      BY <2>1, <3>1 DEF InWork
  <2>. QED
    BY <2>2, <2>3
<1>4. ASSUME NEW i \in DOMAIN plans, index < i, InPlan(i, op, r)
      PROVE  i \in DOMAIN plans' /\ index' < i /\ InPlan(i, op, r)'
  BY <1>1, <1>4 DEF InPlan
<1>. QED
  BY <1>1, <1>3, <1>4 DEF ToDo, InBatch

\* A page leaves its rows as the lists want them, and the other rows listed.
LEMMA OwedByPage ==
    ASSUME TypeOK, SoundInv, WritePage, NEW r \in Rows, Owed(r)
    PROVE  Owed(r)'
<1>1. /\ pc = "migrate" /\ pc' = "migrate" /\ index' = index /\ plans' = plans /\ work' = work
      /\ versions' = versions /\ options' = options
      /\ WriteSome(Page) /\ batch' = [batch EXCEPT !.rows = @ \ Page]
  BY DEF WritePage
<1>2. batch \in [op : Operations, rows : SUBSET Rows, image : Contents]
  BY DEF TypeOK
<1>3. batch'.op = batch.op /\ batch'.rows = batch.rows \ Page
  BY <1>1, <1>2
<1>4. session'[r] = IF r \in Page THEN NewValue(batch, batch.image, session, r)
                    ELSE session[r]
  BY <1>1, PageIsOfBatch, SomeAreWritten
<1>5. ASSUME NEW op \in Operations, ToDo(op, r), r \notin Page \/ batch.op # op
      PROVE  ToDo(op, r)'
  <2>1. ASSUME InBatch(op, r) PROVE InBatch(op, r)'
    BY <1>3, <1>5, <2>1 DEF InBatch
  <2>2. InWork(op, r) => InWork(op, r)'
    BY <1>1 DEF InWork
  <2>3. \A i \in DOMAIN plans : InPlan(i, op, r) => InPlan(i, op, r)'
    BY <1>1 DEF InPlan
  <2>. QED
    BY <1>1, <1>5, <2>1, <2>2, <2>3 DEF ToDo
<1>6. ASSUME r \notin Page PROVE Owed(r)'
  BY <1>1, <1>4, <1>5, <1>6, OwedStays DEF Operations
<1>7. ASSUME r \in Page PROVE Owed(r)'
  <2>1. r \in batch.rows
    BY <1>7, PageIsOfBatch
  <2>2. /\ batch.op = "delete" => Absent \in versions[r]
        /\ batch.op # "delete" => batch.image[r] # Absent /\ batch.image[r] \in versions[r]
    BY <2>1 DEF SoundInv, BatchIsSound, MayDelete
  <2>3. batch.op \in {"insert", "update", "delete"}
    BY <1>2 DEF Operations
  <2>4. ASSUME Absent \notin versions[r]
        PROVE  \/ session'[r] \in versions[r]
               \/ ToDo("insert", r)' /\ session'[r] = session[r]
    <3>1. batch.op = "insert" => session'[r] \in versions[r]
      BY <1>4, <1>7, <2>2 DEF NewValue
    <3>2. batch.op = "update" /\ session[r] # Absent => session'[r] \in versions[r]
      BY <1>4, <1>7, <2>2 DEF NewValue
    <3>3. ASSUME batch.op = "update", session[r] = Absent
          PROVE  ToDo("insert", r)' /\ session'[r] = session[r]
      <4>1. session'[r] = session[r]
        BY <1>4, <1>7, <3>3 DEF NewValue
      <4>2. ToDo("insert", r)
        BY <2>4, <3>3 DEF Owed
      <4>. QED
        BY <1>5, <3>3, <4>1, <4>2 DEF Operations
    <3>. QED
      BY <2>2, <2>3, <2>4, <3>1, <3>2, <3>3
  <2>5. ASSUME versions[r] = {Absent}
        PROVE  session'[r] = Absent
    <3>1. batch.op = "delete"
      BY <2>2, <2>5
    <3>. QED
      BY <1>4, <1>7, <3>1 DEF NewValue
  <2>. QED
    BY <1>1, <2>4, <2>5 DEF Owed
<1>. QED
  BY <1>6, <1>7

\* What applications write adds to the versions a row has had.
LEMMA OwedWhileWritten ==
    ASSUME TypeOK, SourceIsSeen, NEW q \in Rows, NEW v \in Values \cup {Absent},
           AppWrites(q, v), NEW r \in Rows, Owed(r)
    PROVE  Owed(r)'
<1>1. /\ session' = session /\ options' = options
      /\ UNCHANGED <<pc, deltas, plans, index, work, batch>>
      /\ versions' = [versions EXCEPT ![q] = @ \cup {v}]
  BY DEF AppWrites, targetVars, runVars
<1>2. \A op : ToDo(op, r)' <=> ToDo(op, r)
  BY <1>1 DEF ToDo, InPlan, InWork, InBatch
<1>3. versions[r] \subseteq versions'[r] /\ source[r] \in versions[r]
  BY <1>1 DEF TypeOK, SourceIsSeen
<1>4. /\ Absent \notin versions'[r] => Absent \notin versions[r]
      /\ versions'[r] = {Absent} => versions[r] = {Absent}
  BY <1>3
<1>. QED
  BY <1>1, <1>2, <1>3, <1>4 DEF Owed

LEMMA NothingIsMissedStep ==
    ASSUME TypeOK, SoundInv, CopyInv, [Next]_vars
    PROVE  NothingIsMissed'
<1>. SUFFICES ASSUME NEW r \in Rows, Covered(r), Reached(r[1])'
              PROVE  Owed(r)'
  BY DEF NothingIsMissed, Covered
<1>1. Reached(r[1]) => Owed(r)
  BY DEF CopyInv, NothingIsMissed
<1>2. /\ stages \in [Stages -> {"none", "success", "failed", "skipped"}] /\ "MIGRATE" \in Stages
      /\ "VALIDATE_POST" \in Stages /\ "VALIDATE_PRE" \in Stages /\ index \in Nat
  BY DEF TypeOK, Stages
<1>3. /\ source[r] \in versions[r] /\ SourceIsSeen
  BY DEF SoundInv, SourceIsSeen
<1>4. /\ stages["MIGRATE"] = "success" => pc \in {"validate_post", "close", "done", "idle"}
      /\ pc \in {"connect", "inspect"} => index = 0
  BY DEF CopyInv, MigrateHasEnded, CompareBegins
<1>5. {"insert", "update", "delete"} = Operations
  BY DEF Operations
\* Steps after which nothing is said.
<1>6. ASSUME \/ \E o \in Invocations : Start(o)
             \/ Connect \/ Inspect \/ Skip \/ WriteRefused \/ ConnectFails \/ Crash
      PROVE  FALSE
  <2>1. ASSUME NEW o \in Invocations, Start(o) PROVE FALSE
    BY <2>1 DEF Start, Reached
  <2>2. ASSUME Connect \/ Crash PROVE FALSE
    BY <2>2 DEF Connect, Crash, Reached
  <2>3. ASSUME Inspect PROVE FALSE
    <3>1. pc = "inspect" /\ pc' = "compare" /\ index' = index
      BY <2>3 DEF Inspect, Passes
    <3>2. index' = 0
      BY <1>4, <3>1
    <3>. QED
      BY <3>1, <3>2 DEF Reached
  <2>4. ASSUME Skip \/ WriteRefused \/ ConnectFails PROVE FALSE
    <3>1. pc' = "close" /\ stages'["MIGRATE"] # "success"
      BY <1>2, <1>4, <2>4 DEF Skip, WriteRefused, Fails, ConnectFails
    <3>. QED
      BY <3>1 DEF Reached
  <2>. QED
    BY <1>6, <2>1, <2>2, <2>3, <2>4
<1>7. ASSUME CompareTable PROVE Owed(r)'
  BY <1>1, <1>3, <1>7, OwedByCompare
<1>8. ASSUME CompareEnds PROVE Owed(r)'
  <2>1. /\ pc = "compare" /\ pc' = "plan" /\ index = Len(CommonTables)
        /\ session' = session /\ versions' = versions /\ options' = options /\ deltas' = deltas
    BY <1>8 DEF CompareEnds, Passes, targetVars
  <2>2. Position(r[1]) \in 1 .. index /\ Position(r[1]) \in DOMAIN CommonTables
        /\ CommonTables[Position(r[1])] = r[1]
    BY <2>1, ComparedTables DEF Covered
  <2>3. Owed(r)
    BY <1>1, <2>1, <2>2 DEF Reached
  <2>4. \A op \in Operations : ToDo(op, r) => ToDo(op, r)'
    BY <2>1 DEF ToDo
  <2>. QED
    BY <1>5, <2>1, <2>3, <2>4, OwedStays
<1>9. ASSUME MakePlan PROVE Owed(r)'
  <2>1. Reached(r[1])
    BY <1>9 DEF MakePlan, Reached
  <2>. QED
    BY <1>1, <1>9, <2>1, OwedByPlan
<1>10. ASSUME ValidatePre PROVE Owed(r)'
  <2>1. /\ pc = "validate_pre" /\ stages'["MIGRATE"] = stages["MIGRATE"]
        /\ pc' = "close" \/ pc' = "gate"
        /\ session' = session /\ versions' = versions /\ options' = options /\ plans' = plans
    BY <1>2, <1>10 DEF ValidatePre, targetVars
  <2>2. pc' = "gate"
    BY <1>4, <2>1 DEF Reached
  <2>3. Owed(r)
    BY <1>1, <2>1 DEF Reached
  <2>4. \A op \in Operations : ToDo(op, r) => ToDo(op, r)'
    BY <2>1, <2>2 DEF ToDo, InPlan
  <2>. QED
    BY <1>5, <2>1, <2>3, <2>4, OwedStays
<1>11. ASSUME Proceed PROVE Owed(r)'
  <2>1. /\ pc = "gate" /\ pc' = "migrate" /\ index' = 0
        /\ session' = session /\ versions' = versions /\ options' = options /\ plans' = plans
    BY <1>11 DEF Proceed, targetVars
  <2>2. \A i \in DOMAIN plans : index' < i
    BY <2>1, PlansAreTyped
  <2>3. Owed(r)
    BY <1>1, <2>1 DEF Reached
  <2>4. \A op \in Operations : ToDo(op, r) => ToDo(op, r)'
    BY <2>1, <2>2 DEF ToDo, InPlan
  <2>. QED
    BY <1>5, <2>1, <2>3, <2>4, OwedStays
<1>12. ASSUME MigrateTable \/ FetchBatch PROVE Owed(r)'
  <2>1. pc = "migrate" /\ session' = session /\ versions' = versions /\ options' = options
    BY <1>12 DEF MigrateTable, FetchBatch, targetVars
  <2>2. Owed(r)
    BY <1>1, <2>1 DEF Reached
  <2>3. ASSUME NEW op \in Operations, ToDo(op, r), op = "delete" \/ Absent \notin versions[r]
        PROVE  ToDo(op, r)'
    BY <1>3, <1>12, <2>3, ListedByTable, ListedByBatch
  <2>. QED
    BY <1>5, <2>1, <2>2, <2>3, OwedStays
<1>13. ASSUME WritePage PROVE Owed(r)'
  <2>1. Reached(r[1])
    BY <1>13 DEF WritePage, Reached
  <2>. QED
    BY <1>1, <1>13, <2>1, OwedByPage
<1>14. ASSUME MigrateEnds PROVE Owed(r)'
  <2>1. /\ pc = "migrate" /\ work = <<>> /\ batch.rows = {} /\ index = Len(plans)
        /\ session' = session /\ versions' = versions /\ options' = options
    BY <1>14 DEF MigrateEnds, Passes, targetVars
  <2>2. Owed(r)
    BY <1>1, <2>1 DEF Reached
  <2>3. \A op \in Operations : ~ToDo(op, r)
    BY <2>1, PlansAreTyped DEF ToDo, InBatch, InWork
  <2>. QED
    BY <1>5, <2>1, <2>2, <2>3, OwedStays
<1>15. ASSUME ValidateTable \/ ValidateEnds \/ Close \/ StatementFails PROVE Owed(r)'
  <2>1. /\ versions' = versions /\ options' = options
        /\ pc \in {"inspect", "compare", "migrate", "validate_post", "close"}
        /\ pc' \in {"validate_post", "close", "done"}
    BY <1>15 DEF ValidateTable, ValidateEnds, Close, StatementFails, Fails, StageAt
  <2>2. stages'["MIGRATE"] = "success" /\ Adapter = "postgresql"
    BY <2>1 DEF Reached
  <2>3. pc \in {"validate_post", "close"} /\ stages["MIGRATE"] = "success"
    <3>1. ASSUME ValidateTable \/ ValidateEnds \/ Close
          PROVE  pc \in {"validate_post", "close"} /\ stages["MIGRATE"] = "success"
      BY <1>2, <2>2, <3>1 DEF ValidateTable, ValidateEnds, Close
    <3>2. ASSUME StatementFails, pc = "migrate" PROVE FALSE
      BY <1>2, <2>2, <3>2 DEF StatementFails, Fails, StageAt
    <3>3. ASSUME StatementFails, pc # "migrate" PROVE stages["MIGRATE"] = "success"
      BY <1>2, <2>1, <2>2, <3>3 DEF StatementFails, Fails, StageAt
    <3>. QED
      BY <1>4, <1>15, <2>1, <3>1, <3>2, <3>3
  <2>4. session' = session
    <3>1. Close => session' = session
      BY <2>2 DEF Close, Reconnect, SoundInv, TargetIsDurable
    <3>. QED
      BY <1>15, <2>3, <3>1 DEF ValidateTable, ValidateEnds, StatementFails, targetVars
  <2>5. Owed(r)
    BY <1>1, <2>2, <2>3 DEF Reached
  <2>6. \A op \in Operations : ~ToDo(op, r)
    BY <2>3 DEF ToDo
  <2>. QED
    BY <1>5, <2>1, <2>4, <2>5, <2>6, OwedStays
<1>16. ASSUME NEW q \in Rows, NEW v \in Values \cup {Absent}, AppWrites(q, v) PROVE Owed(r)'
  <2>1. Reached(r[1])
    BY <1>16 DEF AppWrites, runVars, Reached
  <2>. QED
    BY <1>1, <1>3, <1>16, <2>1, OwedWhileWritten
<1>17. ASSUME UNCHANGED vars PROVE Owed(r)'
  <2>1. /\ session' = session /\ versions' = versions /\ options' = options
        /\ UNCHANGED <<pc, stages, deltas, plans, index, work, batch>>
    BY <1>17 DEF vars, targetVars, runVars
  <2>2. Reached(r[1])
    BY <2>1 DEF Reached
  <2>3. \A op \in Operations : ToDo(op, r) => ToDo(op, r)'
    BY <2>1 DEF ToDo, InPlan, InWork, InBatch
  <2>. QED
    BY <1>1, <1>5, <2>1, <2>2, <2>3, OwedStays
<1>. QED
  BY <1>6, <1>7, <1>8, <1>9, <1>10, <1>11, <1>12, <1>13, <1>14, <1>15, <1>16, <1>17
    DEF Next, Run, Step

\* From the comparison of a table on, every row in which the target differs
\* from what the source was all through the run is listed in the delta, a plan, a
\* slice or the batch, until it has been written.
THEOREM NothingIsLost == Spec => [](TypeOK /\ SoundInv /\ CopyInv)
<1>1. Init => TypeOK /\ SoundInv /\ CopyInv
  BY TypesInit, SoundInit, CopyInit
<1>2. ASSUME TypeOK, SoundInv, CopyInv, [Next]_vars
      PROVE  (TypeOK /\ SoundInv /\ CopyInv)'
  <2>1. CopyInv'
    BY <1>2, CompareBeginsStep, MigrateHasEndedStep, NothingIsMissedStep DEF CopyInv
  <2>. QED
    BY <1>2, <2>1, TypesStep, SoundStep
<1>3. TypeOK /\ SoundInv /\ CopyInv /\ [Next]_vars => (TypeOK /\ SoundInv /\ CopyInv)'
  BY <1>2
<1>. QED
  BY <1>1, <1>3, PTL DEF Spec

\* With PostgreSQL, whose session commits each statement, a run that migrated
\* and is reported successful has copied the tables.  With DB2, which commits
\* nothing, that is false.
THEOREM SuccessfulRunsCopy ==
    ASSUME Adapter = "postgresql"
    PROVE  Spec => []SuccessMeansCopied
<1>1. ASSUME TypeOK, SoundInv, CopyInv, pc = "done", stages["MIGRATE"] = "success",
             NEW r \in Rows, Covered(r)
      PROVE  /\ Absent \notin versions[r] => committed[r] \in versions[r]
             /\ versions[r] = {Absent} /\ r[1] \in options.delete_allowed
                    => committed[r] = Absent
  <2>1. Owed(r)
    BY <1>1 DEF CopyInv, NothingIsMissed, Reached
  <2>2. \A op : ~ToDo(op, r)
    BY <1>1 DEF ToDo
  <2>3. committed = session
    BY <1>1 DEF SoundInv, TargetIsDurable
  <2>. QED
    BY <2>1, <2>2, <2>3 DEF Owed
<1>2. TypeOK /\ SoundInv /\ CopyInv => SuccessMeansCopied
  BY <1>1 DEF SuccessMeansCopied
<1>. QED
  BY <1>2, NothingIsLost, PTL

-------------------------------------------------------------------------------
(* In which order a run that nobody disturbs writes.                        *)

\* Foreign keys that hold in the source, between tables that are compared and
\* have levels to match, and no identity column that refuses inserts.
ForeignKeysFit ==
    /\ AlwaysTables \cap Compared = {}
    /\ \A i \in Inputs : \A r \in Present(i.source) : Refs[r] \subseteq Present(i.source)
    /\ \A r \in Rows : Covered(r) =>
        \A p \in Refs[r] : Covered(p) /\ Level[p[1]] < Level[r[1]]

SourceHolds == \A r \in Present(source) : Refs[r] \subseteq Present(source)

MigrateBegins ==
    /\ pc \in {"connect", "inspect"} => deltas = [t \in Tables |-> NoDelta]
    /\ pc \in {"connect", "inspect", "compare", "plan", "validate_pre", "gate"} =>
        work = <<>> /\ batch.rows = {}

TablesAreInOrder ==
    \A i, j \in DOMAIN plans : i < j =>
        /\ plans[i].table # plans[j].table
        /\ Level[plans[i].table] <= Level[plans[j].table]

\* All that is in hand belongs to the table MIGRATE has come to.
WorkIsOfOneTable ==
    pc = "migrate" =>
        /\ \A i \in DOMAIN work : index \in DOMAIN plans /\ work[i].table = plans[index].table
        /\ \A r \in batch.rows : index \in DOMAIN plans /\ r[1] = plans[index].table

\* What is in hand is in hand once.
WorkIsDistinct ==
    /\ IsDistinct(work)
    /\ \A i \in DOMAIN work : batch.op = work[i].op =>
        batch.rows \cap ({work[i].table} \X work[i].keys) = {}

InsertsAreMissing == Quiet => \A r \in Rows : ToDo("insert", r) => session[r] = Absent

QuietInv ==
    /\ SourceHolds /\ MigrateBegins /\ TablesAreInOrder /\ WorkIsOfOneTable /\ WorkIsDistinct
    /\ InsertsAreMissing

LEMMA QuietInit ==
    ASSUME ForeignKeysFit, Init
    PROVE  QuietInv
<1>1. SourceHolds
  BY DEF Init, SourceHolds, ForeignKeysFit
<1>2. MigrateBegins /\ TablesAreInOrder /\ WorkIsOfOneTable /\ WorkIsDistinct
  BY DEF Init, MigrateBegins, TablesAreInOrder, WorkIsOfOneTable, WorkIsDistinct, IsDistinct,
         NoBatch
<1>3. InsertsAreMissing
  BY DEF Init, InsertsAreMissing, ToDo
<1>. QED
  BY <1>1, <1>2, <1>3 DEF QuietInv

LEMMA SourceHoldsStep ==
    ASSUME TypeOK, SourceHolds, [Next]_vars
    PROVE  SourceHolds'
<1>1. source' = source => SourceHolds'
  BY DEF SourceHolds, Present
<1>2. ASSUME NEW r \in Rows, NEW v \in Values \cup {Absent}, AppWrites(r, v)
      PROVE  SourceHolds'
  BY <1>2 DEF AppWrites, SourceHolds, Present
<1>3. ASSUME NEW o \in Invocations, Start(o) PROVE source' = source
  BY <1>3 DEF Start
<1>. QED
  BY <1>1, <1>2, <1>3, WhoChangesWhat

LEMMA MigrateBeginsStep ==
    ASSUME TypeOK, MigrateBegins, [Next]_vars
    PROVE  MigrateBegins'
<1>1. ASSUME NEW o \in Invocations, Start(o) PROVE MigrateBegins'
  BY <1>1 DEF Start, MigrateBegins, NoBatch
<1>2. ASSUME UNCHANGED <<pc, deltas, work, batch>> PROVE MigrateBegins'
  BY <1>2 DEF MigrateBegins
<1>3. ASSUME NEW r \in Rows, NEW v \in Values \cup {Absent}, AppWrites(r, v)
      PROVE  MigrateBegins'
  BY <1>2, <1>3 DEF AppWrites, runVars
<1>4. ASSUME UNCHANGED vars PROVE MigrateBegins'
  BY <1>2, <1>4 DEF vars, runVars
<1>5. ASSUME Connect PROVE MigrateBegins'
  BY <1>5 DEF Connect, MigrateBegins
<1>6. ASSUME Inspect \/ CompareTable \/ CompareEnds \/ MakePlan \/ ValidatePre
      PROVE  MigrateBegins'
  <2>1. /\ pc \in {"inspect", "compare", "plan", "validate_pre"}
        /\ pc' \notin {"connect", "inspect"} /\ work' = work /\ batch' = batch
    BY <1>6 DEF Inspect, CompareTable, CompareEnds, MakePlan, ValidatePre, Passes
  <2>. QED
    BY <2>1 DEF MigrateBegins
<1>7. ASSUME Skip \/ Proceed \/ MigrateTable \/ FetchBatch \/ WritePage \/ WriteRefused
             \/ MigrateEnds \/ ValidateTable \/ ValidateEnds \/ Close
             \/ StatementFails \/ ConnectFails \/ Crash
      PROVE  MigrateBegins'
  <2>1. pc' \in {"migrate", "validate_post", "close", "done", "idle"}
    BY <1>7 DEF Skip, Proceed, MigrateTable, FetchBatch, WritePage, WriteRefused, MigrateEnds,
                ValidateTable, ValidateEnds, Close, StatementFails, ConnectFails, Crash,
                Passes, Fails
  <2>. QED
    BY <2>1 DEF MigrateBegins
<1>. QED
  BY <1>1, <1>3, <1>4, <1>5, <1>6, <1>7 DEF Next, Run, Step

LEMMA TablesAreInOrderStep ==
    ASSUME TypeOK, TablesAreInOrder, [Next]_vars
    PROVE  TablesAreInOrder'
<1>1. ASSUME NEW o \in Invocations, Start(o) PROVE TablesAreInOrder'
  BY <1>1 DEF Start, TablesAreInOrder
<1>2. ASSUME plans' = plans PROVE TablesAreInOrder'
  BY <1>2 DEF TablesAreInOrder
<1>3. ASSUME MakePlan PROVE TablesAreInOrder'
  <2>1. plans' = [i \in DOMAIN ByLevel |-> TablePlan(ByLevel[i])]
    BY <1>3 DEF MakePlan
  <2>2. \A i \in DOMAIN ByLevel : plans'[i].table = ByLevel[i]
    BY <2>1, TablesByLevel, PlanOfTable
  <2>. QED
    BY <2>1, <2>2, TablesByLevel DEF TablesAreInOrder
<1>. QED
  BY <1>1, <1>2, <1>3, WhoChangesWhat

\* What FetchBatch makes of the first slice.
LEMMA BatchOfSlice ==
    ASSUME TypeOK, FetchBatch
    PROVE  /\ 1 \in DOMAIN work /\ work[1] \in SliceOfKeys
           /\ batch'.op = work[1].op
           /\ batch'.rows \subseteq {work[1].table} \X work[1].keys
           /\ \A i \in DOMAIN work' : /\ i \in Nat \ {0} /\ i + 1 \in DOMAIN work
                                      /\ work'[i] = work[i + 1]
<1>1. /\ work # <<>> /\ work' = Tail(work)
      /\ batch'.op = Head(work).op
      /\ batch'.rows \subseteq {Head(work).table} \X Head(work).keys
  BY DEF FetchBatch
<1>2. work \in Seq(SliceOfKeys)
  BY DEF TypeOK
<1>3. 1 \in DOMAIN work /\ work[1] \in SliceOfKeys /\ Head(work) = work[1]
  BY <1>1, <1>2
<1>4. \A i \in DOMAIN work' : i \in Nat \ {0} /\ i + 1 \in DOMAIN work /\ work'[i] = work[i + 1]
  BY <1>1, <1>2
<1>. QED
  BY <1>1, <1>3, <1>4

LEMMA WorkIsOfOneTableStep ==
    ASSUME TypeOK, MigrateBegins, WorkIsOfOneTable, [Next]_vars
    PROVE  WorkIsOfOneTable'
<1>. SUFFICES ASSUME pc' = "migrate" PROVE WorkIsOfOneTable'
  BY DEF WorkIsOfOneTable
<1>1. ASSUME Proceed PROVE WorkIsOfOneTable'
  BY <1>1 DEF Proceed, MigrateBegins, WorkIsOfOneTable
<1>2. ASSUME UNCHANGED <<pc, plans, index, work, batch>> PROVE WorkIsOfOneTable'
  BY <1>2 DEF WorkIsOfOneTable
<1>3. ASSUME MigrateTable PROVE WorkIsOfOneTable'
  <2>1. /\ work' = TableWork(plans[index + 1]) /\ plans' = plans /\ index' = index + 1
        /\ batch' = batch /\ batch.rows = {} /\ index < Len(plans) /\ index \in Nat
    BY <1>3 DEF MigrateTable, TypeOK
  <2>2. index + 1 \in DOMAIN plans
    BY <2>1, PlansAreTyped
  <2>3. PICK p \in TablePlans : p = plans[index + 1]
    BY <2>2, PlansAreTyped
  <2>4. \A i \in DOMAIN work' : work'[i].table = p.table
    BY <2>1, <2>3, TableWorkCovers
  <2>. QED
    BY <2>1, <2>2, <2>3, <2>4 DEF WorkIsOfOneTable
<1>4. ASSUME FetchBatch PROVE WorkIsOfOneTable'
  <2>1. pc = "migrate" /\ plans' = plans /\ index' = index
    BY <1>4 DEF FetchBatch
  <2>2. index \in DOMAIN plans /\ \A i \in DOMAIN work : work[i].table = plans[index].table
    BY <1>4, <2>1, BatchOfSlice DEF WorkIsOfOneTable
  <2>3. \A r \in batch'.rows : r[1] = plans[index].table
    BY <1>4, <2>2, BatchOfSlice
  <2>4. \A i \in DOMAIN work' : work'[i].table = plans[index].table
    BY <1>4, <2>2, BatchOfSlice
  <2>. QED
    BY <2>1, <2>2, <2>3, <2>4 DEF WorkIsOfOneTable
<1>5. ASSUME WritePage PROVE WorkIsOfOneTable'
  <2>1. batch \in [op : Operations, rows : SUBSET Rows, image : Contents]
    BY DEF TypeOK
  <2>2. /\ pc = "migrate" /\ UNCHANGED <<plans, index, work>>
        /\ batch'.rows \subseteq batch.rows
    BY <1>5, <2>1 DEF WritePage
  <2>. QED
    BY <2>2 DEF WorkIsOfOneTable
<1>6. ASSUME NEW o \in Invocations, Start(o) PROVE FALSE
  BY <1>6 DEF Start
<1>7. ASSUME NEW r \in Rows, NEW v \in Values \cup {Absent}, AppWrites(r, v)
      PROVE  WorkIsOfOneTable'
  BY <1>2, <1>7 DEF AppWrites, runVars
<1>8. ASSUME UNCHANGED vars PROVE WorkIsOfOneTable'
  BY <1>2, <1>8 DEF vars, runVars
<1>9. ASSUME Connect \/ Inspect \/ CompareTable \/ CompareEnds \/ MakePlan \/ ValidatePre \/ Skip
             \/ WriteRefused \/ MigrateEnds \/ ValidateTable \/ ValidateEnds \/ Close
             \/ StatementFails \/ ConnectFails \/ Crash
      PROVE  FALSE
  BY <1>9 DEF Connect, Inspect, CompareTable, CompareEnds, MakePlan, ValidatePre, Skip,
              WriteRefused, MigrateEnds, ValidateTable, ValidateEnds, Close, StatementFails,
              ConnectFails, Crash, Passes, Fails
<1>. QED
  BY <1>1, <1>3, <1>4, <1>5, <1>6, <1>7, <1>8, <1>9 DEF Next, Run, Step

LEMMA WorkIsDistinctStep ==
    ASSUME TypeOK, WorkIsDistinct, [Next]_vars
    PROVE  WorkIsDistinct'
<1>1. ASSUME NEW o \in Invocations, Start(o) PROVE WorkIsDistinct'
  BY <1>1 DEF Start, WorkIsDistinct, IsDistinct
<1>2. batch \in [op : Operations, rows : SUBSET Rows, image : Contents]
  BY DEF TypeOK
<1>3. ASSUME work' = work, batch'.op = batch.op, batch'.rows \subseteq batch.rows
      PROVE  WorkIsDistinct'
  BY <1>3 DEF WorkIsDistinct, IsDistinct
<1>4. ASSUME WritePage PROVE WorkIsDistinct'
  <2>1. work' = work /\ batch'.op = batch.op /\ batch'.rows \subseteq batch.rows
    BY <1>2, <1>4 DEF WritePage
  <2>. QED
    BY <1>3, <2>1
<1>5. ASSUME MigrateTable PROVE WorkIsDistinct'
  <2>1. /\ work' = TableWork(plans[index + 1])
        /\ batch' = batch /\ batch.rows = {} /\ index < Len(plans) /\ index \in Nat
    BY <1>5 DEF MigrateTable, TypeOK
  <2>2. index + 1 \in DOMAIN plans
    BY <2>1, PlansAreTyped
  <2>3. PICK p \in TablePlans : p = plans[index + 1]
    BY <2>2, PlansAreTyped
  <2>4. IsDistinct(work')
    BY <2>1, <2>3, TableWorkCovers
  <2>. QED
    BY <2>1, <2>4 DEF WorkIsDistinct, IsDistinct
<1>6. ASSUME FetchBatch PROVE WorkIsDistinct'
  <2>1. ASSUME NEW i \in DOMAIN work', NEW j \in DOMAIN work', i # j,
               work'[i].op = work'[j].op
        PROVE  work'[i].keys \cap work'[j].keys = {}
    <3>1. /\ i \in Nat /\ i + 1 \in DOMAIN work /\ work'[i] = work[i + 1]
          /\ j \in Nat /\ j + 1 \in DOMAIN work /\ work'[j] = work[j + 1]
      BY <1>6, BatchOfSlice
    <3>2. i + 1 # j + 1
      BY <2>1, <3>1
    <3>. QED
      BY <2>1, <3>1, <3>2 DEF WorkIsDistinct, IsDistinct
  <2>2. ASSUME NEW i \in DOMAIN work', batch'.op = work'[i].op
        PROVE  batch'.rows \cap ({work'[i].table} \X work'[i].keys) = {}
    <3>1. /\ i \in Nat \ {0} /\ i + 1 \in DOMAIN work /\ work'[i] = work[i + 1]
          /\ 1 \in DOMAIN work /\ batch'.op = work[1].op
          /\ batch'.rows \subseteq {work[1].table} \X work[1].keys
      BY <1>6, BatchOfSlice
    <3>2. i + 1 # 1
      BY <3>1
    <3>3. work[1].keys \cap work[i + 1].keys = {}
      BY <2>2, <3>1, <3>2 DEF WorkIsDistinct, IsDistinct
    <3>. QED
      BY <3>1, <3>3
  <2>. QED
    BY <2>1, <2>2 DEF WorkIsDistinct, IsDistinct
<1>7. batch' = batch => batch'.op = batch.op /\ batch'.rows \subseteq batch.rows
  OBVIOUS
<1>. QED
  BY <1>1, <1>3, <1>4, <1>5, <1>6, <1>7, WhoChangesWhat

\* A page does not touch a row that is still to be inserted.
LEMMA MissingAfterPage ==
    ASSUME TypeOK, TablesAreInOrder, WorkIsOfOneTable, WorkIsDistinct, WritePage,
           NEW r \in Rows, ToDo("insert", r)', ToDo("insert", r) => session[r] = Absent
    PROVE  session'[r] = Absent
<1>1. /\ pc = "migrate" /\ pc' = "migrate" /\ index' = index /\ plans' = plans /\ work' = work
      /\ WriteSome(Page) /\ batch' = [batch EXCEPT !.rows = @ \ Page]
  BY DEF WritePage
<1>2. batch \in [op : Operations, rows : SUBSET Rows, image : Contents] /\ index \in Nat
  BY DEF TypeOK
<1>3. batch'.op = batch.op /\ batch'.rows = batch.rows \ Page
  BY <1>1, <1>2
<1>4. session'[r] = IF r \in Page THEN NewValue(batch, batch.image, session, r)
                    ELSE session[r]
  BY <1>1, PageIsOfBatch, SomeAreWritten
<1>5. \/ InBatch("insert", r)'
      \/ InWork("insert", r)'
      \/ \E i \in DOMAIN plans : index < i /\ InPlan(i, "insert", r)'
  BY <1>1 DEF ToDo
<1>6. InWork("insert", r)' => InWork("insert", r)
  BY <1>1 DEF InWork
<1>7. \A i \in DOMAIN plans : InPlan(i, "insert", r)' => InPlan(i, "insert", r)
  BY <1>1 DEF InPlan
<1>8. InBatch("insert", r)' => InBatch("insert", r) /\ r \notin Page
  BY <1>3 DEF InBatch
<1>9. session[r] = Absent
  BY <1>1, <1>5, <1>6, <1>7, <1>8 DEF ToDo
<1>10. ASSUME r \in Page PROVE batch.op # "insert"
  <2>1. r \in batch.rows
    BY <1>10, PageIsOfBatch
  <2>2. ASSUME batch.op = "insert", InWork("insert", r) PROVE FALSE
    <3>1. PICK i \in DOMAIN work : /\ work[i].op = "insert" /\ work[i].table = r[1]
                                   /\ r[2] \in work[i].keys
      BY <2>2 DEF InWork
    <3>2. r \in {work[i].table} \X work[i].keys
      BY <3>1 DEF Rows
    <3>. QED
      BY <2>1, <2>2, <3>1, <3>2 DEF WorkIsDistinct
  <2>3. ASSUME NEW i \in DOMAIN plans, index < i, InPlan(i, "insert", r) PROVE FALSE
    <3>1. index \in DOMAIN plans /\ r[1] = plans[index].table
      BY <1>1, <2>1 DEF WorkIsOfOneTable
    <3>2. plans[index].table # plans[i].table
      BY <2>3, <3>1 DEF TablesAreInOrder
    <3>. QED
      BY <2>3, <3>1, <3>2 DEF InPlan
  <2>. QED
    BY <1>5, <1>6, <1>7, <1>8, <1>10, <2>2, <2>3
<1>11. batch.op \in {"insert", "update", "delete"}
  BY <1>2 DEF Operations
<1>. QED
  BY <1>4, <1>9, <1>10, <1>11 DEF NewValue

LEMMA InsertsAreMissingStep ==
    ASSUME TypeOK, SoundInv, QuietInv, [Next]_vars
    PROVE  InsertsAreMissing'
<1>. SUFFICES ASSUME Quiet', NEW r \in Rows, ToDo("insert", r)'
              PROVE  session'[r] = Absent
  BY DEF InsertsAreMissing
<1>1. pc' \in {"compare", "plan", "validate_pre", "gate", "migrate"}
  BY DEF ToDo
<1>2. ASSUME NEW o \in Invocations, Start(o) PROVE FALSE
  BY <1>1, <1>2 DEF Start
<1>3. ASSUME NEW q \in Rows, NEW v \in Values \cup {Absent}, AppWrites(q, v) PROVE FALSE
  <2>1. /\ versions' = [versions EXCEPT ![q] = @ \cup {v}] /\ v # source[q]
        /\ versions'[q] = {source'[q]}
    BY <1>3 DEF AppWrites, Quiet
  <2>2. source[q] \in versions[q] /\ versions \in [Rows -> SUBSET (Values \cup {Absent})]
    BY DEF SoundInv, SourceIsSeen, TypeOK
  <2>. QED
    BY <2>1, <2>2
<1>4. Quiet
  BY <1>2, <1>3, WhoChangesWhat DEF Quiet
<1>5. ToDo("insert", r) => session[r] = Absent
  BY <1>4 DEF QuietInv, InsertsAreMissing
<1>6. r[1] \in Tables /\ r[2] \in Keys /\ r = <<r[1], r[2]>>
  BY DEF Rows
<1>7. ASSUME Inspect PROVE FALSE
  <2>1. pc = "inspect" /\ pc' = "compare" /\ deltas' = deltas
    BY <1>7 DEF Inspect, Passes
  <2>2. r[2] \in PksOf(NoDelta, "insert")
    BY <1>6, <2>1 DEF ToDo, QuietInv, MigrateBegins
  <2>. QED
    BY <2>2 DEF PksOf, NoDelta
<1>8. ASSUME CompareTable PROVE session'[r] = Absent
  <2>. DEFINE t == CommonTables[index + 1]
              d == Delta(source, session, t)
  <2>1. /\ pc = "compare" /\ pc' = "compare" /\ session' = session
        /\ deltas' = IF t \in SkipTables THEN deltas ELSE [deltas EXCEPT ![t] = d]
    BY <1>8 DEF CompareTable, targetVars
  <2>2. deltas \in [Tables -> TableDeltas]
    BY DEF TypeOK
  <2>3. r[2] \in PksOf(deltas'[r[1]], "insert")
    BY <2>1 DEF ToDo
  <2>4. ASSUME deltas'[r[1]] = deltas[r[1]] PROVE ToDo("insert", r)
    BY <2>1, <2>3, <2>4 DEF ToDo
  <2>5. ASSUME deltas'[r[1]] = d, r[1] = t PROVE session[r] = Absent
    BY <1>6, <2>3, <2>5 DEF PksOf, Delta, KeysOf
  <2>. HIDE DEF t, d
  <2>6. deltas'[r[1]] = deltas[r[1]] \/ (deltas'[r[1]] = d /\ r[1] = t)
    BY <1>6, <2>1, <2>2
  <2>. QED
    BY <1>5, <2>1, <2>4, <2>5, <2>6
<1>9. ASSUME CompareEnds PROVE session'[r] = Absent
  <2>1. pc = "compare" /\ pc' = "plan" /\ session' = session /\ deltas' = deltas
    BY <1>9 DEF CompareEnds, Passes, targetVars
  <2>. QED
    BY <1>5, <2>1 DEF ToDo
<1>10. ASSUME MakePlan PROVE session'[r] = Absent
  <2>1. /\ pc = "plan" /\ pc' = "validate_pre" /\ session' = session
        /\ plans' = [i \in DOMAIN ByLevel |-> TablePlan(ByLevel[i])]
    BY <1>10 DEF MakePlan, Passes, targetVars
  <2>2. PICK i \in DOMAIN plans' : InPlan(i, "insert", r)'
    BY <2>1 DEF ToDo
  <2>3. /\ plans'[i].table = r[1] /\ r[2] \in plans'[i].delta.insert_pks
    BY <2>2 DEF InPlan, PksOf
  <2>4. ByLevel[i] \in Tables /\ plans'[i] = TablePlan(ByLevel[i])
    BY <2>1, TablesByLevel
  <2>5. r[2] \in deltas[r[1]].insert_pks
    BY <2>3, <2>4, PlanOfTable
  <2>. QED
    BY <1>5, <2>1, <2>5 DEF ToDo, PksOf
<1>11. ASSUME ValidatePre PROVE session'[r] = Absent
  <2>1. pc = "validate_pre" /\ session' = session /\ plans' = plans /\ pc' \in {"gate", "close"}
    BY <1>11 DEF ValidatePre, targetVars
  <2>. QED
    BY <1>1, <1>5, <2>1 DEF ToDo, InPlan
<1>12. ASSUME Proceed PROVE session'[r] = Absent
  <2>1. /\ pc = "gate" /\ pc' = "migrate" /\ session' = session /\ plans' = plans
        /\ work' = work /\ batch' = batch
    BY <1>12 DEF Proceed, targetVars
  <2>2. work = <<>> /\ batch.rows = {}
    BY <2>1 DEF QuietInv, MigrateBegins
  <2>3. \E i \in DOMAIN plans : InPlan(i, "insert", r)
    BY <2>1, <2>2 DEF ToDo, InBatch, InWork, InPlan
  <2>. QED
    BY <1>5, <2>1, <2>3 DEF ToDo
<1>13. ASSUME MigrateTable PROVE session'[r] = Absent
  <2>1. /\ pc = "migrate" /\ pc' = "migrate" /\ index' = index + 1 /\ plans' = plans
        /\ batch' = batch /\ batch.rows = {} /\ session' = session
        /\ work' = TableWork(plans[index + 1]) /\ index \in Nat /\ index < Len(plans)
    BY <1>13 DEF MigrateTable, TypeOK, targetVars
  <2>2. index + 1 \in DOMAIN plans /\ index < index + 1
    BY <2>1, PlansAreTyped
  <2>3. ASSUME InWork("insert", r)' PROVE InPlan(index + 1, "insert", r)
    <3>1. PICK p \in TablePlans : p = plans[index + 1]
      BY <2>2, PlansAreTyped
    <3>2. work' = TableWork(p)
      BY <2>1, <3>1
    <3>3. PICK i \in DOMAIN TableWork(p) : /\ TableWork(p)[i].op = "insert"
                                           /\ TableWork(p)[i].table = r[1]
                                           /\ r[2] \in TableWork(p)[i].keys
      BY <2>3, <3>2 DEF InWork
    <3>4. p.table = r[1] /\ r[2] \in PksOf(p.delta, "insert")
      BY <3>3, TableWorkCovers
    <3>. QED
      BY <3>1, <3>4 DEF InPlan
  <2>4. ASSUME NEW i \in DOMAIN plans, index' < i, InPlan(i, "insert", r)'
        PROVE  index < i /\ InPlan(i, "insert", r)
    BY <2>1, <2>4, PlansAreTyped DEF InPlan
  <2>5. ~InBatch("insert", r)'
    BY <2>1 DEF InBatch
  <2>6. \E i \in DOMAIN plans : index < i /\ InPlan(i, "insert", r)
    BY <2>1, <2>2, <2>3, <2>4, <2>5 DEF ToDo
  <2>. QED
    BY <1>5, <2>1, <2>6 DEF ToDo
<1>14. ASSUME FetchBatch PROVE session'[r] = Absent
  <2>1. /\ pc = "migrate" /\ pc' = "migrate" /\ index' = index /\ plans' = plans
        /\ session' = session
    BY <1>14 DEF FetchBatch, targetVars
  <2>2. InBatch("insert", r)' => InWork("insert", r)
    BY <1>14, BatchOfSlice DEF InBatch, InWork
  <2>3. InWork("insert", r)' => InWork("insert", r)
    BY <1>14, BatchOfSlice DEF InWork
  <2>4. \A i \in DOMAIN plans : InPlan(i, "insert", r)' => InPlan(i, "insert", r)
    BY <2>1 DEF InPlan
  <2>. QED
    BY <1>5, <2>1, <2>2, <2>3, <2>4 DEF ToDo
<1>15. ASSUME WritePage PROVE session'[r] = Absent
  BY <1>5, <1>15, MissingAfterPage DEF QuietInv
<1>16. ASSUME UNCHANGED vars PROVE session'[r] = Absent
  <2>1. UNCHANGED <<session, pc, deltas, plans, index, work, batch>>
    BY <1>16 DEF vars, targetVars, runVars
  <2>. QED
    BY <1>5, <2>1 DEF ToDo, InPlan, InWork, InBatch
<1>17. ASSUME Connect \/ Skip \/ WriteRefused \/ MigrateEnds \/ ValidateTable \/ ValidateEnds
              \/ Close \/ StatementFails \/ ConnectFails \/ Crash
       PROVE  FALSE
  BY <1>1, <1>17 DEF Connect, Skip, WriteRefused, MigrateEnds, ValidateTable, ValidateEnds,
              Close, StatementFails, ConnectFails, Crash, Passes, Fails
<1>. QED
  BY <1>2, <1>3, <1>7, <1>8, <1>9, <1>10, <1>11, <1>12, <1>13, <1>14, <1>15, <1>16, <1>17
    DEF Next, Run, Step

\* Where foreign keys fit, a run takes its tables parents first and each once,
\* has in hand only slices of one table that share no row, and what it has still
\* to insert is missing from the target, as long as nobody disturbs it.
THEOREM QuietRunsAreInOrder ==
    ASSUME ForeignKeysFit
    PROVE  Spec => [](TypeOK /\ SoundInv /\ CopyInv /\ QuietInv)
<1>1. Init => QuietInv
  BY QuietInit
<1>2. ASSUME TypeOK, SoundInv, QuietInv, [Next]_vars
      PROVE  QuietInv'
  <2>1. InsertsAreMissing'
    BY <1>2, InsertsAreMissingStep
  <2>. QED
    BY <1>2, <2>1, SourceHoldsStep, MigrateBeginsStep, TablesAreInOrderStep,
       WorkIsOfOneTableStep, WorkIsDistinctStep DEF QuietInv
<1>3. TypeOK /\ SoundInv /\ QuietInv /\ [Next]_vars => QuietInv'
  BY <1>2
<1>. QED
  BY <1>1, <1>3, NothingIsLost, PTL DEF Spec

\* A parent of a row that a run inserts undisturbed is there already.
LEMMA ParentsAreThere ==
    ASSUME ForeignKeysFit, TypeOK, SoundInv, CopyInv, QuietInv, Quiet, pc = "migrate",
           batch.op = "insert", NEW r \in batch.rows, NEW p \in Refs[r]
    PROVE  session[p] # Absent
<1>1. r \in Rows /\ index \in Nat
  BY DEF TypeOK
<1>2. p \in Rows /\ p[1] \in Tables /\ r[1] \in Tables
  BY <1>1, RefsAssumption DEF Rows
<1>3. Covered(r) /\ Covered(p) /\ Level[p[1]] < Level[r[1]]
  BY <1>1 DEF SoundInv, BatchIsSound, ForeignKeysFit
<1>4. Level[p[1]] \in Nat /\ Level[r[1]] \in Nat
  BY <1>2, LevelAssumption
<1>5. source[p] # Absent
  <2>1. batch.image[r] # Absent /\ batch.image[r] \in versions[r]
    BY DEF SoundInv, BatchIsSound
  <2>2. r \in Present(source)
    BY <1>1, <2>1 DEF Quiet, Present
  <2>. QED
    BY <2>2 DEF QuietInv, SourceHolds, Present
<1>6. versions[p] = {source[p]}
  BY <1>2 DEF Quiet
<1>7. index \in DOMAIN plans /\ r[1] = plans[index].table
  BY DEF QuietInv, WorkIsOfOneTable
<1>8. ASSUME ToDo("insert", p) PROVE FALSE
  <2>1. ~InBatch("insert", p)
    BY <1>3, <1>4, <1>7 DEF InBatch, QuietInv, WorkIsOfOneTable
  <2>2. ~InWork("insert", p)
    BY <1>3, <1>4, <1>7 DEF InWork, QuietInv, WorkIsOfOneTable
  <2>3. PICK i \in DOMAIN plans : index < i /\ InPlan(i, "insert", p)
    BY <1>8, <2>1, <2>2 DEF ToDo
  <2>4. Level[plans[index].table] <= Level[plans[i].table] /\ plans[i].table = p[1]
    BY <1>7, <2>3 DEF QuietInv, TablesAreInOrder, InPlan
  <2>. QED
    BY <1>3, <1>4, <1>7, <2>4
<1>9. Owed(p)
  BY <1>2, <1>3 DEF CopyInv, NothingIsMissed, Reached
<1>. QED
  BY <1>5, <1>6, <1>8, <1>9 DEF Owed

\* A run that nothing disturbs is refused no statement, whatever earlier runs
\* have left behind, but for deletes of rows that others refer to: what it has
\* still to insert is missing, it inserts nothing twice, and parents, which
\* come in earlier tables, are no longer listed when their children are.
THEOREM QuietRunsPass ==
    ASSUME ForeignKeysFit
    PROVE  Spec => QuietRunsAreNotRefused
<1>. DEFINE Inv == TypeOK /\ SoundInv /\ CopyInv /\ QuietInv
<1>1. ASSUME Inv, WriteRefused, Quiet
      PROVE  /\ batch.op = "delete"
             /\ Page \cap UNION {Refs[r] : r \in Present(session)} # {}
  <2>1. pc = "migrate" /\ RefusedInPage # {}
    BY <1>1 DEF WriteRefused
  <2>2. PICK r \in RefusedInPage : TRUE
    BY <2>1
  <2>3. /\ r \in Page
        /\ \/ /\ batch.op = "insert"
              /\ session[r] # Absent \/ ~(Refs[r] \subseteq Present(session))
           \/ batch.op = "delete" /\ \E c \in Present(session) : r \in Refs[c]
           \/ batch.op = "insert" /\ r[1] \in AlwaysTables
    BY <2>2 DEF RefusedInPage, RefusedAmong
  <2>4. r \in batch.rows /\ r \in Rows
    BY <1>1, <2>3, PageIsOfBatch DEF TypeOK
  <2>5. ASSUME batch.op = "insert", session[r] # Absent PROVE FALSE
    <3>1. ToDo("insert", r)
      BY <2>1, <2>4, <2>5 DEF ToDo, InBatch
    <3>. QED
      BY <1>1, <2>4, <2>5, <3>1 DEF QuietInv, InsertsAreMissing
  <2>6. ASSUME batch.op = "insert", ~(Refs[r] \subseteq Present(session)) PROVE FALSE
    <3>1. PICK p \in Refs[r] : p \notin Present(session)
      BY <2>6
    <3>2. session[p] # Absent
      BY <1>1, <2>1, <2>4, <2>6, ParentsAreThere
    <3>3. p \in Rows
      BY <2>4, RefsAssumption
    <3>. QED
      BY <3>1, <3>2, <3>3 DEF Present
  <2>7. ASSUME batch.op = "insert", r[1] \in AlwaysTables PROVE FALSE
    BY <1>1, <2>4, <2>7 DEF SoundInv, BatchIsSound, Covered, ForeignKeysFit
  <2>8. batch.op = "delete" /\ \E c \in Present(session) : r \in Refs[c]
    BY <2>3, <2>5, <2>6, <2>7
  <2>. QED
    BY <2>3, <2>8
<1>2. Inv /\ [Next]_vars =>
        (WriteRefused /\ Quiet =>
            /\ batch.op = "delete"
            /\ Page \cap UNION {Refs[r] : r \in Present(session)} # {})
  BY <1>1
<1>. QED
  BY <1>2, QuietRunsAreInOrder, PTL DEF Spec, QuietRunsAreNotRefused

===============================================================================
