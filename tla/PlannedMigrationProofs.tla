------------------------ MODULE PlannedMigrationProofs ------------------------
(***************************************************************************)
(* What a migration by a well made plan achieves: the executor follows the *)
(* planner's batches in whatever way faults, deaths of the process and     *)
(* later executions make it; and what the validator's answer is worth, for *)
(* tables of any size, any sample size and any plan.                       *)
(***************************************************************************)
EXTENDS PlannedMigration, BatchExecutorProofs, SortedListsProofs

-------------------------------------------------------------------------------
(* Post-validation, whatever the plan.                                      *)

\* The number of rows of a table is a number.
LEMMA KeysAreCounted ==
    ASSUME NEW db, NEW t
    PROVE  /\ IsFiniteSet(KeysOf(db, t))
           /\ Count(db, t) \in Nat
           /\ Count(db, t) = Cardinality(KeysOf(db, t))
<1>1. KeysOf(db, t) \subseteq Keys
  BY DEF KeysOf
<1>. QED
  BY <1>1, KeysFiniteAssumption, FS_Subset, FS_CardinalityType DEF Count

\* Counts alone: a target that has at least as many rows as the source lacks a
\* row of the source only if it has another one in its place.
LEMMA ExtraRowsMakeUp ==
    ASSUME NEW S, NEW T, IsFiniteSet(S), IsFiniteSet(T),
           Cardinality(S) <= Cardinality(T), S \ T # {}
    PROVE  T \ S # {}
<1>. SUFFICES ASSUME T \subseteq S PROVE FALSE
  OBVIOUS
<1>1. Cardinality(S) \in Nat /\ Cardinality(T) \in Nat
  BY FS_CardinalityType
<1>2. Cardinality(T) <= Cardinality(S) /\ (Cardinality(S) = Cardinality(T) => S = T)
  BY FS_Subset
<1>. QED
  BY <1>1, <1>2

\* If the counts are equal, so are the numbers of rows that one side lacks.
LEMMA AsManyExtraAsMissing ==
    ASSUME NEW S, NEW T, IsFiniteSet(S), IsFiniteSet(T),
           Cardinality(S) = Cardinality(T)
    PROVE  Cardinality(T \ S) = Cardinality(S \ T)
<1>1. Cardinality(S \ T) = Cardinality(S) - Cardinality(S \cap T)
  BY FS_Difference
<1>2. Cardinality(T \ S) = Cardinality(T) - Cardinality(T \cap S)
  BY FS_Difference
<1>3. S \cap T = T \cap S
  OBVIOUS
<1>. QED
  BY <1>1, <1>2, <1>3

(***************************************************************************)
(* A passed post-validation vouches for the sampled keys, and for as many  *)
(* of the others as the row counts can.  The argument is about the         *)
(* contents alone, so it holds in every state.                             *)
(***************************************************************************)
THEOREM PassIsWorth == Spec => []PassMeansKeysCopied
<1>1. PassMeansKeysCopied
  <2>. SUFFICES ASSUME PostErrors(Validated, source, session) = {},
                       NEW t \in Validated
                PROVE  /\ Missing(t) \cap Sample(source, t) = {}
                       /\ Missing(t) # {} => Extra(t) # {}
                       /\ Mode = "rollback" =>
                            Cardinality(Extra(t)) = Cardinality(Missing(t))
    BY DEF PassMeansKeysCopied
  <2>. DEFINE S == KeysOf(source, t)
              T == KeysOf(session, t)
  <2>1. ~RowCountFails(t, source, session) /\ ~PkSamplingFails(t, source, session)
    BY DEF PostErrors
  <2>2. IsFiniteSet(S) /\ IsFiniteSet(T)
    BY KeysAreCounted
  <2>3. /\ Count(source, t) = Cardinality(S) /\ Cardinality(S) \in Nat
        /\ Count(session, t) = Cardinality(T) /\ Cardinality(T) \in Nat
    BY KeysAreCounted
  <2>4. Cardinality(S) <= Cardinality(T)
    BY <2>1, <2>3 DEF RowCountFails
  <2>5. Mode = "rollback" => Cardinality(S) = Cardinality(T)
    BY <2>1, <2>3 DEF RowCountFails
  <2>6. Missing(t) \cap Sample(source, t) = {}
    BY <2>1 DEF PkSamplingFails, MissingFrom, Missing
  <2>7. Missing(t) # {} => Extra(t) # {}
    BY <2>2, <2>4, ExtraRowsMakeUp DEF Missing, Extra
  <2>8. Mode = "rollback" => Cardinality(Extra(t)) = Cardinality(Missing(t))
    BY <2>2, <2>5, AsManyExtraAsMissing DEF Missing, Extra
  <2>. QED
    BY <2>6, <2>7, <2>8
<1>. QED
  BY <1>1, PTL

-------------------------------------------------------------------------------
(* The planner's plans.                                                     *)

\* Batches of a set of keys: each begins and ends with one of the keys, every
\* key is in the range of one, and ranges do not overlap.
LEMMA BatchesCover ==
    ASSUME NEW t \in Tables, NEW op \in Operations, NEW pks \in SUBSET Keys
    PROVE  /\ IsFiniteSet(CreateBatches(t, op, pks))
           /\ \A b \in CreateBatches(t, op, pks) :
                /\ b \in Batch /\ b.table = t /\ b.op = op
                /\ b.first \in pks /\ b.first <= b.last
           /\ \A k \in pks : \E b \in CreateBatches(t, op, pks) : b.first <= k /\ k <= b.last
           /\ \A b, c \in CreateBatches(t, op, pks) :
                b # c => b.last < c.first \/ c.last < b.first
<1>. DEFINE pieces == Pieces(pks, BatchSize)
            Made(chunk) == [table |-> t, op |-> op, first |-> Min(chunk), last |-> Max(chunk)]
<1>1. pks \in SUBSET Int /\ IsFiniteSet(pks) /\ BatchSize \in Nat \ {0}
  BY KeysAssumption, KeysFiniteAssumption, BatchSizeAssumption, FS_Subset
<1>2. /\ pieces \in Seq(SUBSET pks)
      /\ \A k \in pks : \E i \in DOMAIN pieces : k \in pieces[i]
  BY <1>1, PiecesCover
<1>3. /\ \A i \in DOMAIN pieces : pieces[i] # {} /\ pieces[i] \in SUBSET pks
      /\ \A i, j \in DOMAIN pieces : i < j =>
            \A k \in pieces[i], m \in pieces[j] : k < m
  BY <1>1, <1>2, PiecesAscend
<1>4. IsFiniteSet(ToSet(pieces))
  <2>1. ToSet(pieces) \in SUBSET (SUBSET pks)
    BY <1>3 DEF ToSet
  <2>2. IsFiniteSet(SUBSET pks)
    BY <1>1, FS_SUBSET
  <2>. QED
    BY <2>1, <2>2, FS_Subset
<1>5. CreateBatches(t, op, pks) = {Made(chunk) : chunk \in ToSet(pieces)}
  BY DEF CreateBatches
<1>6. IsFiniteSet({Made(chunk) : chunk \in ToSet(pieces)})
  <2>. DEFINE f == [chunk \in ToSet(pieces) |-> Made(chunk)]
  <2>1. f \in Surjection(ToSet(pieces), {Made(chunk) : chunk \in ToSet(pieces)})
    BY DEF Surjection
  <2>. QED
    BY <1>4, <2>1, FS_Surjection
<1>. HIDE DEF pieces
<1>7. ASSUME NEW i \in DOMAIN pieces
      PROVE  /\ Min(pieces[i]) \in pieces[i] /\ Max(pieces[i]) \in pieces[i]
             /\ \A k \in pieces[i] : Min(pieces[i]) <= k /\ k <= Max(pieces[i])
  <2>1. pieces[i] \in SUBSET Int /\ IsFiniteSet(pieces[i]) /\ pieces[i] # {}
    BY <1>1, <1>3, FS_Subset
  <2>2. PICK lo, hi \in pieces[i] : \A k \in pieces[i] : lo <= k /\ k <= hi
    BY <2>1, Extremes
  <2>3. Min(pieces[i]) \in pieces[i] /\ \A k \in pieces[i] : Min(pieces[i]) <= k
    BY <2>2 DEF Min
  <2>4. \A k \in pieces[i] : hi >= k
    BY <2>1, <2>2
  <2>5. Max(pieces[i]) \in pieces[i] /\ \A k \in pieces[i] : Max(pieces[i]) >= k
    BY <2>2, <2>4 DEF Max
  <2>6. \A k \in pieces[i] : k <= Max(pieces[i])
    BY <2>1, <2>5
  <2>. QED
    BY <2>3, <2>5, <2>6
<1>8. ASSUME NEW b \in CreateBatches(t, op, pks)
      PROVE  \E i \in DOMAIN pieces : b = Made(pieces[i])
  BY <1>5 DEF ToSet
<1>9. ASSUME NEW i \in DOMAIN pieces
      PROVE  /\ Made(pieces[i]) \in CreateBatches(t, op, pks)
             /\ Made(pieces[i]) \in Batch /\ Made(pieces[i]).first \in pks
             /\ Made(pieces[i]).first <= Made(pieces[i]).last
  <2>1. Min(pieces[i]) \in pks /\ Max(pieces[i]) \in pks /\ Min(pieces[i]) <= Max(pieces[i])
    BY <1>3, <1>7
  <2>. QED
    BY <1>5, <2>1 DEF ToSet, Batch
<1>10. ASSUME NEW b \in CreateBatches(t, op, pks)
       PROVE  /\ b \in Batch /\ b.table = t /\ b.op = op
              /\ b.first \in pks /\ b.first <= b.last
  BY <1>8, <1>9
<1>11. ASSUME NEW k \in pks
       PROVE  \E b \in CreateBatches(t, op, pks) : b.first <= k /\ k <= b.last
  <2>1. PICK i \in DOMAIN pieces : k \in pieces[i]
    BY <1>2
  <2>2. Made(pieces[i]).first <= k /\ k <= Made(pieces[i]).last
    BY <1>7, <2>1
  <2>. QED
    BY <1>9, <2>2
<1>12. ASSUME NEW b \in CreateBatches(t, op, pks), NEW c \in CreateBatches(t, op, pks), b # c
       PROVE  b.last < c.first \/ c.last < b.first
  <2>1. PICK i \in DOMAIN pieces : b = Made(pieces[i])
    BY <1>8
  <2>2. PICK j \in DOMAIN pieces : c = Made(pieces[j])
    BY <1>8
  <2>3. i \in Int /\ j \in Int /\ i # j
    BY <1>2, <1>12, <2>1, <2>2
  <2>4. /\ i < j => Max(pieces[i]) < Min(pieces[j])
        /\ j < i => Max(pieces[j]) < Min(pieces[i])
    BY <1>3, <1>7
  <2>. QED
    BY <2>1, <2>2, <2>3, <2>4
<1>. QED
  BY <1>5, <1>6, <1>10, <1>11, <1>12

\* The keys for which operation op is planned.
PksFor(src, tgt, t, op) ==
    CASE op = "insert" -> Delta(src, tgt, t).insert_pks
      [] op = "update" -> Delta(src, tgt, t).update_pks
      [] op = "delete" -> Delta(src, tgt, t).delete_pks

LEMMA PksAreKeys ==
    ASSUME NEW src, NEW tgt, NEW t, NEW op \in Operations
    PROVE  PksFor(src, tgt, t, op) \in SUBSET Keys
BY DEF PksFor, Delta, KeysOf, Operations

LEMMA ComparedTables ==
    /\ Compared \in SUBSET Tables /\ IsFiniteSet(Compared)
    /\ \A t \in Compared : Position(t) \in Nat /\ CommonTables[Position(t)] = t
<1>. DEFINE n == Len(CommonTables)
<1>1. n \in Nat /\ CommonTables \in [1 .. n -> Tables]
  BY CommonTablesAssumption
<1>2. IsFiniteSet(1 .. n)
  BY <1>1, FS_Interval
<1>3. CommonTables \in Surjection(1 .. n, ToSet(CommonTables))
  BY <1>1 DEF Surjection, ToSet
<1>4. IsFiniteSet(ToSet(CommonTables))
  BY <1>2, <1>3, FS_Surjection
<1>5. Compared \in SUBSET ToSet(CommonTables)
  BY DEF Compared
<1>6. ToSet(CommonTables) \in SUBSET Tables
  BY <1>1 DEF ToSet
<1>7. IsFiniteSet(Compared)
  BY <1>4, <1>5, FS_Subset
<1>8. ASSUME NEW t \in Compared
      PROVE  Position(t) \in Nat /\ CommonTables[Position(t)] = t
  <2>1. \E i \in 1 .. n : CommonTables[i] = t
    BY <1>1, <1>5 DEF ToSet
  <2>2. Position(t) \in 1 .. n /\ CommonTables[Position(t)] = t
    BY <1>1, <2>1 DEF Position
  <2>. QED
    BY <2>2
<1>. QED
  BY <1>5, <1>6, <1>7, <1>8

\* A batch is planned if its table is compared and its operation planned.
LEMMA BatchesPlanned ==
    ASSUME NEW src, NEW tgt
    PROVE  /\ \A b \in BatchesOf(src, tgt) :
                /\ b.table \in Compared /\ b.op \in Operations
                /\ b.op = "delete" => Mode = "rollback"
                /\ b \in CreateBatches(b.table, b.op, PksFor(src, tgt, b.table, b.op))
           /\ \A t \in Compared, op \in Operations :
                op # "delete" \/ Mode = "rollback" =>
                    CreateBatches(t, op, PksFor(src, tgt, t, op)) \subseteq BatchesOf(src, tgt)
<1>1. ASSUME NEW t \in Compared, NEW op \in Operations,
             NEW b \in CreateBatches(t, op, PksFor(src, tgt, t, op))
      PROVE  b.table = t /\ b.op = op
  BY <1>1, BatchesCover, PksAreKeys, ComparedTables
<1>2. ASSUME NEW t \in Compared
      PROVE  ClassifyOperations(t, Delta(src, tgt, t)) =
                 CreateBatches(t, "insert", PksFor(src, tgt, t, "insert"))
                 \cup CreateBatches(t, "update", PksFor(src, tgt, t, "update"))
                 \cup (IF Mode = "rollback"
                       THEN CreateBatches(t, "delete", PksFor(src, tgt, t, "delete")) ELSE {})
  BY DEF ClassifyOperations, PksFor
<1>3. ASSUME NEW b \in BatchesOf(src, tgt)
      PROVE  /\ b.table \in Compared /\ b.op \in Operations
             /\ b.op = "delete" => Mode = "rollback"
             /\ b \in CreateBatches(b.table, b.op, PksFor(src, tgt, b.table, b.op))
  <2>1. PICK t \in Compared : b \in ClassifyOperations(t, Delta(src, tgt, t))
    BY DEF BatchesOf
  <2>2. PICK op \in Operations :
            /\ b \in CreateBatches(t, op, PksFor(src, tgt, t, op))
            /\ op = "delete" => Mode = "rollback"
    BY <1>2, <2>1 DEF Operations
  <2>3. b.table = t /\ b.op = op
    BY <1>1, <2>2
  <2>. QED
    BY <2>2, <2>3
<1>4. ASSUME NEW t \in Compared, NEW op \in Operations, op # "delete" \/ Mode = "rollback"
      PROVE  CreateBatches(t, op, PksFor(src, tgt, t, op)) \subseteq BatchesOf(src, tgt)
  <2>1. CreateBatches(t, op, PksFor(src, tgt, t, op))
            \subseteq ClassifyOperations(t, Delta(src, tgt, t))
    BY <1>2, <1>4 DEF Operations
  <2>. QED
    BY <2>1 DEF BatchesOf
<1>. QED
  BY <1>3, <1>4

\* A plan lists each of its batches once.
LEMMA PlanLists ==
    ASSUME NEW src, NEW tgt
    PROVE  /\ \A b \in BatchesOf(src, tgt) : \E n \in DOMAIN Plan(src, tgt) : Plan(src, tgt)[n] = b
           /\ \A n \in DOMAIN Plan(src, tgt) : Plan(src, tgt)[n] \in BatchesOf(src, tgt)
           /\ \A m, n \in DOMAIN Plan(src, tgt) : m # n => Plan(src, tgt)[m] # Plan(src, tgt)[n]
<1>. DEFINE S == BatchesOf(src, tgt)
            before == {p \in S \X S : IsListedBefore(p[1], p[2])}
<1>1. ASSUME NEW b \in S
      PROVE  /\ Position(b.table) \in Nat /\ b.table \in Compared
             /\ b.op \in Operations /\ b.first \in Int /\ b.last \in Int /\ b.first <= b.last
  <2>1. /\ b.table \in Compared /\ b.op \in Operations
        /\ b \in CreateBatches(b.table, b.op, PksFor(src, tgt, b.table, b.op))
    BY BatchesPlanned
  <2>2. b \in Batch /\ b.first <= b.last
    BY <2>1, BatchesCover, PksAreKeys, ComparedTables
  <2>. QED
    BY <2>1, <2>2, ComparedTables, KeysAssumption DEF Batch
<1>2. ASSUME NEW b \in S, NEW c \in S, b.table = c.table, b.op = c.op, b # c
      PROVE  b.first < c.first \/ c.first < b.first
  <2>1. b.last < c.first \/ c.last < b.first
    BY <1>2, BatchesPlanned, BatchesCover, PksAreKeys, ComparedTables
  <2>. QED
    BY <1>1, <2>1
<1>3. IsFiniteSet(S)
  <2>1. ASSUME NEW t \in Compared
        PROVE  IsFiniteSet(ClassifyOperations(t, Delta(src, tgt, t)))
    <3>1. \A op \in Operations : IsFiniteSet(CreateBatches(t, op, PksFor(src, tgt, t, op)))
      BY BatchesCover, PksAreKeys, ComparedTables
    <3>2. /\ IsFiniteSet(CreateBatches(t, "insert", Delta(src, tgt, t).insert_pks))
          /\ IsFiniteSet(CreateBatches(t, "update", Delta(src, tgt, t).update_pks))
          /\ IsFiniteSet(CreateBatches(t, "delete", Delta(src, tgt, t).delete_pks))
      BY <3>1 DEF Operations, PksFor
    <3>3. IsFiniteSet(IF Mode = "rollback"
                      THEN CreateBatches(t, "delete", Delta(src, tgt, t).delete_pks) ELSE {})
      BY <3>2, FS_EmptySet
    <3>. QED
      BY <3>2, <3>3, FS_Union DEF ClassifyOperations
  <2>. DEFINE all == {ClassifyOperations(t, Delta(src, tgt, t)) : t \in Compared}
              f == [t \in Compared |-> ClassifyOperations(t, Delta(src, tgt, t))]
  <2>2. f \in Surjection(Compared, all)
    BY DEF Surjection
  <2>3. IsFiniteSet(all)
    BY <2>2, ComparedTables, FS_Surjection
  <2>4. \A T \in all : IsFiniteSet(T)
    BY <2>1
  <2>. QED
    BY <2>3, <2>4, FS_UNION DEF BatchesOf
<1>4. IsStrictTotalOrder(before, S)
  <2>1. ASSUME NEW b \in S, NEW c \in S
        PROVE  <<b, c>> \in before <=> IsListedBefore(b, c)
    OBVIOUS
  <2>. HIDE DEF before, S
  <2>2. ASSUME NEW b \in S PROVE <<b, b>> \notin before
    BY <1>1, <2>1 DEF IsListedBefore, OperationPlace, Operations
  <2>3. ASSUME NEW b \in S, NEW c \in S, NEW d \in S,
               <<b, c>> \in before, <<c, d>> \in before
        PROVE  <<b, d>> \in before
    <3>1. IsListedBefore(b, c) /\ IsListedBefore(c, d)
      BY <2>1, <2>3
    <3>2. IsListedBefore(b, d)
      BY <1>1, <3>1 DEF IsListedBefore, OperationPlace, Operations
    <3>. QED
      BY <2>1, <3>2
  <2>4. ASSUME NEW b \in S, NEW c \in S, b # c
        PROVE  <<b, c>> \in before \/ <<c, b>> \in before
    <3>1. b.table # c.table => Position(b.table) # Position(c.table)
      BY <1>1, ComparedTables
    <3>2. b.table = c.table /\ b.op = c.op => b.first < c.first \/ c.first < b.first
      BY <1>2, <2>4
    <3>3. IsListedBefore(b, c) \/ IsListedBefore(c, b)
      BY <1>1, <3>1, <3>2 DEF IsListedBefore, OperationPlace, Operations
    <3>. QED
      BY <2>1, <3>3
  <2>. QED
    BY <2>2, <2>3, <2>4 DEF IsStrictTotalOrder
<1>5. Plan(src, tgt) = InOrder(S, before)
  BY DEF Plan
<1>. HIDE DEF S, before
<1>6. InOrder(S, before) \in Seq(S)
  BY <1>3, <1>4, InOrderLists
<1>7. \A n \in DOMAIN InOrder(S, before) : InOrder(S, before)[n] \in S
  BY <1>6
<1>8. /\ \A b \in S : \E n \in DOMAIN InOrder(S, before) : InOrder(S, before)[n] = b
      /\ \A m, n \in DOMAIN InOrder(S, before) :
            InOrder(S, before)[m] = InOrder(S, before)[n] => m = n
  BY <1>3, <1>4, InOrderLists
<1>. QED
  BY <1>5, <1>7, <1>8 DEF S

(***************************************************************************)
(* The planner's plans are complete and well made, for tables and batches  *)
(* of any size, if every table is compared.  What is left to the contents  *)
(* is whether a range reaches over a row it was not planned for.           *)
(***************************************************************************)
LEMMA PlansAreComplete ==
    ASSUME Tables = Compared, NEW src \in Contents, NEW tgt \in Contents
    PROVE  /\ PlanIsComplete(PlannedInput(src, tgt))
           /\ BatchesAreWellMade(PlannedInput(src, tgt))
<1>. DEFINE i == PlannedInput(src, tgt)
            P == Plan(src, tgt)
<1>1. i.manifest = P /\ i.source = src /\ i.target = tgt
  BY DEF PlannedInput
<1>. HIDE DEF i, P
<1>2. /\ \A b \in BatchesOf(src, tgt) : \E n \in DOMAIN P : P[n] = b
      /\ \A n \in DOMAIN P : P[n] \in BatchesOf(src, tgt)
      /\ \A m, n \in DOMAIN P : m # n => P[m] # P[n]
  BY PlanLists DEF P
<1>3. ASSUME NEW r \in Rows, NEW op \in Operations, r[2] \in PksFor(src, tgt, r[1], op),
             op # "delete" \/ Mode = "rollback"
      PROVE  IsPlanned(i, op, r)
  <2>1. r[1] \in Compared /\ r[1] \in Tables /\ r[2] \in Keys
    BY DEF Rows
  <2>2. PICK b \in CreateBatches(r[1], op, PksFor(src, tgt, r[1], op)) :
            b.first <= r[2] /\ r[2] <= b.last
    BY <1>3, <2>1, BatchesCover, PksAreKeys
  <2>3. b.table = r[1] /\ b.op = op
    BY <2>1, <2>2, BatchesCover, PksAreKeys
  <2>4. b \in BatchesOf(src, tgt)
    BY <1>3, <2>1, <2>2, BatchesPlanned
  <2>5. PICK n \in DOMAIN P : P[n] = b
    BY <1>2, <2>4
  <2>. QED
    BY <1>1, <2>2, <2>3, <2>5 DEF IsPlanned, RangeRows
<1>4. PlanIsComplete(i)
  <2>. SUFFICES ASSUME NEW r \in Rows, tgt[r] # src[r]
                PROVE  \/ src[r] # Absent /\ tgt[r] = Absent /\ IsPlanned(i, "insert", r)
                       \/ src[r] # Absent /\ tgt[r] # Absent /\ IsPlanned(i, "update", r)
                       \/ src[r] = Absent /\ (Mode = "sync" \/ IsPlanned(i, "delete", r))
    BY <1>1 DEF PlanIsComplete
  <2>1. r = <<r[1], r[2]>> /\ r[1] \in Tables /\ r[2] \in Keys
    BY DEF Rows
  <2>2. /\ src[r] # Absent /\ tgt[r] = Absent => r[2] \in PksFor(src, tgt, r[1], "insert")
        /\ src[r] # Absent /\ tgt[r] # Absent => r[2] \in PksFor(src, tgt, r[1], "update")
        /\ src[r] = Absent => r[2] \in PksFor(src, tgt, r[1], "delete")
    BY <2>1 DEF PksFor, Delta, KeysOf
  <2>3. {"insert", "update", "delete"} \subseteq Operations
    BY DEF Operations
  <2>. QED
    BY <1>3, <2>2, <2>3, ModeAssumption
<1>5. BatchesAreWellMade(i)
  <2>. SUFFICES ASSUME NEW m \in DOMAIN P, NEW n \in DOMAIN P
                PROVE  /\ P[m].op = "insert" => src[<<P[m].table, P[m].first>>] # Absent
                       /\ P[m].op = "delete" => Mode = "rollback"
                       /\ P[m].op = P[n].op /\ m # n => RangeRows(P[m]) \cap RangeRows(P[n]) = {}
    BY <1>1 DEF BatchesAreWellMade
  <2>1. ASSUME NEW b \in BatchesOf(src, tgt)
        PROVE  /\ b.table \in Compared /\ b.op \in Operations /\ b \in Batch
               /\ b.op = "delete" => Mode = "rollback"
               /\ b \in CreateBatches(b.table, b.op, PksFor(src, tgt, b.table, b.op))
               /\ b.first \in PksFor(src, tgt, b.table, b.op)
    BY BatchesPlanned, BatchesCover, PksAreKeys
  <2>2. P[m] \in BatchesOf(src, tgt) /\ P[n] \in BatchesOf(src, tgt)
    BY <1>2
  <2>3. P[m].op = "insert" => src[<<P[m].table, P[m].first>>] # Absent
    BY <2>1, <2>2 DEF PksFor, Delta, KeysOf
  <2>4. ASSUME P[m].op = P[n].op, m # n
        PROVE  RangeRows(P[m]) \cap RangeRows(P[n]) = {}
    <3>1. P[m] # P[n]
      BY <1>2, <2>4
    <3>2. P[m].table = P[n].table => P[m].last < P[n].first \/ P[n].last < P[m].first
      BY <2>1, <2>2, <2>4, <3>1, BatchesCover, PksAreKeys
    <3>3. /\ P[m].first \in Int /\ P[m].last \in Int /\ P[n].first \in Int /\ P[n].last \in Int
      BY <2>1, <2>2, KeysAssumption DEF Batch
    <3>4. \A r \in Rows : r[2] \in Int
      BY KeysAssumption DEF Rows
    <3>. QED
      BY <3>2, <3>3, <3>4 DEF RangeRows
  <2>. QED
    BY <2>1, <2>2, <2>3, <2>4
<1>. QED
  BY <1>4, <1>5 DEF i

(***************************************************************************)
(* Batches of one key leave no gaps.                                       *)
(***************************************************************************)
LEMMA SingleKeysLeaveNoGaps ==
    ASSUME BatchSize = 1, NEW src \in Contents, NEW tgt \in Contents
    PROVE  RangesHaveNoGaps(PlannedInput(src, tgt))
<1>. DEFINE i == PlannedInput(src, tgt)
            P == Plan(src, tgt)
<1>1. i.manifest = P /\ i.source = src /\ i.target = tgt
  BY DEF PlannedInput
<1>. HIDE DEF i, P
<1>2. ASSUME NEW b \in BatchesOf(src, tgt)
      PROVE  /\ b.first = b.last /\ b.table \in Compared /\ b.op \in Operations
             /\ b.first \in PksFor(src, tgt, b.table, b.op) /\ b.first \in Keys
  <2>. DEFINE pks == PksFor(src, tgt, b.table, b.op)
  <2>1. /\ b.table \in Compared /\ b.op \in Operations
        /\ b \in CreateBatches(b.table, b.op, pks)
    BY BatchesPlanned
  <2>2. pks \in SUBSET Keys /\ pks \in SUBSET Int /\ IsFiniteSet(pks)
    BY <2>1, PksAreKeys, KeysAssumption, KeysFiniteAssumption, FS_Subset
  <2>3. b.first \in pks
    BY <2>1, <2>2, BatchesCover, ComparedTables
  <2>. HIDE DEF pks
  <2>4. PICK n \in DOMAIN Pieces(pks, 1) :
            b.first = Min(Pieces(pks, 1)[n]) /\ b.last = Max(Pieces(pks, 1)[n])
    BY <2>1 DEF CreateBatches, ToSet
  <2>5. Pieces(pks, 1)[n] = Piece(pks, 1, n) /\ Pieces(pks, 1)[n] # {} /\ n \in Int
    <3>1. 1 \in Nat \ {0} /\ pks \in SUBSET Int /\ IsFiniteSet(pks)
      BY <2>2
    <3>2. /\ DOMAIN Pieces(pks, 1) = 1 .. (Cardinality(pks) + 1 - 1) \div 1
          /\ \A j \in DOMAIN Pieces(pks, 1) : Pieces(pks, 1)[j] = Piece(pks, 1, j)
      BY <3>1, PiecesCover
    <3>3. Pieces(pks, 1)[n] # {}
      BY <3>1, PiecesAscend
    <3>4. Cardinality(pks) \in Nat
      BY <3>1, FS_CardinalityType
    <3>5. n \in 1 .. (Cardinality(pks) + 1 - 1) \div 1
      BY <2>4, <3>2
    <3>6. n \in Int
      BY <3>4, <3>5
    <3>. QED
      BY <2>4, <3>2, <3>3, <3>6
  <2>6. ASSUME NEW k \in Piece(pks, 1, n), NEW m \in Piece(pks, 1, n)
        PROVE  k = m
    <3>1. k \in pks /\ m \in pks /\ k \in Int /\ m \in Int
      BY <2>2 DEF Piece
    <3>2. Rank(k, pks) \in 1 .. Cardinality(pks) /\ Rank(m, pks) \in 1 .. Cardinality(pks)
      BY <2>2, <3>1, Ranks
    <3>3. Rank(k, pks) = n /\ Rank(m, pks) = n
      BY <2>5, <3>2 DEF Piece
    <3>4. ~(k < m) /\ ~(m < k)
      <4>1. \A x, y \in pks : x < y => Rank(x, pks) < Rank(y, pks)
        BY <2>2, Ranks
      <4>. QED
        BY <2>5, <3>1, <3>3, <4>1
    <3>. QED
      BY <3>1, <3>4
  <2>7. PICK k \in Piece(pks, 1, n) : Piece(pks, 1, n) = {k}
    BY <2>5, <2>6
  <2>8. k \in Int
    <3>1. k \in pks
      BY <2>7 DEF Piece
    <3>. QED
      BY <2>2, <3>1
  <2>9. Min({k}) = k /\ Max({k}) = k
    BY <2>8 DEF Min, Max
  <2>. QED
    BY <2>1, <2>2, <2>3, <2>4, <2>5, <2>7, <2>9 DEF pks
<1>. SUFFICES RangesHaveNoGaps(i)
  BY DEF i
<1>3. SUFFICES ASSUME NEW n \in DOMAIN P, NEW k \in Keys,
                      P[n].first <= k, k <= P[n].last
               PROVE  /\ P[n].op = "insert" => ~(/\ src[<<P[n].table, k>>] # Absent
                                                 /\ tgt[<<P[n].table, k>>] # Absent)
                      /\ P[n].op = "update" => (src[<<P[n].table, k>>] # Absent
                                                 <=> tgt[<<P[n].table, k>>] # Absent)
                      /\ P[n].op = "delete" => ~(src[<<P[n].table, k>>] # Absent)
  BY <1>1 DEF RangesHaveNoGaps
<1>4. P[n] \in BatchesOf(src, tgt)
  BY PlanLists DEF P
<1>5. /\ P[n].first = P[n].last /\ P[n].first \in Int
      /\ P[n].first \in PksFor(src, tgt, P[n].table, P[n].op)
  BY <1>2, <1>4, KeysAssumption
<1>6. k = P[n].first
  <2>1. k \in Int
    BY <1>3, KeysAssumption
  <2>. QED
    BY <1>3, <1>5, <2>1
<1>7. P[n].op \in Operations
  BY <1>2, <1>4
<1>. QED
  BY <1>5, <1>6, <1>7 DEF PksFor, Delta, KeysOf

(***************************************************************************)
(* What the executor relies on holds of the planner's plans, wherever      *)
(* their ranges have no gaps; with batches of one key, of all of them.     *)
(***************************************************************************)
PlansAreWellMade == \A i \in Inputs : WellPlanned(i)

THEOREM PlannerPlansWell ==
    ASSUME Tables = Compared,
           Inputs \subseteq {PlannedInput(db[1], db[2]) : db \in Contents \X Contents},
           BatchSize = 1 \/ \A i \in Inputs : RangesHaveNoGaps(i)
    PROVE  PlansAreWellMade
<1>. SUFFICES ASSUME NEW i \in Inputs
              PROVE  WellPlanned(i)
  BY DEF PlansAreWellMade
<1>1. PICK src \in Contents, tgt \in Contents : i = PlannedInput(src, tgt)
  OBVIOUS
<1>2. RangesHaveNoGaps(i)
  BY <1>1, SingleKeysLeaveNoGaps
<1>. QED
  BY <1>1, <1>2, PlansAreComplete DEF WellPlanned

-------------------------------------------------------------------------------
(* Migrations by well made plans.                                           *)

(***************************************************************************)
(* The migration of input i is under way: rows only ever go from what the  *)
(* target had to what the source has, in the session first, and in sync    *)
(* mode the target's own rows stay.                                        *)
(***************************************************************************)
Reached(i) ==
    /\ manifest = i.manifest
    /\ source = i.source
    /\ \A r \in Rows :
        /\ committed[r] \in {i.target[r], source[r]}
        /\ session[r] \in {committed[r], source[r]}
        /\ Mode = "sync" /\ source[r] = Absent
              => committed[r] = i.target[r] /\ session[r] = i.target[r]

(***************************************************************************)
(* The rows a batch touches are as the source has them.                    *)
(***************************************************************************)
IsRight(b, db) == \A r \in TouchedRows(manifest[b], source) : db[r] = source[r]

(***************************************************************************)
(* Batches that are through are right: in the session before the commit,   *)
(* durably after it and for good.                                          *)
(***************************************************************************)
DoneInv ==
    /\ pc \in {"restoreOk", "commit"} => IsRight(cur, session)
    /\ pc = "complete" => IsRight(cur, committed)
    /\ \A b \in Ids : rowStatus[b] = "completed" => IsRight(b, committed)

(***************************************************************************)
(* Where ranges have no gaps, every statement leaves the source's value.   *)
(***************************************************************************)
LEMMA StatementsAreRight ==
    ASSUME TypeOK, NEW i \in Inputs, WellPlanned(i), Reached(i),
           NEW b \in Ids, NEW r \in TouchedRows(manifest[b], source)
    PROVE  /\ r \in Rows
           /\ NewValue(manifest[b], source, session, r) = source[r]
           /\ source[r] = Absent => Mode # "sync"
<1>1. /\ manifest[b] \in Batch
      /\ manifest[b].op \in {"insert", "update", "delete"}
  <2>1. manifest[b] \in Batch
    BY DEF TypeOK, ExecTypeOK, Ids
  <2>. QED
    BY <2>1 DEF Batch, Operations
<1>2. /\ r \in Rows /\ r = <<manifest[b].table, r[2]>> /\ r[2] \in Keys
      /\ manifest[b].first <= r[2] /\ r[2] <= manifest[b].last
  BY DEF TouchedRows, FetchedRows, RangeRows, Rows
<1>3. CASE manifest[b].op = "insert"
  BY <1>2, <1>3 DEF NewValue, TouchedRows, FetchedRows
<1>4. CASE manifest[b].op = "update"
  <2>1. source[r] # Absent
    BY <1>4 DEF TouchedRows, FetchedRows
  <2>2. i.target[r] # Absent
    BY <1>2, <1>4, <2>1 DEF WellPlanned, RangesHaveNoGaps, Reached, Ids
  <2>3. session[r] # Absent
    BY <1>2, <2>1, <2>2 DEF Reached
  <2>. QED
    BY <1>2, <1>4, <2>1, <2>3 DEF NewValue
<1>5. CASE manifest[b].op = "delete"
  <2>1. source[r] = Absent
    BY <1>2, <1>5 DEF WellPlanned, RangesHaveNoGaps, Reached, Ids
  <2>2. Mode = "rollback"
    BY <1>5 DEF WellPlanned, BatchesAreWellMade, Reached, Ids
  <2>. QED
    BY <1>2, <1>5, <2>1, <2>2 DEF NewValue
<1>. QED
  BY <1>1, <1>3, <1>4, <1>5

LEMMA WritingIsRight ==
    ASSUME TypeOK, NEW i \in Inputs, WellPlanned(i), Reached(i), Writing,
           NEW r \in Rows
    PROVE  \/ session'[r] = session[r]
           \/ /\ r \in TouchedRows(manifest[cur], source)
              /\ session'[r] = source[r]
              /\ source[r] = Absent => Mode # "sync"
<1>1. PICK ran \in SUBSET TouchedRows(manifest[cur], source) :
           session' = WriteRows(manifest[cur], source, session, ran)
  BY DEF Writing
<1>2. CASE r \in ran
  <2>1. session'[r] = NewValue(manifest[cur], source, session, r)
    BY <1>1, <1>2 DEF WriteRows
  <2>. QED
    BY <1>2, <2>1, StatementsAreRight DEF Writing
<1>3. CASE r \notin ran
  BY <1>1, <1>3 DEF WriteRows
<1>. QED
  BY <1>2, <1>3

(***************************************************************************)
(* Every step goes ahead or back to what is durable.                       *)
(***************************************************************************)
LEMMA RowsGoAhead ==
    ASSUME TypeOK, NEW i \in Inputs, WellPlanned(i), Reached(i), [Next]_vars
    PROVE  /\ Reached(i)'
           /\ \A r \in Rows : committed'[r] \in {committed[r], source[r]}
<1>1. manifest' = manifest /\ source' = source
  BY CommitsGrow
<1>2. ASSUME NEW r \in Rows
      PROVE  /\ committed'[r] \in {i.target[r], source[r]}
             /\ session'[r] \in {committed'[r], source[r]}
             /\ Mode = "sync" /\ source[r] = Absent
                   => committed'[r] = i.target[r] /\ session'[r] = i.target[r]
             /\ committed'[r] \in {committed[r], source[r]}
  <2>0. /\ committed[r] \in {i.target[r], source[r]}
        /\ session[r] \in {committed[r], source[r]}
        /\ Mode = "sync" /\ source[r] = Absent
              => committed[r] = i.target[r] /\ session[r] = i.target[r]
    BY DEF Reached
  <2>1. CASE Writing
    <3>1. \/ session'[r] = session[r]
          \/ session'[r] = source[r] /\ (source[r] = Absent => Mode # "sync")
      BY <2>1, WritingIsRight
    <3>2. committed'[r] = committed[r] \/ committed'[r] = session'[r]
      BY <2>1 DEF Writing
    <3>. QED
      BY <2>0, <3>1, <3>2
  <2>2. CASE committed' = committed /\ session' = session
    BY <2>0, <2>2
  <2>3. CASE committed' = committed /\ session' = committed
    BY <2>0, <2>3
  <2>4. CASE committed' = session /\ session' = session
    BY <2>0, <2>4
  <2>. QED
    BY <2>1, <2>2, <2>3, <2>4, TargetMoves
<1>. QED
  BY <1>1, <1>2 DEF Reached

(***************************************************************************)
(* A row that is right stays right.                                        *)
(***************************************************************************)
LEMMA RightStaysRight ==
    ASSUME TypeOK, NEW i \in Inputs, WellPlanned(i), Reached(i), [Next]_vars,
           NEW b \in Ids, IsRight(b, committed)
    PROVE  IsRight(b, committed)'
<1>1. manifest' = manifest /\ source' = source
  BY CommitsGrow
<1>2. TouchedRows(manifest[b], source) \subseteq Rows
  BY DEF TouchedRows, FetchedRows, RangeRows
<1>3. \A r \in Rows : committed'[r] \in {committed[r], source[r]}
  BY RowsGoAhead
<1>. QED
  BY <1>1, <1>2, <1>3 DEF IsRight

LEMMA SessionIsRight ==
    ASSUME TypeOK, NEW i \in Inputs, WellPlanned(i), Reached(i), DoneInv,
           [Next]_vars, pc' \in {"restoreOk", "commit"}
    PROVE  IsRight(cur, session)'
<1>1. manifest' = manifest /\ source' = source
  BY CommitsGrow
<1>2. CASE Write
  <2>1. /\ cur \in Ids /\ cur' = cur
        /\ session' = Effect(manifest[cur], source, session)
    BY <1>2 DEF Write, AtWrite, RunStatements, Goto, TypeOK, ExecTypeOK, InBatch
  <2>2. \A r \in TouchedRows(manifest[cur], source) : session'[r] = source[r]
    BY <2>1, StatementsAreRight DEF Effect, WriteRows
  <2>. QED
    BY <1>1, <2>1, <2>2 DEF IsRight
<1>3. CASE RestoreIdentity
  BY <1>1, <1>3 DEF RestoreIdentity, SetIdentityGenerated, Goto, DoneInv, IsRight
<1>4. CASE UNCHANGED vars
  BY <1>4 DEF vars, execVars, targetVars, DoneInv, IsRight
<1>5. Write \/ RestoreIdentity \/ UNCHANGED vars
  BY DEF Next, vars, execVars, Step, Fault, Execute, Resume, SkipCompleted,
     SkipTripped, StartBatch, Return, SaveRunning, Begin, OverrideIdentity,
     WriteFails, Commit, Complete, Rollback, Fail, StepFails, CommitFails,
     CommitAckLost, CompleteFails, RollbackFails, CheckpointFails, Crash, Goto
<1>. QED
  BY <1>2, <1>3, <1>4, <1>5

LEMMA CommittedIsRight ==
    ASSUME TypeOK, DoneInv, [Next]_vars, pc' = "complete"
    PROVE  IsRight(cur, committed)'
<1>1. manifest' = manifest /\ source' = source
  BY CommitsGrow
<1>2. CASE Commit
  BY <1>1, <1>2 DEF Commit, CommitWork, CountCommit, DoneInv, IsRight
<1>3. CASE UNCHANGED vars
  BY <1>3 DEF vars, execVars, targetVars, DoneInv, IsRight
<1>4. Commit \/ UNCHANGED vars
  BY DEF Next, vars, execVars, Step, Fault, Execute, Resume, SkipCompleted,
     SkipTripped, StartBatch, Return, SaveRunning, Begin, OverrideIdentity,
     Write, WriteFails, RestoreIdentity, Complete, Rollback, Fail, StepFails,
     CommitFails, CommitAckLost, CompleteFails, RollbackFails, CheckpointFails,
     Crash, Goto
<1>. QED
  BY <1>2, <1>3, <1>4

LEMMA DoneStep ==
    ASSUME TypeOK, NEW i \in Inputs, WellPlanned(i), Reached(i), DoneInv, [Next]_vars
    PROVE  DoneInv'
<1>1. Ids' = Ids /\ Ids \subseteq BatchIds
  BY CommitsGrow DEF Ids, TypeOK, ExecTypeOK
<1>2. ASSUME NEW b \in Ids, rowStatus'[b] = "completed"
      PROVE  IsRight(b, committed)'
  <2>1. CASE rowStatus[b] = "completed"
    BY <2>1, RightStaysRight DEF DoneInv
  <2>2. CASE rowStatus[b] # "completed"
    <3>1. Complete /\ b = cur
      BY <1>1, <1>2, <2>2, NewlyCompleted
    <3>2. IsRight(b, committed)
      BY <3>1 DEF Complete, DoneInv
    <3>. QED
      BY <3>2, RightStaysRight
  <2>. QED
    BY <2>1, <2>2
<1>. QED
  BY <1>1, <1>2, SessionIsRight, CommittedIsRight DEF DoneInv

LEMMA ReachedInit ==
    ASSUME Init
    PROVE  DoneInv /\ \E i \in Inputs : Reached(i)
<1>1. PICK i \in Inputs :
          /\ manifest = i.manifest
          /\ source = i.source
          /\ TargetInit(i.target)
  BY DEF Init
<1>2. Reached(i)
  BY <1>1 DEF Reached, TargetInit
<1>3. DoneInv
  <2>1. Ids \subseteq BatchIds
    BY InitTypeOK DEF TypeOK, ExecTypeOK
  <2>. QED
    BY <2>1 DEF Init, StoreInit, DoneInv
<1>. QED
  BY <1>2, <1>3

-------------------------------------------------------------------------------
(***************************************************************************)
(* The inductive invariant of a migration by well made plans.              *)
(***************************************************************************)
RightInv ==
    /\ ReturnInv
    /\ LocalInv
    /\ DoneInv
    /\ \E i \in Inputs : Reached(i)

LEMMA RightInvInit == Init => RightInv
BY ReturnInvInit, LocalAndTrippedInit, ReachedInit DEF RightInv

LEMMA RightInvStep ==
    ASSUME PlansAreWellMade, RightInv, [Next]_vars
    PROVE  /\ RightInv'
           /\ \A r \in Rows : committed'[r] \in {committed[r], source[r]}
<1>1. TypeOK /\ ReturnInv' /\ LocalInv'
  BY ReturnInvStep, LocalStep DEF RightInv, ReturnInv, CommitInv
<1>2. PICK i \in Inputs : Reached(i)
  BY DEF RightInv
<1>3. WellPlanned(i)
  BY DEF PlansAreWellMade
<1>4. DoneInv' /\ Reached(i)'
  BY <1>1, <1>2, <1>3, DoneStep, RowsGoAhead DEF RightInv
<1>. QED
  BY <1>1, <1>2, <1>3, <1>4, RowsGoAhead DEF RightInv

(***************************************************************************)
(* Once every batch is completed nothing is missing from the target.       *)
(***************************************************************************)
LEMMA CompletedMeansCaughtUp ==
    ASSUME PlansAreWellMade, RightInv, \A b \in Ids : rowStatus[b] = "completed"
    PROVE  CaughtUp
<1>1. PICK i \in Inputs : Reached(i)
  BY DEF RightInv
<1>2. WellPlanned(i) /\ manifest = i.manifest /\ source = i.source
  BY <1>1 DEF PlansAreWellMade, Reached
<1>3. ASSUME NEW op, NEW r \in Rows, IsPlanned(i, op, r),
             source[r] # Absent \/ op = "delete"
      PROVE  committed[r] = source[r]
  <2>1. PICK b \in Ids : manifest[b].op = op /\ r \in RangeRows(manifest[b])
    BY <1>2, <1>3 DEF IsPlanned, Ids
  <2>2. r \in TouchedRows(manifest[b], source)
    BY <1>3, <2>1 DEF TouchedRows, FetchedRows
  <2>. QED
    BY <2>2 DEF RightInv, DoneInv, IsRight
<1>4. SUFFICES ASSUME NEW r \in Rows, source[r] # Absent \/ Mode = "rollback"
               PROVE  committed[r] = source[r]
  BY DEF CaughtUp
<1>5. \/ i.target[r] = source[r]
      \/ source[r] # Absent /\ IsPlanned(i, "insert", r)
      \/ source[r] # Absent /\ IsPlanned(i, "update", r)
      \/ IsPlanned(i, "delete", r)
  BY <1>2, <1>4 DEF WellPlanned, PlanIsComplete
<1>6. CASE i.target[r] = source[r]
  BY <1>1, <1>6 DEF Reached
<1>. QED
  BY <1>3, <1>5, <1>6

(***************************************************************************)
(* If no batch has failed and no table tripped when execute returns, every *)
(* batch is completed.                                                     *)
(***************************************************************************)
Clean == pc = "done" /\ \A b \in Ids : status[b] # "failed" /\ ~IsTripped(TableOf(b))

LEMMA CleanMeansCaughtUp ==
    ASSUME PlansAreWellMade, RightInv, Clean
    PROVE  /\ \A b \in Ids : rowStatus[b] = "completed"
           /\ CaughtUp
           /\ session = committed
<1>1. \A b \in Ids : rowStatus[b] = "completed"
  BY DEF Clean, RightInv, ReturnInv, AccountInv, Accounted
<1>2. session = committed
  <2>1. session \in Contents /\ committed \in Contents
    BY DEF RightInv, ReturnInv, CommitInv, TypeOK, TargetTypeOK
  <2>2. \A r \in Rows : session[r] = committed[r]
    BY DEF Clean, RightInv, LocalInv, Open
  <2>. QED
    BY <2>1, <2>2 DEF Contents
<1>. QED
  BY <1>1, <1>2, CompletedMeansCaughtUp

(***************************************************************************)
(* A migration by well made plans that returns without a failed batch or a *)
(* tripped table has made the target what the mode wants it to be, however *)
(* often processes died and batches were executed on the way.              *)
(***************************************************************************)
THEOREM MigrationsCatchUp ==
    ASSUME PlansAreWellMade
    PROVE  Spec => []ReturnMeansCaughtUp
<1>1. RightInv => ReturnMeansCaughtUp
  BY CleanMeansCaughtUp DEF Clean, ReturnMeansCaughtUp
<1>2. RightInv /\ [Next]_vars => RightInv'
  BY RightInvStep
<1>. QED
  BY <1>1, <1>2, RightInvInit, PTL DEF Spec

(***************************************************************************)
(* Where ranges have no gaps, no row that the source has as well ever      *)
(* leaves the target.                                                      *)
(***************************************************************************)
THEOREM CommonRowsStay ==
    ASSUME PlansAreWellMade
    PROVE  Spec => CommonRowsSurvive
<1>1. RightInv /\ [Next]_vars
        => [\A r \in Rows : source[r] # Absent /\ committed[r] # Absent
                              => committed'[r] # Absent]_vars
  BY RightInvStep
<1>2. RightInv /\ [Next]_vars => RightInv'
  BY RightInvStep
<1>. QED
  BY <1>1, <1>2, RightInvInit, PTL DEF Spec, CommonRowsSurvive

(***************************************************************************)
(* In sync mode no durable row ever leaves the target.                     *)
(***************************************************************************)
THEOREM SyncKeepsRows ==
    ASSUME PlansAreWellMade
    PROVE  Spec => SyncDeletesNothing
<1>1. ASSUME RightInv, [Next]_vars, Mode = "sync", NEW r \in Rows,
             committed[r] # Absent
      PROVE  committed'[r] # Absent
  <2>1. CASE source[r] # Absent
    BY <1>1, <2>1, RightInvStep
  <2>2. CASE source[r] = Absent
    <3>1. PICK i \in Inputs : Reached(i)
      BY <1>1 DEF RightInv
    <3>2. Reached(i)' /\ source' = source
      BY <1>1, <3>1, RowsGoAhead, CommitsGrow
         DEF PlansAreWellMade, RightInv, ReturnInv, CommitInv
    <3>. QED
      BY <1>1, <2>2, <3>1, <3>2 DEF Reached
  <2>. QED
    BY <2>1, <2>2
<1>2. RightInv /\ [Next]_vars
        => [Mode = "sync" =>
              \A r \in Rows : committed[r] # Absent => committed'[r] # Absent]_vars
  BY <1>1
<1>3. RightInv /\ [Next]_vars => RightInv'
  BY RightInvStep
<1>. QED
  BY <1>2, <1>3, RightInvInit, PTL DEF Spec, SyncDeletesNothing

-------------------------------------------------------------------------------
(***************************************************************************)
(* The checks of the validator pass on a target that has caught up.        *)
(***************************************************************************)
LEMMA CaughtUpKeys ==
    ASSUME CaughtUp, NEW t \in Tables
    PROVE  /\ KeysOf(source, t) \subseteq KeysOf(committed, t)
           /\ Mode = "rollback" => KeysOf(committed, t) = KeysOf(source, t)
<1>1. \A k \in Keys : <<t, k>> \in Rows
  BY DEF Rows
<1>2. \A k \in Keys :
         IF source[<<t, k>>] # Absent THEN committed[<<t, k>>] = source[<<t, k>>]
         ELSE Mode = "rollback" => committed[<<t, k>>] = Absent
  BY <1>1 DEF CaughtUp
<1>. QED
  BY <1>2 DEF KeysOf

LEMMA NoErrors ==
    ASSUME NEW src, NEW tgt, NEW t \in Tables,
           KeysOf(src, t) \subseteq KeysOf(tgt, t),
           Mode = "rollback" => KeysOf(tgt, t) = KeysOf(src, t)
    PROVE  /\ ~RowCountFails(t, src, tgt)
           /\ ~PkSamplingFails(t, src, tgt)
           /\ ~MissingRowsFail(t, src, tgt)
           /\ ~IdentitySequenceFails(t, src, tgt)
<1>1. IsFiniteSet(KeysOf(tgt, t)) /\ IsFiniteSet(KeysOf(src, t))
  <2>1. KeysOf(tgt, t) \subseteq Keys /\ KeysOf(src, t) \subseteq Keys
    BY DEF KeysOf
  <2>. QED
    BY <2>1, KeysFiniteAssumption, FS_Subset
<1>2. /\ Count(src, t) \in Nat /\ Count(tgt, t) \in Nat
      /\ Count(src, t) <= Count(tgt, t)
  BY <1>1, FS_CardinalityType, FS_Subset DEF Count
<1>3. ~RowCountFails(t, src, tgt)
  <2>1. Mode = "rollback" => Count(src, t) = Count(tgt, t)
    BY DEF Count
  <2>. QED
    BY <1>2, <2>1, ModeAssumption DEF RowCountFails
<1>4. Sample(src, t) \subseteq KeysOf(tgt, t)
  BY DEF Sample
<1>5. ~IdentitySequenceFails(t, src, tgt)
  <2>1. KeysOf(src, t) \subseteq Int
    BY KeysAssumption DEF KeysOf
  <2>2. ASSUME NEW k \in KeysOf(src, t) PROVE MaxKeyReaches(tgt, t, k)
    BY <2>1 DEF MaxKeyReaches
  <2>. QED
    BY <2>2 DEF IdentitySequenceFails
<1>. QED
  BY <1>3, <1>4, <1>5 DEF PkSamplingFails, MissingRowsFail, MissingFrom

(***************************************************************************)
(* The validator raises no false alarm over a migration by well made plans *)
(* that returned without a failed batch or a tripped table.                *)
(***************************************************************************)
THEOREM AlarmsAreTrue ==
    ASSUME PlansAreWellMade
    PROVE  Spec => []NoFalseAlarm
<1>1. ASSUME RightInv, Clean PROVE
        /\ PostErrors(Validated, source, session) = {}
        /\ PostWarnings(Validated \cap AlwaysTables, source, session) = {}
        /\ \A b \in Completed \cap Ids : ~BatchFails(manifest[b], session)
  <2>1. CaughtUp /\ session = committed
    BY <1>1, CleanMeansCaughtUp
  <2>2. /\ \A b \in Ids : manifest[b] \in Batch
        /\ \A b \in Ids : manifest[b].table \in Tables /\ manifest[b].first \in Keys
    <3>1. \A b \in Ids : manifest[b] \in Batch
      BY <1>1 DEF RightInv, ReturnInv, CommitInv, TypeOK, ExecTypeOK, Ids
    <3>. QED
      BY <3>1 DEF Batch
  <2>3. Validated \subseteq Tables
    BY <2>2 DEF Validated, TableOf
  <2>4. \A t \in Tables :
          /\ KeysOf(source, t) \subseteq KeysOf(session, t)
          /\ Mode = "rollback" => KeysOf(session, t) = KeysOf(source, t)
    BY <2>1, CaughtUpKeys
  <2>5. \A t \in Tables :
          /\ ~RowCountFails(t, source, session)
          /\ ~PkSamplingFails(t, source, session)
          /\ ~MissingRowsFail(t, source, session)
          /\ ~IdentitySequenceFails(t, source, session)
    BY <2>4, NoErrors
  <2>6. ASSUME NEW b \in Ids, manifest[b].op = "insert"
        PROVE  MaxKeyReaches(session, manifest[b].table, manifest[b].first)
    <3>1. PICK i \in Inputs : Reached(i)
      BY <1>1 DEF RightInv
    <3>2. source[<<manifest[b].table, manifest[b].first>>] # Absent
      BY <2>6, <3>1 DEF PlansAreWellMade, WellPlanned, BatchesAreWellMade, Reached, Ids
    <3>3. manifest[b].first \in KeysOf(session, manifest[b].table)
      BY <2>2, <2>4, <3>2 DEF KeysOf
    <3>4. manifest[b].first \in Int
      BY <2>2, KeysAssumption
    <3>. QED
      BY <3>3, <3>4 DEF MaxKeyReaches
  <2>7. PostErrors(Validated, source, session) = {}
    BY <2>3, <2>5 DEF PostErrors
  <2>8. PostWarnings(Validated \cap AlwaysTables, source, session) = {}
    BY <2>3, <2>5 DEF PostWarnings
  <2>. QED
    BY <2>6, <2>7, <2>8 DEF BatchFails
<1>2. RightInv => NoFalseAlarm
  BY <1>1 DEF Clean, NoFalseAlarm
<1>3. RightInv /\ [Next]_vars => RightInv'
  BY RightInvStep
<1>. QED
  BY <1>2, <1>3, RightInvInit, PTL DEF Spec

-------------------------------------------------------------------------------
(***************************************************************************)
(* The first pass.  While nothing fails but the process, every batch the   *)
(* executor is through with is completed, those that come before the batch *)
(* in hand are among them, and a row differs from what the target had only *)
(* where one of them, or the batch in hand, has written.                   *)
(***************************************************************************)
LevelsFit == \A r \in Rows : \A p \in Refs[r] : Level[p[1]] < Level[r[1]]

Written(b) ==
    \/ b \in visited
    \/ b = cur /\ pc \in Open \cup {"complete"}

FirstPass(i) ==
    /\ pc \notin {"restoreFailed", "rollback", "fail", "raised", "lost"}
    /\ consecutive = [t \in Tables |-> 0]
    /\ \A b \in visited : rowStatus[b] = "completed"
    /\ pc = "idle" => visited = {}
    /\ pc \in InBatch => \A b \in Ids : Before(b, cur) => b \in visited
    /\ pc \in {"idle"} \cup Running =>
          \A r \in Rows : session[r] # i.target[r] =>
             \E b \in Ids : r \in TouchedRows(manifest[b], source) /\ Written(b)

FirstPassInv(i) ==
    /\ Reached(i)
    /\ pc # "idle" => runs >= 1
    /\ runs <= 1 => FirstPass(i)

(***************************************************************************)
(* Rows of well made plans are touched by one batch only.                  *)
(***************************************************************************)
LEMMA OneBatchPerRow ==
    ASSUME TypeOK, NEW i \in Inputs, WellPlanned(i), Reached(i),
           NEW b \in Ids, NEW c \in Ids, NEW r,
           r \in TouchedRows(manifest[b], source),
           r \in TouchedRows(manifest[c], source),
           manifest[b].op = "insert" \/ manifest[b].op = manifest[c].op
    PROVE  b = c
<1>1. /\ r \in RangeRows(manifest[b]) /\ r \in RangeRows(manifest[c])
      /\ manifest = i.manifest /\ source = i.source
  BY DEF TouchedRows, FetchedRows, Reached
<1>2. CASE manifest[b].op = manifest[c].op
  BY <1>1, <1>2 DEF WellPlanned, BatchesAreWellMade, Ids
<1>3. CASE manifest[b].op = "insert" /\ manifest[c].op # "insert"
  <2>1. /\ r = <<manifest[b].table, r[2]>> /\ r[2] \in Keys
        /\ r = <<manifest[c].table, r[2]>>
        /\ manifest[b].first <= r[2] /\ r[2] <= manifest[b].last
        /\ manifest[c].first <= r[2] /\ r[2] <= manifest[c].last
    BY <1>1 DEF RangeRows, Rows
  <2>2. source[r] # Absent
    BY <1>3 DEF TouchedRows, FetchedRows
  <2>3. i.target[r] = Absent
    BY <1>1, <1>3, <2>1, <2>2 DEF WellPlanned, RangesHaveNoGaps, Ids
  <2>4. manifest[c].op \in {"update", "delete"}
    <3>1. manifest[c] \in Batch
      BY DEF TypeOK, ExecTypeOK, Ids
    <3>. QED
      BY <1>3, <3>1 DEF Batch, Operations
  <2>5. CASE manifest[c].op = "update"
    BY <1>1, <2>1, <2>2, <2>3, <2>5 DEF WellPlanned, RangesHaveNoGaps, Ids
  <2>6. CASE manifest[c].op = "delete"
    BY <1>1, <2>1, <2>2, <2>6 DEF WellPlanned, RangesHaveNoGaps, Ids
  <2>. QED
    BY <2>4, <2>5, <2>6
<1>. QED
  BY <1>2, <1>3

(***************************************************************************)
(* A row that a completed batch touches is right in the session as well.   *)
(***************************************************************************)
LEMMA CompletedInSession ==
    ASSUME NEW i \in Inputs, Reached(i), DoneInv, NEW b \in Ids,
           rowStatus[b] = "completed", NEW r \in TouchedRows(manifest[b], source)
    PROVE  session[r] = source[r]
<1>1. r \in Rows
  BY DEF TouchedRows, FetchedRows, RangeRows
<1>2. committed[r] = source[r]
  BY DEF DoneInv, IsRight
<1>. QED
  BY <1>1, <1>2 DEF Reached

(***************************************************************************)
(* Parents are there before their children are inserted: they were in the  *)
(* target, or the batch that inserts them comes before.                    *)
(***************************************************************************)
LEMMA InsertsAreAccepted ==
    ASSUME TypeOK, NEW i \in Inputs, WellPlanned(i), Consistent(i.source), LevelsFit,
           DoneInv, InHandInv, Reached(i), FirstPass(i), AtWrite,
           manifest[cur].op = "insert"
    PROVE  ~Refused(manifest[cur], source, session)
<1>0. /\ cur \in Ids /\ cur \notin visited /\ pc \in {"apply", "write"}
      /\ manifest = i.manifest /\ source = i.source
      /\ Level \in [Tables -> Nat]
  BY LevelAssumption DEF AtWrite, TypeOK, ExecTypeOK, InBatch, InHandInv, Reached
<1>1. ASSUME NEW r \in TouchedRows(manifest[cur], source)
      PROVE  session[r] = Absent /\ Refs[r] \subseteq Present(session)
  <2>1. /\ r \in Rows /\ source[r] # Absent
        /\ r = <<manifest[cur].table, r[2]>> /\ r[2] \in Keys
        /\ manifest[cur].first <= r[2] /\ r[2] <= manifest[cur].last
    BY DEF AtWrite, TouchedRows, FetchedRows, RangeRows, Rows
  <2>2. session[r] = Absent
    <3>1. i.target[r] = Absent
      BY <1>0, <2>1 DEF WellPlanned, RangesHaveNoGaps, Ids
    <3>2. SUFFICES ASSUME session[r] # i.target[r] PROVE FALSE
      BY <3>1
    <3>3. PICK b \in Ids : r \in TouchedRows(manifest[b], source) /\ Written(b)
      BY <1>0, <2>1, <3>2 DEF FirstPass, Running, InBatch
    <3>4. b = cur
      BY <1>0, <3>3, OneBatchPerRow
    <3>. QED
      BY <1>0, <3>3, <3>4 DEF Written, Open
  <2>3. ASSUME NEW p \in Refs[r] PROVE p \in Present(session)
    <3>1. p \in Rows /\ source[p] # Absent /\ Level[p[1]] < Level[r[1]]
      BY <1>0, <2>1, RefsAssumption DEF Consistent, Present, LevelsFit
    <3>2. CASE i.target[p] # Absent
      BY <3>1, <3>2 DEF Reached, Present
    <3>3. CASE i.target[p] = Absent
      <4>1. PICK b \in Ids : manifest[b].op = "insert" /\ p \in RangeRows(manifest[b])
        BY <1>0, <3>1, <3>3 DEF WellPlanned, PlanIsComplete, IsPlanned, Ids
      <4>2. TableOf(b) = p[1] /\ TableOf(cur) = r[1]
        BY <2>1, <4>1 DEF TableOf, RangeRows
      <4>3. Before(b, cur)
        BY <3>1, <4>1, <4>2 DEF Before, Phase, SortKey
      <4>4. rowStatus[b] = "completed"
        BY <1>0, <4>3 DEF FirstPass, InBatch
      <4>5. p \in TouchedRows(manifest[b], source)
        BY <3>1, <4>1 DEF TouchedRows, FetchedRows
      <4>. QED
        BY <3>1, <4>4, <4>5, CompletedInSession DEF Present
    <3>. QED
      BY <3>2, <3>3
  <2>. QED
    BY <2>2, <2>3
<1>. QED
  BY <1>1 DEF Refused, RefusedRows, RefusedAmong

(***************************************************************************)
(* Children are gone before their parents are deleted: the source has them *)
(* no more than their parents, and the batch that deletes them comes       *)
(* before.                                                                 *)
(***************************************************************************)
LEMMA DeletesAreAccepted ==
    ASSUME TypeOK, NEW i \in Inputs, WellPlanned(i), Consistent(i.source), LevelsFit,
           DoneInv, InHandInv, Reached(i), FirstPass(i), AtWrite,
           manifest[cur].op = "delete"
    PROVE  ~Refused(manifest[cur], source, session)
<1>0. /\ cur \in Ids /\ cur \notin visited /\ pc \in {"apply", "write"}
      /\ manifest = i.manifest /\ source = i.source
      /\ Level \in [Tables -> Nat]
      /\ Mode = "rollback"
  <2>1. cur \in Ids /\ pc \in {"apply", "write"} /\ cur \notin visited
    BY DEF AtWrite, TypeOK, ExecTypeOK, InBatch, InHandInv
  <2>2. manifest = i.manifest /\ source = i.source
    BY DEF Reached
  <2>3. Mode = "rollback"
    BY <2>1, <2>2 DEF WellPlanned, BatchesAreWellMade, Ids
  <2>. QED
    BY <2>1, <2>2, <2>3, LevelAssumption
<1>1. ASSUME NEW r \in TouchedRows(manifest[cur], source),
             NEW c \in Present(session), r \in Refs[c]
      PROVE  FALSE
  <2>1. /\ r \in Rows
        /\ r = <<manifest[cur].table, r[2]>> /\ r[2] \in Keys
        /\ manifest[cur].first <= r[2] /\ r[2] <= manifest[cur].last
    BY DEF TouchedRows, FetchedRows, RangeRows, Rows
  <2>2. source[r] = Absent
    BY <1>0, <2>1 DEF WellPlanned, RangesHaveNoGaps, Ids
  <2>3. c \in Rows /\ session[c] # Absent
    BY DEF Present
  <2>4. source[c] = Absent
    BY <1>0, <1>1, <2>2, <2>3 DEF Consistent, Present
  <2>5. i.target[c] # source[c]
    BY <2>3, <2>4 DEF Reached
  <2>6. PICK b \in Ids : manifest[b].op = "delete" /\ c \in RangeRows(manifest[b])
    BY <1>0, <2>3, <2>4, <2>5 DEF WellPlanned, PlanIsComplete, IsPlanned, Ids
  <2>7. /\ Level[r[1]] < Level[c[1]]
        /\ TableOf(b) = c[1] /\ TableOf(cur) = r[1]
        /\ Level[r[1]] \in Nat /\ Level[c[1]] \in Nat
    BY <1>0, <1>1, <2>1, <2>3, <2>6 DEF LevelsFit, TableOf, RangeRows, Rows
  <2>8. SortKey(b) = -Level[c[1]] /\ SortKey(cur) = -Level[r[1]]
    BY <2>6, <2>7 DEF SortKey
  <2>9. Before(b, cur)
    <3>1. Phase(b) = Phase(cur)
      BY <2>6 DEF Phase
    <3>2. SortKey(b) < SortKey(cur)
      BY <2>7, <2>8
    <3>. QED
      BY <3>1, <3>2 DEF Before
  <2>10. rowStatus[b] = "completed"
    BY <1>0, <2>9 DEF FirstPass, InBatch
  <2>11. c \in TouchedRows(manifest[b], source)
    BY <2>6 DEF TouchedRows
  <2>. QED
    BY <2>3, <2>4, <2>10, <2>11, CompletedInSession
<1>. QED
  BY <1>1 DEF Refused, RefusedRows, RefusedAmong

LEMMA NothingIsRefused ==
    ASSUME TypeOK, NEW i \in Inputs, WellPlanned(i), Consistent(i.source), LevelsFit,
           DoneInv, InHandInv, Reached(i), FirstPass(i), AtWrite
    PROVE  ~Refused(manifest[cur], source, session)
<1>1. manifest[cur].op \in {"insert", "update", "delete"}
  <2>1. manifest[cur] \in Batch
    BY DEF AtWrite, TypeOK, ExecTypeOK, InBatch, Ids
  <2>. QED
    BY <2>1 DEF Batch, Operations
<1>2. CASE manifest[cur].op = "update"
  BY <1>2 DEF Refused, RefusedRows, RefusedAmong
<1>. QED
  BY <1>1, <1>2, InsertsAreAccepted, DeletesAreAccepted

(***************************************************************************)
(* So the first pass takes none of the steps that lead to a rollback.      *)
(***************************************************************************)
OnlyCrashes == Faults \subseteq {"crash"}

QuietStep ==
    \/ Execute \/ Return \/ SaveRunning \/ Begin \/ OverrideIdentity
    \/ Write \/ Commit \/ Complete \/ Crash \/ UNCHANGED vars
    \/ RestoreIdentity /\ pc = "restoreOk"
    \/ \E b \in Ids : SkipCompleted(b) \/ StartBatch(b)

LEMMA NothingIsTripped ==
    ASSUME TypeOK, NEW i \in Inputs, FirstPass(i), NEW b \in Ids
    PROVE  ~IsTripped(TableOf(b))
<1>1. manifest[b] \in Batch
  BY DEF TypeOK, ExecTypeOK, Ids
<1>2. TableOf(b) \in Tables
  BY <1>1 DEF TableOf, Batch
<1>3. consecutive[TableOf(b)] = 0
  BY <1>2 DEF FirstPass
<1>. QED
  BY <1>3, MaxConsecutiveAssumption DEF IsTripped

LEMMA FirstPassIsQuiet ==
    ASSUME OnlyCrashes, TypeOK,
           NEW i \in Inputs, WellPlanned(i), Consistent(i.source), LevelsFit,
           DoneInv, InHandInv, Reached(i), FirstPass(i), [Next]_vars, ~Resume
    PROVE  QuietStep
<1>1. ~WriteFails
  BY NothingIsRefused DEF WriteFails, OnlyCrashes
<1>2. \A b \in Ids : ~SkipTripped(b)
  BY NothingIsTripped DEF SkipTripped
<1>3. /\ ~StepFails /\ ~CommitFails /\ ~CommitAckLost
      /\ ~CompleteFails /\ ~RollbackFails /\ ~CheckpointFails
  BY DEF OnlyCrashes, StepFails, CommitFails, CommitAckLost, CompleteFails,
     RollbackFails, CheckpointFails
<1>4. ~Rollback /\ ~Fail /\ (RestoreIdentity => pc = "restoreOk")
  BY DEF FirstPass, Rollback, Fail, RestoreIdentity
<1>. QED
  BY <1>1, <1>2, <1>3, <1>4 DEF QuietStep, Next, Step, Fault

(***************************************************************************)
(* Quiet steps keep the order of the batches and the record of what was    *)
(* written.                                                                *)
(***************************************************************************)
LEMMA OrderStep ==
    ASSUME TypeOK, QuietStep, ~Execute, pc' \in InBatch,
           pc \in InBatch => \A b \in Ids : Before(b, cur) => b \in visited
    PROVE  (\A b \in Ids : Before(b, cur) => b \in visited)'
<1>1. CASE \E b \in Ids : StartBatch(b)
  <2>1. PICK c \in Ids : StartBatch(c)
    BY <1>1
  <2>2. manifest' = manifest /\ cur' = c /\ visited' = visited
    BY <2>1 DEF StartBatch
  <2>3. ASSUME NEW b \in Ids, Before(b, c), b \notin visited
        PROVE  FALSE
    <3>1. b = c \/ Before(c, b)
      BY <2>1, <2>3 DEF StartBatch, IsNext
    <3>2. /\ manifest[b].op \in {"insert", "update", "delete"}
          /\ manifest[c].op \in {"insert", "update", "delete"}
          /\ TableOf(b) \in Tables /\ TableOf(c) \in Tables
      <4>1. manifest[b] \in Batch /\ manifest[c] \in Batch
        BY DEF TypeOK, ExecTypeOK, Ids
      <4>. QED
        BY <4>1 DEF TableOf, Batch, Operations
    <3>3. Phase(b) \in Int /\ Phase(c) \in Int
      <4>1. Phase(b) \in {1, 2, 3} /\ Phase(c) \in {1, 2, 3}
        BY <3>2 DEF Phase
      <4>. QED
        BY <4>1
    <3>4. SortKey(b) \in Int /\ SortKey(c) \in Int
      <4>1. Level[TableOf(b)] \in Nat /\ Level[TableOf(c)] \in Nat
        BY <3>2, LevelAssumption
      <4>. QED
        BY <4>1 DEF SortKey
    <3>5. b \in Int /\ c \in Int
      BY DEF TypeOK, ExecTypeOK, Ids
    <3>. QED
      BY <2>3, <3>1, <3>3, <3>4, <3>5 DEF Before
  <2>. QED
    BY <2>2, <2>3 DEF Before, Phase, SortKey, TableOf, Ids
<1>2. CASE /\ pc \in InBatch
           /\ UNCHANGED <<manifest, cur, visited>>
  BY <1>2 DEF Before, Phase, SortKey, TableOf, Ids
<1>3. \/ \E b \in Ids : StartBatch(b)
      \/ pc \in InBatch /\ UNCHANGED <<manifest, cur, visited>>
  BY DEF QuietStep, vars, execVars, Return, SaveRunning, Begin,
     OverrideIdentity, Write, Commit, Complete, Crash, RestoreIdentity,
     SkipCompleted, Goto, CountCommit, AtWrite, InBatch
<1>. QED
  BY <1>1, <1>2, <1>3

LEMMA WrittenStep ==
    ASSUME TypeOK, NEW i \in Inputs, FirstPass(i), QuietStep, [Next]_vars,
           Execute => pc = "idle",
           pc' \in {"idle"} \cup Running, NEW r \in Rows, session'[r] # i.target[r]
    PROVE  (\E b \in Ids : r \in TouchedRows(manifest[b], source) /\ Written(b))'
<1>1. manifest' = manifest /\ source' = source /\ Ids' = Ids
  BY CommitsGrow DEF Ids
<1>2. CASE session'[r] = session[r]
  <2>1. pc \in {"idle"} \cup Running
    BY DEF QuietStep, vars, execVars, Execute, Return, SaveRunning, Begin,
       OverrideIdentity, Write, Commit, Complete, Crash, RestoreIdentity,
       SkipCompleted, StartBatch, Goto, AtWrite, Running, InBatch, Stopped
  <2>2. PICK b \in Ids : r \in TouchedRows(manifest[b], source) /\ Written(b)
    BY <1>2, <2>1 DEF FirstPass
  <2>3. ~Execute
    BY <2>2 DEF Execute, Written, FirstPass, Open, Running, InBatch
  <2>4. Written(b)'
    BY <2>2, <2>3 DEF QuietStep, vars, execVars, Return, SaveRunning, Begin,
       OverrideIdentity, Write, Commit, Complete, Crash, RestoreIdentity,
       SkipCompleted, StartBatch, Goto, CountCommit, AtWrite, Written, Open,
       Running, InBatch
  <2>. QED
    BY <1>1, <2>2, <2>4
<1>3. CASE session'[r] # session[r]
  <2>1. Write
    BY <1>3 DEF QuietStep, vars, targetVars, Execute, Return, SaveRunning, Begin,
       BeginTransaction, OverrideIdentity, Commit, CommitWork, Complete, Crash,
       RestoreIdentity, SetIdentityGenerated, SkipCompleted, StartBatch, Goto,
       Running, InBatch
  <2>2. cur \in Ids /\ cur' = cur /\ Written(cur)'
    BY <2>1 DEF Write, Goto, Written, Open, AtWrite, TypeOK, ExecTypeOK, InBatch
  <2>3. r \in TouchedRows(manifest[cur], source)
    BY <1>3, <2>1 DEF Write, RunStatements, Effect, WriteRows
  <2>. QED
    BY <1>1, <2>2, <2>3
<1>. QED
  BY <1>2, <1>3

LEMMA VisitedAreCompleted ==
    ASSUME TypeOK, NEW i \in Inputs, FirstPass(i), InHandInv, QuietStep, [Next]_vars
    PROVE  (\A b \in visited : rowStatus[b] = "completed")'
<1>0. /\ rowStatus \in [BatchIds -> RowStatus] /\ Ids \subseteq BatchIds
      /\ \A b \in visited : rowStatus[b] = "completed"
  BY DEF TypeOK, StoreTypeOK, ExecTypeOK, FirstPass
<1>1. CASE visited' = {}
  BY <1>1
<1>2. CASE /\ visited' = visited
           /\ \A b \in visited :
                 status'[b] = status[b] /\ rowStatus'[b] = rowStatus[b]
  BY <1>0, <1>2
<1>3. ASSUME NEW b \in Ids \ visited, visited' = visited \cup {b},
             \A c \in visited :
                status'[c] = status[c] /\ rowStatus'[c] = rowStatus[c],
             SkipCompleted(b) \/ SkipTripped(b) \/ Finishing(b)
      PROVE  \A c \in visited' : rowStatus'[c] = "completed"
  <2>1. CASE SkipCompleted(b)
    <3>1. rowStatus'[b] = "completed"
      BY <2>1 DEF SkipCompleted, IsLastCompleted, Completed, storeVars
    <3>. QED
      BY <1>0, <1>3, <3>1
  <2>2. CASE Complete /\ b = cur
    <3>1. rowStatus[cur] = "running" /\ cur \in BatchIds
      BY <1>0, <2>2 DEF Complete, InHandInv, InBatch
    <3>2. rowStatus'[b] = "completed"
      BY <1>0, <2>2, <3>1 DEF Complete, MarkBatchCompleted, UpdateStatus
    <3>. QED
      BY <1>0, <1>3, <3>2
  <2>3. ~SkipTripped(b) /\ ~Fail
    BY NothingIsTripped DEF SkipTripped, Fail, FirstPass
  <2>. QED
    BY <1>3, <2>1, <2>2, <2>3 DEF Finishing
<1>. QED
  BY <1>1, <1>2, <1>3, VisitedMoves

LEMMA FirstPassStep ==
    ASSUME OnlyCrashes, LevelsFit, TypeOK, DoneInv, InHandInv,
           NEW i \in Inputs, WellPlanned(i), Consistent(i.source),
           FirstPassInv(i), [Next]_vars
    PROVE  FirstPassInv(i)'
<1>1. Reached(i) /\ Reached(i)'
  BY RowsGoAhead DEF FirstPassInv
<1>2. runs \in Nat /\ (pc # "idle" => runs >= 1)
  BY DEF FirstPassInv, TypeOK, ExecTypeOK
<1>3. \/ runs' = runs + 1 /\ (Execute \/ Resume)
      \/ runs' = runs /\ ~Execute /\ ~Resume
  BY <1>2 DEF Next, vars, execVars, Step, Fault, Execute, Resume, SkipCompleted,
     SkipTripped, StartBatch, Return, SaveRunning, Begin, OverrideIdentity,
     Write, WriteFails, RestoreIdentity, Commit, Complete, Rollback, Fail,
     StepFails, CommitFails, CommitAckLost, CompleteFails, RollbackFails,
     CheckpointFails, Crash, Goto, CountCommit
<1>4. pc' # "idle" => runs' >= 1
  <2>1. pc' = "idle" => pc = "idle" /\ runs' = runs
    BY DEF Next, vars, execVars, Step, Fault, Execute, Resume, SkipCompleted,
       SkipTripped, StartBatch, Return, SaveRunning, Begin, OverrideIdentity,
       Write, WriteFails, RestoreIdentity, Commit, Complete, Rollback, Fail,
       StepFails, CommitFails, CommitAckLost, CompleteFails, RollbackFails,
       CheckpointFails, Crash, Goto, AtWrite
  <2>2. pc = "idle" /\ pc' # "idle" => Execute
    BY DEF Next, vars, execVars, Step, Fault, Resume, Stopped, SkipCompleted,
       SkipTripped, StartBatch, Return, SaveRunning, Begin, OverrideIdentity,
       Write, WriteFails, RestoreIdentity, Commit, Complete, Rollback, Fail,
       StepFails, CommitFails, CommitAckLost, CompleteFails, RollbackFails,
       CheckpointFails, Crash, Running, InBatch, AtWrite
  <2>. QED
    BY <1>2, <1>3, <2>2
<1>5. ASSUME runs' <= 1 PROVE FirstPass(i)'
  <2>1. FirstPass(i) /\ ~Resume /\ (Execute => pc = "idle")
    BY <1>2, <1>3, <1>5 DEF FirstPassInv, Resume, Stopped
  <2>2. QuietStep
    BY <1>1, <2>1, FirstPassIsQuiet
  <2>3. (pc \notin {"restoreFailed", "rollback", "fail", "raised", "lost"})'
    BY <2>1, <2>2 DEF QuietStep, FirstPass, vars, execVars, Execute, Return,
       SaveRunning, Begin, OverrideIdentity, Write, Commit, Complete, Crash,
       RestoreIdentity, SkipCompleted, StartBatch, Goto
  <2>4. consecutive' = [t \in Tables |-> 0]
    <3>1. CASE Complete
      BY <2>1, <3>1 DEF Complete, RecordSuccess, FirstPass
    <3>2. CASE ~Complete
      BY <2>1, <2>2, <3>2 DEF QuietStep, FirstPass, vars, breakerVars, Execute,
         Return, SaveRunning, Begin, OverrideIdentity, Write, Commit, Crash,
         RestoreIdentity, SkipCompleted, StartBatch
    <3>. QED
      BY <3>1, <3>2
  <2>5. (\A b \in visited : rowStatus[b] = "completed")'
    BY <2>1, <2>2, VisitedAreCompleted
  <2>6. pc' = "idle" => visited' = {}
    BY <2>1, <2>2 DEF QuietStep, FirstPass, vars, execVars, Execute, Return,
       SaveRunning, Begin, OverrideIdentity, Write, Commit, Complete, Crash,
       RestoreIdentity, SkipCompleted, StartBatch, Goto
  <2>7. pc' \in InBatch => (\A b \in Ids : Before(b, cur) => b \in visited)'
    <3>1. Execute => pc' \notin InBatch
      BY DEF Execute, InBatch
    <3>. QED
      BY <2>1, <2>2, <3>1, OrderStep DEF FirstPass
  <2>8. pc' \in {"idle"} \cup Running =>
           \A r \in Rows : session'[r] # i.target[r] =>
              (\E b \in Ids : r \in TouchedRows(manifest[b], source) /\ Written(b))'
    BY <2>1, <2>2, WrittenStep
  <2>. QED
    BY <2>3, <2>4, <2>5, <2>6, <2>7, <2>8 DEF FirstPass, Running, InBatch
<1>. QED
  BY <1>1, <1>4, <1>5 DEF FirstPassInv

(***************************************************************************)
(* As long as nothing fails but the process, the first pass over a well    *)
(* made plan is refused no statement and never rolls back, where levels    *)
(* follow the foreign keys and those of the source hold.                   *)
(***************************************************************************)
THEOREM StatementsAreAccepted ==
    ASSUME OnlyCrashes, PlansAreWellMade, LevelsFit,
           \A i \in Inputs : Consistent(i.source)
    PROVE  Spec => []NoStatementIsRefused
<1>. DEFINE Inv == /\ TypeOK /\ DoneInv /\ InHandInv
                   /\ \E i \in Inputs : FirstPassInv(i)
<1>1. Init => Inv
  <2>. SUFFICES ASSUME Init PROVE Inv
    OBVIOUS
  <2>1. TypeOK /\ DoneInv /\ InHandInv
    BY InitTypeOK, ReachedInit DEF Init, InHandInv, InBatch
  <2>2. PICK i \in Inputs :
            /\ manifest = i.manifest
            /\ source = i.source
            /\ TargetInit(i.target)
    BY DEF Init
  <2>3. Reached(i)
    BY <2>2 DEF Reached, TargetInit
  <2>4. FirstPass(i)
    BY <2>2 DEF FirstPass, Init, TargetInit, FreshBreaker, InBatch
  <2>5. FirstPassInv(i)
    BY <2>3, <2>4 DEF FirstPassInv, Init
  <2>. QED
    BY <2>1, <2>5
<1>2. Inv /\ [Next]_vars => Inv'
  <2>. SUFFICES ASSUME Inv, [Next]_vars PROVE Inv'
    OBVIOUS
  <2>1. PICK i \in Inputs : FirstPassInv(i)
    OBVIOUS
  <2>2. WellPlanned(i) /\ Consistent(i.source) /\ Reached(i)
    BY <2>1 DEF PlansAreWellMade, FirstPassInv
  <2>3. TypeOK' /\ DoneInv' /\ InHandInv'
    BY <2>2, NextTypeOK, DoneStep, InHandStep
  <2>4. FirstPassInv(i)'
    BY <2>1, <2>2, FirstPassStep
  <2>. QED
    BY <2>3, <2>4
<1>3. Inv => NoStatementIsRefused
  BY DEF FirstPassInv, FirstPass, NoStatementIsRefused
<1>. QED
  BY <1>1, <1>2, <1>3, PTL DEF Spec

===============================================================================
