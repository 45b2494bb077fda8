------------------------ MODULE DependencyGraphProofs ------------------------
(***************************************************************************)
(* Theorems about DependencyGraph, for every schema.                       *)
(***************************************************************************)
EXTENDS DependencyGraph, FiniteSetTheorems, TLAPS

\* The tables have lower-case names, as get_database_metadata gives them.
AllLowerCase == \A n \in Names : Lower[n] = n

\* At the head of the loop: the edges are complete, the in-degrees count the
\* dependencies without a level, the queue is what has none of them, and the
\* levels given so far respect the edges.
LoopInv ==
    /\ \A t \in Keys : edges[t] = Dependencies(t)
    /\ \A t \in Keys : inDegree[t] = Cardinality(edges[t] \ Leveled)
    /\ queue = {t \in Keys \ Leveled : edges[t] \subseteq Leveled}
    /\ \A t \in Leveled : levels[t] < level /\ edges[t] \subseteq Leveled
    /\ \A t \in Leveled : \A p \in edges[t] : levels[p] < levels[t]

\* When build has returned, an edge is respected or leads to a cycle.
ResultInv ==
    /\ \A t \in Keys : edges[t] = Dependencies(t)
    /\ \A t \in Keys : \A p \in edges[t] : levels[p] < levels[t] \/ BehindCycle(t)

LevelInv ==
    /\ TypeOK
    /\ pc = "build" => levels = [t \in Keys |-> NoLevel] /\ level = 0
    /\ pc = "layers" => LoopInv
    /\ pc = "done" => ResultInv

-------------------------------------------------------------------------------
(***************************************************************************)
(* Facts about the schema.                                                 *)
(***************************************************************************)
LEMMA KeysFinite == Keys \subseteq References /\ IsFiniteSet(Keys)
<1>1. Keys \subseteq References
  BY NamesAssumption, LowerAssumption DEF Keys
<1>. QED
  BY <1>1, NamesAssumption, FS_Subset

\* What build takes as a dependency of t is another table that t refers to;
\* where every name is in lower case, it is every such table.
LEMMA DependenciesAreParents ==
    ASSUME fks \in Catalogues, NEW t \in Keys
    PROVE  /\ Dependencies(t) \subseteq Parents(t)
           /\ Dependencies(t) \subseteq Keys
           /\ AllLowerCase => Dependencies(t) = Parents(t)
<1>1. ASSUME NEW x \in Referenced(t), x \in Names
      PROVE  x \in Keys
  <2>1. PICK fk \in fks : x = Lower[fk[2]]
    BY DEF Referenced
  <2>2. fk[2] \in References
    BY CataloguesAssumption
  <2>3. Lower[x] = x
    BY <2>1, <2>2, LowerAssumption
  <2>. QED
    BY <1>1, <2>3 DEF Keys
<1>2. AllLowerCase => Keys = Names
  BY DEF AllLowerCase, Keys
<1>. QED
  BY <1>1, <1>2 DEF Dependencies, Parents

\* A set of tables each of which depends on another of the set is behind a
\* cycle.
LEMMA LeftOverIsBehindCycle ==
    ASSUME TypeOK, \A t \in Keys : edges[t] = Dependencies(t),
           NEW S \in SUBSET Keys, \A s \in S : edges[s] \cap S # {}
    PROVE  \A s \in S : BehindCycle(s)
<1>1. \A s \in S : Parents(s) \cap S # {}
  BY DependenciesAreParents DEF TypeOK
<1>. QED
  BY <1>1 DEF BehindCycle

LEMMA EdgesFinite ==
    ASSUME TypeOK, NEW t \in Keys, NEW S \in SUBSET edges[t]
    PROVE  /\ IsFiniteSet(S)
           /\ Cardinality(S) \in Nat
           /\ Cardinality(S) = 0 <=> S = {}
<1>1. S \subseteq Keys
  BY DEF TypeOK
<1>2. IsFiniteSet(S)
  BY <1>1, KeysFinite, FS_Subset
<1>. QED
  BY <1>2, FS_CardinalityType, FS_EmptySet

-------------------------------------------------------------------------------
(***************************************************************************)
(* The invariant holds initially and every action preserves it.            *)
(***************************************************************************)
LEMMA InitLevelInv == Init => LevelInv
BY DEF Init, LevelInv, TypeOK, Leveled, NoLevel

LEMMA BuildLevelInv ==
    ASSUME LevelInv, Build
    PROVE  LevelInv'
<1>. USE DEF NoLevel
<1>1. /\ pc = "build" /\ pc' = "layers"
      /\ levels = [t \in Keys |-> NoLevel] /\ levels' = levels
      /\ level = 0 /\ level' = 0 /\ fks' = fks /\ ordered' = ordered
      /\ fks \in Catalogues /\ ordered \in Seq(SUBSET Keys)
  BY DEF Build, LevelInv, TypeOK
<1>2. Leveled = {} /\ Leveled' = {}
  BY <1>1 DEF Leveled
<1>3. \A t \in Keys : Dependencies(t) \subseteq Keys /\ Dependencies(t)' = Dependencies(t)
  BY <1>1, DependenciesAreParents DEF Dependencies, Referenced
<1>4. /\ edges' \in [Keys -> SUBSET Keys]
      /\ \A t \in Keys : edges'[t] = Dependencies(t)
  BY <1>3 DEF Build
<1>5. \A t \in Keys : Cardinality(Dependencies(t)) \in Nat
  BY <1>3, KeysFinite, FS_Subset, FS_CardinalityType
<1>6. /\ inDegree' \in [Keys -> Int]
      /\ \A t \in Keys : inDegree'[t] = Cardinality(edges'[t] \ Leveled')
  <2>1. \A t \in Keys : edges'[t] \ Leveled' = Dependencies(t)
    BY <1>2, <1>4
  <2>2. inDegree' = [t \in Keys |-> Cardinality(Dependencies(t))]
    BY DEF Build
  <2>3. \A t \in Keys : Cardinality(edges'[t] \ Leveled') = Cardinality(Dependencies(t))
    BY <2>1
  <2>. QED
    BY <1>5, <2>2, <2>3
<1>7. queue' = {t \in Keys \ Leveled' : edges'[t] \subseteq Leveled'}
  BY <1>2, <1>4 DEF Build
<1>8. TypeOK'
  BY <1>1, <1>2, <1>4, <1>6, <1>7 DEF TypeOK
<1>9. LoopInv'
  BY <1>2, <1>3, <1>4, <1>6, <1>7 DEF LoopInv
<1>. QED
  BY <1>1, <1>8, <1>9 DEF LevelInv

\* The layer that is taken frees exactly the tables whose open dependencies
\* were all in it.
LEMMA TakeLayerLevelInv ==
    ASSUME LevelInv, TakeLayer
    PROVE  LevelInv'
<1>. DEFINE L == Leveled
<1>1. pc = "layers" /\ TypeOK /\ LoopInv
  BY DEF LevelInv, TakeLayer
<1>2. /\ pc' = "layers" /\ edges' = edges /\ fks' = fks /\ level' = level + 1
      /\ levels' = [t \in Keys |-> IF t \in queue THEN level ELSE levels[t]]
  BY <1>1 DEF TakeLayer
<1>3. queue \cap L = {} /\ queue \subseteq Keys /\ L \subseteq Keys
  BY <1>1 DEF TypeOK, Leveled
<1>4. Leveled' = L \cup queue
  BY <1>1, <1>2, <1>3 DEF Leveled, NoLevel, TypeOK
<1>5. \A t \in Keys : edges[t] \cap queue \subseteq edges[t] \ L
  BY <1>3
<1>6. /\ inDegree' \in [Keys -> Int]
      /\ \A t \in Keys : inDegree'[t] = Cardinality(edges'[t] \ Leveled')
  <2>1. ASSUME NEW t \in Keys
        PROVE  /\ inDegree[t] - Cardinality(edges[t] \cap queue)
                    = Cardinality(edges[t] \ Leveled')
               /\ inDegree[t] - Cardinality(edges[t] \cap queue) \in Int
    <3>. DEFINE open == edges[t] \ L
    <3>1. IsFiniteSet(open) /\ Cardinality(open) \in Nat
      BY <1>1, EdgesFinite
    <3>2. Cardinality(edges[t] \cap queue) \in Nat
      BY <1>1, EdgesFinite
    <3>3. open \cap queue = edges[t] \cap queue /\ open \ queue = edges[t] \ Leveled'
      BY <1>3, <1>4
    <3>4. Cardinality(open \ queue) = Cardinality(open) - Cardinality(open \cap queue)
      BY <3>1, FS_Difference
    <3>5. inDegree[t] = Cardinality(open)
      BY <1>1 DEF LoopInv
    <3>. QED
      BY <3>1, <3>2, <3>3, <3>4, <3>5
  <2>. QED
    BY <1>2, <2>1 DEF TakeLayer
<1>7. queue' = {t \in Keys \ Leveled' : edges'[t] \subseteq Leveled'}
  <2>1. ASSUME NEW t \in Keys,
               edges[t] \cap queue # {},
               inDegree[t] = Cardinality(edges[t] \cap queue)
        PROVE  t \notin Leveled' /\ edges[t] \subseteq Leveled'
    <3>1. t \notin L /\ t \notin queue
      BY <1>1, <1>3, <2>1 DEF LoopInv
    <3>2. IsFiniteSet(edges[t] \ L)
      BY <1>1, EdgesFinite
    <3>3. Cardinality(edges[t] \ L) = Cardinality(edges[t] \cap queue)
      BY <1>1, <2>1 DEF LoopInv
    <3>4. edges[t] \ L = edges[t] \cap queue
      BY <1>5, <3>2, <3>3, FS_Subset
    <3>. QED
      BY <1>4, <3>1, <3>4
  <2>2. ASSUME NEW t \in Keys, t \notin Leveled', edges[t] \subseteq Leveled'
        PROVE  /\ edges[t] \cap queue # {}
               /\ inDegree[t] = Cardinality(edges[t] \cap queue)
    <3>1. t \notin L /\ t \notin queue
      BY <1>4, <2>2
    <3>2. ~(edges[t] \subseteq L)
      BY <1>1, <3>1 DEF LoopInv
    <3>3. edges[t] \ L = edges[t] \cap queue
      BY <1>3, <1>4, <2>2
    <3>. QED
      BY <1>1, <3>2, <3>3 DEF LoopInv
  <2>3. queue' = {t \in Keys : edges[t] \cap queue # {}
                     /\ inDegree[t] = Cardinality(edges[t] \cap queue)}
    BY DEF TakeLayer, Released
  <2>. QED
    BY <1>2, <2>1, <2>2, <2>3
<1>8. TypeOK'
  <2>1. ordered' \in Seq(SUBSET Keys)
    BY <1>1, <1>3 DEF TakeLayer, TypeOK
  <2>. QED
    BY <1>1, <1>2, <1>6, <1>7, <2>1 DEF TypeOK
<1>9. LoopInv'
  <2>1. \A t \in Keys : edges'[t] = Dependencies(t)'
    BY <1>1, <1>2 DEF LoopInv, Dependencies, Referenced
  <2>2. \A t \in Leveled' : edges[t] \subseteq L
    BY <1>1, <1>4 DEF LoopInv
  <2>3. \A t \in L : levels'[t] = levels[t] /\ levels[t] < level
    BY <1>1, <1>2, <1>3 DEF LoopInv
  <2>4. \A t \in queue : levels'[t] = level
    BY <1>2, <1>3
  <2>5. level \in Nat /\ \A t \in Keys : levels[t] \in Int
    BY <1>1 DEF TypeOK, NoLevel
  <2>6. \A t \in Leveled' : levels'[t] < level' /\ edges'[t] \subseteq Leveled'
    BY <1>2, <1>3, <1>4, <2>2, <2>3, <2>4, <2>5
  <2>7. \A t \in Leveled' : \A p \in edges'[t] : levels'[p] < levels'[t]
    <3>1. ASSUME NEW t \in Leveled', NEW p \in edges[t]
          PROVE  levels'[p] < levels'[t]
      <4>1. p \in L /\ levels'[p] = levels[p] /\ levels[p] < level
        BY <2>2, <2>3
      <4>2. CASE t \in queue
        BY <2>4, <4>1, <4>2
      <4>3. CASE t \in L
        BY <1>1, <2>3, <4>1, <4>3 DEF LoopInv
      <4>. QED
        BY <1>4, <4>2, <4>3
    <3>. QED
      BY <1>2, <3>1
  <2>. QED
    BY <1>6, <1>7, <2>1, <2>6, <2>7 DEF LoopInv
<1>. QED
  BY <1>2, <1>8, <1>9 DEF LevelInv

\* When the queue has run dry, the tables with open dependencies are the ones
\* without a level, and each depends on another of them.
LEMMA QueueRunsDry ==
    ASSUME LevelInv, pc = "layers", queue = {}
    PROVE  /\ Remaining = Keys \ Leveled
           /\ \A s \in Remaining : edges[s] \cap Remaining # {}
<1>1. TypeOK /\ LoopInv
  BY DEF LevelInv
<1>2. \A t \in Keys : inDegree[t] > 0 <=> edges[t] \ Leveled # {}
  <2>1. ASSUME NEW t \in Keys
        PROVE  inDegree[t] > 0 <=> edges[t] \ Leveled # {}
    <3>1. /\ Cardinality(edges[t] \ Leveled) \in Nat
          /\ Cardinality(edges[t] \ Leveled) = 0 <=> edges[t] \ Leveled = {}
      BY <1>1, EdgesFinite
    <3>2. inDegree[t] = Cardinality(edges[t] \ Leveled)
      BY <1>1 DEF LoopInv
    <3>. QED
      BY <3>1, <3>2
  <2>. QED
    BY <2>1
<1>3. \A t \in Keys : t \in Leveled <=> edges[t] \subseteq Leveled
  BY <1>1 DEF LoopInv
<1>4. Remaining = Keys \ Leveled
  BY <1>2, <1>3 DEF Remaining, Leveled
<1>5. \A s \in Remaining : edges[s] \subseteq Keys
  BY <1>1 DEF TypeOK, Remaining
<1>. QED
  BY <1>2, <1>4, <1>5 DEF Remaining

LEMMA BreakCycleLevelInv ==
    ASSUME LevelInv, BreakCycle
    PROVE  LevelInv'
<1>1. pc = "layers" /\ queue = {} /\ TypeOK /\ LoopInv
  BY DEF LevelInv, BreakCycle
<1>2. /\ pc' = "done" /\ edges' = edges /\ fks' = fks /\ queue' = {}
      /\ inDegree' = inDegree /\ level' = level
      /\ levels' = [t \in Keys |-> IF t \in Remaining THEN level ELSE levels[t]]
  BY <1>1 DEF BreakCycle
<1>3. /\ Remaining = Keys \ Leveled
      /\ \A s \in Remaining : edges[s] \cap Remaining # {}
  BY <1>1, QueueRunsDry
<1>4. \A s \in Remaining : BehindCycle(s)
  BY <1>1, <1>3, LeftOverIsBehindCycle DEF LoopInv
<1>5. TypeOK'
  <2>1. ordered' \in Seq(SUBSET Keys)
    BY <1>1, <1>3 DEF BreakCycle, TypeOK
  <2>2. levels' \in [Keys -> Nat \cup {NoLevel}]
    BY <1>1, <1>2 DEF TypeOK
  <2>. QED
    BY <1>1, <1>2, <2>1, <2>2 DEF TypeOK
<1>6. ResultInv'
  <2>1. \A t \in Keys : edges'[t] = Dependencies(t)'
    BY <1>1, <1>2 DEF LoopInv, Dependencies, Referenced
  <2>2. ASSUME NEW t \in Keys
        PROVE  BehindCycle(t)' = BehindCycle(t)
    BY <1>2 DEF BehindCycle, Parents, Referenced
  <2>3. ASSUME NEW t \in Keys, NEW p \in edges[t]
        PROVE  levels'[p] < levels'[t] \/ BehindCycle(t)'
    <3>1. CASE t \in Remaining
      BY <1>4, <2>2, <3>1
    <3>2. CASE t \in Leveled
      <4>1. p \in Leveled /\ levels[p] < levels[t]
        BY <1>1, <3>2 DEF LoopInv
      <4>2. levels'[p] = levels[p] /\ levels'[t] = levels[t]
        BY <1>2, <1>3, <3>2, <4>1 DEF Leveled
      <4>. QED
        BY <4>1, <4>2
    <3>. QED
      BY <1>3, <3>1, <3>2
  <2>. QED
    BY <1>2, <2>1, <2>3 DEF ResultInv
<1>. QED
  BY <1>2, <1>5, <1>6 DEF LevelInv

LEMMA FinishLevelInv ==
    ASSUME LevelInv, Finish
    PROVE  LevelInv'
<1>1. pc = "layers" /\ queue = {} /\ TypeOK /\ LoopInv
  BY DEF LevelInv, Finish
<1>2. pc' = "done" /\ UNCHANGED <<fks, edges, inDegree, queue, level, levels, ordered>>
  BY DEF Finish
<1>3. Leveled = Keys
  BY <1>1, QueueRunsDry DEF Finish, Leveled
<1>4. TypeOK'
  BY <1>1, <1>2 DEF TypeOK, Leveled
<1>5. ResultInv'
  <2>1. \A t \in Keys : edges'[t] = Dependencies(t)'
    BY <1>1, <1>2 DEF LoopInv, Dependencies, Referenced
  <2>. QED
    BY <1>1, <1>2, <1>3, <2>1 DEF LoopInv, ResultInv
<1>. QED
  BY <1>2, <1>4, <1>5 DEF LevelInv

LEMMA LevelInvariant == Spec => []LevelInv
<1>1. LevelInv /\ [Next]_vars => LevelInv'
  <2>. SUFFICES ASSUME LevelInv, [Next]_vars PROVE LevelInv'
    OBVIOUS
  <2>1. CASE UNCHANGED vars
    <3>1. UNCHANGED <<fks, pc, edges, inDegree, queue, level, levels, ordered>>
      BY <2>1 DEF vars
    <3>2. TypeOK' = TypeOK /\ LoopInv' = LoopInv /\ ResultInv' = ResultInv
      BY <3>1 DEF TypeOK, LoopInv, ResultInv, Leveled, Dependencies, Referenced,
                  BehindCycle, Parents
    <3>. QED
      BY <3>1, <3>2 DEF LevelInv
  <2>. QED
    BY <2>1, BuildLevelInv, TakeLayerLevelInv, BreakCycleLevelInv, FinishLevelInv
       DEF Next
<1>. QED
  BY <1>1, InitLevelInv, PTL DEF Spec

-------------------------------------------------------------------------------
(***************************************************************************)
(* TypeOK of DependencyGraph: levels, in-degrees and layers keep their     *)
(* types while build runs, and no table enters the queue twice.            *)
(***************************************************************************)
THEOREM GraphTypeCorrectness == Spec => []TypeOK
BY LevelInvariant, PTL DEF LevelInv

(***************************************************************************)
(* In every schema whose tables have lower-case names, build gives every   *)
(* table a higher level than the tables it refers to, unless it is behind  *)
(* a cycle of foreign keys: inserts run parents first.                     *)
(***************************************************************************)
THEOREM ParentsComeFirst ==
    ASSUME AllLowerCase
    PROVE  Spec => []ForeignKeysAreOrdered
<1>1. LevelInv => ForeignKeysAreOrdered
  <2>. SUFFICES ASSUME LevelInv, pc = "done", NEW t \in Keys, NEW p \in Parents(t)
                PROVE  levels[p] < levels[t] \/ BehindCycle(t)
    BY DEF ForeignKeysAreOrdered
  <2>1. edges[t] = Parents(t)
    BY DependenciesAreParents DEF LevelInv, TypeOK, ResultInv
  <2>. QED
    BY <2>1 DEF LevelInv, ResultInv
<1>. QED
  BY <1>1, LevelInvariant, PTL

-------------------------------------------------------------------------------
(***************************************************************************)
(* The layers are the levels: the i-th layer holds the tables of level     *)
(* i - 1, and when build has returned every table is in one.               *)
(***************************************************************************)
OrderInv ==
    /\ pc = "build" => ordered = <<>>
    /\ pc = "layers" => Len(ordered) = level
    /\ \A i \in 1 .. Len(ordered) : ordered[i] = {t \in Keys : levels[t] = i - 1}
    /\ pc = "done" => \A t \in Keys : levels[t] + 1 \in 1 .. Len(ordered)

\* A layer appended to the order holds the tables that have just got the level.
LEMMA LayerAppended ==
    ASSUME TypeOK, Len(ordered) = level,
           \A i \in 1 .. Len(ordered) : ordered[i] = {t \in Keys : levels[t] = i - 1},
           \A t \in Leveled : levels[t] < level,
           NEW layer \in SUBSET (Keys \ Leveled),
           levels' = [t \in Keys |-> IF t \in layer THEN level ELSE levels[t]],
           ordered' = Append(ordered, layer)
    PROVE  /\ Len(ordered') = level + 1
           /\ \A i \in 1 .. Len(ordered') :
                 ordered'[i] = {t \in Keys : levels'[t] = i - 1}
<1>1. ordered \in Seq(SUBSET Keys) /\ layer \in SUBSET Keys /\ level \in Nat
  BY DEF TypeOK
<1>2. /\ Len(ordered') = level + 1
      /\ \A i \in 1 .. level : ordered'[i] = ordered[i]
      /\ ordered'[level + 1] = layer
  BY <1>1
<1>3. \A t \in Keys : /\ t \in layer => levels'[t] = level /\ levels[t] = -1
                      /\ t \notin layer => levels'[t] = levels[t] /\ levels[t] # level
  BY <1>1 DEF Leveled, NoLevel
<1>4. ASSUME NEW i \in 1 .. level + 1
      PROVE  ordered'[i] = {t \in Keys : levels'[t] = i - 1}
  <2>1. CASE i = level + 1
    <3>1. \A t \in Keys : t \in layer <=> levels'[t] = level
      BY <1>3
    <3>2. i - 1 = level
      BY <1>1, <2>1
    <3>. QED
      BY <1>1, <1>2, <2>1, <3>1, <3>2
  <2>2. CASE i \in 1 .. level
    <3>1. i - 1 \in Nat /\ i - 1 # level
      BY <1>1, <2>2
    <3>2. \A t \in Keys : levels'[t] = i - 1 <=> levels[t] = i - 1
      BY <1>3, <3>1
    <3>3. ordered[i] = {t \in Keys : levels[t] = i - 1}
      BY <2>2
    <3>. QED
      BY <1>2, <2>2, <3>2, <3>3
  <2>3. i = level + 1 \/ i \in 1 .. level
    BY <1>1
  <2>. QED
    BY <2>1, <2>2, <2>3
<1>. QED
  BY <1>1, <1>2, <1>4

LEMMA OrderStep == LevelInv /\ OrderInv /\ [Next]_vars => OrderInv'
<1>. SUFFICES ASSUME LevelInv, OrderInv, [Next]_vars PROVE OrderInv'
  OBVIOUS
<1>t. TypeOK /\ level \in Nat /\ \A t \in Keys : levels[t] \in Nat \cup {-1}
  BY DEF LevelInv, TypeOK, NoLevel
<1>1. CASE Build
  <2>1. pc' = "layers" /\ ordered' = <<>> /\ levels' = levels /\ level' = 0
    BY <1>1 DEF Build, OrderInv, LevelInv
  <2>. QED
    BY <2>1 DEF OrderInv
<1>2. CASE TakeLayer
  <2>1. /\ pc = "layers" /\ pc' = "layers" /\ level' = level + 1
        /\ levels' = [t \in Keys |-> IF t \in queue THEN level ELSE levels[t]]
        /\ ordered' = Append(ordered, queue)
    BY <1>2 DEF TakeLayer
  <2>2. queue \in SUBSET (Keys \ Leveled) /\ \A t \in Leveled : levels[t] < level
    BY <2>1 DEF LevelInv, TypeOK, LoopInv
  <2>3. /\ Len(ordered') = level + 1
        /\ \A i \in 1 .. Len(ordered') :
              ordered'[i] = {t \in Keys : levels'[t] = i - 1}
    BY <1>t, <2>1, <2>2, LayerAppended DEF OrderInv
  <2>. QED
    BY <2>1, <2>3 DEF OrderInv
<1>3. CASE BreakCycle
  <2>1. /\ pc = "layers" /\ pc' = "done" /\ queue = {}
        /\ levels' = [t \in Keys |-> IF t \in Remaining THEN level ELSE levels[t]]
        /\ ordered' = Append(ordered, Remaining)
    BY <1>3 DEF BreakCycle
  <2>2. /\ Remaining = Keys \ Leveled
        /\ \A t \in Leveled : levels[t] < level
    BY <2>1, QueueRunsDry DEF LevelInv, LoopInv
  <2>3. /\ Len(ordered') = level + 1
        /\ \A i \in 1 .. Len(ordered') :
              ordered'[i] = {t \in Keys : levels'[t] = i - 1}
    BY <1>t, <2>1, <2>2, LayerAppended DEF OrderInv
  <2>4. \A t \in Keys : levels'[t] + 1 \in 1 .. Len(ordered')
    <3>. SUFFICES ASSUME NEW t \in Keys PROVE levels'[t] \in Nat /\ levels'[t] <= level
      BY <1>t, <2>3
    <3>1. CASE t \in Remaining
      BY <1>t, <2>1, <3>1
    <3>2. CASE t \in Leveled
      BY <1>t, <2>1, <2>2, <3>2 DEF Leveled, NoLevel
    <3>. QED
      BY <2>2, <3>1, <3>2
  <2>. QED
    BY <2>1, <2>3, <2>4 DEF OrderInv
<1>4. CASE Finish
  <2>1. /\ pc = "layers" /\ pc' = "done" /\ queue = {} /\ Remaining = {}
        /\ UNCHANGED <<levels, ordered>>
    BY <1>4 DEF Finish
  <2>2. Keys \subseteq Leveled /\ \A t \in Leveled : levels[t] < level
    BY <2>1, QueueRunsDry DEF LevelInv, LoopInv
  <2>3. \A t \in Keys : levels[t] \in Nat /\ levels[t] < Len(ordered)
    BY <1>t, <2>1, <2>2 DEF OrderInv, Leveled, NoLevel
  <2>4. \A t \in Keys : levels[t] + 1 \in 1 .. Len(ordered)
    BY <1>t, <2>1, <2>3 DEF OrderInv
  <2>. QED
    BY <2>1, <2>4 DEF OrderInv
<1>5. CASE UNCHANGED vars
  BY <1>5 DEF vars, OrderInv
<1>. QED
  BY <1>1, <1>2, <1>3, <1>4, <1>5 DEF Next

LEMMA LayersAreLevels == Spec => [](LevelInv /\ OrderInv)
<1>1. Init => OrderInv
  BY DEF Init, OrderInv
<1>. QED
  BY <1>1, LevelInvariant, OrderStep, PTL DEF Spec

(***************************************************************************)
(* The insert order and the delete order name every table once, the one by *)
(* ascending levels and the other by descending ones, in every schema.     *)
(***************************************************************************)
THEOREM OrdersAreByLevel == Spec => []OrdersFollowLevels
<1>1. LevelInv /\ OrderInv => OrdersFollowLevels
  <2>. SUFFICES ASSUME LevelInv, OrderInv, pc = "done"
                PROVE  /\ \A t \in Keys :
                            Cardinality({i \in DOMAIN ordered : t \in ordered[i]}) = 1
                       /\ \A t \in Keys : At(ordered, t) = levels[t] + 1
                       /\ \A t, u \in Keys :
                            levels[t] < levels[u] => At(DeleteOrder, u) < At(DeleteOrder, t)
    BY DEF OrdersFollowLevels, InsertOrder
  <2>. DEFINE n == Len(ordered)
  <2>1. /\ ordered \in Seq(SUBSET Keys) /\ n \in Nat /\ DOMAIN ordered = 1 .. n
        /\ \A t \in Keys : levels[t] \in Int
    BY DEF LevelInv, TypeOK, NoLevel
  <2>2. \A t \in Keys, i \in 1 .. n : t \in ordered[i] <=> i = levels[t] + 1
    BY <2>1 DEF OrderInv
  <2>3. \A t \in Keys : levels[t] + 1 \in 1 .. n
    BY DEF OrderInv
  <2>4. ASSUME NEW t \in Keys
        PROVE  Cardinality({i \in DOMAIN ordered : t \in ordered[i]}) = 1
    <3>1. {i \in DOMAIN ordered : t \in ordered[i]} = {levels[t] + 1}
      BY <2>1, <2>2, <2>3
    <3>. QED
      BY <3>1, FS_Singleton
  <2>5. \A t \in Keys : At(ordered, t) = levels[t] + 1
    BY <2>1, <2>2, <2>3 DEF At
  <2>6. ASSUME NEW t \in Keys
        PROVE  At(DeleteOrder, t) = n - levels[t]
    <3>1. /\ DOMAIN DeleteOrder = 1 .. n
          /\ \A i \in 1 .. n : DeleteOrder[i] = ordered[n - i + 1]
      BY <2>1 DEF DeleteOrder, InsertOrder, Reverse
    <3>2. \A i \in 1 .. n : t \in DeleteOrder[i] <=> i = n - levels[t]
      <4>. SUFFICES ASSUME NEW i \in 1 .. n
                    PROVE  t \in ordered[n - i + 1] <=> i = n - levels[t]
        BY <3>1
      <4>1. n - i + 1 \in 1 .. n
        BY <2>1
      <4>. QED
        BY <2>1, <2>2, <4>1
    <3>3. n - levels[t] \in 1 .. n
      BY <2>1, <2>3
    <3>. QED
      BY <3>1, <3>2, <3>3 DEF At
  <2>7. \A t, u \in Keys :
          levels[t] < levels[u] => At(DeleteOrder, u) < At(DeleteOrder, t)
    BY <2>1, <2>6
  <2>. QED
    BY <2>4, <2>5, <2>7
<1>. QED
  BY <1>1, LayersAreLevels, PTL

-------------------------------------------------------------------------------
(***************************************************************************)
(* No table waits longer than it has to: a table of the queue has a        *)
(* dependency in the layer taken last, so once it has a level that is one  *)
(* more than a dependency's.                                               *)
(***************************************************************************)
TightInv ==
    /\ \A t \in Keys : levels[t] > 0 =>
          \/ \E p \in edges[t] : levels[t] = levels[p] + 1
          \/ BehindCycle(t)
    /\ pc = "layers" /\ level > 0 =>
          \A t \in queue : \E p \in edges[t] : levels[p] + 1 = level

LEMMA TightStep == LevelInv /\ TightInv /\ [Next]_vars => TightInv'
<1>. SUFFICES ASSUME LevelInv, TightInv, [Next]_vars PROVE TightInv'
  OBVIOUS
<1>t. /\ TypeOK /\ level \in Nat /\ \A t \in Keys : levels[t] \in Nat \cup {-1}
      /\ \A t \in Keys : edges[t] \subseteq Keys
  BY DEF LevelInv, TypeOK, NoLevel
<1>f. fks' = fks
  BY DEF Next, Build, TakeLayer, BreakCycle, Finish, vars
<1>b. \A t \in Keys : BehindCycle(t)' <=> BehindCycle(t)
  BY <1>f DEF BehindCycle, Parents, Referenced
<1>1. CASE Build
  <2>1. /\ \A t \in Keys : levels'[t] = -1
        /\ level' = 0
    BY <1>1 DEF Build, LevelInv, NoLevel
  <2>. QED
    BY <2>1 DEF TightInv
<1>2. CASE TakeLayer
  <2>1. /\ pc = "layers" /\ level' = level + 1 /\ edges' = edges
        /\ levels' = [t \in Keys |-> IF t \in queue THEN level ELSE levels[t]]
        /\ queue' \in SUBSET {t \in Keys : edges[t] \cap queue # {}}
    BY <1>2 DEF TakeLayer, Released
  <2>2. LoopInv
    BY <2>1 DEF LevelInv
  \* Tables with a level, and what they depend on, keep it.
  <2>3. \A t \in Leveled : t \in Keys /\ levels'[t] = levels[t]
    BY <2>1, <2>2 DEF LoopInv, Leveled
  <2>4. ASSUME NEW t \in Keys, levels'[t] > 0
        PROVE  (\E p \in edges[t] : levels'[t] = levels'[p] + 1) \/ BehindCycle(t)
    <3>1. CASE t \in queue
      <4>1. levels'[t] = level /\ edges[t] \subseteq Leveled
        BY <2>1, <2>2, <3>1 DEF LoopInv
      <4>2. PICK p \in edges[t] : levels[p] + 1 = level
        BY <2>1, <2>4, <3>1, <4>1 DEF TightInv
      <4>. QED
        BY <2>3, <4>1, <4>2
    <3>2. CASE t \notin queue
      <4>1. levels'[t] = levels[t] /\ t \in Leveled
        BY <1>t, <2>1, <2>4, <3>2 DEF Leveled, NoLevel
      <4>2. edges[t] \subseteq Leveled
        BY <2>2, <4>1 DEF LoopInv
      <4>. QED
        BY <2>3, <2>4, <4>1, <4>2 DEF TightInv
    <3>. QED
      BY <3>1, <3>2
  <2>5. ASSUME NEW t \in queue'
        PROVE  \E p \in edges[t] : levels'[p] + 1 = level'
    BY <1>t, <2>1
  <2>. QED
    BY <1>b, <2>1, <2>4, <2>5 DEF TightInv
<1>3. CASE BreakCycle
  <2>1. /\ pc = "layers" /\ pc' = "done" /\ queue = {} /\ edges' = edges
        /\ levels' = [t \in Keys |-> IF t \in Remaining THEN level ELSE levels[t]]
    BY <1>3 DEF BreakCycle
  <2>2. LoopInv /\ Remaining = Keys \ Leveled
        /\ \A s \in Remaining : edges[s] \cap Remaining # {}
    BY <2>1, QueueRunsDry DEF LevelInv
  <2>3. \A s \in Remaining : BehindCycle(s)
    BY <1>t, <2>2, LeftOverIsBehindCycle DEF LoopInv
  <2>4. \A t \in Leveled : t \in Keys /\ levels'[t] = levels[t] /\ edges[t] \subseteq Leveled
    BY <2>1, <2>2 DEF LoopInv, Leveled
  <2>5. \A t \in Keys : levels'[t] > 0 =>
          (\E p \in edges[t] : levels'[t] = levels'[p] + 1) \/ BehindCycle(t)
    BY <2>2, <2>3, <2>4 DEF TightInv
  <2>. QED
    BY <1>b, <2>1, <2>5 DEF TightInv
<1>4. CASE Finish
  BY <1>4, <1>b DEF Finish, TightInv
<1>5. CASE UNCHANGED vars
  BY <1>5, <1>b DEF vars, TightInv
<1>. QED
  BY <1>1, <1>2, <1>3, <1>4, <1>5 DEF Next

(***************************************************************************)
(* Away from cycles a table's level is 0, or one more than that of a table *)
(* it refers to, in every schema.                                          *)
(***************************************************************************)
THEOREM NoTableWaits == Spec => []LevelsAreTight
<1>1. Init => TightInv
  BY DEF Init, TightInv, NoLevel
<1>2. LevelInv /\ OrderInv /\ TightInv => LevelsAreTight
  <2>. SUFFICES ASSUME LevelInv, OrderInv, TightInv, pc = "done", NEW t \in Keys,
                       ~BehindCycle(t), levels[t] # 0
                PROVE  \E p \in Parents(t) : levels[t] = levels[p] + 1
    BY DEF LevelsAreTight
  <2>1. levels[t] \in Nat \cup {-1} /\ levels[t] + 1 \in 1 .. Len(ordered)
    BY DEF LevelInv, TypeOK, NoLevel, OrderInv
  <2>2. levels[t] > 0
    BY <2>1
  <2>3. edges[t] \subseteq Parents(t)
    BY DependenciesAreParents DEF LevelInv, TypeOK, ResultInv
  <2>. QED
    BY <2>2, <2>3 DEF TightInv
<1>. QED
  BY <1>1, <1>2, LayersAreLevels, TightStep, PTL DEF Spec

-------------------------------------------------------------------------------
(***************************************************************************)
(* Cycles come last: while layers are taken no table behind a cycle gets a *)
(* level, since a set of tables that wait for each other would have to     *)
(* have a first one.                                                       *)
(***************************************************************************)
CycleInv ==
    /\ pc = "build" => Leveled = {}
    /\ pc = "layers" => \A t \in Leveled : ~BehindCycle(t)
    /\ CyclesComeLast

LEMMA CycleStep ==
    ASSUME AllLowerCase, LevelInv, CycleInv, [Next]_vars
    PROVE  CycleInv'
<1>t. /\ TypeOK /\ fks \in Catalogues /\ level \in Nat
      /\ \A t \in Keys : levels[t] \in Nat \cup {-1}
  BY DEF LevelInv, TypeOK, NoLevel
<1>f. fks' = fks
  BY DEF Next, Build, TakeLayer, BreakCycle, Finish, vars
<1>b. \A t \in Keys : BehindCycle(t)' <=> BehindCycle(t)
  BY <1>f DEF BehindCycle, Parents, Referenced
<1>l. Leveled \subseteq Keys
  BY DEF Leveled
<1>1. CASE Build
  <2>1. pc' = "layers" /\ Leveled' = {}
    BY <1>1 DEF Build, CycleInv, Leveled
  <2>. QED
    BY <2>1 DEF CycleInv, CyclesComeLast
<1>2. CASE TakeLayer
  <2>1. /\ pc = "layers" /\ pc' = "layers"
        /\ levels' = [t \in Keys |-> IF t \in queue THEN level ELSE levels[t]]
    BY <1>2 DEF TakeLayer
  <2>2. /\ \A t \in Leveled : ~BehindCycle(t)
        /\ \A t \in Keys : edges[t] = Parents(t)
        /\ queue \subseteq Keys /\ \A t \in queue : edges[t] \subseteq Leveled
    BY <1>t, <2>1, DependenciesAreParents DEF CycleInv, LevelInv, LoopInv
  <2>3. ASSUME NEW t \in queue, BehindCycle(t)
        PROVE  FALSE
    <3>1. PICK S \in SUBSET Keys : t \in S /\ \A s \in S : Parents(s) \cap S # {}
      BY <2>3 DEF BehindCycle
    <3>2. PICK p \in Parents(t) : p \in S
      BY <3>1
    <3>3. p \in Leveled /\ BehindCycle(p)
      BY <2>2, <3>1, <3>2 DEF BehindCycle
    <3>. QED
      BY <2>2, <3>3
  <2>4. Leveled' \subseteq Leveled \cup queue
    BY <2>1 DEF Leveled
  <2>5. \A t \in Leveled' : ~BehindCycle(t)'
    BY <1>b, <1>l, <2>2, <2>3, <2>4
  <2>. QED
    BY <2>1, <2>5 DEF CycleInv, CyclesComeLast
<1>3. CASE BreakCycle
  <2>1. /\ pc = "layers" /\ pc' = "done" /\ queue = {}
        /\ levels' = [t \in Keys |-> IF t \in Remaining THEN level ELSE levels[t]]
    BY <1>3 DEF BreakCycle
  <2>2. /\ Remaining = Keys \ Leveled
        /\ \A s \in Remaining : edges[s] \cap Remaining # {}
        /\ LoopInv
    BY <2>1, QueueRunsDry DEF LevelInv
  <2>3. /\ \A s \in Remaining : BehindCycle(s)
        /\ \A t \in Leveled : ~BehindCycle(t)
    BY <1>t, <2>1, <2>2, LeftOverIsBehindCycle DEF LoopInv, CycleInv
  <2>4. /\ \A t \in Leveled : levels'[t] < level
        /\ \A c \in Remaining : levels'[c] = level
    BY <1>l, <2>1, <2>2 DEF LoopInv
  <2>5. ASSUME NEW t \in Keys, NEW c \in Keys, BehindCycle(c)', ~BehindCycle(t)'
        PROVE  levels'[t] < levels'[c]
    <3>1. t \in Leveled /\ c \in Remaining
      BY <1>b, <2>2, <2>3, <2>5
    <3>. QED
      BY <2>4, <3>1
  <2>6. CyclesComeLast'
    BY <2>5 DEF CyclesComeLast
  <2>. QED
    BY <2>1, <2>6 DEF CycleInv
<1>4. CASE Finish
  <2>1. pc = "layers" /\ pc' = "done" /\ queue = {} /\ Remaining = {}
    BY <1>4 DEF Finish
  <2>2. Keys \subseteq Leveled
    BY <2>1, QueueRunsDry
  <2>3. \A c \in Keys : ~BehindCycle(c)'
    BY <1>b, <2>1, <2>2 DEF CycleInv
  <2>. QED
    BY <2>1, <2>3 DEF CycleInv, CyclesComeLast
<1>5. CASE UNCHANGED vars
  <2>1. UNCHANGED <<pc, levels>>
    BY <1>5 DEF vars
  <2>2. Leveled' = Leveled
    BY <2>1 DEF Leveled
  <2>3. CyclesComeLast'
    BY <1>b, <2>1 DEF CycleInv, CyclesComeLast
  <2>. QED
    BY <1>b, <1>l, <2>1, <2>2, <2>3 DEF CycleInv
<1>. QED
  BY <1>1, <1>2, <1>3, <1>4, <1>5 DEF Next

(***************************************************************************)
(* Where the tables have lower-case names, those behind a cycle of foreign *)
(* keys come after all others.                                             *)
(***************************************************************************)
THEOREM CyclesAreLast ==
    ASSUME AllLowerCase
    PROVE  Spec => []CyclesComeLast
<1>1. Init => CycleInv
  BY DEF Init, CycleInv, CyclesComeLast, Leveled
<1>2. LevelInv /\ CycleInv /\ [Next]_vars => CycleInv'
  BY CycleStep
<1>3. CycleInv => CyclesComeLast
  BY DEF CycleInv
<1>. QED
  BY <1>1, <1>2, <1>3, LevelInvariant, PTL DEF Spec
===============================================================================
