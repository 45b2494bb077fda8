------------------------- MODULE DeltaDetectionProofs -------------------------
(***************************************************************************)
(* What a delta says is right, for tables and pages of any size and any    *)
(* number of writes by applications meanwhile.                             *)
(*                                                                         *)
(* The argument is about positions.  A key a stream has passed was read    *)
(* if it was there all the time; what was read of a key was one of its     *)
(* versions; and a stream ends only when it has passed every key.          *)
(***************************************************************************)
EXTENDS DeltaDetection, FiniteSetTheorems, TLAPS

\* PostgreSQL's streams have limits of their own: composite keys are paged by
\* OFFSET or by their first column, and rows are read from -1.
Orderly ==
    \A s \in Sides :
        Adapter[s] = "postgresql" => ~call.composite /\ call.keys \subseteq Nat

-------------------------------------------------------------------------------
(* Types.                                                                   *)

\* Only keys of the call's table hold rows, now or when the stream began.
TableInv ==
    /\ \A s \in Sides : Present(rows[s]) \subseteq call.keys
    /\ Present(opened) \subseteq call.keys

\* The rows of a side are finitely many, and so are those of a page.
LEMMA SelectionsAreFinite ==
    ASSUME TypeOK, TableInv, NEW s \in Sides, NEW view \in Views(s)
    PROVE  /\ view \in Contents
           /\ IsFiniteSet(Present(view)) /\ Present(view) \subseteq Keys
           /\ \A page \in SUBSET KeySelection(s, view) : Cardinality(page) \in Nat
           /\ \A page \in SUBSET RowSelection(s, view) : Cardinality(page) \in Nat
<1>1. IsFiniteSet(call.keys)
  BY CallsAssumption DEF TypeOK
<1>2. view \in Contents /\ Present(view) \subseteq call.keys
  BY DEF Views, TypeOK, TableInv
<1>3. IsFiniteSet(Present(view)) /\ Present(view) \subseteq Keys
  BY <1>1, <1>2, FS_Subset DEF Present
<1>4. /\ KeySelection(s, view) \subseteq Present(view)
      /\ RowSelection(s, view) \subseteq Present(view)
  BY DEF KeySelection, RowSelection, After, RowsAfter, Skipped
<1>5. \A page \in SUBSET Present(view) : Cardinality(page) \in Nat
  BY <1>3, FS_Subset, FS_CardinalityType
<1>. QED
  BY <1>2, <1>3, <1>4, <1>5

\* The columns streams are ordered by hold integers.
LEMMA OrdersAreIntegers ==
    ASSUME TypeOK
    PROVE  /\ ByKey \in [Keys -> Int]
           /\ \A k \in Keys : ByKey[k] = k
           /\ \A s \in Sides : RowOrder(s) \in [Keys -> Int]
BY KeyColumnsAssumption DEF ByKey, RowOrder, FirstColumn

\* Each strategy is followed by a place the detector knows.
LEMMA ResolvedStrategies ==
    ASSUME TypeOK, NEW n, NEW m
    PROVE  /\ Resolve(n, m) \in Strategies \ {"auto"}
           /\ Begins(Resolve(n, m)) \in {"keys", "rows", "done", "raised"}
<1>1. call.strategy \in Strategies
  BY CallsAssumption DEF TypeOK
<1>. QED
  BY <1>1 DEF Resolve, Begins, Strategies

\* Opening a stream at a side.
LEMMA OpenedStreams ==
    ASSUME TypeOK, TableInv, NEW s \in Sides, OpenStream(s)
    PROVE  /\ side' \in Sides /\ started' \in BOOLEAN /\ last' \in Int
           /\ offset' \in Nat /\ opened' \in Contents
           /\ Present(opened') \subseteq call.keys
<1>1. /\ side' = s /\ started' = FALSE /\ last' = -1 /\ offset' = 0
      /\ opened' = rows[s]
  BY DEF OpenStream
<1>2. rows[s] \in Contents /\ Present(rows[s]) \subseteq call.keys
  BY DEF TypeOK, TableInv
<1>3. Present(opened') = Present(rows[s])
  BY <1>1 DEF Present
<1>4. last' \in Int /\ offset' \in Nat
  BY <1>1
<1>. QED
  BY <1>1, <1>2, <1>3, <1>4, Zenon

\* Moving a stream on.
LEMMA AdvancedStreams ==
    ASSUME TypeOK, NEW page, page \subseteq Keys, Cardinality(page) \in Nat,
           NEW by \in [Keys -> Int], Advance(page, by)
    PROVE  started' \in BOOLEAN /\ last' \in Int /\ offset' \in Nat
BY DEF Advance, TypeOK

\* What ReadKeyPage and ReadRowPage do with a page, case by case.
ReadsKeys(view, page) ==
    /\ IsPage(page, KeySelection(side, view), KeyBatch, ByKey)
    /\ seen' = [seen EXCEPT ![side] = @ \cup page]
    /\ \/ /\ ~EndsStream(side, page, KeyBatch)
          /\ Advance(page, ByKey)
          /\ UNCHANGED <<pc, todo>>
       \/ /\ EndsStream(side, page, KeyBatch)
          /\ side = "source"
          /\ OpenStream("target")
          /\ UNCHANGED <<pc, todo>>
       \/ /\ EndsStream(side, page, KeyBatch)
          /\ side # "source"
          /\ OpenStream("source")
          /\ pc' = "fetch"
          /\ todo' = seen'["source"] \cap seen'["target"]

ReadsRows(view, page) ==
    /\ IsPage(page, RowSelection(side, view), RowBatch, RowOrder(side))
    /\ image' = [image EXCEPT ![side] =
                   [k \in Keys |-> IF k \in page THEN view[k] ELSE @[k]]]
    /\ \/ /\ ~EndsStream(side, page, RowBatch)
          /\ Advance(page, RowOrder(side))
          /\ UNCHANGED <<pc, delta>>
       \/ /\ EndsStream(side, page, RowBatch)
          /\ side = "source"
          /\ OpenStream("target")
          /\ UNCHANGED <<pc, delta>>
       \/ /\ EndsStream(side, page, RowBatch)
          /\ side # "source"
          /\ OpenStream("source")
          /\ pc' = "done"
          /\ delta' = HashDelta(image'["source"], image'["target"])

\* The two actions, with their alternatives as disjuncts.
LEMMA ReadsByPage ==
    /\ ReadKeyPage =>
         \E view \in Views(side) : \E page \in SUBSET KeySelection(side, view) :
             ReadsKeys(view, page)
    /\ ReadRowPage =>
         \E view \in Views(side) : \E page \in SUBSET RowSelection(side, view) :
             ReadsRows(view, page)
<1>1. ReadKeyPage =>
         \E view \in Views(side) : \E page \in SUBSET KeySelection(side, view) :
             ReadsKeys(view, page)
  BY Zenon DEF ReadKeyPage, ReadsKeys
<1>2. ReadRowPage =>
         \E view \in Views(side) : \E page \in SUBSET RowSelection(side, view) :
             ReadsRows(view, page)
  BY Zenon DEF ReadRowPage, ReadsRows
<1>. QED
  BY <1>1, <1>2

\* Types hold at the start, and every action keeps them.
LEMMA TypesInitially == Init => TypeOK /\ TableInv
<1>. SUFFICES ASSUME Init PROVE TypeOK /\ TableInv
  OBVIOUS
<1>1. /\ call \in Calls /\ call.strategy \in Strategies
      /\ rows \in [Sides -> Contents]
  BY CallsAssumption DEF Init
<1>2. /\ versions \in [Sides -> [Keys -> SUBSET (Values \cup {Absent})]]
      /\ rows["source"] \in Contents
  BY <1>1 DEF Init, Contents, Sides
<1>3. image \in [Sides -> Contents] /\ seen \in [Sides -> SUBSET Keys]
      /\ counts \in [Sides -> Nat] /\ delta = NoDelta
  BY DEF Init, Contents
<1>4. TypeOK
  <2>1. /\ writes = 0 /\ pc = "count" /\ side = "source" /\ resolved = call.strategy
        /\ started = FALSE /\ last = -1 /\ offset = 0 /\ opened = rows["source"]
        /\ todo = {} /\ batch = {}
    BY DEF Init
  <2>2. delta \in [insert : SUBSET Keys, update : SUBSET Keys, delete : SUBSET Keys]
    BY <1>3 DEF NoDelta
  <2>3. last \in Int /\ offset \in Nat /\ writes \in Nat
    BY <2>1
  <2>. QED
    BY <1>1, <1>2, <1>3, <2>1, <2>2, <2>3 DEF TypeOK, Sides
<1>5. TableInv
  <2>1. \A s \in Sides : Present(rows[s]) \subseteq call.keys
    BY DEF Init, Present
  <2>2. opened = rows["source"] /\ "source" \in Sides
    BY DEF Init, Sides
  <2>. QED
    BY <2>1, <2>2 DEF TableInv
<1>. QED
  BY <1>4, <1>5

LEMMA TypesStay == TypeOK /\ TableInv /\ [Next]_vars => TypeOK' /\ TableInv'
<1>. SUFFICES ASSUME TypeOK, TableInv, [Next]_vars PROVE TypeOK' /\ TableInv'
  OBVIOUS
<1>s. "source" \in Sides /\ "target" \in Sides
  BY DEF Sides
<1>1. ASSUME NEW s \in Sides, NEW k \in Keys, NEW v \in Values \cup {Absent},
             Write(s, k, v)
      PROVE  TypeOK' /\ TableInv'
  <2>1. rows' = [rows EXCEPT ![s][k] = v] /\ k \in call.keys
    BY <1>1 DEF Write
  <2>2. /\ rows' \in [Sides -> Contents]
        /\ versions' \in [Sides -> [Keys -> SUBSET (Values \cup {Absent})]]
        /\ writes' \in Nat
    BY <1>1 DEF Write, TypeOK, Contents
  <2>3. TypeOK'
    BY <1>1, <2>2 DEF Write, TypeOK, streamVars
  <2>4. \A t \in Sides : Present(rows'[t]) \subseteq call.keys
    <3>. SUFFICES ASSUME NEW t \in Sides, NEW m \in Keys, rows'[t][m] # Absent
                  PROVE  m \in call.keys
      BY DEF Present
    <3>1. (t = s /\ m = k) \/ rows'[t][m] = rows[t][m]
      BY <2>1 DEF TypeOK, Contents
    <3>. QED
      BY <2>1, <3>1 DEF TableInv, Present
  <2>5. call' = call /\ opened' = opened
    BY <1>1 DEF Write, streamVars
  <2>. QED
    BY <2>3, <2>4, <2>5 DEF TableInv, Present
<1>2. CASE CountSource
  <2>1. Cardinality(Present(rows["source"])) \in Nat
    <3>1. Present(rows["source"]) \subseteq call.keys /\ IsFiniteSet(call.keys)
      BY <1>s, CallsAssumption DEF TableInv, TypeOK
    <3>. QED
      BY <3>1, FS_Subset, FS_CardinalityType
  <2>. QED
    BY <1>2, <2>1, <1>s
    DEF CountSource, TypeOK, TableInv, dbVars, streamVars, Present
<1>3. CASE CountTarget
  <2>. DEFINE n == Cardinality(Present(rows["target"]))
  <2>1. n \in Nat
    <3>1. Present(rows["target"]) \subseteq call.keys /\ IsFiniteSet(call.keys)
      BY <1>s, CallsAssumption DEF TableInv, TypeOK
    <3>. QED
      BY <3>1, FS_Subset, FS_CardinalityType
  <2>2. /\ OpenStream("source")
        /\ counts' = [counts EXCEPT !["target"] = n]
        /\ resolved' = Resolve(counts["source"], n)
        /\ pc' = Begins(Resolve(counts["source"], n))
        /\ UNCHANGED <<call, dbVars, seen, image, todo, batch, delta>>
    BY <1>3 DEF CountTarget
  <2>. HIDE DEF n
  <2>3. /\ resolved' \in Strategies \ {"auto"}
        /\ pc' \in {"keys", "rows", "done", "raised"}
    BY <2>2, ResolvedStrategies
  <2>4. /\ side' \in Sides /\ started' \in BOOLEAN /\ last' \in Int
        /\ offset' \in Nat /\ opened' \in Contents
        /\ Present(opened') \subseteq call.keys
    BY <2>2, <1>s, OpenedStreams
  <2>5. counts' \in [Sides -> Nat]
    BY <2>1, <2>2 DEF TypeOK
  <2>6. TypeOK'
    BY <2>2, <2>3, <2>4, <2>5 DEF TypeOK, dbVars
  <2>. QED
    BY <2>2, <2>4, <2>6 DEF TableInv, dbVars
<1>4. CASE ReadKeyPage
  <2>0. PICK view \in Views(side) : \E page \in SUBSET KeySelection(side, view) :
          ReadsKeys(view, page)
    BY <1>4, ReadsByPage
  <2>1. PICK page \in SUBSET KeySelection(side, view) :
          /\ seen' = [seen EXCEPT ![side] = @ \cup page]
          /\ \/ Advance(page, ByKey) /\ UNCHANGED <<pc, todo>>
             \/ OpenStream("target") /\ UNCHANGED <<pc, todo>>
             \/ /\ OpenStream("source")
                /\ pc' = "fetch"
                /\ todo' = seen'["source"] \cap seen'["target"]
    BY <2>0 DEF ReadsKeys
  <2>2. /\ pc = "keys"
        /\ UNCHANGED <<call, dbVars, counts, resolved, image, batch, delta>>
    BY <1>4 DEF ReadKeyPage
  <2>3. side \in Sides
    BY DEF TypeOK
  <2>4. page \subseteq Keys /\ Cardinality(page) \in Nat
    <3>1. Cardinality(page) \in Nat
      BY <2>3, SelectionsAreFinite
    <3>2. page \subseteq Present(view)
      BY DEF KeySelection, After, Skipped
    <3>. QED
      BY <3>1, <3>2 DEF Present
  <2>5. seen' \in [Sides -> SUBSET Keys]
    BY <2>1, <2>4 DEF TypeOK
  <2>. DEFINE Typed == /\ side' \in Sides /\ started' \in BOOLEAN /\ last' \in Int
                       /\ offset' \in Nat /\ opened' \in Contents
                       /\ Present(opened') \subseteq call.keys
  <2>6. Typed
    <3>1. CASE Advance(page, ByKey)
      <4>1. started' \in BOOLEAN /\ last' \in Int /\ offset' \in Nat
        BY <3>1, <2>4, OrdersAreIntegers, AdvancedStreams
      <4>2. opened' = opened /\ side' = side
        BY <3>1 DEF Advance
      <4>. QED
        BY <4>1, <4>2 DEF TypeOK, TableInv
    <3>2. ASSUME NEW s \in Sides, OpenStream(s)
          PROVE  Typed
      BY <3>2, OpenedStreams
    <3>. QED
      BY <3>1, <3>2, <2>1, <1>s
  <2>7. pc' \in {"keys", "fetch"} /\ todo' \in SUBSET Keys
    <3>1. seen'["source"] \cap seen'["target"] \in SUBSET Keys
      BY <2>5, <1>s
    <3>. QED
      BY <2>1, <2>2, <3>1 DEF TypeOK
  <2>8. TypeOK'
    BY <2>2, <2>5, <2>6, <2>7 DEF TypeOK, dbVars
  <2>. QED
    BY <2>2, <2>6, <2>8 DEF TableInv, dbVars
<1>5. CASE FetchSource
  <2>1. PICK page \in SUBSET todo :
          /\ batch' = page
          /\ image' = [image EXCEPT !["source"] =
                [k \in Keys |-> IF k \in page THEN rows["source"][k] ELSE @[k]]]
    BY <1>5 DEF FetchSource
  <2>2. image' \in [Sides -> Contents] /\ batch' \in SUBSET Keys
    BY <2>1, <1>s DEF TypeOK, Contents
  <2>. QED
    BY <1>5, <1>s, <2>2 DEF FetchSource, TypeOK, TableInv, dbVars, streamVars, Present
<1>6. CASE FetchTarget
  <2>1. image' \in [Sides -> Contents] /\ todo' \in SUBSET Keys
    BY <1>6, <1>s DEF FetchTarget, TypeOK, Contents
  <2>. QED
    BY <1>6, <1>s, <2>1 DEF FetchTarget, TypeOK, TableInv, dbVars, streamVars, Present
<1>7. CASE Conclude
  <2>1. delta' \in [insert : SUBSET Keys, update : SUBSET Keys, delete : SUBSET Keys]
    BY <1>7, <1>s DEF Conclude, KeyDelta, TypeOK
  <2>. QED
    BY <1>7, <2>1 DEF Conclude, TypeOK, TableInv, dbVars, streamVars, Present
<1>8. CASE ReadRowPage
  <2>0. PICK view \in Views(side) : \E page \in SUBSET RowSelection(side, view) :
          ReadsRows(view, page)
    BY <1>8, ReadsByPage
  <2>1. PICK page \in SUBSET RowSelection(side, view) :
          /\ image' = [image EXCEPT ![side] =
                [k \in Keys |-> IF k \in page THEN view[k] ELSE @[k]]]
          /\ \/ Advance(page, RowOrder(side)) /\ UNCHANGED <<pc, delta>>
             \/ OpenStream("target") /\ UNCHANGED <<pc, delta>>
             \/ /\ OpenStream("source")
                /\ pc' = "done"
                /\ delta' = HashDelta(image'["source"], image'["target"])
    BY <2>0 DEF ReadsRows
  <2>2. /\ pc = "rows"
        /\ UNCHANGED <<call, dbVars, counts, resolved, seen, todo, batch>>
    BY <1>8 DEF ReadRowPage
  <2>3. side \in Sides
    BY DEF TypeOK
  <2>4. view \in Contents /\ page \subseteq Keys /\ Cardinality(page) \in Nat
    <3>1. view \in Contents /\ Cardinality(page) \in Nat
      BY <2>3, SelectionsAreFinite
    <3>2. page \subseteq Present(view)
      BY DEF RowSelection, RowsAfter, After
    <3>. QED
      BY <3>1, <3>2 DEF Present
  <2>5. image' \in [Sides -> Contents]
    BY <2>1, <2>3, <2>4 DEF TypeOK, Contents
  <2>. DEFINE Typed == /\ side' \in Sides /\ started' \in BOOLEAN /\ last' \in Int
                       /\ offset' \in Nat /\ opened' \in Contents
                       /\ Present(opened') \subseteq call.keys
  <2>6. Typed
    <3>1. CASE Advance(page, RowOrder(side))
      <4>1. started' \in BOOLEAN /\ last' \in Int /\ offset' \in Nat
        BY <3>1, <2>3, <2>4, OrdersAreIntegers, AdvancedStreams
      <4>2. opened' = opened /\ side' = side
        BY <3>1 DEF Advance
      <4>. QED
        BY <4>1, <4>2 DEF TypeOK, TableInv
    <3>2. ASSUME NEW s \in Sides, OpenStream(s)
          PROVE  Typed
      BY <3>2, OpenedStreams
    <3>. QED
      BY <3>1, <3>2, <2>1, <1>s
  <2>7. /\ pc' \in {"rows", "done"}
        /\ delta' \in [insert : SUBSET Keys, update : SUBSET Keys, delete : SUBSET Keys]
    <3>1. HashDelta(image'["source"], image'["target"]) \in
            [insert : SUBSET Keys, update : SUBSET Keys, delete : SUBSET Keys]
      BY DEF HashDelta, Present
    <3>. QED
      BY <2>1, <2>2, <3>1 DEF TypeOK
  <2>8. TypeOK'
    BY <2>2, <2>5, <2>6, <2>7 DEF TypeOK, dbVars
  <2>. QED
    BY <2>2, <2>6, <2>8 DEF TableInv, dbVars
<1>9. CASE UNCHANGED vars
  BY <1>9 DEF vars, TypeOK, TableInv, dbVars, streamVars, Present
<1>. QED
  BY <1>1, <1>2, <1>3, <1>4, <1>5, <1>6, <1>7, <1>8, <1>9 DEF Next, Step

\* Every variable keeps its type.
THEOREM TypeCorrect == Spec => []TypeOK
<1>1. Spec => [](TypeOK /\ TableInv)
  BY TypesInitially, TypesStay, PTL DEF Spec
<1>. QED
  BY <1>1, PTL

-------------------------------------------------------------------------------
(* The inductive invariant.                                                 *)

\* What a side holds is among the versions its keys have had, and so is what
\* it held when the stream over it began.
HistoryInv ==
    /\ \A s \in Sides, k \in Keys : rows[s][k] \in versions[s][k]
    /\ pc \in {"keys", "rows"} =>
         \A k \in Keys : opened[k] \in versions[side][k]

\* A stream begins behind -1.
StreamInv == ~started => last = -1

\* A source that was counted empty held no key then; and nothing is read
\* before the rows are counted.
CountInv ==
    /\ (pc # "count" \/ side = "target") /\ counts["source"] = 0 =>
         \A k \in Keys : Absent \in versions["source"][k]
    /\ pc # "done" => delta = NoDelta
    /\ pc = "count" =>
         /\ resolved = call.strategy
         /\ \A s \in Sides : seen[s] = {}
         /\ \A s \in Sides, k \in Keys : image[s][k] = Absent

\* The place of the detector tells the strategy; AUTO counts rows only when
\* there are none.
StrategyInv ==
    /\ pc \in {"keys", "fetch"} => resolved = "primary_key"
    /\ pc = "rows" => resolved = "checksum"
    /\ pc = "done" => resolved \in {"row_count", "primary_key", "checksum"}
    /\ pc = "done" /\ resolved = "row_count" =>
         /\ delta = NoDelta
         /\ call.strategy # "row_count" =>
              \A s \in Sides, k \in Keys : Absent \in versions[s][k]

\* The stream over a side has passed a key.
Behind(s, k) ==
    \/ pc \in {"fetch", "done"}
    \/ s = "source" /\ side = "target"
    \/ s = side /\ started /\ k <= last

\* PRIMARY_KEY: keys seen held a row, keys passed and not seen held none.
ScanInv ==
    resolved = "primary_key" /\ pc \in {"keys", "fetch", "done"} =>
        \A s \in Sides, k \in Keys :
            /\ k \in seen[s] => \E v \in versions[s][k] : v # Absent
            /\ Behind(s, k) /\ k \notin seen[s] => Absent \in versions[s][k]

\* PRIMARY_KEY: rows fetched for comparison are versions of their keys.
FetchInv ==
    resolved = "primary_key" /\ pc \in {"fetch", "done"} =>
        LET common == seen["source"] \cap seen["target"] IN
        /\ todo \subseteq common
        /\ \A s \in Sides : \A k \in common \ todo : image[s][k] \in versions[s][k]
        /\ pc = "fetch" /\ side = "target" =>
             /\ batch \subseteq todo
             /\ \A k \in batch : image["source"][k] \in versions["source"][k]
        /\ pc = "done" => todo = {} /\ delta = KeyDelta

\* CHECKSUM: rows read are versions of their keys, and keys passed whose rows
\* were not read held none.
HashInv ==
    resolved = "checksum" /\ pc \in {"rows", "done"} =>
        /\ \A s \in Sides, k \in Keys :
             /\ image[s][k] # Absent => image[s][k] \in versions[s][k]
             /\ Behind(s, k) /\ image[s][k] = Absent => Absent \in versions[s][k]
        /\ pc = "done" => delta = HashDelta(image["source"], image["target"])

ReadInv ==
    /\ HistoryInv
    /\ StreamInv
    /\ CountInv
    /\ StrategyInv
    /\ ScanInv
    /\ FetchInv
    /\ HashInv


-------------------------------------------------------------------------------
(* Pages and positions.                                                     *)

\* What is left of a view for a stream.
Remaining(view) == {k \in Present(view) : started => k > last}

\* The stream has passed a key, its last page included.
Passed(k) == started /\ k <= last

\* Every stream of an orderly detector goes by the key.
LEMMA OrderlySelections ==
    ASSUME TypeOK, TableInv, StreamInv, Orderly, NEW s \in Sides, NEW view \in Views(s)
    PROVE  /\ KeySelection(s, view) = Remaining(view)
           /\ RowSelection(s, view) = Remaining(view)
           /\ RowOrder(s) = ByKey
<1>1. After(Present(view), ByKey) = Remaining(view)
  BY DEF After, Remaining, Present, ByKey
<1>2. CASE Adapter[s] = "postgresql"
  <2>1. ~call.composite /\ Present(view) \subseteq Nat
    BY <1>2 DEF Orderly, Views, TableInv
  <2>2. FirstColumn = ByKey
    BY <2>1 DEF FirstColumn, ByKey
  <2>3. RowsAfter(Present(view)) = Remaining(view)
    <3>1. \A k \in Present(view) : FirstColumn[k] = k /\ k > -1
      BY <2>1, <2>2 DEF ByKey, Present
    <3>2. started \in BOOLEAN /\ (~started => last = -1)
      BY DEF TypeOK, StreamInv
    <3>3. \A k \in Present(view) : FirstColumn[k] > last <=> (started => k > last)
      BY <3>1, <3>2
    <3>. QED
      BY <3>3 DEF RowsAfter, Remaining
  <2>. QED
    BY <1>1, <1>2, <2>1, <2>2, <2>3 DEF KeySelection, RowSelection, RowOrder
<1>3. CASE Adapter[s] # "postgresql"
  BY <1>1, <1>3 DEF KeySelection, RowSelection, RowOrder
<1>. QED
  BY <1>2, <1>3

\* A stream ends only when it has passed every key of its view; and when it
\* goes on, it has passed the keys up to its new position.
LEMMA PagesMissNothing ==
    ASSUME TypeOK, TableInv, StreamInv, Orderly, NEW s \in Sides,
           NEW view \in Views(s), NEW page \in SUBSET Remaining(view),
           NEW n \in Nat \ {0}, IsPage(page, Remaining(view), n, ByKey)
    PROVE  /\ EndsStream(s, page, n) =>
                \A k \in Keys : Passed(k) \/ k \in page \/ view[k] = Absent
           /\ Advance(page, ByKey) =>
                \A k \in Keys :
                    k <= last' => Passed(k) \/ k \in page \/ view[k] = Absent
<1>1. /\ page \subseteq Keys /\ Cardinality(page) \in Nat /\ Keys \subseteq Int
      /\ \A k \in Keys : ByKey[k] = k
  <2>1. page \subseteq Keys
    BY DEF Remaining, Present
  <2>2. Cardinality(page) \in Nat
    BY OrderlySelections, SelectionsAreFinite
  <2>. QED
    BY <2>1, <2>2, KeyColumnsAssumption, OrdersAreIntegers
<1>2. \A k \in Keys : k \in Remaining(view) \/ Passed(k) \/ view[k] = Absent
  BY <1>1 DEF Remaining, Present, Passed, TypeOK
<1>3. ASSUME EndsStream(s, page, n)
      PROVE  page = Remaining(view)
  <2>1. CASE Adapter[s] = "postgresql"
    BY <1>1, <1>3, <2>1 DEF EndsStream, IsPage
  <2>2. CASE Adapter[s] # "postgresql"
    <3>1. page = {} /\ Cardinality({}) = 0
      BY <1>3, <2>2, FS_EmptySet DEF EndsStream
    <3>2. page = Remaining(view) \/ Cardinality(page) = n
      BY DEF IsPage
    <3>. QED
      BY <3>1, <3>2
  <2>. QED
    BY <2>1, <2>2
<1>4. ASSUME Advance(page, ByKey), NEW k \in Remaining(view), k <= last'
      PROVE  k \in page
  <2>1. PICK m \in page : last' = m
    BY <1>1, <1>4 DEF Advance
  <2>2. k \in Keys
    BY DEF Remaining, Present
  <2>3. k \notin page => m <= k
    BY <1>1, <2>2 DEF IsPage
  <2>. QED
    BY <1>1, <1>4, <2>1, <2>2, <2>3
<1>. QED
  BY <1>2, <1>3, <1>4

\* What a page shows of a key is one of its versions.
LEMMA ViewsAreVersions ==
    ASSUME TypeOK, HistoryInv, pc \in {"keys", "rows"}, NEW view \in Views(side)
    PROVE  \A k \in Keys : view[k] \in versions[side][k]
BY DEF Views, HistoryInv, TypeOK

-------------------------------------------------------------------------------
(* Every action keeps the invariant.                                        *)

\* Nothing is read at the start.
LEMMA ReadsInitially == Init => ReadInv
<1>. SUFFICES ASSUME Init PROVE ReadInv
  OBVIOUS
<1>1. /\ pc = "count" /\ side = "source" /\ last = -1 /\ delta = NoDelta
      /\ resolved = call.strategy
      /\ \A s \in Sides, k \in Keys : rows[s][k] \in versions[s][k]
      /\ \A s \in Sides : seen[s] = {}
      /\ \A s \in Sides, k \in Keys : image[s][k] = Absent
  BY DEF Init
<1>2. HistoryInv
  BY <1>1 DEF HistoryInv
<1>3. StreamInv /\ CountInv /\ StrategyInv
  BY <1>1 DEF StreamInv, CountInv, StrategyInv
<1>4. ScanInv /\ FetchInv /\ HashInv
  BY <1>1 DEF ScanInv, FetchInv, HashInv
<1>. QED
  BY <1>2, <1>3, <1>4 DEF ReadInv

\* An application's write adds a version and touches nothing else.
LEMMA WritesKeep ==
    ASSUME TypeOK, ReadInv,
           NEW s \in Sides, NEW k \in Keys, NEW v \in Values \cup {Absent},
           Write(s, k, v)
    PROVE  ReadInv'
<1>1. UNCHANGED <<call, pc, side, counts, resolved, started, last, offset, opened,
                  seen, image, todo, batch, delta>>
  BY DEF Write, streamVars
<1>2. \A t \in Sides, m \in Keys :
        /\ versions[t][m] \subseteq versions'[t][m]
        /\ rows'[t][m] \in versions'[t][m]
  BY DEF Write, TypeOK, Contents, ReadInv, HistoryInv
<1>3. HistoryInv'
  BY <1>1, <1>2 DEF ReadInv, HistoryInv, TypeOK
<1>4. StreamInv' /\ CountInv' /\ StrategyInv'
  <2>1. "source" \in Sides
    BY DEF Sides
  <2>. QED
    BY <1>1, <1>2, <2>1 DEF ReadInv, StreamInv, CountInv, StrategyInv
<1>5. ScanInv'
  <2>1. \A t \in Sides, m \in Keys : Behind(t, m)' <=> Behind(t, m)
    BY <1>1 DEF Behind
  <2>. QED
    BY <1>1, <1>2, <2>1 DEF ReadInv, ScanInv
<1>6. FetchInv'
  <2>1. KeyDelta' = KeyDelta
    BY <1>1 DEF KeyDelta
  <2>2. "source" \in Sides /\ seen["source"] \subseteq Keys /\ todo \subseteq Keys
    BY DEF TypeOK, Sides
  <2>. QED
    BY <1>1, <1>2, <2>1, <2>2 DEF ReadInv, FetchInv
<1>7. HashInv'
  <2>1. \A t \in Sides, m \in Keys : Behind(t, m)' <=> Behind(t, m)
    BY <1>1 DEF Behind
  <2>2. HashDelta(image["source"], image["target"])'
          = HashDelta(image["source"], image["target"])
    BY <1>1
  <2>. QED
    BY <1>1, <1>2, <2>1, <2>2 DEF ReadInv, HashInv
<1>. QED
  BY <1>3, <1>4, <1>5, <1>6, <1>7 DEF ReadInv

\* Counting the rows of both sides, and resolving the strategy.
LEMMA CountsKeep ==
    ASSUME TypeOK, TableInv, ReadInv, CountSource \/ CountTarget
    PROVE  ReadInv'
<1>s. "source" \in Sides /\ "target" \in Sides
  BY DEF Sides
\* A side of which no rows are counted holds none.
<1>e. \A s \in Sides : Cardinality(Present(rows[s])) = 0 =>
          \A k \in Keys : Absent \in versions[s][k]
  <2>. SUFFICES ASSUME NEW s \in Sides, Cardinality(Present(rows[s])) = 0,
                       NEW k \in Keys
                PROVE  Absent \in versions[s][k]
    OBVIOUS
  <2>1. IsFiniteSet(Present(rows[s]))
    BY CallsAssumption, FS_Subset DEF TypeOK, TableInv
  <2>2. Present(rows[s]) = {}
    BY <2>1, FS_EmptySet
  <2>. QED
    BY <2>2 DEF Present, ReadInv, HistoryInv
<1>1. ASSUME CountSource PROVE ReadInv'
  <2>1. /\ pc = "count" /\ side = "source" /\ side' = "target"
        /\ counts' = [counts EXCEPT !["source"] = Cardinality(Present(rows["source"]))]
        /\ UNCHANGED <<call, rows, versions, pc, resolved, started, last, opened,
                       seen, image, delta>>
    BY <1>1 DEF CountSource, dbVars, streamVars
  <2>2. HistoryInv' /\ StreamInv' /\ StrategyInv'
    BY <2>1 DEF ReadInv, HistoryInv, StreamInv, StrategyInv
  <2>3. CountInv'
    <3>1. counts'["source"] = Cardinality(Present(rows["source"]))
      BY <2>1, <1>s DEF TypeOK
    <3>. QED
      BY <1>e, <1>s, <2>1, <3>1 DEF ReadInv, CountInv
  <2>4. ScanInv' /\ FetchInv' /\ HashInv'
    BY <2>1 DEF ScanInv, FetchInv, HashInv
  <2>. QED
    BY <2>2, <2>3, <2>4 DEF ReadInv
<1>2. ASSUME CountTarget PROVE ReadInv'
  <2>. DEFINE n == Cardinality(Present(rows["target"]))
  <2>1. /\ pc = "count" /\ side = "target" /\ side' = "source"
        /\ counts' = [counts EXCEPT !["target"] = n]
        /\ resolved' = Resolve(counts["source"], n)
        /\ pc' = Begins(resolved')
        /\ started' = FALSE /\ last' = -1 /\ opened' = rows["source"]
        /\ UNCHANGED <<call, rows, versions, seen, image, delta>>
    BY <1>2 DEF CountTarget, OpenStream, dbVars
  <2>2. n = 0 => \A k \in Keys : Absent \in versions["target"][k]
    BY <1>e, <1>s
  <2>3. counts'["source"] = counts["source"]
    BY <2>1 DEF TypeOK
  <2>. HIDE DEF n
  <2>4. HistoryInv' /\ StreamInv'
    BY <2>1, <1>s DEF ReadInv, HistoryInv, StreamInv
  <2>5. /\ resolved' \in Strategies \ {"auto"}
        /\ pc' \in {"keys", "rows", "done", "raised"}
    BY <2>1, ResolvedStrategies
  <2>6. CountInv'
    BY <2>1, <2>3, <2>5 DEF ReadInv, CountInv
  <2>7. StrategyInv'
    <3>1. /\ pc' = "keys" => resolved' = "primary_key"
          /\ pc' = "rows" => resolved' = "checksum"
          /\ pc' = "done" => resolved' = "row_count"
          /\ pc' # "fetch"
      BY <2>1, <2>5 DEF Begins
    <3>2. resolved' = "row_count" /\ call.strategy # "row_count" =>
             counts["source"] = 0 /\ n = 0
      BY <2>1 DEF Resolve
    <3>3. counts["source"] = 0 => \A k \in Keys : Absent \in versions["source"][k]
      BY <2>1 DEF ReadInv, CountInv
    <3>4. delta' = NoDelta
      BY <2>1 DEF ReadInv, CountInv
    <3>5. resolved' = "row_count" /\ call.strategy # "row_count" =>
             \A s \in Sides, k \in Keys : Absent \in versions[s][k]
      BY <2>2, <3>2, <3>3 DEF Sides
    <3>. QED
      BY <2>1, <3>1, <3>4, <3>5 DEF StrategyInv
  <2>8. /\ pc' \notin {"fetch"}
        /\ pc' = "done" => resolved' = "row_count"
        /\ \A s \in Sides : seen'[s] = {}
        /\ \A s \in Sides, k \in Keys : image'[s][k] = Absent
    BY <2>1, <2>5 DEF Begins, ReadInv, CountInv
  <2>9. pc' \in {"keys", "rows"} => \A s \in Sides, k \in Keys : ~Behind(s, k)'
    BY <2>1 DEF Behind
  <2>10. ScanInv' /\ FetchInv' /\ HashInv'
    BY <2>8, <2>9 DEF ScanInv, FetchInv, HashInv
  <2>. QED
    BY <2>4, <2>6, <2>7, <2>10 DEF ReadInv
<1>. QED
  BY <1>1, <1>2

\* Reading a page of keys.
LEMMA KeysKeep ==
    ASSUME TypeOK, TableInv, ReadInv, Orderly, ReadKeyPage
    PROVE  ReadInv'
<1>s. "source" \in Sides /\ "target" \in Sides /\ side \in Sides
      /\ (side # "source" => side = "target")
  BY DEF Sides, TypeOK
<1>1. /\ pc = "keys" /\ resolved = "primary_key"
      /\ UNCHANGED <<call, rows, versions, counts, resolved, image, batch, delta>>
  BY DEF ReadKeyPage, dbVars, ReadInv, StrategyInv
<1>2. PICK view \in Views(side) : \E page \in SUBSET KeySelection(side, view) :
        ReadsKeys(view, page)
  BY ReadsByPage
<1>3. PICK page \in SUBSET KeySelection(side, view) : ReadsKeys(view, page)
  BY <1>2
<1>4. KeySelection(side, view) = Remaining(view) /\ page \in SUBSET Remaining(view)
  BY <1>3, <1>s, OrderlySelections DEF ReadInv
<1>5. /\ EndsStream(side, page, KeyBatch) =>
           \A k \in Keys : Passed(k) \/ k \in page \/ view[k] = Absent
      /\ Advance(page, ByKey) =>
           \A k \in Keys : k <= last' => Passed(k) \/ k \in page \/ view[k] = Absent
  BY <1>3, <1>4, <1>s, BatchAssumption, PagesMissNothing DEF ReadsKeys, ReadInv
<1>6. /\ \A k \in Keys : view[k] \in versions[side][k]
      /\ \A k \in page : k \in Keys /\ view[k] # Absent
  <2>1. \A k \in page : k \in Keys /\ view[k] # Absent
    BY <1>4 DEF Remaining, Present
  <2>. QED
    BY <1>1, <2>1, ViewsAreVersions DEF ReadInv
<1>7. /\ seen' = [seen EXCEPT ![side] = @ \cup page]
      /\ seen'[side] = seen[side] \cup page
      /\ \A s \in Sides : s # side => seen'[s] = seen[s]
  BY <1>3, <1>s DEF ReadsKeys, TypeOK
\* Keys passed on this side, with this page, and not seen held no row.
<1>8. \A k \in Keys : Passed(k) /\ k \notin seen[side] => Absent \in versions[side][k]
  BY <1>1, <1>s DEF ReadInv, ScanInv, Behind, Passed
<1>9. /\ EndsStream(side, page, KeyBatch) =>
           \A k \in Keys : k \notin seen'[side] => Absent \in versions[side][k]
      /\ Advance(page, ByKey) =>
           \A k \in Keys : k <= last' /\ k \notin seen'[side] =>
                             Absent \in versions[side][k]
  BY <1>5, <1>6, <1>7, <1>8
<1>10. side = "target" =>
         \A k \in Keys : k \notin seen'["source"] => Absent \in versions["source"][k]
  BY <1>1, <1>7, <1>s DEF ReadInv, ScanInv, Behind
<1>11. \A s \in Sides, k \in Keys :
         k \in seen'[s] => \E v \in versions[s][k] : v # Absent
  BY <1>1, <1>6, <1>7 DEF ReadInv, ScanInv
<1>12. CountInv' /\ StrategyInv' /\ HashInv'
  <2>1. pc' \in {"keys", "fetch"}
    BY <1>1, <1>3 DEF ReadsKeys
  <2>2. CountInv'
    BY <1>1, <2>1 DEF ReadInv, CountInv
  <2>3. StrategyInv' /\ HashInv'
    BY <1>1, <2>1 DEF StrategyInv, HashInv
  <2>. QED
    BY <2>2, <2>3
<1>13. CASE Advance(page, ByKey) /\ UNCHANGED <<pc, todo>>
  <2>1. started' = TRUE /\ UNCHANGED <<side, opened, pc>>
    BY <1>13 DEF Advance
  <2>2. HistoryInv' /\ StreamInv' /\ FetchInv'
    BY <1>1, <2>1 DEF ReadInv, HistoryInv, StreamInv, FetchInv
  <2>3. ScanInv'
    <3>. SUFFICES ASSUME NEW s \in Sides, NEW k \in Keys, Behind(s, k)', k \notin seen'[s]
                  PROVE  Absent \in versions[s][k]
      BY <1>1, <1>11 DEF ScanInv
    <3>1. s = side \/ (s = "source" /\ side = "target")
      BY <1>1, <2>1 DEF Behind
    <3>2. s = side => k <= last' \/ (s = "source" /\ side = "target")
      BY <1>1, <2>1 DEF Behind
    <3>. QED
      BY <1>9, <1>10, <1>13, <3>1, <3>2
  <2>. QED
    BY <1>12, <2>2, <2>3 DEF ReadInv
<1>14. CASE /\ EndsStream(side, page, KeyBatch) /\ side = "source"
            /\ OpenStream("target") /\ UNCHANGED <<pc, todo>>
  <2>1. started' = FALSE /\ last' = -1 /\ side' = "target" /\ opened' = rows["target"]
    BY <1>14 DEF OpenStream
  <2>2. HistoryInv' /\ StreamInv' /\ FetchInv'
    BY <1>1, <1>14, <1>s, <2>1 DEF ReadInv, HistoryInv, StreamInv, FetchInv
  <2>3. ScanInv'
    <3>. SUFFICES ASSUME NEW s \in Sides, NEW k \in Keys, Behind(s, k)', k \notin seen'[s]
                  PROVE  Absent \in versions[s][k]
      BY <1>1, <1>11 DEF ScanInv
    <3>1. s = "source"
      BY <1>1, <1>14, <2>1 DEF Behind
    <3>. QED
      BY <1>9, <1>14, <3>1
  <2>. QED
    BY <1>12, <2>2, <2>3 DEF ReadInv
<1>15. CASE /\ EndsStream(side, page, KeyBatch) /\ side # "source"
            /\ OpenStream("source") /\ pc' = "fetch"
            /\ todo' = seen'["source"] \cap seen'["target"]
  <2>1. started' = FALSE /\ last' = -1 /\ side' = "source" /\ opened' = rows["source"]
    BY <1>15 DEF OpenStream
  <2>2. HistoryInv' /\ StreamInv'
    BY <1>1, <1>15, <2>1 DEF ReadInv, HistoryInv, StreamInv
  <2>3. FetchInv'
    BY <1>15, <2>1 DEF FetchInv
  <2>4. ScanInv'
    <3>. SUFFICES ASSUME NEW s \in Sides, NEW k \in Keys, k \notin seen'[s]
                  PROVE  Absent \in versions[s][k]
      BY <1>1, <1>11 DEF ScanInv
    <3>1. s = side \/ (s = "source" /\ side = "target")
      BY <1>15, <1>s DEF Sides
    <3>. QED
      BY <1>9, <1>10, <1>15, <3>1
  <2>. QED
    BY <1>12, <2>2, <2>3, <2>4 DEF ReadInv
<1>. QED
  BY <1>3, <1>13, <1>14, <1>15 DEF ReadsKeys

\* Fetching the rows of a batch of common keys, from one side and the other.
LEMMA FetchesKeep ==
    ASSUME TypeOK, ReadInv, FetchSource \/ FetchTarget \/ Conclude
    PROVE  ReadInv'
<1>s. "source" \in Sides /\ "target" \in Sides
      /\ \A s \in Sides : s = "source" \/ s = "target"
  BY DEF Sides
<1>1. /\ pc = "fetch" /\ resolved = "primary_key" /\ pc' \in {"fetch", "done"}
      /\ UNCHANGED <<call, rows, versions, counts, resolved, started, last, opened, seen>>
  BY DEF FetchSource, FetchTarget, Conclude, dbVars, streamVars, ReadInv, StrategyInv
<1>2. HistoryInv' /\ StreamInv' /\ HashInv'
  BY <1>1 DEF ReadInv, HistoryInv, StreamInv, HashInv
<1>3. CountInv' /\ StrategyInv'
  <2>1. pc' # "done" => delta' = delta
    BY DEF FetchSource, FetchTarget, Conclude
  <2>. QED
    BY <1>1, <2>1 DEF ReadInv, CountInv, StrategyInv
<1>4. ScanInv'
  <2>1. \A s \in Sides, k \in Keys : Behind(s, k)
    BY <1>1 DEF Behind
  <2>. QED
    BY <1>1, <2>1 DEF ReadInv, ScanInv
<1>5. FetchInv'
  <2>. DEFINE common == seen["source"] \cap seen["target"]
  <2>1. /\ todo \subseteq common
        /\ \A s \in Sides : \A k \in common \ todo : image[s][k] \in versions[s][k]
        /\ side = "target" =>
             /\ batch \subseteq todo
             /\ \A k \in batch : image["source"][k] \in versions["source"][k]
    BY <1>1 DEF ReadInv, FetchInv
  <2>2. common' = common /\ common \subseteq Keys
    BY <1>1, <1>s DEF TypeOK
  <2>3. \A s \in Sides, k \in Keys : rows[s][k] \in versions[s][k]
    BY DEF ReadInv, HistoryInv
  <2>. HIDE DEF common
  <2>4. CASE FetchSource
    <3>1. PICK page \in SUBSET todo :
            /\ batch' = page
            /\ image' = [image EXCEPT !["source"] =
                 [k \in Keys |-> IF k \in page THEN rows["source"][k] ELSE @[k]]]
      BY <2>4 DEF FetchSource
    <3>2. pc' = "fetch" /\ todo' = todo /\ side' = "target"
      BY <2>4 DEF FetchSource
    <3>3. \A k \in Keys : /\ image'["target"][k] = image["target"][k]
                          /\ k \in page => image'["source"][k] = rows["source"][k]
                          /\ k \notin page => image'["source"][k] = image["source"][k]
      BY <3>1, <1>s DEF TypeOK, Contents
    <3>4. \A s \in Sides : \A k \in common \ todo : image'[s][k] \in versions[s][k]
      BY <2>1, <2>2, <3>3, <1>s
    <3>5. \A k \in batch' : image'["source"][k] \in versions["source"][k]
      BY <1>s, <2>1, <2>2, <2>3, <3>1, <3>3
    <3>. QED
      BY <1>1, <2>1, <2>2, <3>1, <3>2, <3>4, <3>5 DEF FetchInv, common
  <2>5. CASE FetchTarget
    <3>1. /\ side = "target" /\ pc' = "fetch" /\ side' = "source" /\ todo' = todo \ batch
          /\ image' = [image EXCEPT !["target"] =
               [k \in Keys |-> IF k \in batch THEN rows["target"][k] ELSE @[k]]]
      BY <2>5 DEF FetchTarget
    <3>2. \A k \in Keys : /\ image'["source"][k] = image["source"][k]
                          /\ k \in batch => image'["target"][k] = rows["target"][k]
                          /\ k \notin batch => image'["target"][k] = image["target"][k]
      BY <3>1, <1>s DEF TypeOK, Contents
    <3>3. \A s \in Sides : \A k \in common \ todo' : image'[s][k] \in versions[s][k]
      <4>. SUFFICES ASSUME NEW s \in Sides, NEW k \in common, k \notin todo'
                    PROVE  image'[s][k] \in versions[s][k]
        OBVIOUS
      <4>1. CASE k \in batch
        BY <1>s, <2>1, <2>2, <2>3, <3>1, <3>2, <4>1
      <4>2. CASE k \notin batch
        BY <1>s, <2>1, <2>2, <3>1, <3>2, <4>2
      <4>. QED
        BY <4>1, <4>2
    <3>. QED
      BY <1>1, <2>1, <2>2, <3>1, <3>3 DEF FetchInv, common
  <2>6. CASE Conclude
    <3>1. /\ todo = {} /\ pc' = "done" /\ delta' = KeyDelta
          /\ UNCHANGED <<seen, image, todo>>
      BY <2>6, <1>1 DEF Conclude
    <3>2. KeyDelta' = KeyDelta
      BY <3>1 DEF KeyDelta
    <3>. QED
      BY <1>1, <2>1, <2>2, <3>1, <3>2 DEF FetchInv, common
  <2>. QED
    BY <2>4, <2>5, <2>6
<1>. QED
  BY <1>2, <1>3, <1>4, <1>5 DEF ReadInv

\* Reading a page of rows.
LEMMA RowsKeep ==
    ASSUME TypeOK, TableInv, ReadInv, Orderly, ReadRowPage
    PROVE  ReadInv'
<1>s. "source" \in Sides /\ "target" \in Sides /\ side \in Sides
      /\ (side # "source" => side = "target")
  BY DEF Sides, TypeOK
<1>1. /\ pc = "rows" /\ resolved = "checksum"
      /\ UNCHANGED <<call, rows, versions, counts, resolved, seen, todo, batch>>
  BY DEF ReadRowPage, dbVars, ReadInv, StrategyInv
<1>2. PICK view \in Views(side) : \E page \in SUBSET RowSelection(side, view) :
        ReadsRows(view, page)
  BY ReadsByPage
<1>3. PICK page \in SUBSET RowSelection(side, view) : ReadsRows(view, page)
  BY <1>2
<1>4. /\ RowSelection(side, view) = Remaining(view) /\ page \in SUBSET Remaining(view)
      /\ RowOrder(side) = ByKey
  BY <1>3, <1>s, OrderlySelections DEF ReadInv
<1>5. /\ EndsStream(side, page, RowBatch) =>
           \A k \in Keys : Passed(k) \/ k \in page \/ view[k] = Absent
      /\ Advance(page, ByKey) =>
           \A k \in Keys : k <= last' => Passed(k) \/ k \in page \/ view[k] = Absent
  BY <1>3, <1>4, <1>s, BatchAssumption, PagesMissNothing DEF ReadsRows, ReadInv
<1>6. /\ \A k \in Keys : view[k] \in versions[side][k]
      /\ \A k \in page : k \in Keys /\ view[k] # Absent
  <2>1. \A k \in page : k \in Keys /\ view[k] # Absent
    BY <1>4 DEF Remaining, Present
  <2>. QED
    BY <1>1, <2>1, ViewsAreVersions DEF ReadInv
<1>7. \A s \in Sides, k \in Keys :
        /\ s = side /\ k \in page => image'[s][k] = view[k]
        /\ ~(s = side /\ k \in page) => image'[s][k] = image[s][k]
  BY <1>3, <1>s DEF ReadsRows, TypeOK, Contents
\* Keys passed on this side, with this page, and not read held no row.
<1>8. \A k \in Keys : Passed(k) /\ image[side][k] = Absent => Absent \in versions[side][k]
  BY <1>1, <1>s DEF ReadInv, HashInv, Behind, Passed
<1>9. /\ EndsStream(side, page, RowBatch) =>
           \A k \in Keys : image'[side][k] = Absent => Absent \in versions[side][k]
      /\ Advance(page, ByKey) =>
           \A k \in Keys : k <= last' /\ image'[side][k] = Absent =>
                             Absent \in versions[side][k]
  BY <1>5, <1>6, <1>7, <1>8, <1>s
<1>10. side = "target" =>
         \A k \in Keys : image'["source"][k] = Absent => Absent \in versions["source"][k]
  BY <1>1, <1>7, <1>s DEF ReadInv, HashInv, Behind
<1>11. \A s \in Sides, k \in Keys :
         image'[s][k] # Absent => image'[s][k] \in versions[s][k]
  BY <1>1, <1>6, <1>7 DEF ReadInv, HashInv
<1>12. /\ pc' \in {"rows", "done"} /\ (pc' # "done" => delta' = delta)
       /\ CountInv' /\ StrategyInv' /\ ScanInv' /\ FetchInv'
  <2>1. pc' \in {"rows", "done"} /\ (pc' # "done" => delta' = delta)
    BY <1>1, <1>3 DEF ReadsRows
  <2>2. CountInv'
    BY <1>1, <2>1 DEF ReadInv, CountInv
  <2>3. StrategyInv' /\ ScanInv' /\ FetchInv'
    BY <1>1, <2>1 DEF StrategyInv, ScanInv, FetchInv
  <2>. QED
    BY <2>1, <2>2, <2>3
<1>13. CASE Advance(page, ByKey) /\ UNCHANGED <<pc, delta>>
  <2>1. started' = TRUE /\ UNCHANGED <<side, opened, pc>>
    BY <1>13 DEF Advance
  <2>2. HistoryInv' /\ StreamInv'
    BY <1>1, <2>1 DEF ReadInv, HistoryInv, StreamInv
  <2>3. HashInv'
    <3>. SUFFICES ASSUME NEW s \in Sides, NEW k \in Keys, Behind(s, k)',
                         image'[s][k] = Absent
                  PROVE  Absent \in versions[s][k]
      BY <1>1, <1>11, <2>1 DEF HashInv
    <3>1. s = side \/ (s = "source" /\ side = "target")
      BY <1>1, <2>1 DEF Behind
    <3>2. s = side => k <= last' \/ (s = "source" /\ side = "target")
      BY <1>1, <2>1 DEF Behind
    <3>. QED
      BY <1>9, <1>10, <1>13, <3>1, <3>2
  <2>. QED
    BY <1>12, <2>2, <2>3 DEF ReadInv
<1>14. CASE /\ EndsStream(side, page, RowBatch) /\ side = "source"
            /\ OpenStream("target") /\ UNCHANGED <<pc, delta>>
  <2>1. started' = FALSE /\ last' = -1 /\ side' = "target" /\ opened' = rows["target"]
    BY <1>14 DEF OpenStream
  <2>2. HistoryInv' /\ StreamInv'
    BY <1>1, <1>14, <1>s, <2>1 DEF ReadInv, HistoryInv, StreamInv
  <2>3. HashInv'
    <3>. SUFFICES ASSUME NEW s \in Sides, NEW k \in Keys, Behind(s, k)',
                         image'[s][k] = Absent
                  PROVE  Absent \in versions[s][k]
      BY <1>1, <1>11, <1>14 DEF HashInv
    <3>1. s = "source"
      BY <1>1, <1>14, <2>1 DEF Behind
    <3>. QED
      BY <1>9, <1>14, <3>1
  <2>. QED
    BY <1>12, <2>2, <2>3 DEF ReadInv
<1>15. CASE /\ EndsStream(side, page, RowBatch) /\ side # "source"
            /\ OpenStream("source") /\ pc' = "done"
            /\ delta' = HashDelta(image'["source"], image'["target"])
  <2>1. started' = FALSE /\ last' = -1 /\ side' = "source" /\ opened' = rows["source"]
    BY <1>15 DEF OpenStream
  <2>2. HistoryInv' /\ StreamInv'
    BY <1>1, <1>15, <2>1 DEF ReadInv, HistoryInv, StreamInv
  <2>3. \A s \in Sides, k \in Keys : image'[s][k] = Absent => Absent \in versions[s][k]
    <3>1. \A s \in Sides : s = side \/ (s = "source" /\ side = "target")
      BY <1>15, <1>s DEF Sides
    <3>. QED
      BY <1>9, <1>10, <1>15, <3>1
  <2>4. HashDelta(image["source"], image["target"])'
          = HashDelta(image'["source"], image'["target"])
    OBVIOUS
  <2>5. HashInv'
    BY <1>1, <1>11, <1>15, <2>3, <2>4 DEF HashInv
  <2>. QED
    BY <1>12, <2>2, <2>5 DEF ReadInv
<1>. QED
  BY <1>3, <1>4, <1>13, <1>14, <1>15 DEF ReadsRows

\* A step that changes nothing.
LEMMA StutteringKeeps == ReadInv /\ UNCHANGED vars => ReadInv'
<1>. SUFFICES ASSUME ReadInv, UNCHANGED vars PROVE ReadInv'
  OBVIOUS
<1>1. UNCHANGED <<call, rows, versions, pc, side, counts, resolved, started, last,
                  opened, seen, image, todo, batch, delta>>
  BY DEF vars, dbVars, streamVars
<1>2. HistoryInv' /\ StreamInv' /\ CountInv' /\ StrategyInv'
  BY <1>1 DEF ReadInv, HistoryInv, StreamInv, CountInv, StrategyInv
<1>3. \A s \in Sides, k \in Keys : Behind(s, k)' <=> Behind(s, k)
  BY <1>1 DEF Behind
<1>4. ScanInv'
  BY <1>1, <1>3 DEF ReadInv, ScanInv
<1>5. FetchInv'
  <2>1. KeyDelta' = KeyDelta
    BY <1>1 DEF KeyDelta
  <2>. QED
    BY <1>1, <2>1 DEF ReadInv, FetchInv
<1>6. HashInv'
  <2>1. HashDelta(image["source"], image["target"])'
          = HashDelta(image["source"], image["target"])
    BY <1>1
  <2>. QED
    BY <1>1, <1>3, <2>1 DEF ReadInv, HashInv
<1>. QED
  BY <1>2, <1>4, <1>5, <1>6 DEF ReadInv

\* While the detector reads an orderly table, what it has read is explained by
\* the versions of its keys.
THEOREM ReadsAreKept == Spec => [](TypeOK /\ (Orderly => ReadInv))
<1>. DEFINE Inv == TypeOK /\ TableInv /\ (Orderly => ReadInv)
<1>1. Init => Inv
  BY TypesInitially, ReadsInitially
<1>2. Inv /\ [Next]_vars => Inv'
  <2>. SUFFICES ASSUME TypeOK, TableInv, Orderly => ReadInv, [Next]_vars, Orderly'
                PROVE  ReadInv'
    BY TypesStay
  <2>c. Orderly /\ ReadInv
    <3>1. call' = call
      BY DEF Next, Step, Write, CountSource, CountTarget, ReadKeyPage, FetchSource,
             FetchTarget, Conclude, ReadRowPage, vars
    <3>. QED
      BY <3>1 DEF Orderly
  <2>1. ASSUME NEW s \in Sides, NEW k \in Keys, NEW v \in Values \cup {Absent},
               Write(s, k, v)
        PROVE  ReadInv'
    BY <2>1, <2>c, WritesKeep
  <2>2. CASE CountSource \/ CountTarget
    BY <2>2, <2>c, CountsKeep
  <2>3. CASE ReadKeyPage
    BY <2>3, <2>c, KeysKeep
  <2>4. CASE FetchSource \/ FetchTarget \/ Conclude
    BY <2>4, <2>c, FetchesKeep
  <2>5. CASE ReadRowPage
    BY <2>5, <2>c, RowsKeep
  <2>6. CASE UNCHANGED vars
    BY <2>6, <2>c, StutteringKeeps
  <2>. QED
    BY <2>1, <2>2, <2>3, <2>4, <2>5, <2>6 DEF Next, Step
<1>. QED
  BY <1>1, <1>2, PTL DEF Spec

-------------------------------------------------------------------------------
(* What the delta says.                                                     *)

\* The finished delta, strategy by strategy and key by key.
LEMMA DeltasAreRight ==
    ASSUME TypeOK, ReadInv
    PROVE  DeltaIsExplained
<1>. SUFFICES ASSUME pc = "done", call.strategy # "row_count", NEW k \in Keys
              PROVE  \/ \E v \in versions["source"][k], w \in versions["target"][k] :
                            Said(k) = Verdict(v, w)
                     \/ /\ Said(k) = "update"
                        /\ \E s \in Sides : Absent \in versions[s][k]
  BY DEF DeltaIsExplained
<1>s. "source" \in Sides /\ "target" \in Sides
  BY DEF Sides
<1>1. CASE resolved = "row_count"
  <2>1. Absent \in versions["source"][k] /\ Absent \in versions["target"][k]
    BY <1>1, <1>s DEF ReadInv, StrategyInv
  <2>2. Said(k) = "nothing"
    BY <1>1 DEF ReadInv, StrategyInv, Said, NoDelta
  <2>3. Verdict(Absent, Absent) = "nothing"
    BY DEF Verdict
  <2>. QED
    BY <2>1, <2>2, <2>3
<1>2. CASE resolved = "primary_key"
  <2>. DEFINE v == image["source"][k]
              w == image["target"][k]
  <2>1. \A s \in Sides : /\ k \in seen[s] => \E u \in versions[s][k] : u # Absent
                         /\ k \notin seen[s] => Absent \in versions[s][k]
    BY <1>2 DEF ReadInv, ScanInv, Behind
  <2>2. /\ delta = KeyDelta
        /\ k \in seen["source"] \cap seen["target"] =>
             \A s \in Sides : image[s][k] \in versions[s][k]
    BY <1>2 DEF ReadInv, FetchInv
  <2>3. CASE k \in seen["source"] /\ k \notin seen["target"]
    <3>1. Said(k) = "insert"
      BY <2>2, <2>3 DEF Said, KeyDelta
    <3>2. \A u : u # Absent => Verdict(u, Absent) = "insert"
      BY DEF Verdict
    <3>. QED
      BY <1>s, <2>1, <2>3, <3>1, <3>2
  <2>4. CASE k \notin seen["source"] /\ k \in seen["target"]
    <3>1. Said(k) = "delete"
      BY <2>2, <2>4 DEF Said, KeyDelta
    <3>2. \A u : u # Absent => Verdict(Absent, u) = "delete"
      BY DEF Verdict
    <3>. QED
      BY <1>s, <2>1, <2>4, <3>1, <3>2
  <2>5. CASE k \notin seen["source"] /\ k \notin seen["target"]
    <3>1. Said(k) = "nothing"
      BY <2>2, <2>5 DEF Said, KeyDelta
    <3>2. Verdict(Absent, Absent) = "nothing"
      BY DEF Verdict
    <3>. QED
      BY <1>s, <2>1, <2>5, <3>1, <3>2
  <2>6. CASE k \in seen["source"] \cap seen["target"]
    <3>1. v \in versions["source"][k] /\ w \in versions["target"][k]
      BY <1>s, <2>2, <2>6
    <3>2. Said(k) = IF v = Absent \/ v # w THEN "update" ELSE "nothing"
      BY <2>2, <2>6 DEF Said, KeyDelta
    <3>3. CASE v = Absent \/ w = Absent
      BY <1>s, <3>1, <3>2, <3>3
    <3>4. CASE v # Absent /\ w # Absent
      <4>1. Verdict(v, w) = IF v = w THEN "nothing" ELSE "update"
        BY <1>2, <3>4 DEF Verdict, Alike
      <4>. QED
        BY <3>1, <3>2, <3>4, <4>1
    <3>. QED
      BY <3>3, <3>4
  <2>. QED
    BY <2>3, <2>4, <2>5, <2>6
<1>3. CASE resolved = "checksum"
  <2>. DEFINE v == image["source"][k]
              w == image["target"][k]
  <2>1. v \in versions["source"][k] /\ w \in versions["target"][k]
    BY <1>3, <1>s DEF ReadInv, HashInv, Behind
  <2>2. delta = HashDelta(image["source"], image["target"])
    BY <1>3 DEF ReadInv, HashInv
  <2>3. Said(k) = Verdict(v, w)
    BY <1>3, <2>2 DEF Said, HashDelta, Present, Verdict, Alike
  <2>. QED
    BY <2>1, <2>3
<1>. QED
  BY <1>1, <1>2, <1>3 DEF ReadInv, StrategyInv

\* Keys for deletion were missed in the source by a stream that passed them.
LEMMA DeletionsAreRight ==
    ASSUME TypeOK, ReadInv
    PROVE  KeptRowsAreNotDeleted
<1>. SUFFICES ASSUME pc = "done", NEW k \in delta.delete
              PROVE  Absent \in versions["source"][k]
  BY DEF KeptRowsAreNotDeleted
<1>s. "source" \in Sides /\ k \in Keys
  BY DEF Sides, TypeOK
<1>1. CASE resolved = "row_count"
  BY <1>1 DEF ReadInv, StrategyInv, NoDelta
<1>2. CASE resolved = "primary_key"
  <2>1. k \notin seen["source"]
    BY <1>2 DEF ReadInv, FetchInv, KeyDelta
  <2>. QED
    BY <1>2, <1>s, <2>1 DEF ReadInv, ScanInv, Behind
<1>3. CASE resolved = "checksum"
  <2>1. image["source"][k] = Absent
    BY <1>3 DEF ReadInv, HashInv, HashDelta, Present
  <2>. QED
    BY <1>3, <1>s, <2>1 DEF ReadInv, HashInv, Behind
<1>. QED
  BY <1>1, <1>2, <1>3 DEF ReadInv, StrategyInv

\* What a delta says of a key is right for versions the key had while the
\* detector read, whatever applications wrote meanwhile: for AUTO, PRIMARY_KEY
\* and CHECKSUM, for tables, pages and batches of any size.
THEOREM DeltasAreExplained == Spec => [](Orderly => DeltaIsExplained)
BY ReadsAreKept, DeltasAreRight, PTL

\* A row the source had all the time is not listed for deletion.
THEOREM KeptRowsStay == Spec => [](Orderly => KeptRowsAreNotDeleted)
BY ReadsAreKept, DeletionsAreRight, PTL

\* A checksum comparison reads every row that was there all the time.
THEOREM ChecksumsAreComplete == Spec => [](Orderly => ChecksumReadsEveryRow)
<1>1. TypeOK /\ ReadInv => ChecksumReadsEveryRow
  BY DEF ReadInv, HashInv, Behind, ChecksumReadsEveryRow
<1>. QED
  BY <1>1, ReadsAreKept, PTL
===============================================================================
