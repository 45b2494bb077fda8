---------------------------- MODULE DeltaDetection ----------------------------
(***************************************************************************)
(* DeltaDetector.detect_delta for one table.  The detector reads source    *)
(* and target page by page, each page a statement of its own, while        *)
(* applications may go on writing to the databases.                        *)
(*                                                                         *)
(* pc is what the detector reads next:                                     *)
(*   count   the row count of a side                                       *)
(*   keys    a page of the primary keys of a side (PRIMARY_KEY)            *)
(*   fetch   the rows of a batch of common keys of a side (PRIMARY_KEY)    *)
(*   rows    a page of the rows of a side (CHECKSUM)                       *)
(*   done, raised                                                          *)
(*           detect_delta returned, or let an exception out                *)
(*                                                                         *)
(* A key is an integer: its place in the order of the primary key, which   *)
(* for a composite key is lexicographic.                                   *)
(***************************************************************************)
EXTENDS Integers, FiniteSets

CONSTANTS
    Keys,               \* the primary keys
    First,              \* First[k]: the first of the two columns of composite key k
    Values,             \* versions of a row's other columns
    Absent,             \* the mark of a key that holds no row
    Digest,             \* Digest[v]: what _hash_row makes of version v
    Adapter,            \* Adapter[s]: the database on side s
    ChecksumThreshold,  \* _AUTO_CHECKSUM_THRESHOLD
    KeyBatch,           \* PK_BATCH_SIZE
    FetchBatch,         \* ROW_FETCH_BATCH
    RowBatch,           \* batch_size of the row stream
    Calls               \* the calls of detect_delta

Sides == {"source", "target"}

ASSUME KeyColumnsAssumption ==
    /\ Keys \subseteq Int
    /\ First \in [Keys -> Int]
    /\ \A k, m \in Keys : k < m => First[k] <= First[m]
ASSUME ValuesAssumption == Absent \notin Values
ASSUME AdapterAssumption == Adapter \in [Sides -> {"postgresql", "db2"}]
ASSUME BatchAssumption ==
    /\ KeyBatch \in Nat \ {0}
    /\ FetchBatch \in Nat \ {0}
    /\ RowBatch \in Nat \ {0}

Strategies == {"auto", "row_count", "primary_key", "checksum", "timestamp"}

\* A call for a table: whether its primary key has several columns, the
\* profile's ComparisonStrategy, the keys and versions of its rows at the
\* start, what applications do to it meanwhile, and a bound on how often.
ASSUME CallsAssumption ==
    \A c \in Calls :
        /\ c.composite \in BOOLEAN
        /\ c.strategy \in Strategies
        /\ c.keys \subseteq Keys /\ IsFiniteSet(c.keys)
        /\ c.initial \in [Sides -> SUBSET Values]
        /\ c.writes \subseteq Sides \X {"insert", "update", "delete"}
        /\ c.maxWrites \in Nat

Contents == [Keys -> Values \cup {Absent}]

Present(db) == {k \in Keys : db[k] # Absent}

VARIABLES
    call,               \* the call being answered
    rows,               \* rows[s]: the contents of side s
    versions,           \* history: every version a key has had on a side
    writes,             \* history: how often applications have written
    pc,
    side,               \* the side being read
    counts,             \* source_count and target_count
    resolved,           \* the strategy in use
    started,            \* the stream of this side has yielded a page
    last,               \* the last key (or first column) the stream has yielded
    offset,             \* how many keys it has yielded
    opened,             \* the side's contents when the stream began
    seen,               \* seen[s]: source_pks, target_pks
    image,              \* image[s]: the rows of src_map, tgt_map or the hash maps
    todo,               \* the common keys whose rows are not compared yet
    batch,              \* batch_pks
    delta

dbVars == <<rows, versions, writes>>
streamVars == <<started, last, offset, opened>>
vars == <<call, dbVars, pc, side, counts, resolved, streamVars, seen, image, todo, batch, delta>>

NoDelta == [insert |-> {}, update |-> {}, delete |-> {}]

\* Every variable has its type; a strategy is in use once the rows are counted.
TypeOK ==
    /\ call \in Calls
    /\ rows \in [Sides -> Contents]
    /\ versions \in [Sides -> [Keys -> SUBSET (Values \cup {Absent})]]
    /\ writes \in Nat
    /\ pc \in {"count", "keys", "fetch", "rows", "done", "raised"}
    /\ side \in Sides
    /\ counts \in [Sides -> Nat]
    /\ resolved \in Strategies
    /\ pc # "count" => resolved # "auto"
    /\ started \in BOOLEAN
    /\ last \in Int
    /\ offset \in Nat
    /\ opened \in Contents
    /\ seen \in [Sides -> SUBSET Keys]
    /\ image \in [Sides -> Contents]
    /\ todo \in SUBSET Keys
    /\ batch \in SUBSET Keys
    /\ delta \in [insert : SUBSET Keys, update : SUBSET Keys, delete : SUBSET Keys]

-------------------------------------------------------------------------------
(* Pages.                                                                   *)

\* The first n elements of a set of keys, in the order of column "by".
IsPage(page, from, n, by) ==
    /\ page \subseteq from
    /\ Cardinality(page) <= n
    /\ page = from \/ Cardinality(page) = n
    /\ \A k \in page : \A c \in from \ page : by[k] <= by[c]

ByKey == [k \in Keys |-> k]

\* Keys of "from" behind the position the stream has reached.
After(from, by) == {k \in from : started => by[k] > last}

FirstColumn == [k \in Keys |-> IF call.composite THEN First[k] ELSE k]

\* PostgreSQL pages an integer row stream from -1, a stream of single keys
\* from the start, and composite keys by OFFSET.
RowsAfter(from) == {k \in from : FirstColumn[k] > last}

\* Mutant of Skipped: the offset overlooks one row more.
SkippedOneMore(from) ==
    {k \in from : Cardinality({c \in from : c < k}) > offset}

Skipped(from) == {k \in from : Cardinality({c \in from : c < k}) >= offset}

\* DB2 runs one statement per stream and fetches its result piecemeal: what a
\* fetch delivers is as old as the statement or as new as the fetch.
Views(s) == IF Adapter[s] = "db2" THEN {opened, rows[s]} ELSE {rows[s]}

\* The keys that the next statement of a key stream, or the next fetch,
\* selects from.
KeySelection(s, view) ==
    IF Adapter[s] = "postgresql" /\ call.composite THEN Skipped(Present(view))
                                              ELSE After(Present(view), ByKey)

RowSelection(s, view) ==
    IF Adapter[s] = "postgresql" THEN RowsAfter(Present(view))
                                 ELSE After(Present(view), ByKey)

\* The column the row stream of a side is ordered and continued by.
RowOrder(s) == IF Adapter[s] = "postgresql" THEN FirstColumn ELSE ByKey

\* Mutant of EndsStream: a full page ends the stream.
EndsOnFullPage(s, page, n) == Cardinality(page) <= n

\* PostgreSQL's streams stop after a short page, DB2's after an empty fetch.
EndsStream(s, page, n) ==
    IF Adapter[s] = "postgresql" THEN Cardinality(page) < n ELSE page = {}

-------------------------------------------------------------------------------
Init ==
    /\ call \in Calls
    /\ rows \in {db \in [Sides -> Contents] : \A s \in Sides, k \in Keys :
                    db[s][k] # Absent => k \in call.keys /\ db[s][k] \in call.initial[s]}
    /\ versions = [s \in Sides |-> [k \in Keys |-> {rows[s][k]}]]
    /\ writes = 0
    /\ pc = "count"
    /\ side = "source"
    /\ counts = [s \in Sides |-> 0]
    /\ resolved = call.strategy
    /\ started = FALSE
    /\ last = -1
    /\ offset = 0
    /\ opened = rows["source"]
    /\ seen = [s \in Sides |-> {}]
    /\ image = [s \in Sides |-> [k \in Keys |-> Absent]]
    /\ todo = {}
    /\ batch = {}
    /\ delta = NoDelta

\* What an application does when it replaces version "from" by version "to".
Kind(from, to) ==
    CASE from = Absent -> "insert"
      [] to = Absent -> "delete"
      [] OTHER -> "update"

\* An application writes one row and commits.
Write(s, k, v) ==
    /\ pc \notin {"done", "raised"}
    /\ writes < call.maxWrites
    /\ k \in call.keys
    /\ v # rows[s][k]
    /\ <<s, Kind(rows[s][k], v)>> \in call.writes
    /\ rows' = [rows EXCEPT ![s][k] = v]
    /\ versions' = [versions EXCEPT ![s][k] = @ \cup {v}]
    /\ writes' = writes + 1
    /\ UNCHANGED <<call, pc, side, counts, resolved, streamVars, seen, image, todo, batch, delta>>

\* A new stream over side s.
OpenStream(s) ==
    /\ side' = s
    /\ started' = FALSE
    /\ last' = -1
    /\ offset' = 0
    /\ opened' = rows[s]

CountSource ==
    /\ pc = "count"
    /\ side = "source"
    /\ counts' = [counts EXCEPT !["source"] = Cardinality(Present(rows["source"]))]
    /\ side' = "target"
    /\ UNCHANGED <<call, dbVars, pc, resolved, streamVars, seen, image, todo, batch, delta>>

\* _resolve_strategy.  The two lower thresholds lead to the same strategy.
Resolve(n, m) ==
    IF call.strategy # "auto" THEN call.strategy
    ELSE IF n = 0 /\ m = 0 THEN "row_count"
    ELSE IF n < ChecksumThreshold /\ m < ChecksumThreshold THEN "primary_key"
    ELSE "checksum"

\* What follows the counts: a count alone yields no keys, and a strategy the
\* detector does not know raises.
Begins(strategy) ==
    CASE strategy = "primary_key" -> "keys"
      [] strategy = "checksum" -> "rows"
      [] strategy = "row_count" -> "done"
      [] OTHER -> "raised"

CountTarget ==
    /\ pc = "count"
    /\ side = "target"
    /\ LET n == Cardinality(Present(rows["target"])) IN
         /\ counts' = [counts EXCEPT !["target"] = n]
         /\ resolved' = Resolve(counts["source"], n)
         /\ pc' = Begins(Resolve(counts["source"], n))
    /\ OpenStream("source")
    /\ UNCHANGED <<call, dbVars, seen, image, todo, batch, delta>>

\* Mutant of Advance: the position stays where it was.
StandStill(page, by) ==
    /\ started' = TRUE
    /\ UNCHANGED <<last, offset, opened, side>>

\* The stream goes on behind the last element of a page.
Advance(page, by) ==
    /\ started' = TRUE
    /\ \E k \in page : (\A m \in page : by[m] <= by[k]) /\ last' = by[k]
    /\ offset' = offset + Cardinality(page)
    /\ UNCHANGED <<opened, side>>

\* _collect_all_pks: one page of stream_primary_keys.
ReadKeyPage ==
    /\ pc = "keys"
    /\ \E view \in Views(side) : \E page \in SUBSET KeySelection(side, view) :
         /\ IsPage(page, KeySelection(side, view), KeyBatch, ByKey)
         /\ seen' = [seen EXCEPT ![side] = @ \cup page]
         /\ IF ~EndsStream(side, page, KeyBatch)
            THEN Advance(page, ByKey) /\ UNCHANGED <<pc, todo>>
            ELSE IF side = "source"
            THEN OpenStream("target") /\ UNCHANGED <<pc, todo>>
            ELSE /\ OpenStream("source")
                 /\ pc' = "fetch"
                 /\ todo' = seen'["source"] \cap seen'["target"]
    /\ UNCHANGED <<call, dbVars, counts, resolved, image, batch, delta>>

\* The source rows of the next batch of common keys.
FetchSource ==
    /\ pc = "fetch"
    /\ side = "source"
    /\ todo # {}
    /\ \E page \in SUBSET todo :
         /\ IsPage(page, todo, FetchBatch, ByKey)
         /\ batch' = page
         /\ image' = [image EXCEPT !["source"] =
                        [k \in Keys |-> IF k \in page THEN rows["source"][k] ELSE @[k]]]
    /\ side' = "target"
    /\ UNCHANGED <<call, dbVars, pc, counts, resolved, streamVars, seen, todo, delta>>

\* The target rows of the same batch.
FetchTarget ==
    /\ pc = "fetch"
    /\ side = "target"
    /\ image' = [image EXCEPT !["target"] =
                   [k \in Keys |-> IF k \in batch THEN rows["target"][k] ELSE @[k]]]
    /\ todo' = todo \ batch
    /\ side' = "source"
    /\ UNCHANGED <<call, dbVars, pc, counts, resolved, streamVars, seen, batch, delta>>

\* Mutant of KeyDelta: a row that vanished between scan and fetch is dropped.
KeyDeltaOfRows ==
    [insert |-> seen["source"] \ seen["target"],
     delete |-> seen["target"] \ seen["source"],
     update |-> {k \in seen["source"] \cap seen["target"] :
                   /\ image["source"][k] # Absent
                   /\ image["target"][k] # Absent
                   /\ image["source"][k] # image["target"][k]}]

\* A common key whose row one of the fetches did not return counts as an update.
KeyDelta ==
    [insert |-> seen["source"] \ seen["target"],
     delete |-> seen["target"] \ seen["source"],
     update |-> {k \in seen["source"] \cap seen["target"] :
                   \/ image["source"][k] = Absent
                   \/ image["source"][k] # image["target"][k]}]

Conclude ==
    /\ pc = "fetch"
    /\ side = "source"
    /\ todo = {}
    /\ delta' = KeyDelta
    /\ pc' = "done"
    /\ UNCHANGED <<call, dbVars, side, counts, resolved, streamVars, seen, image, todo, batch>>

HashDelta(source, target) ==
    [insert |-> Present(source) \ Present(target),
     delete |-> Present(target) \ Present(source),
     update |-> {k \in Present(source) \cap Present(target) :
                   Digest[source[k]] # Digest[target[k]]}]

\* _build_hash_map: one page of stream_rows, ordered by the first key column.
ReadRowPage ==
    /\ pc = "rows"
    /\ \E view \in Views(side) : \E page \in SUBSET RowSelection(side, view) :
         /\ IsPage(page, RowSelection(side, view), RowBatch, RowOrder(side))
         /\ image' = [image EXCEPT ![side] =
                        [k \in Keys |-> IF k \in page THEN view[k] ELSE @[k]]]
         /\ IF ~EndsStream(side, page, RowBatch)
            THEN Advance(page, RowOrder(side)) /\ UNCHANGED <<pc, delta>>
            ELSE IF side = "source"
            THEN OpenStream("target") /\ UNCHANGED <<pc, delta>>
            ELSE /\ OpenStream("source")
                 /\ pc' = "done"
                 /\ delta' = HashDelta(image'["source"], image'["target"])
    /\ UNCHANGED <<call, dbVars, counts, resolved, seen, todo, batch>>

Step ==
    \/ CountSource \/ CountTarget
    \/ ReadKeyPage \/ FetchSource \/ FetchTarget \/ Conclude
    \/ ReadRowPage

Next ==
    \/ \E s \in Sides, k \in Keys, v \in Values \cup {Absent} : Write(s, k, v)
    \/ Step

Spec == Init /\ [][Next]_vars

\* The detector runs in one thread and each statement is answered.
FairSpec == Spec /\ WF_vars(Step)

-------------------------------------------------------------------------------
(* Properties.                                                              *)

\* Two versions the strategy in use takes for the same.
Alike(v, w) == IF resolved = "checksum" THEN Digest[v] = Digest[w] ELSE v = w

\* What detect_delta should say of a key with version v in the source and w in
\* the target.
Verdict(v, w) ==
    CASE v # Absent /\ w = Absent -> "insert"
      [] v = Absent /\ w # Absent -> "delete"
      [] v = Absent /\ w = Absent -> "nothing"
      [] OTHER -> IF Alike(v, w) THEN "nothing" ELSE "update"

\* What it does say.
Said(k) ==
    CASE k \in delta.insert -> "insert"
      [] k \in delta.delete -> "delete"
      [] k \in delta.update -> "update"
      [] OTHER -> "nothing"

\* What the delta says of a key is right for versions the key has had in
\* source and target since the detection began, in particular for every key
\* that nobody wrote meanwhile.  The exception are rows that come and go while
\* they are compared: they may be listed as updates.
DeltaIsExplained ==
    pc = "done" /\ call.strategy # "row_count" =>
        \A k \in Keys :
            \/ \E v \in versions["source"][k], w \in versions["target"][k] :
                    Said(k) = Verdict(v, w)
            \/ /\ Said(k) = "update"
               /\ \E s \in Sides : Absent \in versions[s][k]

\* A row the source had all the time is never listed as target-only, which
\* would get it deleted from the target.
KeptRowsAreNotDeleted ==
    pc = "done" => \A k \in delta.delete : Absent \in versions["source"][k]

\* "Stream all rows and produce {pk: sha256_hex} mapping" (_build_hash_map):
\* a row that was there all the time is in the mapping of its side.
ChecksumReadsEveryRow ==
    pc = "done" /\ resolved = "checksum" =>
        \A s \in Sides, k \in Keys :
            Absent \notin versions[s][k] => image[s][k] # Absent

\* detect_delta comes to an end, however the applications write.
DetectionEnds == <>(pc \in {"done", "raised"})

===============================================================================
