--------------------------- MODULE ColumnCopyProofs ---------------------------
(***************************************************************************)
(* Theorems about ColumnCopy, for tables with any columns.                 *)
(*                                                                         *)
(* The argument follows a run through its stages: what COMPARE does not    *)
(* list agrees already, and what it lists agrees once it is written.  A    *)
(* run of whose columns pre_validate has nothing to say, and that does not *)
(* meet what pre_validate does not look at, finds every name it uses and   *)
(* every value it writes fits, so that no stage fails.                     *)
(***************************************************************************)
EXTENDS ColumnCopy, TLAPS

-------------------------------------------------------------------------------
(* Tables and mappings.                                                     *)

Row == UNION {[names \ {KeyColumn} -> Values] : names \in SUBSET Names}

Shared == Common(src, tgt) \ {KeyColumn}

\* TypeOK with what it leaves unsaid: which keys and sides there are.
CopyTypeOK ==
    /\ TypeOK
    /\ rows \in [Sides -> [Keys -> Row \cup {Absent}]]

\* Names and tables never change, nor does what is said of them alone.
LEMMA TablesStay ==
    ASSUME UNCHANGED <<schema, call>>
    PROVE  /\ src' = src /\ tgt' = tgt
           /\ Shared' = Shared /\ Copied' = Copied
           /\ PlanKey' = PlanKey
           /\ KeyIsFirst' = KeyIsFirst
           /\ SpelledAlike' = SpelledAlike
           /\ Findings' = Findings /\ NotLookedAt' = NotLookedAt
           /\ \A v, n, w : TakenFor(v, n, w)' <=> TakenFor(v, n, w)
<1>1. src' = src /\ tgt' = tgt
  BY DEF src, tgt
<1>2. Mappings' = Mappings
  BY <1>1 DEF Mappings
<1>3. PlanKey' = PlanKey
  BY <1>1 DEF PlanKey
<1>4. KeyIsFirst' = KeyIsFirst
  BY <1>3 DEF KeyIsFirst
<1>5. SpelledAlike' = SpelledAlike
  BY <1>1 DEF SpelledAlike
<1>6. PlanIdentity' = PlanIdentity
  BY DEF PlanIdentity
<1>7. Plan' = Plan
  BY <1>1, <1>2, <1>6 DEF Plan
<1>8. Findings' = Findings
  BY <1>1, <1>7 DEF Findings
<1>9. NotLookedAt' = NotLookedAt
  BY <1>1, <1>4, <1>5, <1>6 DEF NotLookedAt, IdentityRefuses
<1>10. \A v, n, w : TakenFor(v, n, w)' <=> TakenFor(v, n, w)
  BY <1>1 DEF TakenFor, Renamed, ResultName, Seen
<1> QED
  BY <1>1, <1>2, <1>3, <1>4, <1>5, <1>8, <1>9, <1>10 DEF Shared, Copied

\* Tables have columns with names, and each has its metadata.
LEMMA ColumnsAreTyped ==
    ASSUME CopyTypeOK
    PROVE  \A side \in Sides :
                /\ ColumnsOf(schema[side]) \subseteq Names
                /\ KeyColumn \in ColumnsOf(schema[side])
                /\ \A n \in ColumnsOf(schema[side]) :
                    schema[side].columns[n] \in ColumnMetadata
                /\ schema.adapters[side] \in {"postgresql", "db2"}
                /\ schema.adapters[side] = "db2" =>
                    \A n \in ColumnsOf(schema[side]) :
                        schema[side].columns[n].spelling = "lower"
<1> SUFFICES ASSUME NEW side \in Sides
             PROVE  /\ ColumnsOf(schema[side]) \subseteq Names
                    /\ KeyColumn \in ColumnsOf(schema[side])
                    /\ \A n \in ColumnsOf(schema[side]) :
                        schema[side].columns[n] \in ColumnMetadata
                    /\ schema.adapters[side] \in {"postgresql", "db2"}
                    /\ schema.adapters[side] = "db2" =>
                        \A n \in ColumnsOf(schema[side]) :
                            schema[side].columns[n].spelling = "lower"
  OBVIOUS
<1>1. /\ schema[side] \in TableMetadata
      /\ KeyColumn \in ColumnsOf(schema[side])
      /\ schema.adapters \in [Sides -> {"postgresql", "db2"}]
      /\ schema.adapters[side] = "db2" =>
            \A n \in ColumnsOf(schema[side]) : schema[side].columns[n].spelling = "lower"
  BY SchemasAssumption DEF CopyTypeOK, TypeOK
<1>2. PICK some \in SUBSET Names : schema[side].columns \in [some -> ColumnMetadata]
  BY <1>1 DEF TableMetadata
<1> QED
  BY <1>1, <1>2 DEF ColumnsOf

\* Exactly the columns of both sides are copied, each under its two names.
LEMMA CommonIsCopied ==
    /\ Copied = {Mapping(src, tgt, n) : n \in Common(src, tgt)}
    /\ \A n \in Common(src, tgt) :
        /\ Mapping(src, tgt, n).source_column = Spelled(src, n)
        /\ Mapping(src, tgt, n).target_column = Spelled(tgt, n)
        /\ Mapping(src, tgt, n).requires_cast <=> TypesDiffer(src, tgt, n)
<1>1. \A n \in ColumnsOf(src) \cup ColumnsOf(tgt) :
        n \in Common(src, tgt) <=>
            ~Mapping(src, tgt, n).source_only /\ ~Mapping(src, tgt, n).target_only
  BY DEF Common, Mapping
<1>2. Copied = {Mapping(src, tgt, n) : n \in Common(src, tgt)}
  BY <1>1 DEF Copied, Mappings, BuildColumnMappings, Transferable, Common
<1>3. \A n \in Common(src, tgt) :
        /\ Mapping(src, tgt, n).source_column = Spelled(src, n)
        /\ Mapping(src, tgt, n).target_column = Spelled(tgt, n)
        /\ Mapping(src, tgt, n).requires_cast <=> TypesDiffer(src, tgt, n)
  BY DEF Common, Mapping
<1> QED
  BY <1>2, <1>3

\* Names differ if their lower-case letters do, and only then.
LEMMA LoweredNames ==
    /\ \A table, n : Lower(Spelled(table, n)) = [name |-> n, spelling |-> "lower"]
    /\ Lower(PkColumn) = PkColumn
    /\ PkColumn = [name |-> KeyColumn, spelling |-> "lower"]
BY DEF Lower, Spelled, PkColumn

-------------------------------------------------------------------------------
(* What a statement writes.                                                 *)

LEMMA KeptValues ==
    /\ \A column : \A v \in Values : Kept(v, column) \in Values
    /\ \A v, column : Kept(Kept(v, column), column) = Kept(v, column)
    /\ \A v, column : Fits(v, column) => Fits(Kept(v, column), column)
    /\ \A v, column : column.data_type # "character" => Kept(v, column) = v
BY DEF Kept, Values, Fits

\* A row written for a row of the source has the target's columns.  Those of
\* both sides come from the source, the others from what was there.
LEMMA WrittenRows ==
    ASSUME CopyTypeOK, NEW k \in Stored("source"), NEW but, Lower(but) = PkColumn,
           NEW old \in [ColumnsOf(tgt) \ {KeyColumn} -> Values]
    PROVE  /\ Written(k, old, but) \in [ColumnsOf(tgt) \ {KeyColumn} -> Values]
           /\ \A n \in Shared :
                Written(k, old, but)[n] = Kept(rows["source"][k][n], tgt.columns[n])
           /\ \A n \in ColumnsOf(tgt) \ ColumnsOf(src) : Written(k, old, but)[n] = old[n]
<1>1. \A n \in ColumnsOf(tgt) \ {KeyColumn} :
        (\E m \in Copied : m.target_column.name = n /\ Lower(m.source_column) # Lower(but))
            <=> n \in ColumnsOf(src)
  <2> SUFFICES ASSUME NEW n \in ColumnsOf(tgt) \ {KeyColumn}
               PROVE  (\E m \in Copied :
                        m.target_column.name = n /\ Lower(m.source_column) # Lower(but))
                            <=> n \in ColumnsOf(src)
    OBVIOUS
  <2>1. ASSUME n \in ColumnsOf(src)
        PROVE  \E m \in Copied :
                m.target_column.name = n /\ Lower(m.source_column) # Lower(but)
    <3>1. n \in Common(src, tgt)
      BY <2>1 DEF Common
    <3>2. /\ Mapping(src, tgt, n) \in Copied
          /\ Mapping(src, tgt, n).target_column = Spelled(tgt, n)
          /\ Mapping(src, tgt, n).source_column = Spelled(src, n)
      BY <3>1, CommonIsCopied
    <3>3. Lower(Spelled(src, n)) # PkColumn
      BY LoweredNames
    <3> QED
      BY <3>2, <3>3 DEF Spelled
  <2>2. ASSUME NEW m \in Copied, m.target_column.name = n
        PROVE  n \in ColumnsOf(src)
    <3>1. PICK c \in Common(src, tgt) : m.target_column = Spelled(tgt, c)
      BY CommonIsCopied
    <3> QED
      BY <2>2, <3>1 DEF Common, Spelled
  <2> QED
    BY <2>1, <2>2
<1>2. \A n \in ColumnsOf(tgt) \ {KeyColumn} :
        Written(k, old, but)[n] = IF n \in ColumnsOf(src)
                                  THEN Kept(rows["source"][k][n], tgt.columns[n])
                                  ELSE old[n]
  BY <1>1 DEF Written
<1>3. rows["source"][k] \in [ColumnsOf(src) \ {KeyColumn} -> Values]
  BY DEF CopyTypeOK, TypeOK, Stored, Sides, src
<1>4. KeyColumn \in ColumnsOf(src)
  BY ColumnsAreTyped DEF src, Sides
<1> QED
  BY <1>2, <1>3, <1>4, KeptValues DEF Written, Shared, Common

-------------------------------------------------------------------------------
(* The invariant.                                                           *)

\* Whatever the source holds was stored in its columns.
SourceInv ==
    \A k \in Stored("source"), n \in ColumnsOf(src) \ {KeyColumn} :
        /\ Fits(rows["source"][k][n], src.columns[n])
        /\ Kept(rows["source"][k][n], src.columns[n]) = rows["source"][k][n]

\* The target has what the source has for key k.
Agrees(k) ==
    /\ k \in Stored("target")
    /\ \A n \in Shared : TakenFor(rows["source"][k][n], n, rows["target"][k][n])

\* What is left of the delta, and what is left to do.
DeltaInv ==
    /\ pc \in {"insert", "update"} =>
        /\ delta.insert \subseteq Stored("source")
        /\ delta.update \subseteq Stored("source") \cap Stored("target")
    /\ pc = "insert" => delta.insert = Stored("source") \ Stored("target")
    /\ pc = "insert" =>
        \A k \in Stored("source") \ (delta.insert \cup delta.update) : Agrees(k)
    /\ pc = "update" /\ KeyIsFirst => \A k \in Stored("source") \ delta.update : Agrees(k)

CopiedInv ==
    /\ KeyIsFirst
    /\ pc = "count" \/ (pc = "done" /\ outcome \in {"success", "count"})
    => \A k \in Stored("source") : Agrees(k)

\* pre_validate has nothing to say and nothing to overlook.
Harmless == Findings = {} /\ ~NotLookedAt

FailureInv ==
    Harmless =>
        /\ pc = "done" => outcome \notin {"compare", "insert", "update"}
        /\ pc \in {"insert", "update"} /\ delta.update # {} => Shared # {}

CopyInv == CopyTypeOK /\ SourceInv /\ DeltaInv /\ CopiedInv /\ FailureInv

-------------------------------------------------------------------------------
(* What the comparison finds out.                                           *)

\* A result holds what was asked for, unless DB2 returns it under another name.
LEMMA ResultsHoldNames ==
    ASSUME CopyTypeOK, NEW k, NEW n \in ColumnsOf(src)
    PROVE  /\ Get(ResultRow("source", k, Compared), Spelled(src, n)) = ValueAt("source", k, n)
           /\ ~Renamed(n) =>
                Get(ResultRow("target", k, Compared), Spelled(src, n)) = ValueAt("target", k, n)
           /\ Get(ResultRow("target", k, Compared), Spelled(src, n))
                \in {"null", ValueAt("target", k, n)}
<1> DEFINE c == Spelled(src, n)
<1>1. c \in Compared /\ c.name = n
  BY DEF Compared, Spelled
<1>2. ASSUME NEW side, c \in DOMAIN ResultRow(side, k, Compared)
      PROVE  Get(ResultRow(side, k, Compared), c) = ValueAt(side, k, n)
  BY <1>1, <1>2 DEF Get, ResultRow
<1>3. ASSUME NEW side, ResultName(side, c) = c
      PROVE  c \in DOMAIN ResultRow(side, k, Compared)
  BY <1>1, <1>3 DEF ResultRow
<1>4. ResultName("source", c) = c
  BY ColumnsAreTyped DEF ResultName, Lower, Spelled, src, Sides
<1>5. ~Renamed(n) => ResultName("target", c) = c
  BY DEF Renamed
<1>6. c \notin DOMAIN ResultRow("target", k, Compared) =>
        Get(ResultRow("target", k, Compared), c) = "null"
  BY DEF Get
<1> QED
  BY <1>2, <1>3, <1>4, <1>5, <1>6

\* A row for which the comparison finds no difference needs none of the copy.
LEMMA EqualRowsAgree ==
    ASSUME CopyTypeOK, NEW k \in Stored("source") \cap Stored("target"), ~RowsDiffer(k)
    PROVE  Agrees(k)
<1> SUFFICES ASSUME NEW n \in Shared
             PROVE  TakenFor(rows["source"][k][n], n, rows["target"][k][n])
  BY DEF Agrees
<1>1. n \in ColumnsOf(src) /\ n # KeyColumn
  BY DEF Shared, Common
<1>2. Seen(Get(ResultRow("source", k, Compared), Spelled(src, n)))
        = Seen(Get(ResultRow("target", k, Compared), Spelled(src, n)))
  BY <1>1 DEF RowsDiffer, Compared
<1>3. ValueAt("source", k, n) = rows["source"][k][n]
      /\ ValueAt("target", k, n) = rows["target"][k][n]
  BY <1>1 DEF ValueAt
<1>4. CASE ~Renamed(n)
  BY <1>1, <1>2, <1>3, <1>4, ResultsHoldNames DEF TakenFor
<1>5. CASE Renamed(n)
  <2>1. Get(ResultRow("source", k, Compared), Spelled(src, n)) = rows["source"][k][n]
    BY <1>1, <1>3, ResultsHoldNames
  <2>2. Get(ResultRow("target", k, Compared), Spelled(src, n))
            \in {"null", rows["target"][k][n]}
    BY <1>1, <1>3, ResultsHoldNames
  <2> QED
    BY <1>2, <1>5, <2>1, <2>2 DEF TakenFor
<1> QED
  BY <1>4, <1>5

\* Where every column of the source is one of the target and has the same name
\* there, no statement of the comparison fails.
LEMMA AlikeTablesAreCompared ==
    ASSUME CopyTypeOK, SpelledAlike, ColumnsOf(src) \subseteq ColumnsOf(tgt)
    PROVE  /\ \A side \in Sides, n \in ColumnsOf(src) : Finds(side, Spelled(src, n))
           /\ Spelled(src, KeyColumn) = PkColumn
           /\ ~CompareRaises
           /\ \A n \in ColumnsOf(src) : ~Renamed(n)
<1>1. \A n \in ColumnsOf(src) : Spelled(src, n) = Spelled(tgt, n)
  BY DEF SpelledAlike, Common
<1>2. \A side \in Sides, n \in ColumnsOf(src) : Finds(side, Spelled(src, n))
  BY <1>1 DEF Finds, Sides, src, tgt, Spelled
<1>3. Spelled(src, KeyColumn) = PkColumn /\ KeyColumn \in ColumnsOf(src)
  BY ColumnsAreTyped DEF SpelledAlike, src, Sides
<1>4. PkColumn \in Compared
  BY <1>3 DEF Compared
<1>5. \A side : ResultName(side, PkColumn) = PkColumn
  BY LoweredNames DEF ResultName
<1>6. \A side \in Sides : ReadsRows(side)
  BY <1>2, <1>4, <1>5 DEF ReadsRows, Compared
<1>7. ~CompareRaises
  BY <1>2, <1>3, <1>6 DEF CompareRaises
<1>8. \A n \in ColumnsOf(tgt) : ResultName("target", Spelled(tgt, n)) = Spelled(tgt, n)
  BY ColumnsAreTyped DEF ResultName, Lower, Spelled, tgt, Sides
<1> QED
  BY <1>1, <1>2, <1>3, <1>7, <1>8 DEF Renamed

\* If pre_validate has nothing to say and nothing to overlook, every column of
\* the source is a column of the same name and type on the target, and wide
\* enough.
LEMMA HarmlessTables ==
    ASSUME CopyTypeOK, Harmless
    PROVE  /\ SpelledAlike /\ KeyIsFirst /\ ~IdentityRefuses
           /\ ColumnsOf(src) \subseteq ColumnsOf(tgt)
           /\ \A n \in Shared : src.columns[n].max_length <= tgt.columns[n].max_length
<1>1. SpelledAlike /\ KeyIsFirst /\ ~IdentityRefuses
  BY DEF Harmless, NotLookedAt
<1>2. call.way \in {"pipeline", "executor"}
  BY CallsAssumption DEF CopyTypeOK, TypeOK
<1>3. ColumnsOf(src) \subseteq ColumnsOf(tgt)
  <2>1. CASE call.way = "pipeline"
    BY <2>1 DEF Harmless, NotLookedAt
  <2>2. CASE call.way = "executor"
    <3>1. Plan.source_only_columns = {}
      BY DEF Harmless, Findings, PreFindings
    <3> QED
      BY <2>2, <3>1 DEF Plan
  <2> QED
    BY <1>2, <2>1, <2>2
<1>4. ASSUME NEW n \in Shared, ~(src.columns[n].max_length <= tgt.columns[n].max_length)
      PROVE  FALSE
  <2>1. n \in Common(src, tgt)
    BY DEF Shared
  <2>2. src.columns[n] \in ColumnMetadata /\ tgt.columns[n] \in ColumnMetadata
    BY <2>1, ColumnsAreTyped DEF Common, src, tgt, Sides
  <2>3. src.columns[n].max_length > tgt.columns[n].max_length
    <3>1. src.columns[n].max_length \in Nat /\ tgt.columns[n].max_length \in Nat
      BY <2>2, LengthsAssumption DEF ColumnMetadata
    <3> QED
      BY <1>4, <3>1
  <2>4. schema.multibyte /\ src.columns[n].data_type \in Varchars
    BY <2>3 DEF Harmless, NotLookedAt, Shared
  <2>5. VarcharTooShort(Mapping(src, tgt, n), src, tgt, schema.multibyte)
    <3>1. /\ Mapping(src, tgt, n).source_column.name = n
          /\ Mapping(src, tgt, n).target_column.name = n
      <4>1. /\ Mapping(src, tgt, n).source_column = Spelled(src, n)
            /\ Mapping(src, tgt, n).target_column = Spelled(tgt, n)
        BY <2>1, CommonIsCopied
      <4> QED
        BY <4>1 DEF Spelled
    <3>2. ASSUME NEW m, m.source_column.name = n, m.target_column.name = n
          PROVE  VarcharTooShort(m, src, tgt, schema.multibyte)
      BY <2>3, <2>4, <3>2 DEF VarcharTooShort
    <3> QED
      BY <3>1, <3>2
  <2>6. Mapping(src, tgt, n) \in Transferable(Plan.column_mappings)
    BY <2>1, CommonIsCopied DEF Copied, Plan
  <2>7. "varchar_length_sufficient" \in Findings
    BY <2>5, <2>6 DEF Findings, PreFindings
  <2> QED
    BY <2>7 DEF Harmless
<1> QED
  BY <1>1, <1>3, <1>4

\* If pre_validate has nothing to say and nothing to overlook, every statement
\* finds its columns and every value fits.
LEMMA HarmlessStatements ==
    ASSUME CopyTypeOK, SourceInv, Harmless
    PROVE  /\ SourceAnswers /\ InsertAccepted
           /\ Shared # {} => UpdateAccepted
           /\ \A k \in Stored("source") : RowFits(k)
<1>1. /\ SpelledAlike /\ KeyIsFirst /\ ~IdentityRefuses
      /\ ColumnsOf(src) \subseteq ColumnsOf(tgt)
  BY HarmlessTables
<1>2. /\ \A side \in Sides, n \in ColumnsOf(src) : Finds(side, Spelled(src, n))
      /\ Spelled(src, KeyColumn) = PkColumn
  BY <1>1, AlikeTablesAreCompared
<1>3. KeyColumn \in ColumnsOf(src)
  BY ColumnsAreTyped DEF src, Sides
<1>4. PlanKey = PkColumn
  <2>1. CASE call.way = "pipeline"
    BY <2>1 DEF PlanKey
  <2>2. CASE call.way # "pipeline"
    <3>1. PlanKey = FirstMapping(src, tgt).source_column /\ PlanKey.name = KeyColumn
      BY <1>1, <2>2 DEF PlanKey, KeyIsFirst
    <3>2. PICK n : FirstMapping(src, tgt) = Mapping(src, tgt, n)
      BY DEF FirstMapping
    <3>3. PlanKey = Spelled(IF n \in ColumnsOf(src) THEN src ELSE tgt, n)
      BY <3>1, <3>2 DEF Mapping
    <3>4. n = KeyColumn
      BY <3>1, <3>3 DEF Spelled
    <3> QED
      BY <1>2, <1>3, <3>3, <3>4
  <2> QED
    BY <2>1, <2>2
<1>5. \A m \in Copied :
        /\ \E n \in Common(src, tgt) : m.source_column = Spelled(src, n)
        /\ WrittenAs(m) = m.source_column
  <2> SUFFICES ASSUME NEW m \in Copied
               PROVE  /\ \E n \in Common(src, tgt) : m.source_column = Spelled(src, n)
                      /\ WrittenAs(m) = m.source_column
    OBVIOUS
  <2>1. PICK n \in Common(src, tgt) :
            m.source_column = Spelled(src, n) /\ m.target_column = Spelled(tgt, n)
    BY CommonIsCopied
  <2>2. Spelled(src, n) = Spelled(tgt, n)
    BY <1>1 DEF SpelledAlike
  <2> QED
    BY <2>1, <2>2 DEF WrittenAs
<1>6. \A m \in Copied, side \in Sides :
        Finds(side, m.source_column) /\ Finds(side, WrittenAs(m))
  BY <1>2, <1>5 DEF Common
<1>7. \A side \in Sides : Finds(side, PlanKey) /\ Comparable(side, PlanKey)
  BY <1>2, <1>3, <1>4, LoweredNames DEF Comparable
<1>8. SourceAnswers
  BY <1>6, <1>7 DEF SourceAnswers, StatementStands, SourceColumns, Sides
<1>9. InsertAccepted
  BY <1>1, <1>6 DEF InsertAccepted, StatementStands, Sides
<1>10. ASSUME NEW n \in Shared
       PROVE  UpdateAccepted
  <2>1. Mapping(src, tgt, n) \in Copied /\ Mapping(src, tgt, n).source_column = Spelled(src, n)
    BY CommonIsCopied DEF Shared
  <2>2. Lower(Spelled(src, n)) # Lower(PlanKey)
    BY <1>4, LoweredNames DEF Shared
  <2>3. UpdateColumns # {}
    BY <2>1, <2>2 DEF UpdateColumns
  <2> QED
    BY <1>6, <1>7, <2>3 DEF UpdateAccepted, UpdateColumns, StatementStands, Sides
<1>11. ASSUME NEW k \in Stored("source"), NEW n \in Shared
       PROVE  Fits(rows["source"][k][n], tgt.columns[n])
  <2>1. src.columns[n] \in ColumnMetadata /\ tgt.columns[n] \in ColumnMetadata
    BY ColumnsAreTyped DEF Shared, Common, src, tgt, Sides
  <2>2. src.columns[n].max_length \in Nat /\ tgt.columns[n].max_length \in Nat
    BY <2>1, LengthsAssumption DEF ColumnMetadata
  <2>3. src.columns[n].max_length <= tgt.columns[n].max_length
    BY HarmlessTables
  <2>4. Fits(rows["source"][k][n], src.columns[n])
    BY DEF SourceInv, Shared, Common
  <2> QED
    BY <2>2, <2>3, <2>4 DEF Fits
<1> QED
  BY <1>8, <1>9, <1>10, <1>11 DEF RowFits, Shared

-------------------------------------------------------------------------------
(* The steps.                                                               *)

\* What depends only on the rows stays while they do.
LEMMA RowsStay ==
    ASSUME UNCHANGED <<schema, call, rows>>
    PROVE  /\ \A side : Stored(side)' = Stored(side)
           /\ \A k : Agrees(k)' <=> Agrees(k)
           /\ SourceInv' <=> SourceInv
<1>1. \A side : Stored(side)' = Stored(side)
  BY DEF Stored
<1>2. \A k : Agrees(k)' <=> Agrees(k)
  BY <1>1, TablesStay DEF Agrees
<1>3. SourceInv' <=> SourceInv
  BY <1>1, TablesStay DEF SourceInv
<1> QED
  BY <1>1, <1>2, <1>3

\* A statement writes "new" over the rows with some keys, from the source.
Writes(some, new) ==
    /\ UNCHANGED <<schema, call>>
    /\ some \in SUBSET (Stored("source") \cap Keys)
    /\ new \in [some -> [ColumnsOf(tgt) \ {KeyColumn} -> Values]]
    /\ \A k \in some, n \in Shared :
            new[k][n] = Kept(rows["source"][k][n], tgt.columns[n])
    /\ DOMAIN rows' = Sides
    /\ rows' = [side \in Sides |-> rows'[side]]
    /\ rows'["source"] = rows["source"]
    /\ rows'["target"] = [k \in Keys |-> rows'["target"][k]]
    /\ \A k \in Keys :
            rows'["target"][k] = IF k \in some THEN new[k] ELSE rows["target"][k]

RowsTyped ==
    /\ rows \in [Sides -> [Keys -> Row \cup {Absent}]]
    /\ \A side \in Sides : \A k \in Keys :
        rows[side][k] # Absent =>
            rows[side][k] \in [ColumnsOf(schema[side]) \ {KeyColumn} -> Values]

\* Those rows agree afterwards, and the others stay as they are.
Wrote(some, new) ==
    /\ RowsTyped'
    /\ Stored("source")' = Stored("source")
    /\ Stored("target")' = Stored("target") \cup some
    /\ \A k \in some : Agrees(k)' /\ rows'["target"][k] = new[k]
    /\ \A k \in Stored("target") \ some : rows'["target"][k] = rows["target"][k]
    /\ \A k : k \notin some /\ Agrees(k) => Agrees(k)'
    /\ SourceInv => SourceInv'

LEMMA RowsAreWritten ==
    ASSUME CopyTypeOK, NEW some, NEW new, Writes(some, new)
    PROVE  Wrote(some, new)
<1>1. /\ src' = src /\ tgt' = tgt /\ Shared' = Shared
      /\ \A v, n, w : TakenFor(v, n, w)' <=> TakenFor(v, n, w)
  BY TablesStay DEF Writes
<1>2. /\ some \in SUBSET (Stored("source") \cap Keys)
      /\ new \in [some -> [ColumnsOf(tgt) \ {KeyColumn} -> Values]]
      /\ \A k \in some, n \in Shared :
            new[k][n] = Kept(rows["source"][k][n], tgt.columns[n])
      /\ DOMAIN rows' = Sides /\ rows' = [side \in Sides |-> rows'[side]]
      /\ rows'["source"] = rows["source"]
      /\ rows'["target"] = [k \in Keys |-> rows'["target"][k]]
      /\ \A k \in Keys :
            rows'["target"][k] = IF k \in some THEN new[k] ELSE rows["target"][k]
      /\ schema' = schema
  BY DEF Writes
<1>3. ColumnsOf(tgt) \in SUBSET Names
  BY ColumnsAreTyped DEF tgt, Sides
<1>4. \A k \in some : new[k] \in Row
  BY <1>2, <1>3 DEF Row
<1>5. \A k \in some : new[k] # Absent
  <2>1. Absent \notin [ColumnsOf(tgt) \ {KeyColumn} -> Values]
    BY <1>3, AbsentAssumption, Zenon
  <2> QED
    BY <1>2, <2>1
<1>6. rows' \in [Sides -> [Keys -> Row \cup {Absent}]]
  <2>1. rows'["source"] \in [Keys -> Row \cup {Absent}]
    BY <1>2 DEF CopyTypeOK, Sides
  <2>2. rows'["target"] \in [Keys -> Row \cup {Absent}]
    BY <1>2, <1>4 DEF CopyTypeOK, Sides
  <2>3. rows' = [side \in Sides |-> rows'[side]]
    BY <1>2
  <2> QED
    BY <2>1, <2>2, <2>3 DEF Sides
<1>7. ASSUME NEW side \in Sides, NEW k \in Keys, rows'[side][k] # Absent
      PROVE  rows'[side][k] \in [ColumnsOf(schema[side]) \ {KeyColumn} -> Values]
  <2>1. CASE side = "source"
    BY <1>2, <1>7, <2>1 DEF CopyTypeOK, TypeOK
  <2>2. CASE side = "target" /\ k \in some
    BY <1>2, <2>2 DEF tgt
  <2>3. CASE side = "target" /\ k \notin some
    BY <1>2, <1>7, <2>3 DEF CopyTypeOK, TypeOK
  <2> QED
    BY <2>1, <2>2, <2>3 DEF Sides
<1>8. Stored("source")' = Stored("source") /\ Stored("target")' = Stored("target") \cup some
  BY <1>2, <1>5 DEF Stored
<1>9. ASSUME NEW k \in some
      PROVE  Agrees(k)'
  <2>1. \A n \in Shared : TakenFor(rows["source"][k][n], n, new[k][n])
    BY <1>2 DEF TakenFor
  <2>2. \A n \in Shared : TakenFor(rows'["source"][k][n], n, rows'["target"][k][n])
    BY <1>2, <2>1
  <2> QED
    BY <1>1, <1>8, <2>2 DEF Agrees
<1>10. \A k \in Stored("target") \ some : rows'["target"][k] = rows["target"][k]
  BY <1>2 DEF Stored
<1>11. ASSUME NEW k, k \notin some, Agrees(k)
       PROVE  Agrees(k)'
  BY <1>1, <1>2, <1>8, <1>10, <1>11 DEF Agrees
<1>12. SourceInv => SourceInv'
  BY <1>1, <1>2, <1>8 DEF SourceInv
<1>13. RowsTyped'
  BY <1>2, <1>6, <1>7 DEF RowsTyped
<1>14. \A k \in some : rows'["target"][k] = new[k]
  BY <1>2
<1> QED
  BY <1>8, <1>9, <1>10, <1>11, <1>12, <1>13, <1>14 DEF Wrote

LEMMA CopyInvInit ==
    ASSUME Init
    PROVE  CopyInv
<1>1. PICK input \in Inputs : rows = [side \in Sides |-> Content(side, input)]
  BY DEF Init
<1>2. \A side \in Sides, k \in Keys : input[side][k] \in Values \cup {Absent}
  BY InputsAssumption
<1>3. ASSUME NEW side \in Sides, NEW k \in Keys
      PROVE  /\ rows[side][k] # Absent =>
                rows[side][k] \in [ColumnsOf(schema[side]) \ {KeyColumn} -> Values]
             /\ \A n \in ColumnsOf(schema[side]) \ {KeyColumn} :
                rows[side][k] # Absent =>
                    Kept(rows[side][k][n], schema[side].columns[n]) = rows[side][k][n]
  <2>1. rows[side][k] =
            IF input[side][k] = Absent THEN Absent
            ELSE [n \in ColumnsOf(schema[side]) \ {KeyColumn} |->
                    Kept(input[side][k], schema[side].columns[n])]
    BY <1>1 DEF Content
  <2>2. CASE input[side][k] = Absent
    BY <2>1, <2>2
  <2>3. CASE input[side][k] # Absent
    <3>1. input[side][k] \in Values
      BY <1>2, <2>3
    <3>2. \A n : Kept(input[side][k], schema[side].columns[n]) \in Values
      BY <3>1, KeptValues
    <3>3. \A n : Kept(Kept(input[side][k], schema[side].columns[n]), schema[side].columns[n])
                    = Kept(input[side][k], schema[side].columns[n])
      BY KeptValues
    <3> QED
      BY <2>1, <2>3, <3>2, <3>3
  <2> QED
    BY <2>2, <2>3
<1>4. \A side \in Sides : ColumnsOf(schema[side]) \in SUBSET Names
  <2> SUFFICES ASSUME NEW side \in Sides
               PROVE  ColumnsOf(schema[side]) \in SUBSET Names
    OBVIOUS
  <2>1. schema[side] \in TableMetadata
    BY SchemasAssumption DEF Init
  <2>2. PICK some \in SUBSET Names : schema[side].columns \in [some -> ColumnMetadata]
    BY <2>1 DEF TableMetadata
  <2> QED
    BY <2>2 DEF ColumnsOf
<1>5. rows \in [Sides -> [Keys -> Row \cup {Absent}]]
  <2>1. \A side \in Sides, k \in Keys : rows[side][k] \in Row \cup {Absent}
    BY <1>3, <1>4 DEF Row
  <2>2. \A side \in Sides : rows[side] = [k \in Keys |-> rows[side][k]]
    BY <1>1 DEF Content
  <2> QED
    BY <1>1, <2>1, <2>2
<1>6. TypeOK
  BY <1>3, WritesAssumption DEF Init, TypeOK, NoDelta
<1>7. SourceInv
  <2>1. ASSUME NEW k \in Stored("source"), NEW n \in ColumnsOf(src) \ {KeyColumn}
        PROVE  Fits(rows["source"][k][n], src.columns[n])
    <3>1. "source" \in Sides /\ k \in Keys /\ rows["source"][k] # Absent
      BY DEF Stored, Sides
    <3>2. n \in DOMAIN rows["source"][k]
      BY <1>3, <3>1 DEF src
    <3> QED
      BY <3>1, <3>2 DEF Init, src
  <2> QED
    BY <1>3, <2>1 DEF SourceInv, Stored, Sides, src
<1>8. DeltaInv /\ CopiedInv /\ FailureInv
  BY DEF Init, DeltaInv, CopiedInv, FailureInv
<1> QED
  BY <1>5, <1>6, <1>7, <1>8 DEF CopyInv, CopyTypeOK

\* COMPARE: what differs is listed, so what is not listed agrees.
LEMMA CompareStep ==
    ASSUME CopyInv, Compare
    PROVE  CopyInv'
<1>1. /\ UNCHANGED <<schema, call, rows, outcome, writes>>
      /\ pc' = "insert" /\ ~CompareRaises
      /\ delta'.insert = Stored("source") \ Stored("target")
      /\ delta'.update = {k \in Stored("source") \cap Stored("target") : RowsDiffer(k)}
      /\ delta' \in [insert : SUBSET Keys, update : SUBSET Keys, delete : SUBSET Keys]
  BY DEF Compare, Delta, Stored
<1>2. CopyTypeOK'
  BY <1>1 DEF CopyInv, CopyTypeOK, TypeOK
<1>3. SourceInv'
  BY <1>1, RowsStay DEF CopyInv
<1>4. \A k \in Stored("source") \ (delta'.insert \cup delta'.update) : Agrees(k)
  BY <1>1, EqualRowsAgree DEF CopyInv
<1>5. DeltaInv'
  BY <1>1, <1>4, RowsStay DEF DeltaInv
<1>6. CopiedInv'
  BY <1>1 DEF CopiedInv
<1>7. FailureInv'
  <2>1. Harmless' <=> Harmless
    BY <1>1, TablesStay DEF Harmless
  <2>2. Shared' = Shared
    BY <1>1, TablesStay
  <2>3. ASSUME Harmless, NEW k, RowsDiffer(k)
        PROVE  Shared # {}
    <3>1. SpelledAlike /\ ColumnsOf(src) \subseteq ColumnsOf(tgt)
      BY <2>3, HarmlessTables DEF CopyInv
    <3>2. PICK n \in ColumnsOf(src) :
            Seen(Get(ResultRow("source", k, Compared), Spelled(src, n)))
                # Seen(Get(ResultRow("target", k, Compared), Spelled(src, n)))
      BY <2>3 DEF RowsDiffer, Compared
    <3>3. ~Renamed(n)
      BY <3>1, AlikeTablesAreCompared DEF CopyInv
    <3>4. ValueAt("source", k, n) # ValueAt("target", k, n)
      BY <3>2, <3>3, ResultsHoldNames DEF CopyInv
    <3>5. n # KeyColumn
      BY <3>4 DEF ValueAt
    <3> QED
      BY <3>1, <3>5 DEF Shared, Common
  <2> QED
    BY <1>1, <2>1, <2>2, <2>3 DEF FailureInv
<1> QED
  BY <1>2, <1>3, <1>5, <1>6, <1>7 DEF CopyInv

LEMMA CompareFailsStep ==
    ASSUME CopyInv, CompareFails
    PROVE  CopyInv'
<1>1. /\ UNCHANGED <<schema, call, rows, delta, writes>>
      /\ pc' = "done" /\ outcome' = "compare" /\ CompareRaises
  BY DEF CompareFails, Ends
<1>2. CopyTypeOK'
  BY <1>1 DEF CopyInv, CopyTypeOK, TypeOK
<1>3. SourceInv'
  BY <1>1, RowsStay DEF CopyInv
<1>4. DeltaInv' /\ CopiedInv'
  BY <1>1 DEF DeltaInv, CopiedInv
<1>5. ~Harmless
  BY <1>1, HarmlessTables, AlikeTablesAreCompared DEF CopyInv
<1>6. FailureInv'
  BY <1>1, <1>5, TablesStay DEF FailureInv, Harmless
<1> QED
  BY <1>2, <1>3, <1>4, <1>6 DEF CopyInv

\* The rows of the plan's keys, if the plan has the right key.
LEMMA RowsOfThePlan ==
    ASSUME CopyTypeOK, NEW keys \in SUBSET Stored("source")
    PROVE  /\ Matching(PlanKey, keys) \in SUBSET keys
           /\ KeyIsFirst => Matching(PlanKey, keys) = keys
           /\ Matching(PlanKey, keys) # {} => Lower(PlanKey) = PkColumn
<1>1. \E n, table : PlanKey = Spelled(table, n) \/ PlanKey = PkColumn
  BY DEF PlanKey, FirstMapping, Mapping
<1>2. PlanKey.name = KeyColumn => Lower(PlanKey) = PkColumn
  <2>1. CASE PlanKey = PkColumn
    BY <2>1, LoweredNames
  <2>2. ASSUME NEW n, NEW table, PlanKey = Spelled(table, n)
        PROVE  PlanKey.name = n /\ Lower(PlanKey) = [name |-> n, spelling |-> "lower"]
    BY <2>2, LoweredNames DEF Spelled
  <2> QED
    BY <1>1, <2>1, <2>2, LoweredNames
<1>3. KeyIsFirst => PlanKey.name = KeyColumn
  BY DEF KeyIsFirst, PlanKey, PkColumn
<1> QED
  BY <1>2, <1>3 DEF Matching

LEMMA InsertedRows ==
    ASSUME CopyTypeOK, NEW k \in Stored("source")
    PROVE  /\ Written(k, Defaults, PkColumn) \in [ColumnsOf(tgt) \ {KeyColumn} -> Values]
           /\ \A n \in Shared : Written(k, Defaults, PkColumn)[n]
                = Kept(rows["source"][k][n], tgt.columns[n])
<1>1. Defaults \in [ColumnsOf(tgt) \ {KeyColumn} -> Values]
  BY DEF Defaults, Values
<1>2. Lower(PkColumn) = PkColumn
  BY LoweredNames
<1> QED
  BY <1>1, <1>2, WrittenRows

LEMMA UpdatedRows ==
    ASSUME CopyTypeOK, NEW k \in Stored("source") \cap Stored("target"),
           Lower(PlanKey) = PkColumn
    PROVE  /\ Written(k, rows["target"][k], PlanKey)
                \in [ColumnsOf(tgt) \ {KeyColumn} -> Values]
           /\ \A n \in Shared : Written(k, rows["target"][k], PlanKey)[n]
                = Kept(rows["source"][k][n], tgt.columns[n])
           /\ \A n \in ColumnsOf(tgt) \ ColumnsOf(src) :
                Written(k, rows["target"][k], PlanKey)[n] = rows["target"][k][n]
<1>1. rows["target"][k] \in [ColumnsOf(tgt) \ {KeyColumn} -> Values]
  BY DEF CopyTypeOK, TypeOK, Stored, Sides, tgt
<1> QED
  BY <1>1, WrittenRows

\* What an insert leaves, whether it was completed or failed half way.
LEMMA InsertedSome ==
    ASSUME CopyInv, UNCHANGED <<schema, call>>, pc = "insert",
           NEW some \in SUBSET InsertRows,
           rows' = [rows EXCEPT !["target"] =
                [k \in Keys |-> IF k \in some THEN Written(k, Defaults, PkColumn) ELSE @[k]]]
    PROVE  /\ some \cap Stored("target") = {}
           /\ Wrote(some, [k \in some |-> Written(k, Defaults, PkColumn)])
<1> DEFINE new == [k \in some |-> Written(k, Defaults, PkColumn)]
<1>1. some \in SUBSET (Stored("source") \cap Keys) /\ some \cap Stored("target") = {}
  <2>1. delta.insert \in SUBSET Stored("source") /\ delta.insert \cap Stored("target") = {}
    BY DEF CopyInv, DeltaInv
  <2>2. InsertRows \in SUBSET delta.insert
    BY <2>1, RowsOfThePlan DEF InsertRows, CopyInv
  <2> QED
    BY <2>1, <2>2 DEF Stored
<1>2. new \in [some -> [ColumnsOf(tgt) \ {KeyColumn} -> Values]]
  BY <1>1, InsertedRows DEF CopyInv
<1>3. \A k \in some, n \in Shared : new[k][n] = Kept(rows["source"][k][n], tgt.columns[n])
  BY <1>1, InsertedRows DEF CopyInv
<1>4. /\ DOMAIN rows' = Sides
      /\ rows' = [side \in Sides |-> rows'[side]]
      /\ rows'["source"] = rows["source"]
      /\ rows'["target"] = [k \in Keys |-> rows'["target"][k]]
      /\ \A k \in Keys :
            rows'["target"][k] = IF k \in some THEN new[k] ELSE rows["target"][k]
  BY DEF CopyInv, CopyTypeOK, Sides
<1> HIDE DEF new
<1>5. Writes(some, new)
  BY <1>1, <1>2, <1>3, <1>4 DEF Writes
<1>6. Wrote(some, new)
  BY <1>5, RowsAreWritten DEF CopyInv
<1> QED
  BY <1>1, <1>6 DEF new

\* The same of an update, which leaves columns of the target alone as well.
LEMMA UpdatedSome ==
    ASSUME CopyInv, UNCHANGED <<schema, call>>, pc = "update",
           NEW some \in SUBSET UpdateRows,
           rows' = [rows EXCEPT !["target"] =
                [k \in Keys |-> IF k \in some THEN Written(k, @[k], PlanKey) ELSE @[k]]]
    PROVE  /\ some \subseteq Stored("target")
           /\ Wrote(some, [k \in some |-> Written(k, rows["target"][k], PlanKey)])
           /\ \A k \in Stored("target"), n \in ColumnsOf(tgt) \ ColumnsOf(src) :
                rows'["target"][k][n] = rows["target"][k][n]
<1> DEFINE new == [k \in some |-> Written(k, rows["target"][k], PlanKey)]
<1>1. /\ some \in SUBSET (Stored("source") \cap Keys)
      /\ some \subseteq Stored("target")
      /\ some # {} => Lower(PlanKey) = PkColumn
  <2>1. delta.update \in SUBSET Stored("source") /\ delta.update \subseteq Stored("target")
    BY DEF CopyInv, DeltaInv
  <2>2. /\ UpdateRows \in SUBSET delta.update
        /\ UpdateRows # {} => Lower(PlanKey) = PkColumn
    BY <2>1, RowsOfThePlan DEF UpdateRows, CopyInv
  <2> QED
    BY <2>1, <2>2 DEF Stored
<1>2. new \in [some -> [ColumnsOf(tgt) \ {KeyColumn} -> Values]]
  BY <1>1, UpdatedRows DEF CopyInv
<1>3. \A k \in some, n \in Shared : new[k][n] = Kept(rows["source"][k][n], tgt.columns[n])
  BY <1>1, UpdatedRows DEF CopyInv
<1>4. \A k \in some, n \in ColumnsOf(tgt) \ ColumnsOf(src) :
            new[k][n] = rows["target"][k][n]
  BY <1>1, UpdatedRows DEF CopyInv
<1>5. /\ DOMAIN rows' = Sides
      /\ rows' = [side \in Sides |-> rows'[side]]
      /\ rows'["source"] = rows["source"]
      /\ rows'["target"] = [k \in Keys |-> rows'["target"][k]]
      /\ \A k \in Keys :
            rows'["target"][k] = IF k \in some THEN new[k] ELSE rows["target"][k]
  BY DEF CopyInv, CopyTypeOK, Sides
<1> HIDE DEF new
<1>6. Writes(some, new)
  BY <1>1, <1>2, <1>3, <1>5 DEF Writes
<1>7. Wrote(some, new)
  BY <1>6, RowsAreWritten DEF CopyInv
<1>8. \A k \in Stored("target"), n \in ColumnsOf(tgt) \ ColumnsOf(src) :
            rows'["target"][k][n] = rows["target"][k][n]
  BY <1>4, <1>7 DEF Wrote
<1> QED
  BY <1>1, <1>7, <1>8 DEF new

LEMMA InsertStep ==
    ASSUME CopyInv, Insert
    PROVE  CopyInv'
<1>1. /\ UNCHANGED <<schema, call, delta, outcome, writes>>
      /\ pc = "insert" /\ pc' = "update"
      /\ Wrote(InsertRows, [k \in InsertRows |-> Written(k, Defaults, PkColumn)])
  BY InsertedSome DEF Insert
<1>2. CopyTypeOK' /\ SourceInv'
  BY <1>1 DEF CopyInv, CopyTypeOK, TypeOK, Wrote, RowsTyped
<1>3. KeyIsFirst => InsertRows = delta.insert
  BY <1>1, RowsOfThePlan DEF InsertRows, CopyInv, DeltaInv
<1>4. DeltaInv'
  BY <1>1, <1>3, TablesStay DEF CopyInv, DeltaInv, Wrote
<1>5. CopiedInv'
  BY <1>1 DEF CopiedInv
<1>6. FailureInv'
  BY <1>1, TablesStay DEF CopyInv, FailureInv, Harmless
<1> QED
  BY <1>2, <1>4, <1>5, <1>6 DEF CopyInv

LEMMA UpdateStep ==
    ASSUME CopyInv, Update
    PROVE  CopyInv'
<1>1. /\ UNCHANGED <<schema, call, delta, outcome, writes>>
      /\ pc = "update" /\ pc' = "count"
      /\ Wrote(UpdateRows, [k \in UpdateRows |-> Written(k, rows["target"][k], PlanKey)])
  BY UpdatedSome DEF Update
<1>2. CopyTypeOK' /\ SourceInv'
  BY <1>1 DEF CopyInv, CopyTypeOK, TypeOK, Wrote, RowsTyped
<1>3. KeyIsFirst => UpdateRows = delta.update
  BY <1>1, RowsOfThePlan DEF UpdateRows, CopyInv, DeltaInv
<1>4. CopiedInv'
  BY <1>1, <1>3, TablesStay DEF CopyInv, DeltaInv, CopiedInv, Wrote
<1>5. DeltaInv' /\ FailureInv'
  BY <1>1 DEF DeltaInv, FailureInv
<1> QED
  BY <1>2, <1>4, <1>5 DEF CopyInv

\* A statement that fails has written some of the rows.
LEMMA InsertFailsStep ==
    ASSUME CopyInv, InsertFails
    PROVE  CopyInv'
<1>1. /\ UNCHANGED <<schema, call, delta, writes>>
      /\ pc = "insert" /\ pc' = "done" /\ outcome' = "insert" /\ ~InsertStands
  BY DEF InsertFails, Ends
<1>2. PICK done \in SUBSET InsertRows :
        rows' = [rows EXCEPT !["target"] =
            [k \in Keys |-> IF k \in done THEN Written(k, Defaults, PkColumn) ELSE @[k]]]
  BY DEF InsertFails
<1>3. Wrote(done, [k \in done |-> Written(k, Defaults, PkColumn)])
  BY <1>1, <1>2, InsertedSome
<1>4. CopyTypeOK' /\ SourceInv'
  BY <1>1, <1>3 DEF CopyInv, CopyTypeOK, TypeOK, Wrote, RowsTyped
<1>5. DeltaInv' /\ CopiedInv'
  BY <1>1 DEF DeltaInv, CopiedInv
<1>6. ~Harmless
  <2>1. InsertRows \subseteq Stored("source")
    BY DEF InsertRows, Matching
  <2> QED
    BY <1>1, <2>1, HarmlessStatements DEF CopyInv, InsertStands
<1>7. FailureInv'
  BY <1>1, <1>6, TablesStay DEF FailureInv, Harmless
<1> QED
  BY <1>4, <1>5, <1>7 DEF CopyInv

LEMMA UpdateFailsStep ==
    ASSUME CopyInv, UpdateFails
    PROVE  CopyInv'
<1>1. /\ UNCHANGED <<schema, call, delta, writes>>
      /\ pc = "update" /\ pc' = "done" /\ outcome' = "update"
      /\ delta.update # {} /\ ~UpdateStands
  BY DEF UpdateFails, Ends
<1>2. PICK done \in SUBSET UpdateRows :
        rows' = [rows EXCEPT !["target"] =
            [k \in Keys |-> IF k \in done THEN Written(k, @[k], PlanKey) ELSE @[k]]]
  BY DEF UpdateFails
<1>3. Wrote(done, [k \in done |-> Written(k, rows["target"][k], PlanKey)])
  BY <1>1, <1>2, UpdatedSome
<1>4. CopyTypeOK' /\ SourceInv'
  BY <1>1, <1>3 DEF CopyInv, CopyTypeOK, TypeOK, Wrote, RowsTyped
<1>5. DeltaInv' /\ CopiedInv'
  BY <1>1 DEF DeltaInv, CopiedInv
<1>6. ~Harmless
  <2>1. UpdateRows \subseteq Stored("source")
    BY DEF UpdateRows, Matching
  <2> QED
    BY <1>1, <2>1, HarmlessStatements DEF CopyInv, FailureInv, UpdateStands
<1>7. FailureInv'
  BY <1>1, <1>6, TablesStay DEF FailureInv, Harmless
<1> QED
  BY <1>4, <1>5, <1>7 DEF CopyInv

LEMMA CountStep ==
    ASSUME CopyInv, Count
    PROVE  CopyInv'
<1>1. /\ UNCHANGED <<schema, call, rows, delta, writes>>
      /\ pc = "count" /\ pc' = "done" /\ outcome' \in {"count", "success"}
  BY DEF Count, Ends
<1>2. CopyTypeOK'
  BY <1>1 DEF CopyInv, CopyTypeOK, TypeOK
<1>3. SourceInv'
  BY <1>1, RowsStay DEF CopyInv
<1>4. DeltaInv' /\ FailureInv'
  BY <1>1 DEF DeltaInv, FailureInv
<1>5. CopiedInv'
  BY <1>1, RowsStay, TablesStay DEF CopyInv, CopiedInv
<1> QED
  BY <1>2, <1>3, <1>4, <1>5 DEF CopyInv

LEMMA RunAgainStep ==
    ASSUME CopyInv, RunAgain
    PROVE  CopyInv'
<1>1. /\ UNCHANGED <<schema, call, rows, delta, outcome, writes>>
      /\ pc' = "compare"
  BY DEF RunAgain
<1>2. CopyTypeOK'
  BY <1>1 DEF CopyInv, CopyTypeOK, TypeOK
<1>3. SourceInv'
  BY <1>1, RowsStay DEF CopyInv
<1> QED
  BY <1>1, <1>2, <1>3 DEF CopyInv, DeltaInv, CopiedInv, FailureInv

LEMMA AppWritesStep ==
    ASSUME CopyInv, NEW k \in Keys, NEW n \in ColumnsOf(src) \ {KeyColumn},
           NEW v \in Values, AppWrites(k, n, v)
    PROVE  CopyInv'
<1> DEFINE w == Kept(v, src.columns[n])
           row == [rows["source"][k] EXCEPT ![n] = w]
<1>1. /\ UNCHANGED <<schema, call, pc, delta>>
      /\ pc = "done" /\ outcome' = "none" /\ writes' \in 0..MaxWrites
      /\ k \in Stored("source") /\ Fits(v, src.columns[n])
  BY WritesAssumption DEF AppWrites, CopyInv, CopyTypeOK, TypeOK
<1>2. /\ rows'["target"] = rows["target"]
      /\ rows'["source"] = [rows["source"] EXCEPT ![k] = row]
      /\ rows' = [side \in Sides |-> rows'[side]]
  BY DEF AppWrites, CopyInv, CopyTypeOK, Sides
<1>3. rows["source"][k] \in [ColumnsOf(src) \ {KeyColumn} -> Values]
  BY <1>1 DEF CopyInv, CopyTypeOK, TypeOK, Stored, Sides, src
<1>4. w \in Values /\ Fits(w, src.columns[n]) /\ Kept(w, src.columns[n]) = w
  BY <1>1, KeptValues
<1> HIDE DEF w
<1>5. row \in [ColumnsOf(src) \ {KeyColumn} -> Values]
  BY <1>3, <1>4
<1>6. /\ row[n] = w
      /\ \A m \in ColumnsOf(src) \ {KeyColumn} : m # n => row[m] = rows["source"][k][m]
  BY <1>3
<1> HIDE DEF row
<1>7. ColumnsOf(src) \in SUBSET Names
  BY ColumnsAreTyped DEF CopyInv, src, Sides
<1>8. row \in Row /\ row # Absent
  <2>1. Absent \notin [ColumnsOf(src) \ {KeyColumn} -> Values]
    BY <1>7, AbsentAssumption, Zenon
  <2> QED
    BY <1>5, <1>7, <2>1 DEF Row
<1>9. rows'["source"] \in [Keys -> Row \cup {Absent}]
  BY <1>2, <1>8 DEF CopyInv, CopyTypeOK, Sides
<1>10. rows' \in [Sides -> [Keys -> Row \cup {Absent}]]
  BY <1>2, <1>9 DEF CopyInv, CopyTypeOK, Sides
<1>11. rows'["source"][k] = row
       /\ \A j \in Keys \ {k} : rows'["source"][j] = rows["source"][j]
  BY <1>2 DEF CopyInv, CopyTypeOK, Sides
<1>12. ASSUME NEW side \in Sides, NEW j \in Keys, rows'[side][j] # Absent
       PROVE  rows'[side][j] \in [ColumnsOf(schema[side]) \ {KeyColumn} -> Values]
  <2>1. CASE side = "source" /\ j = k
    BY <1>5, <1>11, <2>1 DEF src
  <2>2. CASE side = "source" /\ j # k
    BY <1>11, <1>12, <2>2 DEF CopyInv, CopyTypeOK, TypeOK
  <2>3. CASE side = "target"
    BY <1>2, <1>12, <2>3 DEF CopyInv, CopyTypeOK, TypeOK
  <2> QED
    BY <2>1, <2>2, <2>3 DEF Sides
<1>13. CopyTypeOK'
  BY <1>1, <1>10, <1>12 DEF CopyInv, CopyTypeOK, TypeOK
<1>14. SourceInv'
  <2>1. src' = src /\ Stored("source")' = Stored("source")
    BY <1>1, <1>8, <1>11, TablesStay DEF Stored
  <2>2. \A m \in ColumnsOf(src) \ {KeyColumn} :
            Fits(row[m], src.columns[m]) /\ Kept(row[m], src.columns[m]) = row[m]
    BY <1>1, <1>4, <1>6 DEF CopyInv, SourceInv
  <2> QED
    BY <1>11, <2>1, <2>2 DEF CopyInv, SourceInv, Stored
<1>15. DeltaInv' /\ CopiedInv' /\ FailureInv'
  BY <1>1 DEF DeltaInv, CopiedInv, FailureInv
<1> QED
  BY <1>13, <1>14, <1>15 DEF CopyInv

LEMMA CopyInvStutter ==
    ASSUME CopyInv, UNCHANGED vars
    PROVE  CopyInv'
<1>1. UNCHANGED <<schema, call, rows, pc, delta, outcome, writes>>
  BY DEF vars
<1>2. CopyTypeOK'
  BY <1>1 DEF CopyInv, CopyTypeOK, TypeOK
<1>3. SourceInv'
  BY <1>1, RowsStay DEF CopyInv
<1>4. DeltaInv' /\ CopiedInv'
  BY <1>1, RowsStay, TablesStay DEF CopyInv, DeltaInv, CopiedInv
<1>5. FailureInv'
  BY <1>1, TablesStay DEF CopyInv, FailureInv, Harmless
<1> QED
  BY <1>2, <1>3, <1>4, <1>5 DEF CopyInv

THEOREM CopyInvariant == Spec => []CopyInv
<1>1. Init => CopyInv
  BY CopyInvInit
<1>2. CopyInv /\ [Next]_vars => CopyInv'
  <2> SUFFICES ASSUME CopyInv, [Next]_vars
               PROVE  CopyInv'
    OBVIOUS
  <2>1. CASE Compare
    BY <2>1, CompareStep
  <2>2. CASE CompareFails
    BY <2>2, CompareFailsStep
  <2>3. CASE Insert
    BY <2>3, InsertStep
  <2>4. CASE InsertFails
    BY <2>4, InsertFailsStep
  <2>5. CASE Update
    BY <2>5, UpdateStep
  <2>6. CASE UpdateFails
    BY <2>6, UpdateFailsStep
  <2>7. CASE Count
    BY <2>7, CountStep
  <2>8. CASE RunAgain
    BY <2>8, RunAgainStep
  <2>9. ASSUME NEW k \in Keys, NEW n \in ColumnsOf(src) \ {KeyColumn},
               NEW v \in Values \ {"padded"}, AppWrites(k, n, v)
        PROVE  CopyInv'
    BY <2>9, AppWritesStep
  <2>10. CASE UNCHANGED vars
    BY <2>10, CopyInvStutter
  <2> QED
    BY <2>1, <2>2, <2>3, <2>4, <2>5, <2>6, <2>7, <2>8, <2>9, <2>10 DEF Next
<1> QED
  BY <1>1, <1>2, PTL DEF Spec

-------------------------------------------------------------------------------
(* The theorems.                                                            *)

\* The rows, the delta and the outcome keep their types in every run: a row
\* that Insert or Update writes has the target's columns.
THEOREM ColumnsKeepTheirTypes == Spec => []TypeOK
<1>1. CopyInv => TypeOK
  BY DEF CopyInv, CopyTypeOK
<1> QED
  BY <1>1, CopyInvariant, PTL

\* For tables with any columns on any two databases, a run that ends well has
\* brought every row and every column both sides have, but for what the
\* comparison cannot tell apart.
THEOREM RunsCopyColumns == Spec => []ColumnsAreCopied
<1>1. CopyInv => ColumnsAreCopied
  BY DEF CopyInv, CopiedInv, ColumnsAreCopied, Agrees, Shared
<1> QED
  BY <1>1, CopyInvariant, PTL

\* A run fails for its columns only if a check of pre_validate has announced it
\* or none of its checks looks at the cause.
THEOREM FailuresAreForeseen == Spec => []FailuresAreAnnounced
<1>1. CopyInv => FailuresAreAnnounced
  BY DEF CopyInv, FailureInv, Harmless, FailuresAreAnnounced
<1> QED
  BY <1>1, CopyInvariant, PTL

\* The run after one that ended well finds nothing to do, for tables whose
\* columns have the same names on both sides.
THEOREM RunsComeToRest == Spec => []RunsSettle
<1>1. CopyInv => RunsSettle
  <2> SUFFICES ASSUME CopyInv, pc = "done", outcome = "success", KeyIsFirst, SpelledAlike,
                      ColumnsOf(src) \subseteq ColumnsOf(tgt),
                      \A n \in Common(src, tgt) :
                        tgt.columns[n].data_type = "character" => ~TypesDiffer(src, tgt, n)
               PROVE  ~CompareRaises /\ Delta.insert = {} /\ Delta.update = {}
    BY DEF RunsSettle
  <2>1. \A k \in Stored("source") : Agrees(k)
    BY DEF CopyInv, CopiedInv
  <2>2. ~CompareRaises /\ \A n \in ColumnsOf(src) : ~Renamed(n)
    BY AlikeTablesAreCompared DEF CopyInv
  <2>3. Delta.insert = {}
    BY <2>1 DEF Delta, Agrees
  <2>4. ASSUME NEW k \in Stored("source") \cap Stored("target"), NEW n \in ColumnsOf(src)
        PROVE  Seen(ValueAt("source", k, n)) = Seen(ValueAt("target", k, n))
    <3>1. CASE n = KeyColumn
      BY <3>1 DEF ValueAt
    <3>2. CASE n # KeyColumn
      <4>1. n \in Common(src, tgt) /\ n \in Shared
        BY <3>2 DEF Common, Shared
      <4>2. Kept(rows["source"][k][n], tgt.columns[n]) = rows["source"][k][n]
        <5>1. Kept(rows["source"][k][n], src.columns[n]) = rows["source"][k][n]
          BY <3>2 DEF CopyInv, SourceInv
        <5>2. CASE tgt.columns[n].data_type = "character"
          <6>1. src.columns[n].data_type = "character"
            BY <4>1, <5>2 DEF TypesDiffer
          <6> QED
            BY <5>1, <5>2, <6>1 DEF Kept
        <5>3. CASE tgt.columns[n].data_type # "character"
          BY <5>3, KeptValues
        <5> QED
          BY <5>2, <5>3
      <4>3. TakenFor(rows["source"][k][n], n, rows["target"][k][n])
        BY <2>1, <4>1 DEF Agrees
      <4>4. Seen(rows["source"][k][n]) = Seen(rows["target"][k][n])
        BY <2>2, <4>2, <4>3 DEF TakenFor
      <4> QED
        BY <3>2, <4>4 DEF ValueAt
    <3> QED
      BY <3>1, <3>2
  <2>5. ASSUME NEW k \in Stored("source") \cap Stored("target"), NEW n \in ColumnsOf(src)
        PROVE  Seen(Get(ResultRow("source", k, Compared), Spelled(src, n)))
                = Seen(Get(ResultRow("target", k, Compared), Spelled(src, n)))
    <3>1. /\ Get(ResultRow("source", k, Compared), Spelled(src, n)) = ValueAt("source", k, n)
          /\ Get(ResultRow("target", k, Compared), Spelled(src, n)) = ValueAt("target", k, n)
      BY <2>2, ResultsHoldNames DEF CopyInv
    <3> QED
      BY <2>4, <3>1
  <2>6. Delta.update = {}
    BY <2>5 DEF Delta, RowsDiffer, Compared
  <2> QED
    BY <2>2, <2>3, <2>6
<1> QED
  BY <1>1, CopyInvariant, PTL

\* No step takes a row from the target or changes a column that only the target
\* has, for tables with any columns.
THEOREM OwnColumnsAreKept == Spec => TargetOnlyColumnsAreKept
<1> DEFINE Kept1 ==
        \A k \in Stored("target") :
            /\ rows'["target"][k] # Absent
            /\ \A n \in ColumnsOf(tgt) \ ColumnsOf(src) :
                    rows'["target"][k][n] = rows["target"][k][n]
<1>1. CopyInv /\ [Next]_vars => [Kept1]_vars
  <2> SUFFICES ASSUME CopyInv, Next
               PROVE  Kept1
    OBVIOUS
  <2>1. ASSUME rows'["target"] = rows["target"]
        PROVE  Kept1
    BY <2>1 DEF Stored
  <2>2. CASE Insert
    <3>1. /\ InsertRows \cap Stored("target") = {}
          /\ Wrote(InsertRows, [k \in InsertRows |-> Written(k, Defaults, PkColumn)])
      BY <2>2, InsertedSome DEF Insert
    <3> QED
      BY <3>1 DEF Wrote, Stored
  <2>3. CASE InsertFails
    <3>1. PICK done \in SUBSET InsertRows :
            rows' = [rows EXCEPT !["target"] =
                [k \in Keys |-> IF k \in done THEN Written(k, Defaults, PkColumn) ELSE @[k]]]
      BY <2>3 DEF InsertFails
    <3>2. /\ done \cap Stored("target") = {}
          /\ Wrote(done, [k \in done |-> Written(k, Defaults, PkColumn)])
      BY <2>3, <3>1, InsertedSome DEF InsertFails
    <3> QED
      BY <3>2 DEF Wrote, Stored
  <2>4. CASE Update
    <3>1. /\ Wrote(UpdateRows, [k \in UpdateRows |-> Written(k, rows["target"][k], PlanKey)])
          /\ UpdateRows \subseteq Stored("target")
          /\ \A k \in Stored("target"), n \in ColumnsOf(tgt) \ ColumnsOf(src) :
                rows'["target"][k][n] = rows["target"][k][n]
      BY <2>4, UpdatedSome DEF Update
    <3> QED
      BY <3>1 DEF Wrote, Stored
  <2>5. CASE UpdateFails
    <3>1. PICK done \in SUBSET UpdateRows :
            rows' = [rows EXCEPT !["target"] =
                [k \in Keys |-> IF k \in done THEN Written(k, @[k], PlanKey) ELSE @[k]]]
      BY <2>5 DEF UpdateFails
    <3>2. /\ Wrote(done, [k \in done |-> Written(k, rows["target"][k], PlanKey)])
          /\ done \subseteq Stored("target")
          /\ \A k \in Stored("target"), n \in ColumnsOf(tgt) \ ColumnsOf(src) :
                rows'["target"][k][n] = rows["target"][k][n]
      BY <2>5, <3>1, UpdatedSome DEF UpdateFails
    <3> QED
      BY <3>2 DEF Wrote, Stored
  <2>6. CASE Compare \/ CompareFails \/ Count \/ RunAgain
    BY <2>1, <2>6 DEF Compare, CompareFails, Count, RunAgain
  <2>7. ASSUME NEW k \in Keys, NEW n \in ColumnsOf(src) \ {KeyColumn},
               NEW v \in Values \ {"padded"}, AppWrites(k, n, v)
        PROVE  Kept1
    <3>1. rows'["target"] = rows["target"]
      BY <2>7 DEF AppWrites, CopyInv, CopyTypeOK, Sides
    <3> QED
      BY <2>1, <3>1
  <2> QED
    BY <2>2, <2>3, <2>4, <2>5, <2>6, <2>7 DEF Next
<1> QED
  BY <1>1, CopyInvariant, PTL DEF Spec, TargetOnlyColumnsAreKept

===============================================================================
