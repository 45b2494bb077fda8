--------------------------- MODULE MCDeltaDetection ---------------------------
(***************************************************************************)
(* Small instances of DeltaDetection.                                      *)
(***************************************************************************)
EXTENDS DeltaDetection

\* Keys 0..2 are those of a one-column key; key 12 stands for the columns
\* (1, 2) of a two-column key.
SingleKeys == 0..2
CompositeKeys == {11, 12, 21, 22}
MCKeys == SingleKeys \cup CompositeKeys
MCFirst == [k \in Keys |-> k \div 10]

DistinctDigest == [v \in Values |-> v]

FromPostgreSQL == [s \in Sides |-> IF s = "source" THEN "postgresql" ELSE "db2"]

\* Versions are compared for equality only, so it is no restriction that every
\* row of the source starts as "v1".
Initially == [s \in Sides |-> IF s = "source" THEN {"v1"} ELSE {"v1", "v2"}]

\* Applications that write to the source and delete from the target, that only
\* update the source, and none.
Busy == {"source"} \X {"insert", "update", "delete"}
              \cup {<<"target", "delete">>}
UpdateSource == {<<"source", "update">>}
DeleteSource == {<<"source", "delete">>}
Quiet == {}

MCCall(composite, strategy, kinds, bound) ==
    [composite |-> composite, strategy |-> strategy, initial |-> Initially,
     keys |-> IF composite THEN CompositeKeys ELSE SingleKeys,
     writes |-> kinds, maxWrites |-> bound]

\* AUTO for a busy table with a one-column key; the keys of a table with a
\* two-column key, which is only updated.
AutoCalls ==
    {MCCall(FALSE, "auto", Busy, 2), MCCall(TRUE, "primary_key", UpdateSource, 1)}

\* Checksums of a table with a two-column key that nobody writes.
ChecksumCalls == {MCCall(TRUE, "checksum", Quiet, 0)}

\* The keys of a table with a two-column key, of which rows are deleted.
OffsetCalls == {MCCall(TRUE, "primary_key", DeleteSource, 1)}

\* Checksums of a table some of whose keys are negative.
NegativeKeys == -2..0
NegativeCalls ==
    {[MCCall(FALSE, "checksum", Quiet, 0) EXCEPT !.keys = NegativeKeys]}

===============================================================================
