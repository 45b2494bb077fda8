----------------------------- MODULE MCColumnCopy -----------------------------
(***************************************************************************)
(* A table with its key "id" and a column on each side of it in the        *)
(* alphabet.  The two columns differ between the sides in one way at a     *)
(* time, and the adapters in every way that the catalogues allow.          *)
(***************************************************************************)
EXTENDS ColumnCopy

MCAlphabet == <<"a", "id", "z">>
CONSTANT NoRow

column == [spelling |-> "lower", data_type |-> "varchar", max_length |-> 5]
key == [spelling |-> "lower", data_type |-> "integer", max_length |-> 5]
plain == [columns |-> [n \in Names |-> IF n = "id" THEN key ELSE column],
          identity |-> "none"]
without(n) == [plain EXCEPT !.columns = [m \in Names \ {n} |-> plain.columns[m]]]
as(n, c) == [plain EXCEPT !.columns[n] = c]

Mixed == [column EXCEPT !.spelling = "mixed"]
MixedKey == [key EXCEPT !.spelling = "mixed"]
Short == [column EXCEPT !.max_length = 1]
Padded == [column EXCEPT !.data_type = "character"]
ShortPadded == [Padded EXCEPT !.max_length = 1]

\* Pairs of a source and a target.
Tables ==
    {<<plain, t>> : t \in {plain, without("z"), without("a"), as("z", Mixed),
                           as("id", MixedKey), as("z", Short), as("z", Padded),
                           [plain EXCEPT !.identity = "always"],
                           [plain EXCEPT !.identity = "by_default"]}}
    \cup {<<s, plain>> : s \in {without("z"), without("a"), as("z", Mixed),
                                as("z", Padded)}}
    \cup {<<as("z", Mixed), as("z", Mixed)>>, <<as("z", Padded), as("z", Padded)>>,
          <<as("z", Padded), as("z", ShortPadded)>>,
          \* the key comes first where the source has no "a"
          <<without("a"), without("a")>>}

Lowered(t) == \A n \in DOMAIN t.columns : t.columns[n].spelling = "lower"

MCSchemas ==
    {s \in [adapters : [Sides -> {"postgresql", "db2"}],
            source : {p[1] : p \in Tables}, target : {p[2] : p \in Tables},
            multibyte : BOOLEAN] :
        /\ <<s.source, s.target>> \in Tables
        /\ \A side \in Sides : s.adapters[side] = "db2" => Lowered(s[side])}

MCCalls ==
    {[way |-> "pipeline", strategy |-> st, identity |-> "none"] :
        st \in {"primary_key", "checksum"}}
    \cup {[way |-> "executor", strategy |-> "primary_key", identity |-> i] :
        i \in {"none", "always"}}

\* A row to insert and a row to update, a target row of its own, an empty source.
MCInputs ==
    {[source |-> <<"long", v>>, target |-> <<NoRow, w>>] :
        v \in {"null", "empty", "short"}, w \in {NoRow, "null", "short"}}
    \cup {[source |-> <<v, NoRow>>, target |-> <<"null", "short">>] :
        v \in {"null", "empty", "long", NoRow}}

===============================================================================
