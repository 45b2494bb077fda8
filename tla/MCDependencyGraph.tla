-------------------------- MODULE MCDependencyGraph --------------------------
(***************************************************************************)
(* Schemas of a few tables for TLC: every set of foreign keys among them.  *)
(***************************************************************************)
EXTENDS DependencyGraph

MCNames == {"a", "b", "c", "d"}

\* "x" is not a table of the schema.
MCReferences == MCNames \cup {"x"}

MCLower == [n \in MCReferences |-> n]

\* Every graph on the four tables, where d may also refer to itself and to an
\* unknown table.
MCCatalogues ==
    SUBSET ({fk \in MCNames \X MCNames : fk[1] # fk[2]}
              \cup {<<"d", "d">>, <<"d", "x">>})

===============================================================================
