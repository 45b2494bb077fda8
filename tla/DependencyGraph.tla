--------------------------- MODULE DependencyGraph ---------------------------
(***************************************************************************)
(* DependencyGraph.build: the foreign keys of a schema become edges        *)
(* between lower-cased table names, and Kahn's algorithm assigns each      *)
(* table a level, one layer after the other.  Tables that never become     *)
(* free, because they are on a cycle or behind one, share a last level.    *)
(*                                                                         *)
(* pc is the place in the code: "build" collects edges, "layers" is the    *)
(* loop over the queue, "done" is where build has returned.                *)
(***************************************************************************)
EXTENDS Integers, FiniteSets, Sequences, SequencesExt

CONSTANTS
    Names,          \* the keys of DatabaseMetadata.tables, lower case by
                    \* get_database_metadata
    References,     \* names a foreign key may refer to, known tables or not
    Lower,          \* str.lower on those names
    Catalogues      \* the foreign keys to start from: pairs <<table, referenced>>

Keys == {Lower[n] : n \in Names}

ASSUME NamesAssumption == IsFiniteSet(References) /\ Names \subseteq References
ASSUME LowerAssumption ==
    \A n \in References : Lower[n] \in References /\ Lower[Lower[n]] = Lower[n]
ASSUME CataloguesAssumption == Catalogues \subseteq SUBSET (Names \X References)

VARIABLES
    fks,            \* the foreign keys of the schema; build only reads them
    pc,
    edges,          \* edges[t]: the tables t depends on
    inDegree,       \* how many of them have no level yet
    queue,          \* the tables of the next layer
    level,          \* the number of that layer
    levels,         \* levels[t], or NoLevel while t has none
    ordered         \* ordered_levels: the layers so far, as sets

vars == <<fks, pc, edges, inDegree, queue, level, levels, ordered>>

NoLevel == -1

Leveled == {t \in Keys : levels[t] # NoLevel}

\* Every variable has its type; the queue holds only tables without a level.
TypeOK ==
    /\ fks \in Catalogues
    /\ pc \in {"build", "layers", "done"}
    /\ edges \in [Keys -> SUBSET Keys]
    /\ inDegree \in [Keys -> Int]
    /\ queue \subseteq Keys \ Leveled
    /\ level \in Nat
    /\ levels \in [Keys -> Nat \cup {NoLevel}]
    /\ ordered \in Seq(SUBSET Keys)

-------------------------------------------------------------------------------
Init ==
    /\ fks \in Catalogues
    /\ pc = "build"
    /\ edges = [t \in Keys |-> {}]
    /\ inDegree = [t \in Keys |-> 0]
    /\ queue = {}
    /\ level = 0
    /\ levels = [t \in Keys |-> NoLevel]
    /\ ordered = <<>>

\* The lower-cased names the foreign keys of table t refer to.
Referenced(t) == {Lower[fk[2]] : fk \in {f \in fks : Lower[f[1]] = t}}

\* Mutant of Dependencies: self-references kept.
SelfIncluded(t) == Referenced(t) \cap Names

\* References to t itself and to unknown tables are skipped.  The name looked
\* up among the discovered tables is the lower-cased one.
Dependencies(t) == (Referenced(t) \ {t}) \cap Names

Build ==
    /\ pc = "build"
    /\ edges' = [t \in Keys |-> Dependencies(t)]
    /\ inDegree' = [t \in Keys |-> Cardinality(Dependencies(t))]
    /\ queue' = {t \in Keys : Dependencies(t) = {}}
    /\ pc' = "layers"
    /\ UNCHANGED <<fks, level, levels, ordered>>

\* Mutant of Released: a child is released by each of its parents.
ReleasedByAny == {t \in Keys : edges[t] \cap queue # {}}

\* The tables whose last open dependency is in this layer.
Released ==
    {t \in Keys : edges[t] \cap queue # {}
                    /\ inDegree[t] = Cardinality(edges[t] \cap queue)}

\* Mutant of TakeLayer: the level is not counted up.
StayOnLevel ==
    /\ pc = "layers"
    /\ queue # {}
    /\ levels' = [t \in Keys |-> IF t \in queue THEN level ELSE levels[t]]
    /\ ordered' = Append(ordered, queue)
    /\ inDegree' = [t \in Keys |-> inDegree[t] - Cardinality(edges[t] \cap queue)]
    /\ queue' = Released
    /\ UNCHANGED <<fks, pc, edges, level>>

TakeLayer ==
    /\ pc = "layers"
    /\ queue # {}
    /\ levels' = [t \in Keys |-> IF t \in queue THEN level ELSE levels[t]]
    /\ ordered' = Append(ordered, queue)
    /\ inDegree' = [t \in Keys |-> inDegree[t] - Cardinality(edges[t] \cap queue)]
    /\ queue' = Released
    /\ level' = level + 1
    /\ UNCHANGED <<fks, pc, edges>>

Remaining == {t \in Keys : inDegree[t] > 0}

\* Mutants of BreakCycle: the tables left over are waited for, or put first.
AwaitRemaining ==
    /\ pc = "layers"
    /\ queue = {}
    /\ Remaining # {}
    /\ UNCHANGED vars
RemainingFirst ==
    /\ pc = "layers"
    /\ queue = {}
    /\ Remaining # {}
    /\ levels' = [t \in Keys |-> IF t \in Remaining THEN 0 ELSE levels[t]]
    /\ ordered' = Append(ordered, Remaining)
    /\ pc' = "done"
    /\ UNCHANGED <<fks, edges, inDegree, queue, level>>

\* The queue has run dry with tables left over: they get one more level.
BreakCycle ==
    /\ pc = "layers"
    /\ queue = {}
    /\ Remaining # {}
    /\ levels' = [t \in Keys |-> IF t \in Remaining THEN level ELSE levels[t]]
    /\ ordered' = Append(ordered, Remaining)
    /\ pc' = "done"
    /\ UNCHANGED <<fks, edges, inDegree, queue, level>>

Finish ==
    /\ pc = "layers"
    /\ queue = {}
    /\ Remaining = {}
    /\ pc' = "done"
    /\ UNCHANGED <<fks, edges, inDegree, queue, level, levels, ordered>>

Next == Build \/ TakeLayer \/ BreakCycle \/ Finish

Spec == Init /\ [][Next]_vars

\* build runs in one thread and does not wait for anything.
FairSpec == Spec /\ WF_vars(Next)

InsertOrder == ordered

\* Mutant of DeleteOrder: the layers as they are.
Unreversed == ordered

DeleteOrder == Reverse(InsertOrder)

-------------------------------------------------------------------------------
(* Properties.                                                              *)

\* The other tables of the schema that t refers to, however they are spelled.
Parents(t) == (Referenced(t) \cap Keys) \ {t}

\* Table t is on a cycle of foreign keys or depends on one: it is in a set of
\* tables each of which has a parent in the set.
BehindCycle(t) ==
    \E S \in SUBSET Keys : t \in S /\ \A s \in S : Parents(s) \cap S # {}

\* A table is populated after every table it refers to, unless a cycle of
\* foreign keys makes that impossible.
ForeignKeysAreOrdered ==
    pc = "done" =>
        \A t \in Keys : \A p \in Parents(t) : levels[p] < levels[t] \/ BehindCycle(t)

\* No table waits longer than it has to: away from cycles its level is 0, or
\* one more than that of some parent.
LevelsAreTight ==
    pc = "done" =>
        \A t \in Keys :
            \/ BehindCycle(t)
            \/ levels[t] = 0
            \/ \E p \in Parents(t) : levels[t] = levels[p] + 1

\* The tables of a cycle come after everything that is not behind one, so a
\* cycle delays no table that could do without it.
CyclesComeLast ==
    pc = "done" =>
        \A t, c \in Keys :
            BehindCycle(c) /\ ~BehindCycle(t) => levels[t] < levels[c]

At(order, t) == CHOOSE i \in DOMAIN order : t \in order[i]

\* The two orders the graph hands out name every table once, the insert order
\* by ascending levels and the delete order by descending ones.
OrdersFollowLevels ==
    pc = "done" =>
        /\ \A t \in Keys : Cardinality({i \in DOMAIN InsertOrder : t \in InsertOrder[i]}) = 1
        /\ \A t \in Keys : At(InsertOrder, t) = levels[t] + 1
        /\ \A t, u \in Keys :
             levels[t] < levels[u] => At(DeleteOrder, u) < At(DeleteOrder, t)

\* build returns, whatever cycles the schema has.
BuildReturns == <>(pc = "done")

===============================================================================
