-------------------------- MODULE ValidatedMigration --------------------------
(***************************************************************************)
(* The executor, and what the validator says of the target when execute is *)
(* over.  The validator only reads, through the executor's connections, so *)
(* it adds no steps.                                                       *)
(***************************************************************************)
EXTENDS BatchExecutor, Validation

\* execute has returned or raised, and its connections still work.
Over == pc \in {"done", "raised"}

\* Tables with a plan that is not NO_ACTION: those with batches.
Validated == {TableOf(b) : b \in Ids}

Missing(t) == KeysOf(source, t) \ KeysOf(session, t)
Extra(t) == KeysOf(session, t) \ KeysOf(source, t)

-------------------------------------------------------------------------------
(* Properties.                                                              *)

\* What a post-validation without errors is worth, however execute came to its
\* end, failed batches and processes that died included: a key of the source
\* that is missing from the target lies behind the sample, and a row that
\* only the target has makes up for it in the row counts, in rollback mode
\* one row for each key.  In particular nothing is missing from a table of at
\* most SampleSize rows.
PassMeansKeysCopied ==
    Over /\ PostErrors(Validated, source, session) = {} =>
        \A t \in Validated :
            /\ Missing(t) \cap Sample(source, t) = {}
            /\ Missing(t) # {} => Extra(t) # {}
            /\ Mode = "rollback" => Cardinality(Extra(t)) = Cardinality(Missing(t))

\* The validator raises no false alarm: if execute has returned, reports no
\* batch as failed and has stopped no table, post_validate finds neither
\* errors nor warnings, whatever processes died on the way, and batch_validate
\* finds none in a batch the checkpoint calls completed.
NoFalseAlarm ==
    pc = "done" /\ (\A b \in Ids : status[b] # "failed" /\ ~IsTripped(TableOf(b))) =>
        /\ PostErrors(Validated, source, session) = {}
        /\ PostWarnings(Validated \cap AlwaysTables, source, session) = {}
        /\ \A b \in Completed \cap Ids : ~BatchFails(manifest[b], session)

===============================================================================
