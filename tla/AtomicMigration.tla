--------------------------- MODULE AtomicMigration ---------------------------
(***************************************************************************)
(* What a checkpointed, batch-by-batch migration promises, whatever fails: *)
(* the durable contents change only by whole batches, each of which the    *)
(* database accepted as it stood, and the checkpoint records a batch as    *)
(* completed only after its rows are durable.  A record may be withdrawn   *)
(* (a batch that is executed again is first marked running); nothing is    *)
(* promised about which batches run, or how often.                         *)
(***************************************************************************)
EXTENDS RowEffects, Sequences

VARIABLES
    manifest,           \* the batches
    source,             \* the source's rows
    data,               \* the durable contents of the target
    applied,            \* batches whose rows have been made durable
    recorded            \* batches the checkpoint calls completed

absVars == <<manifest, source, data, applied, recorded>>

Init ==
    /\ manifest \in Seq(Batch)
    /\ source \in Contents
    /\ data \in Contents
    /\ applied = {}
    /\ recorded = {}

Apply(b) ==
    /\ ~Refused(manifest[b], source, data)
    /\ data' = Effect(manifest[b], source, data)
    /\ applied' = applied \cup {b}
    /\ UNCHANGED <<manifest, source, recorded>>

Record(b) ==
    /\ b \in applied
    /\ recorded' = recorded \cup {b}
    /\ UNCHANGED <<manifest, source, data, applied>>

Withdraw(b) ==
    /\ recorded' = recorded \ {b}
    /\ UNCHANGED <<manifest, source, data, applied>>

Next == \E b \in DOMAIN manifest : Apply(b) \/ Record(b) \/ Withdraw(b)

Spec == Init /\ [][Next]_absVars

===============================================================================
