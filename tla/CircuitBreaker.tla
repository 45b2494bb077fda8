---------------------------- MODULE CircuitBreaker ----------------------------
(***************************************************************************)
(* The circuit breaker of a BatchExecutor: consecutive failures per table, *)
(* and the failure rate over all batches.                                  *)
(***************************************************************************)
EXTENDS Models, Naturals

CONSTANTS
    MaxConsecutive,     \* max_consecutive_failures
    RateNum, RateDen    \* max_overall_failure_rate, as a fraction

ASSUME MaxConsecutiveAssumption == MaxConsecutive \in Nat \ {0}
ASSUME RateAssumption == RateNum \in Nat /\ RateDen \in Nat \ {0}

VARIABLES
    consecutive,        \* _consecutive_failures, 0 for a table it lacks
    totalBatches,       \* _total_batches
    failedBatches       \* _failed_batches

breakerVars == <<consecutive, totalBatches, failedBatches>>

BreakerTypeOK ==
    /\ consecutive \in [Tables -> Nat]
    /\ totalBatches \in Nat
    /\ failedBatches \in Nat

FreshBreaker ==
    /\ consecutive = [t \in Tables |-> 0]
    /\ totalBatches = 0
    /\ failedBatches = 0

\* A new process builds a new breaker.
ResetBreaker ==
    /\ consecutive' = [t \in Tables |-> 0]
    /\ totalBatches' = 0
    /\ failedBatches' = 0

\* Mutant of RecordSuccess: the streak is shortened, not ended.
ShortenStreak(t) ==
    /\ consecutive' = [consecutive EXCEPT ![t] = @ - 1]
    /\ totalBatches' = totalBatches + 1
    /\ UNCHANGED failedBatches

RecordSuccess(t) ==
    /\ consecutive' = [consecutive EXCEPT ![t] = 0]
    /\ totalBatches' = totalBatches + 1
    /\ UNCHANGED failedBatches

\* The counters change whether or not record_failure raises.
RecordFailure(t) ==
    /\ consecutive' = [consecutive EXCEPT ![t] = @ + 1]
    /\ totalBatches' = totalBatches + 1
    /\ failedBatches' = failedBatches + 1

\* The rate is looked at only from the fifth batch on.
MinBatchesForRate == 5

\* record_failure(t), called now, raises CircuitBreakerError.
RecordFailureRaises(t) ==
    \/ consecutive[t] + 1 >= MaxConsecutive
    \/ /\ totalBatches + 1 >= MinBatchesForRate
       /\ (failedBatches + 1) * RateDen >= RateNum * (totalBatches + 1)

\* is_tripped looks at the table's own failures only, not at the rate.
IsTripped(t) == consecutive[t] >= MaxConsecutive

===============================================================================
