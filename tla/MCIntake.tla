------------------------------ MODULE MCIntake ------------------------------
(* Policies and keys for TLC: two keys that share most of their tokens.    *)
EXTENDS Intake, TLC

CONSTANTS report, reply             \* two keys

Alike80 == [k \in {report, reply} \X {report, reply} |->
              IF k[1] = k[2] THEN 100 ELSE 80]

Lenient == [allowsSource |-> TRUE, autoCreate |-> TRUE, quota |-> 0,
            maxPriority |-> 2, threshold |-> 72]

(* Keys merge only with themselves; the higher priority is demoted.        *)
OneItem == [Lenient EXCEPT !.quota = 1, !.threshold = 90, !.maxPriority = 1]

NoItems == [OneItem EXCEPT !.autoCreate = FALSE]

(* What an administrator puts in place of the default, which is Lenient.   *)
ManyPolicies == {OneItem, NoItems}

SwapThreads == Permutations(Threads)
=============================================================================
