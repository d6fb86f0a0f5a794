---------------------------- MODULE MCLifecycle ----------------------------
(* Lifecycle with a symmetry for the runs that check invariants only:      *)
(* nothing in it tells two items, or two threads, apart.                   *)
EXTENDS Lifecycle, TLC

ItemsAndThreads == Permutations(Items) \cup Permutations(Threads)
=============================================================================
