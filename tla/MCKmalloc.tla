----------------------------- MODULE MCKmalloc -----------------------------
(* Kmalloc instantiated for TLC: two kernel threads as model values.       *)
EXTENDS Kmalloc, TLC

CONSTANTS t1, t2

KThreads == {t1, t2}

ThreadSymmetry == Permutations(KThreads)
=============================================================================
