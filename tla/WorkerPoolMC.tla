---------------------------- MODULE WorkerPoolMC ----------------------------
(* Instances of WorkerPool for model checking. *)
EXTENDS WorkerPool, TLC

CONSTANTS s1, s2, w1, w2

Workers2 == {w1, w2}
Submitters2 == {s1, s2}
WorkerSymmetry == Permutations(Workers2) \cup Permutations(Submitters2)
=============================================================================
