---------------------------- MODULE MCWorkerPool ----------------------------
(* Small instances of WorkerPool for TLC: the symmetry of its two sets of  *)
(* interchangeable names (sound for the runs without liveness).            *)
EXTENDS WorkerPool, TLC

Symmetry == Permutations(Submitters) \cup Permutations(Workers)
=============================================================================
