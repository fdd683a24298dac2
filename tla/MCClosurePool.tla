--------------------------- MODULE MCClosurePool ---------------------------
(* Small instances of ClosurePool for TLC: the symmetry of its two sets of *)
(* interchangeable names (sound for runs without liveness).                *)
EXTENDS ClosurePool, TLC

Symmetry == Permutations(Submitters) \cup Permutations(Workers)
=============================================================================
