--------------------------- MODULE MCLookupCache ---------------------------
(* Threads that share one cache; threads and keys are interchangeable.       *)
EXTENDS LookupCache, TLC

Symmetry == Permutations(Thread) \cup Permutations(Key)
=============================================================================
