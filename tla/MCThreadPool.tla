---------------------------- MODULE MCThreadPool ----------------------------
(* Small instances of ThreadPool for TLC. *)
EXTENDS ThreadPool, TLC

\* Workers, queues and items are interchangeable.
Symmetry ==
  Permutations(Workers) \cup Permutations(Queues) \cup Permutations(Items)

=============================================================================
