---------------------------- MODULE MCHeartbeat -----------------------------
(* A small instance of Heartbeat for TLC. *)
EXTENDS Heartbeat, TLC

\* A queue with both graces, and one without a suicide deadline.
Graces == {<<1, 2>>, <<1, 0>>}

Symmetry == Permutations(Workers) \cup Permutations(PthreadIds)

=============================================================================
