----------------------------- MODULE MCCondVar ------------------------------
(* Small instances of CondVar for TLC. *)
EXTENDS CondVar, TLC

CONSTANTS m1, m2, m3, m4, a, b

\* Every mutex has a name of its own, or all but the third share one.
TwoNames == (m1 :> a) @@ (m2 :> b)
Shared == (m1 :> a) @@ (m2 :> a) @@ (m3 :> b) @@ (m4 :> a)

Symmetry == Permutations(Threads)

=============================================================================
