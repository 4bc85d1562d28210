---------------------------- MODULE MCBlueMutex -----------------------------
(* Small instances of BlueMutex for TLC. *)
EXTENDS BlueMutex, TLC

CONSTANTS m1, m2, m3, a, b, c

\* Every mutex has a name of its own, or the first two share one.
OwnNames == (m1 :> a) @@ (m2 :> b) @@ (m3 :> c)
TwoNames == (m1 :> a) @@ (m2 :> b)
SharedNames == (m1 :> a) @@ (m2 :> a) @@ (m3 :> b)

Symmetry == Permutations(Threads)

=============================================================================
