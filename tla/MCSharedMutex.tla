--------------------------- MODULE MCSharedMutex ----------------------------
(* Two crews for TLC: two threads with a mutex and a shared mutex, and three *)
(* threads with the shared mutex alone, which lets writers go first.  The    *)
(* threads and locks outside the crew are never used.                        *)
EXTENDS SharedMutex, TLC

CONSTANTS m1, s1, a, b, t1, t2, t3

OwnNames == (m1 :> a) @@ (s1 :> b)

VARIABLE crew   \* constant: the threads and the locks that are used

Crews == {[threads |-> {t1, t2}, locks |-> {m1, s1}],
          [threads |-> {t1, t2, t3}, locks |-> {s1}]}

MCInit == SharedInit /\ crew \in Crews

MCNext ==
  /\ SharedNext
  /\ \A t \in Threads \ crew.threads : pc'[t] = "idle"
  /\ live' \subseteq crew.locks
  /\ UNCHANGED crew

MCFairSpec == MCInit /\ [][MCNext]_<<sharedVars, crew>> /\ Fairness

\* lock() returns with the lock, of a mutex or of a shared mutex that lets
\* writers go first, or the process is aborted.  The threads are
\* interchangeable, and the first is in both crews.
LockReturns == LockReturnsTo(t1)

=============================================================================
