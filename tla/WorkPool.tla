------------------------------ MODULE WorkPool ------------------------------
(***************************************************************************)
(* What a ThreadPool promises its clients, without threads, locks and      *)
(* condition variables: each queue is a line of items, at most NumThreads  *)
(* items are being worked on, each item is done once, in the order of its  *)
(* line, or dropped before anybody took it, and while the pool is quiet    *)
(* (a pause() has returned) nothing is being worked on.                    *)
(***************************************************************************)
EXTENDS Naturals, Sequences, FiniteSets

CONSTANTS Queues, Items, NumThreads

VARIABLES
  line,      \* per queue: the items waiting, the next one first
  active,    \* the items being worked on
  done,      \* the items that are finished
  dropped,   \* the items cleared from their line
  quiet      \* whether the pool is paused

vars == <<line, active, done, dropped, quiet>>

Waiting(q) == {line[q][k] : k \in DOMAIN line[q]}

Known == UNION {Waiting(q) : q \in Queues} \cup active \cup done \cup dropped

Init ==
  /\ line = [q \in Queues |-> <<>>]
  /\ active = {}
  /\ done = {}
  /\ dropped = {}
  /\ quiet = FALSE

\* A new item joins the line at its end, or at its head.
Enqueue(q, i) ==
  /\ i \notin Known
  /\ line' \in {[line EXCEPT ![q] = Append(@, i)], [line EXCEPT ![q] = <<i>> \o @]}
  /\ UNCHANGED <<active, done, dropped, quiet>>

Take(q) ==
  /\ ~quiet
  /\ line[q] # <<>>
  /\ Cardinality(active) < NumThreads
  /\ line' = [line EXCEPT ![q] = Tail(@)]
  /\ active' = active \cup {Head(line[q])}
  /\ UNCHANGED <<done, dropped, quiet>>

Complete(i) ==
  /\ i \in active
  /\ active' = active \ {i}
  /\ done' = done \cup {i}
  /\ UNCHANGED <<line, dropped, quiet>>

\* The lines of the queues in Q are emptied.
Clear(Q) ==
  /\ line' = [q \in Queues |-> IF q \in Q THEN <<>> ELSE line[q]]
  /\ dropped' = dropped \cup UNION {Waiting(q) : q \in Q}
  /\ UNCHANGED <<active, done, quiet>>

Quiesce ==
  /\ active = {}
  /\ quiet' = TRUE
  /\ UNCHANGED <<line, active, done, dropped>>

Resume ==
  /\ quiet' = FALSE
  /\ UNCHANGED <<line, active, done, dropped>>

Next ==
  \/ \E q \in Queues : Take(q) \/ \E i \in Items : Enqueue(q, i)
  \/ \E i \in Items : Complete(i)
  \/ \E Q \in SUBSET Queues : Clear(Q)
  \/ Quiesce
  \/ Resume

Spec == Init /\ [][Next]_vars

=============================================================================
