----------------------------- MODULE LockOrder ------------------------------
(***************************************************************************)
(* The algorithm inside lockdep_will_lock(): the loop over the locks a     *)
(* thread holds, in the order of their ids, and the recursive search       *)
(* does_follow(), one call of lockdep_will_lock() at a time, from every    *)
(* acyclic lock_tree.  Lockdep states the outcome of the whole loop at     *)
(* once and by reachability; this module shows that the loop computes it.  *)
(***************************************************************************)
EXTENDS Integers, FiniteSets, FiniteSetsExt

CONSTANT MaxLocks

Ids == 0 .. (MaxLocks - 1)

VARIABLES
  start,     \* lock_tree when the call begins
  held,      \* the ids the calling thread holds
  id,        \* the id it wants
  tree,      \* lock_tree now
  todo,      \* the held ids the loop has not reached
  verdict    \* "looping", "returned", or the report that aborts

vars == <<start, held, id, tree, todo, verdict>>

\* The checker as Lockdep describes it, at the beginning of the call.
Caller == "caller"
Before == INSTANCE Lockdep WITH
  Threads <- {Caller}, Names <- {}, None <- "none",
  free_ids <- {}, last_free_lock_id <- -1, name_to_id_map <- <<>>,
  id_to_name_map <- [i \in Ids |-> "none"], lock_ref <- [i \in Ids |-> 1],
  current_max_id <- MaxLocks, held_locks <- [t \in {Caller} |-> held],
  lock_tree <- start

Now == INSTANCE Lockdep WITH
  Threads <- {Caller}, Names <- {}, None <- "none",
  free_ids <- {}, last_free_lock_id <- -1, name_to_id_map <- <<>>,
  id_to_name_map <- [i \in Ids |-> "none"], lock_ref <- [i \in Ids |-> 1],
  current_max_id <- MaxLocks, held_locks <- [t \in {Caller} |-> held],
  lock_tree <- tree

\* Faulty variant: at most one id in between.
follows_within_two(from, to) ==
  \/ <<from, to>> \in tree
  \/ \E i \in Ids : <<from, i>> \in tree /\ <<i, to>> \in tree

\* does_follow() as the code has it: the direct edge, else depth first through
\* every id below current_max_id (here all of them), without a visited set.
RECURSIVE does_follow(_, _)
does_follow(from, to) ==
  \/ <<from, to>> \in tree
  \/ \E i \in Ids : <<from, i>> \in tree /\ does_follow(i, to)

Init ==
  /\ start \in SUBSET {e \in Ids \X Ids : e[1] # e[2]}
  /\ Before!LockOrderAcyclic = TRUE   \* a test, for TLC not to branch on it
  /\ held \in SUBSET Ids
  /\ id \in Ids
  /\ tree = start
  /\ todo = held
  /\ verdict = "looping"

\* Faulty variant: an edge that is known ends the loop.
TodoBreaks(p) == IF <<p, id>> \in tree THEN {} ELSE todo \ {p}

TodoAfter(p) == todo \ {p}

\* The new edge from p to id would close a cycle.
ClosesCycle(p) == does_follow(id, p)

\* One turn of the loop, for the lowest id left.
Turn ==
  /\ verdict = "looping"
  /\ todo # {}
  /\ LET p == Min(todo) IN
     /\ todo' = TodoAfter(p)
     /\ \/ p = id /\ verdict' = "self" /\ UNCHANGED tree
        \/ p # id /\ <<p, id>> \in tree /\ UNCHANGED <<tree, verdict>>
        \/ /\ p # id /\ <<p, id>> \notin tree
           /\ ClosesCycle(p)
           /\ verdict' = "cycle"
           /\ UNCHANGED tree
        \/ /\ p # id /\ <<p, id>> \notin tree
           /\ ~ClosesCycle(p)
           /\ tree' = tree \cup {<<p, id>>}
           /\ UNCHANGED verdict
  /\ UNCHANGED <<start, held, id>>

Finish ==
  /\ verdict = "looping"
  /\ todo = {}
  /\ verdict' = "returned"
  /\ UNCHANGED <<start, held, id, tree, todo>>

Next == Turn \/ Finish

Spec == Init /\ [][Next]_vars

-----------------------------------------------------------------------------

\* The recursion finds exactly the paths of lock_tree, at every turn.
SearchIsReachability ==
  \A a, b \in Ids : does_follow(a, b) <=> Now!DoesFollow(a, b)

\* The loop ends as Lockdep says: it reports exactly when the call has to be
\* rejected, whatever edges it added before it came to the offending lock,
\* and when it returns every lock held comes before the one wanted.
LoopComputesVerdict ==
  /\ verdict \in {"self", "cycle"} => Before!LockdepRejects(Caller, id)
  /\ verdict = "returned" => /\ ~Before!LockdepRejects(Caller, id)
                             /\ tree = start \cup (held \X {id})

=============================================================================
