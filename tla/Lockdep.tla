------------------------------ MODULE Lockdep -------------------------------
(***************************************************************************)
(* The lock-order checker of synchronization/utils.cc: the registry that   *)
(* gives lock names their ids, the locks each thread holds, and the graph  *)
(* lock_tree of the orders in which locks were taken.  Every function runs *)
(* under lockdep_mutex, so each is one atomic action here; BlueMutex calls *)
(* them.  The backtraces kept for the reports are left out.                *)
(*                                                                         *)
(* A mutex registers in its constructor or is not constructed at all, so   *)
(* the branches for an id below zero are never taken and are left out.     *)
(***************************************************************************)
EXTENDS Integers

CONSTANTS
  Threads,
  Names,      \* the lock names
  MaxLocks,   \* MAX_LOCKS
  None        \* no name, no thread

ASSUME MaxLocksAssumption == MaxLocks \in Nat
ASSUME NoneAssumption == None \notin Names \cup Threads

Ids == 0 .. (MaxLocks - 1)
NoId == -1

VARIABLES
  free_ids,           \* the ids whose bit is set in lock_ids_bitmap
  last_free_lock_id,
  name_to_id_map,     \* per name: its id, or NoId
  id_to_name_map,     \* per id: its name, or None
  lock_ref,           \* per id: the number of mutexes that use it
  current_max_id,
  held_locks,         \* per thread: the ids it holds
  lock_tree           \* pairs <<a, b>>: b taken after a

registryVars ==
  <<free_ids, last_free_lock_id, name_to_id_map, id_to_name_map, lock_ref,
    current_max_id>>
lockdepVars == <<registryVars, held_locks, lock_tree>>

LockdepInit ==
  /\ free_ids = Ids
  /\ last_free_lock_id = NoId
  /\ name_to_id_map = [n \in Names |-> NoId]
  /\ id_to_name_map = [i \in Ids |-> None]
  /\ lock_ref = [i \in Ids |-> 0]
  /\ current_max_id = 0
  /\ held_locks = [t \in Threads |-> {}]
  /\ lock_tree = {}

-----------------------------------------------------------------------------
(* Registering and unregistering.                                          *)

\* The id lockdep_get_free_id() picks: the one freed last, if it is still
\* free, or else the lowest.
FreeId ==
  IF last_free_lock_id \in free_ids
  THEN last_free_lock_id
  ELSE CHOOSE i \in free_ids : \A j \in free_ids : i <= j

\* Faulty variant: the new user is not counted.
KnownUncounted(name, id) ==
  /\ name_to_id_map[name] = id
  /\ UNCHANGED lock_ref
  /\ UNCHANGED <<free_ids, last_free_lock_id, name_to_id_map, id_to_name_map,
                 current_max_id>>

\* The name is in use: share its id.
RegisterKnown(name, id) ==
  /\ name_to_id_map[name] = id
  /\ lock_ref' = [lock_ref EXCEPT ![id] = @ + 1]
  /\ UNCHANGED <<free_ids, last_free_lock_id, name_to_id_map, id_to_name_map,
                 current_max_id>>

\* current_max_id is above every id ever given out.
MaxIdWith(id) == IF current_max_id <= id THEN id + 1 ELSE current_max_id

\* The name is new.  When no id is free the code throws and changes nothing.
RegisterNew(name, id) ==
  /\ name_to_id_map[name] = NoId
  /\ free_ids # {}
  /\ id = FreeId
  /\ free_ids' = free_ids \ {id}
  /\ last_free_lock_id' = IF id = last_free_lock_id THEN NoId
                                                    ELSE last_free_lock_id
  /\ name_to_id_map' = [name_to_id_map EXCEPT ![name] = id]
  /\ id_to_name_map' = [id_to_name_map EXCEPT ![id] = name]
  /\ lock_ref' = [lock_ref EXCEPT ![id] = @ + 1]
  /\ current_max_id' = MaxIdWith(id)

\* lockdep_register(name), which returns id.
LockdepRegister(name, id) ==
  /\ RegisterKnown(name, id) \/ RegisterNew(name, id)
  /\ UNCHANGED <<held_locks, lock_tree>>

\* Faulty variant: only the row of id is cleared.
WithoutRow(tree, id) == {e \in tree : e[1] # id}

\* The edges that stay when id goes: its row is cleared up to MAX_LOCKS, its
\* column up to current_max_id.
WithoutId(tree, id) ==
  {e \in tree : e[1] # id /\ ~(e[2] = id /\ e[1] < current_max_id)}

LastUser(id) == lock_ref[id] = 1

\* lockdep_unregister(id): the last user of the id gives it back.
LockdepUnregister(id) ==
  /\ lock_ref' = [lock_ref EXCEPT ![id] = @ - 1]
  /\ IF LastUser(id)
     THEN /\ lock_tree' = WithoutId(lock_tree, id)
          /\ name_to_id_map' = [name_to_id_map EXCEPT ![id_to_name_map[id]] = NoId]
          /\ id_to_name_map' = [id_to_name_map EXCEPT ![id] = None]
          /\ free_ids' = free_ids \cup {id}
          /\ last_free_lock_id' = id
     ELSE UNCHANGED <<lock_tree, name_to_id_map, id_to_name_map, free_ids,
                      last_free_lock_id>>
  /\ UNCHANGED <<current_max_id, held_locks>>

-----------------------------------------------------------------------------
(* Locking and unlocking.                                                  *)

\* A set of ids that no edge leaves.
Closed(S, tree) == \A e \in tree : e[1] \in S => e[2] \in S

\* Faulty variant: the direct edge only.
DirectlyFollows(a, b) == <<a, b>> \in lock_tree

\* does_follow(a, b): lock_tree has a path of at least one edge from a to b,
\* that is, every closed set that holds the successors of a holds b.
DoesFollow(a, b) ==
  \A S \in SUBSET Ids :
    /\ \A e \in lock_tree : e[1] = a => e[2] \in S
    /\ Closed(S, lock_tree)
    => b \in S

\* Faulty variant: only the self-deadlock is reported.
RejectsSelf(t, id) == id \in held_locks[t]

\* The two reports of lockdep_will_lock(): t holds id already, or a lock t
\* holds was once taken after id.
LockdepRejects(t, id) ==
  \/ id \in held_locks[t]
  \/ \E p \in held_locks[t] : <<p, id>> \notin lock_tree /\ DoesFollow(id, p)

\* lockdep_will_lock(name, id) when it returns: every lock t holds now comes
\* before id.  (When it does not, abort() ends the process.)
LockdepWillLock(t, id) ==
  /\ ~LockdepRejects(t, id)
  /\ lock_tree' = lock_tree \cup (held_locks[t] \X {id})
  /\ UNCHANGED <<registryVars, held_locks>>

LockdepLocked(t, id) ==
  /\ held_locks' = [held_locks EXCEPT ![t] = @ \cup {id}]
  /\ UNCHANGED <<registryVars, lock_tree>>

\* Faulty variant: the lock stays in held_locks.
WillUnlockForgets(t, id) == UNCHANGED lockdepVars

LockdepWillUnlock(t, id) ==
  /\ held_locks' = [held_locks EXCEPT ![t] = @ \ {id}]
  /\ UNCHANGED <<registryVars, lock_tree>>

-----------------------------------------------------------------------------
(* Properties of the checker's state.                                      *)

LockdepTypeOK ==
  /\ free_ids \subseteq Ids
  /\ last_free_lock_id \in Ids \cup {NoId}
  /\ name_to_id_map \in [Names -> Ids \cup {NoId}]
  /\ id_to_name_map \in [Ids -> Names \cup {None}]
  /\ lock_ref \in [Ids -> Nat]
  /\ current_max_id \in 0 .. MaxLocks
  /\ held_locks \in [Threads -> SUBSET Ids]
  /\ lock_tree \subseteq Ids \X Ids

\* The order lockdep records has no cycle: every set of ids has a member that
\* was taken before no other member.  The recursion of does_follow() has no
\* visited set, so this is also what makes it terminate.
LockOrderAcyclic ==
  \A S \in SUBSET Ids :
    S # {} => \E x \in S : \A y \in S : <<x, y>> \notin lock_tree

\* A new lock starts without history: an id is free or has a name, never
\* both, the two maps are inverse, the id freed last is free, and no edge of
\* an earlier owner of an id survives in lock_tree, nor above current_max_id,
\* where does_follow() would not look.
RegistryConsistent ==
  /\ \A i \in Ids : i \in free_ids <=> id_to_name_map[i] = None
  /\ \A i \in Ids, n \in Names : id_to_name_map[i] = n <=> name_to_id_map[n] = i
  /\ \A i \in Ids : lock_ref[i] = 0 <=> i \in free_ids
  /\ last_free_lock_id # NoId => last_free_lock_id \in free_ids
  /\ \A i \in Ids : i \notin free_ids => i < current_max_id
  /\ \A e \in lock_tree : e[1] \notin free_ids /\ e[2] \notin free_ids

=============================================================================
