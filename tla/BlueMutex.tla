----------------------------- MODULE BlueMutex ------------------------------
(***************************************************************************)
(* BlueMutex (mutex_debug_impl, synchronization/mutex.h) under any number  *)
(* of threads: a pthread error-checking mutex, the debug fields            *)
(* locked_count and locked_by, and the calls into Lockdep.                 *)
(*                                                                         *)
(* lock() and unlock() are split wherever another thread can see the       *)
(* difference: at each Lockdep call, at each pthread call, and between the *)
(* two writes of _post_lock().  Only the holder of a mutex unlocks it, and *)
(* nobody destroys a mutex another thread is using, as C++ demands.        *)
(***************************************************************************)
EXTENDS Lockdep, FiniteSets

CONSTANTS
  Mutexes,
  Tracked,   \* the mutexes constructed with lockdep = true
  NameOf     \* per mutex: its lock_name

ASSUME MutexesAssumption == IsFiniteSet(Mutexes)
ASSUME TrackedAssumption == Tracked \subseteq Mutexes
ASSUME NameOfAssumption == NameOf \in [Mutexes -> Names]
ASSUME NoMutexAssumption == None \notin Mutexes

VARIABLES
  live,           \* the mutexes that are constructed
  id,             \* per mutex: the field id
  owner,          \* per mutex: the thread that has the pthread mutex, or None
  locked_count,
  locked_by,
  pc,             \* per thread: where it stands in a call
  target,         \* per thread: the mutex of that call
  aborted         \* abort() or a failed ASSERT has ended the process

mutexVars == <<live, id, owner, locked_count, locked_by>>
vars == <<lockdepVars, mutexVars, pc, target, aborted>>

Init ==
  /\ LockdepInit
  /\ live = {}
  /\ id = [m \in Mutexes |-> NoId]
  /\ owner = [m \in Mutexes |-> None]
  /\ locked_count = [m \in Mutexes |-> 0]
  /\ locked_by = [m \in Mutexes |-> None]
  /\ pc = [t \in Threads |-> "idle"]
  /\ target = [t \in Threads |-> None]
  /\ aborted = FALSE

\* t starts a call on m, goes on in it, or returns from it.
Enter(t, m, to) ==
  /\ pc' = [pc EXCEPT ![t] = to]
  /\ target' = [target EXCEPT ![t] = m]
Goto(t, to) == pc' = [pc EXCEPT ![t] = to] /\ UNCHANGED target
Return(t) == Enter(t, None, "idle")

-----------------------------------------------------------------------------
(* Construction and destruction.                                           *)

Register(m) ==
  IF m \in Tracked
  THEN \E i \in Ids : LockdepRegister(NameOf[m], i) /\ id' = [id EXCEPT ![m] = i]
  ELSE UNCHANGED <<lockdepVars, id>>

Construct(m) ==
  /\ m \notin live
  /\ live' = live \cup {m}
  /\ Register(m)
  /\ locked_by' = [locked_by EXCEPT ![m] = None]
  /\ UNCHANGED <<owner, locked_count, pc, target, aborted>>

Unregister(m) ==
  IF m \in Tracked THEN LockdepUnregister(id[m]) ELSE UNCHANGED lockdepVars

\* pthread_mutex_destroy() fails on a locked mutex, and the ASSERT with it; the
\* base class has an ASSERT of its own on locked_count.
Destroy(m) ==
  /\ m \in live
  /\ \A t \in Threads : target[t] # m
  /\ IF owner[m] = None /\ locked_count[m] = 0
     THEN /\ live' = live \ {m}
          /\ id' = [id EXCEPT ![m] = NoId]
          /\ Unregister(m)
          /\ UNCHANGED aborted
     ELSE /\ aborted' = TRUE
          /\ UNCHANGED <<lockdepVars, live, id>>
  /\ UNCHANGED <<owner, locked_count, locked_by, pc, target>>

-----------------------------------------------------------------------------
(* lock() and try_lock().                                                  *)

\* lock(): ask Lockdep first, which may abort.
LockBegin(t, m) ==
  /\ pc[t] = "idle"
  /\ m \in live
  /\ IF m \in Tracked
     THEN IF LockdepRejects(t, id[m])
          THEN aborted' = TRUE /\ UNCHANGED <<lockdepVars, pc, target>>
          ELSE LockdepWillLock(t, id[m]) /\ Enter(t, m, "trying")
               /\ UNCHANGED aborted
     ELSE Enter(t, m, "trying") /\ UNCHANGED <<lockdepVars, aborted>>
  /\ UNCHANGED mutexVars

\* What follows once t has the pthread mutex m: _locked(), _post_lock().
AfterAcquire(m) == IF m \in Tracked THEN "acquired" ELSE "marking"

\* lock_impl(): pthread_mutex_lock() blocks, or reports EDEADLK if t has the
\* mutex itself, and then lock() throws.
LockImpl(t, m) ==
  \/ owner[m] \notin {None, t} /\ Goto(t, "blocked")
  \/ owner[m] = t /\ Return(t)

\* lock() tries pthread_mutex_trylock() first.
LockTry(t) ==
  LET m == target[t] IN
  /\ pc[t] = "trying"
  /\ \/ /\ owner[m] = None
        /\ owner' = [owner EXCEPT ![m] = t]
        /\ Goto(t, AfterAcquire(m))
     \/ /\ LockImpl(t, m)
        /\ UNCHANGED owner
  /\ UNCHANGED <<lockdepVars, live, id, locked_count, locked_by, aborted>>

\* pthread_mutex_lock() returns with the mutex.
LockAcquire(t) ==
  LET m == target[t] IN
  /\ pc[t] = "blocked"
  /\ owner[m] = None
  /\ owner' = [owner EXCEPT ![m] = t]
  /\ Goto(t, AfterAcquire(m))
  /\ UNCHANGED <<lockdepVars, live, id, locked_count, locked_by, aborted>>

\* try_lock() does not ask Lockdep; it goes on only when it gets the mutex.
TryLock(t, m) ==
  /\ pc[t] = "idle"
  /\ m \in live
  /\ owner[m] = None
  /\ owner' = [owner EXCEPT ![m] = t]
  /\ Enter(t, m, AfterAcquire(m))
  /\ UNCHANGED <<lockdepVars, live, id, locked_count, locked_by, aborted>>

Locked(t) ==
  /\ pc[t] = "acquired"
  /\ LockdepLocked(t, id[target[t]])
  /\ Goto(t, "marking")
  /\ UNCHANGED <<mutexVars, aborted>>

\* _post_lock(): ASSERT(locked_count == 0), write locked_by ...
PostLock(t) ==
  LET m == target[t] IN
  /\ pc[t] = "marking"
  /\ IF locked_count[m] = 0
     THEN /\ locked_by' = [locked_by EXCEPT ![m] = t]
          /\ Goto(t, "counting")
          /\ UNCHANGED aborted
     ELSE aborted' = TRUE /\ UNCHANGED <<locked_by, pc, target>>
  /\ UNCHANGED <<lockdepVars, live, id, owner, locked_count>>

\* ... and only then locked_count.
PostLockCount(t) ==
  /\ pc[t] = "counting"
  /\ locked_count' = [locked_count EXCEPT ![target[t]] = @ + 1]
  /\ Return(t)
  /\ UNCHANGED <<lockdepVars, live, id, owner, locked_by, aborted>>

-----------------------------------------------------------------------------
(* unlock().                                                               *)

\* _pre_unlock(): ASSERT(locked_count == 1) and count down.
PreUnlock(m, t) ==
  IF locked_count[m] = 1
  THEN /\ locked_by' = [locked_by EXCEPT ![m] = t]
       /\ locked_count' = [locked_count EXCEPT ![m] = 0]
       /\ UNCHANGED aborted
  ELSE aborted' = TRUE /\ UNCHANGED <<locked_by, locked_count>>

UnlockBegin(t, m) ==
  /\ pc[t] = "idle"
  /\ owner[m] = t
  /\ PreUnlock(m, t)
  /\ Enter(t, m, IF m \in Tracked THEN "forgetting" ELSE "releasing")
  /\ UNCHANGED <<lockdepVars, live, id, owner>>

WillUnlock(t) ==
  /\ pc[t] = "forgetting"
  /\ LockdepWillUnlock(t, id[target[t]])
  /\ Goto(t, "releasing")
  /\ UNCHANGED <<mutexVars, aborted>>

UnlockEnd(t) ==
  /\ pc[t] = "releasing"
  /\ owner' = [owner EXCEPT ![target[t]] = None]
  /\ Return(t)
  /\ UNCHANGED <<lockdepVars, live, id, locked_count, locked_by, aborted>>

-----------------------------------------------------------------------------
(* is_locked_by_me() reads locked_count and then, if it was positive,      *)
(* locked_by.                                                              *)

\* Faulty variant: locked_by alone.
AskOwnerOnly(t, m) ==
  /\ pc[t] = "idle"
  /\ m \in live
  /\ Enter(t, m, "asking")
  /\ UNCHANGED <<lockdepVars, mutexVars, aborted>>

AskCount(t, m) ==
  /\ pc[t] = "idle"
  /\ m \in live
  /\ locked_count[m] > 0
  /\ Enter(t, m, "asking")
  /\ UNCHANGED <<lockdepVars, mutexVars, aborted>>

AskOwner(t) ==
  /\ pc[t] = "asking"
  /\ Return(t)
  /\ UNCHANGED <<lockdepVars, mutexVars, aborted>>

-----------------------------------------------------------------------------

ThreadNext(t) ==
  \/ \E m \in Mutexes :
       LockBegin(t, m) \/ TryLock(t, m) \/ UnlockBegin(t, m) \/ AskCount(t, m)
  \/ LockTry(t)
  \/ LockAcquire(t)
  \/ Locked(t)
  \/ PostLock(t)
  \/ PostLockCount(t)
  \/ WillUnlock(t)
  \/ UnlockEnd(t)
  \/ AskOwner(t)

\* The process is gone.
Dead == aborted /\ UNCHANGED vars

Next ==
  \/ ~aborted /\ \E t \in Threads : ThreadNext(t)
  \/ ~aborted /\ \E m \in Mutexes : Construct(m) \/ Destroy(m)
  \/ Dead

Spec == Init /\ [][Next]_vars

-----------------------------------------------------------------------------
(* Properties.                                                             *)

MutexTypeOK ==
  /\ live \subseteq Mutexes
  /\ id \in [Mutexes -> Ids \cup {NoId}]
  /\ owner \in [Mutexes -> Threads \cup {None}]
  /\ locked_count \in [Mutexes -> {0, 1}]
  /\ locked_by \in [Mutexes -> Threads \cup {None}]
  /\ pc \in [Threads -> {"idle", "trying", "blocked", "acquired", "marking",
                         "counting", "forgetting", "releasing", "asking"}]
  /\ target \in [Threads -> Mutexes \cup {None}]
  /\ aborted \in BOOLEAN

\* Every variable keeps its type; locked_count stays 0 or 1 and no reference
\* count of Lockdep goes below zero.
TypeOK == LockdepTypeOK /\ MutexTypeOK

\* t is in the middle of taking or giving back the mutex m.
Transit == {"acquired", "marking", "counting", "forgetting", "releasing"}
InTransit(t, m) == target[t] = m /\ pc[t] \in Transit

\* The debug fields tell the truth to the thread they are about: a thread
\* that has a mutex and is not inside lock() or unlock() finds itself in
\* locked_by and locked_count at 1, and is_locked_by_me() never answers true
\* to a thread that has not, although it reads the two fields one after the
\* other while others lock and unlock.
IsLockedByMeExact ==
  \A t \in Threads, m \in Mutexes :
    /\ owner[m] = t /\ ~InTransit(t, m) => locked_count[m] = 1 /\ locked_by[m] = t
    /\ pc[t] = "asking" /\ target[t] = m => (locked_by[m] = t <=> owner[m] = t)

\* The ASSERTs of _post_lock() and _pre_unlock() never fail for a thread that
\* has the mutex: unlock() counts down before it lets the next thread in.
CountMatchesOwner ==
  \A m \in Mutexes :
    /\ owner[m] = None => locked_count[m] = 0
    /\ \A t \in Threads :
         owner[m] = t /\ InTransit(t, m) => locked_count[m] = 0

\* No two mutexes that Lockdep tracks have the same name.
DistinctNames == \A m, n \in Tracked : NameOf[m] = NameOf[n] => m = n

\* Lockdep knows what each thread holds: exactly the tracked mutexes it has,
\* but for the one it is just taking or giving back.
HeldExact ==
  \A t \in Threads :
    held_locks[t] = {id[m] : m \in {n \in Tracked :
      owner[n] = t /\ ~(target[t] = n /\ pc[t] \in {"acquired", "releasing"})}}

\* The tracked mutexes that use an id.
UsersOf(i) == {m \in Tracked : m \in live /\ id[m] = i}

\* A tracked mutex has the id of its name for as long as it lives, and each
\* id is counted as often as it is used: lockdep_unregister() frees an id, and
\* forgets its edges, with its last user and not before.
MutexesRegistered ==
  /\ \A m \in Tracked : m \in live <=> id[m] # NoId
  /\ \A m \in Tracked : m \in live => name_to_id_map[NameOf[m]] = id[m]
  /\ \A i \in Ids : lock_ref[i] = Cardinality(UsersOf(i))

\* The promise of the checker: threads never wait for each other in a circle.
\* No set of threads is blocked in lock() on tracked mutexes whose owners
\* are all blocked threads of that same set: one of them was aborted first.
NoCircularWait ==
  \A S \in SUBSET Threads :
    ~ /\ S # {}
      /\ \A t \in S : /\ pc[t] = "blocked"
                      /\ target[t] \in Tracked
                      /\ owner[target[t]] \in S

-----------------------------------------------------------------------------
(* The inductive invariant behind the safety properties.                   *)

\* A call is on a mutex that is alive; a locked mutex is alive; a thread in
\* transit has the mutex; only tracked mutexes pass through Lockdep.
CallsSound ==
  /\ \A t \in Threads : IF pc[t] = "idle" THEN target[t] = None
                                          ELSE target[t] \in live
  /\ \A m \in Mutexes : owner[m] # None => m \in live
  /\ \A t \in Threads : pc[t] \in Transit => owner[target[t]] = t
  /\ \A t \in Threads : pc[t] \in {"acquired", "forgetting"} => target[t] \in Tracked
  /\ \A t \in Threads : pc[t] = "counting" => locked_by[target[t]] = t

\* What Lockdep takes for held is held, and not just being given back: the
\* half of HeldExact that needs no assumption on the names.
HeldOwned ==
  \A t \in Threads : \A h \in held_locks[t] :
    \E m \in Tracked : /\ owner[m] = t /\ id[m] = h
                       /\ ~(target[t] = m /\ pc[t] = "releasing")

\* While a thread waits for a tracked mutex, lock_tree has an edge to it from
\* everything the thread holds.
WaitEdges ==
  \A t \in Threads :
    pc[t] \in {"trying", "blocked"} /\ target[t] \in Tracked
      => held_locks[t] \X {id[target[t]]} \subseteq lock_tree

\* Of the debug fields, and of the checker's state on top of them.
DebugInv == MutexTypeOK /\ CallsSound /\ CountMatchesOwner /\ IsLockedByMeExact
CheckerInv ==
  /\ LockdepTypeOK
  /\ RegistryConsistent
  /\ MutexesRegistered
  /\ HeldOwned
  /\ WaitEdges
  /\ LockOrderAcyclic
OrderInv == DebugInv /\ CheckerInv

=============================================================================
