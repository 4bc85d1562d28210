---------------------------- MODULE SharedMutex -----------------------------
(***************************************************************************)
(* shared_mutex_debug (synchronization/shared_mutex.{h,cc}), a pthread     *)
(* read-write lock with the fields of mutex_debug_base and the calls into  *)
(* Lockdep, side by side with the mutexes of BlueMutex.  Both classes have *)
(* the same base, so the members of Shared are Mutexes with operations of  *)
(* their own: construction, the first and the last Lockdep call and        *)
(* is_locked_by_me() are those of BlueMutex, and owner is the writer.      *)
(*                                                                         *)
(* Without lockdep the class adds nothing to the pthread lock; HeartbeatMap*)
(* uses it so, see Heartbeat.  Here every shared mutex is tracked, and     *)
(* Lockdep rejects a second lock of either kind before pthread would.      *)
(***************************************************************************)
EXTENDS BlueMutex

CONSTANTS
  Shared,          \* the shared_mutex_debug objects
  PreferWriter     \* those constructed with prioritize_write = true

ASSUME SharedAssumption == PreferWriter \subseteq Shared /\ Shared \subseteq Tracked

VARIABLES
  readers,             \* per shared mutex: the threads that have it for reading
  read_locked_count,
  reading              \* the threads inside lock_shared() or unlock_shared()

rwVars == <<readers, read_locked_count, reading>>
sharedVars == <<vars, rwVars>>

SharedInit ==
  /\ Init
  /\ readers = [m \in Shared |-> {}]
  /\ read_locked_count = [m \in Shared |-> 0]
  /\ reading = {}

\* t is at this place of a call on a shared mutex, in one of the two modes.
Writes(t, at) == pc[t] = at /\ target[t] \in Shared /\ t \notin reading
Reads(t, at) == pc[t] = at /\ target[t] \in Shared /\ t \in reading

-----------------------------------------------------------------------------
(* lock() and unlock().                                                    *)

\* _will_lock().
WLockBegin(t, m) == m \in Shared /\ LockBegin(t, m) /\ UNCHANGED rwVars

\* pthread_rwlock_wrlock() gets the lock ...
WAcquire(t) ==
  LET m == target[t] IN
  /\ Writes(t, "trying") \/ Writes(t, "blocked")
  /\ owner[m] = None /\ readers[m] = {}
  /\ owner' = [owner EXCEPT ![m] = t]
  /\ Goto(t, "acquired")
  /\ UNCHANGED <<lockdepVars, live, id, locked_count, locked_by, aborted, rwVars>>

\* ... or waits for it.
WBlock(t) ==
  /\ Writes(t, "trying")
  /\ owner[target[t]] # None \/ readers[target[t]] # {}
  /\ Goto(t, "blocked")
  /\ UNCHANGED <<lockdepVars, mutexVars, aborted, rwVars>>

\* _post_lock(): ASSERT(locked_count == 0), count ...
WPostLock(t) ==
  LET m == target[t] IN
  /\ Writes(t, "marking")
  /\ IF locked_count[m] = 0
     THEN /\ locked_count' = [locked_count EXCEPT ![m] = 1]
          /\ Goto(t, "counting")
          /\ UNCHANGED aborted
     ELSE aborted' = TRUE /\ UNCHANGED <<locked_count, pc, target>>
  /\ UNCHANGED <<lockdepVars, live, id, owner, locked_by, rwVars>>

\* ... and only then write locked_by: the other way round than BlueMutex.
WPostLockBy(t) ==
  /\ Writes(t, "counting")
  /\ locked_by' = [locked_by EXCEPT ![target[t]] = t]
  /\ Return(t)
  /\ UNCHANGED <<lockdepVars, live, id, owner, locked_count, aborted, rwVars>>

\* Faulty variant: locked_count is not counted down.
WPreUnlockUncounted(t, m) ==
  IF locked_count[m] = 1 /\ locked_by[m] = t
  THEN UNCHANGED <<locked_count, aborted>>
  ELSE aborted' = TRUE /\ UNCHANGED locked_count

\* _pre_unlock() and its ASSERTs: locked_count is 1 and t wrote locked_by.
WPreUnlock(t, m) ==
  IF locked_count[m] = 1 /\ locked_by[m] = t
  THEN locked_count' = [locked_count EXCEPT ![m] = 0] /\ UNCHANGED aborted
  ELSE aborted' = TRUE /\ UNCHANGED locked_count

\* The rest of unlock() is WillUnlock and UnlockEnd of BlueMutex.
WUnlockBegin(t, m) ==
  /\ pc[t] = "idle"
  /\ m \in Shared /\ owner[m] = t
  /\ WPreUnlock(t, m)
  /\ Enter(t, m, "forgetting")
  /\ UNCHANGED <<lockdepVars, live, id, owner, locked_by, rwVars>>

-----------------------------------------------------------------------------
(* lock_shared() and unlock_shared().                                      *)

\* Faulty variant: lock_shared() does not ask Lockdep.
RLockUnasked(t, m) ==
  /\ pc[t] = "idle"
  /\ m \in Shared \cap live
  /\ Enter(t, m, "trying")
  /\ reading' = reading \cup {t}
  /\ UNCHANGED <<lockdepVars, mutexVars, aborted, readers, read_locked_count>>

\* _will_lock().
RLockBegin(t, m) ==
  /\ m \in Shared
  /\ LockBegin(t, m)
  /\ reading' = reading \cup {t}
  /\ UNCHANGED <<readers, read_locked_count>>

\* Faulty variant: the kind of the lock is not set.
WritersIgnored(m) == FALSE

\* A writer waits, and the lock was initialised to let it go first.
WritersFirst(m) ==
  m \in PreferWriter /\ \E u \in Threads : Writes(u, "blocked") /\ target[u] = m

\* pthread_rwlock_rdlock() gets the lock ...
RAcquire(t) ==
  LET m == target[t] IN
  /\ Reads(t, "trying") \/ Reads(t, "blocked")
  /\ owner[m] = None /\ ~WritersFirst(m)
  /\ readers' = [readers EXCEPT ![m] = @ \cup {t}]
  /\ Goto(t, "acquired")
  /\ UNCHANGED <<lockdepVars, mutexVars, aborted, read_locked_count, reading>>

\* ... or waits for it.
RBlock(t) ==
  /\ Reads(t, "trying")
  /\ owner[target[t]] # None \/ WritersFirst(target[t])
  /\ Goto(t, "blocked")
  /\ UNCHANGED <<lockdepVars, mutexVars, aborted, rwVars>>

\* _post_lock_shared().
RPostLock(t) ==
  /\ Reads(t, "marking")
  /\ read_locked_count' = [read_locked_count EXCEPT ![target[t]] = @ + 1]
  /\ Return(t)
  /\ reading' = reading \ {t}
  /\ UNCHANGED <<lockdepVars, mutexVars, aborted, readers>>

\* _pre_unlock_shared() and its ASSERT.
RUnlockBegin(t, m) ==
  /\ pc[t] = "idle"
  /\ m \in Shared /\ t \in readers[m]
  /\ IF read_locked_count[m] > 0
     THEN /\ read_locked_count' = [read_locked_count EXCEPT ![m] = @ - 1]
          /\ UNCHANGED aborted
     ELSE aborted' = TRUE /\ UNCHANGED read_locked_count
  /\ Enter(t, m, "forgetting")
  /\ reading' = reading \cup {t}
  /\ UNCHANGED <<lockdepVars, mutexVars, readers>>

RUnlockEnd(t) ==
  /\ Reads(t, "releasing")
  /\ readers' = [readers EXCEPT ![target[t]] = @ \ {t}]
  /\ Return(t)
  /\ reading' = reading \ {t}
  /\ UNCHANGED <<lockdepVars, mutexVars, aborted, read_locked_count>>

-----------------------------------------------------------------------------

\* What t does with a BlueMutex: lock() and unlock().
PlainBegin(t, m) == m \notin Shared /\ LockBegin(t, m)
PlainUnlock(t, m) == m \notin Shared /\ UnlockBegin(t, m)
PlainStep(t) ==
  /\ target[t] \notin Shared
  /\ LockTry(t) \/ LockAcquire(t) \/ PostLock(t) \/ PostLockCount(t)

\* The steps in the base class and in Lockdep, the same for both classes.
BaseStep(t) ==
  \/ Locked(t) \/ WillUnlock(t) \/ AskOwner(t)
  \/ t \notin reading /\ UnlockEnd(t)

\* t goes on in a call.
Step(t) ==
  \/ (PlainStep(t) \/ BaseStep(t)) /\ UNCHANGED rwVars
  \/ WAcquire(t) \/ WBlock(t) \/ WPostLock(t) \/ WPostLockBy(t)
  \/ RAcquire(t) \/ RBlock(t) \/ RPostLock(t) \/ RUnlockEnd(t)
Unlock(t, m) ==
  \/ PlainUnlock(t, m) /\ UNCHANGED rwVars
  \/ WUnlockBegin(t, m)
  \/ RUnlockBegin(t, m)

\* A shared mutex is destroyed when nobody has it.
SharedDestroy(m) ==
  /\ m \in Shared => owner[m] = None /\ readers[m] = {}
  /\ Destroy(m)

SharedNext ==
  \/ /\ ~aborted
     /\ \E t \in Threads :
          \/ Step(t)
          \/ \E m \in Mutexes :
               \/ PlainBegin(t, m) /\ UNCHANGED rwVars
               \/ WLockBegin(t, m) \/ RLockBegin(t, m)
               \/ Unlock(t, m)
               \/ m \in Shared /\ AskCount(t, m) /\ UNCHANGED rwVars
  \/ /\ ~aborted
     /\ \E m \in Mutexes : Construct(m) \/ SharedDestroy(m)
     /\ UNCHANGED rwVars
  \/ Dead /\ UNCHANGED rwVars

SharedSpec == SharedInit /\ [][SharedNext]_sharedVars

\* Threads are scheduled, a lock that a thread waits for and could have again
\* and again is given to it, and no thread keeps a lock for ever.
Fairness ==
  \A t \in Threads :
    /\ SF_sharedVars(~aborted /\ Step(t))
    /\ \A m \in Mutexes : SF_sharedVars(~aborted /\ Unlock(t, m))

-----------------------------------------------------------------------------
(* Properties.                                                             *)

\* u is in the way of t, which is blocked: it has the lock in a mode that
\* keeps t out, or it is a writer that t, a reader, has to let go first.
InTheWay(u, t) ==
  LET m == target[t] IN
  /\ pc[t] = "blocked"
  /\ \/ owner[m] = u
     \/ m \in Shared /\ t \notin reading /\ u \in readers[m]
     \/ /\ Reads(t, "blocked") /\ m \in PreferWriter
        /\ Writes(u, "blocked") /\ target[u] = m

\* The promise of the checker with read locks included: no set of threads is
\* blocked with one of the same set in the way of each, be it a reader, a
\* writer, or a writer that waits itself; lock_shared() asks Lockdep as lock()
\* does, and one of them was aborted first.
NoCircularWaitShared ==
  \A S \in SUBSET Threads :
    S # {} => \E t \in S : \A u \in S : ~InTheWay(u, t)

\* Writers exclude readers, and the counters say so: but for threads inside a
\* call, locked_count and read_locked_count are the numbers of writers and of
\* readers, so no ASSERT of unlock() or unlock_shared() fails; and
\* is_locked_by_me() answers true to a thread without the lock only while the
\* writer is between the two writes of _post_lock().
SharedFieldsExact ==
  \A m \in Shared :
    /\ owner[m] # None => readers[m] = {}
    /\ owner[m] = None => locked_count[m] = 0
    /\ read_locked_count[m] = Cardinality({t \in readers[m] : ~InTransit(t, m)})
    /\ \A t \in Threads :
         /\ owner[m] = t /\ ~InTransit(t, m) => locked_count[m] = 1 /\ locked_by[m] = t
         /\ /\ pc[t] = "asking" /\ target[t] = m
            /\ locked_by[m] = t /\ owner[m] # t
            => \E u \in Threads : Writes(u, "counting") /\ target[u] = m

\* t waits for a shared mutex in the mode that the other one is let past.
LetPast(t) ==
  /\ pc[t] = "blocked" /\ target[t] \in Shared
  /\ t \in reading <=> target[t] \in PreferWriter

\* The thread u in lock(), of a mutex or of a shared mutex, gets the lock in
\* the end, or the process was aborted with a report.  For a shared mutex this
\* takes prioritize_write: otherwise readers that overlap keep a writer out.
\* With it, writers that overlap keep a reader out; a lock that such a thread
\* holds is not given back, so the property supposes that there is none.
LockReturnsTo(u) ==
  (\A t \in Threads : []<>~LetPast(t)) =>
    /\ pc[u] = "trying" /\ u \notin reading
    /\ target[u] \in Shared => target[u] \in PreferWriter
    ~> aborted \/ pc[u] = "idle"

=============================================================================
