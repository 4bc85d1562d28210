-------------------------- MODULE BlueMutexProofs ---------------------------
(***************************************************************************)
(* Proofs about BlueMutex and Lockdep, for any number of threads, mutexes  *)
(* and ids.                                                                *)
(***************************************************************************)
EXTENDS BlueMutex, FiniteSetTheorems, WellFoundedInduction, TLAPS

-----------------------------------------------------------------------------
(* The graph of lock_tree.                                                 *)

\* What can be reached from an id, the id included.
Reach(i) == {i} \cup {b \in Ids : DoesFollow(i, b)}

\* does_follow() is closed under one more edge of lock_tree.
LEMMA ReachIsClosed ==
  ASSUME lock_tree \subseteq Ids \X Ids, NEW i \in Ids,
         NEW x \in Reach(i), NEW y, <<x, y>> \in lock_tree
  PROVE  y \in Reach(i)
<1>1. y \in Ids
  OBVIOUS
<1>2. SUFFICES ASSUME NEW S \in SUBSET Ids,
                      \A e \in lock_tree : e[1] = i => e[2] \in S,
                      Closed(S, lock_tree)
               PROVE  y \in S
  BY <1>1 DEF Reach, DoesFollow
<1>3. CASE x = i
  BY <1>2, <1>3
<1>4. CASE DoesFollow(i, x)
  <2>1. x \in S
    BY <1>2, <1>4 DEF DoesFollow
  <2> QED
    BY <1>2, <2>1 DEF Closed
<1> QED
  BY <1>3, <1>4 DEF Reach

\* The edges lockdep_will_lock() adds when it does not abort close no cycle.
LEMMA WillLockKeepsAcyclic ==
  ASSUME LockdepTypeOK, LockOrderAcyclic, NEW t \in Threads, NEW i \in Ids,
         LockdepWillLock(t, i)
  PROVE  LockOrderAcyclic'
<1> DEFINE H == held_locks[t]
<1>1. lock_tree' = lock_tree \cup (H \X {i}) /\ lock_tree \subseteq Ids \X Ids
  BY DEF LockdepWillLock, LockdepTypeOK
<1>2. i \notin H
      /\ \A p \in H : <<p, i>> \in lock_tree \/ ~DoesFollow(i, p)
  BY DEF LockdepWillLock, LockdepRejects
<1>3. SUFFICES ASSUME NEW S \in SUBSET Ids, S # {},
                      \A x \in S : \E y \in S : <<x, y>> \in lock_tree'
               PROVE  FALSE
  BY DEF LockOrderAcyclic
<1>4. PICK x0 \in S : \A y \in S : <<x0, y>> \notin lock_tree
  BY <1>3 DEF LockOrderAcyclic
<1>5. i \in S
  <2>1. PICK y \in S : <<x0, y>> \in lock_tree'
    BY <1>3
  <2> QED
    BY <1>1, <1>4, <2>1
<1> DEFINE T == S \cap Reach(i)
<1>6. T \in SUBSET Ids /\ T # {}
  BY <1>5 DEF Reach
<1>7. PICK x \in T : \A y \in T : <<x, y>> \notin lock_tree
  BY <1>6 DEF LockOrderAcyclic
<1>8. PICK y \in S : <<x, y>> \in lock_tree'
  BY <1>3
<1>9. <<x, y>> \in lock_tree
  <2>1. SUFFICES ASSUME <<x, y>> \notin lock_tree PROVE FALSE
    OBVIOUS
  <2>2. x \in H /\ y = i
    BY <1>1, <1>8, <2>1
  <2>3. x # i /\ ~DoesFollow(i, x)
    BY <1>2, <2>1, <2>2
  <2> QED
    BY <2>3 DEF Reach
<1>10. y \in Reach(i)
  BY <1>1, <1>9, ReachIsClosed
<1> QED
  BY <1>7, <1>9, <1>10

\* Taking edges away leaves the order acyclic.
LEMMA FewerEdgesAcyclic ==
  ASSUME LockOrderAcyclic, lock_tree' \subseteq lock_tree
  PROVE  LockOrderAcyclic'
BY DEF LockOrderAcyclic

-----------------------------------------------------------------------------
(* The debug fields.                                                       *)

\* The debug fields are right before any mutex is constructed.
LEMMA DebugInit == Init => DebugInv
BY NoneAssumption, NoMutexAssumption
   DEF Init, DebugInv, MutexTypeOK, CallsSound, CountMatchesOwner,
       IsLockedByMeExact, InTransit, Transit

\* Every step of lock(), try_lock(), unlock(), is_locked_by_me(), of a constructor
\* and of a destructor keeps the debug fields right.
LEMMA DebugStep == DebugInv /\ [Next]_vars => DebugInv'
<1> SUFFICES ASSUME DebugInv, [Next]_vars
             PROVE  DebugInv'
  OBVIOUS
<1> USE NoneAssumption, NoMutexAssumption, TrackedAssumption
<1> USE DEF DebugInv, AfterAcquire, Enter, Goto, Return, mutexVars
<1>1. ASSUME NEW m \in Mutexes, Construct(m)
      PROVE  DebugInv'
  <2>1. MutexTypeOK'
    BY <1>1 DEF Construct, Register, MutexTypeOK, CallsSound, Transit
  <2>2. CallsSound'
    BY <1>1 DEF Construct, Register, MutexTypeOK, CallsSound, Transit
  <2>3. CountMatchesOwner'
    BY <1>1 DEF Construct, Register, MutexTypeOK, CallsSound, CountMatchesOwner, InTransit, Transit
  <2>4. IsLockedByMeExact'
    BY <1>1 DEF Construct, Register, MutexTypeOK, CallsSound, CountMatchesOwner,
                  IsLockedByMeExact, InTransit, Transit
  <2> QED
    BY <2>1, <2>2, <2>3, <2>4
<1>2. ASSUME NEW m \in Mutexes, Destroy(m)
      PROVE  DebugInv'
  <2>1. MutexTypeOK'
    BY <1>2 DEF Destroy, Unregister, MutexTypeOK, CallsSound, Transit
  <2>2. CallsSound'
    BY <1>2 DEF Destroy, Unregister, MutexTypeOK, CallsSound, Transit
  <2>3. CountMatchesOwner'
    BY <1>2 DEF Destroy, Unregister, MutexTypeOK, CallsSound, CountMatchesOwner, InTransit, Transit
  <2>4. IsLockedByMeExact'
    BY <1>2 DEF Destroy, Unregister, MutexTypeOK, CallsSound, CountMatchesOwner,
                  IsLockedByMeExact, InTransit, Transit
  <2> QED
    BY <2>1, <2>2, <2>3, <2>4
<1>3. ASSUME NEW t \in Threads, NEW m \in Mutexes, LockBegin(t, m)
      PROVE  DebugInv'
  <2>1. MutexTypeOK'
    <3>1. aborted' \in BOOLEAN
      BY <1>3, Zenon DEF LockBegin, MutexTypeOK
    <3>2. \/ UNCHANGED <<pc, target>>
          \/ Enter(t, m, "trying")
      BY <1>3 DEF LockBegin
    <3> QED
      BY <1>3, <3>1, <3>2 DEF LockBegin, MutexTypeOK
  <2>2. CallsSound'
    BY <1>3 DEF LockBegin, MutexTypeOK, CallsSound, Transit
  <2>3. CountMatchesOwner'
    BY <1>3 DEF LockBegin, MutexTypeOK, CallsSound, CountMatchesOwner, InTransit, Transit
  <2>4. IsLockedByMeExact'
    BY <1>3 DEF LockBegin, MutexTypeOK, CallsSound, CountMatchesOwner,
                  IsLockedByMeExact, InTransit, Transit
  <2> QED
    BY <2>1, <2>2, <2>3, <2>4
<1>4. ASSUME NEW t \in Threads, NEW m \in Mutexes, TryLock(t, m)
      PROVE  DebugInv'
  <2>1. MutexTypeOK'
    BY <1>4 DEF TryLock, MutexTypeOK, CallsSound, Transit
  <2>2. CallsSound'
    BY <1>4 DEF TryLock, MutexTypeOK, CallsSound, Transit
  <2>3. CountMatchesOwner'
    BY <1>4 DEF TryLock, MutexTypeOK, CallsSound, CountMatchesOwner, InTransit, Transit
  <2>4. IsLockedByMeExact'
    BY <1>4 DEF TryLock, MutexTypeOK, CallsSound, CountMatchesOwner,
                  IsLockedByMeExact, InTransit, Transit
  <2> QED
    BY <2>1, <2>2, <2>3, <2>4
<1>5. ASSUME NEW t \in Threads, NEW m \in Mutexes, UnlockBegin(t, m)
      PROVE  DebugInv'
  <2>1. MutexTypeOK'
    BY <1>5 DEF UnlockBegin, PreUnlock, MutexTypeOK, CallsSound, CountMatchesOwner, InTransit, Transit
  <2>2. CallsSound'
    BY <1>5 DEF UnlockBegin, PreUnlock, MutexTypeOK, CallsSound, Transit
  <2>3. CountMatchesOwner'
    BY <1>5 DEF UnlockBegin, PreUnlock, MutexTypeOK, CallsSound, CountMatchesOwner, InTransit, Transit
  <2>4. IsLockedByMeExact'
    BY <1>5 DEF UnlockBegin, PreUnlock, MutexTypeOK, CallsSound, CountMatchesOwner,
                  IsLockedByMeExact, InTransit, Transit
  <2> QED
    BY <2>1, <2>2, <2>3, <2>4
<1>6. ASSUME NEW t \in Threads, NEW m \in Mutexes, AskCount(t, m)
      PROVE  DebugInv'
  <2>1. MutexTypeOK'
    BY <1>6 DEF AskCount, MutexTypeOK, CallsSound, Transit
  <2>2. CallsSound'
    BY <1>6 DEF AskCount, MutexTypeOK, CallsSound, Transit
  <2>3. CountMatchesOwner'
    BY <1>6 DEF AskCount, MutexTypeOK, CallsSound, CountMatchesOwner, InTransit, Transit
  <2>4. IsLockedByMeExact'
    BY <1>6 DEF AskCount, MutexTypeOK, CallsSound, CountMatchesOwner,
                  IsLockedByMeExact, InTransit, Transit
  <2> QED
    BY <2>1, <2>2, <2>3, <2>4
<1>7. ASSUME NEW t \in Threads, LockTry(t)
      PROVE  DebugInv'
  <2>1. MutexTypeOK'
    BY <1>7 DEF LockTry, LockImpl, MutexTypeOK, CallsSound, Transit
  <2>2. CallsSound'
    BY <1>7 DEF LockTry, LockImpl, MutexTypeOK, CallsSound, Transit
  <2>3. CountMatchesOwner'
    BY <1>7 DEF LockTry, LockImpl, MutexTypeOK, CallsSound, CountMatchesOwner, InTransit, Transit
  <2>4. IsLockedByMeExact'
    BY <1>7 DEF LockTry, LockImpl, MutexTypeOK, CallsSound, CountMatchesOwner,
                  IsLockedByMeExact, InTransit, Transit
  <2> QED
    BY <2>1, <2>2, <2>3, <2>4
<1>8. ASSUME NEW t \in Threads, LockAcquire(t)
      PROVE  DebugInv'
  <2>1. MutexTypeOK'
    BY <1>8 DEF LockAcquire, MutexTypeOK, CallsSound, Transit
  <2>2. CallsSound'
    BY <1>8 DEF LockAcquire, MutexTypeOK, CallsSound, Transit
  <2>3. CountMatchesOwner'
    BY <1>8 DEF LockAcquire, MutexTypeOK, CallsSound, CountMatchesOwner, InTransit, Transit
  <2>4. IsLockedByMeExact'
    BY <1>8 DEF LockAcquire, MutexTypeOK, CallsSound, CountMatchesOwner,
                  IsLockedByMeExact, InTransit, Transit
  <2> QED
    BY <2>1, <2>2, <2>3, <2>4
<1>9. ASSUME NEW t \in Threads, Locked(t)
      PROVE  DebugInv'
  <2>1. MutexTypeOK'
    BY <1>9 DEF Locked, MutexTypeOK, CallsSound, Transit
  <2>2. CallsSound'
    BY <1>9 DEF Locked, MutexTypeOK, CallsSound, Transit
  <2>3. CountMatchesOwner'
    BY <1>9 DEF Locked, MutexTypeOK, CallsSound, CountMatchesOwner, InTransit, Transit
  <2>4. IsLockedByMeExact'
    BY <1>9 DEF Locked, MutexTypeOK, CallsSound, CountMatchesOwner,
                  IsLockedByMeExact, InTransit, Transit
  <2> QED
    BY <2>1, <2>2, <2>3, <2>4
<1>10. ASSUME NEW t \in Threads, PostLock(t)
      PROVE  DebugInv'
  <2>1. MutexTypeOK'
    BY <1>10 DEF PostLock, MutexTypeOK, CallsSound, Transit
  <2>2. CallsSound'
    BY <1>10 DEF PostLock, MutexTypeOK, CallsSound, Transit
  <2>3. CountMatchesOwner'
    BY <1>10 DEF PostLock, MutexTypeOK, CallsSound, CountMatchesOwner, InTransit, Transit
  <2>4. IsLockedByMeExact'
    BY <1>10 DEF PostLock, MutexTypeOK, CallsSound, CountMatchesOwner,
                  IsLockedByMeExact, InTransit, Transit
  <2> QED
    BY <2>1, <2>2, <2>3, <2>4
<1>11. ASSUME NEW t \in Threads, PostLockCount(t)
      PROVE  DebugInv'
  <2>1. MutexTypeOK'
    BY <1>11 DEF PostLockCount, MutexTypeOK, CallsSound, CountMatchesOwner, InTransit, Transit
  <2>2. CallsSound'
    BY <1>11 DEF PostLockCount, MutexTypeOK, CallsSound, Transit
  <2>3. CountMatchesOwner'
    BY <1>11 DEF PostLockCount, MutexTypeOK, CallsSound, CountMatchesOwner, InTransit, Transit
  <2>4. IsLockedByMeExact'
    BY <1>11 DEF PostLockCount, MutexTypeOK, CallsSound, CountMatchesOwner,
                  IsLockedByMeExact, InTransit, Transit
  <2> QED
    BY <2>1, <2>2, <2>3, <2>4
<1>12. ASSUME NEW t \in Threads, WillUnlock(t)
      PROVE  DebugInv'
  <2>1. MutexTypeOK'
    BY <1>12 DEF WillUnlock, MutexTypeOK, CallsSound, Transit
  <2>2. CallsSound'
    BY <1>12 DEF WillUnlock, MutexTypeOK, CallsSound, Transit
  <2>3. CountMatchesOwner'
    BY <1>12 DEF WillUnlock, MutexTypeOK, CallsSound, CountMatchesOwner, InTransit, Transit
  <2>4. IsLockedByMeExact'
    BY <1>12 DEF WillUnlock, MutexTypeOK, CallsSound, CountMatchesOwner,
                  IsLockedByMeExact, InTransit, Transit
  <2> QED
    BY <2>1, <2>2, <2>3, <2>4
<1>13. ASSUME NEW t \in Threads, UnlockEnd(t)
      PROVE  DebugInv'
  <2>1. MutexTypeOK'
    BY <1>13 DEF UnlockEnd, MutexTypeOK, CallsSound, Transit
  <2>2. CallsSound'
    BY <1>13 DEF UnlockEnd, MutexTypeOK, CallsSound, Transit
  <2>3. CountMatchesOwner'
    BY <1>13 DEF UnlockEnd, MutexTypeOK, CallsSound, CountMatchesOwner, InTransit, Transit
  <2>4. IsLockedByMeExact'
    BY <1>13 DEF UnlockEnd, MutexTypeOK, CallsSound, CountMatchesOwner,
                  IsLockedByMeExact, InTransit, Transit
  <2> QED
    BY <2>1, <2>2, <2>3, <2>4
<1>14. ASSUME NEW t \in Threads, AskOwner(t)
      PROVE  DebugInv'
  <2>1. MutexTypeOK'
    BY <1>14 DEF AskOwner, MutexTypeOK, CallsSound, Transit
  <2>2. CallsSound'
    BY <1>14 DEF AskOwner, MutexTypeOK, CallsSound, Transit
  <2>3. CountMatchesOwner'
    BY <1>14 DEF AskOwner, MutexTypeOK, CallsSound, CountMatchesOwner, InTransit, Transit
  <2>4. IsLockedByMeExact'
    BY <1>14 DEF AskOwner, MutexTypeOK, CallsSound, CountMatchesOwner,
                  IsLockedByMeExact, InTransit, Transit
  <2> QED
    BY <2>1, <2>2, <2>3, <2>4
<1>15. CASE UNCHANGED vars
  BY <1>15 DEF vars, MutexTypeOK, CallsSound, CountMatchesOwner,
              IsLockedByMeExact, InTransit
<1> QED
  BY <1>1, <1>2, <1>3, <1>4, <1>5, <1>6, <1>7, <1>8, <1>9, <1>10, <1>11, <1>12, <1>13, <1>14, <1>15 DEF Next, ThreadNext, Dead

\* The ASSERTs of _post_lock() and _pre_unlock() never fail and
\* is_locked_by_me() never errs, whatever the number of threads and mutexes.
THEOREM DebugFieldsSound == Spec => [](CountMatchesOwner /\ IsLockedByMeExact)
<1>1. DebugInv => CountMatchesOwner /\ IsLockedByMeExact
  BY DEF DebugInv
<1> QED
  BY <1>1, DebugInit, DebugStep, PTL DEF Spec

-----------------------------------------------------------------------------
(* The registry.                                                           *)

\* The users of an id can be counted, as lock_ref does.
LEMMA MutexSetsFinite ==
  ASSUME NEW S \in SUBSET Mutexes
  PROVE  IsFiniteSet(S) /\ Cardinality(S) \in Nat
BY MutexesAssumption, FS_Subset, FS_CardinalityType

\* lockdep_get_free_id() returns a free id when there is one.
LEMMA FreeIdIsFree ==
  ASSUME free_ids \subseteq Ids, free_ids # {}
  PROVE  FreeId \in free_ids
<1>1. free_ids \subseteq Nat
  BY MaxLocksAssumption DEF Ids
<1>2. PICK i \in free_ids : \A j \in free_ids : <<j, i>> \notin OpToRel(<, Nat)
  BY <1>1, NatLessThanWellFounded, WFMin
<1>3. ASSUME NEW j \in free_ids
      PROVE  i <= j
  <2>1. i \in Nat /\ j \in Nat
    BY <1>1
  <2>2. j < i => <<j, i>> \in OpToRel(<, Nat)
    BY <2>1 DEF OpToRel
  <2>3. ~(j < i)
    BY <1>2, <2>2
  <2> QED
    BY <2>1, <2>3
<1> QED
  BY <1>3 DEF FreeId

\* What a live tracked mutex can rely on.
LEMMA LiveIds ==
  ASSUME DebugInv, LockdepTypeOK, RegistryConsistent, MutexesRegistered,
         NEW m \in Tracked, m \in live
  PROVE  /\ id[m] \in Ids \ free_ids
         /\ lock_ref[id[m]] >= 1
         /\ id_to_name_map[id[m]] = NameOf[m]
<1>1. id[m] \in Ids
  BY TrackedAssumption DEF DebugInv, MutexTypeOK, MutexesRegistered
<1>2. m \in UsersOf(id[m]) /\ UsersOf(id[m]) \in SUBSET Mutexes
  BY TrackedAssumption DEF UsersOf
<1>3. lock_ref[id[m]] # 0
  BY <1>1, <1>2, MutexSetsFinite, FS_EmptySet DEF MutexesRegistered
<1>4. lock_ref[id[m]] \in Nat
  BY <1>1 DEF LockdepTypeOK
<1>5. NameOf[m] \in Names
  BY NameOfAssumption, TrackedAssumption
<1> QED
  BY <1>1, <1>3, <1>4, <1>5 DEF RegistryConsistent, MutexesRegistered

\* An id that is counted once has one user.
LEMMA SoleUser ==
  ASSUME MutexesRegistered, NEW m \in Tracked, m \in live, id[m] \in Ids,
         lock_ref[id[m]] = 1, NEW n \in Tracked, n \in live, id[n] = id[m]
  PROVE  n = m
<1>1. {m, n} \subseteq UsersOf(id[m]) /\ UsersOf(id[m]) \in SUBSET Mutexes
  BY TrackedAssumption DEF UsersOf
<1>2. Cardinality(UsersOf(id[m])) = 1
  BY DEF MutexesRegistered
<1>3. PICK x : UsersOf(id[m]) = {x}
  BY <1>1, <1>2, MutexSetsFinite, FS_Singleton
<1> QED
  BY <1>1, <1>3

-----------------------------------------------------------------------------
(* The checker: one lemma per action that calls it.                        *)

\* The checker's tables are consistent when the program starts.
LEMMA CheckerInit == Init => CheckerInv
<1> SUFFICES ASSUME Init PROVE CheckerInv
  OBVIOUS
<1> USE MaxLocksAssumption, NoneAssumption, TrackedAssumption
<1> USE DEF Init, LockdepInit, Ids, NoId
<1>1. LockdepTypeOK
  BY DEF LockdepTypeOK
<1>2. RegistryConsistent
  BY DEF RegistryConsistent
<1>3. MutexesRegistered
  <2>1. \A i \in Ids : UsersOf(i) = {}
    BY DEF UsersOf
  <2> QED
    BY <2>1, FS_EmptySet DEF MutexesRegistered
<1>4. HeldOwned /\ WaitEdges /\ LockOrderAcyclic
  BY DEF HeldOwned, WaitEdges, LockOrderAcyclic
<1> QED
  BY <1>1, <1>2, <1>3, <1>4 DEF CheckerInv

\* A constructor registers its name: a new name gets an id without history,
\* a known one is counted once more.
LEMMA ConstructChecker ==
  ASSUME OrderInv, NEW m \in Mutexes, Construct(m)
  PROVE  CheckerInv'
<1> USE NoneAssumption, TrackedAssumption
<1> USE DEF OrderInv, CheckerInv
<1>1. CASE m \notin Tracked
  <2>1. UNCHANGED <<lockdepVars, id, owner, pc, target>>
    BY <1>1 DEF Construct, Register
  <2>2. \A i \in Ids : UsersOf(i)' = UsersOf(i)
    BY <1>1, <2>1 DEF Construct, Register, UsersOf
  <2>3. MutexesRegistered'
    BY <1>1, <2>1, <2>2 DEF Construct, Register, MutexesRegistered, lockdepVars, registryVars
  <2> QED
    BY <2>1, <2>3 DEF lockdepVars, registryVars, LockdepTypeOK,
       RegistryConsistent, HeldOwned, WaitEdges, LockOrderAcyclic
<1>2. CASE m \in Tracked
  <2>1. PICK i \in Ids : LockdepRegister(NameOf[m], i)
                         /\ id' = [id EXCEPT ![m] = i]
    BY <1>2 DEF Construct, Register
  <2>2. /\ m \notin live /\ live' = live \cup {m}
        /\ UNCHANGED <<held_locks, lock_tree, owner, pc, target>>
    BY <2>1 DEF Construct, Register, LockdepRegister
  <2>3. id[m] = NoId /\ id \in [Mutexes -> Ids \cup {NoId}] /\ NameOf[m] \in Names
    BY <1>2, <2>2, NameOfAssumption DEF MutexesRegistered, DebugInv, MutexTypeOK
  <2>4. RegisterNew(NameOf[m], i) => i \in free_ids
    BY FreeIdIsFree DEF RegisterNew, MaxIdWith, LockdepTypeOK
  <2>5. LockdepTypeOK'
    <3>1. CASE RegisterKnown(NameOf[m], i)
      BY <2>2, <3>1 DEF RegisterKnown, LockdepTypeOK
    <3>2. CASE RegisterNew(NameOf[m], i)
      <4>1. current_max_id' \in 0 .. MaxLocks
        BY <3>2, MaxLocksAssumption DEF RegisterNew, MaxIdWith, LockdepTypeOK, Ids
      <4> QED
        BY <2>2, <2>3, <3>2, <4>1 DEF RegisterNew, MaxIdWith, LockdepTypeOK
    <3> QED
      BY <2>1, <3>1, <3>2 DEF LockdepRegister
  <2>6. RegistryConsistent'
    <3>1. CASE RegisterKnown(NameOf[m], i)
      BY <2>2, <2>3, <3>1 DEF RegisterKnown, RegistryConsistent, LockdepTypeOK
    <3>2. CASE RegisterNew(NameOf[m], i)
      BY <2>2, <2>3, <2>4, <3>2, MaxLocksAssumption
         DEF RegisterNew, MaxIdWith, RegistryConsistent, LockdepTypeOK, Ids, NoId
    <3> QED
      BY <2>1, <3>1, <3>2 DEF LockdepRegister
  <2>7. MutexesRegistered'
    <3>1. lock_ref' = [lock_ref EXCEPT ![i] = @ + 1] /\ name_to_id_map'[NameOf[m]] = i
      BY <2>1, <2>3 DEF LockdepRegister, RegisterKnown, RegisterNew, MaxIdWith, LockdepTypeOK
    <3>2. ASSUME NEW n \in Tracked, n \in live
          PROVE  name_to_id_map'[NameOf[n]] = id'[n] /\ id'[n] # NoId
      <4>1. n # m /\ id'[n] = id[n] /\ id[n] # NoId
        BY <2>1, <2>2, <2>3, <3>2 DEF MutexesRegistered
      <4>2. name_to_id_map[NameOf[n]] = id[n] /\ NameOf[n] \in Names
        BY <3>2, NameOfAssumption DEF MutexesRegistered
      <4> QED
        BY <2>1, <2>3, <4>1, <4>2
           DEF LockdepRegister, RegisterKnown, RegisterNew, MaxIdWith, LockdepTypeOK
    <3>3. ASSUME NEW j \in Ids
          PROVE  lock_ref'[j] = Cardinality(UsersOf(j)')
      <4>1. UsersOf(j) \in SUBSET Mutexes /\ m \notin UsersOf(j)
        BY <2>2 DEF UsersOf
      <4>2. UsersOf(j)' = IF j = i THEN UsersOf(j) \cup {m} ELSE UsersOf(j)
        BY <1>2, <2>1, <2>2, <2>3 DEF UsersOf
      <4>3. lock_ref[j] = Cardinality(UsersOf(j)) /\ lock_ref \in [Ids -> Nat]
        BY DEF MutexesRegistered, LockdepTypeOK
      <4> QED
        BY <3>1, <4>1, <4>2, <4>3, MutexSetsFinite, FS_AddElement
    <3>4. id'[m] = i /\ i # NoId
      BY <2>1, <2>3, MaxLocksAssumption DEF Ids, NoId
    <3>5. \A n \in Tracked : n \notin live' => id'[n] = NoId
      BY <2>1, <2>2, <2>3 DEF MutexesRegistered
    <3> QED
      BY <2>2, <3>1, <3>2, <3>3, <3>4, <3>5 DEF MutexesRegistered
  <2>8. HeldOwned'
    <3>1. \A n \in Tracked, t \in Threads : owner[n] = t => n # m
      BY <2>2 DEF DebugInv, CallsSound
    <3> QED
      BY <2>1, <2>2, <2>3, <3>1 DEF HeldOwned
  <2>9. WaitEdges'
    <3>1. \A t \in Threads : pc[t] # "idle" => target[t] # m
      BY <2>2 DEF DebugInv, CallsSound
    <3> QED
      BY <2>1, <2>2, <2>3, <3>1 DEF WaitEdges
  <2>10. LockOrderAcyclic'
    BY <2>2 DEF LockOrderAcyclic
  <2> QED
    BY <2>5, <2>6, <2>7, <2>8, <2>9, <2>10
<1> QED
  BY <1>1, <1>2

\* A destructor gives the id back with its last user, and its edges go with
\* it; no thread holds that id or waits for it.
LEMMA DestroyChecker ==
  ASSUME OrderInv, NEW m \in Mutexes, Destroy(m)
  PROVE  CheckerInv'
<1> USE NoneAssumption, TrackedAssumption
<1> USE DEF OrderInv, CheckerInv
<1>1. CASE ~(owner[m] = None /\ locked_count[m] = 0)
  <2>1. UNCHANGED <<lockdepVars, live, id, owner, pc, target>>
    BY <1>1 DEF Destroy, Unregister
  <2> QED
    BY <2>1 DEF lockdepVars, registryVars, LockdepTypeOK, RegistryConsistent,
       MutexesRegistered, UsersOf, HeldOwned, WaitEdges, LockOrderAcyclic
<1>2. CASE owner[m] = None /\ locked_count[m] = 0 /\ m \notin Tracked
  <2>1. UNCHANGED <<lockdepVars, owner, pc, target>> /\ live' = live \ {m}
    BY <1>2 DEF Destroy, Unregister
  <2>2. \A n \in Tracked : id'[n] = id[n] /\ (n \in live' <=> n \in live)
    BY <1>2, <2>1 DEF Destroy, Unregister, DebugInv, MutexTypeOK
  <2>3. \A i \in Ids : UsersOf(i)' = UsersOf(i)
    BY <2>2 DEF UsersOf
  <2>4. MutexesRegistered'
    BY <2>1, <2>2, <2>3 DEF MutexesRegistered, lockdepVars, registryVars
  <2>5. HeldOwned' /\ WaitEdges'
    BY <2>1, <2>2 DEF lockdepVars, HeldOwned, WaitEdges
  <2> QED
    BY <2>1, <2>4, <2>5 DEF lockdepVars, registryVars, LockdepTypeOK,
       RegistryConsistent, LockOrderAcyclic
<1>3. CASE owner[m] = None /\ locked_count[m] = 0 /\ m \in Tracked
  <2> DEFINE i == id[m]
  <2>1. /\ m \in live /\ live' = live \ {m}
        /\ id' = [id EXCEPT ![m] = NoId]
        /\ LockdepUnregister(i)
        /\ UNCHANGED <<owner, pc, target>>
        /\ \A t \in Threads : target[t] # m
    BY <1>3 DEF Destroy, Unregister
  <2>2. /\ i \in Ids \ free_ids /\ lock_ref[i] >= 1
        /\ id_to_name_map[i] = NameOf[m] /\ NameOf[m] \in Names
    BY <1>3, <2>1, LiveIds, NameOfAssumption
  <2>3. \A n \in Tracked : n # m /\ n \in live /\ id[n] = i => lock_ref[i] # 1
    BY <1>3, <2>1, <2>2, SoleUser
  <2>4. /\ id'[m] = NoId
        /\ \A n \in Mutexes : n # m => id'[n] = id[n]
    BY <2>1 DEF DebugInv, MutexTypeOK
  <2> HIDE DEF i
  <2>5. LockdepTypeOK'
    BY <2>1, <2>2 DEF LockdepUnregister, LastUser, LockdepTypeOK, WithoutId
  <2>6. RegistryConsistent'
    <3>1. CASE lock_ref[i] = 1
      <4>1. NoId \notin Ids
        BY DEF Ids, NoId
      <4>2. /\ free_ids' = free_ids \cup {i} /\ last_free_lock_id' = i
            /\ id_to_name_map' = [id_to_name_map EXCEPT ![i] = None]
            /\ name_to_id_map' = [name_to_id_map EXCEPT ![NameOf[m]] = NoId]
            /\ lock_ref' = [lock_ref EXCEPT ![i] = 0]
            /\ lock_tree' = WithoutId(lock_tree, i) /\ UNCHANGED current_max_id
        <5>1. lock_ref' = [lock_ref EXCEPT ![i] = lock_ref[i] - 1]
          BY <2>1 DEF LockdepUnregister
        <5>2. LastUser(i)
          BY <3>1 DEF LastUser
        <5>3. name_to_id_map' = [name_to_id_map EXCEPT ![id_to_name_map[i]] = NoId]
          BY <2>1, <5>2 DEF LockdepUnregister
        <5>4. /\ free_ids' = free_ids \cup {i} /\ last_free_lock_id' = i
              /\ id_to_name_map' = [id_to_name_map EXCEPT ![i] = None]
              /\ lock_tree' = WithoutId(lock_tree, i) /\ UNCHANGED current_max_id
          BY <2>1, <5>2 DEF LockdepUnregister
        <5> QED
          BY <2>2, <3>1, <5>1, <5>3, <5>4
      <4>3. \A e \in lock_tree' : e[1] \notin free_ids' /\ e[2] \notin free_ids'
        BY <2>2, <4>2 DEF WithoutId, RegistryConsistent, LockdepTypeOK
      <4>4. \A j \in Ids, n \in Names :
              id_to_name_map'[j] = n <=> name_to_id_map'[n] = j
        BY <2>2, <4>1, <4>2 DEF RegistryConsistent, LockdepTypeOK
      <4>5. \A j \in Ids : j \in free_ids' <=> id_to_name_map'[j] = None
        BY <2>2, <4>2 DEF RegistryConsistent, LockdepTypeOK
      <4>6. \A j \in Ids : lock_ref'[j] = 0 <=> j \in free_ids'
        BY <2>2, <4>2 DEF RegistryConsistent, LockdepTypeOK
      <4>7. /\ last_free_lock_id' \in free_ids'
            /\ \A j \in Ids : j \notin free_ids' => j < current_max_id'
        BY <4>2 DEF RegistryConsistent
      <4> QED
        BY <4>3, <4>4, <4>5, <4>6, <4>7 DEF RegistryConsistent
    <3>2. CASE lock_ref[i] # 1
      BY <2>1, <2>2, <3>2 DEF LockdepUnregister, LastUser, LockdepTypeOK, RegistryConsistent
    <3> QED
      BY <3>1, <3>2
  <2>7. MutexesRegistered'
    <3>1. ASSUME NEW n \in Tracked, n \in live, n # m
          PROVE  name_to_id_map'[NameOf[n]] = id'[n] /\ id'[n] # NoId
      <4>1. name_to_id_map[NameOf[n]] = id[n] /\ NameOf[n] \in Names /\ id[n] # NoId
        BY <3>1, NameOfAssumption DEF MutexesRegistered
      <4>2. lock_ref[i] = 1 => NameOf[n] # NameOf[m]
        BY <2>2, <2>3, <3>1, <4>1 DEF RegistryConsistent
      <4> QED
        BY <2>1, <2>2, <2>4, <3>1, <4>1, <4>2 DEF LockdepUnregister, LastUser, LockdepTypeOK
    <3>2. ASSUME NEW j \in Ids
          PROVE  lock_ref'[j] = Cardinality(UsersOf(j)')
      <4>1. UsersOf(j) \in SUBSET Mutexes /\ (m \in UsersOf(j) <=> j = i)
        BY <1>3, <2>1 DEF UsersOf, i
      <4>2. UsersOf(j)' = UsersOf(j) \ {m}
        BY <2>1, <2>4 DEF UsersOf
      <4>3. lock_ref[j] = Cardinality(UsersOf(j)) /\ lock_ref \in [Ids -> Nat]
        BY DEF MutexesRegistered, LockdepTypeOK
      <4>4. lock_ref' = [lock_ref EXCEPT ![i] = @ - 1]
        BY <2>1 DEF LockdepUnregister, LastUser
      <4> QED
        BY <4>1, <4>2, <4>3, <4>4, MutexSetsFinite, FS_RemoveElement
    <3>3. \A n \in Tracked : n \notin live' => id'[n] = NoId
      BY <2>1, <2>4 DEF MutexesRegistered
    <3> QED
      BY <2>1, <3>1, <3>2, <3>3 DEF MutexesRegistered
  <2>8. HeldOwned'
    BY <1>3, <2>1, <2>4 DEF HeldOwned, LockdepUnregister, LastUser
  <2>9. WaitEdges'
    <3>1. SUFFICES ASSUME NEW t \in Threads, pc[t] \in {"trying", "blocked"},
                          target[t] \in Tracked, NEW h \in held_locks[t]
                   PROVE  <<h, id[target[t]]>> \in lock_tree'
      BY <2>1, <2>4 DEF WaitEdges, LockdepUnregister, LastUser
    <3>2. <<h, id[target[t]]>> \in lock_tree
      BY <3>1 DEF WaitEdges
    <3>3. PICK n \in Tracked : owner[n] = t /\ id[n] = h
      BY <3>1 DEF HeldOwned
    <3>4. n \in live /\ target[t] \in live /\ n # m /\ target[t] # m
      BY <1>3, <2>1, <3>1, <3>3 DEF DebugInv, CallsSound
    <3>5. lock_ref[i] = 1 => h # i /\ id[target[t]] # i
      BY <2>3, <3>1, <3>3, <3>4
    <3> QED
      BY <2>1, <3>2, <3>5 DEF LockdepUnregister, LastUser, WithoutId
  <2>10. LockOrderAcyclic'
    <3>1. lock_tree' \subseteq lock_tree
      BY <2>1 DEF LockdepUnregister, LastUser, WithoutId
    <3> QED
      BY <3>1, FewerEdgesAcyclic
  <2> QED
    BY <2>5, <2>6, <2>7, <2>8, <2>9, <2>10
<1> QED
  BY <1>1, <1>2, <1>3

\* Steps that leave Lockdep alone, and keep every id, keep the invariant if
\* no held mutex is given up and no thread starts to wait.
LEMMA QuietChecker ==
  ASSUME OrderInv, UNCHANGED <<lockdepVars, live, id>>,
         \A t \in Threads, m \in Tracked :
           /\ owner[m] = t /\ ~(target[t] = m /\ pc[t] = "releasing")
           => owner'[m] = t /\ ~(target'[t] = m /\ pc'[t] = "releasing"),
         \A t \in Threads :
           pc'[t] \in {"trying", "blocked"}
             => pc[t] \in {"trying", "blocked"} /\ target'[t] = target[t]
  PROVE  CheckerInv'
<1> USE DEF OrderInv, CheckerInv, lockdepVars, registryVars
<1>1. LockdepTypeOK' /\ RegistryConsistent' /\ LockOrderAcyclic'
  BY DEF LockdepTypeOK, RegistryConsistent, LockOrderAcyclic
<1>2. MutexesRegistered'
  <2>1. \A i \in Ids : UsersOf(i)' = UsersOf(i)
    BY DEF UsersOf
  <2>2. /\ \A n \in Tracked : n \in live' <=> id'[n] # NoId
        /\ \A n \in Tracked : n \in live' => name_to_id_map'[NameOf[n]] = id'[n]
    BY DEF MutexesRegistered
  <2>3. \A i \in Ids : lock_ref'[i] = Cardinality(UsersOf(i)')
    BY <2>1 DEF MutexesRegistered
  <2> QED
    BY <2>2, <2>3 DEF MutexesRegistered
<1>3. HeldOwned'
  <2>1. SUFFICES ASSUME NEW t \in Threads, NEW h \in held_locks[t]
                 PROVE  \E n \in Tracked :
                          /\ owner'[n] = t /\ id'[n] = h
                          /\ ~(target'[t] = n /\ pc'[t] = "releasing")
    BY DEF HeldOwned
  <2>2. PICK n \in Tracked : /\ owner[n] = t /\ id[n] = h
                             /\ ~(target[t] = n /\ pc[t] = "releasing")
    BY DEF HeldOwned
  <2> QED
    BY <2>2
<1>4. WaitEdges'
  BY DEF WaitEdges
<1> QED
  BY <1>1, <1>2, <1>3, <1>4

\* lock() asks first: the new edges close no cycle and touch no free id.
LEMMA LockBeginChecker ==
  ASSUME OrderInv, NEW t \in Threads, NEW m \in Mutexes, LockBegin(t, m)
  PROVE  CheckerInv'
<1> USE NoneAssumption, TrackedAssumption
<1> USE DEF OrderInv, CheckerInv
<1>1. UNCHANGED <<live, id, owner, registryVars, held_locks>>
  BY DEF LockBegin, mutexVars, lockdepVars, LockdepWillLock
<1>2. \/ UNCHANGED <<lock_tree, pc, target>>
      \/ m \notin Tracked /\ UNCHANGED lock_tree /\ Enter(t, m, "trying")
      \/ m \in Tracked /\ LockdepWillLock(t, id[m]) /\ Enter(t, m, "trying")
  BY DEF LockBegin, lockdepVars
<1>3. CASE UNCHANGED <<lock_tree, pc, target>>
  BY <1>1, <1>3, QuietChecker DEF lockdepVars
<1>4. CASE m \notin Tracked /\ UNCHANGED lock_tree /\ Enter(t, m, "trying")
  <2>1. HeldOwned'
    BY <1>1, <1>4 DEF HeldOwned, Enter, DebugInv, MutexTypeOK
  <2>2. WaitEdges'
    BY <1>1, <1>4 DEF WaitEdges, Enter, DebugInv, MutexTypeOK
  <2>3. LockdepTypeOK' /\ RegistryConsistent' /\ LockOrderAcyclic'
    BY <1>1, <1>4 DEF registryVars, LockdepTypeOK, RegistryConsistent,
                      LockOrderAcyclic
  <2>4. \A i \in Ids : UsersOf(i)' = UsersOf(i)
    BY <1>1 DEF UsersOf
  <2>5. MutexesRegistered'
    BY <1>1, <2>4 DEF registryVars, MutexesRegistered
  <2> QED
    BY <2>1, <2>2, <2>3, <2>5
<1>5. CASE m \in Tracked /\ LockdepWillLock(t, id[m]) /\ Enter(t, m, "trying")
  <2>1. lock_tree' = lock_tree \cup (held_locks[t] \X {id[m]})
    BY <1>5 DEF LockdepWillLock
  <2>2. id[m] \in Ids \ free_ids
    BY <1>5, LiveIds DEF LockBegin
  <2>3. \A h \in held_locks[t] : h \in Ids \ free_ids
    <3>1. SUFFICES ASSUME NEW h \in held_locks[t] PROVE h \in Ids \ free_ids
      OBVIOUS
    <3>2. PICK n \in Tracked : owner[n] = t /\ id[n] = h
      BY DEF HeldOwned
    <3>3. n \in live
      BY <3>2 DEF DebugInv, CallsSound
    <3> QED
      BY <3>2, <3>3, LiveIds
  <2>4. LockdepTypeOK' /\ RegistryConsistent'
    BY <1>1, <2>1, <2>2, <2>3 DEF registryVars, LockdepTypeOK, RegistryConsistent
  <2>5. MutexesRegistered'
    <3>1. \A i \in Ids : UsersOf(i)' = UsersOf(i)
      BY <1>1 DEF UsersOf
    <3> QED
      BY <1>1, <3>1 DEF registryVars, MutexesRegistered
  <2>6. HeldOwned'
    BY <1>1, <1>5 DEF HeldOwned, Enter, DebugInv, MutexTypeOK
  <2>7. WaitEdges'
    BY <1>1, <1>5, <2>1 DEF WaitEdges, Enter, DebugInv, MutexTypeOK
  <2>8. LockOrderAcyclic'
    BY <1>5, <2>2, WillLockKeepsAcyclic
  <2> QED
    BY <2>4, <2>5, <2>6, <2>7, <2>8
<1> QED
  BY <1>2, <1>3, <1>4, <1>5

\* _locked() and _will_unlock() move one id into and out of held_locks.
LEMMA HeldChecker ==
  ASSUME OrderInv, NEW t \in Threads, Locked(t) \/ WillUnlock(t)
  PROVE  CheckerInv'
<1> USE NoneAssumption, TrackedAssumption
<1> USE DEF OrderInv, CheckerInv, Goto, mutexVars
<1> DEFINE m == target[t]
<1>1. /\ m \in Tracked /\ owner[m] = t /\ m \in live /\ id[m] \in Ids
      /\ UNCHANGED <<registryVars, lock_tree, live, id, owner, target>>
  <2>1. m \in Tracked /\ owner[m] = t /\ m \in live
    BY DEF Locked, WillUnlock, DebugInv, CallsSound, Transit
  <2>2. UNCHANGED <<registryVars, lock_tree, live, id, owner, target>>
    BY DEF Locked, WillUnlock, LockdepLocked, LockdepWillUnlock
  <2> QED
    BY <2>1, <2>2, LiveIds
<1>2. \A u \in Threads : u # t => held_locks'[u] = held_locks[u] /\ pc'[u] = pc[u]
  BY DEF Locked, WillUnlock, LockdepLocked, LockdepWillUnlock, LockdepTypeOK,
         DebugInv, MutexTypeOK
<1>3. \/ /\ pc'[t] = "marking" /\ pc[t] = "acquired"
         /\ held_locks'[t] = held_locks[t] \cup {id[m]}
      \/ /\ pc'[t] = "releasing" /\ pc[t] = "forgetting"
         /\ held_locks'[t] = held_locks[t] \ {id[m]}
  BY DEF Locked, WillUnlock, LockdepLocked, LockdepWillUnlock, LockdepTypeOK,
         DebugInv, MutexTypeOK
<1>4. LockdepTypeOK'
  <2>1. held_locks' \in [Threads -> SUBSET Ids]
    BY <1>1 DEF Locked, WillUnlock, LockdepLocked, LockdepWillUnlock, LockdepTypeOK
  <2> QED
    BY <1>1, <2>1 DEF registryVars, LockdepTypeOK
<1>5. RegistryConsistent' /\ LockOrderAcyclic' /\ MutexesRegistered'
  <2>1. RegistryConsistent' /\ LockOrderAcyclic'
    BY <1>1 DEF registryVars, RegistryConsistent, LockOrderAcyclic
  <2>2. \A i \in Ids : UsersOf(i)' = UsersOf(i)
    BY <1>1 DEF UsersOf
  <2>3. MutexesRegistered'
    BY <1>1, <2>2 DEF registryVars, MutexesRegistered
  <2> QED
    BY <2>1, <2>3
<1> HIDE DEF m
<1>6. HeldOwned'
  <2>1. SUFFICES ASSUME NEW u \in Threads, NEW h \in held_locks'[u]
                 PROVE  \E n \in Tracked : /\ owner[n] = u /\ id[n] = h
                                           /\ ~(target[u] = n /\ pc'[u] = "releasing")
    BY <1>1 DEF HeldOwned
  <2>2. CASE u # t
    BY <1>2, <2>1, <2>2 DEF HeldOwned
  <2>3. CASE u = t /\ h = id[m]
    BY <1>1, <1>3, <2>1, <2>3
  <2>4. CASE u = t /\ h # id[m]
    <3>1. h \in held_locks[t]
      BY <1>3, <2>1, <2>4
    <3>2. PICK n \in Tracked : owner[n] = t /\ id[n] = h
      BY <3>1 DEF HeldOwned
    <3>3. target[t] # n
      BY <2>4, <3>2 DEF m
    <3> QED
      BY <2>4, <3>2, <3>3
  <2> QED
    BY <2>2, <2>3, <2>4
<1>7. WaitEdges'
  BY <1>1, <1>2, <1>3 DEF WaitEdges
<1> QED
  BY <1>4, <1>5, <1>6, <1>7

\* Every step keeps the debug fields and the checker's tables right: the calls
\* into Lockdep one by one, the other steps by QuietChecker.
LEMMA OrderStep == OrderInv /\ [Next]_vars => OrderInv'
<1> SUFFICES ASSUME OrderInv, [Next]_vars
             PROVE  CheckerInv'
  BY DebugStep DEF OrderInv
<1> USE NoneAssumption, NoMutexAssumption, TrackedAssumption
<1> USE DEF OrderInv, DebugInv, AfterAcquire, Enter, Goto, Return, mutexVars
<1>1. ASSUME NEW m \in Mutexes, Construct(m) \/ Destroy(m)
      PROVE  CheckerInv'
  BY <1>1, ConstructChecker, DestroyChecker
<1>2. ASSUME NEW t \in Threads, NEW m \in Mutexes, LockBegin(t, m)
      PROVE  CheckerInv'
  BY <1>2, LockBeginChecker
<1>3. ASSUME NEW t \in Threads, Locked(t) \/ WillUnlock(t)
      PROVE  CheckerInv'
  BY <1>3, HeldChecker
<1>4. ASSUME NEW t \in Threads, NEW m \in Mutexes, TryLock(t, m)
      PROVE  CheckerInv'
  <2>1. UNCHANGED <<lockdepVars, live, id>>
    BY <1>4 DEF TryLock
  <2>2. \A u \in Threads, n \in Tracked :
          /\ owner[n] = u /\ ~(target[u] = n /\ pc[u] = "releasing")
          => owner'[n] = u /\ ~(target'[u] = n /\ pc'[u] = "releasing")
    BY <1>4 DEF TryLock, MutexTypeOK, CallsSound, Transit
  <2>3. \A u \in Threads :
          pc'[u] \in {"trying", "blocked"}
            => pc[u] \in {"trying", "blocked"} /\ target'[u] = target[u]
    BY <1>4 DEF TryLock, MutexTypeOK
  <2> QED
    BY <2>1, <2>2, <2>3, QuietChecker
<1>5. ASSUME NEW t \in Threads, NEW m \in Mutexes, UnlockBegin(t, m)
      PROVE  CheckerInv'
  <2>1. UNCHANGED <<lockdepVars, live, id>>
    BY <1>5 DEF UnlockBegin
  <2>2. \A u \in Threads, n \in Tracked :
          /\ owner[n] = u /\ ~(target[u] = n /\ pc[u] = "releasing")
          => owner'[n] = u /\ ~(target'[u] = n /\ pc'[u] = "releasing")
    BY <1>5 DEF UnlockBegin, MutexTypeOK, CallsSound, Transit
  <2>3. \A u \in Threads :
          pc'[u] \in {"trying", "blocked"}
            => pc[u] \in {"trying", "blocked"} /\ target'[u] = target[u]
    BY <1>5 DEF UnlockBegin, MutexTypeOK
  <2> QED
    BY <2>1, <2>2, <2>3, QuietChecker
<1>6. ASSUME NEW t \in Threads, NEW m \in Mutexes, AskCount(t, m)
      PROVE  CheckerInv'
  <2>1. UNCHANGED <<lockdepVars, live, id>>
    BY <1>6 DEF AskCount
  <2>2. \A u \in Threads, n \in Tracked :
          /\ owner[n] = u /\ ~(target[u] = n /\ pc[u] = "releasing")
          => owner'[n] = u /\ ~(target'[u] = n /\ pc'[u] = "releasing")
    BY <1>6 DEF AskCount, MutexTypeOK, CallsSound, Transit
  <2>3. \A u \in Threads :
          pc'[u] \in {"trying", "blocked"}
            => pc[u] \in {"trying", "blocked"} /\ target'[u] = target[u]
    BY <1>6 DEF AskCount, MutexTypeOK
  <2> QED
    BY <2>1, <2>2, <2>3, QuietChecker
<1>7. ASSUME NEW t \in Threads, LockTry(t)
      PROVE  CheckerInv'
  <2>1. UNCHANGED <<lockdepVars, live, id>>
    BY <1>7 DEF LockTry, LockImpl
  <2>2. \A u \in Threads, n \in Tracked :
          /\ owner[n] = u /\ ~(target[u] = n /\ pc[u] = "releasing")
          => owner'[n] = u /\ ~(target'[u] = n /\ pc'[u] = "releasing")
    BY <1>7 DEF LockTry, LockImpl, MutexTypeOK, CallsSound, Transit
  <2>3. \A u \in Threads :
          pc'[u] \in {"trying", "blocked"}
            => pc[u] \in {"trying", "blocked"} /\ target'[u] = target[u]
    BY <1>7 DEF LockTry, LockImpl, MutexTypeOK
  <2> QED
    BY <2>1, <2>2, <2>3, QuietChecker
<1>8. ASSUME NEW t \in Threads, LockAcquire(t)
      PROVE  CheckerInv'
  <2>1. UNCHANGED <<lockdepVars, live, id>>
    BY <1>8 DEF LockAcquire
  <2>2. \A u \in Threads, n \in Tracked :
          /\ owner[n] = u /\ ~(target[u] = n /\ pc[u] = "releasing")
          => owner'[n] = u /\ ~(target'[u] = n /\ pc'[u] = "releasing")
    BY <1>8 DEF LockAcquire, MutexTypeOK, CallsSound, Transit
  <2>3. \A u \in Threads :
          pc'[u] \in {"trying", "blocked"}
            => pc[u] \in {"trying", "blocked"} /\ target'[u] = target[u]
    BY <1>8 DEF LockAcquire, MutexTypeOK
  <2> QED
    BY <2>1, <2>2, <2>3, QuietChecker
<1>9. ASSUME NEW t \in Threads, PostLock(t)
      PROVE  CheckerInv'
  <2>1. UNCHANGED <<lockdepVars, live, id>>
    BY <1>9 DEF PostLock
  <2>2. \A u \in Threads, n \in Tracked :
          /\ owner[n] = u /\ ~(target[u] = n /\ pc[u] = "releasing")
          => owner'[n] = u /\ ~(target'[u] = n /\ pc'[u] = "releasing")
    BY <1>9 DEF PostLock, MutexTypeOK, CallsSound, Transit
  <2>3. \A u \in Threads :
          pc'[u] \in {"trying", "blocked"}
            => pc[u] \in {"trying", "blocked"} /\ target'[u] = target[u]
    BY <1>9 DEF PostLock, MutexTypeOK
  <2> QED
    BY <2>1, <2>2, <2>3, QuietChecker
<1>10. ASSUME NEW t \in Threads, PostLockCount(t)
      PROVE  CheckerInv'
  <2>1. UNCHANGED <<lockdepVars, live, id>>
    BY <1>10 DEF PostLockCount
  <2>2. \A u \in Threads, n \in Tracked :
          /\ owner[n] = u /\ ~(target[u] = n /\ pc[u] = "releasing")
          => owner'[n] = u /\ ~(target'[u] = n /\ pc'[u] = "releasing")
    BY <1>10 DEF PostLockCount, MutexTypeOK, CallsSound, Transit
  <2>3. \A u \in Threads :
          pc'[u] \in {"trying", "blocked"}
            => pc[u] \in {"trying", "blocked"} /\ target'[u] = target[u]
    BY <1>10 DEF PostLockCount, MutexTypeOK
  <2> QED
    BY <2>1, <2>2, <2>3, QuietChecker
<1>11. ASSUME NEW t \in Threads, UnlockEnd(t)
      PROVE  CheckerInv'
  <2>1. UNCHANGED <<lockdepVars, live, id>>
    BY <1>11 DEF UnlockEnd
  <2>2. \A u \in Threads, n \in Tracked :
          /\ owner[n] = u /\ ~(target[u] = n /\ pc[u] = "releasing")
          => owner'[n] = u /\ ~(target'[u] = n /\ pc'[u] = "releasing")
    BY <1>11 DEF UnlockEnd, MutexTypeOK, CallsSound, Transit
  <2>3. \A u \in Threads :
          pc'[u] \in {"trying", "blocked"}
            => pc[u] \in {"trying", "blocked"} /\ target'[u] = target[u]
    BY <1>11 DEF UnlockEnd, MutexTypeOK
  <2> QED
    BY <2>1, <2>2, <2>3, QuietChecker
<1>12. ASSUME NEW t \in Threads, AskOwner(t)
      PROVE  CheckerInv'
  <2>1. UNCHANGED <<lockdepVars, live, id>>
    BY <1>12 DEF AskOwner
  <2>2. \A u \in Threads, n \in Tracked :
          /\ owner[n] = u /\ ~(target[u] = n /\ pc[u] = "releasing")
          => owner'[n] = u /\ ~(target'[u] = n /\ pc'[u] = "releasing")
    BY <1>12 DEF AskOwner, MutexTypeOK, CallsSound, Transit
  <2>3. \A u \in Threads :
          pc'[u] \in {"trying", "blocked"}
            => pc[u] \in {"trying", "blocked"} /\ target'[u] = target[u]
    BY <1>12 DEF AskOwner, MutexTypeOK
  <2> QED
    BY <2>1, <2>2, <2>3, QuietChecker
<1>13. CASE UNCHANGED vars
  BY <1>13, QuietChecker DEF vars
<1> QED
  BY <1>1, <1>2, <1>3, <1>4, <1>5, <1>6, <1>7, <1>8, <1>9, <1>10, <1>11, <1>12, <1>13 DEF Next, ThreadNext, Dead

\* The inductive invariant holds throughout, for any number of threads and mutexes.
LEMMA OrderInvariant == Spec => []OrderInv
<1>1. Init => OrderInv
  BY DebugInit, CheckerInit DEF OrderInv
<1> QED
  BY <1>1, OrderStep, PTL DEF Spec

\* Every variable keeps its type: no reference count of Lockdep goes below
\* zero, and every id fits in the tables of MAX_LOCKS entries.
THEOREM TypeCorrect == Spec => []TypeOK
<1>1. OrderInv => TypeOK
  BY DEF OrderInv, DebugInv, CheckerInv, TypeOK
<1> QED
  BY <1>1, OrderInvariant, PTL

\* The recorded lock order never has a cycle, whatever the names, so
\* does_follow() always terminates.
THEOREM OrderAcyclic == Spec => []LockOrderAcyclic
<1>1. OrderInv => LockOrderAcyclic
  BY DEF OrderInv, CheckerInv
<1> QED
  BY <1>1, OrderInvariant, PTL

\* lockdep_register() and lockdep_unregister() keep the maps, the bitmap and
\* the reference counts in step with the mutexes that exist, and a reused id
\* has no edges of its earlier owner.
THEOREM RegistrySound == Spec => [](RegistryConsistent /\ MutexesRegistered)
<1>1. OrderInv => RegistryConsistent /\ MutexesRegistered
  BY DEF OrderInv, CheckerInv
<1> QED
  BY <1>1, OrderInvariant, PTL

-----------------------------------------------------------------------------
(* Mutexes of distinct names.                                              *)

\* Tracked mutexes with names of their own have ids of their own.
LEMMA DistinctIds ==
  ASSUME DistinctNames, OrderInv, NEW m \in Tracked, NEW n \in Tracked,
         m \in live, n \in live, id[m] = id[n]
  PROVE  m = n
BY LiveIds DEF DistinctNames, OrderInv, CheckerInv

\* t has n and Lockdep should know.
Has(t, n) == owner[n] = t /\ ~(target[t] = n /\ pc[t] \in {"acquired", "releasing"})

\* HeldExact, with Has.
LEMMA HeldExactHas ==
  HeldExact <=> \A t \in Threads :
                  held_locks[t] = {id[n] : n \in {k \in Tracked : Has(t, k)}}
BY DEF HeldExact, Has

\* Steps that move no tracked mutex into or out of a thread's hands.
LEMMA QuietHeld ==
  ASSUME HeldExact, UNCHANGED held_locks,
         \A t \in Threads, n \in Tracked :
           (Has(t, n)' <=> Has(t, n)) /\ (Has(t, n) => id'[n] = id[n])
  PROVE  HeldExact'
<1>1. \A t \in Threads :
        held_locks'[t] = {id'[n] : n \in {k \in Tracked : Has(t, k)'}}
  BY HeldExactHas
<1> QED
  BY <1>1 DEF HeldExact, Has

\* With ids of their own, every step keeps held_locks exact: _locked() adds what
\* the thread has just taken and _will_unlock() removes no other mutex.
LEMMA HeldStep ==
  ASSUME DistinctNames, OrderInv, HeldExact, [Next]_vars
  PROVE  HeldExact'
<1> USE NoneAssumption, NoMutexAssumption, TrackedAssumption
<1> USE DEF OrderInv, DebugInv, AfterAcquire, Enter, Goto, Return, mutexVars
<1>1. ASSUME NEW m \in Mutexes, Construct(m) \/ Destroy(m)
      PROVE  HeldExact'
  <2>1. UNCHANGED <<held_locks, owner, pc, target>>
    BY <1>1 DEF Construct, Register, Destroy, Unregister, lockdepVars, LockdepRegister, LockdepUnregister, LastUser
  <2>2. id' = id \/ (owner[m] = None /\ \A n \in Mutexes : n # m => id'[n] = id[n])
    <3>1. m \notin live => owner[m] = None
      BY DEF CallsSound
    <3> QED
      BY <1>1, <3>1 DEF Construct, Register, Destroy, Unregister, MutexTypeOK
  <2>3. \A t \in Threads, n \in Tracked :
          (Has(t, n)' <=> Has(t, n)) /\ (Has(t, n) => id'[n] = id[n])
    BY <2>1, <2>2 DEF Has
  <2> QED
    BY <2>1, <2>3, QuietHeld
<1>2. ASSUME NEW t \in Threads, Locked(t) \/ WillUnlock(t)
      PROVE  HeldExact'
  <2>0. PICK m \in Mutexes : m = target[t]
    BY <1>2 DEF Locked, WillUnlock, CallsSound
  <2>1. /\ m \in Tracked /\ m \in live /\ owner[m] = t
        /\ UNCHANGED <<id, owner, target>>
    BY <1>2, <2>0 DEF Locked, WillUnlock, CallsSound, Transit
  <2>2. \A u \in Threads : u # t => held_locks'[u] = held_locks[u] /\ pc'[u] = pc[u]
    BY <1>2 DEF Locked, WillUnlock, LockdepLocked, LockdepWillUnlock,
                CheckerInv, LockdepTypeOK, MutexTypeOK
  <2>3. \/ /\ pc'[t] = "marking" /\ pc[t] = "acquired"
           /\ held_locks'[t] = held_locks[t] \cup {id[m]}
        \/ /\ pc'[t] = "releasing" /\ pc[t] = "forgetting"
           /\ held_locks'[t] = held_locks[t] \ {id[m]}
    BY <1>2, <2>0 DEF Locked, WillUnlock, LockdepLocked, LockdepWillUnlock,
                CheckerInv, LockdepTypeOK, MutexTypeOK
  <2>4. \A n \in Tracked : Has(t, n) => n \in live
    BY DEF Has, CallsSound
  <2>5. \A n \in Tracked : n # m => (Has(t, n)' <=> Has(t, n))
    BY <2>0, <2>1 DEF Has
  <2>6. ASSUME NEW u \in Threads
        PROVE  held_locks'[u] = {id'[n] : n \in {k \in Tracked : Has(u, k)'}}
    <3>1. held_locks[u] = {id[n] : n \in {k \in Tracked : Has(u, k)}}
      BY HeldExactHas
    <3>2. CASE u # t
      BY <2>1, <2>2, <3>1, <3>2 DEF Has
    <3>3. CASE u = t /\ pc'[t] = "marking"
      <4>1. Has(t, m)'
        BY <2>1, <3>3 DEF Has
      <4>2. held_locks'[t] = held_locks[t] \cup {id[m]} /\ ~Has(t, m)
        BY <2>0, <2>1, <2>3, <3>3 DEF Has
      <4> QED
        BY <2>1, <2>5, <3>1, <3>3, <4>1, <4>2
    <3>4. CASE u = t /\ pc'[t] = "releasing"
      <4>1. ~Has(t, m)'
        BY <2>0, <2>1, <3>4 DEF Has
      <4>2. held_locks'[t] = held_locks[t] \ {id[m]}
        BY <2>3, <3>4
      <4>3. \A n \in Tracked : Has(t, n) /\ id[n] = id[m] => n = m
        BY <2>1, <2>4, DistinctIds
      <4>4. \A n \in Tracked : Has(t, n)' <=> Has(t, n) /\ id[n] # id[m]
        BY <2>5, <4>1, <4>3
      <4>5. held_locks'[t] = {id[n] : n \in {k \in Tracked : Has(t, k)}} \ {id[m]}
        BY <3>1, <3>4, <4>2
      <4>6. held_locks'[t] = {id[n] : n \in {k \in Tracked : Has(t, k)'}}
        BY <4>4, <4>5
      <4> QED
        BY <2>1, <3>4, <4>6
    <3> QED
      BY <2>3, <3>2, <3>3, <3>4
  <2> QED
    BY <2>6 DEF HeldExact, Has
<1>3. ASSUME NEW t \in Threads, NEW m \in Mutexes, LockBegin(t, m)
      PROVE  HeldExact'
  <2>1. UNCHANGED <<held_locks, id>>
    BY <1>3 DEF LockBegin, lockdepVars, LockdepWillLock
  <2>2. \A u \in Threads, n \in Tracked : Has(u, n)' <=> Has(u, n)
    BY <1>3 DEF LockBegin, Has, MutexTypeOK, CallsSound, Transit
  <2> QED
    BY <2>1, <2>2, QuietHeld
<1>4. ASSUME NEW t \in Threads, NEW m \in Mutexes, TryLock(t, m)
      PROVE  HeldExact'
  <2>1. UNCHANGED <<held_locks, id>>
    BY <1>4 DEF TryLock, lockdepVars
  <2>2. \A u \in Threads, n \in Tracked : Has(u, n)' <=> Has(u, n)
    BY <1>4 DEF TryLock, Has, MutexTypeOK, CallsSound, Transit
  <2> QED
    BY <2>1, <2>2, QuietHeld
<1>5. ASSUME NEW t \in Threads, NEW m \in Mutexes, UnlockBegin(t, m)
      PROVE  HeldExact'
  <2>1. UNCHANGED <<held_locks, id>>
    BY <1>5 DEF UnlockBegin, lockdepVars
  <2>2. \A u \in Threads, n \in Tracked : Has(u, n)' <=> Has(u, n)
    BY <1>5 DEF UnlockBegin, Has, MutexTypeOK, CallsSound, Transit
  <2> QED
    BY <2>1, <2>2, QuietHeld
<1>6. ASSUME NEW t \in Threads, NEW m \in Mutexes, AskCount(t, m)
      PROVE  HeldExact'
  <2>1. UNCHANGED <<held_locks, id>>
    BY <1>6 DEF AskCount, lockdepVars
  <2>2. \A u \in Threads, n \in Tracked : Has(u, n)' <=> Has(u, n)
    BY <1>6 DEF AskCount, Has, MutexTypeOK, CallsSound, Transit
  <2> QED
    BY <2>1, <2>2, QuietHeld
<1>7. ASSUME NEW t \in Threads, LockTry(t)
      PROVE  HeldExact'
  <2>1. UNCHANGED <<held_locks, id>>
    BY <1>7 DEF LockTry, LockImpl, lockdepVars
  <2>2. \A u \in Threads, n \in Tracked : Has(u, n)' <=> Has(u, n)
    <3>1. PICK m \in Mutexes : m = target[t]
      BY <1>7 DEF LockTry, CallsSound, MutexTypeOK
    <3>2. CASE owner[m] = None
      BY <1>7, <3>1, <3>2 DEF LockTry, LockImpl, Has, MutexTypeOK
    <3>3. CASE owner[m] # None
      BY <1>7, <3>1, <3>3 DEF LockTry, LockImpl, Has, MutexTypeOK
    <3> QED
      BY <3>2, <3>3
  <2> QED
    BY <2>1, <2>2, QuietHeld
<1>8. ASSUME NEW t \in Threads, LockAcquire(t)
      PROVE  HeldExact'
  <2>1. UNCHANGED <<held_locks, id>>
    BY <1>8 DEF LockAcquire, lockdepVars
  <2>2. \A u \in Threads, n \in Tracked : Has(u, n)' <=> Has(u, n)
    BY <1>8 DEF LockAcquire, Has, MutexTypeOK, CallsSound, Transit
  <2> QED
    BY <2>1, <2>2, QuietHeld
<1>9. ASSUME NEW t \in Threads, PostLock(t)
      PROVE  HeldExact'
  <2>1. UNCHANGED <<held_locks, id>>
    BY <1>9 DEF PostLock, lockdepVars
  <2>2. \A u \in Threads, n \in Tracked : Has(u, n)' <=> Has(u, n)
    BY <1>9 DEF PostLock, Has, MutexTypeOK, CallsSound, Transit
  <2> QED
    BY <2>1, <2>2, QuietHeld
<1>10. ASSUME NEW t \in Threads, PostLockCount(t)
      PROVE  HeldExact'
  <2>1. UNCHANGED <<held_locks, id>>
    BY <1>10 DEF PostLockCount, lockdepVars
  <2>2. \A u \in Threads, n \in Tracked : Has(u, n)' <=> Has(u, n)
    BY <1>10 DEF PostLockCount, Has, MutexTypeOK, CallsSound, Transit
  <2> QED
    BY <2>1, <2>2, QuietHeld
<1>11. ASSUME NEW t \in Threads, UnlockEnd(t)
      PROVE  HeldExact'
  <2>1. UNCHANGED <<held_locks, id>>
    BY <1>11 DEF UnlockEnd, lockdepVars
  <2>2. \A u \in Threads, n \in Tracked : Has(u, n)' <=> Has(u, n)
    BY <1>11 DEF UnlockEnd, Has, MutexTypeOK, CallsSound, Transit
  <2> QED
    BY <2>1, <2>2, QuietHeld
<1>12. ASSUME NEW t \in Threads, AskOwner(t)
      PROVE  HeldExact'
  <2>1. UNCHANGED <<held_locks, id>>
    BY <1>12 DEF AskOwner, lockdepVars
  <2>2. \A u \in Threads, n \in Tracked : Has(u, n)' <=> Has(u, n)
    BY <1>12 DEF AskOwner, Has, MutexTypeOK, CallsSound, Transit
  <2> QED
    BY <2>1, <2>2, QuietHeld
<1>13. CASE UNCHANGED vars
  BY <1>13 DEF vars, lockdepVars, HeldExact
<1> QED
  BY <1>1, <1>2, <1>3, <1>4, <1>5, <1>6, <1>7, <1>8, <1>9, <1>10, <1>11, <1>12, <1>13 DEF Next, ThreadNext, Dead

\* With a name per mutex, held_locks of a thread is exactly what it holds.
THEOREM HeldLocksExact ==
  ASSUME DistinctNames
  PROVE  Spec => []HeldExact
<1>1. Init => HeldExact
  <2>1. Init => \A t \in Threads : /\ held_locks[t] = {}
                                   /\ \A n \in Tracked : owner[n] # t
    BY NoneAssumption, TrackedAssumption DEF Init, LockdepInit
  <2>2. ASSUME Init, NEW t \in Threads
        PROVE  held_locks[t] = {id[n] : n \in {k \in Tracked : Has(t, k)}}
    <3>1. {k \in Tracked : Has(t, k)} = {}
      BY <2>1, <2>2 DEF Has
    <3> QED
      BY <2>1, <2>2, <3>1
  <2> QED
    BY <2>2, HeldExactHas
<1>2. OrderInv /\ HeldExact /\ [Next]_vars => HeldExact'
  BY HeldStep
<1> QED
  BY <1>1, <1>2, OrderInvariant, PTL DEF Spec

\* Threads blocked on each other in a circle would be a cycle of lock_tree.
LEMMA NoCycleNoCircle == OrderInv /\ HeldExact => NoCircularWait
<1> SUFFICES ASSUME OrderInv, HeldExact, NEW S \in SUBSET Threads, S # {},
                    \A t \in S : /\ pc[t] = "blocked"
                                 /\ target[t] \in Tracked
                                 /\ owner[target[t]] \in S
             PROVE  FALSE
  BY DEF NoCircularWait
<1> USE DEF OrderInv, CheckerInv
<1> DEFINE I == {id[target[t]] : t \in S}
<1>1. I \in SUBSET Ids /\ I # {}
  <2>1. \A t \in S : target[t] \in live
    BY DEF DebugInv, CallsSound
  <2> QED
    BY <2>1, LiveIds
<1>2. ASSUME NEW t \in S
      PROVE  \E y \in I : <<id[target[t]], y>> \in lock_tree
  <2> DEFINE u == owner[target[t]]
  <2>1. u \in S /\ u \in Threads /\ pc[u] = "blocked" /\ target[u] \in Tracked
    OBVIOUS
  <2>2. id[target[t]] \in held_locks[u]
    BY <2>1 DEF HeldExact
  <2>3. <<id[target[t]], id[target[u]]>> \in lock_tree
    BY <2>1, <2>2 DEF WaitEdges
  <2> QED
    BY <2>1, <2>3
<1>3. \A x \in I : \E y \in I : <<x, y>> \in lock_tree
  BY <1>2
<1> QED
  BY <1>1, <1>3 DEF LockOrderAcyclic

\* The promise of the lock-order checker, for any number of threads and
\* mutexes: with a name per mutex, tracked threads never block in a circle.
THEOREM DeadlockFree ==
  ASSUME DistinctNames
  PROVE  Spec => []NoCircularWait
BY HeldLocksExact, OrderInvariant, NoCycleNoCircle, PTL

=============================================================================
