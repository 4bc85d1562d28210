------------------------------ MODULE CondVar -------------------------------
(***************************************************************************)
(* BlueConditionVariable (synchronization/condition_variable.{h,cc}) on    *)
(* top of BlueMutex.  wait() and _wait_until() give the mutex back with    *)
(* _pre_unlock() and pthread_cond_wait() and take it again with            *)
(* _post_lock(); Lockdep is told neither.  Timeouts and spurious wakeups   *)
(* look the same to everybody but the caller.                              *)
(***************************************************************************)
EXTENDS BlueMutex

CONSTANT Conds   \* the condition variables

VARIABLES
  waiter_mutex,   \* per condition variable: the mutex of its first wait
  sleepers,       \* per condition variable: the threads asleep in it
  cond_of         \* per thread: the condition variable it waits in

condVars == <<waiter_mutex, sleepers, cond_of>>
cvVars == <<vars, condVars>>

CvInit ==
  /\ Init
  /\ waiter_mutex = [v \in Conds |-> None]
  /\ sleepers = [v \in Conds |-> {}]
  /\ cond_of = [t \in Threads |-> None]

\* Faulty variant: any mutex will do.
AnyMutex(v, m) == TRUE

\* The first ASSERT of wait().
MutexAgrees(v, m) == waiter_mutex[v] \in {None, m}

\* wait(): the ASSERTs, _pre_unlock(), and a field that is never reset.
WaitBegin(t, v, m) ==
  /\ pc[t] = "idle"
  /\ owner[m] = t
  /\ IF MutexAgrees(v, m)
     THEN /\ waiter_mutex' = [waiter_mutex EXCEPT ![v] = m]
          /\ cond_of' = [cond_of EXCEPT ![t] = v]
          /\ PreUnlock(m, t)
          /\ Enter(t, m, "entering")
     ELSE /\ aborted' = TRUE
          /\ UNCHANGED <<waiter_mutex, cond_of, locked_count, locked_by, pc, target>>
  /\ UNCHANGED <<lockdepVars, live, id, owner, sleepers>>

\* pthread_cond_wait() releases the mutex and sleeps, in one step.
WaitSleep(t) ==
  /\ pc[t] = "entering"
  /\ owner' = [owner EXCEPT ![target[t]] = None]
  /\ sleepers' = [sleepers EXCEPT ![cond_of[t]] = @ \cup {t}]
  /\ Goto(t, "asleep")
  /\ UNCHANGED <<lockdepVars, live, id, locked_count, locked_by, aborted,
                 waiter_mutex, cond_of>>

\* The timeout of _wait_until(), or a wakeup without a signal.
WaitTimeout(t) ==
  /\ pc[t] = "asleep"
  /\ t \in sleepers[cond_of[t]]
  /\ sleepers' = [sleepers EXCEPT ![cond_of[t]] = @ \ {t}]
  /\ UNCHANGED <<vars, waiter_mutex, cond_of>>

\* Faulty variant: no _post_lock().
ReacquireUnmarked(t) ==
  LET m == target[t] IN
  /\ pc[t] = "asleep"
  /\ t \notin sleepers[cond_of[t]]
  /\ owner[m] = None
  /\ owner' = [owner EXCEPT ![m] = t]
  /\ Return(t)
  /\ cond_of' = [cond_of EXCEPT ![t] = None]
  /\ UNCHANGED <<lockdepVars, live, id, locked_count, locked_by, aborted,
                 waiter_mutex, sleepers>>

\* pthread_cond_wait() takes the mutex again and returns; _post_lock() is next.
WaitReacquire(t) ==
  LET m == target[t] IN
  /\ pc[t] = "asleep"
  /\ t \notin sleepers[cond_of[t]]
  /\ owner[m] = None
  /\ owner' = [owner EXCEPT ![m] = t]
  /\ Goto(t, "marking")
  /\ cond_of' = [cond_of EXCEPT ![t] = None]
  /\ UNCHANGED <<lockdepVars, live, id, locked_count, locked_by, aborted,
                 waiter_mutex, sleepers>>

\* The ASSERT of notify_one() and notify_all(): somebody has the mutex.
NotifyAllowed(v) ==
  waiter_mutex[v] # None => locked_count[waiter_mutex[v]] > 0

\* notify_one() wakes one sleeper if there is any, notify_all() every one.
Notify(t, v) ==
  /\ pc[t] = "idle"
  /\ IF NotifyAllowed(v)
     THEN /\ \E woken \in {sleepers[v]} \cup {{u} : u \in sleepers[v]} :
               sleepers' = [sleepers EXCEPT ![v] = @ \ woken]
          /\ UNCHANGED aborted
     ELSE aborted' = TRUE /\ UNCHANGED sleepers
  /\ UNCHANGED <<lockdepVars, mutexVars, pc, target, waiter_mutex, cond_of>>

\* A mutex outlives the condition variables that were used with it.
CvDestroy(m) ==
  /\ \A v \in Conds : waiter_mutex[v] # m
  /\ Destroy(m)

CondNext(t) ==
  \/ \E v \in Conds, m \in Mutexes : WaitBegin(t, v, m)
  \/ \E v \in Conds : Notify(t, v)
  \/ WaitSleep(t)
  \/ WaitTimeout(t)
  \/ WaitReacquire(t)

CvNext ==
  \/ ~aborted /\ \E t \in Threads : CondNext(t)
  \/ ~aborted /\ (\E t \in Threads : ThreadNext(t)) /\ UNCHANGED condVars
  \/ /\ ~aborted
     /\ \E m \in Mutexes : Construct(m) \/ CvDestroy(m)
     /\ UNCHANGED condVars
  \/ aborted /\ UNCHANGED cvVars

CvSpec == CvInit /\ [][CvNext]_cvVars

-----------------------------------------------------------------------------

\* The fields of the condition variable agree: a thread between wait() and
\* its return waits with the one mutex of its condition variable, and only
\* threads inside wait() are asleep.
WaitersAgree ==
  /\ \A t \in Threads : pc[t] \in {"entering", "asleep"}
       => cond_of[t] # None /\ waiter_mutex[cond_of[t]] = target[t]
  /\ \A v \in Conds : \A t \in sleepers[v] : pc[t] = "asleep" /\ cond_of[t] = v

\* A thread that has the mutex may notify, sleep and be woken without ever
\* failing an ASSERT: between its calls it finds locked_count at 1, and
\* whoever has just taken the mutex, in lock() or in wait(), finds it at 0.
CountSurvivesWait ==
  \A t \in Threads, m \in Mutexes :
    owner[m] = t =>
      locked_count[m] =
        IF target[t] = m /\ pc[t] \in Transit \cup {"entering"} THEN 0 ELSE 1

\* t cannot go on before somebody gives back a tracked mutex: it is in lock(),
\* or it is woken inside wait() and has to take the mutex again.
Contends(t) ==
  /\ target[t] \in Tracked
  /\ \/ pc[t] = "blocked"
     \/ pc[t] = "asleep" /\ t \notin sleepers[cond_of[t]]

\* What Lockdep is there for, with the mutexes that wait() takes included:
\* threads never wait for each other's mutexes in a circle.
NoCircularWaitInCond ==
  \A S \in SUBSET Threads :
    ~ /\ S # {}
      /\ \A t \in S : Contends(t) /\ owner[target[t]] \in S

=============================================================================
