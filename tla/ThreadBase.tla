----------------------------- MODULE ThreadBase -----------------------------
(***************************************************************************)
(* ThreadBase (thread/thread.{h,cc}): objects that create a pthread and    *)
(* join, detach, signal or pin it.  A pthread id is given out again when   *)
(* its thread has ended and was joined or detached.                        *)
(*                                                                         *)
(* try_create() blocks all signals around pthread_create(), and a thread   *)
(* inherits the mask of its creator, so a signal sent to a thread of       *)
(* ThreadBase stays pending.                                               *)
(***************************************************************************)
EXTENDS Integers

CONSTANTS
  Objects,      \* the ThreadBase objects
  PthreadIds,   \* the ids pthread_create() gives out
  Cpus,         \* the valid cpu ids
  None

ASSUME NoneAssumption == None \notin Objects \cup PthreadIds /\ None \notin Int
ASSUME CpusAssumption == Cpus \subseteq Nat

VARIABLES
  tid, thread_id, cpuid,   \* per object: the fields; None stands for id 0
  obj,        \* per pthread id: the object whose thread has it, or None
  state,      \* per pthread id: "created", "running" or "ended"
  detached,   \* the pthread ids of detached threads
  pending,    \* the pthread ids with a signal pending
  affinity,   \* per pthread id: the cpu it is pinned to, or -1
  asked,      \* per pthread id: the cpu it last asked for, or -1
  let_go,     \* the objects whose detach() was called
  aborted     \* a failed ASSERT or ABORT has ended the process

fieldVars == <<tid, thread_id, cpuid>>
pthreadVars == <<obj, state, detached, pending, affinity, asked>>
threadVars == <<fieldVars, pthreadVars, let_go>>

ThreadInit ==
  /\ tid = [o \in Objects |-> 0]
  /\ thread_id = [o \in Objects |-> None]
  /\ cpuid = [o \in Objects |-> -1]
  /\ obj = [i \in PthreadIds |-> None]
  /\ state = [i \in PthreadIds |-> "ended"]
  /\ detached = {} /\ pending = {}
  /\ affinity = [i \in PthreadIds |-> -1]
  /\ asked = [i \in PthreadIds |-> -1]
  /\ let_go = {}
  /\ aborted = FALSE

-----------------------------------------------------------------------------

\* The id goes back.
Free(i) ==
  /\ obj' = [obj EXCEPT ![i] = None]
  /\ detached' = detached \ {i}
  /\ pending' = pending \ {i}
  /\ affinity' = [affinity EXCEPT ![i] = -1]
  /\ asked' = [asked EXCEPT ![i] = -1]

\* create() and try_create() ...
Create(o) ==
  /\ thread_id[o] = None
  /\ \E i \in PthreadIds :
       /\ obj[i] = None
       /\ obj' = [obj EXCEPT ![i] = o]
       /\ state' = [state EXCEPT ![i] = "created"]
       /\ thread_id' = [thread_id EXCEPT ![o] = i]
  /\ UNCHANGED <<tid, cpuid, detached, pending, affinity, let_go, asked, aborted>>

\* ... when pthread_create() fails, because no thread can be had.
CreateFails(o) ==
  /\ thread_id[o] = None
  /\ \A i \in PthreadIds : obj[i] # None
  /\ aborted' = TRUE
  /\ UNCHANGED threadVars

\* get_tid() inside the class: the member function, which returns the field.
GetTid(o) == tid[o]

\* _set_cpu_affinity(), called by the thread i: a valid cpu is set.
PinnedTo(i, cpu) == IF cpu \in Cpus THEN cpu ELSE affinity[i]

\* entry_wrapper(), up to the call of entry().
EntryWrapper(i) ==
  LET o == obj[i]
      t == IF GetTid(o) > 0 THEN GetTid(o) ELSE tid[o]
  IN
  /\ o # None
  /\ state[i] = "created"
  /\ state' = [state EXCEPT ![i] = "running"]
  /\ tid' = [tid EXCEPT ![o] = t]
  /\ affinity' = [affinity EXCEPT ![i] =
                    IF t # 0 /\ cpuid[o] >= 0 THEN PinnedTo(i, cpuid[o]) ELSE @]
  /\ UNCHANGED <<thread_id, cpuid, obj, detached, pending, let_go, asked, aborted>>

\* set_cpu_affinity(cpu) with a valid cpu, called by the thread i of o itself.
\* The parameter hides the field of the same name, which is never written.
SetCpuAffinity(i, cpu) ==
  LET o == obj[i] IN
  /\ o # None
  /\ state[i] = "running"
  /\ affinity' = [affinity EXCEPT ![i] =
                    IF tid[o] # 0 /\ GetTid(o) = tid[o] THEN PinnedTo(i, cpu) ELSE @]
  /\ asked' = [asked EXCEPT ![i] = cpu]
  /\ UNCHANGED <<fieldVars, obj, state, detached, pending, let_go, aborted>>

\* entry() returns.
Exit(i) ==
  /\ obj[i] # None
  /\ state[i] = "running"
  /\ state' = [state EXCEPT ![i] = "ended"]
  /\ IF i \in detached
     THEN Free(i)
     ELSE UNCHANGED <<obj, detached, pending, affinity, asked>>
  /\ UNCHANGED <<fieldVars, let_go, aborted>>

\* Faulty variant: thread_id is kept.
KeepThreadId(o) == UNCHANGED thread_id

ResetThreadId(o) == thread_id' = [thread_id EXCEPT ![o] = None]

\* join(), on an object that was not detached: ASSERT(thread_id != 0), then
\* wait for the thread that has that id.
Join(o) ==
  /\ o \notin let_go
  /\ IF thread_id[o] = None
     THEN aborted' = TRUE /\ UNCHANGED threadVars
     ELSE /\ state[thread_id[o]] = "ended"
          /\ Free(thread_id[o])
          /\ ResetThreadId(o)
          /\ UNCHANGED <<tid, cpuid, state, let_go, aborted>>

\* detach() leaves thread_id as it is.
Detach(o) ==
  LET i == thread_id[o] IN
  /\ i # None /\ o \notin let_go
  /\ let_go' = let_go \cup {o}
  /\ IF state[i] = "ended"
     THEN Free(i)
     ELSE detached' = detached \cup {i} /\ UNCHANGED <<obj, pending, affinity, asked>>
  /\ UNCHANGED <<fieldVars, state, aborted>>

\* pthread_kill(), on an id that some thread has.
PthreadKill(i) == pending' = pending \cup ({i} \cap {j \in PthreadIds : obj[j] # None})

\* kill(); without a thread it returns -EINVAL and changes nothing.
Kill(o) ==
  /\ thread_id[o] # None
  /\ PthreadKill(thread_id[o])
  /\ UNCHANGED <<fieldVars, obj, state, detached, affinity, let_go, asked, aborted>>

ObjectNext(o) ==
  \/ Create(o) \/ CreateFails(o)
  \/ Join(o) \/ Detach(o) \/ Kill(o)
  \/ \E i \in PthreadIds :
       /\ obj[i] = o
       /\ \/ EntryWrapper(i)
          \/ Exit(i)
          \/ \E cpu \in Cpus : SetCpuAffinity(i, cpu)

ThreadNext == ~aborted /\ \E o \in Objects : ObjectNext(o)

ThreadSpec == ThreadInit /\ [][ThreadNext]_<<threadVars, aborted>>

-----------------------------------------------------------------------------
(* Properties.                                                             *)

\* join() and kill() of an object that was not detached reach its own thread,
\* never another that got the same id later; and a thread that was not
\* detached can always be joined: no other object and no second create() took
\* its id from it.
OwnThread ==
  \A o \in Objects, i \in PthreadIds :
    /\ o \notin let_go /\ thread_id[o] = i => obj[i] = o
    /\ obj[i] = o /\ i \notin detached => thread_id[o] = i

\* The first feature the class lists: a thread that asked for a valid cpu with
\* set_cpu_affinity(), which returned 0, runs on that cpu.
AffinityTakesEffect ==
  \A i \in PthreadIds :
    asked[i] >= 0 => affinity[i] = asked[i]

=============================================================================
