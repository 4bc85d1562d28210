# A TLA+ verification of BlueThread

BlueThread is a small C++ threading library, after Ceph's: mutexes with a
lock-order checker, condition variables, a heartbeat map, and two thread pools.
This directory holds TLA+ models of its core, the TLC configurations that check
them, and TLAPS proofs. Line references are to the sources under `src/`.

## The system

| Part | State | Operations | What makes it hard |
|---|---|---|---|
| thread pool (`thread/threadpool.*`) | `_lock`, `_cond`, `_wait_cond`, `_stop`, `_pause`, `_draining`, `processing`, `work_queues`, `next_work_queue`, `_threads`; per queue the waiting items, `to_process`, `to_finish` | queue, queue_front, drain, pause, unpause, start, stop, add/remove queue, lock, wait, wake; the loop of `worker()` | items change hands anonymously between two locks; four kinds of sleepers on two condition variables; stop joins without the lock |
| lockdep (`synchronization/utils.cc`) | ids and names, `lock_ref`, `held_locks`, `lock_tree` | register, unregister, will_lock, locked, will_unlock | ids are reused; edges are added while the loop may still report; recursion without a visited set |
| mutex (`synchronization/mutex.*`) | the pthread mutex, `locked_count`, `locked_by`, `id` | lock, try_lock, unlock, is_locked_by_me | debug fields read without the lock; four steps per lock |
| condition variable (`synchronization/condition_variable.*`) | `waiter_mutex`, the sleepers | wait, timed wait, notify | takes the mutex behind the checker's back |
| heartbeat map (`thread/heartbeat.*`) | handles with two deadlines | add, remove, reset, clear, is_healthy | deadlines are written without the lock |
| sharded pool (`thread/shardedthreadpool.*`) | three atomic flags, two counters | start, stop, pause, unpause, drain | flags read outside the lock; parked workers of two kinds |
| `ThreadBase` (`thread/thread.*`) | `thread_id`, `tid`, `cpuid` | create, join, detach, kill, set_cpu_affinity | pthread ids are reused |
| shared mutex (`synchronization/shared_mutex.*`) | the pthread lock, two counts, `locked_by` | lock, lock_shared and their unlocks | readers and writers in each other's way; two kinds of preference |
| recursive mutex, `std::thread` toolkit, signal masks, backtraces | next to none | system calls, printing | |

The pool's lock is a mutex without lockdep; its condition variables are the ones
above; each worker is a `ThreadBase` and has a handle in the heartbeat map, whose
list is guarded by a shared mutex without lockdep. A mutex or shared mutex
constructed with `lockdep = true` calls the checker.

## The modules

- `ThreadPool` models the pool and its workers. A call that takes the lock and
  releases it without sleeping is one action; a call that sleeps is split at the
  sleep (`DrainBegin`, `WaitAgain`, `DrainReturn`), and `stop()` at its unlock and
  at the join. The worker's loop is split wherever `_lock`, or the lock of a
  queue, is released. Wait sets are sets of threads; a notified, timed out or
  spuriously woken thread leaves the set and then contends for `lock`. The
  queues are the FIFO lists of `qa/test_threadpool.cc`, `_clear()` included.
  `fate`, `home`, `pausers` and `stops` are history variables for the properties.
- `WorkPool` is what the pool promises: lines of items, at most `NumThreads` at
  work, each item done once and in line or dropped, none at work while quiet.
  `ThreadPool!ImplementsWorkPool` is the refinement.
- `Lockdep` models the checker. Each function runs under `lockdep_mutex` and is
  one action; `lock_tree` is a set of pairs; a path is stated by closed sets.
- `LockOrder` models the inside of `lockdep_will_lock()`: the loop over the held
  locks and the recursive `does_follow()`. It justifies the one-step view of
  `Lockdep`. It is kept apart because it has a RECURSIVE operator.
- `BlueMutex` extends `Lockdep` with the mutexes and the threads that use them.
  `lock()` is split into the question to the checker, the try, the blocking
  lock, `_locked()`, and the two writes of `_post_lock()`. `aborted` stands for
  `abort()` and failed ASSERTs, which end the process.
- `CondVar` extends `BlueMutex` with condition variables.
- `SharedMutex` extends `BlueMutex` with shared mutexes. The two classes have the
  same base, so a shared mutex is a member of `Mutexes` with a `lock()` and an
  `unlock()` of its own and with `lock_shared()` and `unlock_shared()`; the calls
  into the checker are those of `BlueMutex`. `PreferWriter` are the locks
  constructed with `prioritize_write`.
- `ShardedThreadPool` models the sharded pool. A critical section is one action;
  each read of a flag without the lock is one; a worker parked in the pause or
  the drain loop is in `cond` while it sleeps. Any client may call `unpause()` at
  any time. `owed`, `pausers` and `overtaken` are history variables: what a
  `drain()` answers for; whose `pause()` has returned with no `unpause()` since;
  and whose `pause()` an `unpause()` overtook, coming before it returned.
- `ThreadBase` models objects of that class and the pthread ids they are given.
- `Heartbeat` extends `ThreadBase` with the heartbeat map, workers that go round
  the loop of `ThreadPool::worker()` as far as the map is concerned, and monitors
  in `is_healthy()`. A deadline is the time left and goes down with `Tick`;
  `Delay` is the time within which whoever can go on does, and `Sleep` the ten
  seconds of `wait_for()`. The loads and stores of deadlines are single actions.
- `BlueMutexProofs`, `ShardedThreadPoolProofs` and `HeartbeatProofs` (which has
  those about `ThreadBase` too) hold the theorems about the modules they are named
  after, `ThreadPoolTyping` and `ThreadPoolProofs` those about `ThreadPool`; `MC*`
  are the instances for TLC.

A definition called a faulty variant is a deliberate mistake, of the kind a
change to the code could make. It stands beside the definition it varies and
shows that some property would notice.

Assumptions about callers, which the code does not enforce: one client calls
start() and stop(); unpause() of the thread pool undoes a pause() that returned,
as `_pause` is a count; a queue is unregistered while no worker is on it and nobody
drains it; only the owner unlocks a mutex, and nobody destroys one that another
thread is using; a mutex outlives the condition variables used with it; create()
is called on an object that has no thread; one client calls start() and stop() of
the sharded pool.

## The runs

| Run | Instance | Shows |
|---|---|---|
| `pool_safety` | 2 workers, 2 clients, 2 queues, 2 items, 1 stop | the hand-over balances; every item exactly once; nothing runs while paused; drain's condition is the right one; no sleeper in pause() or drain() misses its notification; one signal per item is enough; stop leaves nothing; no queue is passed over; the pool implements `WorkPool` |
| `pool_liveness` | 2 workers, 2 clients, one of which uses lock/_wait/_wake, 1 queue, 1 item | items settle; stop(), pause() and drain() return |
| `pool_stop_drain` | as `pool_safety` | violated: see below |
| `mutex_order` | 2 threads, 3 tracked mutexes, own names, 3 ids | the checker's tables are right at all times, the debug fields tell the truth, no circular wait |
| `mutex_liveness` | 2 threads with a mutex and a shared mutex, or 3 threads with the shared mutex, which prefers writers | no circle through readers, writers or waiting writers goes unreported; the counts are exact; lock() returns or the process was aborted with a report |
| `mutex_trylock` | 2 threads, 3 mutexes, two share a name | violated: see below |
| `lock_order_algorithm` | every acyclic order on 4 ids, every held set | loop and recursion compute what `Lockdep` states |
| `condvar` | 2 threads, 4 mutexes: three share a name, one of these is not tracked; 1 id | fields survive wait and notify; shared ids are counted; the ids run out |
| `condvar_order` | 2 threads, 2 mutexes, 1 condition variable | violated: see below |
| `sharded_pool` | 2 workers of one shard, 2 items, an admin and a user who pause and unpause at any time | the counts are right; a pause that no unpause() overtook is quiet; a drain() that starts afresh leaves nothing queued before it undone; stop() is final; calls made one at a time return |
| `heartbeat` | 2 workers, another thread object, 2 pthread ids, 1 monitor; `Delay` 1, `Sleep` 1, `tp_suicide_grace` 4, queue graces 1 and 2 or none | join() and kill() reach the own thread; the list and the scans name running threads only; idle workers are not killed; nobody renews an overdue deadline; a scan misses nobody |
| `thread_affinity` | 1 object, 2 ids, 2 cpus | violated: see below |

Bounds. Two workers are what the anonymous hand-over needs to mix up items, two
queues what the round robin needs, two items what order needs, and two clients
what pause against drain against stop needs. `MaxStops` bounds the calls of
stop(), start() may follow it. Three mutexes give circles through an
intermediate lock, and four ids give `does_follow()` a path of three edges.
Reuse of ids happens in `mutex_order`, where mutexes are destroyed and
constructed again; exhaustion of the ids happens in `condvar`, where two names
compete for one id. `mutex_liveness` has two crews, chosen at the start, because
fairness makes three threads with two locks too many: a circle needs two locks,
a thread let past needs three threads. A circle of three threads through two
locks is in neither, and neither has a shared mutex that prefers readers. Both workers of `sharded_pool` serve one
shard, so that one finds it empty while the other has an item of it in hand. In
`heartbeat` there are fewer ids than objects, so ids are reused and run out;
`tp_suicide_grace` is `Sleep + 3 * Delay`, the least for which `IdleNotKilled` is
claimed, and with one less an idle worker can be killed. How long ago a
deadline passed is told apart up to `Delay`. No grace is shorter than `Delay`, the
time from reading the clock to the store, or `ScanMissesNobody` would fail. Threads, workers, ids, and in the
pool queues and items, are symmetric; the runs with liveness use no symmetry.
`condvar`, `lock_order_algorithm`, `heartbeat` and `thread_affinity` do not check
for deadlock: untracked mutexes may deadlock, a finished call of
`lockdep_will_lock()` has no next step, nor has a process that was aborted.

Fairness. The operating system runs a runnable thread (WF) and in the long run
hands a contended mutex to each thread that waits for it (SF). wait_for() times
out, `_process()` returns, and a client gives back the pool's lock (WF). For
`LockReturns`, no thread keeps a lock for ever (SF of `Unlock`): the
program has to do that, or no lock() could be expected to return. Nobody is
obliged to call anything else. `ItemsSettle` and `DrainReturns` are about a
pool that is running and unpaused from some time on. `LockReturns` is about
mutexes and about shared mutexes that prefer writers, and supposes that no thread
is kept out for ever by a stream of the other kind (`LetPast`), which either
preference allows. `CallsReturn` needs only that workers and calls go on (WF), and
supposes that calls are made one at a time on a pool that is running
(`OneAtATime`): pause() against drain(), and stop() on a paused pool, wait for ever.

## Findings

- `pool_stop_drain`: stop() clears the queues (`thread/threadpool.cc:75`) and
  notifies nobody, so a thread in drain() sleeps on although nothing is left.
- `mutex_trylock`: mutexes with one name share an id, and `held_locks` has an id
  once. After a try_lock() of the second, unlocking one of the two erases the
  id (`synchronization/utils.cc:328`), and a circular wait is not detected.
- `condvar_order`: wait() takes its mutex again without asking the checker
  (`synchronization/condition_variable.cc:17`).
- `thread_affinity`: inside the class `get_tid()` is the member, which returns the
  field it should set (`thread/thread.cc:68`, `:90`), and `set_cpu_affinity()`
  never writes the field `cpuid`. It returns 0 and pins nothing, while cpu
  affinity is the first feature the class lists (`thread/thread.h:11`).

The README of the library says lockdep "can detect self-deadlock and circular
deadlock"; `mutex_trylock` and `condvar_order` show where it does not.

Modelling also showed, without a line of the repository that says otherwise: a
second drain() of the sharded pool that begins while workers are still parked by
the first counts them, although their shards may have filled again, and can
return early (`thread/shardedthreadpool.cc:106`): at once if all are parked, or,
where each worker has a shard of its own, after a wait. `DrainMeansDone` and
`DrainIsDone` leave such a drain() out.

In the same way pause() of the sharded pool tests the count and not the flag
(`thread/shardedthreadpool.cc:124`). Two threads sleep in pause(); the last
worker parks and wakes both; one returns and calls unpause(); the other gets the
lock before a worker has counted itself down, finds `num_paused` at
`num_threads`, and returns. At that moment every worker is still in the pause
loop, but with the flag down, so they leave it and run although nobody has
called unpause() since this pause() returned. The model has these steps.
`PausedQuiescent` and `PauseIsQuiet` are about a pause() that was not overtaken in
this way, and TLC finds such a trace if the exception is dropped. If a further
pause() raises the flag before the overtaken one returns, it is quiet again, and
the property covers it. `ThreadPool` counts its pausers and has no such case.

What other properties leave out: `NoLostWakeup` a drain() of a single queue once
a stop() has begun; `SharedFieldsExact` allows is_locked_by_me() to answer true to
a thread without the lock while the writer is between the two writes of
`_post_lock()` (`synchronization/shared_mutex.cc:97`); `OwnThread` is about objects
that were not detached (`thread/thread.cc:154`).

## The proofs

`BlueMutexProofs` proves, for any sets of threads, mutexes and names (the mutexes
finite) and any `MaxLocks`:

- `TypeCorrect`: the type invariant, with `locked_count` 0 or 1;
- `DebugFieldsSound`: `CountMatchesOwner` and `IsLockedByMeExact`;
- `OrderAcyclic`: `lock_tree` has no cycle;
- `RegistrySound`: `RegistryConsistent` and `MutexesRegistered`;
- `HeldLocksExact`, `DeadlockFree`: `HeldExact` and `NoCircularWait`, if tracked
  mutexes have distinct names. `mutex_trylock` shows the assumption is needed.

The inductive invariant is `OrderInv`. Its first half, `DebugInv`, adds to the
typing and the two debug properties where calls stand (`CallsSound`): a call is
on a live mutex and a thread in transit owns it. Its second half, `CheckerInv`,
adds to the registry two facts that relate the checker to the mutexes:
`HeldOwned` (what is in `held_locks` is owned, hence its id is in use and cannot
be freed), and `WaitEdges` (a waiting thread has an edge from all it holds to
what it waits for). Acyclicity is preserved because a new edge into `id` closes a
cycle only if `id` already reaches a held lock, which `LockdepRejects` excludes
(`WillLockKeepsAcyclic`, stated with closed sets so that no induction is needed).
For `DeadlockFree`, a circle of blocked threads would, by `WaitEdges` and
`HeldExact`, be a set of ids each with a successor in the set: a cycle.

`ThreadPoolProofs` proves, for any number of workers, clients, queues and items
(threads finite in number) and any `MaxStops`:

- `PoolTypeCorrect`: the type invariant; the three counters stay natural numbers;
- `HandoffAlwaysBalanced`, and from it `PopsFindItems`: the ASSERTs on
  `to_process` and `to_finish` never fail;
- `PauseIsQuiet`, `SleepersAreTold`, `StopIsClean`: `PausedQuiescent`,
  `NoLostWakeup` and `StopLeavesNothing`.

The inductive invariant is `PoolInv`, at the end of `ThreadPool`. To the
properties it adds where threads stand: `WorkerShape` (what the position of a
worker says about its item, the lock, the wait set, `_threads` and its heartbeat
handle), `ClientShape` (the same for calls), and `CallsCounted` (`_draining` and
`_pause` are the numbers of the calls in progress). The counts carry the
argument: a worker that takes an item saw `_pause` = 0, so no pause() has
returned; a worker that finishes one while somebody sleeps sees `_draining` or
`_pause` above 0, so it notifies; pause() returns on `processing` = 0, which
`HandoffBalanced` turns into "no worker has an item". `ThreadPoolTyping` has the
lemmas for typing, positions and call counts, `ThreadPoolProofs` the rest; each
`...Step` lemma is one conjunct of `PoolInv` against every action. The same
instances that check the properties satisfy `PoolInv`.

`ShardedThreadPoolProofs` proves, for any number of workers, clients, shards and
items (workers finite in number), `CountsAreRight` (`ParkedCounted`, and that the
counters stay natural numbers), `PauseIsQuiet`, `DrainIsDone` and `StopIsFinal`.
`QuietInv` adds to `PausedQuiescent` that the flag is up while a pause() that was
not overtaken lasts, so no worker leaves, and that a client which sleeps in
pause() with the flag down was overtaken: so any other returns with the flag up.
The counts carry the argument again: drain() returns on `num_drained` =
`num_threads`, so all workers stand in the drain loop with nothing in hand.
`DrainInv` adds that what a drain() answers for is done or pending and in no
shard of a parked worker: a worker parks with its shard empty, and an item queued
later is not answered for. A drain() that begins with workers parked by an
earlier one answers for nothing (`DrainBegin`).

`HeartbeatProofs` proves, for any number of objects, pthread ids, workers and
monitors and all delays and graces (`IdleNotKilled` itself supposes a
`tp_suicide_grace` of at least `Sleep + 3 * Delay`):

- `OwnThreadAlways` for `ThreadBase` alone, `OwnThreadInSystem` with the map;
- `HandlesStayAlive`, `IdleWorkersLive` and `RenewalsAreInTime`: `HandlesAlive`,
  `IdleNotKilled` and `NoLateRenewal`.

The inductive invariant `HeartbeatInv` has four parts. `ThreadInv` adds to
`OwnThread` that a thread which runs detached belongs to an object that was let
go. `ListInv`, `HandleInv` and `ScanInv` say that the list has each worker once and
only between its add_worker() and its remove_worker(), that such a worker runs
in the thread its handle names, and that a scan has only listed workers before
it. `TimerInv` bounds, for each place of the worker's loop, what is left of an
idle worker's grace from below by what is left of its stay at that place; a tick
takes one from both sides. `KillInv` concludes that no idle worker is found
overdue.

Model-checked only: liveness; what the recursive `does_follow()` computes; of
`ThreadPool` the properties `ExactlyOnce`, `DrainMeansDone`,
`WorkKeepsWorkerAwake`, `RoundRobin` and the refinement; of `Heartbeat`
`ScanMissesNobody`, whose counting along the list needs induction; `CondVar` and
`SharedMutex`. The type invariants of `BlueMutex`, `ThreadPool` and
`ShardedThreadPool` are proved and not checked by a run.

## Not modelled

- The recursive mutex: a recursive pthread mutex with a count that only its own
  ASSERT reads; it never calls the checker and nothing uses it. `rwlock.h` is
  an empty stub.
- Backtraces and reports, signal masks, the `std::thread` toolkit, thread names
  and stack sizes, and the test programs: printing and single system calls.
  `ThreadBase` keeps the one effect of the masks, that a signal to a thread it
  created stays pending.
- The counters of `is_healthy()`: two monitors may store them out of step, but
  only their getters read them.
- The second between pthread_kill() and ABORT in `_check()`: the abort comes
  whatever happens in it.
- `ThreadPool` and `ShardedThreadPool` are modelled for as long as no suicide
  timeout fires; `Heartbeat` is where one does. The sharded pool passes its index
  instead of a pthread id to add_worker(), and its wait interval is never
  initialised, so a parked worker sleeps any time: there a wakeup may come at any
  moment and need not come.
- `m_rwlock` is a shared mutex that prefers readers: that add_worker() and
  remove_worker() get it is assumed, `LockReturns` shows what it would take.
