----------------------------- MODULE ThreadPool -----------------------------
(***************************************************************************)
(* The thread pool of thread/threadpool.{h,cc}: worker threads that take   *)
(* items round-robin from the registered work queues, and client threads   *)
(* that submit items, drain, pause, start and stop the pool.               *)
(*                                                                         *)
(* `lock` is the pool's _lock.  A client call that takes and releases it   *)
(* without sleeping is one action, enabled when the lock is free; a call   *)
(* that sleeps in a condition variable is split there.  A worker keeps the *)
(* lock from the end of an item to its next turn of the loop, so that      *)
(* nobody gets in between.  A sleeping thread is a member of the wait set  *)
(* of its condition variable; notifying, timing out or waking spuriously   *)
(* takes it out, after which it contends for the lock.                     *)
(*                                                                         *)
(* The queues are the FIFO lists of qa/test_threadpool.cc.  Heartbeat      *)
(* deadlines are abstracted to who armed the worker's handle; the pool is  *)
(* modelled as long as no suicide timeout fires.                           *)
(***************************************************************************)
EXTENDS Integers, Sequences, FiniteSets

CONSTANTS
  Workers,     \* the worker threads, _num_threads of them
  Clients,     \* the threads that call the pool
  Admin,       \* the one client that calls start() and stop()
  CondUsers,   \* the clients that call lock(), unlock(), _wait(), _wake()
  Queues,      \* the WorkQueueVal objects
  Items,       \* the values queued, each at most once
  MaxStops,    \* bound on the number of calls of stop()
  None         \* no thread, no queue, no item

ASSUME WorkersAssumption == IsFiniteSet(Workers) /\ Workers # {}
ASSUME ClientsAssumption ==
  IsFiniteSet(Clients) /\ Admin \in Clients /\ CondUsers \subseteq Clients
ASSUME DisjointAssumption == Workers \cap Clients = {}
ASSUME NoneAssumption ==
  None \notin Workers \cup Clients \cup Queues \cup Items
ASSUME MaxStopsAssumption == MaxStops \in Nat

VARIABLES
  lock,             \* the thread that holds _lock, or None
  cond,             \* the threads asleep in _cond
  wait_cond,        \* the threads asleep in _wait_cond
  stop,             \* _stop
  pause,            \* _pause
  draining,         \* _draining
  processing,       \* processing
  work_queues,      \* work_queues
  next_work_queue,  \* next_work_queue
  threads,          \* _threads
  task_queue,       \* per queue: the items not yet taken
  to_process,       \* per queue: taken, no worker has picked them up yet
  to_finish,        \* per queue: processed, not yet finished
  hb,               \* per worker: absent from the heartbeat map, or who armed it
  wpc,              \* per worker: where it stands in worker()
  wq,               \* per worker: the local wq while it has an item
  cur,              \* per worker: the local u of _void_process
  cpc,              \* per client: the call it is in
  arg,              \* per client: the argument of its drain()
  pausers,          \* the clients whose pause() returned and is not undone
  fate,             \* per item: what has become of it
  home,             \* per item: the queue it was submitted to
  stops             \* the number of calls of stop()

poolVars == <<stop, pause, draining, processing>>
queueVars == <<work_queues, next_work_queue, task_queue, to_process, to_finish>>
workerVars == <<hb, wpc, wq, cur>>
clientVars == <<cpc, arg, pausers>>
itemVars == <<fate, home>>
vars == <<lock, cond, wait_cond, poolVars, threads, queueVars, workerVars,
          clientVars, itemVars, stops>>

-----------------------------------------------------------------------------

NonEmpty(q) == task_queue[q] # <<>>

\* The items of a list.
Elems(list) == {list[k] : k \in DOMAIN list}

IsRegistered(q) == \E k \in DOMAIN work_queues : work_queues[k] = q

\* The condition of the loop in drain() or pause(), in front of which c sleeps.
MustWait(c) ==
  \/ processing # 0
  \/ cpc[c] = "drain" /\ arg[c] # None /\ NonEmpty(arg[c])

\* Faulty variant: notify_one() is forgotten.
NotifyNone(set) == {set}

\* The wait sets notify_one() may leave behind.
NotifyOne(set) == IF set = {} THEN {{}} ELSE {set \ {t} : t \in set}

Init ==
  /\ lock = None
  /\ cond = {}
  /\ wait_cond = {}
  /\ stop = FALSE
  /\ pause = 0
  /\ draining = 0
  /\ processing = 0
  /\ work_queues = <<>>
  /\ next_work_queue = 0
  /\ threads = {}
  /\ task_queue = [q \in Queues |-> <<>>]
  /\ to_process = [q \in Queues |-> <<>>]
  /\ to_finish = [q \in Queues |-> <<>>]
  /\ hb = [w \in Workers |-> "absent"]
  /\ wpc = [w \in Workers |-> "none"]
  /\ wq = [w \in Workers |-> None]
  /\ cur = [w \in Workers |-> None]
  /\ cpc = [c \in Clients |-> "idle"]
  /\ arg = [c \in Clients |-> None]
  /\ pausers = {}
  /\ fate = [i \in Items |-> "fresh"]
  /\ home = [i \in Items |-> None]
  /\ stops = 0

-----------------------------------------------------------------------------
(* The worker thread.                                                      *)

\* The thread takes the lock and enters itself in the heartbeat map.
WorkerStart(w) ==
  /\ wpc[w] = "new"
  /\ lock = None
  /\ lock' = w
  /\ hb' = [hb EXCEPT ![w] = "unarmed"]
  /\ wpc' = [wpc EXCEPT ![w] = "loop"]
  /\ UNCHANGED <<cond, wait_cond, poolVars, threads, queueVars, wq, cur,
                 clientVars, itemVars, stops>>

\* w stands at the head of `while (!_stop)` with the lock: it kept it, or it
\* returns from wait_for and takes it.
AtLoopHead(w) ==
  \/ wpc[w] = "loop" /\ lock = w
  \/ wpc[w] = "waiting" /\ w \notin cond /\ lock = None

\* Faulty variant: a paused pool does not look at _stop.
LeavesUnpaused == stop /\ pause = 0

\* The condition that ends the loop.
LeavesLoop == stop

\* Faulty variant: _pause is ignored.
ScansAlways == work_queues # <<>>

\* The conditions under which the loop looks for an item.
Scans == work_queues # <<>> /\ pause = 0

\* The index of the queue that the k-th of the 2 * size() tries looks at.
Slot(k) == (next_work_queue + k) % Len(work_queues)
Tried(k) == work_queues[Slot(k) + 1]
Tries == 0 .. (2 * Len(work_queues) - 1)

\* Faulty variant: next_work_queue stays at the queue just tried.
SlotAgain(k) == Slot(k)

\* next_work_queue after the k-th try.
SlotAfter(k) == Slot(k) + 1

\* Faulty variants: the item is not popped; the newest item is taken.
DequeueWithoutPop(q) ==
  /\ UNCHANGED task_queue
  /\ to_process' = [to_process EXCEPT ![q] = Append(@, Head(task_queue[q]))]
DequeueNewest(q) ==
  LET n == Len(task_queue[q]) IN
  /\ task_queue' = [task_queue EXCEPT ![q] = SubSeq(@, 1, n - 1)]
  /\ to_process' = [to_process EXCEPT ![q] = Append(@, task_queue[q][n])]

\* _void_dequeue(): the first item moves to to_process.
VoidDequeue(q) ==
  /\ task_queue' = [task_queue EXCEPT ![q] = Tail(@)]
  /\ to_process' = [to_process EXCEPT ![q] = Append(@, Head(task_queue[q]))]

\* The scan meets a queue with an item: take it and release the lock.
WorkerDequeue(w) ==
  /\ AtLoopHead(w)
  /\ ~LeavesLoop
  /\ Scans
  /\ \E k \in Tries :
       LET q == Tried(k) IN
       /\ NonEmpty(q)
       /\ \A j \in 0 .. (k - 1) : ~NonEmpty(Tried(j))
       /\ next_work_queue' = SlotAfter(k)
       /\ VoidDequeue(q)
       /\ wq' = [wq EXCEPT ![w] = q]
  /\ processing' = processing + 1
  /\ lock' = None
  /\ wpc' = [wpc EXCEPT ![w] = "dequeued"]
  /\ UNCHANGED <<cond, wait_cond, stop, pause, draining, threads, work_queues,
                 to_finish, hb, cur, clientVars, itemVars, stops>>

\* No queue, a paused pool, or nothing but empty queues: arm the heartbeat
\* with the pool's grace and sleep.  A scan in vain moves next_work_queue too.
WorkerIdle(w) ==
  /\ AtLoopHead(w)
  /\ ~LeavesLoop
  /\ Scans => \A k \in Tries : ~NonEmpty(Tried(k))
  /\ next_work_queue' = IF Scans THEN SlotAfter(2 * Len(work_queues) - 1)
                                 ELSE next_work_queue
  /\ hb' = [hb EXCEPT ![w] = "pool"]
  /\ cond' = cond \cup {w}
  /\ lock' = None
  /\ wpc' = [wpc EXCEPT ![w] = "waiting"]
  /\ UNCHANGED <<wait_cond, poolVars, threads, work_queues, task_queue,
                 to_process, to_finish, wq, cur, clientVars, itemVars, stops>>

\* Faulty variant: wait() instead of wait_for().
NoTimeout(w) == FALSE

\* _cond.wait_for() gives up after its ten seconds.
WorkerTimeout(w) ==
  /\ w \in cond
  /\ cond' = cond \ {w}
  /\ UNCHANGED <<lock, wait_cond, poolVars, threads, queueVars, workerVars,
                 clientVars, itemVars, stops>>

\* Faulty variant: the item is read and not popped.
PickUpWithoutPop(w) ==
  /\ cur' = [cur EXCEPT ![w] = Head(to_process[wq[w]])]
  /\ UNCHANGED to_process

\* _void_process() pops the first item of to_process, whoever put it there.
PickUp(w) ==
  /\ cur' = [cur EXCEPT ![w] = Head(to_process[wq[w]])]
  /\ to_process' = [to_process EXCEPT ![wq[w]] = Tail(@)]

\* Without the lock: arm the heartbeat with the queue's grace and pick up the
\* first item of to_process, under the queue's own lock.
WorkerProcess(w) ==
  /\ wpc[w] = "dequeued"
  /\ to_process[wq[w]] # <<>>
  /\ hb' = [hb EXCEPT ![w] = "queue"]
  /\ PickUp(w)
  /\ wpc' = [wpc EXCEPT ![w] = "running"]
  /\ UNCHANGED <<lock, cond, wait_cond, poolVars, threads, work_queues,
                 next_work_queue, task_queue, to_finish, wq, clientVars,
                 itemVars, stops>>

\* _process() calls reset_tp_timeout() or suspent_tp_timeout() on its handle.
WorkerHandle(w) ==
  /\ wpc[w] = "running"
  /\ \E v \in {"queue", "unarmed"} : hb' = [hb EXCEPT ![w] = v]
  /\ UNCHANGED <<lock, cond, wait_cond, poolVars, threads, queueVars, wpc, wq,
                 cur, clientVars, itemVars, stops>>

\* _process() returns; the item goes to to_finish.
WorkerProcessed(w) ==
  /\ wpc[w] = "running"
  /\ fate' = [fate EXCEPT ![cur[w]] = "processed"]
  /\ to_finish' = [to_finish EXCEPT ![wq[w]] = Append(@, cur[w])]
  /\ cur' = [cur EXCEPT ![w] = None]
  /\ wpc' = [wpc EXCEPT ![w] = "processed"]
  /\ UNCHANGED <<lock, cond, wait_cond, poolVars, threads, work_queues,
                 next_work_queue, task_queue, to_process, hb, wq, clientVars,
                 home, stops>>

\* Faulty variant: _process_finish() is not called.
FinishSkipped(q) ==
  /\ UNCHANGED fate
  /\ to_finish' = [to_finish EXCEPT ![q] = Tail(@)]

\* _void_process_finish(): finish the first item of to_finish, whoever
\* processed it.
VoidFinish(q) ==
  /\ fate' = [fate EXCEPT ![Head(to_finish[q])] = "finished"]
  /\ to_finish' = [to_finish EXCEPT ![q] = Tail(@)]

\* Faulty variants: only drain(), or only pause(), is told.
SleepersIfDraining == IF draining # 0 THEN {} ELSE wait_cond
SleepersIfPaused == IF pause # 0 THEN {} ELSE wait_cond

\* Who still sleeps in pause() and drain() after an item is done.
SleepersLeft == IF pause # 0 \/ draining # 0 THEN {} ELSE wait_cond

\* With the lock again: finish an item and tell the sleepers.
WorkerFinish(w) ==
  /\ wpc[w] = "processed"
  /\ lock = None
  /\ to_finish[wq[w]] # <<>>
  /\ lock' = w
  /\ VoidFinish(wq[w])
  /\ processing' = processing - 1
  /\ wait_cond' = SleepersLeft
  /\ wq' = [wq EXCEPT ![w] = None]
  /\ wpc' = [wpc EXCEPT ![w] = "loop"]
  /\ UNCHANGED <<cond, stop, pause, draining, threads, work_queues,
                 next_work_queue, task_queue, to_process, hb, cur, clientVars,
                 home, stops>>

\* Faulty variant: the worker stays in the heartbeat map.
KeepWorker(w) == UNCHANGED hb

RemoveWorker(w) == hb' = [hb EXCEPT ![w] = "absent"]

\* _stop is set: leave the heartbeat map, release the lock, end the thread.
WorkerExit(w) ==
  /\ AtLoopHead(w)
  /\ LeavesLoop
  /\ RemoveWorker(w)
  /\ lock' = None
  /\ wpc' = [wpc EXCEPT ![w] = "exited"]
  /\ UNCHANGED <<cond, wait_cond, poolVars, threads, queueVars, wq, cur,
                 clientVars, itemVars, stops>>

-----------------------------------------------------------------------------
(* The calls of the clients.                                               *)

\* A thread may call when it is not inside another call and the lock is free.
MayCall(c) == cpc[c] = "idle" /\ lock = None

\* The constructor of a WorkQueueVal: add_work_queue().
AddQueue(c, q) ==
  /\ MayCall(c)
  /\ ~IsRegistered(q)
  /\ work_queues' = Append(work_queues, q)
  /\ UNCHANGED <<lock, cond, wait_cond, poolVars, threads, next_work_queue,
                 task_queue, to_process, to_finish, workerVars, clientVars,
                 itemVars, stops>>

\* remove_work_queue(), by the owner who goes on to destroy the queue with the
\* items in it, and does so only while nobody works on it or drains it.  (The
\* call in ~WorkQueueVal comes after the derived queue is gone: too late for a
\* worker that scans in between, so an owner beside a running pool calls first.)
RemoveQueue(c, q) ==
  /\ MayCall(c)
  /\ \A w \in Workers : wq[w] # q
  /\ \A d \in Clients : arg[d] # q
  /\ \E k \in DOMAIN work_queues :
       /\ work_queues[k] = q
       /\ work_queues' = SubSeq(work_queues, 1, k - 1)
                           \o SubSeq(work_queues, k + 1, Len(work_queues))
  /\ task_queue' = [task_queue EXCEPT ![q] = <<>>]
  /\ fate' = [i \in Items |-> IF i \in Elems(task_queue[q])
                              THEN "cleared" ELSE fate[i]]
  /\ UNCHANGED <<lock, cond, wait_cond, poolVars, threads, next_work_queue,
                 to_process, to_finish, workerVars, clientVars, home, stops>>

\* queue() and queue_front() differ in the end of the list they use.
Submit(c, q, i, list) ==
  /\ MayCall(c)
  /\ IsRegistered(q)
  /\ fate[i] = "fresh"
  /\ task_queue' = [task_queue EXCEPT ![q] = list]
  /\ cond' \in NotifyOne(cond)
  /\ fate' = [fate EXCEPT ![i] = "queued"]
  /\ home' = [home EXCEPT ![i] = q]
  /\ UNCHANGED <<lock, wait_cond, poolVars, threads, work_queues,
                 next_work_queue, to_process, to_finish, workerVars,
                 clientVars, stops>>

Queue(c, q, i) == Submit(c, q, i, Append(task_queue[q], i))

QueueFront(c, q, i) == Submit(c, q, i, <<i>> \o task_queue[q])

\* drain() counts up and goes to sleep.
SleepCounted(c) == draining' = draining + 1 /\ wait_cond' = wait_cond \cup {c}

\* drain(q), or drain(nullptr) for q = None: count up, then sleep or return.
DrainBegin(c, q) ==
  /\ MayCall(c)
  /\ q # None => IsRegistered(q)
  /\ IF processing # 0 \/ (q # None /\ NonEmpty(q))
     THEN /\ SleepCounted(c)
          /\ cpc' = [cpc EXCEPT ![c] = "drain"]
          /\ arg' = [arg EXCEPT ![c] = q]
     ELSE UNCHANGED <<draining, wait_cond, cpc, arg>>
  /\ UNCHANGED <<lock, cond, stop, pause, processing, threads, queueVars,
                 workerVars, pausers, itemVars, stops>>

\* c, woken inside drain() or pause(), has the lock and sleeps again.
WaitAgain(c) ==
  /\ cpc[c] \in {"drain", "pause"}
  /\ c \notin wait_cond
  /\ lock = None
  /\ MustWait(c)
  /\ wait_cond' = wait_cond \cup {c}
  /\ UNCHANGED <<lock, cond, poolVars, threads, queueVars, workerVars,
                 clientVars, itemVars, stops>>

DrainReturn(c) ==
  /\ cpc[c] = "drain"
  /\ c \notin wait_cond
  /\ lock = None
  /\ ~MustWait(c)
  /\ draining' = draining - 1
  /\ cpc' = [cpc EXCEPT ![c] = "idle"]
  /\ arg' = [arg EXCEPT ![c] = None]
  /\ UNCHANGED <<lock, cond, wait_cond, stop, pause, processing, threads,
                 queueVars, workerVars, pausers, itemVars, stops>>

\* pause(): count up, then sleep or return.  A client pauses once at a time.
PauseBegin(c) ==
  /\ MayCall(c)
  /\ c \notin pausers
  /\ pause' = pause + 1
  /\ IF processing # 0
     THEN /\ wait_cond' = wait_cond \cup {c}
          /\ cpc' = [cpc EXCEPT ![c] = "pause"]
          /\ UNCHANGED pausers
     ELSE /\ pausers' = pausers \cup {c}
          /\ UNCHANGED <<wait_cond, cpc>>
  /\ UNCHANGED <<lock, cond, stop, draining, processing, threads, queueVars,
                 workerVars, arg, itemVars, stops>>

PauseReturn(c) ==
  /\ cpc[c] = "pause"
  /\ c \notin wait_cond
  /\ lock = None
  /\ ~MustWait(c)
  /\ cpc' = [cpc EXCEPT ![c] = "idle"]
  /\ pausers' = pausers \cup {c}
  /\ UNCHANGED <<lock, cond, wait_cond, poolVars, threads, queueVars,
                 workerVars, arg, itemVars, stops>>

\* unpause(), called by a thread that paused before.
Unpause(c) ==
  /\ MayCall(c)
  /\ c \in pausers
  /\ pause' = pause - 1
  /\ cond' = {}
  /\ pausers' = pausers \ {c}
  /\ UNCHANGED <<lock, wait_cond, stop, draining, processing, threads,
                 queueVars, workerVars, cpc, arg, itemVars, stops>>

\* start_threads(): create every worker thread that is missing from _threads.
StartThreads ==
  /\ threads' = Workers
  /\ wpc' = [w \in Workers |-> IF w \in threads THEN wpc[w] ELSE "new"]

Start ==
  /\ MayCall(Admin)
  /\ StartThreads
  /\ UNCHANGED <<lock, cond, wait_cond, poolVars, queueVars, hb, wq, cur,
                 clientVars, itemVars, stops>>

\* stop(), first lock section: set _stop and wake the sleeping workers.
StopBegin ==
  /\ MayCall(Admin)
  /\ stops < MaxStops
  /\ stop' = TRUE
  /\ cond' = {}
  /\ stops' = stops + 1
  /\ cpc' = [cpc EXCEPT ![Admin] = "joining"]
  /\ UNCHANGED <<lock, wait_cond, pause, draining, processing, threads,
                 queueVars, workerVars, arg, pausers, itemVars>>

\* Without the lock: join and delete every worker thread.
StopJoin ==
  /\ cpc[Admin] = "joining"
  /\ \A w \in threads : wpc[w] = "exited"
  /\ wpc' = [w \in Workers |-> IF w \in threads THEN "none" ELSE wpc[w]]
  /\ threads' = {}
  /\ cpc' = [cpc EXCEPT ![Admin] = "clearing"]
  /\ UNCHANGED <<lock, cond, wait_cond, poolVars, queueVars, hb, wq, cur, arg,
                 pausers, itemVars, stops>>

\* Second lock section: _clear() every registered queue and reset _stop.
StopEnd ==
  /\ cpc[Admin] = "clearing"
  /\ lock = None
  /\ task_queue' = [q \in Queues |-> IF IsRegistered(q) THEN <<>>
                                     ELSE task_queue[q]]
  /\ fate' = [i \in Items |->
                IF \E q \in Queues : IsRegistered(q) /\ i \in Elems(task_queue[q])
                THEN "cleared" ELSE fate[i]]
  /\ stop' = FALSE
  /\ cpc' = [cpc EXCEPT ![Admin] = "idle"]
  /\ UNCHANGED <<lock, cond, wait_cond, pause, draining, processing, threads,
                 work_queues, next_work_queue, to_process, to_finish,
                 workerVars, arg, pausers, home, stops>>

\* lock() and unlock(): the client holds the pool's lock between the two.
\* wait(c), with a condition variable c of the client's, is to the pool an
\* unlock(): on its return the lock is taken and released at once.
Lock(c) ==
  /\ c \in CondUsers
  /\ MayCall(c)
  /\ lock' = c
  /\ cpc' = [cpc EXCEPT ![c] = "locked"]
  /\ UNCHANGED <<cond, wait_cond, poolVars, threads, queueVars, workerVars, arg,
                 pausers, itemVars, stops>>

Unlock(c) ==
  /\ cpc[c] = "locked"
  /\ lock' = None
  /\ cpc' = [cpc EXCEPT ![c] = "idle"]
  /\ UNCHANGED <<cond, wait_cond, poolVars, threads, queueVars, workerVars, arg,
                 pausers, itemVars, stops>>

\* _wait(): sleep in _cond, beside the idle workers.
CondWait(c) ==
  /\ cpc[c] = "locked"
  /\ lock' = None
  /\ cond' = cond \cup {c}
  /\ cpc' = [cpc EXCEPT ![c] = "condwait"]
  /\ UNCHANGED <<wait_cond, poolVars, threads, queueVars, workerVars, arg,
                 pausers, itemVars, stops>>

\* _wait() returns: the lock is taken, and released by the adopting unique_lock.
CondReturn(c) ==
  /\ cpc[c] = "condwait"
  /\ c \notin cond
  /\ lock = None
  /\ cpc' = [cpc EXCEPT ![c] = "idle"]
  /\ UNCHANGED <<lock, cond, wait_cond, poolVars, threads, queueVars, workerVars,
                 arg, pausers, itemVars, stops>>

\* wake(), which takes the lock, and _wake(), whose caller has it.
Wake(c) ==
  /\ c \in CondUsers
  /\ MayCall(c) \/ cpc[c] = "locked"
  /\ cond' = {}
  /\ UNCHANGED <<lock, wait_cond, poolVars, threads, queueVars, workerVars,
                 clientVars, itemVars, stops>>

\* pthread_cond_wait() may return without a signal.
SpuriousWakeup(c) ==
  /\ c \in cond \cup wait_cond
  /\ cond' = cond \ {c}
  /\ wait_cond' = wait_cond \ {c}
  /\ UNCHANGED <<lock, poolVars, threads, queueVars, workerVars, clientVars,
                 itemVars, stops>>

-----------------------------------------------------------------------------

WorkerNext(w) ==
  \/ WorkerStart(w)
  \/ WorkerDequeue(w)
  \/ WorkerIdle(w)
  \/ WorkerTimeout(w)
  \/ WorkerProcess(w)
  \/ WorkerHandle(w)
  \/ WorkerProcessed(w)
  \/ WorkerFinish(w)
  \/ WorkerExit(w)

ClientNext(c) ==
  \/ \E q \in Queues : AddQueue(c, q) \/ RemoveQueue(c, q)
  \/ \E q \in Queues, i \in Items : Queue(c, q, i) \/ QueueFront(c, q, i)
  \/ \E q \in Queues \cup {None} : DrainBegin(c, q)
  \/ WaitAgain(c)
  \/ DrainReturn(c)
  \/ PauseBegin(c)
  \/ PauseReturn(c)
  \/ Unpause(c)
  \/ Lock(c)
  \/ Unlock(c)
  \/ CondWait(c)
  \/ CondReturn(c)
  \/ Wake(c)
  \/ SpuriousWakeup(c)

AdminNext == Start \/ StopBegin \/ StopJoin \/ StopEnd

Next ==
  \/ \E w \in Workers : WorkerNext(w)
  \/ \E c \in Clients : ClientNext(c)
  \/ AdminNext

Spec == Init /\ [][Next]_vars

-----------------------------------------------------------------------------
(* Fairness.  The operating system runs every runnable thread and, in the  *)
(* long run, hands a contended mutex to every thread that waits for it     *)
(* (SF); wait_for() times out (WF); _process() returns (WF) and a client   *)
(* gives back the lock it holds (WF).  Nobody is obliged to call anything. *)

WorkerFairness(w) ==
  /\ SF_vars(WorkerStart(w) \/ WorkerDequeue(w) \/ WorkerIdle(w)
             \/ WorkerFinish(w) \/ WorkerExit(w))
  /\ WF_vars(WorkerTimeout(w))
  /\ WF_vars(WorkerProcess(w))
  /\ WF_vars(WorkerProcessed(w))

ClientFairness(c) ==
  /\ SF_vars(WaitAgain(c) \/ DrainReturn(c) \/ PauseReturn(c) \/ CondReturn(c))
  /\ WF_vars(Unlock(c) \/ CondWait(c))

FairSpec ==
  /\ Spec
  /\ \A w \in Workers : WorkerFairness(w)
  /\ \A c \in Clients : ClientFairness(c)
  /\ WF_vars(StopJoin)
  /\ SF_vars(StopEnd)

-----------------------------------------------------------------------------
(* Properties.                                                             *)

WorkerStates ==
  {"none", "new", "loop", "dequeued", "running", "processed", "waiting",
   "exited"}
ClientStates ==
  {"idle", "drain", "pause", "joining", "clearing", "locked", "condwait"}

PoolTypeOK ==
  /\ lock \in Workers \cup Clients \cup {None}
  /\ cond \subseteq Workers \cup Clients
  /\ wait_cond \subseteq Clients
  /\ pause \in Nat /\ draining \in Nat /\ processing \in Nat
  /\ threads \subseteq Workers
  /\ stops \in 0 .. MaxStops

QueueTypeOK ==
  /\ work_queues \in Seq(Queues)
  /\ next_work_queue \in Nat
  /\ task_queue \in [Queues -> Seq(Items)]
  /\ to_process \in [Queues -> Seq(Items)]
  /\ to_finish \in [Queues -> Seq(Items)]

WorkerTypeOK ==
  /\ hb \in [Workers -> {"absent", "unarmed", "pool", "queue"}]
  /\ wpc \in [Workers -> WorkerStates]
  /\ wq \in [Workers -> Queues \cup {None}]
  /\ cur \in [Workers -> Items \cup {None}]

ClientTypeOK ==
  /\ cpc \in [Clients -> ClientStates]
  /\ arg \in [Clients -> Queues \cup {None}]
  /\ pausers \subseteq Clients

ItemTypeOK ==
  /\ fate \in [Items -> {"fresh", "queued", "processed", "finished", "cleared"}]
  /\ home \in [Items -> Queues \cup {None}]

\* Every variable keeps its type; _pause, _draining and processing, plain ints
\* in the code, never go below zero.
TypeOK ==
  /\ stop \in BOOLEAN
  /\ PoolTypeOK
  /\ QueueTypeOK
  /\ WorkerTypeOK
  /\ ClientTypeOK
  /\ ItemTypeOK

HasItem == {"dequeued", "running", "processed"}
Busy == {w \in Workers : wpc[w] \in HasItem}
WorkersAt(q, state) == {w \in Workers : wpc[w] = state /\ wq[w] = q}

\* The anonymous hand-over through to_process and to_finish balances: each
\* list holds as many items as there are workers about to pop it, and
\* `processing` counts the workers between dequeue and finish.  The ASSERTs
\* that neither list is empty when popped rest on this.
HandoffBalanced ==
  /\ processing = Cardinality(Busy)
  /\ \A q \in Queues :
       /\ Len(to_process[q]) = Cardinality(WorkersAt(q, "dequeued"))
       /\ Len(to_finish[q]) = Cardinality(WorkersAt(q, "processed"))

Times(list, i) == Cardinality({k \in DOMAIN list : list[k] = i})

\* The places of queue q where item i can be, each with how often it is there.
Copies(q, i) ==
  Times(task_queue[q], i) + Times(to_process[q], i) + Times(to_finish[q], i)
    + Cardinality({w \in Workers : wq[w] = q /\ cur[w] = i})

\* No item is lost, duplicated or moved to another queue, although workers
\* pick up and finish each other's items: a submitted item is in exactly one
\* place of its own queue, in to_finish just when it was processed, until it
\* is finished or cleared, and after that nowhere.
ExactlyOnce ==
  \A i \in Items, q \in Queues :
    /\ Copies(q, i) = IF home[i] = q /\ fate[i] \in {"queued", "processed"}
                      THEN 1 ELSE 0
    /\ Times(to_finish[q], i) = 1 <=> home[i] = q /\ fate[i] = "processed"

\* From the return of pause() to unpause() no worker has an item, whatever is
\* queued meanwhile and however many threads pause.
PausedQuiescent ==
  pausers # {} => Busy = {}

\* The condition drain(q) waits for is the right one: when nothing is being
\* processed and the queue is empty, every item ever queued to it is settled.
DrainMeansDone ==
  \A q \in Queues :
    processing = 0 /\ ~NonEmpty(q)
      => \A i \in Items : home[i] = q => fate[i] \in {"finished", "cleared"}

\* A thread asleep in pause() or drain() has a reason to sleep: its condition
\* never comes true without a notification.  Left out is every drain() of a
\* single queue once a stop() has begun, as stop() clears the queues
\* (DrainWokenByStop is about it); a drain() of all tasks is not.
NoLostWakeup ==
  \A c \in wait_cond :
    MustWait(c) \/ (cpc[c] = "drain" /\ arg[c] # None /\ stops > 0)

\* The same without the exception: drain() waits for the tasks to be done, so
\* when stop() has cleared them the thread in drain() is not left asleep.
DrainWokenByStop == \A c \in wait_cond : MustWait(c)

\* notify_one() in queue() is enough: as long as only workers sleep in _cond,
\* a running pool with an item to take has a worker that is awake.
WorkKeepsWorkerAwake ==
  /\ threads # {}
  /\ ~stop
  /\ pause = 0
  /\ \E q \in Queues : IsRegistered(q) /\ NonEmpty(q)
  => \E w \in threads : w \notin cond

\* Once stop() has joined the workers, none of them left anything behind: no
\* heartbeat entry (~HeartbeatMap asserts that), no item half done, no lock.
StopLeavesNothing ==
  threads = {} =>
    /\ processing = 0
    /\ \A w \in Workers : hb[w] = "absent" /\ lock # w /\ w \notin cond
    /\ \A q \in Queues : to_process[q] = <<>> /\ to_finish[q] = <<>>

\* The number of tries until the scan reaches q.
Distance(q) ==
  CHOOSE k \in 0 .. (Len(work_queues) - 1) : Tried(k) = q

\* No queue is starved by the others: whenever an item is taken from one
\* queue, next_work_queue comes closer to every other queue that has items.
RoundRobin ==
  [][\A q \in Queues :
       /\ processing' = processing + 1
       /\ IsRegistered(q)
       /\ NonEmpty(q)
       /\ task_queue'[q] = task_queue[q]
       => Distance(q)' < Distance(q)]_vars

\* The pool implements WorkPool.  An item is worked on from the step that
\* takes it out of its queue to the one that finishes it; the pool is quiet
\* while some pause() has returned and was not undone.
Active ==
  {i \in Items : /\ fate[i] \in {"queued", "processed"}
                 /\ \A q \in Queues : i \notin Elems(task_queue[q])}

Abstract == INSTANCE WorkPool WITH
  NumThreads <- Cardinality(Workers),
  line <- task_queue,
  active <- Active,
  done <- {i \in Items : fate[i] = "finished"},
  dropped <- {i \in Items : fate[i] = "cleared"},
  quiet <- pausers # {}

\* Whatever the threads do, the clients see the pool of WorkPool: every item
\* done once and in line, at most _num_threads at a time, none while paused.
ImplementsWorkPool == Abstract!Spec

\* The pool is left to do its work from some time on.
Serving == threads # {} /\ ~stop /\ pause = 0

\* A queued item is eventually finished or cleared, if the pool runs unpaused
\* from some time on, even if a client in _wait() takes the workers' signals.
ItemsSettle ==
  <>[]Serving =>
    \A i \in Items : fate[i] = "queued" ~> fate[i] \in {"finished", "cleared"}

\* stop() returns, whatever the workers and the other clients are doing.
StopReturns == cpc[Admin] = "joining" ~> cpc[Admin] = "idle"

\* pause() returns, whatever the workers and the other clients are doing.
PauseReturns == \A c \in Clients : cpc[c] = "pause" ~> c \in pausers

\* drain() returns if the pool runs unpaused from some time on and the clients
\* do not submit for ever; the clearing by stop() is left out, as above.
DrainReturns ==
  <>[]Serving =>
    \A c \in Clients : cpc[c] = "drain" ~> cpc[c] = "idle" \/ stops > 0

-----------------------------------------------------------------------------
(* The inductive invariant behind the safety properties.                   *)

Draining == {c \in Clients : cpc[c] = "drain"}
Pausing == {c \in Clients : cpc[c] = "pause"}

\* What the position of a worker in worker() says about everything else.
WorkerShape ==
  \A w \in Workers :
    /\ wq[w] # None <=> wpc[w] \in HasItem
    /\ cur[w] # None <=> wpc[w] = "running"
    /\ lock = w <=> wpc[w] = "loop"
    /\ w \in cond => wpc[w] = "waiting"
    /\ w \in threads <=> wpc[w] # "none"
    /\ hb[w] = "absent" <=> wpc[w] \in {"none", "new", "exited"}

\* What the call a client is in says about everything else.
ClientShape ==
  /\ \A c \in wait_cond : cpc[c] \in {"drain", "pause"}
  /\ \A c \in Clients : cpc[c] \in {"joining", "clearing"} => stops > 0
  /\ \A c \in Clients : arg[c] # None => cpc[c] = "drain"
  /\ \A c \in Clients : cpc[c] = "locked" => lock = c

\* _draining and _pause count the calls they are there for.
CallsCounted ==
  /\ draining = Cardinality(Draining)
  /\ pause = Cardinality(pausers \cup Pausing)
  /\ pausers \cap Pausing = {}

PoolInv ==
  /\ TypeOK
  /\ WorkerShape
  /\ ClientShape
  /\ CallsCounted
  /\ HandoffBalanced
  /\ PausedQuiescent
  /\ NoLostWakeup

=============================================================================
