-------------------------- MODULE ShardedThreadPool --------------------------
(***************************************************************************)
(* The sharded pool of thread/shardedthreadpool.{h,cc}: every worker       *)
(* serves the shard of its index, and clients pause, drain and stop all    *)
(* workers through three atomic flags that the workers read without the    *)
(* lock.                                                                   *)
(*                                                                         *)
(* Each critical section of shardedpool_lock runs to its end or to a sleep *)
(* as one action and the lock needs no variable: what another thread can   *)
(* read in between makes it at most turn once more round its loop. The     *)
(* flags are read outside, one action per read. The work queue behind      *)
(* BaseShardedWQ is the user's: _process() works on an item of the shard,  *)
(* and with an empty shard it waits, unless return_waiting_threads() is in *)
(* force. Of the heartbeat map only the entries are kept here; Heartbeat   *)
(* has the deadlines.                                                      *)
(***************************************************************************)
EXTENDS Integers, FiniteSets

CONSTANTS
  Workers,   \* the worker threads, num_threads of them
  Clients,   \* the threads that call the pool
  Admin,     \* the one client that calls start() and stop()
  Shards,
  ShardOf,   \* per worker: the shard it serves
  Items,     \* the values queued, each at most once
  None

ASSUME WorkersAssumption == IsFiniteSet(Workers) /\ Workers # {}
ASSUME AdminAssumption == Admin \in Clients
ASSUME ShardOfAssumption ==
  /\ ShardOf \in [Workers -> Shards]
  /\ \A s \in Shards : \E w \in Workers : ShardOf[w] = s
ASSUME NoItemAssumption == None \notin Items

VARIABLES
  stop_threads, pause_threads, drain_threads,
  num_paused, num_drained,
  threads,      \* threads_shardedpool: empty or all workers
  cond,         \* the workers asleep in shardedpool_cond
  wait_cond,    \* the clients asleep in wait_cond
  hb,           \* the workers in the heartbeat map
  wpc,          \* per worker: where it stands
  cur,          \* per worker: the item it processes
  returning,    \* return_waiting_threads() is in force
  shard,        \* per shard: the items queued and not yet taken
  done,         \* the items processed
  cpc,          \* per client: the call it is in
  owed,         \* history, per client in drain(): the items it answers for
  pausers,      \* history: the clients whose pause() has returned, with no
                \* unpause() by anybody since
  overtaken     \* history: the clients whose pause() an unpause() overtook, that
                \* is, it came while they were in pause(), and no other pause()
                \* began between it and their return

flagVars == <<stop_threads, pause_threads, drain_threads, returning>>
countVars == <<num_paused, num_drained>>
itemVars == <<cur, shard, done>>
pauseVars == <<pausers, overtaken>>
clientVars == <<cpc, owed, pauseVars>>
vars == <<flagVars, countVars, threads, cond, wait_cond, hb, wpc, itemVars,
          clientVars>>

num_threads == Cardinality(Workers)

Init ==
  /\ stop_threads = FALSE /\ pause_threads = FALSE /\ drain_threads = FALSE
  /\ num_paused = 0 /\ num_drained = 0
  /\ threads = {} /\ cond = {} /\ wait_cond = {}
  /\ hb = {}
  /\ wpc = [w \in Workers |-> "none"]
  /\ cur = [w \in Workers |-> None]
  /\ returning = FALSE
  /\ shard = [s \in Shards |-> {}]
  /\ done = {}
  /\ cpc = [c \in Clients |-> "idle"]
  /\ owed = [c \in Clients |-> {}]
  /\ pausers = {} /\ overtaken = {}

-----------------------------------------------------------------------------
(* start_shardedthreadpool_worker().  No worker writes the flags or        *)
(* threads; WorkerNext says so once for all its actions.                   *)

Goto(w, to) == wpc' = [wpc EXCEPT ![w] = to]

\* Faulty variant: do ... while (!stop_threads).
WorkFirst == "asks pause"

\* while (!stop_threads) ...
TestFirst == "loop"

\* Enter the heartbeat map, then the loop.
WorkerStart(w) ==
  /\ wpc[w] = "new"
  /\ hb' = hb \cup {w}
  /\ Goto(w, TestFirst)
  /\ UNCHANGED <<countVars, cond, wait_cond, itemVars>>

\* while (!stop_threads): leave the heartbeat map and the thread, or go on.
WorkerLoop(w) ==
  /\ wpc[w] = "loop"
  /\ IF stop_threads
     THEN hb' = hb \ {w} /\ Goto(w, "exited")
     ELSE UNCHANGED hb /\ Goto(w, "asks pause")
  /\ UNCHANGED <<countVars, cond, wait_cond, itemVars>>

\* if (pause_threads), without the lock.
ReadPause(w) ==
  /\ wpc[w] = "asks pause"
  /\ Goto(w, IF pause_threads THEN "pausing" ELSE "asks drain")
  /\ UNCHANGED <<countVars, cond, wait_cond, hb, itemVars>>

\* Faulty variant: forgotten.
CountNobody == UNCHANGED num_paused

CountPaused == num_paused' = num_paused + 1

\* With the lock: count, notify wait_cond, and park, if the flag is still set.
ParkPaused(w) ==
  /\ wpc[w] = "pausing"
  /\ wait_cond' = {}
  /\ IF pause_threads
     THEN /\ CountPaused
          /\ cond' = cond \cup {w}
          /\ Goto(w, "paused")
     ELSE /\ Goto(w, "asks drain")
          /\ UNCHANGED <<num_paused, cond>>
  /\ UNCHANGED <<hb, num_drained, itemVars>>

\* Faulty variant: `if` instead of `while`.
ParkOnce == FALSE

ParkAgain == pause_threads

\* Woken with the lock: park again while the flag is set, or count down.
LeavePause(w) ==
  /\ wpc[w] = "paused"
  /\ w \notin cond
  /\ IF ParkAgain
     THEN /\ cond' = cond \cup {w}
          /\ UNCHANGED <<num_paused, wpc>>
     ELSE /\ num_paused' = num_paused - 1
          /\ Goto(w, "asks drain")
          /\ UNCHANGED cond
  /\ UNCHANGED <<hb, num_drained, wait_cond, itemVars>>

\* if (drain_threads), without the lock.
ReadDrain(w) ==
  /\ wpc[w] = "asks drain"
  /\ Goto(w, IF drain_threads THEN "draining" ELSE "processing")
  /\ UNCHANGED <<countVars, cond, wait_cond, hb, itemVars>>

\* is_shard_empty(), the user's.
IsShardEmpty(w) == shard[ShardOf[w]] = {}

\* Faulty variant: the shard is not looked at.
ShardTakenForEmpty(w) == TRUE

\* What a worker that read drain_threads asks about its shard.
MayPark(w) == IsShardEmpty(w)

\* With the lock: a worker whose shard is empty counts itself and parks.
ParkDrained(w) ==
  /\ wpc[w] = "draining"
  /\ IF MayPark(w)
     THEN /\ wait_cond' = {}
          /\ IF drain_threads
             THEN /\ num_drained' = num_drained + 1
                  /\ cond' = cond \cup {w}
                  /\ Goto(w, "drained")
             ELSE /\ Goto(w, "processing")
                  /\ UNCHANGED <<num_drained, cond>>
     ELSE /\ Goto(w, "processing")
          /\ UNCHANGED <<num_drained, cond, wait_cond>>
  /\ UNCHANGED <<hb, num_paused, itemVars>>

LeaveDrain(w) ==
  /\ wpc[w] = "drained"
  /\ w \notin cond
  /\ IF drain_threads
     THEN /\ cond' = cond \cup {w}
          /\ UNCHANGED <<num_drained, wpc>>
     ELSE /\ num_drained' = num_drained - 1
          /\ Goto(w, "processing")
          /\ UNCHANGED cond
  /\ UNCHANGED <<hb, num_paused, wait_cond, itemVars>>

\* The timeout of shardedpool_cond.wait_for(), or a wakeup without a signal.
\* (The timeout is threadpool_empty_queue_max_wait_interval, which nothing
\* initialises, so it may come at any time or never.)
WorkerWakes(w) ==
  /\ w \in cond
  /\ cond' = cond \ {w}
  /\ UNCHANGED <<countVars, wait_cond, hb, wpc, itemVars>>

\* reset_timeout() and _process(): take an item, if the shard has one ...
TakeItem(w) ==
  /\ wpc[w] = "processing"
  /\ \E i \in shard[ShardOf[w]] :
       /\ cur' = [cur EXCEPT ![w] = i]
       /\ shard' = [shard EXCEPT ![ShardOf[w]] = @ \ {i}]
  /\ Goto(w, "running")
  /\ UNCHANGED <<hb, countVars, cond, wait_cond, done>>

\* ... or return empty-handed, once nobody is to wait.
ReturnIdle(w) ==
  /\ wpc[w] = "processing"
  /\ IsShardEmpty(w)
  /\ returning
  /\ Goto(w, "loop")
  /\ UNCHANGED <<hb, countVars, cond, wait_cond, itemVars>>

FinishItem(w) ==
  /\ wpc[w] = "running"
  /\ done' = done \cup {cur[w]}
  /\ cur' = [cur EXCEPT ![w] = None]
  /\ Goto(w, "loop")
  /\ UNCHANGED <<countVars, cond, wait_cond, hb, shard>>

-----------------------------------------------------------------------------
(* The calls of the clients.  No client touches the counters, the          *)
(* heartbeat map or an item in process; ClientCalls and ClientGoesOn say   *)
(* so once for all.                                                        *)

\* queue() and queue_front(): _enqueue() puts the item in a shard.
Queue(c, i, s) ==
  /\ cpc[c] = "idle"
  /\ i \notin done /\ \A x \in Shards : i \notin shard[x]
  /\ \A w \in Workers : cur[w] # i
  /\ shard' = [shard EXCEPT ![s] = @ \cup {i}]
  /\ UNCHANGED <<flagVars, threads, cond, wait_cond, wpc, clientVars>>

\* pause(): raise the flag, then sleep until every worker is parked.  The flag
\* is up again for those who are in pause() after an unpause(), too.
PauseBegin(c) ==
  /\ cpc[c] = "idle"
  /\ pause_threads' = TRUE
  /\ returning' = TRUE
  /\ IF num_threads # num_paused
     THEN /\ wait_cond' = wait_cond \cup {c}
          /\ cpc' = [cpc EXCEPT ![c] = "pause"]
          /\ pausers' = pausers \ {c}
     ELSE pausers' = pausers \cup {c} /\ UNCHANGED <<wait_cond, cpc>>
  /\ overtaken' = overtaken \cap (pausers \ {c})
  /\ UNCHANGED <<stop_threads, drain_threads, threads, cond, wpc, shard, owed>>

\* The loop tests the count alone, also if the flag is down again.
PauseWakes(c) ==
  /\ cpc[c] = "pause"
  /\ c \notin wait_cond
  /\ IF num_threads # num_paused
     THEN wait_cond' = wait_cond \cup {c} /\ UNCHANGED <<cpc, pausers>>
     ELSE /\ cpc' = [cpc EXCEPT ![c] = "idle"]
          /\ pausers' = pausers \cup {c}
          /\ UNCHANGED wait_cond
  /\ UNCHANGED <<flagVars, threads, cond, wpc, shard, owed, overtaken>>

\* Faulty variant: forgotten.
NotifyNobody == UNCHANGED cond

\* shardedpool_cond.notify_all()
NotifyWorkers == cond' = {}

\* unpause(), by any client at any time.
Unpause(c) ==
  /\ cpc[c] = "idle"
  /\ pause_threads' = FALSE
  /\ returning' = FALSE
  /\ NotifyWorkers
  /\ pausers' = {}
  /\ overtaken' = {d \in Clients : cpc[d] = "pause"}
  /\ UNCHANGED <<stop_threads, drain_threads, threads, wait_cond, wpc, shard,
                 cpc, owed>>

\* The items queued and not yet processed.
Pending ==
  (UNION {shard[s] : s \in Shards}) \cup ({cur[w] : w \in Workers} \ {None})

\* The end of drain(): lower the flag and wake the workers.
DrainEnds ==
  /\ drain_threads' = FALSE
  /\ returning' = FALSE
  /\ NotifyWorkers

\* drain(): raise the flag, then sleep until every worker is parked.  It
\* answers for what was queued before, unless workers are still parked from
\* an earlier drain(): those are counted without another look at their shard.
DrainBegin(c) ==
  /\ cpc[c] = "idle"
  /\ IF num_threads # num_drained
     THEN /\ drain_threads' = TRUE
          /\ returning' = TRUE
          /\ wait_cond' = wait_cond \cup {c}
          /\ cpc' = [cpc EXCEPT ![c] = "drain"]
          /\ owed' = [owed EXCEPT ![c] = IF num_drained = 0 THEN Pending ELSE {}]
          /\ UNCHANGED cond
     ELSE DrainEnds /\ UNCHANGED <<wait_cond, cpc, owed>>
  /\ UNCHANGED <<stop_threads, pause_threads, threads, wpc, shard, pauseVars>>

DrainWakes(c) ==
  /\ cpc[c] = "drain"
  /\ c \notin wait_cond
  /\ IF num_threads # num_drained
     THEN /\ wait_cond' = wait_cond \cup {c}
          /\ UNCHANGED <<drain_threads, returning, cond, cpc, owed>>
     ELSE /\ DrainEnds
          /\ cpc' = [cpc EXCEPT ![c] = "idle"]
          /\ owed' = [owed EXCEPT ![c] = {}]
          /\ UNCHANGED wait_cond
  /\ UNCHANGED <<stop_threads, pause_threads, threads, wpc, shard, pauseVars>>

\* pthread_cond_wait() may return without a signal.
ClientWakes(c) ==
  /\ c \in wait_cond
  /\ wait_cond' = wait_cond \ {c}
  /\ UNCHANGED <<flagVars, threads, cond, wpc, shard, clientVars>>

\* The threads that start_threads() leaves in threads_shardedpool.
AllThreads == Workers

Start ==
  /\ cpc[Admin] = "idle"
  /\ threads' = AllThreads
  /\ wpc' = [w \in Workers |-> IF w \in threads THEN wpc[w] ELSE "new"]
  /\ UNCHANGED <<flagVars, cond, wait_cond, shard, clientVars>>

\* stop(), all without the lock: stop_threads is set and never reset ...
StopBegin ==
  /\ cpc[Admin] = "idle"
  /\ stop_threads' = TRUE
  /\ cpc' = [cpc EXCEPT ![Admin] = "stopping"]
  /\ UNCHANGED <<pause_threads, drain_threads, returning, threads, cond,
                 wait_cond, wpc, shard, owed, pauseVars>>

\* ... return_waiting_threads() ...
StopReturnsWaiting ==
  /\ cpc[Admin] = "stopping"
  /\ returning' = TRUE
  /\ cpc' = [cpc EXCEPT ![Admin] = "joining"]
  /\ UNCHANGED <<stop_threads, pause_threads, drain_threads, threads, cond,
                 wait_cond, wpc, shard, owed, pauseVars>>

\* ... and join() and delete every worker.
StopJoin ==
  /\ cpc[Admin] = "joining"
  /\ \A w \in threads : wpc[w] = "exited"
  /\ threads' = {}
  /\ wpc' = [w \in Workers |-> "none"]
  /\ cpc' = [cpc EXCEPT ![Admin] = "idle"]
  /\ UNCHANGED <<flagVars, cond, wait_cond, shard, owed, pauseVars>>

-----------------------------------------------------------------------------

WorkerNext(w) ==
  /\ \/ WorkerStart(w) \/ WorkerLoop(w)
     \/ ReadPause(w) \/ ParkPaused(w) \/ LeavePause(w)
     \/ ReadDrain(w) \/ ParkDrained(w) \/ LeaveDrain(w)
     \/ TakeItem(w) \/ ReturnIdle(w) \/ FinishItem(w)
  /\ UNCHANGED <<flagVars, threads, clientVars>>

\* c goes on in a call.
ClientGoesOn(c) ==
  /\ \/ PauseWakes(c)
     \/ DrainWakes(c)
     \/ c = Admin /\ (StopReturnsWaiting \/ StopJoin)
  /\ UNCHANGED <<countVars, hb, cur, done>>

\* c calls.
ClientCalls(c) ==
  /\ \/ PauseBegin(c)
     \/ Unpause(c)
     \/ DrainBegin(c)
     \/ \E i \in Items, s \in Shards : Queue(c, i, s)
     \/ c = Admin /\ (Start \/ StopBegin)
  /\ UNCHANGED <<countVars, hb, cur, done>>

Wakeup ==
  \/ /\ \E w \in Workers : WorkerWakes(w)
     /\ UNCHANGED <<flagVars, threads, clientVars>>
  \/ /\ \E c \in Clients : ClientWakes(c)
     /\ UNCHANGED <<countVars, hb, cur, done>>

Next ==
  \/ \E w \in Workers : WorkerNext(w)
  \/ \E c \in Clients : ClientGoesOn(c) \/ ClientCalls(c)
  \/ Wakeup

Spec == Init /\ [][Next]_vars

\* Threads are scheduled, the lock goes round, and _process() returns when it
\* has done its item or nobody is to wait.  Nobody is obliged to call, and no
\* timeout or spurious wakeup has to happen.
FairSpec ==
  /\ Spec
  /\ \A w \in Workers : WF_vars(WorkerNext(w))
  /\ \A c \in Clients : WF_vars(ClientGoesOn(c))

-----------------------------------------------------------------------------
(* Properties.                                                             *)

WorkerStates ==
  {"none", "new", "loop", "asks pause", "pausing", "paused", "asks drain",
   "draining", "drained", "processing", "running", "exited"}

TypeOK ==
  /\ stop_threads \in BOOLEAN /\ pause_threads \in BOOLEAN
  /\ drain_threads \in BOOLEAN /\ returning \in BOOLEAN
  /\ num_paused \in Nat /\ num_drained \in Nat
  /\ threads \in {{}, Workers}
  /\ cond \subseteq Workers /\ wait_cond \subseteq Clients /\ hb \subseteq Workers
  /\ wpc \in [Workers -> WorkerStates]
  /\ cur \in [Workers -> Items \cup {None}]
  /\ shard \in [Shards -> SUBSET Items]
  /\ done \subseteq Items
  /\ cpc \in [Clients -> {"idle", "pause", "drain", "stopping", "joining"}]
  /\ owed \in [Clients -> SUBSET Items]
  /\ pausers \subseteq Clients /\ overtaken \subseteq Clients

At(state) == {w \in Workers : wpc[w] = state}

\* The two counters are right at every moment: they count exactly the workers
\* parked in the pause loop and in the drain loop, awake or asleep.
ParkedCounted ==
  /\ num_paused = Cardinality(At("paused"))
  /\ num_drained = Cardinality(At("drained"))

\* From the return of pause() to the next unpause() by anybody every worker
\* stays parked: none is processing and none can take an item, although a second
\* pause() returns at once on the count that the first one left.  This is so
\* for a pause() that no unpause() of another client overtook: such a one may
\* return on the workers that the unpause() woke and that have yet to count
\* themselves down, and then they run.
PausedQuiescent == pausers \ overtaken # {} => At("paused") = Workers

\* When drain() returns, every item that was queued before it began has been
\* processed, also those that a worker of another index had in hand.  This is
\* so for a drain() that begins when no worker is parked by an earlier one; the
\* code counts such workers although their shards may have filled again.
DrainMeansDone ==
  [][\A c \in Clients :
       cpc[c] = "drain" /\ cpc'[c] = "idle" => owed[c] \subseteq done]_vars

\* A pool is stopped for good: after stop() has returned no worker is parked,
\* counted or at work, none is left in the heartbeat map unless start() was
\* called again, and then it leaves without having looked for an item.
StoppedForGood ==
  stop_threads /\ cpc[Admin] = "idle" =>
    /\ \A w \in Workers : wpc[w] \in {"none", "new", "loop", "exited"}
    /\ num_paused = 0 /\ num_drained = 0
    /\ threads = {} => hb = {}

\* The calls are made one at a time (so no other call ends in between and calls
\* stop_return_waiting_threads()), and pause() and drain() on a pool that runs:
\* without this they may wait for each other for ever.
OneAtATime ==
  /\ \A c, d \in Clients : cpc[c] # "idle" /\ cpc[d] # "idle" => c = d
  /\ \A c \in Clients :
       /\ cpc[c] \in {"drain", "stopping", "joining"} => ~pause_threads
       /\ cpc[c] \in {"pause", "drain", "joining"} => returning
       /\ cpc[c] \in {"pause", "drain"} => threads # {} /\ ~stop_threads

\* pause(), drain() and stop() return, however the workers are caught between
\* their reads of the flags, if the calls are made one at a time.
CallsReturn ==
  []OneAtATime => \A c \in Clients : cpc[c] # "idle" ~> cpc[c] = "idle"

=============================================================================
