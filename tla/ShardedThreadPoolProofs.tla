------------------------ MODULE ShardedThreadPoolProofs ------------------------
(***************************************************************************)
(* Proofs about ShardedThreadPool, for any number of workers, clients,     *)
(* shards and items.  Every invariant is proved one step at a time:        *)
(* ...Worker for a step of a worker, ...Client for a step of a client.     *)
(***************************************************************************)
EXTENDS ShardedThreadPool, FiniteSetTheorems, TLAPS

\* A worker has an item in hand exactly while _process() runs.
InHand == \A w \in Workers : cur[w] # None <=> wpc[w] = "running"

\* A worker that is not in threads_shardedpool is not there.
NotStarted == \A w \in Workers : w \notin threads => wpc[w] = "none"

\* Counts and types belong together: a counter goes down only from above zero.
CountInv == TypeOK /\ ParkedCounted /\ InHand /\ NotStarted

-----------------------------------------------------------------------------
(* Counting.                                                               *)

\* The workers that stand at one place can be counted.
LEMMA AtFinite == \A s : IsFiniteSet(At(s))
BY WorkersAssumption, FS_Subset DEF At

\* Nobody else moves when a worker does.
LEMMA AtMoves ==
  ASSUME TypeOK, NEW w \in Workers, NEW to, Goto(w, to), NEW s
  PROVE  At(s)' = IF to = s THEN At(s) \cup {w} ELSE At(s) \ {w}
BY DEF TypeOK, Goto, At

\* So a count changes by one, and only if the worker comes or goes.
LEMMA CountMoves ==
  ASSUME TypeOK, NEW w \in Workers, NEW to, Goto(w, to), NEW s
  PROVE  /\ Cardinality(At(s)) \in Nat
         /\ wpc[w] # s /\ to # s => Cardinality(At(s)') = Cardinality(At(s))
         /\ wpc[w] # s /\ to = s => Cardinality(At(s)') = Cardinality(At(s)) + 1
         /\ wpc[w] = s /\ to # s => /\ Cardinality(At(s)') = Cardinality(At(s)) - 1
                                    /\ Cardinality(At(s)) > 0
<1>1. IsFiniteSet(At(s))
  BY AtFinite
<1>2. Cardinality(At(s)) \in Nat
  BY <1>1, FS_CardinalityType
<1>3. w \in At(s) <=> wpc[w] = s
  BY DEF At
<1>4. w \in At(s) => Cardinality(At(s)) > 0
  BY <1>1, <1>2, FS_EmptySet
<1>5. /\ Cardinality(At(s) \cup {w}) =
           IF w \in At(s) THEN Cardinality(At(s)) ELSE Cardinality(At(s)) + 1
      /\ Cardinality(At(s) \ {w}) =
           IF w \in At(s) THEN Cardinality(At(s)) - 1 ELSE Cardinality(At(s))
  BY <1>1, FS_AddElement, FS_RemoveElement
<1>6. At(s)' = IF to = s THEN At(s) \cup {w} ELSE At(s) \ {w}
  BY AtMoves
<1> QED BY <1>2, <1>3, <1>4, <1>5, <1>6

\* num_threads == num_paused means what pause() takes it for, and likewise for
\* the other counter.
LEMMA AllParked ==
  ASSUME ParkedCounted
  PROVE  /\ num_threads = num_paused => At("paused") = Workers
         /\ num_threads = num_drained => At("drained") = Workers
         /\ num_drained = 0 => At("drained") = {}
<1>1. At("paused") \in SUBSET Workers /\ At("drained") \in SUBSET Workers
  BY DEF At
<1> QED BY <1>1, AtFinite, WorkersAssumption, FS_Subset, FS_EmptySet
           DEF ParkedCounted, num_threads

-----------------------------------------------------------------------------
(* Types and counts.                                                       *)

\* A worker that moves keeps both counters right if it counts itself in and out.
LEMMA CountedMove ==
  ASSUME CountInv, NEW w \in Workers, NEW to \in WorkerStates, Goto(w, to),
         num_paused' = CASE wpc[w] # "paused" /\ to = "paused" -> num_paused + 1
                         [] wpc[w] = "paused" /\ to # "paused" -> num_paused - 1
                         [] OTHER -> num_paused,
         num_drained' = CASE wpc[w] # "drained" /\ to = "drained" -> num_drained + 1
                          [] wpc[w] = "drained" /\ to # "drained" -> num_drained - 1
                          [] OTHER -> num_drained,
         wpc[w] # to, wpc[w] # "none", UNCHANGED threads
  PROVE  /\ ParkedCounted' /\ NotStarted'
         /\ num_paused' \in Nat /\ num_drained' \in Nat
         /\ wpc' \in [Workers -> WorkerStates]
<1> USE DEF CountInv
<1>1. ParkedCounted'
  BY CountMoves DEF ParkedCounted
<1>2. num_paused' \in Nat /\ num_drained' \in Nat
  BY CountMoves DEF ParkedCounted
<1>3. wpc' \in [Workers -> WorkerStates] /\ NotStarted'
  BY DEF TypeOK, Goto, NotStarted
<1> QED BY <1>1, <1>2, <1>3

\* Parking again changes no count.
LEMMA CountedStay ==
  ASSUME CountInv, UNCHANGED <<wpc, countVars, threads>>
  PROVE  /\ ParkedCounted' /\ NotStarted'
         /\ num_paused' \in Nat /\ num_drained' \in Nat
         /\ wpc' \in [Workers -> WorkerStates]
BY DEF CountInv, TypeOK, ParkedCounted, At, NotStarted, countVars

\* Every step of a worker counts it in and out.
LEMMA CountWorker ==
  ASSUME CountInv, NEW w \in Workers, WorkerNext(w)
  PROVE  /\ ParkedCounted' /\ NotStarted'
         /\ num_paused' \in Nat /\ num_drained' \in Nat
         /\ wpc' \in [Workers -> WorkerStates]
<1>0. UNCHANGED threads
  BY DEF WorkerNext
<1>1. CASE WorkerStart(w) \/ WorkerLoop(w) \/ ReadPause(w) \/ ReadDrain(w)
  BY <1>0, <1>1, CountedMove
     DEF WorkerStart, WorkerLoop, ReadPause, ReadDrain, TestFirst, WorkerStates,
         countVars
<1>2. CASE TakeItem(w) \/ ReturnIdle(w) \/ FinishItem(w)
  BY <1>0, <1>2, CountedMove
     DEF TakeItem, ReturnIdle, FinishItem, WorkerStates, countVars
<1>3. CASE ParkPaused(w)
  BY <1>0, <1>3, CountedMove DEF ParkPaused, CountPaused, WorkerStates
<1>4. CASE LeavePause(w)
  BY <1>0, <1>4, CountedMove, CountedStay DEF LeavePause, WorkerStates, countVars
<1>5. CASE ParkDrained(w)
  BY <1>0, <1>5, CountedMove DEF ParkDrained, WorkerStates
<1>6. CASE LeaveDrain(w)
  BY <1>0, <1>6, CountedMove, CountedStay DEF LeaveDrain, WorkerStates, countVars
<1> QED BY <1>1, <1>2, <1>3, <1>4, <1>5, <1>6 DEF WorkerNext

\* The rest of the types, and the item in hand.
LEMMA ItemWorker ==
  ASSUME CountInv, NEW w \in Workers, WorkerNext(w)
  PROVE  /\ InHand'
         /\ cur' \in [Workers -> Items \cup {None}]
         /\ shard' \in [Shards -> SUBSET Items]
         /\ done' \subseteq Items
         /\ hb' \subseteq Workers /\ cond' \subseteq Workers
         /\ wait_cond' \subseteq Clients
<1> USE DEF CountInv, TypeOK, InHand, Goto, itemVars
<1>1. CASE WorkerStart(w) \/ WorkerLoop(w) \/ ReadPause(w) \/ ReadDrain(w)
           \/ ReturnIdle(w)
  BY <1>1 DEF WorkerStart, WorkerLoop, ReadPause, ReadDrain, ReturnIdle, TestFirst
<1>2. CASE ParkPaused(w) \/ LeavePause(w)
  BY <1>2 DEF ParkPaused, LeavePause
<1>3. CASE ParkDrained(w) \/ LeaveDrain(w)
  BY <1>3 DEF ParkDrained, LeaveDrain
<1>4. CASE TakeItem(w)
  <2>1. PICK i \in shard[ShardOf[w]] :
               /\ cur' = [cur EXCEPT ![w] = i]
               /\ shard' = [shard EXCEPT ![ShardOf[w]] = @ \ {i}]
    BY <1>4 DEF TakeItem
  <2>2. ShardOf[w] \in Shards /\ i \in Items /\ i # None
    BY NoItemAssumption, ShardOfAssumption
  <2>3. wpc' = [wpc EXCEPT ![w] = "running"]
        /\ UNCHANGED <<hb, cond, wait_cond, done>>
    BY <1>4 DEF TakeItem
  <2>4. InHand'
    BY <2>1, <2>2, <2>3
  <2> QED BY <2>1, <2>2, <2>3, <2>4
<1>5. CASE FinishItem(w)
  BY <1>5 DEF FinishItem
<1> QED BY <1>1, <1>2, <1>3, <1>4, <1>5 DEF WorkerNext

\* No call of a client moves a worker, except that start() creates the missing
\* ones and stop() deletes those that have exited.
LEMMA ClientFrame ==
  ASSUME CountInv, NEW c \in Clients, ClientGoesOn(c) \/ ClientCalls(c)
  PROVE  /\ UNCHANGED <<countVars, hb, cur, done>>
         /\ \/ UNCHANGED <<wpc, threads>>
            \/ /\ threads' = Workers
               /\ wpc' = [w \in Workers |-> IF w \in threads THEN wpc[w] ELSE "new"]
            \/ /\ threads' = {}
               /\ wpc' = [w \in Workers |-> "none"]
               /\ \A w \in threads : wpc[w] = "exited"
<1>1. UNCHANGED <<countVars, hb, cur, done>>
  BY DEF ClientGoesOn, ClientCalls
<1>2. ASSUME NEW i \in Items, NEW s \in Shards, Queue(c, i, s)
      PROVE  UNCHANGED <<wpc, threads>>
  BY <1>2 DEF Queue
<1>3. CASE PauseWakes(c) \/ DrainWakes(c) \/ StopReturnsWaiting \/ PauseBegin(c)
           \/ Unpause(c) \/ DrainBegin(c) \/ StopBegin
  BY <1>1, <1>3 DEF PauseWakes, DrainWakes, StopReturnsWaiting, PauseBegin, Unpause,
              DrainBegin, StopBegin
<1>4. CASE StopJoin
  BY <1>1, <1>4 DEF StopJoin
<1>5. CASE Start
  BY <1>1, <1>5 DEF Start, AllThreads
<1> QED BY <1>1, <1>2, <1>3, <1>4, <1>5 DEF ClientGoesOn, ClientCalls

\* So the counts stay right.
LEMMA CountClient ==
  ASSUME CountInv, NEW c \in Clients, ClientGoesOn(c) \/ ClientCalls(c)
  PROVE  /\ ParkedCounted' /\ NotStarted' /\ InHand'
         /\ num_paused' \in Nat /\ num_drained' \in Nat
         /\ wpc' \in [Workers -> WorkerStates]
         /\ threads' \in {{}, Workers}
<1> USE DEF CountInv
<1>1. At("paused")' = At("paused") /\ At("drained")' = At("drained")
  BY ClientFrame DEF At, NotStarted
<1>2. ParkedCounted' /\ num_paused' \in Nat /\ num_drained' \in Nat
  BY <1>1, ClientFrame DEF ParkedCounted, TypeOK, countVars
<1>3. wpc' \in [Workers -> WorkerStates] /\ threads' \in {{}, Workers}
  BY ClientFrame DEF TypeOK, WorkerStates
<1>4. NotStarted'
  BY ClientFrame DEF NotStarted, TypeOK
<1>5. \A w \in Workers : wpc'[w] = "running" <=> wpc[w] = "running"
  BY ClientFrame DEF NotStarted, TypeOK
<1>6. InHand'
  <2>1. UNCHANGED cur
    BY ClientFrame
  <2> QED BY <1>5, <2>1, Zenon DEF InHand
<1> QED BY <1>2, <1>3, <1>4, <1>6

\* The rest of the types.
LEMMA TypeClient ==
  ASSUME CountInv, NEW c \in Clients, ClientGoesOn(c) \/ ClientCalls(c)
  PROVE  TypeOK'
<1> USE DEF CountInv, TypeOK, flagVars, clientVars, pauseVars, countVars
<1>0. /\ UNCHANGED <<hb, cur, done>> /\ wpc' \in [Workers -> WorkerStates]
      /\ num_paused' \in Nat /\ num_drained' \in Nat
      /\ threads' \in {{}, Workers}
  BY CountClient, ClientFrame
<1>1. ASSUME NEW i \in Items, NEW s \in Shards, Queue(c, i, s)
      PROVE  TypeOK'
  BY <1>0, <1>1 DEF Queue
<1>2. CASE PauseWakes(c) \/ PauseBegin(c)
  BY <1>0, <1>2 DEF PauseWakes, PauseBegin
<1>3. Pending \subseteq Items
  BY DEF Pending
<1>4. CASE DrainWakes(c) \/ DrainBegin(c)
  BY <1>0, <1>3, <1>4 DEF DrainWakes, DrainBegin, DrainEnds, NotifyWorkers
<1>5. CASE StopReturnsWaiting \/ StopBegin \/ StopJoin \/ Start
  BY <1>0, <1>5, AdminAssumption DEF StopReturnsWaiting, StopBegin, StopJoin, Start
<1>6. CASE Unpause(c)
  BY <1>0, <1>6 DEF Unpause, NotifyWorkers
<1> QED BY <1>1, <1>2, <1>4, <1>5, <1>6 DEF ClientGoesOn, ClientCalls

\* All steps together.
LEMMA CountStep ==
  ASSUME CountInv, [Next]_vars
  PROVE  CountInv'
<1>1. ASSUME NEW w \in Workers, WorkerNext(w)
      PROVE  CountInv'
  <2>1. UNCHANGED <<flagVars, threads, clientVars>>
    BY <1>1 DEF WorkerNext
  <2> QED BY <1>1, <2>1, CountWorker, ItemWorker
             DEF CountInv, TypeOK, flagVars, clientVars, pauseVars
<1>2. ASSUME NEW c \in Clients, ClientGoesOn(c) \/ ClientCalls(c)
      PROVE  CountInv'
  BY <1>2, CountClient, TypeClient DEF CountInv
<1>3. CASE Wakeup
  BY <1>3 DEF Wakeup, WorkerWakes, ClientWakes, CountInv, TypeOK, ParkedCounted, At,
              InHand, NotStarted, flagVars, countVars, itemVars, clientVars, pauseVars
<1>4. CASE UNCHANGED vars
  BY <1>4 DEF vars, CountInv, TypeOK, ParkedCounted, At, InHand, NotStarted,
              flagVars, countVars, itemVars, clientVars, pauseVars
<1> QED BY <1>1, <1>2, <1>3, <1>4 DEF Next

-----------------------------------------------------------------------------
(* pause().                                                                *)

\* The flag is up as long as a pause() that was not overtaken lasts, so nobody
\* leaves; and it is up while a client sleeps in pause(), unless an unpause()
\* overtook that client.
QuietInv ==
  /\ PausedQuiescent
  /\ pausers \ overtaken # {} => pause_threads
  /\ \A c \in Clients : cpc[c] = "pause" /\ ~pause_threads => c \in overtaken

\* A parked worker stays where it is while the flag is up.
LEMMA QuietWorker ==
  ASSUME CountInv, QuietInv, NEW w \in Workers, WorkerNext(w)
  PROVE  QuietInv'
<1>1. UNCHANGED <<pausers, overtaken, cpc, pause_threads>>
  BY DEF WorkerNext, flagVars, clientVars, pauseVars
<1>2. pausers \ overtaken # {} => wpc[w] = "paused" /\ pause_threads
  BY DEF QuietInv, PausedQuiescent, At
<1>3. pausers \ overtaken # {} => UNCHANGED wpc
  BY <1>2 DEF WorkerNext, WorkerStart, WorkerLoop, ReadPause, ParkPaused, LeavePause,
              ParkAgain, ReadDrain, ParkDrained, LeaveDrain, TakeItem, ReturnIdle,
              FinishItem
<1> QED BY <1>1, <1>3 DEF QuietInv, PausedQuiescent, At

\* pause() returns only to a pool whose workers are all parked, and with the
\* flag down only if it was overtaken.
LEMMA QuietClient ==
  ASSUME CountInv, QuietInv, NEW c \in Clients, ClientGoesOn(c) \/ ClientCalls(c)
  PROVE  QuietInv'
<1>1. At("paused") = Workers => At("paused")' = Workers
  <2>1. At("paused") = Workers => threads = Workers
    BY DEF At, CountInv, NotStarted, TypeOK
  <2>2. At("paused") = Workers => \E w \in threads : wpc[w] # "exited"
    BY <2>1, WorkersAssumption DEF At
  <2> QED BY <2>1, <2>2, ClientFrame DEF At, CountInv, TypeOK
<1>2. DOMAIN cpc = Clients
  BY DEF CountInv, TypeOK
<1>3. CASE /\ UNCHANGED <<pausers, overtaken, pause_threads>>
           /\ \A d \in Clients : cpc'[d] = "pause" => cpc[d] = "pause"
  BY <1>1, <1>3 DEF QuietInv, PausedQuiescent
<1>4. ASSUME NEW i \in Items, NEW s \in Shards, Queue(c, i, s)
      PROVE  QuietInv'
  BY <1>3, <1>4 DEF Queue, flagVars, clientVars, pauseVars
<1>5. CASE DrainWakes(c) \/ DrainBegin(c)
  BY <1>2, <1>3, <1>5 DEF DrainWakes, DrainBegin, pauseVars
<1>6. CASE StopReturnsWaiting \/ StopBegin \/ StopJoin \/ Start
  BY <1>2, <1>3, <1>6, AdminAssumption
     DEF StopReturnsWaiting, StopBegin, StopJoin, Start, flagVars, clientVars, pauseVars
<1>7. num_threads = num_paused => At("paused") = Workers
  BY AllParked DEF CountInv
<1>8. CASE PauseBegin(c)
  <2>1. pause_threads'
    BY <1>8 DEF PauseBegin
  <2>2. pausers' \ overtaken' # {}
          => pausers \ overtaken # {} \/ num_threads = num_paused
    BY <1>8 DEF PauseBegin
  <2> QED BY <1>1, <1>7, <2>1, <2>2 DEF QuietInv, PausedQuiescent
<1>9. CASE PauseWakes(c)
  <2>1. UNCHANGED <<pause_threads, overtaken>>
        /\ \A d \in Clients : cpc'[d] = "pause" => cpc[d] = "pause"
    BY <1>2, <1>9 DEF PauseWakes, flagVars
  <2>2. CASE UNCHANGED pausers
    BY <1>3, <2>1, <2>2
  <2>3. CASE num_threads = num_paused /\ pausers' = pausers \cup {c}
    BY <1>1, <1>7, <1>9, <2>1, <2>3 DEF PauseWakes, QuietInv, PausedQuiescent
  <2> QED BY <1>9, <2>2, <2>3 DEF PauseWakes
<1>10. CASE Unpause(c)
  BY <1>10 DEF Unpause, QuietInv, PausedQuiescent
<1> QED BY <1>4, <1>5, <1>6, <1>8, <1>9, <1>10 DEF ClientGoesOn, ClientCalls

-----------------------------------------------------------------------------
(* drain().                                                                *)

\* What a drain() answers for is queued, in hand or processed, and not in a
\* shard whose worker has parked.
DrainInv ==
  \A c \in Clients : cpc[c] = "drain" =>
    /\ owed[c] \subseteq Pending \cup done
    /\ \A w \in At("drained") : shard[ShardOf[w]] \cap owed[c] = {}

\* No step of a worker loses an item.
LEMMA PendingWorker ==
  ASSUME CountInv, NEW w \in Workers, WorkerNext(w)
  PROVE  /\ Pending \cup done \subseteq Pending' \cup done'
         /\ \A s \in Shards : shard'[s] \subseteq shard[s]
<1> USE DEF CountInv, TypeOK, InHand
<1>1. CASE UNCHANGED itemVars
  BY <1>1 DEF Pending, itemVars
<1>2. CASE TakeItem(w)
  <2>1. PICK i \in shard[ShardOf[w]] :
               /\ cur' = [cur EXCEPT ![w] = i]
               /\ shard' = [shard EXCEPT ![ShardOf[w]] = @ \ {i}]
    BY <1>2 DEF TakeItem
  <2>2. ShardOf[w] \in Shards /\ cur[w] = None /\ UNCHANGED done
    BY <1>2, ShardOfAssumption DEF TakeItem
  <2>3. \A s \in Shards : shard'[s] \subseteq shard[s] /\ shard[s] \subseteq shard'[s] \cup {i}
    BY <2>1, <2>2
  <2>4. i # None /\ i \in Pending'
    BY <2>1, <2>2, NoItemAssumption DEF Pending
  <2>5. \A v \in Workers : cur[v] # None => cur'[v] = cur[v]
    BY <2>1, <2>2
  <2>6. Pending \subseteq Pending'
    BY <2>3, <2>4, <2>5 DEF Pending
  <2> QED BY <2>2, <2>3, <2>6
<1>3. CASE FinishItem(w)
  <2>1. \A v \in Workers : cur'[v] = cur[v] \/ cur[v] \in done'
    BY <1>3 DEF FinishItem
  <2>2. shard' = shard /\ done \subseteq done'
    BY <1>3 DEF FinishItem
  <2> QED BY <2>1, <2>2 DEF Pending
<1> QED BY <1>1, <1>2, <1>3
           DEF WorkerNext, WorkerStart, WorkerLoop, ReadPause, ParkPaused, LeavePause,
               ReadDrain, ParkDrained, LeaveDrain, ReturnIdle

\* A worker parks in the drain loop only with an empty shard.
LEMMA DrainWorker ==
  ASSUME CountInv, DrainInv, NEW w \in Workers, WorkerNext(w)
  PROVE  DrainInv'
<1>1. UNCHANGED <<cpc, owed>>
  BY DEF WorkerNext, clientVars
<1>2. \A v \in At("drained")' : v \in Workers /\ (v \in At("drained") \/ shard[ShardOf[v]] = {})
  BY DEF WorkerNext, WorkerStart, WorkerLoop, ReadPause, ParkPaused, LeavePause,
         ReadDrain, ParkDrained, LeaveDrain, TakeItem, ReturnIdle, FinishItem, Goto,
         MayPark, IsShardEmpty, TestFirst, At, CountInv, TypeOK
<1> QED BY <1>1, <1>2, PendingWorker, ShardOfAssumption DEF DrainInv

\* A client adds only new items, and begins a drain() either with no worker
\* parked or answering for nothing.
LEMMA DrainClient ==
  ASSUME CountInv, DrainInv, NEW c \in Clients, ClientGoesOn(c) \/ ClientCalls(c)
  PROVE  DrainInv'
<1>0. UNCHANGED <<cur, done>>
  BY ClientFrame
<1>1. At("drained")' = At("drained")
  BY ClientFrame DEF At, CountInv, NotStarted, TypeOK
<1>2. ASSUME UNCHANGED shard,
             \A d \in Clients : cpc'[d] = "drain" => cpc[d] = "drain" /\ owed'[d] = owed[d]
      PROVE  DrainInv'
  <2>1. Pending' = Pending
    BY <1>0, <1>2 DEF Pending
  <2> QED BY <1>0, <1>1, <1>2, <2>1 DEF DrainInv
<1>3. ASSUME NEW i \in Items, NEW s \in Shards, Queue(c, i, s)
      PROVE  DrainInv'
  <2>1. i \notin Pending \cup done
    BY <1>3 DEF Queue, Pending
  <2>2. UNCHANGED <<cpc, owed>> /\ shard' = [shard EXCEPT ![s] = @ \cup {i}]
    BY <1>3 DEF Queue, clientVars
  <2>3. \A x \in Shards : shard[x] \subseteq shard'[x] /\ shard'[x] \subseteq shard[x] \cup {i}
    BY <2>2 DEF CountInv, TypeOK
  <2>4. Pending \subseteq Pending'
    BY <1>0, <2>3 DEF Pending
  <2> QED BY <1>0, <1>1, <2>1, <2>2, <2>3, <2>4, ShardOfAssumption DEF DrainInv, At
<1>4. CASE DrainBegin(c)
  <2>1. CASE num_threads = num_drained
    BY <1>2, <1>4, <2>1 DEF DrainBegin
  <2>2. CASE num_threads # num_drained
    <3>1. owed'[c] # {} => owed'[c] = Pending /\ At("drained") = {}
      BY <1>4, <2>2, AllParked DEF DrainBegin, CountInv, TypeOK
    <3>2. UNCHANGED shard
      BY <1>4 DEF DrainBegin
    <3>3. Pending' = Pending
      BY <1>0, <3>2 DEF Pending
    <3>4. \A d \in Clients : d # c => cpc'[d] = cpc[d] /\ owed'[d] = owed[d]
      BY <1>4, <2>2 DEF DrainBegin, CountInv, TypeOK
    <3> QED BY <1>0, <1>1, <3>1, <3>2, <3>3, <3>4 DEF DrainInv
  <2> QED BY <2>1, <2>2
<1>5. CASE DrainWakes(c)
  BY <1>2, <1>5 DEF DrainWakes, CountInv, TypeOK
<1>6. CASE PauseWakes(c) \/ PauseBegin(c) \/ Unpause(c)
  BY <1>2, <1>6 DEF PauseWakes, PauseBegin, Unpause, CountInv, TypeOK
<1>7. CASE StopReturnsWaiting \/ StopBegin \/ StopJoin \/ Start
  BY <1>2, <1>7 DEF StopReturnsWaiting, StopBegin, StopJoin, Start, clientVars,
                    CountInv, TypeOK
<1> QED BY <1>3, <1>4, <1>5, <1>6, <1>7 DEF ClientGoesOn, ClientCalls

\* When all workers are parked there is nothing left that a drain() answers for.
LEMMA DrainReturns ==
  ASSUME CountInv, DrainInv, NEW c \in Clients, cpc[c] = "drain",
         num_threads = num_drained
  PROVE  owed[c] \subseteq done
<1>1. At("drained") = Workers
  BY AllParked DEF CountInv
<1>2. \A w \in Workers : cur[w] = None
  BY <1>1 DEF At, CountInv, InHand
<1>3. \A s \in Shards : shard[s] \cap owed[c] = {}
  BY <1>1, ShardOfAssumption DEF DrainInv
<1> QED BY <1>2, <1>3 DEF DrainInv, Pending

\* drain() returns only from DrainWakes, after its test of the counter.
LEMMA OnlyDrainWakes ==
  ASSUME CountInv, [Next]_vars, NEW c \in Clients, cpc[c] = "drain", cpc'[c] = "idle"
  PROVE  num_threads = num_drained
<1> USE DEF CountInv, TypeOK
<1>1. ASSUME NEW d \in Clients, ClientGoesOn(d) \/ ClientCalls(d)
      PROVE  num_threads = num_drained
  <2>1. ASSUME NEW i \in Items, NEW s \in Shards, Queue(d, i, s)
        PROVE  FALSE
    BY <2>1 DEF Queue, clientVars
  <2>2. CASE DrainWakes(d)
    BY <2>2 DEF DrainWakes
  <2>3. CASE PauseWakes(d) \/ PauseBegin(d) \/ Unpause(d) \/ DrainBegin(d)
    BY <2>3 DEF PauseWakes, PauseBegin, Unpause, DrainBegin
  <2>4. CASE StopReturnsWaiting \/ StopBegin \/ StopJoin \/ Start
    BY <2>4 DEF StopReturnsWaiting, StopBegin, StopJoin, Start, clientVars
  <2> QED BY <1>1, <2>1, <2>2, <2>3, <2>4 DEF ClientGoesOn, ClientCalls
<1> QED BY <1>1 DEF Next, WorkerNext, Wakeup, ClientWakes, vars, clientVars

-----------------------------------------------------------------------------
(* stop().                                                                 *)

\* A worker in the heartbeat map is alive, and after stop() no worker gets past
\* the test of stop_threads, also while Admin is in pause() or drain().
StopInv ==
  /\ \A w \in hb : wpc[w] \notin {"none", "new", "exited"}
  /\ stop_threads /\ cpc[Admin] \notin {"stopping", "joining"} =>
       \A w \in Workers : wpc[w] \in {"none", "new", "loop", "exited"}

\* A worker enters the map when it starts and leaves it when it exits.
LEMMA StopWorker ==
  ASSUME CountInv, StopInv, NEW w \in Workers, WorkerNext(w)
  PROVE  StopInv'
<1> USE DEF CountInv, TypeOK, StopInv, Goto
<1>0. UNCHANGED <<stop_threads, cpc>>
  BY DEF WorkerNext, flagVars, clientVars
<1>1. CASE WorkerStart(w) \/ WorkerLoop(w)
  BY <1>0, <1>1 DEF WorkerStart, WorkerLoop, TestFirst
<1>2. CASE ReadPause(w) \/ ParkPaused(w) \/ LeavePause(w)
  BY <1>0, <1>2 DEF ReadPause, ParkPaused, LeavePause
<1>3. CASE ReadDrain(w) \/ ParkDrained(w) \/ LeaveDrain(w)
  BY <1>0, <1>3 DEF ReadDrain, ParkDrained, LeaveDrain
<1>4. CASE TakeItem(w) \/ ReturnIdle(w) \/ FinishItem(w)
  BY <1>0, <1>4 DEF TakeItem, ReturnIdle, FinishItem
<1> QED BY <1>1, <1>2, <1>3, <1>4 DEF WorkerNext

\* stop() returns only when every worker has exited; start() makes new ones.
LEMMA StopClient ==
  ASSUME CountInv, StopInv, NEW c \in Clients, ClientGoesOn(c) \/ ClientCalls(c)
  PROVE  StopInv'
<1> USE DEF CountInv, TypeOK, NotStarted
<1>1. \A w \in hb' : wpc'[w] \notin {"none", "new", "exited"}
  BY ClientFrame DEF StopInv
<1>2. CASE StopJoin
  BY <1>1, <1>2 DEF StopJoin, StopInv
<1>3. ASSUME stop_threads' /\ cpc'[Admin] \notin {"stopping", "joining"} =>
                stop_threads /\ cpc[Admin] \notin {"stopping", "joining"}
      PROVE  StopInv'
  BY <1>1, <1>3, ClientFrame DEF StopInv
<1>4. ASSUME NEW i \in Items, NEW s \in Shards, Queue(c, i, s)
      PROVE  StopInv'
  BY <1>3, <1>4 DEF Queue, flagVars, clientVars
<1>5. CASE PauseWakes(c) \/ PauseBegin(c) \/ Unpause(c)
  BY <1>3, <1>5, AdminAssumption DEF PauseWakes, PauseBegin, Unpause, flagVars
<1>6. CASE DrainWakes(c) \/ DrainBegin(c)
  BY <1>3, <1>6, AdminAssumption DEF DrainWakes, DrainBegin
<1>7. CASE StopReturnsWaiting \/ StopBegin \/ Start
  BY <1>3, <1>7, AdminAssumption DEF StopReturnsWaiting, StopBegin, Start, flagVars,
                                     clientVars
<1> QED BY <1>2, <1>4, <1>5, <1>6, <1>7 DEF ClientGoesOn, ClientCalls

-----------------------------------------------------------------------------
(* The theorems.                                                           *)

ShardedInv == CountInv /\ QuietInv /\ DrainInv /\ StopInv

\* A new pool has no workers.
LEMMA ShardedInit == Init => ShardedInv
<1> SUFFICES ASSUME Init PROVE ShardedInv
  OBVIOUS
<1>1. At("paused") = {} /\ At("drained") = {}
  BY DEF Init, At
<1>2. CountInv
  BY <1>1, FS_EmptySet
     DEF Init, CountInv, TypeOK, ParkedCounted, InHand, NotStarted, WorkerStates
<1> QED BY <1>2, AdminAssumption
           DEF Init, ShardedInv, QuietInv, PausedQuiescent, DrainInv, StopInv

\* Every step preserves all parts together.
LEMMA ShardedStep == ShardedInv /\ [Next]_vars => ShardedInv'
<1> SUFFICES ASSUME ShardedInv, [Next]_vars PROVE ShardedInv'
  OBVIOUS
<1>0. CountInv'
  BY CountStep DEF ShardedInv
<1>1. ASSUME NEW w \in Workers, WorkerNext(w)
      PROVE  QuietInv' /\ DrainInv' /\ StopInv'
  BY <1>1, QuietWorker, DrainWorker, StopWorker DEF ShardedInv
<1>2. ASSUME NEW c \in Clients, ClientGoesOn(c) \/ ClientCalls(c)
      PROVE  QuietInv' /\ DrainInv' /\ StopInv'
  BY <1>2, QuietClient, DrainClient, StopClient DEF ShardedInv
<1>3. CASE Wakeup \/ UNCHANGED vars
  <2>1. UNCHANGED <<flagVars, clientVars, itemVars, wpc, hb>>
    BY <1>3 DEF Wakeup, WorkerWakes, ClientWakes, vars, itemVars
  <2>2. QuietInv' /\ StopInv'
    BY <2>1 DEF ShardedInv, QuietInv, PausedQuiescent, At, StopInv, flagVars,
                clientVars, pauseVars
  <2>3. DrainInv'
    BY <2>1 DEF ShardedInv, DrainInv, Pending, At, itemVars, clientVars
  <2> QED BY <1>0, <2>2, <2>3 DEF ShardedInv
<1> QED BY <1>0, <1>1, <1>2, <1>3 DEF Next, ShardedInv

\* ShardedInv is inductive.
THEOREM Invariance == Spec => []ShardedInv
BY ShardedInit, ShardedStep, PTL DEF Spec

\* num_paused and num_drained count the parked workers in every reachable state,
\* for any number of workers.
THEOREM CountsAreRight == Spec => [](TypeOK /\ ParkedCounted)
<1>1. ShardedInv => TypeOK /\ ParkedCounted
  BY DEF ShardedInv, CountInv
<1> QED BY <1>1, Invariance, PTL

\* From the return of a pause() that no unpause() overtook to the next unpause()
\* every worker is parked.
THEOREM PauseIsQuiet == Spec => []PausedQuiescent
<1>1. ShardedInv => PausedQuiescent
  BY DEF ShardedInv, QuietInv
<1> QED BY <1>1, Invariance, PTL

\* drain() returns only when what was queued before it began has been processed,
\* if it began with no worker parked by an earlier drain().
THEOREM DrainIsDone == Spec => DrainMeansDone
<1>1. ShardedInv /\ [Next]_vars =>
        [\A c \in Clients :
           cpc[c] = "drain" /\ cpc'[c] = "idle" => owed[c] \subseteq done]_vars
  BY OnlyDrainWakes, DrainReturns DEF ShardedInv
<1> QED BY <1>1, Invariance, PTL DEF Spec, DrainMeansDone

\* After stop() no worker of the pool ever looks for an item again.
THEOREM StopIsFinal == Spec => []StoppedForGood
<1>1. ShardedInv => StoppedForGood
  <2> SUFFICES ASSUME ShardedInv, stop_threads, cpc[Admin] = "idle"
               PROVE  /\ \A w \in Workers : wpc[w] \in {"none", "new", "loop", "exited"}
                      /\ num_paused = 0 /\ num_drained = 0
                      /\ threads = {} => hb = {}
    BY DEF StoppedForGood
  <2>1. \A w \in Workers : wpc[w] \in {"none", "new", "loop", "exited"}
    BY DEF ShardedInv, StopInv
  <2>2. At("paused") = {} /\ At("drained") = {}
    BY <2>1 DEF At
  <2>3. num_paused = 0 /\ num_drained = 0
    BY <2>2, FS_EmptySet DEF ShardedInv, CountInv, ParkedCounted
  <2>4. threads = {} => hb = {}
    BY DEF ShardedInv, StopInv, CountInv, NotStarted, TypeOK
  <2> QED BY <2>1, <2>3, <2>4
<1> QED BY <1>1, Invariance, PTL

=============================================================================
