-------------------------- MODULE ThreadPoolProofs --------------------------
(***************************************************************************)
(* Proofs about ThreadPool, second part: the hand-over of items, pausing   *)
(* and waking, and the theorems.                                           *)
(***************************************************************************)
EXTENDS ThreadPoolTyping

-----------------------------------------------------------------------------
(* The hand-over.                                                          *)

\* A step that leaves every worker with or without its item leaves the
\* hand-over balanced.
LEMMA HandoffFrame ==
  ASSUME HandoffBalanced, Busy' = Busy,
         \A q \in Queues, state \in {"dequeued", "processed"} :
           WorkersAt(q, state)' = WorkersAt(q, state),
         UNCHANGED <<processing, to_process, to_finish>>
  PROVE  HandoffBalanced'
BY DEF HandoffBalanced

\* Taking an item off task_queue: one more in to_process, one more worker that
\* will pop it, one more in `processing`.
LEMMA HandoffDequeue ==
  ASSUME PoolInv, NEW w \in Workers, WorkerDequeue(w)
  PROVE  HandoffBalanced'
<1>1. PICK q \in Queues : VoidDequeue(q) /\ wq' = [wq EXCEPT ![w] = q]
                          /\ NonEmpty(q)
  BY DequeueTakes DEF PoolInv
<1>2. /\ wpc[w] \in {"loop", "waiting"}
      /\ wpc' = [wpc EXCEPT ![w] = "dequeued"]
      /\ processing' = processing + 1
      /\ UNCHANGED to_finish
  BY DEF WorkerDequeue, AtLoopHead
<1>3. Busy' = Busy \cup {w}
  BY <1>2 DEF PoolInv, TypeOK, WorkerTypeOK, Busy, HasItem
<1>4. w \notin Busy
  BY <1>2 DEF Busy, HasItem
<1>5. processing' = Cardinality(Busy')
  BY <1>2, <1>3, <1>4, CountedSetsFinite, CountUp DEF PoolInv, HandoffBalanced
<1>6. ASSUME NEW p \in Queues
      PROVE  Len(to_process'[p]) = Cardinality(WorkersAt(p, "dequeued")')
  <2>1. CASE p = q
    <3>1. WorkersAt(q, "dequeued")' = WorkersAt(q, "dequeued") \cup {w}
      BY <1>1, <1>2 DEF PoolInv, TypeOK, WorkerTypeOK, WorkersAt
    <3>2. w \notin WorkersAt(q, "dequeued")
      BY <1>2 DEF WorkersAt
    <3>3. Head(task_queue[q]) \in Items
      BY <1>1, HeadTailProperties DEF PoolInv, TypeOK, QueueTypeOK, NonEmpty
    <3>4. Len(to_process'[q]) = Len(to_process[q]) + 1
      BY <1>1, <3>3, AppendProperties
         DEF PoolInv, TypeOK, QueueTypeOK, VoidDequeue
    <3> QED
      BY <2>1, <3>1, <3>2, <3>4, CountedSetsFinite, CountUp
         DEF PoolInv, HandoffBalanced
  <2>2. CASE p # q
    <3>1. WorkersAt(p, "dequeued")' = WorkersAt(p, "dequeued")
      BY <1>1, <1>2, <2>2 DEF PoolInv, TypeOK, WorkerTypeOK, WorkersAt
    <3>2. to_process'[p] = to_process[p]
      BY <1>1, <2>2 DEF PoolInv, TypeOK, QueueTypeOK, VoidDequeue
    <3> QED
      BY <3>1, <3>2 DEF PoolInv, HandoffBalanced
  <2> QED
    BY <2>1, <2>2
<1>7. ASSUME NEW p \in Queues
      PROVE  WorkersAt(p, "processed")' = WorkersAt(p, "processed")
  BY <1>1, <1>2 DEF PoolInv, TypeOK, WorkerTypeOK, WorkersAt
<1> QED
  BY <1>2, <1>5, <1>6, <1>7 DEF PoolInv, HandoffBalanced

\* Popping to_process: one item and one worker less that is about to.
LEMMA HandoffProcess ==
  ASSUME PoolInv, NEW w \in Workers, WorkerProcess(w)
  PROVE  HandoffBalanced'
<1> DEFINE q == wq[w]
<1>1. /\ wpc[w] = "dequeued"
      /\ to_process[q] # <<>>
      /\ wpc' = [wpc EXCEPT ![w] = "running"]
      /\ to_process' = [to_process EXCEPT ![q] = Tail(@)]
      /\ UNCHANGED <<wq, processing, to_finish>>
  BY DEF WorkerProcess, PickUp, poolVars
<1>2. /\ q \in Queues
      /\ Len(Tail(to_process[q])) = Len(to_process[q]) - 1
  BY <1>1, ItemInHand, PopTakes DEF PoolInv, TypeOK, HasItem
<1>3. Busy' = Busy
  BY <1>1 DEF PoolInv, TypeOK, WorkerTypeOK, Busy, HasItem
<1>4. ASSUME NEW p \in Queues
      PROVE  Len(to_process'[p]) = Cardinality(WorkersAt(p, "dequeued")')
  <2>1. CASE p = q
    <3>1. WorkersAt(p, "dequeued")' = WorkersAt(p, "dequeued") \ {w}
      BY <1>1, <2>1 DEF PoolInv, TypeOK, WorkerTypeOK, WorkersAt
    <3>2. w \in WorkersAt(p, "dequeued")
      BY <1>1, <2>1 DEF WorkersAt
    <3>3. Len(to_process'[p]) = Len(to_process[p]) - 1
      BY <1>1, <1>2, <2>1 DEF PoolInv, TypeOK, QueueTypeOK
    <3> QED
      BY <3>1, <3>2, <3>3, CountedSetsFinite, CountDown
         DEF PoolInv, HandoffBalanced
  <2>2. CASE p # q
    <3>1. WorkersAt(p, "dequeued")' = WorkersAt(p, "dequeued")
      BY <1>1, <2>2 DEF PoolInv, TypeOK, WorkerTypeOK, WorkersAt
    <3>2. to_process'[p] = to_process[p]
      BY <1>1, <2>2 DEF PoolInv, TypeOK, QueueTypeOK
    <3> QED
      BY <3>1, <3>2 DEF PoolInv, HandoffBalanced
  <2> QED
    BY <2>1, <2>2
<1>5. ASSUME NEW p \in Queues
      PROVE  WorkersAt(p, "processed")' = WorkersAt(p, "processed")
  BY <1>1 DEF PoolInv, TypeOK, WorkerTypeOK, WorkersAt
<1> QED
  BY <1>1, <1>3, <1>4, <1>5 DEF PoolInv, HandoffBalanced

\* Pushing on to_finish: one item and one worker more that is about to pop it.
LEMMA HandoffProcessed ==
  ASSUME PoolInv, NEW w \in Workers, WorkerProcessed(w)
  PROVE  HandoffBalanced'
<1> DEFINE q == wq[w]
<1>1. /\ wpc[w] = "running"
      /\ wpc' = [wpc EXCEPT ![w] = "processed"]
      /\ to_finish' = [to_finish EXCEPT ![q] = Append(@, cur[w])]
      /\ UNCHANGED <<wq, processing, to_process>>
  BY DEF WorkerProcessed, poolVars
<1>2. q \in Queues /\ cur[w] \in Items
  BY <1>1, ItemInHand DEF PoolInv, HasItem
<1>3. Busy' = Busy
  BY <1>1 DEF PoolInv, TypeOK, WorkerTypeOK, Busy, HasItem
<1>4. ASSUME NEW p \in Queues
      PROVE  Len(to_finish'[p]) = Cardinality(WorkersAt(p, "processed")')
  <2>1. CASE p = q
    <3>1. WorkersAt(p, "processed")' = WorkersAt(p, "processed") \cup {w}
      BY <1>1, <2>1 DEF PoolInv, TypeOK, WorkerTypeOK, WorkersAt
    <3>2. w \notin WorkersAt(p, "processed")
      BY <1>1 DEF WorkersAt
    <3>3. Len(to_finish'[p]) = Len(to_finish[p]) + 1
      BY <1>1, <1>2, <2>1, AppendProperties DEF PoolInv, TypeOK, QueueTypeOK
    <3> QED
      BY <3>1, <3>2, <3>3, CountedSetsFinite, CountUp
         DEF PoolInv, HandoffBalanced
  <2>2. CASE p # q
    <3>1. WorkersAt(p, "processed")' = WorkersAt(p, "processed")
      BY <1>1, <2>2 DEF PoolInv, TypeOK, WorkerTypeOK, WorkersAt
    <3>2. to_finish'[p] = to_finish[p]
      BY <1>1, <2>2 DEF PoolInv, TypeOK, QueueTypeOK
    <3> QED
      BY <3>1, <3>2 DEF PoolInv, HandoffBalanced
  <2> QED
    BY <2>1, <2>2
<1>5. ASSUME NEW p \in Queues
      PROVE  WorkersAt(p, "dequeued")' = WorkersAt(p, "dequeued")
  BY <1>1 DEF PoolInv, TypeOK, WorkerTypeOK, WorkersAt
<1> QED
  BY <1>1, <1>3, <1>4, <1>5 DEF PoolInv, HandoffBalanced

\* Popping to_finish: one item less, and the worker that finished it is free.
LEMMA HandoffFinish ==
  ASSUME PoolInv, NEW w \in Workers, WorkerFinish(w)
  PROVE  HandoffBalanced'
<1> DEFINE q == wq[w]
<1>1. /\ wpc[w] = "processed"
      /\ to_finish[q] # <<>>
      /\ wpc' = [wpc EXCEPT ![w] = "loop"]
      /\ wq' = [wq EXCEPT ![w] = None]
      /\ to_finish' = [to_finish EXCEPT ![q] = Tail(@)]
      /\ processing' = processing - 1
      /\ UNCHANGED to_process
  BY DEF WorkerFinish, VoidFinish
<1>2. /\ q \in Queues
      /\ Len(Tail(to_finish[q])) = Len(to_finish[q]) - 1
  BY <1>1, ItemInHand, PopTakes DEF PoolInv, TypeOK, HasItem
<1>3. Busy' = Busy \ {w} /\ w \in Busy
  BY <1>1 DEF PoolInv, TypeOK, WorkerTypeOK, Busy, HasItem
<1>4. processing' = Cardinality(Busy')
  BY <1>1, <1>3, CountedSetsFinite, CountDown DEF PoolInv, HandoffBalanced
<1>5. ASSUME NEW p \in Queues
      PROVE  Len(to_finish'[p]) = Cardinality(WorkersAt(p, "processed")')
  <2>1. CASE p = q
    <3>1. WorkersAt(p, "processed")' = WorkersAt(p, "processed") \ {w}
      BY <1>1, <2>1 DEF PoolInv, TypeOK, WorkerTypeOK, WorkersAt
    <3>2. w \in WorkersAt(p, "processed")
      BY <1>1, <2>1 DEF WorkersAt
    <3>3. Len(to_finish'[p]) = Len(to_finish[p]) - 1
      BY <1>1, <1>2, <2>1 DEF PoolInv, TypeOK, QueueTypeOK
    <3> QED
      BY <3>1, <3>2, <3>3, CountedSetsFinite, CountDown
         DEF PoolInv, HandoffBalanced
  <2>2. CASE p # q
    <3>1. WorkersAt(p, "processed")' = WorkersAt(p, "processed")
      BY <1>1, <2>2 DEF PoolInv, TypeOK, WorkerTypeOK, WorkersAt
    <3>2. to_finish'[p] = to_finish[p]
      BY <1>1, <2>2 DEF PoolInv, TypeOK, QueueTypeOK
    <3> QED
      BY <3>1, <3>2 DEF PoolInv, HandoffBalanced
  <2> QED
    BY <2>1, <2>2
<1>6. ASSUME NEW p \in Queues
      PROVE  WorkersAt(p, "dequeued")' = WorkersAt(p, "dequeued")
  BY <1>1 DEF PoolInv, TypeOK, WorkerTypeOK, WorkersAt
<1> QED
  BY <1>1, <1>4, <1>5, <1>6 DEF PoolInv, HandoffBalanced

\* Every step of the pool keeps the hand-over balanced.
LEMMA HandoffStep == PoolInv /\ [Next]_vars => HandoffBalanced'
<1> SUFFICES ASSUME PoolInv, [Next]_vars PROVE HandoffBalanced'
  OBVIOUS
<1> USE DEF poolVars, queueVars, workerVars
<1>1. ASSUME UNCHANGED <<wpc, wq, processing, to_process, to_finish>>
      PROVE  HandoffBalanced'
  BY <1>1, HandoffFrame DEF PoolInv, Busy, WorkersAt
<1>2. ASSUME NEW w \in Workers,
             WorkerStart(w) \/ WorkerIdle(w) \/ WorkerExit(w)
      PROVE  HandoffBalanced'
  <2>1. /\ wpc[w] \notin HasItem /\ wpc'[w] \notin HasItem
        /\ \A v \in Workers \ {w} : wpc'[v] = wpc[v]
        /\ UNCHANGED <<wq, processing, to_process, to_finish>>
    BY <1>2 DEF PoolInv, TypeOK, WorkerTypeOK, HasItem, WorkerStart, WorkerIdle,
                WorkerExit, AtLoopHead
  <2>2. Busy' = Busy
    BY <2>1 DEF Busy
  <2>3. \A q \in Queues, state \in {"dequeued", "processed"} :
          WorkersAt(q, state)' = WorkersAt(q, state)
    BY <2>1 DEF WorkersAt, HasItem
  <2> QED
    BY <2>1, <2>2, <2>3, HandoffFrame DEF PoolInv
<1>3. ASSUME NEW w \in Workers, WorkerNext(w) PROVE HandoffBalanced'
  <2>1. CASE WorkerTimeout(w) \/ WorkerHandle(w)
    BY <1>1, <2>1 DEF WorkerTimeout, WorkerHandle
  <2> QED
    BY <1>2, <1>3, <2>1, HandoffDequeue, HandoffProcess, HandoffProcessed,
       HandoffFinish DEF WorkerNext
<1>4. ASSUME NEW c \in Clients, ClientNext(c) PROVE HandoffBalanced'
  BY <1>1, <1>4, ClientFrame
<1>5. ASSUME Start \/ StopJoin PROVE HandoffBalanced'
  <2>1. /\ \A w \in Workers :
             \/ wpc'[w] = wpc[w]
             \/ wpc[w] \notin HasItem /\ wpc'[w] \notin HasItem
        /\ UNCHANGED <<wq, processing, to_process, to_finish>>
    BY <1>5 DEF PoolInv, WorkerShape, HasItem, Start, StartThreads, StopJoin
  <2>2. Busy' = Busy
    BY <2>1 DEF Busy
  <2>3. \A q \in Queues, state \in {"dequeued", "processed"} :
          WorkersAt(q, state)' = WorkersAt(q, state)
    BY <2>1 DEF WorkersAt, HasItem
  <2> QED
    BY <2>1, <2>2, <2>3, HandoffFrame DEF PoolInv
<1>6. ASSUME StopBegin \/ StopEnd \/ UNCHANGED vars PROVE HandoffBalanced'
  BY <1>1, <1>6 DEF StopBegin, StopEnd, vars
<1> QED
  BY <1>3, <1>4, <1>5, <1>6 DEF Next, AdminNext

-----------------------------------------------------------------------------
(* Pausing and waking.                                                     *)

\* pause() returns only when no worker has an item, and _pause, which counts
\* the callers, keeps the workers from taking one.
LEMMA PausedStep == PoolInv /\ [Next]_vars => PausedQuiescent'
<1> SUFFICES ASSUME PoolInv, [Next]_vars PROVE PausedQuiescent'
  OBVIOUS
<1> USE ClientsAssumption
    DEF TypeOK, WorkerTypeOK, ClientTypeOK, PausedQuiescent, Busy, HasItem,
        MayCall, workerVars, clientVars
<1>1. ASSUME NEW w \in Workers, WorkerDequeue(w) PROVE PausedQuiescent'
  <2>1. pause = 0 /\ UNCHANGED pausers
    BY <1>1 DEF WorkerDequeue, Scans, clientVars
  <2>2. pausers \cup Pausing = {}
    BY <2>1, CallersFinite, FS_EmptySet DEF PoolInv, CallsCounted
  <2> QED
    BY <2>1, <2>2
<1>2. ASSUME NEW w \in Workers, WorkerNext(w) PROVE PausedQuiescent'
  <2>1. UNCHANGED pausers
    BY <1>2, WorkerFrame
  <2>2. CASE Busy' \subseteq Busy
    BY <2>1, <2>2 DEF PoolInv
  <2>3. WorkerStart(w) \/ WorkerIdle(w) \/ WorkerTimeout(w)
          => Busy' \subseteq Busy
    BY DEF PoolInv, WorkerStart, WorkerIdle, WorkerTimeout
  <2>4. WorkerProcess(w) \/ WorkerHandle(w) => Busy' \subseteq Busy
    BY DEF PoolInv, WorkerProcess, WorkerHandle
  <2>5. WorkerProcessed(w) \/ WorkerFinish(w) \/ WorkerExit(w)
          => Busy' \subseteq Busy
    BY DEF PoolInv, WorkerProcessed, WorkerFinish, WorkerExit
  <2> QED
    BY <1>1, <1>2, <2>2, <2>3, <2>4, <2>5 DEF WorkerNext
<1>3. ASSUME NEW c \in Clients, PauseBegin(c) PROVE PausedQuiescent'
  <2>1. UNCHANGED wpc
    BY <1>3 DEF PauseBegin
  <2>2. CASE processing # 0
    BY <1>3, <2>1, <2>2 DEF PoolInv, PauseBegin
  <2>3. CASE processing = 0
    <3>1. Busy = {}
      BY <2>3, CountedSetsFinite, FS_EmptySet DEF PoolInv, HandoffBalanced
    <3> QED
      BY <2>1, <3>1
  <2> QED
    BY <2>2, <2>3
<1>4. ASSUME NEW c \in Clients, PauseReturn(c) PROVE PausedQuiescent'
  <2>1. processing = 0 /\ UNCHANGED wpc
    BY <1>4 DEF PauseReturn, MustWait
  <2>2. Busy = {}
    BY <2>1, CountedSetsFinite, FS_EmptySet DEF PoolInv, HandoffBalanced
  <2> QED
    BY <2>1, <2>2
<1>5. ASSUME NEW c \in Clients, ClientNext(c) PROVE PausedQuiescent'
  <2>1. UNCHANGED wpc
    BY <1>5, ClientFrame
  <2>2. CASE pausers' \subseteq pausers
    BY <2>1, <2>2 DEF PoolInv
  <2> QED
    BY <1>3, <1>4, <1>5, <2>2
       DEF ClientNext, AddQueue, RemoveQueue, Queue, QueueFront, Submit,
           DrainBegin, WaitAgain, DrainReturn, Unpause, Lock, Unlock, CondWait,
           CondReturn, Wake, SpuriousWakeup
<1>6. ASSUME AdminNext PROVE PausedQuiescent'
  BY <1>6 DEF PoolInv, AdminNext, Start, StartThreads, StopBegin, StopJoin,
     StopEnd
<1>7. CASE UNCHANGED vars
  BY <1>7 DEF PoolInv, vars
<1> QED
  BY <1>1, <1>2, <1>3, <1>4, <1>5, <1>6, <1>7 DEF Next

\* Whoever makes the condition of a sleeper in drain() or pause() true tells
\* it: the worker that finishes an item sees _draining or _pause counted up.
LEMMA WakeupStep == PoolInv /\ [Next]_vars => NoLostWakeup'
<1> SUFFICES ASSUME PoolInv, [Next]_vars PROVE NoLostWakeup'
  OBVIOUS
<1> USE ClientsAssumption
    DEF TypeOK, PoolTypeOK, QueueTypeOK, ClientTypeOK, ClientShape,
        NoLostWakeup, MustWait, NonEmpty, MayCall, poolVars, queueVars,
        clientVars
<1>1. ASSUME NEW w \in Workers, WorkerDequeue(w) PROVE NoLostWakeup'
  <2>1. processing' # 0 /\ UNCHANGED wait_cond
    BY <1>1 DEF PoolInv, WorkerDequeue
  <2> QED
    BY <2>1
<1>2. ASSUME NEW w \in Workers, WorkerFinish(w) PROVE NoLostWakeup'
  <2>1. ASSUME NEW c \in wait_cond PROVE pause # 0 \/ draining # 0
    <3>1. c \in Draining \/ c \in pausers \cup Pausing
      BY DEF PoolInv, Draining, Pausing
    <3> QED
      BY <3>1, CountedSetsFinite, CallersFinite, CountDown
         DEF PoolInv, CallsCounted
  <2>2. SleepersLeft = {}
    BY <2>1 DEF SleepersLeft
  <2> QED
    BY <1>2, <2>2 DEF WorkerFinish
<1>3. ASSUME NEW w \in Workers, WorkerNext(w) PROVE NoLostWakeup'
  <2>1. CASE UNCHANGED <<wait_cond, processing, task_queue>>
    <3>1. UNCHANGED <<cpc, arg, stops>>
      BY <1>3, WorkerFrame
    <3> QED
      BY <2>1, <3>1 DEF PoolInv
  <2> QED
    BY <1>1, <1>2, <1>3, <2>1
       DEF WorkerNext, WorkerStart, WorkerIdle, WorkerTimeout, WorkerProcess,
           WorkerHandle, WorkerProcessed, WorkerExit
<1>4. ASSUME NEW c \in Clients, WaitAgain(c) PROVE NoLostWakeup'
  BY <1>4 DEF PoolInv, WaitAgain
<1>5. ASSUME NEW c \in Clients, DrainReturn(c) PROVE NoLostWakeup'
  <2>1. \A d \in wait_cond : d # c /\ cpc'[d] = cpc[d] /\ arg'[d] = arg[d]
    BY <1>5 DEF PoolInv, DrainReturn
  <2>2. UNCHANGED <<wait_cond, processing, task_queue, stops>>
    BY <1>5 DEF DrainReturn
  <2> QED
    BY <2>1, <2>2 DEF PoolInv
<1>6. ASSUME NEW c \in Clients, ClientNext(c) PROVE NoLostWakeup'
  <2>1. ASSUME NEW q \in Queues, AddQueue(c, q)
        PROVE  NoLostWakeup'
    BY <2>1 DEF PoolInv, AddQueue
  <2>2. ASSUME NEW q \in Queues, RemoveQueue(c, q)
        PROVE  NoLostWakeup'
    <3>1. \A d \in Clients : arg[d] # q
      BY <2>2 DEF RemoveQueue
    <3>2. /\ task_queue' = [task_queue EXCEPT ![q] = <<>>]
          /\ UNCHANGED <<wait_cond, processing, cpc, arg, stops>>
      BY <2>2 DEF RemoveQueue
    <3>3. \A d \in Clients : MustWait(d) => MustWait(d)'
      BY <3>1, <3>2 DEF PoolInv
    <3> QED
      BY <3>2, <3>3 DEF PoolInv
  <2>3. ASSUME NEW q \in Queues, NEW i \in Items,
               Queue(c, q, i) \/ QueueFront(c, q, i)
        PROVE  NoLostWakeup'
    <3>1. \A p \in Queues : NonEmpty(p) => NonEmpty(p)'
      <4>1. Append(task_queue[q], i) # <<>> /\ <<i>> \o task_queue[q] # <<>>
        <5>1. /\ Len(Append(task_queue[q], i)) = Len(task_queue[q]) + 1
              /\ Len(<<i>> \o task_queue[q]) = 1 + Len(task_queue[q])
              /\ Len(task_queue[q]) \in Nat
          BY AppendProperties, ConcatProperties, LenProperties DEF PoolInv
        <5> QED
          BY <5>1, Len(<<>>) = 0
      <4>2. PICK list : /\ list # <<>>
                        /\ task_queue' = [task_queue EXCEPT ![q] = list]
        BY <2>3, <4>1 DEF Queue, QueueFront, Submit
      <4> QED
        BY <4>2 DEF PoolInv
    <3>2. UNCHANGED <<wait_cond, processing, cpc, arg, stops>>
      BY <2>3 DEF Queue, QueueFront, Submit
    <3> HIDE DEF NonEmpty
    <3> QED
      BY <3>1, <3>2 DEF PoolInv
  <2>4. ASSUME NEW q \in Queues \cup {None}, DrainBegin(c, q)
        PROVE  NoLostWakeup'
    <3>1. MayCall(c) /\ UNCHANGED <<processing, task_queue, stops>>
      BY <2>4 DEF DrainBegin
    <3>2. CASE /\ processing # 0 \/ (q # None /\ NonEmpty(q))
               /\ wait_cond' = wait_cond \cup {c}
               /\ cpc' = [cpc EXCEPT ![c] = "drain"]
               /\ arg' = [arg EXCEPT ![c] = q]
      <4>1. MustWait(c)'
        BY <3>1, <3>2 DEF PoolInv
      <4>2. \A d \in wait_cond : d # c /\ cpc'[d] = cpc[d] /\ arg'[d] = arg[d]
        BY <3>1, <3>2 DEF PoolInv
      <4> QED
        BY <3>1, <3>2, <4>1, <4>2 DEF PoolInv
    <3>3. CASE UNCHANGED <<wait_cond, cpc, arg>>
      BY <3>1, <3>3 DEF PoolInv
    <3> QED
      BY <2>4, <3>2, <3>3 DEF DrainBegin, SleepCounted
  <2>5. PauseBegin(c) \/ PauseReturn(c) \/ Unpause(c) => NoLostWakeup'
    BY DEF PoolInv, PauseBegin, PauseReturn, Unpause
  <2>6. Lock(c) \/ Unlock(c) \/ CondWait(c) \/ CondReturn(c) => NoLostWakeup'
    BY DEF PoolInv, Lock, Unlock, CondWait, CondReturn
  <2>7. Wake(c) \/ SpuriousWakeup(c) => NoLostWakeup'
    BY DEF PoolInv, Wake, SpuriousWakeup
  <2> QED
    BY <1>4, <1>5, <1>6, <2>1, <2>2, <2>3, <2>4, <2>5, <2>6, <2>7
       DEF ClientNext
<1>7. ASSUME AdminNext PROVE NoLostWakeup'
  <2>1. Start \/ StopBegin => NoLostWakeup'
    BY MaxStopsAssumption DEF PoolInv, Start, StopBegin
  <2>2. StopJoin => NoLostWakeup'
    BY DEF PoolInv, StopJoin
  <2>3. ASSUME StopEnd PROVE NoLostWakeup'
    <3>1. stops > 0 /\ UNCHANGED <<wait_cond, processing, arg, stops>>
      BY <2>3 DEF PoolInv, StopEnd
    <3>2. \A d \in wait_cond : cpc'[d] = cpc[d]
      BY <2>3 DEF PoolInv, StopEnd
    <3> QED
      BY <3>1, <3>2 DEF PoolInv
  <2> QED
    BY <1>7, <2>1, <2>2, <2>3 DEF AdminNext
<1>8. CASE UNCHANGED vars
  BY <1>8 DEF PoolInv, vars
<1> QED
  BY <1>1, <1>2, <1>3, <1>4, <1>5, <1>6, <1>7, <1>8 DEF Next

-----------------------------------------------------------------------------
(* The theorems.                                                           *)

\* _stop stays a truth value.
LEMMA StopStep == PoolInv /\ [Next]_vars => (stop \in BOOLEAN)'
<1> SUFFICES ASSUME PoolInv, [Next]_vars PROVE stop' \in BOOLEAN
  OBVIOUS
<1> USE DEF poolVars
<1>1. stop \in BOOLEAN
  BY DEF PoolInv, TypeOK
<1>2. ASSUME NEW w \in Workers, WorkerNext(w) PROVE stop' = stop
  BY <1>2, WorkerFrame
<1>3. ASSUME NEW c \in Clients, ClientNext(c) PROVE stop' = stop
  BY <1>3, ClientFrame
<1>4. ASSUME AdminNext PROVE stop' = stop \/ stop' = TRUE \/ stop' = FALSE
  BY <1>4, Zenon DEF AdminNext, Start, StopBegin, StopJoin, StopEnd
<1>5. CASE UNCHANGED vars
  BY <1>1, <1>5, Zenon DEF vars
<1> QED
  BY <1>1, <1>2, <1>3, <1>4, <1>5, Zenon DEF Next

\* The pool as constructed satisfies the invariant.
LEMMA PoolInit == Init => PoolInv
<1> SUFFICES ASSUME Init PROVE PoolInv
  OBVIOUS
<1> USE ClientsAssumption, NoneAssumption, MaxStopsAssumption DEF Init
<1>1. stop \in BOOLEAN
  BY Zenon
<1>2. PoolTypeOK /\ QueueTypeOK
  BY EmptySeq DEF PoolTypeOK, QueueTypeOK
<1>3. WorkerTypeOK /\ ClientTypeOK /\ ItemTypeOK
  BY DEF WorkerTypeOK, WorkerStates, ClientTypeOK, ClientStates, ItemTypeOK
<1>4. WorkerShape /\ ClientShape /\ NoLostWakeup
  BY DEF WorkerShape, ClientShape, NoLostWakeup, HasItem
<1>5. Busy = {} /\ \A q, state : state # "none" => WorkersAt(q, state) = {}
  BY DEF Busy, HasItem, WorkersAt
<1>6. Draining = {} /\ Pausing = {}
  BY DEF Draining, Pausing
<1>7. PausedQuiescent
  BY <1>5 DEF PausedQuiescent
<1>8. CallsCounted
  BY <1>6, FS_EmptySet DEF CallsCounted
<1>9. HandoffBalanced
  <2>1. Cardinality({}) = 0 /\ Len(<<>>) = 0
    BY FS_EmptySet
  <2>2. \A q \in Queues : WorkersAt(q, "dequeued") = {}
                          /\ WorkersAt(q, "processed") = {}
    BY <1>5
  <2> QED
    BY <1>5, <2>1, <2>2 DEF HandoffBalanced
<1> QED
  BY <1>1, <1>2, <1>3, <1>4, <1>7, <1>8, <1>9 DEF PoolInv, TypeOK

\* PoolInv is an invariant of the pool.
LEMMA PoolInvariant == Spec => []PoolInv
<1>1. PoolInv /\ [Next]_vars => PoolInv'
  BY StopStep, PoolTypeStep, QueueTypeStep, WorkerTypeStep, ClientTypeStep,
     ItemTypeStep, WorkerShapeStep, ClientShapeStep, CallsCountedStep,
     HandoffStep, PausedStep, WakeupStep
     DEF PoolInv, TypeOK
<1> QED
  BY <1>1, PoolInit, PTL DEF Spec

\* Every variable of the pool keeps its type: _pause, _draining and processing,
\* plain ints in the code, never go below zero, for any number of threads.
THEOREM PoolTypeCorrect == Spec => []TypeOK
<1>1. PoolInv => TypeOK
  BY DEF PoolInv
<1> QED
  BY <1>1, PoolInvariant, PTL

\* The anonymous hand-over through to_process and to_finish balances, and
\* `processing` counts the workers with an item, for any number of them.
THEOREM HandoffAlwaysBalanced == Spec => []HandoffBalanced
<1>1. PoolInv => HandoffBalanced
  BY DEF PoolInv
<1> QED
  BY <1>1, PoolInvariant, PTL

\* The ASSERTs of _void_process() and _void_process_finish() never fail: a
\* worker about to pop to_process or to_finish finds an item there.
THEOREM PopsFindItems ==
  Spec => [](\A w \in Workers :
               /\ wpc[w] = "dequeued" => to_process[wq[w]] # <<>>
               /\ wpc[w] = "processed" => to_finish[wq[w]] # <<>>)
<1>1. ASSUME PoolInv, NEW w \in Workers
      PROVE  /\ wpc[w] = "dequeued" => to_process[wq[w]] # <<>>
             /\ wpc[w] = "processed" => to_finish[wq[w]] # <<>>
  <2>1. wpc[w] \in HasItem => wq[w] \in Queues
    BY <1>1, ItemInHand DEF PoolInv
  <2>2. CASE wpc[w] = "dequeued"
    <3>1. w \in WorkersAt(wq[w], "dequeued")
      BY <2>2 DEF WorkersAt
    <3>2. Len(to_process[wq[w]]) # 0
      BY <1>1, <2>1, <2>2, <3>1, CountedSetsFinite, CountDown
         DEF PoolInv, HandoffBalanced, HasItem
    <3> QED
      BY <2>2, <3>2, Len(<<>>) = 0
  <2>3. CASE wpc[w] = "processed"
    <3>1. w \in WorkersAt(wq[w], "processed")
      BY <2>3 DEF WorkersAt
    <3>2. Len(to_finish[wq[w]]) # 0
      BY <1>1, <2>1, <2>3, <3>1, CountedSetsFinite, CountDown
         DEF PoolInv, HandoffBalanced, HasItem
    <3> QED
      BY <2>3, <3>2, Len(<<>>) = 0
  <2> QED
    BY <2>2, <2>3
<1>2. PoolInv => \A w \in Workers :
        /\ wpc[w] = "dequeued" => to_process[wq[w]] # <<>>
        /\ wpc[w] = "processed" => to_finish[wq[w]] # <<>>
  BY <1>1
<1> QED
  BY <1>2, PoolInvariant, PTL

\* From the return of pause() to unpause() no worker has an item.
THEOREM PauseIsQuiet == Spec => []PausedQuiescent
<1>1. PoolInv => PausedQuiescent
  BY DEF PoolInv
<1> QED
  BY <1>1, PoolInvariant, PTL

\* No thread sleeps on in pause() or drain() with its condition true, except in
\* a drain() of a single queue once a stop(), which clears it, has begun.
THEOREM SleepersAreTold == Spec => []NoLostWakeup
<1>1. PoolInv => NoLostWakeup
  BY DEF PoolInv
<1> QED
  BY <1>1, PoolInvariant, PTL

\* After the join in stop(), the workers left no heartbeat entry, no item half
\* done and no lock behind.
THEOREM StopIsClean == Spec => []StopLeavesNothing
<1>1. PoolInv => StopLeavesNothing
  <2> SUFFICES ASSUME PoolInv, threads = {} PROVE StopLeavesNothing
    BY DEF StopLeavesNothing
  <2>1. \A w \in Workers : wpc[w] = "none"
    BY DEF PoolInv, WorkerShape
  <2>2. \A w \in Workers : hb[w] = "absent" /\ lock # w /\ w \notin cond
    BY <2>1 DEF PoolInv, WorkerShape
  <2>3. Busy = {}
    BY <2>1 DEF Busy, HasItem
  <2>4. \A q \in Queues : /\ WorkersAt(q, "dequeued") = {}
                          /\ WorkersAt(q, "processed") = {}
    BY <2>1 DEF WorkersAt
  <2>5. processing = 0
    BY <2>3, FS_EmptySet DEF PoolInv, HandoffBalanced
  <2>6. \A q \in Queues : Len(to_process[q]) = 0 /\ Len(to_finish[q]) = 0
    BY <2>4, FS_EmptySet DEF PoolInv, HandoffBalanced
  <2>7. \A q \in Queues : to_process[q] = <<>> /\ to_finish[q] = <<>>
    BY <2>6, EmptySeq DEF PoolInv, TypeOK, QueueTypeOK
  <2> QED
    BY <2>2, <2>5, <2>7 DEF StopLeavesNothing
<1> QED
  BY <1>1, PoolInvariant, PTL

=============================================================================
