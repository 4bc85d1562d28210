-------------------------- MODULE ThreadPoolTyping --------------------------
(***************************************************************************)
(* Proofs about ThreadPool, first part, for any number of workers,         *)
(* clients, queues and items.  Each lemma ...Step shows that every step of *)
(* the pool preserves one conjunct of PoolInv: here the types, the         *)
(* positions of the threads and the counts of calls; in ThreadPoolProofs   *)
(* the rest, and the theorems.                                             *)
(***************************************************************************)
EXTENDS ThreadPool, FiniteSetTheorems, SequenceTheorems, TLAPS

-----------------------------------------------------------------------------
(* Facts the steps rest on.                                                *)

\* The threads that stand at one place can be counted, as the code does.
LEMMA CountedSetsFinite ==
  /\ IsFiniteSet(Busy)
  /\ \A q, state : IsFiniteSet(WorkersAt(q, state))
  /\ IsFiniteSet(Draining)
  /\ IsFiniteSet(Pausing)
BY WorkersAssumption, ClientsAssumption, FS_Subset
   DEF Busy, WorkersAt, Draining, Pausing

\* The clients that want the pool paused can be counted.
LEMMA CallersFinite ==
  ASSUME PoolInv
  PROVE  IsFiniteSet(pausers \cup Pausing)
BY ClientsAssumption, FS_Subset
   DEF PoolInv, TypeOK, ClientTypeOK, Pausing

\* Counting down a counter of threads keeps it in step: no count goes below
\* zero as long as somebody is counted.
LEMMA CountDown ==
  ASSUME NEW S, IsFiniteSet(S), NEW x \in S
  PROVE  /\ Cardinality(S) \in Nat \ {0}
         /\ Cardinality(S \ {x}) = Cardinality(S) - 1
BY FS_CardinalityType, FS_EmptySet, FS_RemoveElement

\* Counting up.
LEMMA CountUp ==
  ASSUME NEW S, IsFiniteSet(S), NEW x, x \notin S
  PROVE  Cardinality(S \cup {x}) = Cardinality(S) + 1
BY FS_AddElement

\* No worker touches what belongs to the clients.
LEMMA WorkerFrame ==
  ASSUME NEW w \in Workers, WorkerNext(w)
  PROVE  UNCHANGED <<clientVars, stop, pause, draining, threads, stops>>
BY DEF WorkerNext, WorkerStart, WorkerDequeue, WorkerIdle, WorkerTimeout,
       WorkerProcess, WorkerHandle, WorkerProcessed, WorkerFinish, WorkerExit,
       clientVars, poolVars

\* A worker puts only itself to sleep, wakes nobody but sleepers, and takes the
\* lock only when it is free.
LEMMA WorkerSleeps ==
  ASSUME NEW w \in Workers, WorkerNext(w)
  PROVE  /\ cond' \subseteq cond \cup {w}
         /\ wait_cond' \subseteq wait_cond
         /\ lock' = lock \/ (lock \in {w, None} /\ lock' \in {w, None})
BY DEF WorkerNext, WorkerStart, WorkerDequeue, WorkerIdle, WorkerTimeout,
       WorkerProcess, WorkerHandle, WorkerProcessed, WorkerFinish, WorkerExit,
       AtLoopHead, SleepersLeft

\* No client other than Admin touches what belongs to the workers.
LEMMA ClientFrame ==
  ASSUME NEW c \in Clients, ClientNext(c)
  PROVE  /\ UNCHANGED <<workerVars, threads, stop, stops>>
         /\ UNCHANGED <<processing, to_process, to_finish>>
<1> USE DEF workerVars, poolVars, queueVars
<1>1. ASSUME NEW q \in Queues, AddQueue(c, q) \/ RemoveQueue(c, q)
      PROVE  /\ UNCHANGED <<workerVars, threads, stop, stops>>
             /\ UNCHANGED <<processing, to_process, to_finish>>
  BY <1>1 DEF AddQueue, RemoveQueue
<1>2. ASSUME NEW q \in Queues, NEW i \in Items,
             Queue(c, q, i) \/ QueueFront(c, q, i)
      PROVE  /\ UNCHANGED <<workerVars, threads, stop, stops>>
             /\ UNCHANGED <<processing, to_process, to_finish>>
  BY <1>2 DEF Queue, QueueFront, Submit
<1>3. ASSUME NEW q \in Queues \cup {None}, DrainBegin(c, q)
      PROVE  /\ UNCHANGED <<workerVars, threads, stop, stops>>
             /\ UNCHANGED <<processing, to_process, to_finish>>
  BY <1>3 DEF DrainBegin
<1> QED
  BY <1>1, <1>2, <1>3
     DEF ClientNext, WaitAgain, DrainReturn, PauseBegin, PauseReturn, Unpause,
         Lock, Unlock, CondWait, CondReturn, Wake, SpuriousWakeup

\* A client puts only itself to sleep, and takes only a free lock.
LEMMA ClientSleeps ==
  ASSUME ClientShape, NEW c \in Clients, ClientNext(c)
  PROVE  /\ cond' \subseteq cond \cup {c}
         /\ lock' = lock \/ (lock \in {c, None} /\ lock' \in {c, None})
<1>1. ASSUME NEW q \in Queues, AddQueue(c, q) \/ RemoveQueue(c, q)
      PROVE  UNCHANGED <<lock, cond>>
  BY <1>1 DEF AddQueue, RemoveQueue
<1>2. ASSUME NEW q \in Queues, NEW i \in Items,
             Queue(c, q, i) \/ QueueFront(c, q, i)
      PROVE  UNCHANGED lock /\ cond' \subseteq cond
  BY <1>2 DEF Queue, QueueFront, Submit, NotifyOne
<1>3. ASSUME NEW q \in Queues \cup {None}, DrainBegin(c, q)
      PROVE  UNCHANGED <<lock, cond>>
  BY <1>3 DEF DrainBegin
<1>4. cpc[c] = "locked" => lock = c
  BY DEF ClientShape
<1> QED
  BY <1>1, <1>2, <1>3, <1>4
     DEF ClientNext, WaitAgain, DrainReturn, PauseBegin, PauseReturn, Unpause,
         Lock, Unlock, CondWait, CondReturn, Wake, SpuriousWakeup, MayCall

\* The index of the scan, reduced modulo size(), is one of work_queues.
LEMMA TriedIsQueue ==
  ASSUME QueueTypeOK, work_queues # <<>>, NEW k \in Nat
  PROVE  Slot(k) \in Nat /\ Slot(k) < Len(work_queues) /\ Tried(k) \in Queues
<1>1. Len(work_queues) \in Nat \ {0}
  BY EmptySeq DEF QueueTypeOK
<1>2. next_work_queue + k \in Nat
  BY DEF QueueTypeOK
<1>3. Slot(k) \in 0 .. (Len(work_queues) - 1)
  BY <1>1, <1>2 DEF Slot
<1> QED
  BY <1>1, <1>3, ElementOfSeq DEF Tried, QueueTypeOK

\* What a worker does that takes an item: it comes from one queue that has one.
LEMMA DequeueTakes ==
  ASSUME TypeOK, NEW w \in Workers, WorkerDequeue(w)
  PROVE  /\ next_work_queue' \in Nat
         /\ \E q \in Queues : /\ NonEmpty(q)
                              /\ VoidDequeue(q)
                              /\ wq' = [wq EXCEPT ![w] = q]
<1>1. PICK k \in Tries : /\ NonEmpty(Tried(k))
                         /\ next_work_queue' = SlotAfter(k)
                         /\ VoidDequeue(Tried(k))
                         /\ wq' = [wq EXCEPT ![w] = Tried(k)]
  BY DEF WorkerDequeue
<1>2. k \in Nat
  BY DEF Tries
<1>3. Slot(k) \in Nat /\ Tried(k) \in Queues
  BY <1>2, TriedIsQueue DEF TypeOK, WorkerDequeue, Scans
<1>4. next_work_queue' \in Nat
  BY <1>1, <1>3 DEF SlotAfter
<1>5. \E q \in Queues : /\ NonEmpty(q)
                        /\ VoidDequeue(q)
                        /\ wq' = [wq EXCEPT ![w] = q]
  BY <1>1, <1>3 DEF NonEmpty, VoidDequeue
<1> QED
  BY <1>4, <1>5

\* A worker that has an item knows its queue, and while it processes, the item.
LEMMA ItemInHand ==
  ASSUME TypeOK, WorkerShape, NEW w \in Workers
  PROVE  /\ wpc[w] \in HasItem => wq[w] \in Queues
         /\ wpc[w] = "running" => cur[w] \in Items
BY NoneAssumption DEF TypeOK, WorkerTypeOK, WorkerShape

\* The first of a list of items is an item, the rest a list one shorter.
LEMMA PopTakes ==
  ASSUME QueueTypeOK, NEW q \in Queues
  PROVE  /\ to_process[q] # <<>> =>
              /\ Head(to_process[q]) \in Items
              /\ Tail(to_process[q]) \in Seq(Items)
              /\ Len(Tail(to_process[q])) = Len(to_process[q]) - 1
         /\ to_finish[q] # <<>> =>
              /\ Tail(to_finish[q]) \in Seq(Items)
              /\ Len(Tail(to_finish[q])) = Len(to_finish[q]) - 1
BY HeadTailProperties DEF QueueTypeOK

-----------------------------------------------------------------------------
(* Typing.                                                                 *)

\* The pool's own fields keep their types: a counter is counted down only by
\* a thread that is counted.
LEMMA PoolTypeStep == PoolInv /\ [Next]_vars => PoolTypeOK'
<1> SUFFICES ASSUME PoolInv, [Next]_vars PROVE PoolTypeOK'
  OBVIOUS
<1> USE ClientsAssumption DEF TypeOK, PoolTypeOK, MayCall, poolVars
<1>1. ASSUME NEW w \in Workers, WorkerFinish(w) PROVE PoolTypeOK'
  <2>1. w \in Busy
    BY <1>1 DEF WorkerFinish, Busy, HasItem
  <2>2. processing \in Nat \ {0}
    BY <2>1, CountedSetsFinite, CountDown DEF PoolInv, HandoffBalanced
  <2> QED
    BY <1>1, <2>2 DEF PoolInv, WorkerFinish, SleepersLeft
<1>2. ASSUME NEW w \in Workers, WorkerNext(w) PROVE PoolTypeOK'
  <2>1. WorkerStart(w) \/ WorkerDequeue(w) \/ WorkerIdle(w) => PoolTypeOK'
    BY DEF PoolInv, WorkerStart, WorkerDequeue, WorkerIdle
  <2>2. WorkerTimeout(w) \/ WorkerProcess(w) \/ WorkerHandle(w) => PoolTypeOK'
    BY DEF PoolInv, WorkerTimeout, WorkerProcess, WorkerHandle
  <2>3. WorkerProcessed(w) \/ WorkerExit(w) => PoolTypeOK'
    BY DEF PoolInv, WorkerProcessed, WorkerExit
  <2> QED
    BY <1>1, <1>2, <2>1, <2>2, <2>3 DEF WorkerNext
<1>3. ASSUME NEW c \in Clients, DrainReturn(c) PROVE PoolTypeOK'
  <2>1. c \in Draining
    BY <1>3 DEF DrainReturn, Draining
  <2>2. draining \in Nat \ {0}
    BY <2>1, CountedSetsFinite, CountDown DEF PoolInv, CallsCounted
  <2> QED
    BY <1>3, <2>2 DEF PoolInv, DrainReturn
<1>4. ASSUME NEW c \in Clients, Unpause(c) PROVE PoolTypeOK'
  <2>1. c \in pausers \cup Pausing
    BY <1>4 DEF Unpause
  <2>2. pause \in Nat \ {0}
    BY <2>1, CallersFinite, CountDown DEF PoolInv, CallsCounted
  <2> QED
    BY <1>4, <2>2 DEF PoolInv, Unpause
<1>5. ASSUME NEW c \in Clients, ClientNext(c) PROVE PoolTypeOK'
  <2>1. ASSUME NEW q \in Queues, AddQueue(c, q) \/ RemoveQueue(c, q)
        PROVE  PoolTypeOK'
    BY <2>1 DEF PoolInv, AddQueue, RemoveQueue
  <2>2. ASSUME NEW q \in Queues, NEW i \in Items,
               Queue(c, q, i) \/ QueueFront(c, q, i)
        PROVE  PoolTypeOK'
    BY <2>2 DEF PoolInv, Queue, QueueFront, Submit, NotifyOne
  <2>3. ASSUME NEW q \in Queues \cup {None}, DrainBegin(c, q) PROVE PoolTypeOK'
    BY <2>3 DEF PoolInv, DrainBegin, SleepCounted
  <2>4. WaitAgain(c) \/ PauseBegin(c) \/ PauseReturn(c) => PoolTypeOK'
    BY DEF PoolInv, WaitAgain, PauseBegin, PauseReturn
  <2>5. Lock(c) \/ Unlock(c) \/ CondWait(c) \/ CondReturn(c) => PoolTypeOK'
    BY DEF PoolInv, Lock, Unlock, CondWait, CondReturn
  <2>6. Wake(c) \/ SpuriousWakeup(c) => PoolTypeOK'
    BY DEF PoolInv, Wake, SpuriousWakeup
  <2> QED
    BY <1>3, <1>4, <1>5, <2>1, <2>2, <2>3, <2>4, <2>5, <2>6
       DEF ClientNext
<1>6. ASSUME AdminNext PROVE PoolTypeOK'
  <2>1. Start => PoolTypeOK'
    BY DEF PoolInv, Start, StartThreads
  <2>2. StopBegin => PoolTypeOK'
    BY MaxStopsAssumption DEF PoolInv, StopBegin
  <2>3. StopJoin \/ StopEnd => PoolTypeOK'
    BY DEF PoolInv, StopJoin, StopEnd
  <2> QED
    BY <1>6, <2>1, <2>2, <2>3 DEF AdminNext
<1>7. CASE UNCHANGED vars
  BY <1>7 DEF PoolInv, vars
<1> QED
  BY <1>1, <1>2, <1>3, <1>4, <1>5, <1>6, <1>7 DEF Next

\* The lists of the queues stay lists of items, and the scan's index a number.
LEMMA QueueTypeStep == PoolInv /\ [Next]_vars => QueueTypeOK'
<1> SUFFICES ASSUME PoolInv, [Next]_vars PROVE QueueTypeOK'
  OBVIOUS
<1> USE NoneAssumption
    DEF TypeOK, QueueTypeOK, WorkerTypeOK, WorkerShape, HasItem, MayCall,
        queueVars, workerVars
<1>1. ASSUME NEW w \in Workers, WorkerDequeue(w) PROVE QueueTypeOK'
  <2>1. PICK q \in Queues : NonEmpty(q) /\ VoidDequeue(q)
    BY <1>1, DequeueTakes DEF PoolInv
  <2>2. Head(task_queue[q]) \in Items /\ Tail(task_queue[q]) \in Seq(Items)
    BY <2>1, HeadTailProperties DEF PoolInv, NonEmpty
  <2>3. Append(to_process[q], Head(task_queue[q])) \in Seq(Items)
    BY <2>2, AppendProperties DEF PoolInv
  <2>4. /\ task_queue' \in [Queues -> Seq(Items)]
        /\ to_process' \in [Queues -> Seq(Items)]
    BY <2>1, <2>2, <2>3 DEF PoolInv, VoidDequeue
  <2>5. next_work_queue' \in Nat
    BY <1>1, DequeueTakes DEF PoolInv
  <2>6. UNCHANGED <<work_queues, to_finish>>
    BY <1>1 DEF WorkerDequeue
  <2> QED
    BY <2>4, <2>5, <2>6 DEF PoolInv
<1>2. ASSUME NEW w \in Workers, WorkerIdle(w) PROVE QueueTypeOK'
  <2>1. next_work_queue' \in Nat
    <3>1. CASE Scans
      <4>1. 2 * Len(work_queues) - 1 \in Nat
        BY <3>1, EmptySeq DEF PoolInv, Scans
      <4>2. Slot(2 * Len(work_queues) - 1) \in Nat
        BY <3>1, <4>1, TriedIsQueue DEF PoolInv, Scans
      <4> QED
        BY <1>2, <3>1, <4>2 DEF WorkerIdle, SlotAfter
    <3>2. CASE ~Scans
      BY <1>2, <3>2 DEF PoolInv, WorkerIdle
    <3> QED
      BY <3>1, <3>2
  <2>2. UNCHANGED <<work_queues, task_queue, to_process, to_finish>>
    BY <1>2 DEF WorkerIdle
  <2> QED
    BY <2>1, <2>2 DEF PoolInv
<1>3. ASSUME NEW w \in Workers, WorkerProcess(w) PROVE QueueTypeOK'
  <2>1. /\ wq[w] \in Queues
        /\ Tail(to_process[wq[w]]) \in Seq(Items)
    BY <1>3, ItemInHand, PopTakes DEF PoolInv, WorkerProcess
  <2>2. /\ to_process' = [to_process EXCEPT ![wq[w]] = Tail(@)]
        /\ UNCHANGED <<work_queues, next_work_queue, task_queue, to_finish>>
    BY <1>3 DEF WorkerProcess, PickUp
  <2> QED
    BY <2>1, <2>2 DEF PoolInv
<1>4. ASSUME NEW w \in Workers, WorkerProcessed(w) PROVE QueueTypeOK'
  <2>1. wq[w] \in Queues /\ cur[w] \in Items
    BY <1>4, ItemInHand DEF PoolInv, WorkerProcessed
  <2>2. Append(to_finish[wq[w]], cur[w]) \in Seq(Items)
    BY <2>1, AppendProperties DEF PoolInv
  <2>3. /\ to_finish' = [to_finish EXCEPT ![wq[w]] = Append(@, cur[w])]
        /\ UNCHANGED <<work_queues, next_work_queue, task_queue, to_process>>
    BY <1>4 DEF WorkerProcessed
  <2> QED
    BY <2>1, <2>2, <2>3 DEF PoolInv
<1>5. ASSUME NEW w \in Workers, WorkerFinish(w) PROVE QueueTypeOK'
  <2>1. /\ wq[w] \in Queues
        /\ Tail(to_finish[wq[w]]) \in Seq(Items)
    BY <1>5, ItemInHand, PopTakes DEF PoolInv, WorkerFinish
  <2>2. /\ to_finish' = [to_finish EXCEPT ![wq[w]] = Tail(@)]
        /\ UNCHANGED <<work_queues, next_work_queue, task_queue, to_process>>
    BY <1>5 DEF WorkerFinish, VoidFinish
  <2> QED
    BY <2>1, <2>2 DEF PoolInv
<1>6. ASSUME NEW w \in Workers, WorkerNext(w) PROVE QueueTypeOK'
  <2>1. WorkerStart(w) => QueueTypeOK'
    BY DEF PoolInv, WorkerStart
  <2>2. WorkerTimeout(w) \/ WorkerHandle(w) => QueueTypeOK'
    BY DEF PoolInv, WorkerTimeout, WorkerHandle
  <2>3. WorkerExit(w) => QueueTypeOK'
    BY DEF PoolInv, WorkerExit, AtLoopHead, RemoveWorker
  <2> QED
    BY <1>1, <1>2, <1>3, <1>4, <1>5, <1>6, <2>1, <2>2, <2>3 DEF WorkerNext
<1>7. ASSUME NEW c \in Clients, ClientNext(c) PROVE QueueTypeOK'
  <2>1. ASSUME NEW q \in Queues, AddQueue(c, q)
        PROVE  QueueTypeOK'
    <3>1. Append(work_queues, q) \in Seq(Queues)
      BY AppendProperties DEF PoolInv
    <3> QED
      BY <2>1, <3>1 DEF PoolInv, AddQueue
  <2>2. ASSUME NEW q \in Queues, RemoveQueue(c, q)
        PROVE  QueueTypeOK'
    <3>1. PICK k \in DOMAIN work_queues :
            work_queues' = SubSeq(work_queues, 1, k - 1)
                             \o SubSeq(work_queues, k + 1, Len(work_queues))
      BY <2>2 DEF RemoveQueue
    <3>2. k \in 1 .. Len(work_queues) /\ Len(work_queues) \in Nat
      BY DEF PoolInv
    <3>3. \A j \in 1 .. Len(work_queues) : work_queues[j] \in Queues
      BY ElementOfSeq DEF PoolInv
    <3>4. SubSeq(work_queues, 1, k - 1) \in Seq(Queues)
      <4>1. 1 \in Int /\ k - 1 \in Int
        BY <3>2
      <4>2. \A j \in 1 .. k - 1 : work_queues[j] \in Queues
        BY <3>2, <3>3
      <4> QED
        BY <4>1, <4>2, SubSeqProperties
    <3>5. SubSeq(work_queues, k + 1, Len(work_queues)) \in Seq(Queues)
      <4>1. k + 1 \in Int /\ Len(work_queues) \in Int
        BY <3>2
      <4>2. \A j \in k + 1 .. Len(work_queues) : work_queues[j] \in Queues
        BY <3>2, <3>3
      <4> QED
        BY <4>1, <4>2, SubSeqProperties
    <3>6. work_queues' \in Seq(Queues)
      BY <3>1, <3>4, <3>5, ConcatProperties
    <3>7. /\ task_queue' = [task_queue EXCEPT ![q] = <<>>]
          /\ UNCHANGED <<next_work_queue, to_process, to_finish>>
      BY <2>2 DEF RemoveQueue
    <3> QED
      BY <3>6, <3>7, EmptySeq DEF PoolInv
  <2>3. ASSUME NEW q \in Queues, NEW i \in Items,
               Queue(c, q, i) \/ QueueFront(c, q, i)
        PROVE  QueueTypeOK'
    <3>1. /\ Append(task_queue[q], i) \in Seq(Items)
          /\ <<i>> \o task_queue[q] \in Seq(Items)
      BY AppendProperties, ConcatProperties DEF PoolInv
    <3>2. PICK list \in Seq(Items) :
            task_queue' = [task_queue EXCEPT ![q] = list]
      BY <2>3, <3>1 DEF Queue, QueueFront, Submit
    <3>3. UNCHANGED <<work_queues, next_work_queue, to_process, to_finish>>
      BY <2>3 DEF Queue, QueueFront, Submit
    <3> QED
      BY <3>2, <3>3 DEF PoolInv
  <2>4. CASE UNCHANGED queueVars
    BY <2>4 DEF PoolInv
  <2> QED
    BY <1>7, <2>1, <2>2, <2>3, <2>4
       DEF ClientNext, DrainBegin, WaitAgain, DrainReturn, PauseBegin,
           PauseReturn, Unpause, Lock, Unlock, CondWait, CondReturn, Wake,
           SpuriousWakeup
<1>8. ASSUME StopEnd PROVE QueueTypeOK'
  <2>1. /\ task_queue' = [q \in Queues |-> IF IsRegistered(q) THEN <<>>
                                            ELSE task_queue[q]]
        /\ UNCHANGED <<work_queues, next_work_queue, to_process, to_finish>>
    BY <1>8 DEF StopEnd
  <2>2. task_queue' \in [Queues -> Seq(Items)]
    BY <2>1, EmptySeq DEF PoolInv
  <2> QED
    BY <2>1, <2>2 DEF PoolInv
<1>9. ASSUME AdminNext PROVE QueueTypeOK'
  BY <1>8, <1>9 DEF PoolInv, AdminNext, Start, StopBegin, StopJoin
<1>10. CASE UNCHANGED vars
  BY <1>10 DEF PoolInv, vars
<1> QED
  BY <1>1, <1>2, <1>3, <1>4, <1>5, <1>6, <1>7, <1>8, <1>9, <1>10 DEF Next

\* The fields and local variables of the workers keep their types.
LEMMA WorkerTypeStep == PoolInv /\ [Next]_vars => WorkerTypeOK'
<1> SUFFICES ASSUME PoolInv, [Next]_vars PROVE WorkerTypeOK'
  OBVIOUS
<1> USE NoneAssumption
    DEF TypeOK, QueueTypeOK, WorkerTypeOK, WorkerShape, HasItem, WorkerStates,
        workerVars
<1>1. ASSUME NEW w \in Workers, WorkerDequeue(w) PROVE WorkerTypeOK'
  <2>1. PICK q \in Queues : wq' = [wq EXCEPT ![w] = q]
    BY <1>1, DequeueTakes DEF PoolInv
  <2>2. wpc' = [wpc EXCEPT ![w] = "dequeued"] /\ UNCHANGED <<hb, cur>>
    BY <1>1 DEF WorkerDequeue
  <2> QED
    BY <2>1, <2>2 DEF PoolInv
<1>2. ASSUME NEW w \in Workers, WorkerProcess(w) PROVE WorkerTypeOK'
  <2>1. wq[w] \in Queues /\ Head(to_process[wq[w]]) \in Items
    BY <1>2, ItemInHand, PopTakes DEF PoolInv, WorkerProcess
  <2>2. /\ wpc[w] = "dequeued"
        /\ cur' = [cur EXCEPT ![w] = Head(to_process[wq[w]])]
        /\ hb' = [hb EXCEPT ![w] = "queue"]
        /\ wpc' = [wpc EXCEPT ![w] = "running"]
        /\ UNCHANGED wq
    BY <1>2 DEF WorkerProcess, PickUp
  <2> QED
    BY <2>1, <2>2 DEF PoolInv
<1>3. ASSUME NEW w \in Workers, WorkerNext(w) PROVE WorkerTypeOK'
  <2>1. WorkerStart(w) \/ WorkerIdle(w) => WorkerTypeOK'
    BY DEF PoolInv, WorkerStart, WorkerIdle, AtLoopHead
  <2>2. WorkerTimeout(w) \/ WorkerHandle(w) => WorkerTypeOK'
    BY DEF PoolInv, WorkerTimeout, WorkerHandle
  <2>3. WorkerProcessed(w) \/ WorkerFinish(w) \/ WorkerExit(w) => WorkerTypeOK'
    BY DEF PoolInv, WorkerProcessed, WorkerFinish, VoidFinish, SleepersLeft,
       WorkerExit, AtLoopHead, RemoveWorker
  <2> QED
    BY <1>1, <1>2, <1>3, <2>1, <2>2, <2>3 DEF WorkerNext
<1>4. ASSUME NEW c \in Clients, ClientNext(c) PROVE WorkerTypeOK'
  BY <1>4, ClientFrame DEF PoolInv
<1>5. ASSUME AdminNext PROVE WorkerTypeOK'
  BY <1>5 DEF PoolInv, AdminNext, Start, StartThreads, StopBegin, StopJoin,
     StopEnd
<1>6. CASE UNCHANGED vars
  BY <1>6 DEF PoolInv, vars
<1> QED
  BY <1>1, <1>2, <1>3, <1>4, <1>5, <1>6 DEF Next

\* The positions and arguments of the clients keep their types.
LEMMA ClientTypeStep == PoolInv /\ [Next]_vars => ClientTypeOK'
<1> SUFFICES ASSUME PoolInv, [Next]_vars PROVE ClientTypeOK'
  OBVIOUS
<1> USE ClientsAssumption
    DEF TypeOK, ClientTypeOK, ClientStates, MayCall, clientVars
<1>1. ASSUME NEW w \in Workers, WorkerNext(w) PROVE ClientTypeOK'
  BY <1>1, WorkerFrame DEF PoolInv
<1>2. ASSUME NEW c \in Clients, ClientNext(c) PROVE ClientTypeOK'
  <2>1. ASSUME NEW q \in Queues, AddQueue(c, q)
        PROVE  ClientTypeOK'
    BY <2>1 DEF PoolInv, AddQueue
  <2>2. ASSUME NEW q \in Queues, RemoveQueue(c, q)
        PROVE  ClientTypeOK'
    BY <2>2 DEF PoolInv, RemoveQueue
  <2>3. ASSUME NEW q \in Queues, NEW i \in Items,
               Queue(c, q, i) \/ QueueFront(c, q, i)
        PROVE  ClientTypeOK'
    BY <2>3 DEF PoolInv, Queue, QueueFront, Submit, NotifyOne
  <2>4. ASSUME NEW q \in Queues \cup {None}, DrainBegin(c, q)
        PROVE  ClientTypeOK'
    BY <2>4 DEF PoolInv, DrainBegin, SleepCounted
  <2>5. WaitAgain(c) \/ DrainReturn(c) => ClientTypeOK'
    BY DEF PoolInv, WaitAgain, DrainReturn
  <2>6. PauseBegin(c) \/ PauseReturn(c) \/ Unpause(c) => ClientTypeOK'
    BY DEF PoolInv, PauseBegin, PauseReturn, Unpause
  <2>7. Lock(c) \/ Unlock(c) \/ CondWait(c) \/ CondReturn(c) => ClientTypeOK'
    BY DEF PoolInv, Lock, Unlock, CondWait, CondReturn
  <2>8. Wake(c) \/ SpuriousWakeup(c) => ClientTypeOK'
    BY DEF PoolInv, Wake, SpuriousWakeup
  <2> QED
    BY <1>2, <2>1, <2>2, <2>3, <2>4, <2>5, <2>6, <2>7, <2>8 DEF ClientNext
<1>3. ASSUME AdminNext PROVE ClientTypeOK'
  BY <1>3 DEF PoolInv, AdminNext, Start, StartThreads, StopBegin, StopJoin,
     StopEnd
<1>4. CASE UNCHANGED vars
  BY <1>4 DEF PoolInv, vars
<1> QED
  BY <1>1, <1>2, <1>3, <1>4 DEF Next

\* The history of the items keeps its type.
LEMMA ItemTypeStep == PoolInv /\ [Next]_vars => ItemTypeOK'
<1> SUFFICES ASSUME PoolInv, [Next]_vars PROVE ItemTypeOK'
  OBVIOUS
<1> USE DEF TypeOK, ItemTypeOK, itemVars
<1>1. CASE UNCHANGED itemVars
  BY <1>1 DEF PoolInv
<1>2. ASSUME NEW w \in Workers, WorkerNext(w) PROVE ItemTypeOK'
  <2>1. WorkerProcessed(w) \/ WorkerFinish(w) => ItemTypeOK'
    BY DEF PoolInv, WorkerProcessed, WorkerFinish, VoidFinish
  <2> QED
    BY <1>1, <1>2, <2>1
       DEF WorkerNext, WorkerStart, WorkerDequeue, WorkerIdle, WorkerTimeout,
           WorkerProcess, WorkerHandle, WorkerExit
<1>3. ASSUME NEW c \in Clients, ClientNext(c) PROVE ItemTypeOK'
  <2>1. ASSUME NEW q \in Queues, RemoveQueue(c, q) PROVE ItemTypeOK'
    BY <2>1 DEF PoolInv, RemoveQueue
  <2>2. ASSUME NEW q \in Queues, NEW i \in Items,
               Queue(c, q, i) \/ QueueFront(c, q, i)
        PROVE  ItemTypeOK'
    <3>1. /\ fate' = [fate EXCEPT ![i] = "queued"]
          /\ home' = [home EXCEPT ![i] = q]
      BY <2>2 DEF Queue, QueueFront, Submit
    <3> QED
      BY <3>1 DEF PoolInv
  <2> QED
    BY <1>1, <1>3, <2>1, <2>2
       DEF ClientNext, AddQueue, DrainBegin, WaitAgain, DrainReturn, PauseBegin,
           PauseReturn, Unpause, Lock, Unlock, CondWait, CondReturn, Wake,
           SpuriousWakeup
<1>4. ASSUME AdminNext PROVE ItemTypeOK'
  <2>1. StopEnd => ItemTypeOK'
    BY DEF PoolInv, StopEnd
  <2> QED
    BY <1>1, <1>4, <2>1 DEF AdminNext, Start, StopBegin, StopJoin
<1>5. CASE UNCHANGED vars
  BY <1>1, <1>5 DEF vars
<1> QED
  BY <1>2, <1>3, <1>4, <1>5 DEF Next

-----------------------------------------------------------------------------
(* Where the threads stand, and what is counted.                           *)

\* The position of a worker keeps telling what it has and where it sleeps.
LEMMA WorkerShapeStep == PoolInv /\ [Next]_vars => WorkerShape'
<1> SUFFICES ASSUME PoolInv, [Next]_vars PROVE WorkerShape'
  OBVIOUS
<1> USE DEF WorkerTypeOK, WorkerShape, HasItem, workerVars
<1>a. WorkerShape /\ WorkerTypeOK
  BY DEF PoolInv, TypeOK
<1>1. ASSUME NEW w \in Workers, WorkerDequeue(w) PROVE WorkerShape'
  <2>1. PICK q \in Queues : wq' = [wq EXCEPT ![w] = q]
    BY <1>1, DequeueTakes DEF PoolInv
  <2>2. /\ AtLoopHead(w)
        /\ wpc' = [wpc EXCEPT ![w] = "dequeued"]
        /\ lock' = None
        /\ UNCHANGED <<cond, threads, hb, cur>>
    BY <1>1 DEF WorkerDequeue
  <2> QED
    BY <1>a, <2>1, <2>2, NoneAssumption DEF AtLoopHead
<1>2. ASSUME NEW w \in Workers, WorkerProcess(w) PROVE WorkerShape'
  <2>1. wq[w] \in Queues
    BY <1>2, ItemInHand DEF PoolInv, WorkerProcess
  <2>2. Head(to_process[wq[w]]) \in Items
    BY <1>2, <2>1, PopTakes DEF PoolInv, TypeOK, WorkerProcess
  <2>3. /\ wpc[w] = "dequeued"
        /\ cur' = [cur EXCEPT ![w] = Head(to_process[wq[w]])]
        /\ hb' = [hb EXCEPT ![w] = "queue"]
        /\ wpc' = [wpc EXCEPT ![w] = "running"]
        /\ UNCHANGED <<lock, cond, threads, wq>>
    BY <1>2 DEF WorkerProcess, PickUp
  <2> QED
    BY <1>a, <2>1, <2>2, <2>3, NoneAssumption
<1>3. ASSUME UNCHANGED <<workerVars, threads>>,
             \A w \in Workers : w \in cond' => w \in cond,
             \A w \in Workers : lock' = w <=> lock = w
      PROVE  WorkerShape'
  BY <1>a, <1>3
<1>4. ASSUME NEW w \in Workers, WorkerNext(w) PROVE WorkerShape'
  <2>1. WorkerStart(w) => WorkerShape'
    BY <1>a, NoneAssumption DEF WorkerStart
  <2>2. WorkerIdle(w) => WorkerShape'
    BY <1>a, NoneAssumption DEF WorkerIdle, AtLoopHead
  <2>3. WorkerTimeout(w) => WorkerShape'
    BY <1>3 DEF WorkerTimeout
  <2>4. WorkerHandle(w) => WorkerShape'
    BY <1>a DEF WorkerHandle
  <2>5. WorkerProcessed(w) => WorkerShape'
    BY <1>a, NoneAssumption DEF WorkerProcessed
  <2>6. WorkerFinish(w) => WorkerShape'
    BY <1>a, NoneAssumption DEF WorkerFinish
  <2>7. WorkerExit(w) => WorkerShape'
    BY <1>a, NoneAssumption DEF WorkerExit, AtLoopHead, RemoveWorker
  <2> QED
    BY <1>1, <1>2, <1>4, <2>1, <2>2, <2>3, <2>4, <2>5, <2>6, <2>7
       DEF WorkerNext
<1>5. ASSUME NEW c \in Clients, ClientNext(c) PROVE WorkerShape'
  <2>1. UNCHANGED <<workerVars, threads>>
    BY <1>5, ClientFrame
  <2>2. \A w \in Workers : w \in cond' => w \in cond
    BY <1>5, ClientSleeps, DisjointAssumption, NoneAssumption
       DEF PoolInv
  <2>3. \A w \in Workers : lock' = w <=> lock = w
    BY <1>5, ClientSleeps, DisjointAssumption, NoneAssumption
       DEF PoolInv
  <2> QED
    BY <1>3, <2>1, <2>2, <2>3
<1>6. ASSUME AdminNext PROVE WorkerShape'
  <2>1. Start => WorkerShape'
    BY <1>a DEF Start, StartThreads
  <2>2. StopJoin => WorkerShape'
    BY <1>a DEF StopJoin
  <2>3. StopBegin \/ StopEnd => WorkerShape'
    BY <1>3 DEF StopBegin, StopEnd
  <2> QED
    BY <1>6, <2>1, <2>2, <2>3 DEF AdminNext
<1>7. CASE UNCHANGED vars
  BY <1>3, <1>7 DEF vars
<1> QED
  BY <1>1, <1>2, <1>4, <1>5, <1>6, <1>7 DEF Next

\* The call a client is in keeps telling where it sleeps and what it has.
LEMMA ClientShapeStep == PoolInv /\ [Next]_vars => ClientShape'
<1> SUFFICES ASSUME PoolInv, [Next]_vars PROVE ClientShape'
  OBVIOUS
<1> USE DEF ClientTypeOK, ClientShape, MayCall, clientVars
<1>a. /\ ClientShape /\ ClientTypeOK
      /\ wait_cond \subseteq Clients /\ stops \in Nat
  BY MaxStopsAssumption DEF PoolInv, TypeOK, PoolTypeOK
<1>1. ASSUME NEW w \in Workers, WorkerNext(w) PROVE ClientShape'
  <2>1. UNCHANGED <<cpc, arg, stops>> /\ wait_cond' \subseteq wait_cond
    BY <1>1, WorkerFrame, WorkerSleeps
  <2>2. \A c \in Clients : lock = c => lock' = c
    BY <1>1, WorkerSleeps, DisjointAssumption, NoneAssumption
  <2> QED
    BY <1>a, <2>1, <2>2
<1>2. ASSUME NEW c \in Clients, ClientNext(c) PROVE ClientShape'
  <2>1. ASSUME NEW q \in Queues, AddQueue(c, q)
        PROVE  ClientShape'
    BY <1>a, <2>1 DEF AddQueue
  <2>2. ASSUME NEW q \in Queues, RemoveQueue(c, q)
        PROVE  ClientShape'
    BY <1>a, <2>2 DEF RemoveQueue
  <2>3. ASSUME NEW q \in Queues, NEW i \in Items,
               Queue(c, q, i) \/ QueueFront(c, q, i)
        PROVE  ClientShape'
    BY <1>a, <2>3 DEF Queue, QueueFront, Submit, NotifyOne
  <2>4. ASSUME NEW q \in Queues \cup {None}, DrainBegin(c, q)
        PROVE  ClientShape'
    <3>1. MayCall(c) /\ UNCHANGED <<lock, stops>>
      BY <2>4 DEF DrainBegin
    <3>2. CASE /\ wait_cond' = wait_cond \cup {c}
               /\ cpc' = [cpc EXCEPT ![c] = "drain"]
               /\ arg' = [arg EXCEPT ![c] = q]
      BY <1>a, <3>1, <3>2
    <3>3. CASE UNCHANGED <<wait_cond, cpc, arg>>
      BY <1>a, <3>1, <3>3
    <3> QED
      BY <2>4, <3>2, <3>3 DEF DrainBegin, SleepCounted
  <2>5. WaitAgain(c) \/ DrainReturn(c) => ClientShape'
    BY <1>a DEF WaitAgain, DrainReturn
  <2>6. PauseBegin(c) => ClientShape'
    BY <1>a DEF PauseBegin
  <2>7. PauseReturn(c) \/ Unpause(c) => ClientShape'
    BY <1>a DEF PauseReturn, Unpause
  <2>8. Lock(c) \/ CondReturn(c) => ClientShape'
    BY <1>a, NoneAssumption DEF Lock, CondReturn
  <2>9. Unlock(c) \/ CondWait(c) => ClientShape'
    BY <1>a DEF Unlock, CondWait
  <2>10. Wake(c) \/ SpuriousWakeup(c) => ClientShape'
    BY <1>a DEF Wake, SpuriousWakeup
  <2> QED
    BY <1>2, <2>1, <2>2, <2>3, <2>4, <2>5, <2>6, <2>7, <2>8,
       <2>9, <2>10 DEF ClientNext
<1>3. ASSUME AdminNext PROVE ClientShape'
  <2>1. Start => ClientShape'
    BY <1>a DEF Start
  <2>2. StopBegin => ClientShape'
    BY <1>a, ClientsAssumption DEF StopBegin
  <2>3. StopJoin => ClientShape'
    BY <1>a, ClientsAssumption DEF StopJoin
  <2>4. StopEnd => ClientShape'
    BY <1>a, ClientsAssumption DEF StopEnd
  <2> QED
    BY <1>3, <2>1, <2>2, <2>3, <2>4 DEF AdminNext
<1>4. CASE UNCHANGED vars
  BY <1>a, <1>4 DEF vars
<1> QED
  BY <1>1, <1>2, <1>3, <1>4 DEF Next

\* _draining and _pause keep counting the calls they are there for.
LEMMA CallsCountedStep == PoolInv /\ [Next]_vars => CallsCounted'
<1> SUFFICES ASSUME PoolInv, [Next]_vars PROVE CallsCounted'
  OBVIOUS
<1> USE DEF poolVars, clientVars
<1>a. /\ CallsCounted
      /\ cpc \in [Clients -> ClientStates] /\ pausers \subseteq Clients
  BY DEF PoolInv, TypeOK, ClientTypeOK
<1>b. /\ IsFiniteSet(Draining) /\ Cardinality(Draining) \in Nat
      /\ IsFiniteSet(pausers \cup Pausing)
      /\ Cardinality(pausers \cup Pausing) \in Nat
  BY CountedSetsFinite, CallersFinite, FS_CardinalityType
<1>1. ASSUME UNCHANGED <<pause, draining, pausers>>,
             Draining' = Draining, Pausing' = Pausing
      PROVE  CallsCounted'
  BY <1>a, <1>1 DEF CallsCounted
<1>2. ASSUME UNCHANGED <<pause, draining, clientVars>> PROVE CallsCounted'
  BY <1>1, <1>2 DEF Draining, Pausing
<1>3. ASSUME NEW c \in Clients, NEW q \in Queues \cup {None}, DrainBegin(c, q)
      PROVE  CallsCounted'
  <2>1. cpc[c] = "idle" /\ UNCHANGED <<pause, pausers>>
    BY <1>3 DEF DrainBegin, MayCall
  <2>2. CASE draining' = draining + 1 /\ cpc' = [cpc EXCEPT ![c] = "drain"]
    <3>1. Draining' = Draining \cup {c} /\ c \notin Draining
      BY <1>a, <2>1, <2>2 DEF Draining
    <3>2. Pausing' = Pausing
      BY <1>a, <2>1, <2>2 DEF Pausing
    <3>3. draining' = Cardinality(Draining')
      BY <1>a, <1>b, <2>2, <3>1, CountUp DEF CallsCounted
    <3> QED
      BY <1>a, <2>1, <3>2, <3>3 DEF CallsCounted
  <2>3. CASE UNCHANGED <<draining, cpc>>
    BY <1>1, <2>1, <2>3 DEF Draining, Pausing
  <2> QED
    BY <1>3, <2>2, <2>3 DEF DrainBegin, SleepCounted
<1>4. ASSUME NEW c \in Clients, DrainReturn(c) PROVE CallsCounted'
  <2>1. Draining' = Draining \ {c} /\ c \in Draining
    BY <1>a, <1>4 DEF DrainReturn, Draining
  <2>2. Pausing' = Pausing
    BY <1>a, <1>4 DEF DrainReturn, Pausing
  <2>3. draining' = draining - 1 /\ UNCHANGED <<pause, pausers>>
    BY <1>4 DEF DrainReturn
  <2>4. draining' = Cardinality(Draining')
    BY <1>a, <1>b, <2>1, <2>3, CountDown DEF CallsCounted
  <2> QED
    BY <1>a, <2>2, <2>3, <2>4 DEF CallsCounted
<1>5. ASSUME NEW c \in Clients, PauseBegin(c) PROVE CallsCounted'
  <2>1. Draining' = Draining
    BY <1>a, <1>5 DEF PauseBegin, MayCall, Draining
  <2>2. (pausers \cup Pausing)' = (pausers \cup Pausing) \cup {c}
    BY <1>a, <1>5 DEF PauseBegin, MayCall, Pausing
  <2>3. c \notin pausers \cup Pausing /\ (pausers \cap Pausing)' = {}
    BY <1>a, <1>5 DEF CallsCounted, PauseBegin, MayCall, Pausing
  <2>4. pause' = pause + 1 /\ UNCHANGED draining
    BY <1>5 DEF PauseBegin
  <2>5. pause' = Cardinality((pausers \cup Pausing)')
    BY <1>a, <1>b, <2>2, <2>3, <2>4, CountUp DEF CallsCounted
  <2> QED
    BY <1>a, <2>1, <2>3, <2>4, <2>5 DEF CallsCounted
<1>6. ASSUME NEW c \in Clients, PauseReturn(c) PROVE CallsCounted'
  <2>1. Draining' = Draining
    BY <1>a, <1>6 DEF PauseReturn, Draining
  <2>2. (pausers \cup Pausing)' = pausers \cup Pausing
    BY <1>a, <1>6 DEF PauseReturn, Pausing
  <2>3. (pausers \cap Pausing)' = {}
    BY <1>a, <1>6 DEF CallsCounted, PauseReturn, Pausing
  <2>4. UNCHANGED <<pause, draining>>
    BY <1>6 DEF PauseReturn
  <2> QED
    BY <1>a, <2>1, <2>2, <2>3, <2>4 DEF CallsCounted
<1>7. ASSUME NEW c \in Clients, Unpause(c) PROVE CallsCounted'
  <2>1. Draining' = Draining /\ Pausing' = Pausing
    BY <1>7 DEF Unpause, Draining, Pausing
  <2>2. /\ c \in pausers \cup Pausing /\ c \notin Pausing
        /\ pausers' = pausers \ {c}
        /\ pause' = pause - 1
        /\ UNCHANGED draining
    BY <1>7 DEF Unpause, MayCall, Pausing
  <2>3. (pausers \cup Pausing)' = (pausers \cup Pausing) \ {c}
    BY <2>1, <2>2
  <2>4. pause' = Cardinality((pausers \cup Pausing)')
    BY <1>a, <1>b, <2>2, <2>3, CountDown DEF CallsCounted
  <2> QED
    BY <1>a, <2>1, <2>2, <2>4 DEF CallsCounted
<1>8. ASSUME NEW c \in Clients,
             Lock(c) \/ Unlock(c) \/ CondWait(c) \/ CondReturn(c)
      PROVE  CallsCounted'
  <2>1. Draining' = Draining
    BY <1>a, <1>8 DEF Lock, Unlock, CondWait, CondReturn, MayCall, Draining
  <2>2. Pausing' = Pausing
    BY <1>a, <1>8 DEF Lock, Unlock, CondWait, CondReturn, MayCall, Pausing
  <2> QED
    BY <1>1, <1>8, <2>1, <2>2 DEF Lock, Unlock, CondWait, CondReturn
<1>9. ASSUME NEW c \in Clients, ClientNext(c) PROVE CallsCounted'
  BY <1>2, <1>3, <1>4, <1>5, <1>6, <1>7, <1>8, <1>9
     DEF ClientNext, AddQueue, RemoveQueue, Queue, QueueFront, Submit,
         WaitAgain, Wake, SpuriousWakeup
<1>10. ASSUME AdminNext PROVE CallsCounted'
  <2>1. UNCHANGED <<pause, draining, pausers>>
    BY <1>10 DEF AdminNext, Start, StopBegin, StopJoin, StopEnd
  <2>2. Draining' = Draining
    BY <1>a, <1>10 DEF AdminNext, Start, StopBegin, StopJoin, StopEnd, MayCall,
                       Draining
  <2>3. Pausing' = Pausing
    BY <1>a, <1>10 DEF AdminNext, Start, StopBegin, StopJoin, StopEnd, MayCall,
                       Pausing
  <2> QED
    BY <1>1, <2>1, <2>2, <2>3
<1>11. ASSUME NEW w \in Workers, WorkerNext(w) PROVE CallsCounted'
  BY <1>2, <1>11, WorkerFrame
<1>12. CASE UNCHANGED vars
  BY <1>2, <1>12 DEF vars
<1> QED
  BY <1>9, <1>10, <1>11, <1>12 DEF Next

=============================================================================
