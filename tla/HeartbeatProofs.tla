--------------------------- MODULE HeartbeatProofs ---------------------------
(***************************************************************************)
(* Proofs about ThreadBase and Heartbeat, for any number of objects,       *)
(* pthread ids, workers and monitors and for all delays and graces.        *)
(*                                                                         *)
(* Three inductive invariants, each on a part of the state of its own: who *)
(* has which pthread id, which handles are in the list, and how much time  *)
(* every worker has left at each place of its loop.                        *)
(***************************************************************************)
EXTENDS Heartbeat, SequenceTheorems, TLAPS

-----------------------------------------------------------------------------
(* Threads and their ids.                                                  *)

ThreadTypeOK ==
  /\ thread_id \in [Objects -> PthreadIds \cup {None}]
  /\ obj \in [PthreadIds -> Objects \cup {None}]
  /\ state \in [PthreadIds -> {"created", "running", "ended"}]
  /\ detached \subseteq PthreadIds
  /\ let_go \subseteq Objects

\* OwnThread, and: a thread that runs detached belongs to an object that was
\* let go, so that the id it frees when it ends is nobody's to join.
ThreadInv ==
  /\ ThreadTypeOK
  /\ OwnThread
  /\ \A i \in detached : obj[i] \in let_go

ownVars == <<thread_id, obj, detached, let_go>>

\* What does not touch the ids and their owners preserves the invariant.
LEMMA ThreadFrame ==
  ASSUME ThreadInv, UNCHANGED ownVars,
         state' \in [PthreadIds -> {"created", "running", "ended"}]
  PROVE  ThreadInv'
BY DEF ThreadInv, ThreadTypeOK, OwnThread, ownVars

\* Every operation of ThreadBase preserves ThreadInv.
LEMMA ThreadStep ==
  ASSUME ThreadInv, NEW o \in Objects, ObjectNext(o)
  PROVE  ThreadInv'
<1> USE NoneAssumption
<1>1. CASE Create(o)
  BY <1>1 DEF Create, ThreadInv, ThreadTypeOK, OwnThread
<1>2. CASE CreateFails(o)
  BY <1>2, ThreadFrame
     DEF CreateFails, threadVars, fieldVars, pthreadVars, ownVars, ThreadInv, ThreadTypeOK
<1>3. CASE Join(o)
  <2>1. CASE thread_id[o] = None
    BY <1>3, <2>1, ThreadFrame
       DEF Join, threadVars, fieldVars, pthreadVars, ownVars, ThreadInv, ThreadTypeOK
  <2>2. CASE thread_id[o] # None
    BY <1>3, <2>2 DEF Join, Free, ResetThreadId, ThreadInv, ThreadTypeOK, OwnThread
  <2> QED BY <2>1, <2>2
<1>4. CASE Detach(o)
  <2>1. CASE state[thread_id[o]] = "ended"
    BY <1>4, <2>1 DEF Detach, Free, fieldVars, ThreadInv, ThreadTypeOK, OwnThread
  <2>2. CASE state[thread_id[o]] # "ended"
    BY <1>4, <2>2 DEF Detach, fieldVars, ThreadInv, ThreadTypeOK, OwnThread
  <2> QED BY <2>1, <2>2
<1>5. CASE Kill(o)
  BY <1>5, ThreadFrame DEF Kill, fieldVars, ownVars, ThreadInv, ThreadTypeOK
<1>6. ASSUME NEW i \in PthreadIds, obj[i] = o, EntryWrapper(i)
      PROVE  ThreadInv'
  BY <1>6, ThreadFrame DEF EntryWrapper, ownVars, ThreadInv, ThreadTypeOK
<1>7. ASSUME NEW i \in PthreadIds, obj[i] = o, Exit(i)
      PROVE  ThreadInv'
  <2>1. CASE i \in detached
    BY <1>7, <2>1 DEF Exit, Free, fieldVars, ThreadInv, ThreadTypeOK, OwnThread
  <2>2. CASE i \notin detached
    BY <1>7, <2>2, ThreadFrame DEF Exit, fieldVars, ownVars, ThreadInv, ThreadTypeOK
  <2> QED BY <2>1, <2>2
<1>8. ASSUME NEW i \in PthreadIds, NEW cpu \in Cpus, SetCpuAffinity(i, cpu)
      PROVE  ThreadInv'
  BY <1>8, ThreadFrame DEF SetCpuAffinity, fieldVars, ownVars, ThreadInv, ThreadTypeOK
<1> QED BY <1>1, <1>2, <1>3, <1>4, <1>5, <1>6, <1>7, <1>8 DEF ObjectNext

\* An object has no thread at first.
LEMMA ThreadStart == ThreadInit => ThreadInv
BY NoneAssumption DEF ThreadInit, ThreadInv, ThreadTypeOK, OwnThread

\* join() and kill() of ThreadBase reach the object's own thread, whatever
\* other objects create, join and detach meanwhile.
THEOREM OwnThreadAlways == ThreadSpec => []OwnThread
<1>1. ThreadInv /\ [ThreadNext]_<<threadVars, aborted>> => ThreadInv'
  <2> SUFFICES ASSUME ThreadInv, [ThreadNext]_<<threadVars, aborted>> PROVE ThreadInv'
    OBVIOUS
  <2>1. CASE ThreadNext
    BY <2>1, ThreadStep DEF ThreadNext
  <2>2. CASE UNCHANGED <<threadVars, aborted>>
    BY <2>2, ThreadFrame DEF threadVars, pthreadVars, fieldVars, ownVars, ThreadInv, ThreadTypeOK
  <2> QED BY <2>1, <2>2
<1>2. ThreadInv => OwnThread
  BY DEF ThreadInv
<1> QED BY ThreadStart, <1>1, <1>2, PTL DEF ThreadSpec

-----------------------------------------------------------------------------
(* The handles in the list.                                                *)

\* Removing one entry moves up those behind it and changes nothing else.
LEMMA RemoveAtFact ==
  ASSUME NEW S, NEW s \in Seq(S), NEW k \in 1 .. Len(s)
  PROVE  /\ RemoveAt(s, k) \in Seq(S)
         /\ Len(RemoveAt(s, k)) = Len(s) - 1
         /\ \A j \in 1 .. Len(s) - 1 :
              RemoveAt(s, k)[j] = s[IF j < k THEN j ELSE j + 1]
<1> DEFINE a == SubSeq(s, 1, k - 1)
           b == SubSeq(s, k + 1, Len(s))
<1>1. a \in Seq(S) /\ Len(a) = k - 1 /\ \A j \in 1 .. k - 1 : a[j] = s[j]
  BY SubSeqProperties
<1>2. /\ b \in Seq(S) /\ Len(b) = Len(s) - k
      /\ \A j \in 1 .. Len(s) - k : b[j] = s[k + j]
  BY SubSeqProperties
<1>3. RemoveAt(s, k) = a \o b
  BY DEF RemoveAt
<1> HIDE DEF a, b
<1>4. /\ a \o b \in Seq(S)
      /\ Len(a \o b) = Len(s) - 1
      /\ \A j \in 1 .. Len(s) - 1 : (a \o b)[j] = IF j <= k - 1 THEN a[j] ELSE b[j - (k - 1)]
  BY <1>1, <1>2, ConcatProperties
<1>5. ASSUME NEW j \in 1 .. Len(s) - 1
      PROVE  (a \o b)[j] = s[IF j < k THEN j ELSE j + 1]
  <2>1. CASE j < k
    BY <1>1, <1>4, <2>1
  <2>2. CASE ~(j < k)
    <3>1. j - (k - 1) \in 1 .. Len(s) - k /\ k + (j - (k - 1)) = j + 1
      BY <2>2
    <3> QED BY <1>2, <1>4, <2>2, <3>1
  <2> QED BY <2>1, <2>2
<1> QED BY <1>3, <1>4, <1>5

Places == {"out", "loop", "to sleep", "asleep", "to work", "working", "left"}

\* The worker is between add_worker() and remove_worker().
Inside(w) == wpc[w] \in Places \ {"out", "left"}

Listed(w) == \E j \in 1 .. Len(m_workers) : m_workers[j] = w

ScanRecord == [age : Nat, rest : Seq(Workers), loaded : BOOLEAN, unhealthy : Nat,
               total : Nat]

\* The list has each worker once, between its add_worker() and remove_worker().
ListInv ==
  /\ wpc \in [Workers -> Places]
  /\ m_workers \in Seq(Workers)
  /\ \A j \in 1 .. Len(m_workers) : Inside(m_workers[j])
  /\ \A j, k \in 1 .. Len(m_workers) : m_workers[j] = m_workers[k] => j = k

\* A worker inside runs in the thread whose id its handle has.
HandleInv ==
  /\ handle_id \in [Workers -> PthreadIds \cup {None}]
  /\ \A w \in Workers :
       Inside(w) => /\ handle_id[w] \in PthreadIds
                    /\ obj[handle_id[w]] = w
                    /\ state[handle_id[w]] = "running"

\* What a scan has still to look at is in the list.
ScanInv ==
  /\ scan \in [Monitors -> {None} \cup ScanRecord]
  /\ \A m \in Monitors :
       scan[m] # None =>
         /\ scan[m].loaded => scan[m].rest # <<>>
         /\ \A j \in 1 .. Len(scan[m].rest) : Listed(scan[m].rest[j])

AliveInv == ThreadInv /\ ListInv /\ HandleInv /\ ScanInv

\* A step that leaves the list alone and lets nobody out.
LEMMA ListFrame ==
  ASSUME ListInv, UNCHANGED m_workers, wpc' \in [Workers -> Places],
         \A w \in Workers : Inside(w) => Inside(w)'
  PROVE  ListInv'
<1>1. \A j \in 1 .. Len(m_workers) : m_workers[j] \in Workers
  BY ElementOfSeq DEF ListInv
<1> QED BY <1>1 DEF ListInv

\* A step that lets nobody in and keeps the threads of those inside.
LEMMA HandleFrame ==
  ASSUME HandleInv, UNCHANGED handle_id,
         \A w \in Workers : Inside(w)' => Inside(w),
         \A w \in Workers, i \in PthreadIds :
           Inside(w) /\ obj[i] = w /\ state[i] = "running"
             => obj'[i] = w /\ state'[i] = "running"
  PROVE  HandleInv'
BY DEF HandleInv

\* A step that leaves the list and the scans alone.
LEMMA ScanFrame ==
  ASSUME ScanInv, UNCHANGED <<scan, m_workers>>
  PROVE  ScanInv'
BY DEF ScanInv, Listed

\* A worker that goes on inside.
LEMMA GoesOn ==
  ASSUME ListInv, HandleInv, ScanInv, NEW w \in Workers, Inside(w),
         NEW p \in Places \ {"out", "left"}, wpc' = [wpc EXCEPT ![w] = p],
         UNCHANGED <<m_workers, handle_id, obj, state, scan>>
  PROVE  ListInv' /\ HandleInv' /\ ScanInv'
<1>1. wpc' \in [Workers -> Places] /\ \A u \in Workers : Inside(u) <=> Inside(u)'
  BY DEF ListInv, Inside, Places
<1> QED BY <1>1, ListFrame, HandleFrame, ScanFrame

\* A step of something else.
LEMMA StaysPut ==
  ASSUME ListInv, HandleInv, ScanInv,
         UNCHANGED <<m_workers, handle_id, obj, state, scan, wpc>>
  PROVE  ListInv' /\ HandleInv' /\ ScanInv'
<1>1. wpc' \in [Workers -> Places] /\ \A u \in Workers : Inside(u) <=> Inside(u)'
  BY DEF ListInv, Inside
<1> QED BY <1>1, ListFrame, HandleFrame, ScanFrame

\* add_worker() puts a new worker in front of the list.
LEMMA AddKeepsAlive ==
  ASSUME ListInv, HandleInv, ScanInv, NEW w \in Workers, AddWorker(w)
  PROVE  ListInv' /\ HandleInv' /\ ScanInv'
<1>1. /\ wpc[w] = "out" /\ wpc' = [wpc EXCEPT ![w] = "loop"]
      /\ m_workers' = <<w>> \o m_workers
      /\ UNCHANGED <<obj, state, scan>>
      /\ \A m \in Monitors : scan[m] = None
  BY DEF AddWorker, Goto, Scanned, threadVars, pthreadVars
<1>2. PICK i \in PthreadIds : /\ obj[i] = w /\ state[i] = "running"
                              /\ handle_id' = [handle_id EXCEPT ![w] = i]
  BY DEF AddWorker
<1>3. /\ m_workers' \in Seq(Workers)
      /\ Len(m_workers') = Len(m_workers) + 1
      /\ m_workers'[1] = w
      /\ \A j \in 2 .. Len(m_workers) + 1 : m_workers'[j] = m_workers[j - 1]
  <2>1. m_workers \in Seq(Workers)
    BY DEF ListInv
  <2>2. <<w>> \in Seq(Workers) /\ Len(<<w>>) = 1 /\ <<w>>[1] = w
    OBVIOUS
  <2> QED BY <1>1, <2>1, <2>2, ConcatProperties
<1>4. \A u \in Workers : Inside(u)' <=> Inside(u) \/ u = w
  BY <1>1 DEF Inside, Places, ListInv
<1>5. \A j \in 1 .. Len(m_workers) : m_workers[j] \in Workers /\ m_workers[j] # w
  BY <1>1, ElementOfSeq DEF ListInv, Inside, Places
<1>6. ListInv'
  <2>1. wpc' \in [Workers -> Places]
    BY <1>1 DEF ListInv, Places
  <2>2. (\A j \in 1 .. Len(m_workers) : Inside(m_workers[j]))'
    <3> SUFFICES ASSUME NEW j \in 1 .. Len(m_workers) + 1
                 PROVE  wpc'[m_workers'[j]] \in Places \ {"out", "left"}
      BY <1>3 DEF Inside
    <3>1. CASE j = 1
      BY <3>1, <1>3, <1>4 DEF Inside
    <3>2. CASE j # 1
      <4>1. j - 1 \in 1 .. Len(m_workers)
        BY <3>2 DEF ListInv
      <4> QED BY <1>3, <1>4, <1>5, <3>2, <4>1 DEF ListInv, Inside
    <3> QED BY <3>1, <3>2
  <2>3. \A j, k \in 1 .. Len(m_workers') : m_workers'[j] = m_workers'[k] => j = k
    <3> SUFFICES ASSUME NEW j \in 1 .. Len(m_workers) + 1, NEW k \in 1 .. Len(m_workers) + 1,
                        m_workers'[j] = m_workers'[k]
                 PROVE  j = k
      BY <1>3
    <3>1. Len(m_workers) \in Nat
      BY DEF ListInv
    <3>2. CASE j = 1 \/ k = 1
      BY <3>1, <3>2, <1>3, <1>5
    <3>3. CASE j # 1 /\ k # 1
      <4>1. j - 1 \in 1 .. Len(m_workers) /\ k - 1 \in 1 .. Len(m_workers)
        BY <3>1, <3>3
      <4>2. m_workers[j - 1] = m_workers[k - 1]
        BY <3>1, <3>3, <1>3
      <4> QED BY <4>1, <4>2 DEF ListInv
    <3> QED BY <3>2, <3>3
  <2> QED BY <1>3, <2>1, <2>2, <2>3 DEF ListInv
<1>7. HandleInv'
  BY <1>1, <1>2, <1>4 DEF HandleInv
<1>8. ScanInv'
  BY <1>1 DEF ScanInv
<1> QED BY <1>6, <1>7, <1>8

\* remove_worker() takes the one entry of the worker out of the list.
LEMMA RemoveKeepsAlive ==
  ASSUME ListInv, HandleInv, ScanInv, NEW w \in Workers, RemoveWorker(w)
  PROVE  ListInv' /\ HandleInv' /\ ScanInv'
<1>1. /\ wpc[w] = "loop" /\ wpc' = [wpc EXCEPT ![w] = "left"]
      /\ handle_id' = [handle_id EXCEPT ![w] = None]
      /\ UNCHANGED <<obj, state, scan>>
      /\ \A m \in Monitors : scan[m] = None
  BY DEF RemoveWorker, Goto, Scanned, threadVars, pthreadVars
<1>2. PICK k \in 1 .. Len(m_workers) :
        m_workers[k] = w /\ m_workers' = RemoveAt(m_workers, k)
  BY LenProperties DEF RemoveWorker, DropEntry, ListInv
<1>3. /\ m_workers' \in Seq(Workers)
      /\ Len(m_workers') = Len(m_workers) - 1
      /\ \A j \in 1 .. Len(m_workers) - 1 :
           m_workers'[j] = m_workers[IF j < k THEN j ELSE j + 1]
  BY <1>2, RemoveAtFact DEF ListInv
<1>4. \A u \in Workers : Inside(u)' <=> Inside(u) /\ u # w
  BY <1>1 DEF Inside, Places, ListInv
<1>5. Len(m_workers) \in Nat /\ \A j \in 1 .. Len(m_workers) : m_workers[j] \in Workers
  BY ElementOfSeq DEF ListInv
<1>6. ListInv'
  <2>1. wpc' \in [Workers -> Places]
    BY <1>1 DEF ListInv, Places
  <2>2. (\A j \in 1 .. Len(m_workers) : Inside(m_workers[j]))'
    <3> SUFFICES ASSUME NEW j \in 1 .. Len(m_workers) - 1
                 PROVE  wpc'[m_workers'[j]] \in Places \ {"out", "left"}
      BY <1>3 DEF Inside
    <3>1. PICK i \in 1 .. Len(m_workers) : i # k /\ m_workers'[j] = m_workers[i]
      <4>1. CASE j < k
        BY <4>1, <1>3, <1>5
      <4>2. CASE ~(j < k)
        <5>1. j + 1 \in 1 .. Len(m_workers) /\ j + 1 # k
          BY <4>2, <1>5
        <5> QED BY <4>2, <5>1, <1>3
      <4> QED BY <4>1, <4>2
    <3>2. m_workers[i] # w /\ Inside(m_workers[i]) /\ m_workers[i] \in Workers
      BY <1>2, <1>5, <3>1 DEF ListInv
    <3> QED BY <1>4, <3>1, <3>2 DEF Inside
  <2>3. \A i, j \in 1 .. Len(m_workers') : m_workers'[i] = m_workers'[j] => i = j
    <3> SUFFICES ASSUME NEW i \in 1 .. Len(m_workers) - 1, NEW j \in 1 .. Len(m_workers) - 1,
                        m_workers'[i] = m_workers'[j]
                 PROVE  i = j
      BY <1>3
    <3>1. (IF i < k THEN i ELSE i + 1) = (IF j < k THEN j ELSE j + 1)
      <4>1. /\ (IF i < k THEN i ELSE i + 1) \in 1 .. Len(m_workers)
            /\ (IF j < k THEN j ELSE j + 1) \in 1 .. Len(m_workers)
        BY <1>5
      <4> QED BY <1>3, <4>1 DEF ListInv
    <3> QED BY <1>5, <3>1
  <2> QED BY <1>3, <2>1, <2>2, <2>3 DEF ListInv
<1>7. HandleInv'
  BY <1>1, <1>4 DEF HandleInv
<1>8. ScanInv'
  BY <1>1 DEF ScanInv
<1> QED BY <1>6, <1>7, <1>8

\* What create(), join(), detach(), kill() and the start of a thread do to a
\* thread that runs: nothing.
LEMMA StillRuns ==
  ASSUME ThreadInv, NEW o \in Objects, NEW i \in PthreadIds, obj[i] # None, state[i] = "running",
         \/ Create(o) \/ CreateFails(o) \/ Join(o) \/ Detach(o) \/ Kill(o)
         \/ \E k \in PthreadIds : EntryWrapper(k)
  PROVE  obj'[i] = obj[i] /\ state'[i] = "running"
<1> USE NoneAssumption
<1>1. CASE Create(o)
  BY <1>1 DEF Create, ThreadInv, ThreadTypeOK
<1>2. CASE CreateFails(o) \/ Kill(o)
  BY <1>2 DEF CreateFails, Kill, threadVars, pthreadVars
<1>3. CASE Join(o)
  BY <1>3 DEF Join, Free, threadVars, pthreadVars, ThreadInv, ThreadTypeOK
<1>4. CASE Detach(o)
  BY <1>4 DEF Detach, Free, ThreadInv, ThreadTypeOK
<1>5. ASSUME NEW k \in PthreadIds, EntryWrapper(k)
      PROVE  obj'[i] = obj[i] /\ state'[i] = "running"
  BY <1>5 DEF EntryWrapper, ThreadInv, ThreadTypeOK
<1> QED BY <1>1, <1>2, <1>3, <1>4, <1>5

\* The end of one thread leaves the others running.
LEMMA OthersRun ==
  ASSUME ThreadInv, NEW k \in PthreadIds, Exit(k),
         NEW i \in PthreadIds, i # k, obj[i] # None, state[i] = "running"
  PROVE  obj'[i] = obj[i] /\ state'[i] = "running"
BY DEF Exit, Free, ThreadInv, ThreadTypeOK

\* Whatever is done with an object, the threads of the others run on.
LEMMA ThreadKeepsRunning ==
  ASSUME ThreadInv, NEW o \in Objects, ObjectNext(o),
         NEW i \in PthreadIds, obj[i] # None, obj[i] # o, state[i] = "running"
  PROVE  obj'[i] = obj[i] /\ state'[i] = "running"
<1>1. ASSUME NEW k \in PthreadIds, obj[k] = o, Exit(k)
      PROVE  obj'[i] = obj[i] /\ state'[i] = "running"
  BY <1>1, OthersRun
<1>2. ASSUME NEW k \in PthreadIds, NEW cpu \in Cpus, SetCpuAffinity(k, cpu)
      PROVE  obj'[i] = obj[i] /\ state'[i] = "running"
  BY <1>2 DEF SetCpuAffinity
<1> QED BY <1>1, <1>2, StillRuns DEF ObjectNext

\* What is done with a worker's thread keeps the handles alive.
LEMMA WorkerThreadKeepsAlive ==
  ASSUME AliveInv, NEW w \in Workers, WorkerThread(w)
  PROVE  AliveInv'
<1> USE NoneAssumption, WorkersAreObjects
<1>1. UNCHANGED <<m_workers, handle_id, scan>>
  BY DEF WorkerThread, mapVars
<1>2. ThreadInv'
  <2>1. ObjectNext(w)
    BY DEF WorkerThread, ObjectNext
  <2> QED BY <2>1, ThreadStep DEF AliveInv
<1>3. /\ wpc' \in [Workers -> Places]
      /\ \A u \in Workers : Inside(u)' <=> Inside(u)
      /\ \A u \in Workers, i \in PthreadIds :
           Inside(u) /\ obj[i] = u /\ state[i] = "running"
             => obj'[i] = u /\ state'[i] = "running"
  <2>1. CASE UNCHANGED wpc /\ (\/ Create(w) \/ CreateFails(w) \/ Join(w)
                               \/ \E k \in PthreadIds : EntryWrapper(k))
    <3>1. wpc' \in [Workers -> Places] /\ \A u \in Workers : Inside(u)' <=> Inside(u)
      BY <2>1 DEF Inside, AliveInv, ListInv
    <3>2. \A u \in Workers, i \in PthreadIds :
           Inside(u) /\ obj[i] = u /\ state[i] = "running"
             => obj'[i] = u /\ state'[i] = "running"
      BY <2>1, StillRuns DEF AliveInv
    <3> QED BY <3>1, <3>2
  <2>2. ASSUME NEW k \in PthreadIds, obj[k] = w, Exit(k), wpc[w] = "left",
               wpc' = [wpc EXCEPT ![w] = "out"]
        PROVE  <1>3!1 /\ <1>3!2 /\ <1>3!3
    <3>1. wpc' \in [Workers -> Places] /\ \A u \in Workers : Inside(u)' <=> Inside(u)
      BY <2>2 DEF Inside, Places, AliveInv, ListInv
    <3>2. ASSUME NEW u \in Workers, NEW i \in PthreadIds, Inside(u), obj[i] = u,
                 state[i] = "running"
          PROVE  obj'[i] = u /\ state'[i] = "running"
      <4>1. i # k /\ obj[i] # None
        BY <2>2, <3>2 DEF Inside
      <4> QED BY <2>2, <3>2, <4>1, OthersRun DEF AliveInv
    <3> QED BY <3>1, <3>2
  <2> QED BY <2>1, <2>2 DEF WorkerThread, Goto, workerVars
<1>4. ListInv'
  BY <1>1, <1>3, ListFrame DEF AliveInv
<1>5. HandleInv'
  BY <1>1, <1>3, HandleFrame DEF AliveInv
<1>6. ScanInv'
  BY <1>1, ScanFrame DEF AliveInv
<1> QED BY <1>2, <1>4, <1>5, <1>6 DEF AliveInv

\* So does what others do with objects that are not workers.
LEMMA OtherThreadKeepsAlive ==
  ASSUME AliveInv, NEW o \in Objects, OtherThread(o)
  PROVE  AliveInv'
<1> USE NoneAssumption, WorkersAreObjects
<1>1. UNCHANGED <<m_workers, handle_id, scan, wpc>> /\ ObjectNext(o) /\ o \notin Workers
  BY DEF OtherThread, mapVars, workerVars
<1>2. ThreadInv'
  BY <1>1, ThreadStep DEF AliveInv
<1>3. wpc' \in [Workers -> Places] /\ \A u \in Workers : Inside(u)' <=> Inside(u)
  BY <1>1 DEF Inside, AliveInv, ListInv
<1>4. \A u \in Workers, i \in PthreadIds :
        Inside(u) /\ obj[i] = u /\ state[i] = "running"
          => obj'[i] = u /\ state'[i] = "running"
  BY <1>1, ThreadKeepsRunning DEF AliveInv
<1>5. ListInv'
  BY <1>1, <1>3, ListFrame DEF AliveInv
<1>6. HandleInv'
  BY <1>1, <1>3, <1>4, HandleFrame DEF AliveInv
<1>7. ScanInv'
  BY <1>1, ScanFrame DEF AliveInv
<1> QED BY <1>2, <1>5, <1>6, <1>7 DEF AliveInv

-----------------------------------------------------------------------------
(* The time a worker has left.                                             *)

Time == Int \cup {None}
Renewal == [timeout : Time, suicide : Time]
Renewing == {"to sleep", "to work"}

\* A worker at the place pl that has to go on within d, with the suicide
\* deadline st set by ab, about to store rn.  What an idle worker has left is
\* the grace of the pool less the stretches of its way that lie behind it: one
\* Delay to store the deadline, the sleep, one Delay to come back into the
\* loop, one Delay until the deadline is replaced.
WorkerOK(pl, d, st, ab, rn) ==
  /\ pl \in Places /\ d \in Time /\ st \in Time /\ ab \in {"idle", "item"}
  /\ rn # None => rn \in Renewal /\ pl \in Renewing
  /\ pl \in {"loop"} \cup Renewing => d \in 0 .. Delay
  /\ pl = "asleep" => d \in 0 .. Sleep
  /\ pl = "working" => ab = "item"
  /\ pl \in {"out", "left"} => st = None
  /\ rn # None /\ st # None => st >= d - Delay
  /\ pl = "to sleep" /\ rn # None => \/ rn.suicide = None
                                     \/ rn.suicide >= TpSuicide - Delay + d
  /\ ab = "idle" /\ st # None =>
       /\ pl = "asleep" => st >= TpSuicide - Delay - Sleep + d
       /\ pl = "loop" => st >= TpSuicide - 2 * Delay - Sleep + d
       /\ pl \in Renewing => st >= TpSuicide - 3 * Delay - Sleep + d

TimerInv ==
  /\ wpc \in [Workers -> Places]
  /\ due \in [Workers -> Time]
  /\ suicide_timeout \in [Workers -> Time]
  /\ armed_by \in [Workers -> {"idle", "item"}]
  /\ renewal \in [Workers -> {None} \cup Renewal]
  /\ \A w \in Workers :
       WorkerOK(wpc[w], due[w], suicide_timeout[w], armed_by[w], renewal[w])

timerVars == <<wpc, due, suicide_timeout, armed_by, renewal>>

\* Nobody's time changes.
LEMMA TimerFrame ==
  ASSUME TimerInv, UNCHANGED timerVars
  PROVE  TimerInv'
BY DEF TimerInv, timerVars

\* One worker moves.
LEMMA OneWorker ==
  ASSUME TimerInv, NEW w \in Workers,
         NEW pl, NEW d, NEW st, NEW ab, NEW rn, WorkerOK(pl, d, st, ab, rn),
         rn \in {None} \cup Renewal,
         wpc' = [wpc EXCEPT ![w] = pl], due' = [due EXCEPT ![w] = d],
         suicide_timeout' = [suicide_timeout EXCEPT ![w] = st],
         armed_by' = [armed_by EXCEPT ![w] = ab],
         renewal' = [renewal EXCEPT ![w] = rn]
  PROVE  TimerInv'
<1>1. pl \in Places /\ d \in Time /\ st \in Time /\ ab \in {"idle", "item"}
  BY DEF WorkerOK
<1>2. \A u \in Workers :
        WorkerOK(wpc'[u], due'[u], suicide_timeout'[u], armed_by'[u], renewal'[u])
  BY DEF TimerInv
<1> QED BY <1>1, <1>2 DEF TimerInv

\* One worker goes to another place with the deadlines it has.
LEMMA OneMove ==
  ASSUME TimerInv, NEW w \in Workers, NEW pl, NEW d,
         WorkerOK(pl, d, suicide_timeout[w], armed_by[w], renewal[w]),
         wpc' = [wpc EXCEPT ![w] = pl], due' = [due EXCEPT ![w] = d],
         UNCHANGED <<suicide_timeout, armed_by, renewal>>
  PROVE  TimerInv'
<1>1. pl \in Places /\ d \in Time
  BY DEF WorkerOK
<1>2. \A u \in Workers :
        WorkerOK(wpc'[u], due'[u], suicide_timeout'[u], armed_by'[u], renewal'[u])
  BY DEF TimerInv
<1> QED BY <1>1, <1>2 DEF TimerInv

\* A function is itself with one value put where it is.
LEMMA ExceptSame ==
  ASSUME NEW S, NEW T, NEW f \in [S -> T], NEW x \in S
  PROVE  f = [f EXCEPT ![x] = f[x]]
OBVIOUS

\* The assumption on the times, one by one.
LEMMA DelaysArePositive ==
  Delay \in Nat \ {0} /\ Sleep \in Nat \ {0} /\ TpSuicide \in Nat /\ TpGrace \in Nat
BY TimesAreNatural

\* A tick takes at most one from every time that is left.
LEMMA DownFact ==
  ASSUME NEW t \in Time
  PROVE  /\ Down(t) \in Time
         /\ t = None <=> Down(t) = None
         /\ t # None => Down(t) \in {t, t - 1}
         /\ t # None /\ t >= -Delay => Down(t) = t - 1
<1>1. CASE t = None
  BY <1>1 DEF Down
<1>2. CASE t # None
  BY <1>2, DelaysArePositive, NoneAssumption DEF Down, Time
<1> QED BY <1>1, <1>2

\* What is above a bound stays above it while the bound goes down as well.
LEMMA KeepsAbove ==
  ASSUME NEW x \in Int, NEW d \in Int, NEW F \in Int, x >= F + d, Down(d) = d - 1
  PROVE  Down(x) >= F + Down(d)
<1>1. Down(x) \in {x, x - 1}
  BY DownFact, NoneAssumption DEF Time
<1> QED BY <1>1

\* A tick leaves every worker that need not go on at once as it should be.
LEMMA TickOK ==
  ASSUME NEW pl, NEW d, NEW st, NEW ab, NEW rn, WorkerOK(pl, d, st, ab, rn), d # 0
  PROVE  WorkerOK(pl, Down(d), Down(st), ab, Later(rn))
<1> USE DelaysArePositive, NoneAssumption
<1>1. pl \in Places /\ d \in Time /\ st \in Time /\ ab \in {"idle", "item"}
  BY DEF WorkerOK
<1>2. /\ Down(d) \in Time /\ Down(st) \in Time
      /\ d = None <=> Down(d) = None
      /\ st = None <=> Down(st) = None
      /\ st # None => Down(st) \in Int /\ Down(st) >= st - 1
  BY <1>1, DownFact DEF Time
<1>3. pl \in {"loop"} \cup Renewing =>
        d \in Int /\ Down(d) \in 0 .. Delay /\ Down(d) = d - 1
  <2> HAVE pl \in {"loop"} \cup Renewing
  <2>1. d \in 0 .. Delay
    BY DEF WorkerOK
  <2>2. Down(d) = d - 1
    BY <2>1, DownFact DEF Time
  <2> QED BY <2>1, <2>2
<1>4. pl = "asleep" => Down(d) \in 0 .. Sleep /\ Down(d) = d - 1
  <2> HAVE pl = "asleep"
  <2>1. d \in 0 .. Sleep
    BY DEF WorkerOK
  <2>2. Down(d) = d - 1
    BY <2>1, DownFact DEF Time
  <2> QED BY <2>1, <2>2
<1>5. rn # None /\ Later(rn) # None =>
        /\ Later(rn) \in Renewal
        /\ Later(rn).suicide = Down(rn.suicide)
  BY DownFact DEF WorkerOK, Later, Renewal
<1>6. rn = None => Later(rn) = None
  BY DEF Later
<1>6a. TpSuicide - Delay \in Int
  OBVIOUS
<1>6b. pl = "to sleep" => Down(d) = d - 1 /\ d \in Int
  <2>1. pl = "to sleep" => pl \in {"loop"} \cup Renewing
    BY DEF Renewing
  <2> QED BY <1>3, <2>1
<1>7. pl = "to sleep" /\ Later(rn) # None =>
        \/ Later(rn).suicide = None
        \/ Later(rn).suicide >= TpSuicide - Delay + Down(d)
  <2> SUFFICES ASSUME pl = "to sleep", Later(rn) # None, rn.suicide # None
               PROVE  Down(rn.suicide) >= TpSuicide - Delay + Down(d)
    <3> SUFFICES ASSUME pl = "to sleep", Later(rn) # None
                 PROVE  \/ Later(rn).suicide = None
                        \/ Later(rn).suicide >= TpSuicide - Delay + Down(d)
      OBVIOUS
    <3>1. rn # None
      BY <1>6
    <3>2. rn.suicide \in Time
      BY <3>1 DEF WorkerOK, Renewal
    <3>3. Later(rn).suicide = Down(rn.suicide)
      BY <1>5, <3>1
    <3>4. CASE rn.suicide = None
      BY <3>2, <3>3, <3>4, DownFact
    <3> QED BY <3>3, <3>4
  <2>1. rn # None /\ rn \in Renewal /\ rn.suicide >= TpSuicide - Delay + d /\ d \in 0 .. Delay
    BY <1>6 DEF WorkerOK, Renewing
  <2>2. rn.suicide \in Int
    BY <2>1 DEF Renewal, Time
  <2> QED BY <1>6a, <1>6b, <2>1, <2>2, KeepsAbove
<1>8. Later(rn) # None /\ Down(st) # None => Down(st) >= Down(d) - Delay
  <2> SUFFICES ASSUME rn # None, st # None PROVE Down(st) >= Down(d) - Delay
    BY <1>2, <1>6
  <2>1. pl \in Renewing /\ d \in 0 .. Delay /\ st \in Int /\ st >= d - Delay
    BY <1>1 DEF WorkerOK, Time
  <2> QED BY <1>2, <1>3, <2>1
<1>9. ab = "idle" /\ Down(st) # None =>
       /\ pl = "asleep" => Down(st) >= TpSuicide - Delay - Sleep + Down(d)
       /\ pl = "loop" => Down(st) >= TpSuicide - 2 * Delay - Sleep + Down(d)
       /\ pl \in Renewing => Down(st) >= TpSuicide - 3 * Delay - Sleep + Down(d)
  <2> SUFFICES ASSUME ab = "idle", st # None, st \in Int
               PROVE  /\ pl = "asleep" => Down(st) >= TpSuicide - Delay - Sleep + Down(d)
                      /\ pl = "loop" => Down(st) >= TpSuicide - 2 * Delay - Sleep + Down(d)
                      /\ pl \in Renewing => Down(st) >= TpSuicide - 3 * Delay - Sleep + Down(d)
    BY <1>1, <1>2 DEF Time
  <2>1. CASE pl = "asleep"
    BY <1>2, <1>4, <2>1 DEF WorkerOK, Renewing
  <2>2. CASE pl = "loop"
    BY <1>2, <1>3, <2>2 DEF WorkerOK, Renewing
  <2>3. CASE pl \in Renewing
    <3>1. pl # "asleep" /\ pl # "loop" /\ st >= TpSuicide - 3 * Delay - Sleep + d /\ d \in 0 .. Delay
      BY <2>3 DEF WorkerOK, Renewing
    <3>2. Down(d) = d - 1 /\ Down(st) \in Int /\ Down(st) >= st - 1
      BY <1>2, <1>3, <2>3
    <3> QED BY <3>1, <3>2
  <2> QED BY <2>1, <2>2, <2>3
<1>10. pl \in {"out", "left"} => Down(st) = None
  BY <1>2 DEF WorkerOK
<1> QED BY <1>1, <1>2, <1>3, <1>4, <1>5, <1>6, <1>7, <1>8, <1>9, <1>10 DEF WorkerOK

\* The moves of a worker from one place to the next.  First add_worker() ...
LEMMA EnterOK ==
  ASSUME NEW d, NEW st, NEW ab, NEW rn, WorkerOK("out", d, st, ab, rn)
  PROVE  WorkerOK("loop", Delay, st, ab, rn)
<1>1. st = None /\ rn = None /\ ab \in {"idle", "item"}
  BY DEF WorkerOK, Renewing
<1> QED BY <1>1, DelaysArePositive DEF WorkerOK, Renewing, Places, Time

\* ... remove_worker(), with which the handle is gone ...
LEMMA LeaveOK ==
  ASSUME NEW d, NEW st, NEW ab, NEW rn, WorkerOK("loop", d, st, ab, rn)
  PROVE  WorkerOK("left", None, None, "idle", rn)
<1>1. rn = None
  BY DEF WorkerOK, Renewing
<1> QED BY <1>1 DEF WorkerOK, Renewing, Places, Time

\* ... the end of the thread ...
LEMMA OutOK ==
  ASSUME NEW d, NEW st, NEW ab, NEW rn, WorkerOK("left", d, st, ab, rn)
  PROVE  WorkerOK("out", None, st, ab, rn)
<1>1. st = None /\ rn = None /\ ab \in {"idle", "item"}
  BY DEF WorkerOK, Renewing
<1> QED BY <1>1 DEF WorkerOK, Renewing, Places, Time

\* ... the end of wait_for(), which leaves the deadline of the idle worker ...
LEMMA WakeOK ==
  ASSUME NEW d, NEW st, NEW ab, NEW rn, WorkerOK("asleep", d, st, ab, rn)
  PROVE  WorkerOK("loop", Delay, st, ab, rn)
<1>1. rn = None /\ st \in Time /\ d \in 0 .. Sleep /\ ab \in {"idle", "item"}
  BY DEF WorkerOK, Renewing
<1>2. ab = "idle" /\ st # None => st \in Int /\ st >= TpSuicide - Delay - Sleep + d
  BY DEF WorkerOK, Time
<1>3. ab = "idle" /\ st # None => st >= TpSuicide - 2 * Delay - Sleep + Delay
  BY <1>1, <1>2, DelaysArePositive
<1> QED BY <1>1, <1>3, DelaysArePositive DEF WorkerOK, Renewing, Places, Time

\* ... and the end of an item, which leaves the deadline of its queue.
LEMMA DoneOK ==
  ASSUME NEW d, NEW st, NEW ab, NEW rn, WorkerOK("working", d, st, ab, rn)
  PROVE  WorkerOK("loop", Delay, st, ab, rn)
<1>1. rn = None /\ st \in Time /\ ab = "item"
  BY DEF WorkerOK, Renewing
<1> QED BY <1>1, DelaysArePositive DEF WorkerOK, Renewing, Places, Time

\* What a worker's previous timer still says when it starts to renew it.
LEMMA BeforeRenewal ==
  ASSUME NEW pl \in {"loop", "working"}, NEW d, NEW st, NEW ab, NEW rn,
         WorkerOK(pl, d, st, ab, rn), st # None => st >= 0
  PROVE  /\ st \in Time /\ ab \in {"idle", "item"}
         /\ st # None => st >= Delay - Delay
         /\ ab = "idle" /\ st # None => st >= TpSuicide - 3 * Delay - Sleep + Delay
         /\ Delay \in Time /\ Delay \in 0 .. Delay
<1>1. st \in Time /\ ab \in {"idle", "item"}
  BY DEF WorkerOK
<1>2. st # None => st >= Delay - Delay
  BY <1>1, DelaysArePositive DEF Time
<1>3. ab = "idle" /\ st # None => st >= TpSuicide - 3 * Delay - Sleep + Delay
  <2> SUFFICES ASSUME ab = "idle", st # None
               PROVE  st >= TpSuicide - 3 * Delay - Sleep + Delay
    OBVIOUS
  <2>1. pl = "loop"
    BY DEF WorkerOK
  <2>2. st \in Int /\ d \in 0 .. Delay /\ st >= TpSuicide - 2 * Delay - Sleep + d
    BY <2>1 DEF WorkerOK, Time
  <2> QED BY <2>2, DelaysArePositive
<1>5. Delay \in Time /\ Delay \in 0 .. Delay
  BY DelaysArePositive DEF Time
<1> QED BY <1>1, <1>2, <1>3, <1>5

\* The lines of reset_timeout up to its check, and the values it will store.
LEMMA RenewOK ==
  ASSUME NEW pl \in {"loop", "working"}, NEW d, NEW st, NEW ab, NEW rn,
         WorkerOK(pl, d, st, ab, rn), st # None => st >= 0,
         NEW p \in Renewing, NEW new \in Renewal,
         p = "to sleep" => new.suicide = None \/ new.suicide >= TpSuicide - Delay + Delay
  PROVE  WorkerOK(p, Delay, st, ab, new)
<1>1. p \in Places /\ p # "asleep" /\ p # "loop" /\ p # "working" /\ p \notin {"out", "left"}
  BY DEF Renewing, Places
<1>2. /\ st \in Time /\ ab \in {"idle", "item"}
      /\ st # None => st >= Delay - Delay
      /\ ab = "idle" /\ st # None => st >= TpSuicide - 3 * Delay - Sleep + Delay
      /\ Delay \in Time /\ Delay \in 0 .. Delay
  BY BeforeRenewal
<1> QED BY <1>1, <1>2, Zenon DEF WorkerOK

\* The end of reset_timeout: the new suicide deadline x is stored.
LEMMA FallsAsleep ==
  ASSUME NEW x \in Time, NEW d \in 0 .. Delay, x # None => x >= TpSuicide - Delay + d
  PROVE  WorkerOK("asleep", Sleep, x, "idle", None)
<1>1. x # None => x >= TpSuicide - Delay - Sleep + Sleep
  BY DelaysArePositive DEF Time
<1> QED BY <1>1, DelaysArePositive DEF WorkerOK, Places, Renewing, Time

\* The same from the record the worker has kept the deadline in.
LEMMA SleepOK ==
  ASSUME NEW d, NEW st, NEW ab, NEW rn, WorkerOK("to sleep", d, st, ab, rn), rn # None
  PROVE  WorkerOK("asleep", Sleep, rn.suicide, "idle", None)
<1>1. rn.suicide \in Time /\ d \in 0 .. Delay
  BY DEF WorkerOK, Renewal, Renewing
<1>2. rn.suicide # None => rn.suicide >= TpSuicide - Delay + d
  BY DEF WorkerOK
<1> QED BY <1>1, <1>2, FallsAsleep

\* The end of reset_timeout() for an item.
LEMMA WorkOK ==
  ASSUME NEW d, NEW st, NEW ab, NEW rn, WorkerOK("to work", d, st, ab, rn), rn # None
  PROVE  WorkerOK("working", None, rn.suicide, "item", None)
<1>1. rn.suicide \in Time
  BY DEF WorkerOK, Renewal
<1> QED BY <1>1 DEF WorkerOK, Places, Renewing, Time

\* An idle worker is in time, if the grace covers its way.
LEMMA IdleInTime ==
  ASSUME NEW pl, NEW d, NEW st, NEW rn, WorkerOK(pl, d, st, "idle", rn), st # None,
         TpSuicide >= Sleep + 3 * Delay
  PROVE  st >= 0
<1>1. st \in Int /\ pl \in {"loop", "asleep"} \cup Renewing
  BY DEF WorkerOK, Time, Places, Renewing
<1>2. CASE pl = "loop"
  <2>1. d \in 0 .. Delay /\ st >= TpSuicide - 2 * Delay - Sleep + d
    BY <1>2 DEF WorkerOK
  <2> QED BY <1>1, <2>1, DelaysArePositive
<1>3. CASE pl = "asleep"
  <2>1. d \in 0 .. Sleep /\ st >= TpSuicide - Delay - Sleep + d
    BY <1>3 DEF WorkerOK
  <2> QED BY <1>1, <2>1, DelaysArePositive
<1>4. CASE pl \in Renewing
  <2>1. d \in 0 .. Delay /\ st >= TpSuicide - 3 * Delay - Sleep + d
    BY <1>4 DEF WorkerOK
  <2> QED BY <1>1, <2>1, DelaysArePositive
<1> QED BY <1>1, <1>2, <1>3, <1>4

\* A suicide changes no list, no handle and no thread.
LEMMA SuicideKeepsAlive ==
  ASSUME AliveInv, NEW w, Suicide(w)
  PROVE  AliveInv'
<1>1. UNCHANGED <<m_workers, handle_id, obj, state, scan, wpc>> /\ UNCHANGED ownVars
  BY DEF Suicide, fieldVars, mapVars, workerVars, ownVars
<1>2. ThreadInv'
  BY <1>1, ThreadFrame DEF AliveInv, ThreadInv, ThreadTypeOK
<1> QED BY <1>1, <1>2, StaysPut DEF AliveInv

\* A step of a worker inside, or of nobody in particular, that touches neither
\* list nor handles nor threads.
LEMMA QuietStep ==
  ASSUME AliveInv, UNCHANGED threadVars, UNCHANGED <<m_workers, handle_id, scan>>,
         \/ UNCHANGED wpc
         \/ \E w \in Workers, p \in Places \ {"out", "left"} :
              Inside(w) /\ wpc' = [wpc EXCEPT ![w] = p]
  PROVE  AliveInv'
<1>1. UNCHANGED <<obj, state>> /\ UNCHANGED ownVars
  BY DEF threadVars, fieldVars, pthreadVars, ownVars
<1>2. ThreadInv'
  BY <1>1, ThreadFrame DEF AliveInv, ThreadInv, ThreadTypeOK
<1>3. CASE UNCHANGED wpc
  BY <1>1, <1>2, <1>3, StaysPut DEF AliveInv
<1>4. ASSUME NEW w \in Workers, NEW p \in Places \ {"out", "left"}, Inside(w),
             wpc' = [wpc EXCEPT ![w] = p]
      PROVE  AliveInv'
  BY <1>1, <1>2, <1>4, GoesOn DEF AliveInv
<1> QED BY <1>3, <1>4

\* A renewal: suicide, or on to storing the deadlines.
LEMMA RenewKeepsAlive ==
  ASSUME AliveInv, NEW w \in Workers, Inside(w), NEW new,
         NEW p \in {"to sleep", "to work"}, Renew(w, new, p)
  PROVE  AliveInv'
<1>1. CASE RenewTooLate(w)
  BY <1>1, SuicideKeepsAlive DEF Renew
<1>2. CASE ~RenewTooLate(w)
  <2>1. /\ UNCHANGED threadVars /\ UNCHANGED <<m_workers, handle_id, scan>>
        /\ wpc' = [wpc EXCEPT ![w] = p] /\ p \in Places \ {"out", "left"}
    BY <1>2 DEF Renew, Goto, mapVars, Places
  <2> QED BY <2>1, QuietStep
<1> QED BY <1>1, <1>2

\* Every step of a worker in the pool's code, in the map, or in the user's.
LEMMA WorkerKeepsAlive ==
  ASSUME AliveInv, NEW w \in Workers, PoolStep(w) \/ UserStep(w),
         renewal[w] # None => Inside(w)
  PROVE  AliveInv'
<1>1. CASE AddWorker(w)
  <2>1. ThreadInv'
    BY <1>1, ThreadFrame
       DEF AddWorker, threadVars, pthreadVars, fieldVars, ownVars, AliveInv, ThreadInv, ThreadTypeOK
  <2> QED BY <1>1, <2>1, AddKeepsAlive DEF AliveInv
<1>2. CASE RemoveWorker(w)
  <2>1. ThreadInv'
    BY <1>2, ThreadFrame
       DEF RemoveWorker, threadVars, pthreadVars, fieldVars, ownVars, AliveInv, ThreadInv, ThreadTypeOK
  <2> QED BY <1>2, <2>1, RemoveKeepsAlive DEF AliveInv
<1>3. CASE Idle(w)
  BY <1>3, RenewKeepsAlive DEF Idle, Inside, Places
<1>4. CASE Item(w)
  BY <1>4, RenewKeepsAlive DEF Item, Inside, Places
<1>5. CASE UserRenews(w)
  BY <1>5, RenewKeepsAlive DEF UserRenews, Inside, Places
<1>6. CASE Wake(w)
  <2>1. Inside(w) /\ wpc' = [wpc EXCEPT ![w] = "loop"] /\ "loop" \in Places \ {"out", "left"}
    BY <1>6 DEF Wake, Goto, Inside, Places
  <2> QED BY <1>6, <2>1, QuietStep DEF Wake, mapVars
<1>7. CASE Done(w)
  <2>1. Inside(w) /\ wpc' = [wpc EXCEPT ![w] = "loop"] /\ "loop" \in Places \ {"out", "left"}
    BY <1>7 DEF Done, Goto, Inside, Places
  <2> QED BY <1>7, <2>1, QuietStep DEF Done, mapVars
<1>8. CASE StoreTimeout(w)
  BY <1>8, QuietStep DEF StoreTimeout, workerVars
<1>9. CASE StoreSuicide(w)
  <2>1. PICK p \in {"asleep", "working"} : wpc' = [wpc EXCEPT ![w] = p]
    BY <1>9 DEF StoreSuicide, Goto
  <2>2. p \in Places \ {"out", "left"}
    BY DEF Places
  <2>3. Inside(w)
    BY <1>9 DEF StoreSuicide
  <2> QED BY <1>9, <2>1, <2>2, <2>3, QuietStep DEF StoreSuicide
<1> QED BY <1>1, <1>2, <1>3, <1>4, <1>5, <1>6, <1>7, <1>8, <1>9 DEF PoolStep, UserStep

-----------------------------------------------------------------------------
(* The scans.                                                              *)

\* A scan gets older by a tick.
LEMMA ScanOlder ==
  ASSUME NEW s \in ScanRecord
  PROVE  Older(s) \in ScanRecord /\ Older(s).rest = s.rest /\ Older(s).loaded = s.loaded
BY DEF ScanRecord, Older, ScanOf

\* One scan changes, and has still only listed workers to look at.
LEMMA OneScan ==
  ASSUME ScanInv, NEW m \in Monitors, NEW t \in {None} \cup ScanRecord,
         t # None => /\ t.loaded => t.rest # <<>>
                     /\ \A j \in 1 .. Len(t.rest) : Listed(t.rest[j]),
         scan' = [scan EXCEPT ![m] = t], UNCHANGED m_workers
  PROVE  ScanInv'
BY DEF ScanInv, Listed

\* Every step of is_healthy().
LEMMA MonitorKeepsAlive ==
  ASSUME AliveInv, NEW m \in Monitors, MonitorNext(m)
  PROVE  AliveInv'
<1> USE NoneAssumption
<1>0. ASSUME UNCHANGED <<threadVars, m_workers, handle_id, wpc>>, ScanInv'
      PROVE  AliveInv'
  <2>1. UNCHANGED <<obj, state>> /\ UNCHANGED ownVars
    BY <1>0 DEF threadVars, fieldVars, pthreadVars, ownVars
  <2>2. ThreadInv'
    BY <2>1, ThreadFrame DEF AliveInv, ThreadInv, ThreadTypeOK
  <2>3. wpc' \in [Workers -> Places] /\ \A u \in Workers : Inside(u) <=> Inside(u)'
    BY <1>0 DEF AliveInv, ListInv, Inside
  <2>4. ListInv'
    BY <1>0, <2>3, ListFrame DEF AliveInv
  <2>5. HandleInv'
    BY <1>0, <2>1, <2>3, HandleFrame DEF AliveInv
  <2> QED BY <1>0, <2>2, <2>4, <2>5 DEF AliveInv
<1>1. CASE ScanBegin(m)
  <2> DEFINE t == ScanOf(0, m_workers, FALSE, 0, 0)
  <2>1. t \in ScanRecord /\ ~t.loaded /\ t.rest = m_workers
    BY DEF AliveInv, ListInv, ScanOf, ScanRecord
  <2>2. \A j \in 1 .. Len(m_workers) : Listed(m_workers[j])
    BY DEF Listed
  <2>3. scan' = [scan EXCEPT ![m] = t] /\ UNCHANGED <<threadVars, m_workers, handle_id, wpc>>
    BY <1>1 DEF ScanBegin, mapVars, workerVars
  <2> HIDE DEF t
  <2>4. ScanInv'
    BY <2>1, <2>2, <2>3, OneScan DEF AliveInv
  <2> QED BY <1>0, <2>3, <2>4
<1>2. CASE ScanTimeout(m)
  <2>1. PICK s \in ScanRecord : s = scan[m]
    BY <1>2 DEF ScanTimeout, AliveInv, ScanInv
  <2>2. PICK n \in Nat : scan' = [scan EXCEPT ![m] =
                                   ScanOf(s.age, s.rest, TRUE, n, s.total)]
    <3>1. s.unhealthy \in Nat
      BY DEF ScanRecord
    <3>2. s.unhealthy + (IF TimedOut(Head(s.rest), s.age) THEN 1 ELSE 0) \in Nat
      BY <3>1
    <3> QED BY <1>2, <2>1, <3>2, Zenon DEF ScanTimeout
  <2> DEFINE t == ScanOf(s.age, s.rest, TRUE, n, s.total)
  <2>3. t \in ScanRecord /\ t.rest = s.rest
    <3>1. s.age \in Nat /\ s.rest \in Seq(Workers) /\ s.total \in Nat
      BY DEF ScanRecord
    <3> QED BY <3>1 DEF ScanOf, ScanRecord
  <2>4. scan' = [scan EXCEPT ![m] = t] /\ UNCHANGED <<threadVars, m_workers, handle_id, wpc>>
    BY <1>2, <2>2 DEF ScanTimeout, mapVars, workerVars
  <2> HIDE DEF t
  <2>5. s.rest # <<>> /\ \A j \in 1 .. Len(s.rest) : Listed(s.rest[j])
    BY <1>2, <2>1 DEF ScanTimeout, AliveInv, ScanInv
  <2>6. ScanInv'
    BY <2>3, <2>4, <2>5, OneScan DEF AliveInv
  <2> QED BY <1>0, <2>4, <2>6
<1>3. CASE ScanSuicide(m)
  <2>1. PICK s \in ScanRecord : s = scan[m] /\ s.loaded
    BY <1>3 DEF ScanSuicide, AliveInv, ScanInv
  <2>2. CASE Overdue(Head(s.rest), s.age)
    BY <1>3, <2>1, <2>2, SuicideKeepsAlive DEF ScanSuicide
  <2>3. CASE ~Overdue(Head(s.rest), s.age)
    <3>1. s.rest \in Seq(Workers)
      BY DEF ScanRecord
    <3>2. s.rest # <<>> /\ \A j \in 1 .. Len(s.rest) : Listed(s.rest[j])
      BY <1>3, <2>1, Zenon DEF ScanSuicide, AliveInv, ScanInv
    <3>3. /\ Tail(s.rest) \in Seq(Workers) /\ Len(Tail(s.rest)) = Len(s.rest) - 1
          /\ \A j \in 1 .. Len(Tail(s.rest)) : Tail(s.rest)[j] = s.rest[j + 1]
      BY <3>1, <3>2, HeadTailProperties
    <3>4. \A j \in 1 .. Len(Tail(s.rest)) : Listed(Tail(s.rest)[j])
      <4> TAKE j \in 1 .. Len(Tail(s.rest))
      <4>1. j + 1 \in 1 .. Len(s.rest)
        BY <3>1, <3>3
      <4> QED BY <3>2, <3>3, <4>1
    <3> DEFINE t == ScanOf(s.age, Tail(s.rest), FALSE, s.unhealthy, s.total + 1)
    <3>5. t \in ScanRecord /\ t.rest = Tail(s.rest) /\ ~t.loaded
      <4>1. s.age \in Nat /\ s.unhealthy \in Nat /\ s.total + 1 \in Nat
        BY DEF ScanRecord
      <4> QED BY <3>3, <4>1 DEF ScanOf, ScanRecord
    <3>6. scan' = [scan EXCEPT ![m] = t] /\ UNCHANGED <<threadVars, m_workers, handle_id, wpc>>
      BY <1>3, <2>1, <2>3 DEF ScanSuicide, NextHandles, mapVars, workerVars
    <3> HIDE DEF t
    <3>7. ScanInv'
      BY <3>4, <3>5, <3>6, OneScan DEF AliveInv
    <3> QED BY <1>0, <3>6, <3>7
  <2> QED BY <2>2, <2>3
<1>4. CASE ScanEnd(m)
  <2>1. scan' = [scan EXCEPT ![m] = None] /\ UNCHANGED <<threadVars, m_workers, handle_id, wpc>>
    BY <1>4 DEF ScanEnd, mapVars, workerVars
  <2>2. ScanInv'
    BY <2>1, OneScan DEF AliveInv
  <2> QED BY <1>0, <2>1, <2>2
<1> QED BY <1>1, <1>2, <1>3, <1>4 DEF MonitorNext

-----------------------------------------------------------------------------
(* The steps and the time that is left.                                    *)

\* Time passes: every scan gets older, nothing else that HandlesAlive is about
\* changes.
LEMMA TickKeepsAlive ==
  ASSUME AliveInv, Tick
  PROVE  AliveInv'
<1>1. /\ UNCHANGED <<threadVars, m_workers, handle_id, wpc>>
      /\ scan' = [m \in Monitors |-> IF scan[m] = None THEN None ELSE Older(scan[m])]
  BY DEF Tick
<1>2. UNCHANGED <<obj, state>> /\ UNCHANGED ownVars
  BY <1>1 DEF threadVars, fieldVars, pthreadVars, ownVars
<1>3. ThreadInv'
  BY <1>2, ThreadFrame DEF AliveInv, ThreadInv, ThreadTypeOK
<1>4. wpc' \in [Workers -> Places] /\ \A u \in Workers : Inside(u) <=> Inside(u)'
  BY <1>1 DEF AliveInv, ListInv, Inside
<1>5. ListInv' /\ HandleInv'
  BY <1>1, <1>2, <1>4, ListFrame, HandleFrame DEF AliveInv
<1>6. ScanInv'
  <2>1. scan' \in [Monitors -> {None} \cup ScanRecord]
    BY <1>1, ScanOlder DEF AliveInv, ScanInv
  <2>2. ASSUME NEW m \in Monitors, scan'[m] # None
        PROVE  /\ scan'[m].loaded => scan'[m].rest # <<>>
               /\ (\A j \in 1 .. Len(scan[m].rest) : Listed(scan[m].rest[j]))'
    <3>1. PICK s \in ScanRecord : s = scan[m] /\ scan'[m] = Older(s)
      BY <1>1, <2>2 DEF AliveInv, ScanInv
    <3>2. scan'[m].rest = s.rest /\ scan'[m].loaded = s.loaded
      BY <3>1, ScanOlder
    <3>3. scan[m] # None
      BY <1>1, <2>2
    <3>4. s.loaded => s.rest # <<>>
      BY <3>1, <3>3, Zenon DEF AliveInv, ScanInv
    <3>5. \A j \in 1 .. Len(s.rest) : Listed(s.rest[j])
      BY <3>1, <3>3, Zenon DEF AliveInv, ScanInv
    <3> QED BY <1>1, <3>2, <3>4, <3>5 DEF Listed
  <2> QED BY <2>1, <2>2 DEF ScanInv
<1> QED BY <1>3, <1>5, <1>6 DEF AliveInv

\* A tick takes from everybody's time what it takes from the bound on it.
LEMMA TickKeepsTime ==
  ASSUME TimerInv, Tick
  PROVE  TimerInv'
<1>1. /\ \A w \in Workers : due[w] # 0
      /\ UNCHANGED <<wpc, armed_by>>
      /\ suicide_timeout' = [w \in Workers |-> Down(suicide_timeout[w])]
      /\ due' = [w \in Workers |-> Down(due[w])]
      /\ renewal' = [w \in Workers |-> Later(renewal[w])]
  BY DEF Tick
<1>2. \A w \in Workers :
        WorkerOK(wpc'[w], due'[w], suicide_timeout'[w], armed_by'[w], renewal'[w])
  BY <1>1, TickOK DEF TimerInv
<1>3. /\ due' \in [Workers -> Time]
      /\ suicide_timeout' \in [Workers -> Time]
  BY <1>1, DownFact DEF TimerInv
<1>4. \A w \in Workers : Later(renewal[w]) \in {None} \cup Renewal
  BY DownFact DEF Later, Renewal, TimerInv
<1> QED BY <1>1, <1>2, <1>3, <1>4 DEF TimerInv

\* What is not before now is not negative.
LEMMA NotBehind ==
  ASSUME NEW x \in Int, ~(x < -0)
  PROVE  x >= 0
OBVIOUS

\* The check of reset_timeout() and clear_timeout() and what they will store.
LEMMA RenewKeepsTime ==
  ASSUME TimerInv, NEW w \in Workers, wpc[w] \in {"loop", "working"},
         NEW p \in Renewing, NEW new \in Renewal, Renew(w, new, p),
         p = "to sleep" => new.suicide = None \/ new.suicide >= TpSuicide - Delay + Delay
  PROVE  TimerInv'
<1>1. CASE RenewTooLate(w)
  BY <1>1, TimerFrame DEF Renew, Suicide, mapVars, workerVars, timerVars
<1>2. CASE ~RenewTooLate(w)
  <2>1. /\ wpc' = [wpc EXCEPT ![w] = p] /\ due' = [due EXCEPT ![w] = Delay]
        /\ renewal' = [renewal EXCEPT ![w] = new]
        /\ UNCHANGED <<suicide_timeout, armed_by>>
    BY <1>2 DEF Renew, Goto, mapVars
  <2>2. suicide_timeout[w] # None => suicide_timeout[w] >= 0
    <3>1. suicide_timeout[w] # None => suicide_timeout[w] \in Int /\ ~(suicide_timeout[w] < -0)
      BY <1>2 DEF RenewTooLate, Overdue, TimerInv, Time
    <3> QED BY <3>1, NotBehind
  <2>3. WorkerOK(wpc[w], due[w], suicide_timeout[w], armed_by[w], renewal[w])
    BY DEF TimerInv
  <2>4. WorkerOK(p, Delay, suicide_timeout[w], armed_by[w], new)
    BY <2>2, <2>3, RenewOK
  <2>5. /\ suicide_timeout' = [suicide_timeout EXCEPT ![w] = suicide_timeout[w]]
        /\ armed_by' = [armed_by EXCEPT ![w] = armed_by[w]]
    BY <2>1, ExceptSame DEF TimerInv
  <2> QED BY <2>1, <2>4, <2>5, OneWorker
<1> QED BY <1>1, <1>2

\* The deadlines reset_timeout() stores for the graces of the pool or a queue.
LEMMA ResetOK ==
  ASSUME NEW a \in Nat, NEW b \in Nat
  PROVE  /\ Reset(<<a, b>>) \in Renewal
         /\ \/ Reset(<<a, b>>).suicide = None
            \/ Reset(<<a, b>>).suicide = b
BY DEF Reset, Renewal, Time

\* The graces of a queue give two deadlines.
LEMMA QueueResetOK ==
  ASSUME NEW g \in QueueGraces
  PROVE  Reset(g) \in Renewal
<1>1. g[1] \in Nat /\ g[2] \in Nat
  BY TimesAreNatural
<1> QED BY <1>1 DEF Reset, Renewal, Time

\* Every step of a worker in the pool's code, in the map, or in the user's.
LEMMA WorkerKeepsTime ==
  ASSUME TimerInv, NEW w \in Workers, PoolStep(w) \/ UserStep(w)
  PROVE  TimerInv'
<1> USE DelaysArePositive
<1>0. /\ WorkerOK(wpc[w], due[w], suicide_timeout[w], armed_by[w], renewal[w])
      /\ renewal[w] \in {None} \cup Renewal
      /\ wpc = [wpc EXCEPT ![w] = wpc[w]]
      /\ suicide_timeout = [suicide_timeout EXCEPT ![w] = suicide_timeout[w]]
      /\ armed_by = [armed_by EXCEPT ![w] = armed_by[w]]
      /\ renewal = [renewal EXCEPT ![w] = renewal[w]]
  BY ExceptSame DEF TimerInv
<1>1. CASE AddWorker(w)
  <2>1. /\ wpc[w] = "out" /\ wpc' = [wpc EXCEPT ![w] = "loop"]
        /\ due' = [due EXCEPT ![w] = Delay]
        /\ UNCHANGED <<suicide_timeout, armed_by, renewal>>
    BY <1>1 DEF AddWorker, Goto
  <2>2. WorkerOK("loop", Delay, suicide_timeout[w], armed_by[w], renewal[w])
    BY <1>0, <2>1, EnterOK
  <2> QED BY <2>1, <2>2, OneMove
<1>2. CASE RemoveWorker(w)
  <2>1. /\ wpc[w] = "loop" /\ wpc' = [wpc EXCEPT ![w] = "left"]
        /\ due' = [due EXCEPT ![w] = None]
        /\ suicide_timeout' = [suicide_timeout EXCEPT ![w] = None]
        /\ armed_by' = [armed_by EXCEPT ![w] = "idle"]
        /\ UNCHANGED renewal
    BY <1>2 DEF RemoveWorker, Goto
  <2>2. WorkerOK("left", None, None, "idle", renewal[w])
    BY <1>0, <2>1, LeaveOK
  <2> QED BY <1>0, <2>1, <2>2, OneWorker
<1>3. CASE Idle(w)
  <2>1. PICK new \in Renewal :
          /\ Renew(w, new, "to sleep")
          /\ new.suicide = None \/ new.suicide = TpSuicide
    BY <1>3, ResetOK DEF Idle
  <2>2. new.suicide = None \/ new.suicide >= TpSuicide - Delay + Delay
    <3>1. TpSuicide >= TpSuicide - Delay + Delay
      OBVIOUS
    <3> QED BY <2>1, <3>1
  <2> QED BY <1>3, <2>1, <2>2, RenewKeepsTime DEF Idle, Renewing
<1>4. CASE Item(w)
  <2>1. PICK new \in Renewal : Renew(w, new, "to work")
    BY <1>4, QueueResetOK, Zenon DEF Item
  <2> QED BY <1>4, <2>1, RenewKeepsTime DEF Item, Renewing
<1>5. CASE UserRenews(w)
  <2>1. PICK new \in Renewal : Renew(w, new, "to work")
    <3>1. Clear \in Renewal
      BY DEF Clear, Renewal, Time
    <3> QED BY <1>5, <3>1, QueueResetOK, Zenon DEF UserRenews
  <2> QED BY <1>5, <2>1, RenewKeepsTime DEF UserRenews, Renewing
<1>6. CASE Wake(w)
  <2>1. /\ wpc[w] = "asleep" /\ wpc' = [wpc EXCEPT ![w] = "loop"]
        /\ due' = [due EXCEPT ![w] = Delay]
        /\ UNCHANGED <<suicide_timeout, armed_by, renewal>>
    BY <1>6 DEF Wake, Goto, mapVars
  <2>2. WorkerOK("loop", Delay, suicide_timeout[w], armed_by[w], renewal[w])
    BY <1>0, <2>1, WakeOK
  <2> QED BY <2>1, <2>2, OneMove
<1>7. CASE Done(w)
  <2>1. /\ wpc[w] = "working" /\ wpc' = [wpc EXCEPT ![w] = "loop"]
        /\ due' = [due EXCEPT ![w] = Delay]
        /\ UNCHANGED <<suicide_timeout, armed_by, renewal>>
    BY <1>7 DEF Done, Goto, mapVars
  <2>2. WorkerOK("loop", Delay, suicide_timeout[w], armed_by[w], renewal[w])
    BY <1>0, <2>1, DoneOK
  <2> QED BY <2>1, <2>2, OneMove
<1>8. CASE StoreTimeout(w)
  BY <1>8, TimerFrame DEF StoreTimeout, workerVars, timerVars
<1>9. CASE StoreSuicide(w)
  <2>1. /\ renewal[w] # None /\ wpc[w] \in Renewing
        /\ suicide_timeout' = [suicide_timeout EXCEPT ![w] = renewal[w].suicide]
        /\ renewal' = [renewal EXCEPT ![w] = None]
    BY <1>0, <1>9 DEF StoreSuicide, WorkerOK
  <2>2. CASE wpc[w] = "to sleep"
    <3>1. WorkerOK("asleep", Sleep, renewal[w].suicide, "idle", None)
      <4>1. WorkerOK("to sleep", due[w], suicide_timeout[w], armed_by[w], renewal[w])
        BY <1>0, <2>2, Zenon
      <4> QED BY <2>1, <4>1, SleepOK, Zenon
    <3>2. /\ wpc' = [wpc EXCEPT ![w] = "asleep"] /\ due' = [due EXCEPT ![w] = Sleep]
          /\ armed_by' = [armed_by EXCEPT ![w] = "idle"]
      BY <1>9, <2>2 DEF StoreSuicide, Goto
    <3> QED BY <2>1, <3>1, <3>2, OneWorker
  <2>3. CASE wpc[w] = "to work"
    <3>1. WorkerOK("working", None, renewal[w].suicide, "item", None)
      <4>1. WorkerOK("to work", due[w], suicide_timeout[w], armed_by[w], renewal[w])
        BY <1>0, <2>3, Zenon
      <4> QED BY <2>1, <4>1, WorkOK, Zenon
    <3>2. /\ wpc' = [wpc EXCEPT ![w] = "working"] /\ due' = [due EXCEPT ![w] = None]
          /\ armed_by' = [armed_by EXCEPT ![w] = "item"]
      BY <1>9, <2>3 DEF StoreSuicide, Goto
    <3> QED BY <2>1, <3>1, <3>2, OneWorker
  <2> QED BY <2>1, <2>2, <2>3 DEF Renewing
<1> QED BY <1>1, <1>2, <1>3, <1>4, <1>5, <1>6, <1>7, <1>8, <1>9 DEF PoolStep, UserStep

\* A thread that ends takes its worker from "left" to "out".
LEMMA WorkerThreadKeepsTime ==
  ASSUME TimerInv, NEW w \in Workers, WorkerThread(w)
  PROVE  TimerInv'
<1>1. UNCHANGED <<suicide_timeout, armed_by, renewal>>
  BY DEF WorkerThread, mapVars, workerVars
<1>2. CASE UNCHANGED workerVars
  BY <1>1, <1>2, TimerFrame DEF workerVars, timerVars
<1>3. CASE wpc[w] = "left" /\ Goto(w, "out", None)
  <2>1. WorkerOK("left", due[w], suicide_timeout[w], armed_by[w], renewal[w])
    BY <1>3, Zenon DEF TimerInv
  <2>2. WorkerOK("out", None, suicide_timeout[w], armed_by[w], renewal[w])
    BY <2>1, OutOK
  <2> QED BY <1>1, <1>3, <2>2, OneMove DEF Goto
<1> QED BY <1>2, <1>3 DEF WorkerThread

\* Whoever found a deadline passed has ended the process, and it was not that
\* of a worker that had nothing to do.
KillInv == (victim # None => aborted) /\ IdleNotKilled

\* A suicide deadline that is found to have passed was not set by an idle worker.
LEMMA SuicideOfBusy ==
  ASSUME TimerInv, NEW w \in Workers, NEW age \in Nat, Overdue(w, age), Suicide(w)
  PROVE  KillInv'
<1>1. /\ victim' = w /\ aborted' = TRUE /\ UNCHANGED armed_by
      /\ suicide_timeout[w] # None /\ suicide_timeout[w] < -age
  BY DEF Suicide, mapVars, Overdue
<1>2. WorkerOK(wpc[w], due[w], suicide_timeout[w], armed_by[w], renewal[w])
  BY DEF TimerInv
<1>3. suicide_timeout[w] \in Int /\ ~(suicide_timeout[w] >= 0)
  BY <1>1 DEF TimerInv, Time
<1>4. TpSuicide >= Sleep + 3 * Delay => armed_by[w] # "idle"
  BY <1>1, <1>2, <1>3, IdleInTime
<1> QED BY <1>1, <1>4 DEF KillInv, IdleNotKilled

\* Every other step kills nobody.
LEMMA NobodyKilled ==
  ASSUME KillInv, ~aborted, UNCHANGED victim
  PROVE  KillInv'
BY DEF KillInv, IdleNotKilled

HeartbeatInv == AliveInv /\ TimerInv /\ KillInv

\* Nothing is registered and nobody runs at first.
LEMMA HeartbeatStart == Init => HeartbeatInv
<1> SUFFICES ASSUME Init PROVE HeartbeatInv
  OBVIOUS
<1> USE NoneAssumption
<1>1. ThreadInv
  BY ThreadStart DEF Init
<1>2. ListInv /\ HandleInv
  BY DEF Init, ListInv, HandleInv, Inside, Places
<1>3. ScanInv
  BY DEF Init, ScanInv
<1>4. TimerInv
  BY DEF Init, TimerInv, WorkerOK, Places, Time, Renewing
<1>5. KillInv
  BY DEF Init, KillInv, IdleNotKilled
<1> QED BY <1>1, <1>2, <1>3, <1>4, <1>5 DEF HeartbeatInv, AliveInv

\* A renewal ends in a suicide or kills nobody.
LEMMA RenewKills ==
  ASSUME TimerInv, KillInv, ~aborted, NEW w \in Workers, NEW new, NEW p, Renew(w, new, p)
  PROVE  KillInv'
<1>1. CASE RenewTooLate(w)
  BY <1>1, SuicideOfBusy DEF Renew, RenewTooLate
<1>2. CASE ~RenewTooLate(w)
  BY <1>2, NobodyKilled DEF Renew
<1> QED BY <1>1, <1>2

\* Every step preserves the invariant.
LEMMA HeartbeatStep ==
  ASSUME HeartbeatInv, Next
  PROVE  HeartbeatInv'
<1>0. AliveInv /\ TimerInv /\ KillInv /\ ~aborted
  BY DEF HeartbeatInv, Next
<1>1. CASE Tick
  <2>1. KillInv'
    BY <1>0, <1>1, NobodyKilled DEF Tick
  <2> QED BY <1>0, <1>1, <2>1, TickKeepsAlive, TickKeepsTime DEF HeartbeatInv
<1>2. ASSUME NEW w \in Workers, WorkerThread(w)
      PROVE  HeartbeatInv'
  <2>1. KillInv'
    BY <1>0, <1>2, NobodyKilled DEF WorkerThread
  <2> QED BY <1>0, <1>2, <2>1, WorkerThreadKeepsAlive, WorkerThreadKeepsTime DEF HeartbeatInv
<1>3. ASSUME NEW w \in Workers, PoolStep(w) \/ UserStep(w)
      PROVE  HeartbeatInv'
  <2>1. renewal[w] # None => Inside(w)
    <3>1. renewal[w] # None => wpc[w] \in Renewing
      BY <1>0 DEF TimerInv, WorkerOK
    <3> QED BY <3>1 DEF Inside, Renewing, Places
  <2>2. AliveInv' /\ TimerInv'
    BY <1>0, <1>3, <2>1, WorkerKeepsAlive, WorkerKeepsTime
  <2>3. CASE Idle(w) \/ Item(w) \/ UserRenews(w)
    <3>1. KillInv'
      BY <1>0, <2>3, RenewKills DEF Idle, Item, UserRenews
    <3> QED BY <2>2, <3>1 DEF HeartbeatInv
  <2>4. CASE ~(Idle(w) \/ Item(w) \/ UserRenews(w))
    <3>1. UNCHANGED victim
      BY <1>3, <2>4 DEF PoolStep, UserStep, AddWorker, RemoveWorker, Wake, Done,
                        StoreTimeout, StoreSuicide
    <3> QED BY <1>0, <2>2, <3>1, NobodyKilled DEF HeartbeatInv
  <2> QED BY <2>3, <2>4
<1>4. ASSUME NEW m \in Monitors, MonitorNext(m)
      PROVE  HeartbeatInv'
  <2>1. AliveInv'
    BY <1>0, <1>4, MonitorKeepsAlive
  <2>2. TimerInv'
    BY <1>0, <1>4, TimerFrame
       DEF MonitorNext, ScanBegin, ScanTimeout, ScanSuicide, ScanEnd, Suicide,
           mapVars, workerVars, timerVars
  <2>3. KillInv'
    <3>1. CASE UNCHANGED victim
      BY <1>0, <3>1, NobodyKilled
    <3>2. CASE ~UNCHANGED victim
      <4>1. PICK s : s = scan[m] /\ s # None /\ s.loaded
                     /\ Overdue(Head(s.rest), s.age) /\ Suicide(Head(s.rest))
        BY <1>4, <3>2 DEF MonitorNext, ScanBegin, ScanTimeout, ScanSuicide, ScanEnd
      <4>2. s \in ScanRecord /\ s.rest # <<>>
        BY <1>0, <4>1, Zenon DEF AliveInv, ScanInv
      <4>3. s.age \in Nat /\ s.rest \in Seq(Workers)
        BY <4>2 DEF ScanRecord
      <4>4. Head(s.rest) \in Workers
        BY <4>2, <4>3, HeadTailProperties
      <4> QED BY <1>0, <4>1, <4>3, <4>4, SuicideOfBusy
    <3> QED BY <3>1, <3>2
  <2> QED BY <2>1, <2>2, <2>3 DEF HeartbeatInv
<1>5. ASSUME NEW o \in Objects, OtherThread(o)
      PROVE  HeartbeatInv'
  <2>1. AliveInv'
    BY <1>0, <1>5, OtherThreadKeepsAlive
  <2>2. TimerInv' /\ KillInv'
    BY <1>0, <1>5, TimerFrame, NobodyKilled DEF OtherThread, mapVars, workerVars, timerVars
  <2> QED BY <2>1, <2>2 DEF HeartbeatInv
<1> QED BY <1>1, <1>2, <1>3, <1>4, <1>5 DEF Next

\* Who has which pthread id, which handles are listed and how much time is
\* left: the invariant of the map with the threads and the workers' loop.
THEOREM HeartbeatInvariance == Spec => []HeartbeatInv
<1>1. HeartbeatInv /\ [Next]_vars => HeartbeatInv'
  <2> SUFFICES ASSUME HeartbeatInv, [Next]_vars PROVE HeartbeatInv'
    OBVIOUS
  <2>1. CASE Next
    BY <2>1, HeartbeatStep
  <2>2. CASE UNCHANGED vars
    <3>1. UNCHANGED threadVars /\ UNCHANGED <<m_workers, handle_id, scan, wpc>>
      BY <2>2 DEF vars, mapVars, workerVars
    <3>2. UNCHANGED timerVars /\ UNCHANGED <<victim, aborted, armed_by>>
      BY <2>2 DEF vars, mapVars, workerVars, timerVars
    <3>3. AliveInv'
      BY <3>1, QuietStep DEF HeartbeatInv
    <3>4. TimerInv'
      BY <3>2, TimerFrame DEF HeartbeatInv
    <3>5. KillInv'
      BY <3>2 DEF HeartbeatInv, KillInv, IdleNotKilled
    <3> QED BY <3>3, <3>4, <3>5 DEF HeartbeatInv
  <2> QED BY <2>1, <2>2
<1> QED BY HeartbeatStart, <1>1, PTL DEF Spec

\* _check() looks only at handles of threads that run, and signals no other
\* thread: remove_worker() and the thread's end are in the right order.
THEOREM HandlesStayAlive == Spec => []HandlesAlive
<1>1. HeartbeatInv => HandlesAlive
  <2> SUFFICES ASSUME HeartbeatInv PROVE HandlesAlive
    OBVIOUS
  <2>1. \A w \in ToSet(m_workers) :
          \E i \in PthreadIds : handle_id[w] = i /\ obj[i] = w /\ state[i] = "running"
    <3> SUFFICES ASSUME NEW w \in ToSet(m_workers)
                 PROVE  \E i \in PthreadIds :
                          handle_id[w] = i /\ obj[i] = w /\ state[i] = "running"
      OBVIOUS
    <3>1. PICK j \in 1 .. Len(m_workers) : w = m_workers[j]
      BY LenProperties DEF ToSet, HeartbeatInv, AliveInv, ListInv
    <3>2. w \in Workers /\ Inside(w)
      BY <3>1, ElementOfSeq DEF HeartbeatInv, AliveInv, ListInv
    <3> QED BY <3>2 DEF HeartbeatInv, AliveInv, HandleInv
  <2>2. ASSUME NEW m \in Monitors, scan[m] # None
        PROVE  ToSet(scan[m].rest) \subseteq ToSet(m_workers)
    <3>1. PICK s \in ScanRecord : s = scan[m]
      BY <2>2 DEF HeartbeatInv, AliveInv, ScanInv
    <3>2. \A j \in 1 .. Len(s.rest) : Listed(s.rest[j])
      BY <2>2, <3>1, Zenon DEF HeartbeatInv, AliveInv, ScanInv
    <3>3. s.rest \in Seq(Workers) /\ m_workers \in Seq(Workers)
      BY DEF ScanRecord, HeartbeatInv, AliveInv, ListInv
    <3> SUFFICES ASSUME NEW r \in Seq(Workers), \A j \in 1 .. Len(r) : Listed(r[j])
                 PROVE  ToSet(r) \subseteq ToSet(m_workers)
      BY <3>1, <3>2, <3>3
    <3> QED BY <3>3, LenProperties DEF ToSet, Listed
  <2> QED BY <2>1, <2>2 DEF HandlesAlive
<1> QED BY HeartbeatInvariance, <1>1, PTL

\* A tp_suicide_grace of the pool's sleep and three delays is enough for idle
\* workers, however many there are and whenever the monitors look.
THEOREM IdleWorkersLive == Spec => []IdleNotKilled
<1>1. HeartbeatInv => IdleNotKilled
  BY DEF HeartbeatInv, KillInv
<1> QED BY HeartbeatInvariance, <1>1, PTL

\* reset_timeout() and clear_timeout() replace no deadline that had passed.
THEOREM RenewalsAreInTime == Spec => []NoLateRenewal
<1>1. HeartbeatInv => NoLateRenewal
  <2> SUFFICES ASSUME HeartbeatInv, NEW w \in Workers, renewal[w] # None,
                      suicide_timeout[w] # None
               PROVE  suicide_timeout[w] >= -Delay
    BY DEF NoLateRenewal
  <2>1. /\ due[w] \in 0 .. Delay /\ suicide_timeout[w] \in Int
        /\ suicide_timeout[w] >= due[w] - Delay
    BY DEF HeartbeatInv, TimerInv, WorkerOK, Time
  <2> QED BY <2>1, DelaysArePositive
<1> QED BY HeartbeatInvariance, <1>1, PTL

\* join() and kill() reach the own thread of an object in the whole system too.
THEOREM OwnThreadInSystem == Spec => []OwnThread
<1>1. HeartbeatInv => OwnThread
  BY DEF HeartbeatInv, AliveInv, ThreadInv
<1> QED BY HeartbeatInvariance, <1>1, PTL

=============================================================================
