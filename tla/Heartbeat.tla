------------------------------ MODULE Heartbeat ------------------------------
(***************************************************************************)
(* The heartbeat map of thread/heartbeat.{h,cc}, with the workers of a     *)
(* pool that arm their handles as ThreadPool::worker() does, the threads   *)
(* they run in (ThreadBase), and monitors that call is_healthy().          *)
(*                                                                         *)
(* Time is kept as the time left: every deadline counts down with Tick.  A *)
(* worker that can go on does so within Delay, the lock of the pool and    *)
(* m_rwlock included, and sleeps at most Sleep; a scan ends within Delay;  *)
(* only the user's code may take any time.  The deadlines are atomics      *)
(* written and read without a lock, one action each; the list is guarded   *)
(* by m_rwlock: add_worker() and remove_worker() are one action each that  *)
(* no scan overlaps.  The counters is_healthy() stores at the end are left *)
(* out: only their getters read them.                                      *)
(***************************************************************************)
EXTENDS ThreadBase, Sequences, SequencesExt, FiniteSets

CONSTANTS
  Workers,        \* the objects that are worker threads of a pool
  Monitors,       \* the threads that call is_healthy()
  Delay, Sleep,
  TpGrace, TpSuicide,   \* tp_grace and tp_suicide_grace of the pool
  QueueGraces     \* the pairs <<grace, suicide_grace>> of the work queues

ASSUME WorkersAreObjects == Workers \subseteq Objects
ASSUME TimesAreNatural ==
  /\ {Delay, Sleep} \subseteq Nat \ {0}
  /\ {TpGrace, TpSuicide} \subseteq Nat
  /\ QueueGraces \subseteq Nat \X Nat

VARIABLES
  m_workers,     \* the workers in the list, the newest first
  handle_id,     \* per worker: thread_id in its handle
  timeout, suicide_timeout,   \* per worker: the time left, or None (time::min())
  armed_by,      \* per worker: what set its suicide deadline, "idle" or "item"
  wpc,           \* per worker: where it stands
  due,           \* per worker: the time within which it goes on, or None
  renewal,       \* per worker: the deadlines it is about to store, or None
  scan,          \* per monitor: its scan in is_healthy(), or None
  victim         \* the worker whose suicide deadline was found to have passed

mapVars == <<m_workers, handle_id, timeout, suicide_timeout, armed_by>>
workerVars == <<wpc, due, renewal>>
vars == <<threadVars, aborted, mapVars, workerVars, scan, victim>>

Init ==
  /\ ThreadInit
  /\ m_workers = <<>>
  /\ handle_id = [w \in Workers |-> None]
  /\ timeout = [w \in Workers |-> None]
  /\ suicide_timeout = [w \in Workers |-> None]
  /\ armed_by = [w \in Workers |-> "idle"]
  /\ wpc = [w \in Workers |-> "out"]
  /\ due = [w \in Workers |-> None]
  /\ renewal = [w \in Workers |-> None]
  /\ scan = [m \in Monitors |-> None]
  /\ victim = None

\* w goes on to the next place, from which it has to go on within the given time.
Goto(w, to, within) ==
  /\ wpc' = [wpc EXCEPT ![w] = to]
  /\ due' = [due EXCEPT ![w] = within]

\* A deadline one tick later.  How far it has passed matters up to Delay only.
Down(t) == IF t = None \/ t < -Delay THEN t ELSE t - 1

Later(rn) ==
  IF rn = None THEN None
  ELSE [timeout |-> Down(rn.timeout), suicide |-> Down(rn.suicide)]

\* A scan of is_healthy(): how long ago it read the clock, the handles it has
\* still to check, whether the next one's timeout is checked, and its counts.
ScanOf(a, r, l, u, n) ==
  [age |-> a, rest |-> r, loaded |-> l, unhealthy |-> u, total |-> n]

Older(s) == ScanOf(s.age + 1, s.rest, s.loaded, s.unhealthy, s.total)

\* Time passes while nobody is kept waiting too long.
Tick ==
  /\ \A w \in Workers : due[w] # 0
  /\ \A m \in Monitors : scan[m] # None => scan[m].age < Delay
  /\ timeout' = [w \in Workers |-> Down(timeout[w])]
  /\ suicide_timeout' = [w \in Workers |-> Down(suicide_timeout[w])]
  /\ due' = [w \in Workers |-> Down(due[w])]
  /\ renewal' = [w \in Workers |-> Later(renewal[w])]
  /\ scan' = [m \in Monitors |-> IF scan[m] = None THEN None ELSE Older(scan[m])]
  /\ UNCHANGED <<threadVars, aborted, m_workers, handle_id, armed_by, wpc, victim>>

-----------------------------------------------------------------------------
(* The map.                                                                *)

\* Some is_healthy() has m_rwlock for reading.
Scanned == \E m \in Monitors : scan[m] # None

\* add_worker(), first thing in the thread.
AddWorker(w) ==
  /\ wpc[w] = "out"
  /\ ~Scanned
  /\ \E i \in PthreadIds :
       /\ obj[i] = w /\ state[i] = "running"
       /\ handle_id' = [handle_id EXCEPT ![w] = i]
  /\ m_workers' = <<w>> \o m_workers
  /\ Goto(w, "loop", Delay)
  /\ UNCHANGED <<threadVars, aborted, timeout, suicide_timeout, armed_by, renewal,
                 scan, victim>>

\* Faulty variant: the handle stays in the list.
KeepEntry(w) == UNCHANGED m_workers

DropEntry(w) ==
  \E i \in DOMAIN m_workers :
    m_workers[i] = w /\ m_workers' = RemoveAt(m_workers, i)

\* remove_worker(), last thing in the thread; the handle is deleted.
RemoveWorker(w) ==
  /\ wpc[w] = "loop"
  /\ ~Scanned
  /\ DropEntry(w)
  /\ timeout' = [timeout EXCEPT ![w] = None]
  /\ suicide_timeout' = [suicide_timeout EXCEPT ![w] = None]
  /\ handle_id' = [handle_id EXCEPT ![w] = None]
  /\ armed_by' = [armed_by EXCEPT ![w] = "idle"]
  /\ Goto(w, "left", None)
  /\ UNCHANGED <<threadVars, aborted, renewal, scan, victim>>

\* The two tests of _check(), with the clock as it was `age` ago.
TimedOut(w, age) == timeout[w] # None /\ timeout[w] < -age
Overdue(w, age) == suicide_timeout[w] # None /\ suicide_timeout[w] < -age

\* _check() finds the suicide deadline passed: signal the worker and, a second
\* later, whatever happens meanwhile, abort the process.
Suicide(w) ==
  /\ PthreadKill(handle_id[w])
  /\ victim' = w
  /\ aborted' = TRUE
  /\ UNCHANGED <<fieldVars, obj, state, detached, affinity, asked, let_go, mapVars,
                 workerVars, scan>>

\* Faulty variant: a renewal does not look at the deadline it replaces.
RenewUnchecked(w) == FALSE

\* reset_timeout() and clear_timeout() check before they store.
RenewTooLate(w) == Overdue(w, 0)

\* The beginning of both: read the clock and check.
Renew(w, new, then) ==
  IF RenewTooLate(w)
  THEN Suicide(w)
  ELSE /\ renewal' = [renewal EXCEPT ![w] = new]
       /\ Goto(w, then, Delay)
       /\ UNCHANGED <<threadVars, aborted, mapVars, scan, victim>>

\* Faulty variant: both deadlines from the first grace.
ResetOneGrace(g) == [timeout |-> g[1], suicide |-> IF g[2] > 0 THEN g[1] ELSE None]

\* The deadlines of reset_timeout(); a suicide_grace of zero is none.
Reset(g) == [timeout |-> g[1], suicide |-> IF g[2] > 0 THEN g[2] ELSE None]

\* The deadlines of clear_timeout(): none.
Clear == [timeout |-> None, suicide |-> None]

\* Store one deadline ...
StoreTimeout(w) ==
  /\ renewal[w] # None
  /\ timeout[w] # renewal[w].timeout
  /\ timeout' = [timeout EXCEPT ![w] = renewal[w].timeout]
  /\ UNCHANGED <<threadVars, aborted, m_workers, handle_id, suicide_timeout, armed_by,
                 workerVars, scan, victim>>

\* ... and the other, and go on: to sleep, or to the user's code.
StoreSuicide(w) ==
  /\ renewal[w] # None
  /\ timeout[w] = renewal[w].timeout
  /\ suicide_timeout' = [suicide_timeout EXCEPT ![w] = renewal[w].suicide]
  /\ renewal' = [renewal EXCEPT ![w] = None]
  /\ IF wpc[w] = "to sleep"
     THEN armed_by' = [armed_by EXCEPT ![w] = "idle"] /\ Goto(w, "asleep", Sleep)
     ELSE armed_by' = [armed_by EXCEPT ![w] = "item"] /\ Goto(w, "working", None)
  /\ UNCHANGED <<threadVars, aborted, m_workers, handle_id, timeout, scan, victim>>

-----------------------------------------------------------------------------
(* The workers, as ThreadPool::worker() goes round.                        *)

\* Nothing to do: arm the handle with the graces of the pool and sleep.
Idle(w) == wpc[w] = "loop" /\ Renew(w, Reset(<<TpGrace, TpSuicide>>), "to sleep")

\* An item: arm the handle with the graces of its queue.
Item(w) == wpc[w] = "loop" /\ \E g \in QueueGraces : Renew(w, Reset(g), "to work")

\* reset_tp_timeout() and suspent_tp_timeout() in the user's code.
UserRenews(w) ==
  /\ wpc[w] = "working"
  /\ \/ \E g \in QueueGraces : Renew(w, Reset(g), "to work")
     \/ Renew(w, Clear, "to work")

\* wait_for() ends, or the user's code returns.
Wake(w) == wpc[w] = "asleep" /\ Goto(w, "loop", Delay)
           /\ UNCHANGED <<threadVars, aborted, mapVars, renewal, scan, victim>>
Done(w) == wpc[w] = "working" /\ Goto(w, "loop", Delay)
           /\ UNCHANGED <<threadVars, aborted, mapVars, renewal, scan, victim>>

\* The thread of a worker: create() and join() by the pool, entry() in between.
WorkerThread(w) ==
  /\ \/ /\ Create(w) \/ CreateFails(w)
        /\ UNCHANGED workerVars
     \/ \E i \in PthreadIds : obj[i] = w /\ EntryWrapper(i) /\ UNCHANGED workerVars
     \/ /\ wpc[w] = "left"
        /\ \E i \in PthreadIds : obj[i] = w /\ Exit(i)
        /\ Goto(w, "out", None)
        /\ UNCHANGED renewal
     \/ thread_id[w] # None /\ Join(w) /\ UNCHANGED workerVars
  /\ UNCHANGED <<mapVars, scan, victim>>

\* The steps of a worker inside the pool's code and in the map.
PoolStep(w) ==
  \/ AddWorker(w) \/ RemoveWorker(w)
  \/ Idle(w) \/ Item(w) \/ Wake(w)
  \/ StoreTimeout(w) \/ StoreSuicide(w)

\* The steps the user's code makes.
UserStep(w) == UserRenews(w) \/ Done(w)

-----------------------------------------------------------------------------
(* is_healthy().                                                           *)

\* Take m_rwlock for reading, then the time.
ScanBegin(m) ==
  /\ scan[m] = None
  /\ scan' = [scan EXCEPT ![m] = ScanOf(0, m_workers, FALSE, 0, 0)]
  /\ UNCHANGED <<threadVars, aborted, mapVars, workerVars, victim>>

\* _check() of the next handle: first the timeout ...
ScanTimeout(m) ==
  LET s == scan[m] IN
  /\ s # None /\ s.rest # <<>> /\ ~s.loaded
  /\ scan' = [scan EXCEPT ![m] =
       ScanOf(s.age, s.rest, TRUE,
              s.unhealthy + (IF TimedOut(Head(s.rest), s.age) THEN 1 ELSE 0), s.total)]
  /\ UNCHANGED <<threadVars, aborted, mapVars, workerVars, victim>>

\* Faulty variant: the loop ends with the first unhealthy worker.
StopAtUnhealthy(s) == IF s.unhealthy > 0 THEN <<>> ELSE Tail(s.rest)

NextHandles(s) == Tail(s.rest)

\* ... then the suicide deadline.
ScanSuicide(m) ==
  LET s == scan[m] IN
  /\ s # None /\ s.loaded
  /\ IF Overdue(Head(s.rest), s.age)
     THEN Suicide(Head(s.rest))
     ELSE /\ scan' = [scan EXCEPT ![m] =
               ScanOf(s.age, NextHandles(s), FALSE, s.unhealthy, s.total + 1)]
          /\ UNCHANGED <<threadVars, aborted, mapVars, workerVars, victim>>

\* Release the lock and return.
ScanEnd(m) ==
  /\ scan[m] # None /\ scan[m].rest = <<>>
  /\ scan' = [scan EXCEPT ![m] = None]
  /\ UNCHANGED <<threadVars, aborted, mapVars, workerVars, victim>>

MonitorNext(m) == ScanBegin(m) \/ ScanTimeout(m) \/ ScanSuicide(m) \/ ScanEnd(m)

-----------------------------------------------------------------------------

\* Other users of ThreadBase in the same process do with their objects what
\* they like.
OtherThread(o) ==
  /\ o \notin Workers
  /\ ObjectNext(o)
  /\ UNCHANGED <<mapVars, workerVars, scan, victim>>

Next ==
  /\ ~aborted
  /\ \/ Tick
     \/ \E w \in Workers : WorkerThread(w) \/ PoolStep(w) \/ UserStep(w)
     \/ \E m \in Monitors : MonitorNext(m)
     \/ \E o \in Objects : OtherThread(o)

Spec == Init /\ [][Next]_vars

-----------------------------------------------------------------------------
(* Properties.                                                             *)

\* A handle that a scan may look at belongs to a thread that is running, the
\* one whose id it holds: the list names no thread that has ended, so _check()
\* never reads a deleted handle or signals another thread under a reused id.
HandlesAlive ==
  /\ \A w \in ToSet(m_workers) :
       \E i \in PthreadIds : /\ handle_id[w] = i
                             /\ obj[i] = w /\ state[i] = "running"
  /\ \A m \in Monitors :
       scan[m] # None => ToSet(scan[m].rest) \subseteq ToSet(m_workers)

\* A pool whose tp_suicide_grace covers the sleep of an idle worker and the
\* delays on the way into it and out of it is never aborted on account of a
\* worker that had nothing to do: only the user's code can take too long.
IdleNotKilled ==
  TpSuicide >= Sleep + 3 * Delay /\ victim # None => armed_by[victim] # "idle"

\* A worker that has overrun its suicide deadline is not let back by its own
\* renewal, not even when no monitor looks: a deadline that is replaced was
\* still ahead when the renewal began.  (remove_worker() does not check.)
NoLateRenewal ==
  \A w \in Workers :
    renewal[w] # None /\ suicide_timeout[w] # None => suicide_timeout[w] >= -Delay

\* A scan passes over nobody: when it ends it has counted every worker in the
\* list, among the unhealthy every one that is still past the timeout it had
\* when the scan began, and no worker is left that had overrun its suicide
\* deadline by then, although deadlines change under the scan.
ScanMissesNobody ==
  \A m \in Monitors :
    scan[m] # None /\ scan[m].rest = <<>> =>
      /\ scan[m].total = Len(m_workers)
      /\ scan[m].unhealthy >=
           Cardinality({w \in ToSet(m_workers) : TimedOut(w, scan[m].age)})
      /\ \A w \in ToSet(m_workers) : ~Overdue(w, scan[m].age)

=============================================================================
