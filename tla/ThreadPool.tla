----------------------------- MODULE ThreadPool -----------------------------
(***************************************************************************)
(* The thread pool of Paas/ThreadPool.{h,cpp}: a queue of tasks by         *)
(* priority, a number of workers that grows and shrinks with it, and the   *)
(* two mutexes.  What m_taskmutex covers is one step, except that addTask  *)
(* keeps it while it waits for m_threadmutex to add a worker; stop keeps   *)
(* m_threadmutex while it joins.  Sizes are also read without any lock.    *)
(***************************************************************************)
EXTENDS Integers, FiniteSets

CONSTANTS Workers,    \* thread identities, more than the pool may use
          Producers,  \* threads that call addTask
          None,       \* nobody, no task
          MinSize,    \* m_minThreadsSize
          MaxSize,    \* m_maxThreadsSize
          QueueSize,  \* m_TaskQueueSize
          Levels,     \* the levels that callers use
          Reserved,   \* m_ReservedQSizeForFirstTask
          MaxTasks,   \* bound on the calls of addTask
          Faults      \* "thread": std::thread raises; "spurious": spurious wakeups

ASSUME ThreadsAssumption ==
  IsFiniteSet(Workers) /\ IsFiniteSet(Producers) /\ None \notin Workers \cup Producers
ASSUME SizesAssumption ==
  /\ MinSize \in Nat \ {0} /\ MaxSize \in Nat /\ MinSize <= MaxSize
  /\ MaxSize < Cardinality(Workers)
  /\ QueueSize \in Nat /\ Reserved \in Nat /\ Reserved < QueueSize
  /\ MaxTasks \in Nat /\ Levels \subseteq 0..2
ASSUME FaultsAssumption == Faults \subseteq {"thread", "spurious"}

VARIABLES
  m_isStarted,
  m_threads,      \* the workers in m_threads
  m_tasks,        \* the number of queued tasks of each level
  m_taskmutex,    \* who keeps m_taskmutex between two steps
  m_threadmutex,  \* whether stop keeps m_threadmutex
  main,           \* where the owner of the pool is: start and stop
  made,           \* i in start
  worker,         \* where each worker is
  producer,       \* where each producer is
  offer,          \* what each producer wants to add
  added           \* the number of addTask calls

vars == <<m_isStarted, m_threads, m_tasks, m_taskmutex, m_threadmutex, main, made,
          worker, producer, offer, added>>

\* The two forms of addTask: with a level, or without one, which means level2
\* and respects the reserved part of the queue.
Offers == [level : Levels, pair : {TRUE}] \cup [level : {2}, pair : {FALSE}]

\* m_tasks.size() and m_tasks.empty()
Size == m_tasks[0] + m_tasks[1] + m_tasks[2]
Empty == Size = 0

Asleep == {w \in Workers : worker[w] = "wait"}
Waiting == {p \in Producers : producer[p] = "wait"}

Goto(w, label) == worker' = [worker EXCEPT ![w] = label]

Init ==
  /\ m_isStarted = FALSE
  /\ m_threads = {}
  /\ m_tasks = [l \in 0..2 |-> 0]
  /\ m_taskmutex = None
  /\ m_threadmutex = FALSE
  /\ main = "new"
  /\ made = 0
  /\ worker = [w \in Workers |-> "off"]
  /\ producer = [p \in Producers |-> "idle"]
  /\ offer = [p \in Producers |-> None]
  /\ added = 0

\* notify_one on m_notEmpty and on m_notFull: one who waits will look again.
NotifyNotEmpty ==
  \/ Asleep = {} /\ UNCHANGED worker
  \/ \E w \in Asleep : Goto(w, "take")
NotifyNotFull ==
  \/ Waiting = {} /\ UNCHANGED producer
  \/ \E p \in Waiting : producer' = [producer EXCEPT ![p] = "add"]

\* A new thread in threadloop, or none when std::thread raises.
AddThread ==
  \/ /\ \E w \in Workers : worker[w] = "off"
     /\ LET w == CHOOSE v \in Workers : worker[v] = "off"
        IN  m_threads' = m_threads \cup {w} /\ Goto(w, "loop")
  \/ "thread" \in Faults /\ UNCHANGED <<m_threads, worker>>

-----------------------------------------------------------------------------
(* start and stop *)

Start ==
  /\ main = "new"
  /\ m_threads = {}
  /\ m_isStarted' = TRUE
  /\ main' = "starting"
  /\ UNCHANGED <<m_threads, m_tasks, m_taskmutex, m_threadmutex, made, worker,
                 producer, offer, added>>

StartThread ==
  /\ main = "starting"
  /\ IF made < MinSize
     THEN made' = made + 1 /\ AddThread /\ UNCHANGED main
     ELSE main' = "started" /\ UNCHANGED <<made, m_threads, worker>>
  /\ UNCHANGED <<m_isStarted, m_tasks, m_taskmutex, m_threadmutex, producer, offer, added>>

\* stop, also by the destructor.  It notifies m_cond, on which nobody waits.
Stop ==
  /\ main = "started"
  /\ ~m_threadmutex
  /\ m_threadmutex' = TRUE
  /\ m_isStarted' = FALSE
  /\ main' = "joining"
  /\ UNCHANGED <<m_threads, m_tasks, m_taskmutex, made, worker, producer, offer, added>>

\* All workers in m_threads have ended.
StopReturn ==
  /\ main = "joining"
  /\ \A w \in m_threads : worker[w] = "end"
  /\ m_threads' = {}
  /\ worker' = [w \in Workers |-> IF w \in m_threads THEN "off" ELSE worker[w]]
  /\ m_threadmutex' = FALSE
  /\ main' = "stopped"
  /\ UNCHANGED <<m_isStarted, m_tasks, m_taskmutex, made, producer, offer, added>>

-----------------------------------------------------------------------------
(* addTask *)

\* A call begins between start and stop; it may still be under way after stop.
AddCall(p) ==
  /\ main = "started"
  /\ producer[p] = "idle"
  /\ added < MaxTasks
  /\ added' = added + 1
  /\ \E o \in Offers : offer' = [offer EXCEPT ![p] = o]
  /\ producer' = [producer EXCEPT ![p] = "add"]
  /\ UNCHANGED <<m_isStarted, m_threads, m_tasks, m_taskmutex, m_threadmutex, main,
                 made, worker>>

Mut_tasksIsFull == Size > QueueSize
\* QueueSize is positive.
tasksIsFull == Size >= QueueSize

haveQueueSizeForFirstTasks == Size < QueueSize - Reserved

\* The loops before the push: with a level only the first of them is there.
MustWait(o) == tasksIsFull \/ (~o.pair /\ ~haveQueueSizeForFirstTasks)

AddWait(p) ==
  /\ producer[p] = "add"
  /\ m_taskmutex = None
  /\ MustWait(offer[p])
  /\ producer' = [producer EXCEPT ![p] = "wait"]
  /\ UNCHANGED <<m_isStarted, m_threads, m_tasks, m_taskmutex, m_threadmutex, main,
                 made, worker, offer, added>>

\* The test for another worker, which reads m_threads.size() without its lock.
WantsThread(o) ==
  /\ Size' >= IF o.pair THEN QueueSize \div 2 ELSE Cardinality(m_threads) * 2
  /\ Cardinality(m_threads) < MaxSize

Mut_Push(p) ==
  /\ producer[p] = "add"
  /\ m_taskmutex = None
  /\ ~MustWait(offer[p])
  /\ m_tasks' = [m_tasks EXCEPT ![offer[p].level] = @ + 1]
  /\ IF Empty THEN NotifyNotEmpty ELSE UNCHANGED worker
  /\ IF WantsThread(offer[p])
     THEN m_taskmutex' = p /\ producer' = [producer EXCEPT ![p] = "grow"]
     ELSE UNCHANGED m_taskmutex /\ producer' = [producer EXCEPT ![p] = "idle"]
  /\ offer' = [offer EXCEPT ![p] = None]
  /\ UNCHANGED <<m_isStarted, m_threads, m_threadmutex, main, made, added>>
\* The lock is released at the end of the function: not before a worker that
\* is wanted has been added.
Push(p) ==
  /\ producer[p] = "add"
  /\ m_taskmutex = None
  /\ ~MustWait(offer[p])
  /\ m_tasks' = [m_tasks EXCEPT ![offer[p].level] = @ + 1]
  /\ NotifyNotEmpty
  /\ IF WantsThread(offer[p])
     THEN m_taskmutex' = p /\ producer' = [producer EXCEPT ![p] = "grow"]
     ELSE UNCHANGED m_taskmutex /\ producer' = [producer EXCEPT ![p] = "idle"]
  /\ offer' = [offer EXCEPT ![p] = None]
  /\ UNCHANGED <<m_isStarted, m_threads, m_threadmutex, main, made, added>>

\* The new worker is added under both locks.
Grow(p) ==
  /\ producer[p] = "grow"
  /\ ~m_threadmutex
  /\ AddThread
  /\ m_taskmutex' = None
  /\ producer' = [producer EXCEPT ![p] = "idle"]
  /\ UNCHANGED <<m_isStarted, m_tasks, m_threadmutex, main, made, offer, added>>

-----------------------------------------------------------------------------
(* threadloop, take and eraseCurrentThread *)

Mut_LoopTest(w) ==
  /\ worker[w] = "loop"
  /\ Goto(w, "take")
  /\ UNCHANGED <<m_isStarted, m_threads, m_tasks, m_taskmutex, m_threadmutex, main,
                 made, producer, offer, added>>
\* while (m_isStarted)
LoopTest(w) ==
  /\ worker[w] = "loop"
  /\ Goto(w, IF m_isStarted THEN "take" ELSE "end")
  /\ UNCHANGED <<m_isStarted, m_threads, m_tasks, m_taskmutex, m_threadmutex, main,
                 made, producer, offer, added>>

TakeWait(w) ==
  /\ worker[w] = "take"
  /\ m_taskmutex = None
  /\ Empty /\ m_isStarted
  /\ Goto(w, "wait")
  /\ UNCHANGED <<m_isStarted, m_threads, m_tasks, m_taskmutex, m_threadmutex, main,
                 made, producer, offer, added>>

\* The level of m_tasks.top(): the smallest one.
Top == CHOOSE l \in 0..2 : m_tasks[l] > 0 /\ \A k \in 0..l - 1 : m_tasks[k] = 0

Mut_Take(w) ==
  /\ worker[w] = "take"
  /\ m_taskmutex = None
  /\ ~Empty \/ ~m_isStarted
  /\ IF m_isStarted
     THEN /\ m_tasks' = [m_tasks EXCEPT ![Top] = @ - 1]
          /\ IF tasksIsFull THEN NotifyNotFull ELSE UNCHANGED producer
     ELSE UNCHANGED <<m_tasks, producer>>
  /\ Goto(w, "run")
  /\ UNCHANGED <<m_isStarted, m_threads, m_taskmutex, m_threadmutex, main, made,
                 offer, added>>
\* take returns true in any case: after stop the worker processes an empty
\* task once, whatever is queued.
Take(w) ==
  /\ worker[w] = "take"
  /\ m_taskmutex = None
  /\ ~Empty \/ ~m_isStarted
  /\ IF m_isStarted
     THEN /\ m_tasks' = [m_tasks EXCEPT ![Top] = @ - 1]
          /\ NotifyNotFull
     ELSE UNCHANGED <<m_tasks, producer>>
  /\ Goto(w, "run")
  /\ UNCHANGED <<m_isStarted, m_threads, m_taskmutex, m_threadmutex, main, made,
                 offer, added>>

\* process() returns and the sizes are looked at, without a lock.
Processed(w) ==
  /\ worker[w] = "run"
  /\ Goto(w, IF Empty /\ Cardinality(m_threads) > MinSize THEN "erase" ELSE "loop")
  /\ UNCHANGED <<m_isStarted, m_threads, m_tasks, m_taskmutex, m_threadmutex, main,
                 made, producer, offer, added>>

Mut_eraseCurrentThread(w) ==
  /\ worker[w] = "erase"
  /\ ~m_threadmutex
  /\ IF Empty
     THEN m_threads' = m_threads \ {w} /\ Goto(w, "off")
     ELSE UNCHANGED m_threads /\ Goto(w, "loop")
  /\ UNCHANGED <<m_isStarted, m_tasks, m_taskmutex, m_threadmutex, main, made,
                 producer, offer, added>>
\* Under m_threadmutex the worker looks again and leaves, or stays.
eraseCurrentThread(w) ==
  /\ worker[w] = "erase"
  /\ ~m_threadmutex
  /\ IF Cardinality(m_threads) > MinSize /\ Empty
     THEN m_threads' = m_threads \ {w} /\ Goto(w, "off")
     ELSE UNCHANGED m_threads /\ Goto(w, "loop")
  /\ UNCHANGED <<m_isStarted, m_tasks, m_taskmutex, m_threadmutex, main, made,
                 producer, offer, added>>

Spurious ==
  /\ "spurious" \in Faults
  /\ \/ (\E w \in Asleep : Goto(w, "take")) /\ UNCHANGED producer
     \/ /\ \E p \in Waiting : producer' = [producer EXCEPT ![p] = "add"]
        /\ UNCHANGED worker
  /\ UNCHANGED <<m_isStarted, m_threads, m_tasks, m_taskmutex, m_threadmutex, main,
                 made, offer, added>>

-----------------------------------------------------------------------------
threadloop(w) == LoopTest(w) \/ TakeWait(w) \/ Take(w) \/ Processed(w) \/ eraseCurrentThread(w)

addTask(p) == AddWait(p) \/ Push(p) \/ Grow(p)

Next ==
  \/ Start \/ StartThread \/ Stop \/ StopReturn
  \/ \E p \in Producers : AddCall(p) \/ addTask(p)
  \/ \E w \in Workers : threadloop(w)
  \/ Spurious

Spec == Init /\ [][Next]_vars

\* Threads that do not wait go on, and process() returns.  Nothing is assumed
\* about who gets a mutex that comes free.
FairSpec ==
  /\ Spec
  /\ WF_vars(StartThread) /\ WF_vars(StopReturn)
  /\ \A w \in Workers : WF_vars(threadloop(w))
  /\ \A p \in Producers : WF_vars(addTask(p))

-----------------------------------------------------------------------------
(* Properties *)

\* Type correctness.
TypeOK ==
  /\ m_isStarted \in BOOLEAN
  /\ m_threads \subseteq Workers
  /\ m_tasks \in [0..2 -> 0..QueueSize]
  /\ m_taskmutex \in Producers \cup {None}
  /\ m_threadmutex \in BOOLEAN
  /\ main \in {"new", "starting", "started", "joining", "stopped"}
  /\ made \in 0..MinSize
  /\ worker \in [Workers -> {"off", "loop", "take", "wait", "run", "erase", "end"}]
  /\ producer \in [Producers -> {"idle", "add", "wait", "grow"}]
  /\ offer \in [Producers -> Offers \cup {None}]
  /\ added \in 0..MaxTasks

\* While a worker sleeps in take, every queued task has an awake worker of its
\* own that will come for it: one notify_one for each push is enough, although
\* workers leave on sizes they read without m_taskmutex.
EnoughNotified ==
  m_isStarted /\ Asleep # {} =>
    Size <=
      Cardinality({w \in m_threads : worker[w] \in {"loop", "take", "erase"}})

\* The number of workers stays within m_maxThreadsSize, although addTask reads
\* it before it has m_threadmutex, and workers that leave at the same time do
\* not leave fewer than m_minThreadsSize behind.
ThreadsBounded ==
  [][/\ Cardinality(m_threads') <= MaxSize
     /\ main # "joining" /\ Cardinality(m_threads') < Cardinality(m_threads) =>
          Cardinality(m_threads') >= MinSize]_vars

\* Nothing more happens to tasks: stop was called, or no thread could be made.
Idle == ~m_isStarted \/ m_threads = {}

\* Once the load pauses, whoever waits in addTask gets the task in and every
\* queued task is taken, unless the pool is stopped or has no worker: although
\* m_notFull wakes only one, who may find the reserved part in the way.
PoolDrains == (~Empty \/ Waiting # {}) ~> ((Empty /\ Waiting = {}) \/ Idle)

\* What keeps stop waiting: a worker asleep, which m_cond does not wake, one
\* that waits for the mutex stop has, and a producer that waits for it with
\* m_taskmutex in its hands.
Hung ==
  \/ \E w \in m_threads : worker[w] \in {"wait", "erase"}
  \/ \E p \in Producers : producer[p] = "grow"

\* stop returns unless one of those three holds for ever.
StopReturns == main = "joining" ~> (main = "stopped" \/ []Hung)
=============================================================================
