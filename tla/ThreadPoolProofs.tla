-------------------------- MODULE ThreadPoolProofs --------------------------
(***************************************************************************)
(* Proofs about ThreadPool, for every number of producers, all sizes of    *)
(* the pool and of the queue, every set of levels and of faults.           *)
(***************************************************************************)
EXTENDS ThreadPool, FiniteSetTheorems, TLAPS

-----------------------------------------------------------------------------
(* The inductive invariant *)

Labels == {"off", "loop", "take", "wait", "run", "erase", "end"}

\* m_threads has exactly the workers that exist.
WorkersInv ==
  /\ m_threads \subseteq Workers
  /\ worker \in [Workers -> Labels]
  /\ \A w \in Workers : w \in m_threads <=> worker[w] # "off"

\* The queue as a whole respects its size, not only each level.
QueueInv ==
  /\ m_tasks \in [0..2 -> Nat]
  /\ Size <= QueueSize

\* A producer on its way to the push has its task, and m_taskmutex is kept by
\* the one producer that waits for m_threadmutex.
ProducersInv ==
  /\ producer \in [Producers -> {"idle", "add", "wait", "grow"}]
  /\ offer \in [Producers -> Offers \cup {None}]
  /\ m_taskmutex \in Producers \cup {None}
  /\ \A p \in Producers : producer[p] \in {"add", "wait"} => offer[p] \in Offers
  /\ \A p \in Producers : producer[p] = "grow" <=> m_taskmutex = p
  /\ main \in {"new", "starting"} => \A p \in Producers : producer[p] = "idle"

\* start and stop.
MainInv ==
  /\ m_isStarted \in BOOLEAN
  /\ m_threadmutex \in BOOLEAN
  /\ main \in {"new", "starting", "started", "joining", "stopped"}
  /\ made \in 0..MinSize
  /\ added \in 0..MaxTasks

\* Room for another worker: start has made no more than it counted, and what
\* addTask read without m_threadmutex still holds when it gets that, because
\* m_taskmutex keeps every other producer from adding one in between.
RoomInv ==
  /\ Cardinality(m_threads) <= MaxSize
  /\ m_taskmutex # None => Cardinality(m_threads) < MaxSize
  /\ main = "starting" => Cardinality(m_threads) <= made

\* The workers that will look into the queue once more.
Awake == {w \in m_threads : worker[w] \in {"loop", "take", "erase"}}

IInv ==
  /\ WorkersInv
  /\ QueueInv
  /\ ProducersInv
  /\ MainInv
  /\ RoomInv
  /\ EnoughNotified

-----------------------------------------------------------------------------
(* Helpers *)

\* The number of workers is a natural number, as is that of the awake ones.
LEMMA Counted ==
  ASSUME WorkersInv
  PROVE  /\ IsFiniteSet(m_threads) /\ Cardinality(m_threads) \in Nat
         /\ IsFiniteSet(Awake) /\ Cardinality(Awake) \in Nat
<1>1. IsFiniteSet(m_threads)
  BY ThreadsAssumption, FS_Subset DEF WorkersInv
<1>2. IsFiniteSet(Awake)
  BY <1>1, FS_Subset DEF Awake
<1> QED
  BY <1>1, <1>2, FS_CardinalityType

\* AddThread adds a worker that was not there, or none.
LEMMA AddThreadEffect ==
  ASSUME WorkersInv, AddThread
  PROVE  \/ \E w \in Workers : /\ worker[w] = "off"
                               /\ m_threads' = m_threads \cup {w}
                               /\ worker' = [worker EXCEPT ![w] = "loop"]
         \/ UNCHANGED <<m_threads, worker>>
<1>1. CASE UNCHANGED <<m_threads, worker>>
  BY <1>1
<1>2. CASE \E w \in Workers : worker[w] = "off"
  <2> DEFINE w == CHOOSE v \in Workers : worker[v] = "off"
  <2>1. w \in Workers /\ worker[w] = "off"
    BY <1>2
  <2>2. CASE m_threads' = m_threads \cup {w} /\ Goto(w, "loop")
    BY <2>1, <2>2 DEF Goto
  <2> QED
    BY <1>1, <2>2 DEF AddThread
<1> QED
  BY <1>1, <1>2 DEF AddThread

\* A worker more.
LEMMA AddThreadCount ==
  ASSUME WorkersInv, AddThread
  PROVE  /\ WorkersInv'
         /\ Cardinality(m_threads) <= Cardinality(m_threads')
         /\ Cardinality(m_threads') <= Cardinality(m_threads) + 1
         /\ Cardinality(Awake) <= Cardinality(Awake')
         /\ Asleep' \subseteq Asleep
<1>1. CASE UNCHANGED <<m_threads, worker>>
  <2>1. WorkersInv'
    BY <1>1 DEF WorkersInv
  <2>2. Awake' = Awake /\ Asleep' = Asleep
    BY <1>1 DEF Awake, Asleep
  <2> QED
    BY <1>1, <2>1, <2>2, Counted
<1>2. ASSUME NEW w \in Workers, worker[w] = "off", m_threads' = m_threads \cup {w},
             worker' = [worker EXCEPT ![w] = "loop"]
      PROVE  /\ WorkersInv'
             /\ Cardinality(m_threads') = Cardinality(m_threads) + 1
             /\ Cardinality(Awake') = Cardinality(Awake) + 1
             /\ Asleep' \subseteq Asleep
  <2>1. WorkersInv'
    BY <1>2 DEF WorkersInv, Labels
  <2>2. w \notin m_threads /\ w \notin Awake
    BY <1>2 DEF WorkersInv, Awake
  <2>3. Awake' = Awake \cup {w}
    BY <1>2 DEF WorkersInv, Awake
  <2>4. Asleep' \subseteq Asleep
    BY <1>2 DEF WorkersInv, Asleep
  <2> QED
    BY <1>2, <2>1, <2>2, <2>3, <2>4, Counted, FS_AddElement
<1> QED
  BY <1>1, <1>2, AddThreadEffect, Counted

\* What a move of one worker does to the number of awake ones.
LEMMA GotoCount ==
  ASSUME WorkersInv, NEW w \in Workers, NEW label \in Labels \ {"off"},
         worker[w] # "off", Goto(w, label), UNCHANGED m_threads
  PROVE  /\ WorkersInv'
         /\ worker[w] \notin {"loop", "take", "erase"} /\ label \in {"loop", "take", "erase"} =>
              Cardinality(Awake') = Cardinality(Awake) + 1
         /\ worker[w] \in {"loop", "take", "erase"} /\ label \notin {"loop", "take", "erase"} =>
              Cardinality(Awake') = Cardinality(Awake) - 1
         /\ (worker[w] \in {"loop", "take", "erase"} <=> label \in {"loop", "take", "erase"}) =>
              Cardinality(Awake') = Cardinality(Awake)
         /\ label # "wait" => Asleep' \subseteq Asleep
<1> USE DEF WorkersInv, Goto, Awake
<1>1. WorkersInv'
  BY DEF Labels
<1>2. ASSUME worker[w] \notin {"loop", "take", "erase"}, label \in {"loop", "take", "erase"}
      PROVE  Cardinality(Awake') = Cardinality(Awake) + 1
  <2>1. Awake' = Awake \cup {w} /\ w \notin Awake
    BY <1>2
  <2> HIDE DEF Awake
  <2> QED
    BY <2>1, Counted, FS_AddElement
<1>3. ASSUME worker[w] \in {"loop", "take", "erase"}, label \notin {"loop", "take", "erase"}
      PROVE  Cardinality(Awake') = Cardinality(Awake) - 1
  <2>1. Awake' = Awake \ {w} /\ w \in Awake
    BY <1>3
  <2> HIDE DEF Awake
  <2> QED
    BY <2>1, Counted, FS_RemoveElement
<1>4. ASSUME worker[w] \in {"loop", "take", "erase"} <=> label \in {"loop", "take", "erase"}
      PROVE  Awake' = Awake
  BY <1>4
<1>5. label # "wait" => Asleep' \subseteq Asleep
  BY DEF Asleep
<1> HIDE DEF Awake, WorkersInv
<1> QED
  BY <1>1, <1>2, <1>3, <1>4, <1>5

\* notify_one on m_notEmpty: nobody sleeps, or one more worker is awake.
LEMMA NotifyNotEmptyEffect ==
  ASSUME WorkersInv, NotifyNotEmpty, UNCHANGED m_threads
  PROVE  /\ WorkersInv'
         /\ \/ Asleep' = {}
            \/ /\ Asleep # {}
               /\ Cardinality(Awake') = Cardinality(Awake) + 1
<1>1. CASE Asleep = {} /\ UNCHANGED worker
  BY <1>1 DEF WorkersInv, Asleep
<1>2. ASSUME NEW w \in Asleep, Goto(w, "take")
      PROVE  WorkersInv' /\ Cardinality(Awake') = Cardinality(Awake) + 1
  BY <1>2, GotoCount DEF Asleep, Labels
<1> QED
  BY <1>1, <1>2 DEF NotifyNotEmpty

\* The task on top is there.
LEMMA TopEffect ==
  ASSUME QueueInv, ~Empty
  PROVE  Top \in 0..2 /\ m_tasks[Top] > 0
<1>1. m_tasks[0] \in Nat /\ m_tasks[1] \in Nat /\ m_tasks[2] \in Nat
  BY DEF QueueInv
<1>2. \E l \in 0..2 : m_tasks[l] > 0 /\ \A k \in 0..l - 1 : m_tasks[k] = 0
  <2>1. CASE m_tasks[0] > 0
    BY <2>1
  <2>2. CASE m_tasks[0] = 0 /\ m_tasks[1] > 0
    BY <2>2
  <2>3. CASE m_tasks[0] = 0 /\ m_tasks[1] = 0 /\ m_tasks[2] > 0
    <3>1. \A k \in 0..2 - 1 : m_tasks[k] = 0
      BY <2>3
    <3> QED
      BY <2>3, <3>1
  <2> QED
    BY <1>1, <2>1, <2>2, <2>3 DEF Empty, Size
<1> QED
  BY <1>2 DEF Top

\* What one task more or less does to the queue.
LEMMA SizeChange ==
  ASSUME QueueInv, NEW l \in 0..2, NEW n \in Nat, m_tasks' = [m_tasks EXCEPT ![l] = n]
  PROVE  /\ Size \in Nat /\ Size' \in Nat
         /\ m_tasks' \in [0..2 -> Nat]
         /\ Size' = Size - m_tasks[l] + n
<1>1. m_tasks[0] \in Nat /\ m_tasks[1] \in Nat /\ m_tasks[2] \in Nat
  BY DEF QueueInv
<1>2. m_tasks' \in [0..2 -> Nat]
  BY DEF QueueInv
<1>3. CASE l = 0
  BY <1>1, <1>2, <1>3 DEF Size, QueueInv
<1>4. CASE l = 1
  BY <1>1, <1>2, <1>4 DEF Size, QueueInv
<1>5. CASE l = 2
  BY <1>1, <1>2, <1>5 DEF Size, QueueInv
<1> QED
  BY <1>2, <1>3, <1>4, <1>5

\* The size of the queue is a natural number.
LEMMA SizeNat == QueueInv => Size \in Nat
BY DEF QueueInv, Size

\* EnoughNotified survives a step that wakes as many as it queues, lets nobody
\* fall asleep and does not start the pool.
LEMMA EnoughKept ==
  ASSUME IInv, WorkersInv', QueueInv',
         m_isStarted' => m_isStarted,
         \/ Asleep' = {}
         \/ /\ Asleep # {}
            /\ Size' - Cardinality(Awake') <= Size - Cardinality(Awake)
  PROVE  EnoughNotified'
<1>1. Cardinality(Awake) \in Nat /\ Size \in Nat
  BY Counted, SizeNat DEF IInv
<1>2. Cardinality(Awake)' \in Nat
  <2>1. IsFiniteSet(m_threads')
    BY ThreadsAssumption, FS_Subset DEF WorkersInv
  <2>2. IsFiniteSet(Awake')
    BY <2>1, FS_Subset DEF Awake
  <2> QED
    BY <2>2, FS_CardinalityType
<1>3. Size' \in Nat
  BY DEF QueueInv, Size
<1>4. m_isStarted /\ Asleep # {} => Size <= Cardinality(Awake)
  BY DEF IInv, EnoughNotified, Awake
<1>5. (m_isStarted /\ Asleep # {} => Size <= Cardinality(Awake))'
  BY <1>1, <1>2, <1>3, <1>4
<1> QED
  BY <1>5 DEF EnoughNotified, Awake

-----------------------------------------------------------------------------
(* Every step keeps the invariant *)

\* A pool without workers and tasks.
LEMMA InitIInv == Init => IInv
<1> SUFFICES ASSUME Init PROVE IInv
  OBVIOUS
<1> USE SizesAssumption DEF Init
<1>1. WorkersInv
  BY DEF WorkersInv, Labels
<1>2. QueueInv
  BY DEF QueueInv, Size
<1>3. ProducersInv
  BY ThreadsAssumption DEF ProducersInv
<1>4. MainInv
  <2>1. m_isStarted \in BOOLEAN /\ m_threadmutex \in BOOLEAN
    BY Zenon
  <2> QED
    BY <2>1 DEF MainInv
<1>5. RoomInv
  BY FS_EmptySet DEF RoomInv
<1>6. EnoughNotified
  BY DEF EnoughNotified, Asleep
<1> QED
  BY <1>1, <1>2, <1>3, <1>4, <1>5, <1>6 DEF IInv

\* start begins: there are no workers yet.
LEMMA StartInv == IInv /\ Start => IInv'
<1> SUFFICES ASSUME IInv, Start PROVE IInv'
  OBVIOUS
<1> USE DEF IInv, Start
<1>1. WorkersInv'
  BY DEF WorkersInv
<1>2. QueueInv'
  BY DEF QueueInv, Size
<1>3. ProducersInv'
  BY DEF ProducersInv
<1>4. MainInv'
  <2>1. m_isStarted' \in BOOLEAN
    BY Zenon
  <2> QED
    BY <2>1 DEF MainInv
<1>5. RoomInv'
  BY FS_EmptySet, SizesAssumption DEF RoomInv, MainInv
<1>6. Asleep' = {}
  BY DEF WorkersInv, Asleep
<1>7. EnoughNotified'
  BY <1>6 DEF EnoughNotified
<1> QED
  BY <1>1, <1>2, <1>3, <1>4, <1>5, <1>7

\* start makes the next worker, or returns.
LEMMA StartThreadInv == IInv /\ StartThread => IInv'
<1> SUFFICES ASSUME IInv, StartThread PROVE IInv'
  OBVIOUS
<1>1. QueueInv'
  BY DEF IInv, StartThread, QueueInv, Size
<1>2. ProducersInv'
  BY DEF IInv, StartThread, ProducersInv
<1>3. MainInv'
  BY SizesAssumption DEF IInv, StartThread, MainInv
<1>4. m_taskmutex = None
  BY DEF IInv, StartThread, ProducersInv
<1>5. Size' = Size
  BY DEF StartThread, Size
<1>6. CASE made < MinSize
  <2>1. AddThread
    BY <1>6 DEF StartThread
  <2>2. /\ WorkersInv'
        /\ Cardinality(m_threads') <= Cardinality(m_threads) + 1
        /\ Cardinality(Awake) <= Cardinality(Awake')
        /\ Asleep' \subseteq Asleep
    BY <2>1, AddThreadCount DEF IInv
  <2>3. Cardinality(m_threads) \in Nat /\ Cardinality(m_threads') \in Nat
    <3>1. IsFiniteSet(m_threads')
      BY <2>2, ThreadsAssumption, FS_Subset DEF WorkersInv
    <3> QED
      BY <3>1, Counted, FS_CardinalityType DEF IInv
  <2>4. RoomInv'
    BY <1>4, <1>6, <2>2, <2>3, SizesAssumption DEF IInv, StartThread, RoomInv, MainInv
  <2>5. Size' - Cardinality(Awake') <= Size - Cardinality(Awake)
    <3>1. IsFiniteSet(Awake')
      BY <2>2, ThreadsAssumption, FS_Subset DEF WorkersInv, Awake
    <3> QED
      BY <1>5, <2>2, <3>1, Counted, SizeNat, FS_CardinalityType DEF IInv
  <2>6. EnoughNotified'
    BY <1>1, <2>2, <2>5, EnoughKept DEF StartThread
  <2> QED
    BY <1>1, <1>2, <1>3, <2>2, <2>4, <2>6 DEF IInv
<1>7. CASE ~(made < MinSize)
  <2>1. WorkersInv' /\ RoomInv' /\ EnoughNotified'
    BY <1>5, <1>7 DEF IInv, StartThread, WorkersInv, RoomInv, EnoughNotified, Asleep
  <2> QED
    BY <1>1, <1>2, <1>3, <2>1 DEF IInv
<1> QED
  BY <1>6, <1>7

\* stop clears m_isStarted.
LEMMA StopInv == IInv /\ Stop => IInv'
<1> SUFFICES ASSUME IInv, Stop PROVE IInv'
  OBVIOUS
<1> USE DEF IInv, Stop
<1>1. WorkersInv'
  BY DEF WorkersInv
<1>2. QueueInv'
  BY DEF QueueInv, Size
<1>3. ProducersInv'
  BY DEF ProducersInv
<1>4. MainInv'
  <2>1. m_isStarted' \in BOOLEAN /\ m_threadmutex' \in BOOLEAN
    BY Zenon
  <2> QED
    BY <2>1 DEF MainInv
<1>5. RoomInv'
  BY DEF RoomInv
<1>6. EnoughNotified'
  BY DEF EnoughNotified
<1> QED
  BY <1>1, <1>2, <1>3, <1>4, <1>5, <1>6

\* stop has joined all workers.
LEMMA StopReturnInv == IInv /\ StopReturn => IInv'
<1> SUFFICES ASSUME IInv, StopReturn PROVE IInv'
  OBVIOUS
<1> USE DEF IInv, StopReturn
<1>1. WorkersInv'
  BY DEF WorkersInv, Labels
<1>2. QueueInv'
  BY DEF QueueInv, Size
<1>3. ProducersInv'
  BY DEF ProducersInv
<1>4. MainInv'
  <2>1. m_threadmutex' \in BOOLEAN
    BY Zenon
  <2> QED
    BY <2>1 DEF MainInv
<1>5. RoomInv'
  <2>1. Cardinality(m_threads') = 0
    BY FS_EmptySet
  <2>2. Cardinality(m_threads) \in Nat
    BY Counted
  <2> QED
    BY <2>1, <2>2, SizesAssumption DEF RoomInv
<1>6. EnoughNotified'
  <2>1. Asleep' = {}
    BY DEF WorkersInv, Asleep
  <2> QED
    BY <2>1 DEF EnoughNotified
<1> QED
  BY <1>1, <1>2, <1>3, <1>4, <1>5, <1>6

\* A step of a producer that leaves workers, queue and mutexes alone.
LEMMA ProducerStep ==
  ASSUME IInv, ProducersInv', added' \in 0..MaxTasks,
         UNCHANGED <<m_isStarted, m_threads, m_tasks, m_taskmutex, m_threadmutex, main,
                     made, worker>>
  PROVE  IInv'
<1>1. WorkersInv' /\ QueueInv'
  BY DEF IInv, WorkersInv, QueueInv, Size
<1>2. MainInv' /\ RoomInv'
  BY DEF IInv, MainInv, RoomInv
<1>3. EnoughNotified'
  BY DEF IInv, EnoughNotified, Asleep, Size
<1> QED
  BY <1>1, <1>2, <1>3 DEF IInv

\* addTask is called.
LEMMA AddCallInv == ASSUME IInv, NEW p \in Producers, AddCall(p) PROVE IInv'
<1>1. ProducersInv'
  BY ThreadsAssumption DEF IInv, AddCall, ProducersInv
<1>2. added' \in 0..MaxTasks
  BY SizesAssumption DEF IInv, AddCall, MainInv
<1> QED
  BY <1>1, <1>2, ProducerStep DEF AddCall

\* addTask waits on m_notFull.
LEMMA AddWaitInv == ASSUME IInv, NEW p \in Producers, AddWait(p) PROVE IInv'
<1>1. ProducersInv'
  BY ThreadsAssumption DEF IInv, AddWait, ProducersInv
<1> QED
  BY <1>1, ProducerStep DEF IInv, MainInv, AddWait

\* addTask pushes and notifies: a task more, a worker awake more or nobody
\* asleep.  It keeps m_taskmutex when it saw room for another worker.
LEMMA PushInv == ASSUME IInv, NEW p \in Producers, Push(p) PROVE IInv'
<1>1. offer[p] \in Offers
  BY DEF IInv, ProducersInv, Push
<1>2. offer[p].level \in 0..2
  <2>1. \A o \in [level : Levels, pair : {TRUE}] : o.level \in Levels
    OBVIOUS
  <2>2. \A o \in [level : {2}, pair : {FALSE}] : o.level = 2
    OBVIOUS
  <2>3. Levels \subseteq 0..2 /\ 2 \in 0..2
    BY SizesAssumption
  <2> QED
    BY <1>1, <2>1, <2>2, <2>3, Zenon DEF Offers
<1>3. /\ Size \in Nat /\ Size' = Size + 1
      /\ m_tasks' \in [0..2 -> Nat]
  <2> DEFINE l == offer[p].level
             n == m_tasks[l] + 1
  <2>1. l \in 0..2 /\ m_tasks[l] \in Nat /\ n \in Nat /\ QueueInv
    BY <1>2 DEF IInv, QueueInv
  <2>2. m_tasks' = [m_tasks EXCEPT ![l] = n]
    BY DEF Push
  <2>3. n - m_tasks[l] = 1
    BY <2>1
  <2> HIDE DEF l, n
  <2>4. /\ Size \in Nat /\ Size' \in Nat /\ m_tasks' \in [0..2 -> Nat]
        /\ Size' = Size - m_tasks[l] + n
    BY <2>1, <2>2, SizeChange, Zenon
  <2> QED
    BY <2>1, <2>3, <2>4
<1>4. QueueInv'
  BY <1>3, SizesAssumption DEF IInv, QueueInv, Push, MustWait, tasksIsFull
<1>5. /\ WorkersInv'
      /\ \/ Asleep' = {}
         \/ /\ Asleep # {}
            /\ Cardinality(Awake') = Cardinality(Awake) + 1
  BY NotifyNotEmptyEffect DEF IInv, Push
<1>6. EnoughNotified'
  <2>1. Cardinality(Awake) \in Nat
    BY Counted DEF IInv
  <2> QED
    BY <1>3, <1>4, <1>5, <2>1, EnoughKept DEF Push
<1>7. ProducersInv'
  <2>1. offer' \in [Producers -> Offers \cup {None}]
    BY DEF IInv, ProducersInv, Push
  <2>2. main' \in {"new", "starting"} => \A q \in Producers : producer'[q] = "idle"
    BY DEF IInv, ProducersInv, Push
  <2>3. \A q \in Producers : producer'[q] \in {"add", "wait"} => offer'[q] \in Offers
    BY DEF IInv, ProducersInv, Push
  <2>4. CASE WantsThread(offer[p])
    BY <2>1, <2>2, <2>3, <2>4, ThreadsAssumption DEF IInv, ProducersInv, Push
  <2>5. CASE ~WantsThread(offer[p])
    BY <2>1, <2>2, <2>3, <2>5, ThreadsAssumption DEF IInv, ProducersInv, Push
  <2> QED
    BY <2>4, <2>5
<1>8. RoomInv'
  BY DEF IInv, RoomInv, Push, WantsThread
<1>9. MainInv'
  BY DEF IInv, MainInv, Push
<1> QED
  BY <1>4, <1>5, <1>6, <1>7, <1>8, <1>9 DEF IInv

\* addTask adds the worker it had room for.
LEMMA GrowInv == ASSUME IInv, NEW p \in Producers, Grow(p) PROVE IInv'
<1>1. m_taskmutex = p /\ m_taskmutex # None /\ main \notin {"new", "starting"}
  BY ThreadsAssumption DEF IInv, ProducersInv, Grow
<1>2. QueueInv' /\ Size' = Size
  BY DEF IInv, QueueInv, Size, Grow
<1>3. /\ WorkersInv'
      /\ Cardinality(m_threads') <= Cardinality(m_threads) + 1
      /\ Cardinality(Awake) <= Cardinality(Awake')
      /\ Asleep' \subseteq Asleep
  BY AddThreadCount DEF IInv, Grow
<1>4. /\ Cardinality(m_threads) \in Nat /\ Cardinality(m_threads') \in Nat
      /\ Cardinality(Awake) \in Nat /\ Cardinality(Awake') \in Nat
  <2>1. IsFiniteSet(m_threads')
    BY <1>3, ThreadsAssumption, FS_Subset DEF WorkersInv
  <2>2. IsFiniteSet(Awake')
    BY <2>1, FS_Subset DEF Awake
  <2> QED
    BY <2>1, <2>2, Counted, FS_CardinalityType DEF IInv
<1>5. RoomInv'
  BY <1>1, <1>3, <1>4, SizesAssumption DEF IInv, RoomInv, Grow
<1>6. EnoughNotified'
  BY <1>2, <1>3, <1>4, EnoughKept, SizeNat DEF IInv, Grow
<1>7. ProducersInv'
  BY <1>1, ThreadsAssumption DEF IInv, ProducersInv, Grow
<1>8. MainInv'
  BY DEF IInv, MainInv, Grow
<1> QED
  BY <1>2, <1>3, <1>5, <1>6, <1>7, <1>8 DEF IInv

\* A step of a worker that stays a worker: besides its own place it changes at
\* most the queue and who waits for room in it.
LEMMA WorkerStep ==
  ASSUME IInv, WorkersInv', QueueInv', ProducersInv', EnoughNotified',
         UNCHANGED <<m_isStarted, m_threads, m_taskmutex, m_threadmutex, main, made, added>>
  PROVE  IInv'
<1>1. MainInv' /\ RoomInv'
  BY DEF IInv, MainInv, RoomInv
<1> QED
  BY <1>1 DEF IInv

\* The loop of threadloop.
LEMMA LoopTestInv == ASSUME IInv, NEW w \in Workers, LoopTest(w) PROVE IInv'
<1>1. QueueInv' /\ Size' = Size /\ ProducersInv'
  BY DEF IInv, QueueInv, Size, ProducersInv, LoopTest
<1>2. CASE m_isStarted
  <2>1. /\ WorkersInv'
        /\ Cardinality(Awake') = Cardinality(Awake)
        /\ Asleep' \subseteq Asleep
    BY <1>2, GotoCount DEF IInv, LoopTest, Labels
  <2>2. EnoughNotified'
    <3>1. Cardinality(Awake) \in Nat /\ Size \in Nat
      BY Counted, SizeNat DEF IInv
    <3> QED
      BY <1>1, <2>1, <3>1, EnoughKept DEF LoopTest
  <2> QED
    BY <1>1, <2>1, <2>2, WorkerStep DEF LoopTest
<1>3. CASE ~m_isStarted
  <2>1. WorkersInv'
    BY <1>3, GotoCount DEF IInv, LoopTest, Labels
  <2>2. EnoughNotified'
    BY <1>3 DEF EnoughNotified, LoopTest
  <2> QED
    BY <1>1, <2>1, <2>2, WorkerStep DEF LoopTest
<1> QED
  BY <1>2, <1>3

\* A worker falls asleep on an empty queue only.
LEMMA TakeWaitInv == ASSUME IInv, NEW w \in Workers, TakeWait(w) PROVE IInv'
<1>1. QueueInv' /\ Size' = 0 /\ ProducersInv'
  BY DEF IInv, QueueInv, Size, Empty, ProducersInv, TakeWait
<1>2. WorkersInv'
  BY GotoCount DEF IInv, TakeWait, Labels
<1>3. EnoughNotified'
  <2>1. IsFiniteSet(m_threads')
    BY <1>2, ThreadsAssumption, FS_Subset DEF WorkersInv
  <2>2. Cardinality(Awake') \in Nat
    BY <2>1, FS_Subset, FS_CardinalityType DEF Awake
  <2> QED
    BY <1>1, <2>2 DEF EnoughNotified, Awake
<1> QED
  BY <1>1, <1>2, <1>3, WorkerStep DEF TakeWait

\* notify_one on m_notFull lets a producer that has its task look again.
LEMMA NotifyNotFullInv ==
  ASSUME IInv, NotifyNotFull \/ UNCHANGED producer, UNCHANGED <<m_taskmutex, main, offer>>
  PROVE  ProducersInv'
BY DEF IInv, ProducersInv, NotifyNotFull, Waiting

\* A worker takes a task and is busy with it, or leaves the queue alone after stop.
LEMMA TakeInv == ASSUME IInv, NEW w \in Workers, Take(w) PROVE IInv'
<1>1. ProducersInv'
  BY NotifyNotFullInv DEF Take
<1>2. /\ WorkersInv'
      /\ Cardinality(Awake') = Cardinality(Awake) - 1
      /\ Asleep' \subseteq Asleep
  BY GotoCount DEF IInv, Take, Labels
<1>3. CASE m_isStarted
  <2>1. Top \in 0..2 /\ m_tasks[Top] > 0 /\ m_tasks[Top] \in Nat
    BY <1>3, TopEffect DEF IInv, Take, QueueInv
  <2>2. Size \in Nat /\ Size' = Size - 1 /\ m_tasks' \in [0..2 -> Nat]
    <3> DEFINE n == m_tasks[Top] - 1
    <3>1. n \in Nat /\ n - m_tasks[Top] = -1 /\ QueueInv
      BY <2>1 DEF IInv
    <3>2. m_tasks' = [m_tasks EXCEPT ![Top] = n]
      BY <1>3 DEF Take
    <3> HIDE DEF n
    <3>3. /\ Size \in Nat /\ Size' \in Nat /\ m_tasks' \in [0..2 -> Nat]
          /\ Size' = Size - m_tasks[Top] + n
      BY <2>1, <3>1, <3>2, SizeChange, Zenon
    <3> QED
      BY <2>1, <3>1, <3>3
  <2>3. QueueInv'
    BY <2>2, SizesAssumption DEF IInv, QueueInv
  <2>4. EnoughNotified'
    <3>1. Cardinality(Awake) \in Nat
      BY Counted DEF IInv
    <3> QED
      BY <1>2, <2>2, <2>3, <3>1, EnoughKept DEF Take
  <2> QED
    BY <1>1, <1>2, <2>3, <2>4, WorkerStep DEF Take
<1>4. CASE ~m_isStarted
  <2>1. QueueInv'
    BY <1>4 DEF IInv, QueueInv, Size, Take
  <2>2. EnoughNotified'
    BY <1>4 DEF EnoughNotified, Take
  <2> QED
    BY <1>1, <1>2, <2>1, <2>2, WorkerStep DEF Take
<1> QED
  BY <1>3, <1>4

\* process() returns: the worker is awake again.
LEMMA ProcessedInv == ASSUME IInv, NEW w \in Workers, Processed(w) PROVE IInv'
<1>1. QueueInv' /\ Size' = Size /\ ProducersInv'
  BY DEF IInv, QueueInv, Size, ProducersInv, Processed
<1>2. \E label \in {"erase", "loop"} : Goto(w, label)
  BY DEF Processed
<1>3. /\ WorkersInv'
      /\ Cardinality(Awake') = Cardinality(Awake) + 1
      /\ Asleep' \subseteq Asleep
  BY <1>2, GotoCount DEF IInv, Processed, Labels
<1>4. EnoughNotified'
  <2>1. Cardinality(Awake) \in Nat /\ Size \in Nat
    BY Counted, SizeNat DEF IInv
  <2> QED
    BY <1>1, <1>3, <2>1, EnoughKept DEF Processed
<1> QED
  BY <1>1, <1>3, <1>4, WorkerStep DEF Processed

\* A worker leaves, on an empty queue only, or stays.
LEMMA EraseInv == ASSUME IInv, NEW w \in Workers, eraseCurrentThread(w) PROVE IInv'
<1>1. QueueInv' /\ Size' = Size /\ ProducersInv' /\ MainInv'
  BY DEF IInv, QueueInv, Size, ProducersInv, MainInv, eraseCurrentThread
<1>2. CASE Cardinality(m_threads) > MinSize /\ Empty
  <2>1. m_threads' = m_threads \ {w} /\ Goto(w, "off")
    BY <1>2 DEF eraseCurrentThread
  <2>2. WorkersInv'
    BY <2>1 DEF IInv, WorkersInv, Goto, Labels
  <2>3. /\ Cardinality(m_threads) \in Nat
        /\ Cardinality(m_threads') = Cardinality(m_threads) - 1
    <3>1. w \in m_threads
      BY DEF IInv, WorkersInv, eraseCurrentThread
    <3> QED
      BY <2>1, <3>1, Counted, FS_RemoveElement DEF IInv
  <2>4. RoomInv'
    BY <2>3, SizesAssumption DEF IInv, RoomInv, MainInv, eraseCurrentThread
  <2>5. EnoughNotified'
    <3>1. IsFiniteSet(m_threads')
      BY <2>2, ThreadsAssumption, FS_Subset DEF WorkersInv
    <3>2. Cardinality(Awake') \in Nat
      BY <3>1, FS_Subset, FS_CardinalityType DEF Awake
    <3> QED
      BY <1>1, <1>2, <3>2 DEF EnoughNotified, Awake, Empty
  <2> QED
    BY <1>1, <2>2, <2>4, <2>5 DEF IInv
<1>3. CASE ~(Cardinality(m_threads) > MinSize /\ Empty)
  <2>1. UNCHANGED m_threads /\ Goto(w, "loop")
    BY <1>3 DEF eraseCurrentThread
  <2>2. /\ WorkersInv'
        /\ Cardinality(Awake') = Cardinality(Awake)
        /\ Asleep' \subseteq Asleep
    BY <2>1, GotoCount DEF IInv, eraseCurrentThread, Labels
  <2>3. EnoughNotified'
    <3>1. Cardinality(Awake) \in Nat /\ Size \in Nat
      BY Counted, SizeNat DEF IInv
    <3> QED
      BY <1>1, <2>2, <3>1, EnoughKept DEF eraseCurrentThread
  <2> QED
    BY <1>1, <2>1, <2>2, <2>3, WorkerStep DEF eraseCurrentThread
<1> QED
  BY <1>2, <1>3

\* Waking for no reason does no harm: the conditions are looked at again.
LEMMA SpuriousInv == IInv /\ Spurious => IInv'
<1> SUFFICES ASSUME IInv, Spurious PROVE IInv'
  OBVIOUS
<1>1. QueueInv' /\ Size' = Size
  BY DEF IInv, QueueInv, Size, Spurious
<1>2. ASSUME NEW w \in Asleep, Goto(w, "take"), UNCHANGED producer PROVE IInv'
  <2>1. ProducersInv'
    BY <1>2 DEF IInv, ProducersInv, Spurious
  <2>2. /\ WorkersInv'
        /\ Cardinality(Awake') = Cardinality(Awake) + 1
        /\ Asleep' \subseteq Asleep
    BY <1>2, GotoCount DEF IInv, Spurious, Asleep, Labels
  <2>3. EnoughNotified'
    <3>1. Cardinality(Awake) \in Nat /\ Size \in Nat
      BY Counted, SizeNat DEF IInv
    <3> QED
      BY <1>1, <2>2, <3>1, EnoughKept DEF Spurious
  <2> QED
    BY <1>1, <2>1, <2>2, <2>3, WorkerStep DEF Spurious
<1>3. ASSUME NEW p \in Waiting, producer' = [producer EXCEPT ![p] = "add"], UNCHANGED worker
      PROVE  IInv'
  <2>1. ProducersInv'
    BY <1>3 DEF IInv, ProducersInv, Spurious, Waiting
  <2>2. WorkersInv' /\ EnoughNotified'
    BY <1>1, <1>3 DEF IInv, WorkersInv, EnoughNotified, Asleep, Spurious
  <2> QED
    BY <1>1, <2>1, <2>2, WorkerStep DEF Spurious
<1> QED
  BY <1>2, <1>3 DEF Spurious

\* Every step keeps the inductive invariant.
LEMMA NextIInv == IInv /\ [Next]_vars => IInv'
<1> SUFFICES ASSUME IInv, [Next]_vars PROVE IInv'
  OBVIOUS
<1>1. ASSUME NEW p \in Producers, AddCall(p) \/ addTask(p) PROVE IInv'
  BY <1>1, AddCallInv, AddWaitInv, PushInv, GrowInv DEF addTask
<1>2. ASSUME NEW w \in Workers, threadloop(w) PROVE IInv'
  BY <1>2, LoopTestInv, TakeWaitInv, TakeInv, ProcessedInv, EraseInv DEF threadloop
<1>3. CASE UNCHANGED vars
  <2>1. ProducersInv' /\ added' \in 0..MaxTasks
    BY <1>3 DEF IInv, ProducersInv, MainInv, vars
  <2> QED
    BY <1>3, <2>1, ProducerStep DEF vars
<1> QED
  BY <1>1, <1>2, <1>3, StartInv, StartThreadInv, StopInv, StopReturnInv, SpuriousInv DEF Next

-----------------------------------------------------------------------------
(* The theorems *)

\* The inductive invariant holds throughout.
LEMMA Invariant == Spec => []IInv
BY InitIInv, NextIInv, PTL DEF Spec

\* Type correctness; in particular the queue never exceeds m_TaskQueueSize.
THEOREM TypeCorrect == Spec => []TypeOK
<1>1. IInv => TypeOK
  <2> SUFFICES ASSUME IInv PROVE TypeOK
    OBVIOUS
  <2>1. m_tasks \in [0..2 -> 0..QueueSize]
    <3>1. /\ m_tasks \in [0..2 -> Nat]
          /\ m_tasks[0] \in Nat /\ m_tasks[1] \in Nat /\ m_tasks[2] \in Nat
      BY DEF IInv, QueueInv
    <3>2. \A l \in 0..2 : m_tasks[l] \in 0..QueueSize
      BY <3>1, SizesAssumption DEF IInv, QueueInv, Size
    <3> QED
      BY <3>1, <3>2
  <2> QED
    BY <2>1 DEF IInv, WorkersInv, ProducersInv, MainInv, TypeOK, Labels
<1> QED
  BY <1>1, Invariant, PTL

\* One notify_one for each push is enough: no task is left to sleeping workers,
\* whatever the workers read without m_taskmutex when they leave.
THEOREM NotifyOneIsEnough == Spec => []EnoughNotified
<1>1. IInv => EnoughNotified
  BY DEF IInv
<1> QED
  BY <1>1, Invariant, PTL

\* The number of workers respects m_maxThreadsSize, and workers that leave do
\* not leave fewer than m_minThreadsSize, although both sizes are read first
\* without m_threadmutex.
THEOREM SizesRespected == Spec => ThreadsBounded
<1> DEFINE Kept == /\ Cardinality(m_threads') <= MaxSize
                   /\ main # "joining" /\ Cardinality(m_threads') < Cardinality(m_threads) =>
                        Cardinality(m_threads') >= MinSize
<1>1. ASSUME IInv, IInv', Next PROVE Kept
  <2>1. Cardinality(m_threads') <= MaxSize
    BY <1>1 DEF IInv, RoomInv
  <2>2. Cardinality(m_threads) \in Nat
    BY <1>1, Counted DEF IInv
  <2>3. CASE UNCHANGED m_threads \/ main = "joining"
    BY <2>1, <2>2, <2>3
  <2>4. CASE AddThread
    <3>1. Cardinality(m_threads) <= Cardinality(m_threads')
      BY <1>1, <2>4, AddThreadCount DEF IInv
    <3>2. Cardinality(m_threads') \in Nat
      BY <1>1, ThreadsAssumption, FS_Subset, FS_CardinalityType DEF IInv, WorkersInv
    <3> QED
      BY <2>1, <2>2, <3>1, <3>2
  <2>5. ASSUME NEW w \in Workers, eraseCurrentThread(w) PROVE Kept
    <3>1. CASE Cardinality(m_threads) > MinSize /\ Empty
      <4>1. Cardinality(m_threads') = Cardinality(m_threads) - 1
        <5>1. w \in m_threads
          BY <1>1, <2>5 DEF IInv, WorkersInv, eraseCurrentThread
        <5> QED
          BY <1>1, <2>5, <3>1, <5>1, Counted, FS_RemoveElement DEF IInv, eraseCurrentThread
      <4> QED
        BY <2>1, <2>2, <3>1, <4>1, SizesAssumption
    <3>2. CASE ~(Cardinality(m_threads) > MinSize /\ Empty)
      BY <2>3, <2>5, <3>2 DEF eraseCurrentThread
    <3> QED
      BY <3>1, <3>2
  <2>6. CASE Start \/ StartThread \/ Stop \/ StopReturn
    BY <2>3, <2>4, <2>6 DEF Start, StartThread, Stop, StopReturn
  <2>7. ASSUME NEW p \in Producers, AddCall(p) \/ addTask(p) PROVE Kept
    BY <2>3, <2>4, <2>7 DEF AddCall, addTask, AddWait, Push, Grow
  <2>8. ASSUME NEW w \in Workers, threadloop(w) PROVE Kept
    BY <2>3, <2>5, <2>8 DEF threadloop, LoopTest, TakeWait, Take, Processed
  <2>9. CASE Spurious
    BY <2>3, <2>9 DEF Spurious
  <2> QED
    BY <1>1, <2>6, <2>7, <2>8, <2>9 DEF Next
<1>2. IInv /\ IInv' /\ [Next]_vars => [Kept]_vars
  BY <1>1
<1> QED
  BY <1>2, Invariant, PTL DEF Spec, ThreadsBounded
=============================================================================
