------------------------ MODULE RedisConnPoolProofs ------------------------
(***************************************************************************)
(* Proofs about RedisConnPool, for every set of clients, all timeouts they *)
(* may pass, every pool size and whatever connections fail to open; the    *)
(* last one shows that the pool implements BoundedPool.                    *)
(***************************************************************************)
EXTENDS RedisConnPool, FiniteSetTheorems, TLAPS

-----------------------------------------------------------------------------
(* The inductive invariant *)

\* Who waits is inside a wait, and a pool that is gone has no users.
ClientsInv ==
  /\ waiting \subseteq {c \in Clients : pc[c] = "wait"}
  /\ life = "gone" => \A c \in Clients : pc[c] = "out"

\* The clients that notify_one has picked and that have not looked yet.
Picked == {c \in Clients : pc[c] = "wait"} \ waiting

IInv == TypeOK /\ ClientsInv /\ QueuedOnce /\ EnoughNotified

-----------------------------------------------------------------------------
(* Counting *)

\* Owners and picked clients are finitely many.
LEMMA Counted ==
  /\ IsFiniteSet(Holders) /\ Cardinality(Holders) \in Nat
  /\ IsFiniteSet(Picked) /\ Cardinality(Picked) \in Nat
<1>1. Holders \in SUBSET Clients /\ Picked \in SUBSET Clients
  BY DEF Holders, Picked
<1> QED
  BY <1>1, ClientsAssumption, FS_Subset, FS_CardinalityType

\* They are so after a step as well.
LEMMA CountedNext ==
  /\ IsFiniteSet(Holders') /\ Cardinality(Holders') \in Nat
  /\ IsFiniteSet(Picked') /\ Cardinality(Picked') \in Nat
<1>1. Holders' \in SUBSET Clients /\ Picked' \in SUBSET Clients
  BY DEF Holders, Picked
<1> QED
  BY <1>1, ClientsAssumption, FS_Subset, FS_CardinalityType

\* A client that comes to own a connection adds one owner.
LEMMA HoldersGrow ==
  ASSUME TypeOK, NEW c \in Clients, pc[c] # "use", pc' = [pc EXCEPT ![c] = "use"]
  PROVE  /\ c \notin Holders /\ Holders' = Holders \cup {c}
         /\ Cardinality(Holders') = Cardinality(Holders) + 1
<1>1. c \notin Holders /\ Holders' = Holders \cup {c}
  BY DEF TypeOK, Holders
<1> QED
  BY <1>1, Counted, FS_AddElement

\* A client that gives its connection back takes one owner away.
LEMMA HoldersShrink ==
  ASSUME TypeOK, NEW c \in Clients, NEW x, pc[c] = "use", x # "use",
         pc' = [pc EXCEPT ![c] = x]
  PROVE  /\ c \in Holders /\ Holders' = Holders \ {c}
         /\ Cardinality(Holders') = Cardinality(Holders) - 1
<1>1. c \in Holders /\ Holders' = Holders \ {c}
  BY DEF TypeOK, Holders
<1> QED
  BY <1>1, Counted, FS_RemoveElement

\* Any other move keeps the owners.
LEMMA HoldersSame ==
  ASSUME TypeOK, NEW c \in Clients, NEW x, pc[c] = "use" <=> x = "use",
         pc' = [pc EXCEPT ![c] = x]
  PROVE  Holders' = Holders
BY DEF TypeOK, Holders

\* EnoughNotified in terms of the picked clients.
LEMMA EnoughDef ==
  /\ EnoughNotified <=>
       ((\A d \in Clients : timeout[d] # "> 0") /\ waiting # {} => idle <= Cardinality(Picked))
  /\ EnoughNotified' <=>
       ((\A d \in Clients : timeout'[d] # "> 0") /\ waiting' # {} => idle' <= Cardinality(Picked'))
BY Zenon DEF EnoughNotified, Picked

-----------------------------------------------------------------------------
(* Every step keeps the invariant *)

\* A pool in which everything that could be opened is idle.
LEMMA InitIInv == Init => IInv
<1> SUFFICES ASSUME Init PROVE IInv
  OBVIOUS
<1> USE PoolSizeAssumption DEF Init
<1>1. TypeOK
  BY DEF TypeOK
<1>2. ClientsInv
  BY DEF ClientsInv
<1>3. QueuedOnce
  <2>1. Holders = {}
    BY DEF Holders
  <2> QED
    BY <1>1, <2>1, FS_EmptySet DEF QueuedOnce, TypeOK
<1>4. EnoughNotified
  BY DEF EnoughNotified
<1> QED
  BY <1>1, <1>2, <1>3, <1>4 DEF IInv

\* The queue's front is handed out, or lost: the client was outside or has
\* been picked, and is not picked any more.
LEMMA PopInv ==
  ASSUME IInv, NEW c \in Clients, Pop(c), life = "up", pc[c] \in {"out", "wait"},
         c \notin waiting, UNCHANGED <<curr, waiting, life, timeout>>
  PROVE  IInv'
<1>1. PICK x \in {"use", "out"} : pc' = [pc EXCEPT ![c] = x]
  BY DEF Pop
<1>2. idle \in Nat /\ idle > 0 /\ idle' = idle - 1 /\ idle' \in Nat
  BY PoolSizeAssumption DEF IInv, TypeOK, Pop
<1>3. TypeOK'
  BY <1>1, <1>2, PoolSizeAssumption DEF IInv, TypeOK
<1>4. ClientsInv'
  BY <1>1 DEF IInv, TypeOK, ClientsInv
<1>5. QueuedOnce'
  <2>1. CASE x = "use"
    <3>1. Cardinality(Holders') = Cardinality(Holders) + 1
      BY <1>1, <2>1, HoldersGrow DEF IInv
    <3> QED
      BY <1>2, <3>1, Counted, PoolSizeAssumption DEF IInv, TypeOK, QueuedOnce
  <2>2. CASE x = "out"
    <3>1. Holders' = Holders
      BY <1>1, <2>2, HoldersSame DEF IInv
    <3> QED
      BY <1>2, <3>1, Counted, PoolSizeAssumption DEF IInv, TypeOK, QueuedOnce
  <2> QED
    BY <2>1, <2>2
<1>6. EnoughNotified'
  <2>1. Picked' = Picked \ {c}
    BY <1>1 DEF IInv, TypeOK, Picked
  <2>2. Cardinality(Picked') = Cardinality(Picked) \/ Cardinality(Picked') = Cardinality(Picked) - 1
    BY <2>1, Counted, FS_RemoveElement
  <2>3. idle <= Cardinality(Picked) => idle' <= Cardinality(Picked')
    BY <1>2, <2>2, Counted
  <2> QED
    BY <2>3, EnoughDef, Zenon DEF IInv
<1> QED
  BY <1>3, <1>4, <1>5, <1>6 DEF IInv

\* Nobody comes to own anything and the queue stays empty.
LEMMA WaitInv ==
  ASSUME IInv, NEW c \in Clients, idle = 0, life = "up", pc[c] \in {"out", "wait"},
         pc' = [pc EXCEPT ![c] = "wait"], waiting' = waiting \cup {c},
         UNCHANGED <<idle, curr, life, timeout>>
  PROVE  IInv'
<1>1. TypeOK'
  BY DEF IInv, TypeOK
<1>2. ClientsInv'
  BY DEF IInv, TypeOK, ClientsInv
<1>3. QueuedOnce'
  <2>1. Holders' = Holders
    BY HoldersSame DEF IInv
  <2> QED
    BY <2>1 DEF IInv, QueuedOnce
<1>4. EnoughNotified'
  <2>1. idle' <= Cardinality(Picked')
    BY CountedNext
  <2> QED
    BY <2>1, EnoughDef, Zenon
<1> QED
  BY <1>1, <1>2, <1>3, <1>4 DEF IInv

\* GetRedisConn.
LEMMA GetInv == ASSUME IInv, NEW c \in Clients, GetRedisConn(c) PROVE IInv'
<1>1. c \notin waiting
  BY DEF IInv, ClientsInv, GetRedisConn
<1>2. CASE Pop(c) /\ UNCHANGED waiting
  BY <1>1, <1>2, PopInv DEF GetRedisConn
<1>3. CASE Block(c)
  BY <1>3, WaitInv DEF GetRedisConn, Block
<1> QED
  BY <1>2, <1>3 DEF GetRedisConn

\* A picked client looks into the queue.
LEMMA WakeInv == ASSUME IInv, NEW c \in Clients, Wake(c) PROVE IInv'
<1>1. life = "up"
  BY DEF IInv, TypeOK, ClientsInv, Wake
<1>2. CASE Pop(c) /\ UNCHANGED waiting
  BY <1>1, <1>2, PopInv DEF Wake
<1>3. CASE idle = 0 /\ waiting' = waiting \cup {c} /\ UNCHANGED <<idle, pc>>
  <2>1. pc' = [pc EXCEPT ![c] = "wait"]
    BY <1>3 DEF IInv, TypeOK, Wake
  <2> QED
    BY <1>1, <1>3, <2>1, WaitInv DEF Wake
<1> QED
  BY <1>2, <1>3 DEF Wake

\* A client gives up: some client waits with a time limit.
LEMMA WaitTimeoutInv == ASSUME IInv, NEW c \in Clients, WaitTimeout(c) PROVE IInv'
<1>1. TypeOK'
  BY DEF IInv, TypeOK, WaitTimeout
<1>2. ClientsInv'
  BY DEF IInv, TypeOK, ClientsInv, WaitTimeout
<1>3. QueuedOnce'
  <2>1. Holders' = Holders
    BY HoldersSame DEF IInv, WaitTimeout
  <2> QED
    BY <2>1 DEF IInv, QueuedOnce, WaitTimeout
<1>4. EnoughNotified'
  BY DEF EnoughNotified, WaitTimeout
<1> QED
  BY <1>1, <1>2, <1>3, <1>4 DEF IInv

\* A connection comes back and one of those that wait is picked.
LEMMA ReleaseInv == ASSUME IInv, NEW c \in Clients, ReleaseRedisConn(c) PROVE IInv'
<1>1. life = "up" /\ pc' = [pc EXCEPT ![c] = "out"]
  BY DEF IInv, TypeOK, ClientsInv, ReleaseRedisConn
<1>2. /\ Cardinality(Holders') = Cardinality(Holders) - 1
      /\ idle \in Nat /\ idle' = idle + 1
  <2>1. Cardinality(Holders') = Cardinality(Holders) - 1
    BY <1>1, HoldersShrink DEF IInv, ReleaseRedisConn
  <2> QED
    BY <2>1, PoolSizeAssumption DEF IInv, TypeOK, ReleaseRedisConn
<1>3. idle' + Cardinality(Holders') <= curr
  BY <1>1, <1>2, Counted, CountedNext, PoolSizeAssumption
  DEF IInv, TypeOK, QueuedOnce
<1>4. TypeOK'
  <2>1. waiting' \subseteq Clients
    BY DEF IInv, TypeOK, ReleaseRedisConn, Notify
  <2> QED
    BY <1>2, <1>3, <2>1, CountedNext, PoolSizeAssumption DEF IInv, TypeOK, ReleaseRedisConn
<1>5. ClientsInv'
  BY <1>1 DEF IInv, TypeOK, ClientsInv, ReleaseRedisConn, Notify
<1>6. QueuedOnce'
  BY <1>3 DEF QueuedOnce, ReleaseRedisConn
<1>7. EnoughNotified'
  <2>1. CASE waiting = {}
    BY <2>1 DEF EnoughNotified, ReleaseRedisConn, Notify
  <2>2. CASE waiting # {}
    <3>1. PICK d \in waiting : waiting' = waiting \ {d}
      BY <2>2 DEF ReleaseRedisConn, Notify
    <3>2. Picked' = Picked \cup {d} /\ d \notin Picked
      BY <1>1, <3>1 DEF IInv, TypeOK, ClientsInv, Picked, ReleaseRedisConn
    <3>3. Cardinality(Picked') = Cardinality(Picked) + 1
      BY <3>2, Counted, FS_AddElement
    <3>4. idle <= Cardinality(Picked) => idle' <= Cardinality(Picked')
      BY <1>2, <3>3, Counted
    <3>5. UNCHANGED timeout
      BY DEF ReleaseRedisConn
    <3> QED
      BY <2>2, <3>4, <3>5, EnoughDef, Zenon DEF IInv
  <2> QED
    BY <2>1, <2>2
<1> QED
  BY <1>4, <1>5, <1>6, <1>7 DEF IInv

\* The destructor: curr_size_ does not become negative.
LEMMA DestroyInv == IInv /\ ReleaseConnectionPool => IInv'
<1> SUFFICES ASSUME IInv, ReleaseConnectionPool PROVE IInv'
  OBVIOUS
<1>1. TypeOK'
  BY Counted, PoolSizeAssumption DEF IInv, TypeOK, QueuedOnce, ReleaseConnectionPool
<1>2. ClientsInv'
  BY DEF IInv, TypeOK, ClientsInv, ReleaseConnectionPool, Holders
<1>3. QueuedOnce'
  BY DEF QueuedOnce, ReleaseConnectionPool
<1>4. EnoughNotified'
  <2>1. idle' <= Cardinality(Picked')
    BY CountedNext DEF ReleaseConnectionPool
  <2> QED
    BY <2>1, EnoughDef, Zenon
<1> QED
  BY <1>1, <1>2, <1>3, <1>4 DEF IInv

\* Every step keeps the inductive invariant.
LEMMA NextIInv == IInv /\ [Next]_vars => IInv'
<1> SUFFICES ASSUME IInv, [Next]_vars PROVE IInv'
  OBVIOUS
<1>1. CASE UNCHANGED vars
  BY <1>1 DEF vars, IInv, TypeOK, ClientsInv, QueuedOnce, EnoughNotified, Holders
<1> QED
  BY <1>1, GetInv, WakeInv, WaitTimeoutInv, ReleaseInv, DestroyInv DEF Next

-----------------------------------------------------------------------------
(* The theorems *)

\* The inductive invariant holds throughout.
LEMMA Invariant == Spec => []IInv
BY InitIInv, NextIInv, PTL DEF Spec

\* Type correctness; the queue and curr_size_ stay within pool_size_ and the
\* counter does not pass below zero in ReleaseConnectionPool.
THEOREM TypeCorrect == Spec => []TypeOK
<1>1. IInv => TypeOK
  BY DEF IInv
<1> QED
  BY <1>1, Invariant, PTL

\* No connection is queued twice or handed to two clients.
THEOREM ConnectionsQueuedOnce == Spec => []QueuedOnce
<1>1. IInv => QueuedOnce
  BY DEF IInv
<1> QED
  BY <1>1, Invariant, PTL

\* ReleaseRedisConn's notify_one is enough unless a client waits with a limit.
THEOREM NotifyOneIsEnough == Spec => []EnoughNotified
<1>1. IInv => EnoughNotified
  BY DEF IInv
<1> QED
  BY <1>1, Invariant, PTL

-----------------------------------------------------------------------------
(* The pool implements a bounded pool *)

\* A step changes the place of one client at most.
LEMMA OneMoves ==
  ASSUME Next
  PROVE  \/ UNCHANGED pc
         \/ \E c \in Clients, x \in {"out", "wait", "use"} : pc' = [pc EXCEPT ![c] = x]
<1>1. ASSUME NEW c \in Clients,
             \/ GetRedisConn(c) \/ Wake(c) \/ WaitTimeout(c) \/ ReleaseRedisConn(c)
      PROVE  \/ UNCHANGED pc
             \/ \E x \in {"out", "wait", "use"} : pc' = [pc EXCEPT ![c] = x]
  BY <1>1 DEF GetRedisConn, Pop, Block, Wake, WaitTimeout, ReleaseRedisConn
<1>2. CASE ReleaseConnectionPool \/ UNCHANGED vars
  BY <1>2 DEF ReleaseConnectionPool, vars
<1> QED
  BY <1>1, <1>2 DEF Next

\* A step that moves one client is one of the abstract pool, or none: there is
\* room for a new owner because afterwards the owners fit.
LEMMA AbstractStep ==
  ASSUME IInv, IInv', [Next]_vars
  PROVE  [Abstract!Next]_Holders
<1>1. CASE UNCHANGED pc
  BY <1>1 DEF Holders
<1>2. ASSUME NEW c \in Clients, NEW x \in {"out", "wait", "use"}, pc' = [pc EXCEPT ![c] = x]
      PROVE  [Abstract!Next]_Holders
  <2>1. CASE pc[c] # "use" /\ x = "use"
    <3>1. /\ c \notin Holders /\ Holders' = Holders \cup {c}
          /\ Cardinality(Holders') = Cardinality(Holders) + 1
      BY <1>2, <2>1, HoldersGrow DEF IInv
    <3>2. Cardinality(Holders') <= PoolSize
      <4>1. life' = "up"
        BY <1>2, <2>1 DEF IInv, TypeOK, ClientsInv
      <4> QED
        BY <4>1, CountedNext, PoolSizeAssumption DEF IInv, TypeOK, QueuedOnce
    <3>3. Cardinality(Holders) < PoolSize
      BY <3>1, <3>2, Counted, PoolSizeAssumption
    <3>4. Abstract!Cardinality(Holders) = Cardinality(Holders)
      BY DEF Cardinality, Abstract!Cardinality
    <3>5. Abstract!Acquire(c)
      BY <3>1, <3>3, <3>4 DEF Abstract!Acquire
    <3> QED
      BY <3>5 DEF Abstract!Next
  <2>2. CASE pc[c] = "use" /\ x # "use"
    <3>1. Abstract!Release(c)
      BY <1>2, <2>2, HoldersShrink DEF IInv, Abstract!Release
    <3> QED
      BY <3>1 DEF Abstract!Next
  <2>3. CASE pc[c] = "use" <=> x = "use"
    BY <1>2, <2>3, HoldersSame DEF IInv
  <2> QED
    BY <2>1, <2>2, <2>3
<1> QED
  BY <1>1, <1>2, OneMoves DEF vars

\* The Redis pool keeps the promise of a bounded pool: a client has at most one
\* connection, and no more than pool_size_ clients have one.
THEOREM RefinesBoundedPool == Spec => ImplementsBoundedPool
<1>1. Init => Abstract!Init
  BY DEF Init, Abstract!Init, Holders
<1>2. IInv /\ IInv' /\ [Next]_vars => [Abstract!Next]_Holders
  BY AbstractStep
<1> QED
  BY <1>1, <1>2, Invariant, PTL DEF Spec, ImplementsBoundedPool, Abstract!Spec
=============================================================================
