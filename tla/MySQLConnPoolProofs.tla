------------------------ MODULE MySQLConnPoolProofs ------------------------
(***************************************************************************)
(* Proofs about MySQLConnPool, for every number of callers, every pool     *)
(* size, every number of UpdateConfig calls and every set of faults.       *)
(***************************************************************************)
EXTENDS MySQLConnPool, FiniteSetTheorems, TLAPS

-----------------------------------------------------------------------------
(* Counting the threads that own a connection *)

HoldersOf(f) == {q \in Procs : f[q] \in HoldPcs}

\* There are finitely many threads, the monitor included.
LEMMA ProcsFinite == IsFiniteSet(Procs)
BY CallersAssumption, FS_AddElement DEF Procs

\* The number of owners is a natural number.
LEMMA HoldersNat ==
  ASSUME NEW f
  PROVE  /\ IsFiniteSet(HoldersOf(f))
         /\ Cardinality(HoldersOf(f)) \in Nat
BY ProcsFinite, FS_Subset, FS_CardinalityType DEF HoldersOf

\* A thread that comes to own a connection adds one owner.
LEMMA HoldersGrow ==
  ASSUME NEW f, NEW p \in Procs, NEW x \in HoldPcs, f[p] \notin HoldPcs,
         DOMAIN f = Procs
  PROVE  Cardinality(HoldersOf([f EXCEPT ![p] = x])) = Cardinality(HoldersOf(f)) + 1
<1>1. HoldersOf([f EXCEPT ![p] = x]) = HoldersOf(f) \cup {p}
  BY DEF HoldersOf
<1>2. p \notin HoldersOf(f)
  BY DEF HoldersOf
<1> QED
  BY <1>1, <1>2, HoldersNat, FS_AddElement

\* A thread that stops owning a connection takes one owner away.
LEMMA HoldersShrink ==
  ASSUME NEW f, NEW p \in Procs, NEW x, x \notin HoldPcs, f[p] \in HoldPcs,
         DOMAIN f = Procs
  PROVE  Cardinality(HoldersOf([f EXCEPT ![p] = x])) = Cardinality(HoldersOf(f)) - 1
<1>1. HoldersOf([f EXCEPT ![p] = x]) = HoldersOf(f) \ {p}
  BY DEF HoldersOf
<1>2. p \in HoldersOf(f)
  BY DEF HoldersOf
<1> QED
  BY <1>1, <1>2, HoldersNat, FS_RemoveElement

\* Any other move of a thread keeps the set of owners.
LEMMA HoldersSame ==
  ASSUME NEW f, NEW p \in Procs, NEW x, x \in HoldPcs <=> f[p] \in HoldPcs,
         DOMAIN f = Procs
  PROVE  HoldersOf([f EXCEPT ![p] = x]) = HoldersOf(f)
BY DEF HoldersOf

-----------------------------------------------------------------------------
(* Sequences of connections *)

\* Refilling the queue: k fresh connections are a queue of length k.
LEMMA Refill ==
  ASSUME NEW k \in Nat, NEW c \in Conn
  PROVE  /\ [i \in 1..k |-> c] \in Seq(Conn)
         /\ Len([i \in 1..k |-> c]) = k
OBVIOUS

\* A connection opened with a version and a configuration in range.
LEMMA OpenedType ==
  ASSUME NEW v \in 0..MaxVersion, NEW c \in 0..MaxVersion, NEW b \in BOOLEAN
  PROVE  Opened(v, c, b) \in Conn
BY DEF Opened, Conn

-----------------------------------------------------------------------------
(* The inductive invariant of the pool's accounting *)

\* What the counter argument needs besides Accounting: the configuration is
\* one ahead of version_ exactly while UpdateConfig is past writing it, an
\* UpdateConfig under way found room for another version, the monitor's i is
\* below pool_size_ whenever it is about to be incremented, and nobody is
\* inside the pool before it is constructed or once it is being destroyed.
Aux ==
  /\ config = IF upd \in {"off", "write"} THEN version ELSE version + 1
  /\ upd # "off" => version < MaxVersion /\ life = "up"
  /\ pc[Monitor] \in HoldPcs \cup {"get", "wait"} => mi < PoolSize
  /\ life # "up" => \A p \in Callers : pc[p] = "out"

IInv == TypeOK /\ Aux /\ Accounting /\ curr <= PoolSize

\* The initial states satisfy the inductive invariant.
LEMMA InitIInv == Init => IInv
<1> SUFFICES ASSUME Init PROVE IInv
  OBVIOUS
<1> USE PoolSizeAssumption, VersionAssumption, MonitorAssumption DEF Init
<1>1. curr \in Nat /\ curr <= PoolSize
  BY DEF InitialSize
<1>2. Opened(1, 1, TRUE) \in Conn /\ NoConn \in Conn
  BY DEF Opened, NoConn, Conn
<1>3. pool \in Seq(Conn) /\ Len(pool) = curr
  BY <1>1, <1>2, Refill DEF InitConnectionPool
<1>4. TypeOK
  <2>1. pc \in [Procs -> {"out", "wait", "loop", "scan", "get", "sleep", "exit"} \cup HoldPcs]
    OBVIOUS
  <2>2. held \in [Procs -> Conn] /\ want \in [Procs -> BOOLEAN]
    BY <1>2
  <2>3. monitor_flag \in BOOLEAN
    BY Zenon
  <2>4. config \in 1..MaxVersion /\ version \in 1..MaxVersion /\ mi \in 0..PoolSize
    OBVIOUS
  <2>5. /\ waiting \subseteq Procs
        /\ upd \in {"off", "write", "swap", "bump"}
        /\ life \in {"ctor", "up", "dtor", "gone"}
    OBVIOUS
  <2> QED
    BY <1>1, <1>3, <2>1, <2>2, <2>3, <2>4, <2>5, Zenon DEF TypeOK
<1>5. Aux
  BY DEF Aux, HoldPcs, Procs
<1>6. Holders = {}
  BY DEF Holders, HoldPcs
<1>7. Accounting
  BY <1>1, <1>3, <1>6, FS_EmptySet DEF Accounting
<1> QED
  BY <1>1, <1>4, <1>5, <1>7 DEF IInv

\* Holders is HoldersOf(pc), now and in the next state.
LEMMA HoldersDef == Holders = HoldersOf(pc) /\ Holders' = HoldersOf(pc')
BY DEF Holders, HoldersOf

\* Return(p) by a thread that owned no connection.
LEMMA ReturnEmpty ==
  ASSUME IInv, NEW p \in Procs, pc[p] \in {"out", "get", "wait"}, Return(p),
         p = Monitor => pc[p] # "out"
  PROVE  /\ pc' \in [Procs -> {"out", "wait", "loop", "scan", "get", "sleep", "exit"} \cup HoldPcs]
         /\ held' \in [Procs -> Conn]
         /\ mi' \in 0..PoolSize
         /\ pc'[Monitor] \in HoldPcs \cup {"get", "wait"} => mi' < PoolSize
         /\ Cardinality(Holders') = Cardinality(Holders)
<1> USE PoolSizeAssumption DEF IInv, TypeOK, Return
<1>1. NoConn \in Conn
  BY VersionAssumption DEF NoConn, Conn
<1>2. mi' \in 0..PoolSize
  BY DEF Aux
<1>3. pc'[Monitor] \in HoldPcs \cup {"get", "wait"} => mi' < PoolSize
  BY DEF Aux, HoldPcs, Procs
<1>4. Cardinality(Holders') = Cardinality(Holders)
  BY HoldersSame, HoldersDef DEF HoldPcs
<1> QED
  BY <1>1, <1>2, <1>3, <1>4 DEF HoldPcs

\* Return(p) by a thread that gave up the connection it owned.
LEMMA ReturnOwner ==
  ASSUME IInv, NEW p \in Procs, pc[p] \in HoldPcs, Return(p)
  PROVE  /\ pc' \in [Procs -> {"out", "wait", "loop", "scan", "get", "sleep", "exit"} \cup HoldPcs]
         /\ held' \in [Procs -> Conn]
         /\ mi' \in 0..PoolSize
         /\ pc'[Monitor] \in HoldPcs \cup {"get", "wait"} => mi' < PoolSize
         /\ Cardinality(Holders') = Cardinality(Holders) - 1
<1> USE PoolSizeAssumption DEF IInv, TypeOK, Return
<1>1. NoConn \in Conn
  BY VersionAssumption DEF NoConn, Conn
<1>2. mi' \in 0..PoolSize
  BY DEF Aux
<1>3. pc'[Monitor] \in HoldPcs \cup {"get", "wait"} => mi' < PoolSize
  BY DEF Aux, HoldPcs, Procs
<1>4. Cardinality(Holders') = Cardinality(Holders) - 1
  BY HoldersShrink, HoldersDef DEF HoldPcs
<1> QED
  BY <1>1, <1>2, <1>3, <1>4 DEF HoldPcs

\* Hand(p, c) to a thread that owned no connection.
LEMMA HandOver ==
  ASSUME IInv, NEW p \in Procs, pc[p] \in {"out", "get", "wait"},
         NEW c \in Conn, Hand(p, c), p = Monitor => pc[p] # "out"
  PROVE  /\ pc' \in [Procs -> {"out", "wait", "loop", "scan", "get", "sleep", "exit"} \cup HoldPcs]
         /\ held' \in [Procs -> Conn]
         /\ mi' \in 0..PoolSize
         /\ pc'[Monitor] \in HoldPcs \cup {"get", "wait"} => mi' < PoolSize
         /\ Cardinality(Holders') = Cardinality(Holders) + 1
<1> USE DEF IInv, TypeOK, Hand
<1>1. pc'[Monitor] \in HoldPcs \cup {"get", "wait"} => mi' < PoolSize
  BY DEF Aux, HoldPcs, Procs
<1>2. Cardinality(Holders') = Cardinality(Holders) + 1
  BY HoldersGrow, HoldersDef DEF HoldPcs
<1> QED
  BY <1>1, <1>2 DEF HoldPcs

\* What a step leaves of TypeOK and Aux when it touches neither UpdateConfig's
\* variables nor the object's life, but only the queue, the counter and p.
LEMMA FrameStep ==
  ASSUME IInv, NEW p \in Procs, UNCHANGED <<updVars, lifeVars>>,
         pool' \in Seq(Conn), curr' \in Nat, curr' <= PoolSize,
         waiting' \subseteq Procs, want' \in [Procs -> BOOLEAN],
         pc' \in [Procs -> {"out", "wait", "loop", "scan", "get", "sleep", "exit"} \cup HoldPcs],
         held' \in [Procs -> Conn],
         mi' \in 0..PoolSize,
         pc'[Monitor] \in HoldPcs \cup {"get", "wait"} => mi' < PoolSize,
         \A q \in Procs \ {p} : pc'[q] = pc[q],
         p \in Callers => life = "up",
         curr' = Len(pool') + Cardinality(Holders')
  PROVE  IInv'
<1> USE DEF IInv, updVars, lifeVars
<1>1. TypeOK'
  BY DEF TypeOK
<1>2. Aux'
  <2>1. life' # "up" => \A q \in Callers : pc'[q] = "out"
    BY MonitorAssumption DEF Aux, Procs
  <2> QED
    BY <2>1 DEF Aux
<1>3. Accounting'
  BY DEF Accounting
<1> QED
  BY <1>1, <1>2, <1>3

\* Taking an idle connection preserves the invariant, whichever way it ends.
LEMMA TakeIdleStep ==
  ASSUME IInv, NEW p \in Procs, pc[p] \in {"out", "get", "wait"},
         p = Monitor => pc[p] # "out", p \in Callers => life = "up",
         want' \in [Procs -> BOOLEAN], TakeIdle(p),
         UNCHANGED <<waiting, updVars, lifeVars>>
  PROVE  IInv'
<1> USE PoolSizeAssumption
<1>1. /\ pool' \in Seq(Conn)
      /\ Head(pool) \in Conn
      /\ Len(pool) = Len(pool') + 1
      /\ Cardinality(Holders) \in Nat
      /\ curr = Len(pool) + Cardinality(Holders)
      /\ curr \in Nat /\ curr <= PoolSize
      /\ waiting' \subseteq Procs
  BY HoldersNat, HoldersDef DEF TakeIdle, IInv, TypeOK, Accounting
<1>2. \A q \in Procs \ {p} : pc'[q] = pc[q]
  BY DEF TakeIdle, Hand, Return, IInv, TypeOK
<1>3. ASSUME NEW c \in Conn, Hand(p, c), UNCHANGED curr PROVE IInv'
  <2>1. curr' = Len(pool') + Cardinality(Holders')
    BY <1>1, <1>3, HandOver
  <2> QED
    BY <1>1, <1>2, <1>3, <2>1, HandOver, FrameStep
<1>4. ASSUME Return(p), curr' = curr - 1 PROVE IInv'
  <2>1. curr' = Len(pool') + Cardinality(Holders') /\ curr' \in Nat
    BY <1>1, <1>4, ReturnEmpty
  <2> QED
    BY <1>1, <1>2, <1>4, <2>1, ReturnEmpty, FrameStep
<1>5. ASSUME NEW c \in Conn, NEW ok \in BOOLEAN
      PROVE  ManualMode(c, ok) \in Conn /\ Reconnect(c) \in Conn
  BY DEF ManualMode, Reconnect, Conn
<1>6. May("setac") \subseteq BOOLEAN
  BY DEF May
<1> QED
  BY <1>1, <1>3, <1>4, <1>5, <1>6 DEF TakeIdle

\* Opening a connection under lock_ preserves the invariant.
LEMMA OpenNewStep ==
  ASSUME IInv, NEW p \in Procs, pc[p] \in {"out", "get"},
         p = Monitor => pc[p] # "out", p \in Callers => life = "up",
         want' \in [Procs -> BOOLEAN], OpenNew(p), LockFree,
         UNCHANGED <<waiting, updVars, lifeVars>>
  PROVE  IInv'
<1> USE PoolSizeAssumption
<1>1. /\ pool' \in Seq(Conn) /\ pool' = pool
      /\ Len(pool) \in Nat
      /\ Cardinality(Holders) \in Nat
      /\ curr = Len(pool) + Cardinality(Holders)
      /\ curr \in Nat /\ curr < PoolSize
      /\ waiting' \subseteq Procs
      /\ version \in 0..MaxVersion /\ config \in 0..MaxVersion
      /\ want'[p] \in BOOLEAN
  BY HoldersNat, HoldersDef, VersionAssumption
     DEF OpenNew, AtCapacity, IInv, TypeOK, Accounting
<1>2. \A q \in Procs \ {p} : pc'[q] = pc[q]
  BY DEF OpenNew, Hand, Return, IInv, TypeOK
<1>3. ASSUME NEW c \in Conn, Hand(p, c), curr' = curr + 1 PROVE IInv'
  <2>1. /\ curr' = Len(pool') + Cardinality(Holders')
        /\ curr' \in Nat /\ curr' <= PoolSize
    BY <1>1, <1>3, HandOver
  <2> QED
    BY <1>1, <1>2, <1>3, <2>1, HandOver, FrameStep
<1>4. ASSUME Return(p), curr' = curr PROVE IInv'
  <2>1. curr' = Len(pool') + Cardinality(Holders') /\ curr' <= PoolSize
    BY <1>1, <1>4, ReturnEmpty
  <2> QED
    BY <1>1, <1>2, <1>4, <2>1, ReturnEmpty, FrameStep
<1>5. ASSUME NEW c \in Conn, NEW ok \in BOOLEAN
      PROVE  ManualMode(c, ok) \in Conn
  BY DEF ManualMode, Conn
<1>6. May("setac") \subseteq BOOLEAN
  BY DEF May
<1>7. Opened(version, config, want'[p]) \in Conn
  BY <1>1, OpenedType
<1> QED
  BY <1>1, <1>3, <1>4, <1>5, <1>6, <1>7 DEF OpenNew

\* Finding the pool exhausted preserves the invariant: it counts nothing.
LEMMA ExhaustedStep ==
  ASSUME IInv, NEW p \in Procs, pc[p] \in {"out", "get"}, NEW block \in BOOLEAN,
         p = Monitor => pc[p] # "out", p \in Callers => life = "up",
         want' \in [Procs -> BOOLEAN], Exhausted(p, block),
         UNCHANGED <<updVars, lifeVars>>
  PROVE  IInv'
<1>1. /\ pool' \in Seq(Conn) /\ UNCHANGED <<pool, curr>>
      /\ curr = Len(pool) + Cardinality(Holders)
      /\ curr \in Nat /\ curr <= PoolSize
      /\ waiting' \subseteq Procs
  BY DEF Exhausted, IInv, TypeOK, Accounting
<1>2. \A q \in Procs \ {p} : pc'[q] = pc[q]
  BY DEF Exhausted, Return, IInv, TypeOK
<1>3. CASE ~block
  BY <1>1, <1>2, <1>3, ReturnEmpty, FrameStep DEF Exhausted
<1>4. CASE block
  <2>1. /\ pc' = [pc EXCEPT ![p] = "wait"]
        /\ UNCHANGED <<held, mi>>
    BY <1>4 DEF Exhausted
  <2>2. Cardinality(Holders') = Cardinality(Holders)
    BY <2>1, HoldersSame, HoldersDef DEF IInv, TypeOK, HoldPcs
  <2>3. pc'[Monitor] \in HoldPcs \cup {"get", "wait"} => mi' < PoolSize
    BY <2>1 DEF IInv, TypeOK, Aux, HoldPcs, Procs
  <2>4. /\ pc' \in [Procs -> {"out", "wait", "loop", "scan", "get", "sleep", "exit"} \cup HoldPcs]
        /\ held' \in [Procs -> Conn]
        /\ mi' \in 0..PoolSize
    BY <2>1 DEF IInv, TypeOK
  <2> QED
    BY <1>1, <1>2, <2>2, <2>3, <2>4, FrameStep
<1> QED
  BY <1>3, <1>4

\* GetConnection preserves the invariant.
LEMMA GetConnectionStep ==
  ASSUME IInv, NEW p \in Procs, NEW auto_commit \in BOOLEAN, NEW block \in BOOLEAN,
         GetConnection(p, auto_commit, block)
  PROVE  IInv'
<1>1. /\ pc[p] \in {"out", "get"}
      /\ p = Monitor => pc[p] # "out"
      /\ p \in Callers => life = "up"
      /\ LockFree
      /\ UNCHANGED <<updVars, lifeVars>>
  BY MonitorAssumption DEF GetConnection
<1>2. want' \in [Procs -> BOOLEAN]
  BY DEF GetConnection, IInv, TypeOK
<1> QED
  BY <1>1, <1>2, TakeIdleStep, OpenNewStep, ExhaustedStep DEF GetConnection

\* A caller that is inside the pool is there while the pool is up.
LEMMA InsideIsUp ==
  ASSUME IInv, NEW p \in Callers, pc[p] # "out"
  PROVE  life = "up"
BY DEF IInv, Aux

\* A woken waiter preserves the invariant.
LEMMA WakeStep ==
  ASSUME IInv, NEW p \in Procs, Wake(p)
  PROVE  IInv'
<1>1. /\ pc[p] = "wait"
      /\ p \in Callers => life = "up"
      /\ want' \in [Procs -> BOOLEAN]
      /\ UNCHANGED <<updVars, lifeVars>>
  BY InsideIsUp DEF Wake, IInv, TypeOK
<1>2. CASE TakeIdle(p) /\ UNCHANGED waiting
  BY <1>1, <1>2, TakeIdleStep
<1>3. CASE UNCHANGED <<pool, curr, pc, held, mi>> /\ waiting' = waiting \cup {p}
  <2>1. UNCHANGED Holders
    BY <1>3 DEF Holders
  <2>2. Accounting'
    BY <1>3, <2>1 DEF IInv, Accounting
  <2>3. TypeOK'
    BY <1>1, <1>3 DEF IInv, TypeOK, updVars, lifeVars
  <2>4. Aux'
    BY <1>1, <1>3 DEF IInv, Aux, updVars, lifeVars
  <2> QED
    BY <1>3, <2>2, <2>3, <2>4 DEF IInv
<1> QED
  BY <1>2, <1>3 DEF Wake

\* A timed out waiter preserves the invariant.
LEMMA TimeoutStep ==
  ASSUME IInv, NEW p \in Procs, Timeout(p)
  PROVE  IInv'
<1>1. /\ pc[p] = "wait" /\ Return(p)
      /\ p \in Callers => life = "up"
      /\ UNCHANGED <<pool, curr, want, updVars, lifeVars>>
      /\ waiting' \subseteq Procs
  BY InsideIsUp DEF Timeout, IInv, TypeOK
<1>2. \A q \in Procs \ {p} : pc'[q] = pc[q]
  BY <1>1 DEF Return, IInv, TypeOK
<1>3. /\ pool' \in Seq(Conn) /\ curr' \in Nat /\ curr' <= PoolSize
      /\ want' \in [Procs -> BOOLEAN]
      /\ curr' = Len(pool') + Cardinality(Holders)
  BY <1>1 DEF IInv, TypeOK, Accounting
<1> QED
  BY <1>1, <1>2, <1>3, ReturnEmpty, FrameStep

\* The steps of ReleaseConnection outside lock_ move one owner, which keeps
\* its (possibly dead) connection.
LEMMA UnlockedStep ==
  ASSUME IInv, NEW p \in Procs, pc[p] \in HoldPcs, NEW x \in HoldPcs,
         pc' = [pc EXCEPT ![p] = x], held' \in [Procs -> Conn],
         UNCHANGED <<updVars, lifeVars, pool, curr, waiting, want, mi>>
  PROVE  IInv'
<1>1. Cardinality(Holders') = Cardinality(Holders)
  BY HoldersSame, HoldersDef DEF IInv, TypeOK
<1>2. pc'[Monitor] \in HoldPcs \cup {"get", "wait"} => mi' < PoolSize
  BY DEF IInv, TypeOK, Aux, Procs
<1>3. p \in Callers => life = "up"
  BY InsideIsUp DEF HoldPcs
<1>4. \A q \in Procs \ {p} : pc'[q] = pc[q]
  BY DEF IInv, TypeOK
<1>5. /\ pool' \in Seq(Conn) /\ curr' \in Nat /\ curr' <= PoolSize
      /\ want' \in [Procs -> BOOLEAN] /\ waiting' \subseteq Procs
      /\ curr' = Len(pool') + Cardinality(Holders')
      /\ mi' \in 0..PoolSize
      /\ pc' \in [Procs -> {"out", "wait", "loop", "scan", "get", "sleep", "exit"} \cup HoldPcs]
  BY <1>1 DEF IInv, TypeOK, Accounting
<1> QED
  BY <1>2, <1>3, <1>4, <1>5, FrameStep

\* ReleaseConnection preserves the invariant, reopening included.
LEMMA ReleaseStep ==
  ASSUME IInv, NEW p \in Procs, Release(p)
  PROVE  IInv'
<1>1. held \in [Procs -> Conn]
  BY DEF IInv, TypeOK
<1>2. CASE Done(p)
  BY <1>1, <1>2, UnlockedStep DEF Done, HoldPcs
<1>3. CASE ReleaseCheck(p)
  BY <1>1, <1>3, UnlockedStep DEF ReleaseCheck, HoldPcs
<1>4. CASE ReleaseReopen(p)
  <2>1. PICK ok \in May("open"), c \in ReadableConfig :
          held' = [held EXCEPT ![p] =
                     [@ EXCEPT !.raw = ok, !.cfg = IF ok THEN c ELSE 0, !.ac = TRUE]]
    BY <1>4 DEF ReleaseReopen
  <2>2. ok \in BOOLEAN
    BY DEF May
  <2>3. c \in 0..MaxVersion
    BY VersionAssumption DEF ReadableConfig, IInv, TypeOK, Aux
  <2> DEFINE d == [held[p] EXCEPT !.raw = ok, !.cfg = IF ok THEN c ELSE 0, !.ac = TRUE]
  <2>4. d \in Conn
    <3>1. (IF ok THEN c ELSE 0) \in 0..MaxVersion
      BY <2>3, VersionAssumption
    <3>2. ASSUME NEW e \in Conn, NEW n \in 0..MaxVersion
          PROVE  [e EXCEPT !.raw = ok, !.cfg = n, !.ac = TRUE] \in Conn
      BY <2>2 DEF Conn
    <3> QED
      BY <1>1, <3>1, <3>2
  <2>5. held' \in [Procs -> Conn]
    BY <1>1, <2>1, <2>4
  <2> QED
    BY <1>4, <2>5, UnlockedStep DEF ReleaseReopen, HoldPcs
<1>5. CASE ReleaseStamp(p)
  <2>1. version \in 0..MaxVersion
    BY VersionAssumption DEF IInv, TypeOK
  <2>2. held' \in [Procs -> Conn]
    BY <1>1, <1>5, <2>1 DEF ReleaseStamp, Conn
  <2> QED
    BY <1>5, <2>2, UnlockedStep DEF ReleaseStamp, HoldPcs
<1>6. CASE ReleasePush(p)
  <2>1. /\ pc[p] = "push" /\ Return(p)
        /\ UNCHANGED <<want, updVars, lifeVars>>
        /\ want' \in [Procs -> BOOLEAN]
        /\ p \in Callers => life = "up"
    BY <1>6, InsideIsUp DEF ReleasePush, IInv, TypeOK
  <2>2. \A q \in Procs \ {p} : pc'[q] = pc[q]
    BY <2>1 DEF Return, IInv, TypeOK
  <2>3. /\ Cardinality(Holders') = Cardinality(Holders) - 1
        /\ Cardinality(Holders) \in Nat /\ Cardinality(Holders') \in Nat
        /\ Len(pool) \in Nat
        /\ curr = Len(pool) + Cardinality(Holders)
        /\ curr \in Nat /\ curr <= PoolSize
    BY <2>1, ReturnOwner, HoldersNat, HoldersDef DEF HoldPcs, IInv, TypeOK, Accounting
  <2>4. CASE Dropped(p)
    <3>1. /\ curr' \in Nat /\ curr' <= PoolSize
          /\ curr' = Len(pool') + Cardinality(Holders')
          /\ pool' \in Seq(Conn) /\ waiting' \subseteq Procs
      BY <2>3, <2>4, PoolSizeAssumption DEF Dropped, IInv, TypeOK
    <3> QED
      BY <2>1, <2>2, <3>1, ReturnOwner, FrameStep DEF HoldPcs
  <2>5. CASE Pooled(p)
    <3>1. PICK ok \in May("setac") : pool' = Append(pool, Restored(held[p], ok))
      BY <2>5 DEF Pooled
    <3>2. Restored(held[p], ok) \in Conn
      BY <1>1 DEF Restored, Conn
    <3>3. pool' \in Seq(Conn) /\ Len(pool') = Len(pool) + 1
      BY <3>1, <3>2 DEF IInv, TypeOK
    <3>4. /\ curr' \in Nat /\ curr' <= PoolSize
          /\ curr' = Len(pool') + Cardinality(Holders')
          /\ waiting' \subseteq Procs
      BY <2>3, <2>5, <3>3 DEF Pooled, IInv, TypeOK
    <3> QED
      BY <2>1, <2>2, <3>3, <3>4, ReturnOwner, FrameStep DEF HoldPcs
  <2> QED
    BY <1>6, <2>4, <2>5 DEF ReleasePush
<1> QED
  BY <1>2, <1>3, <1>4, <1>5, <1>6 DEF Release

\* UpdateConfig preserves the invariant: what it closes and what it opens are
\* both counted.
LEMMA UpdateStepInv ==
  ASSUME IInv, UpdateStep
  PROVE  IInv'
<1> USE VersionAssumption DEF lifeVars
<1>1. CASE UpdateBegin
  BY <1>1 DEF UpdateBegin, IInv, TypeOK, Aux, Accounting, Holders
<1>2. CASE UpdateWrite
  <2>1. config' \in 1..MaxVersion
    BY <1>2 DEF UpdateWrite, IInv, TypeOK, Aux
  <2> QED
    BY <1>2, <2>1 DEF UpdateWrite, IInv, TypeOK, Aux, Accounting, Holders
<1>3. CASE UpdateSwap
  <2>1. PICK k \in 0..Len(pool) :
          /\ pool' = [i \in 1..k |-> Opened(version, config, TRUE)]
          /\ curr' = (curr - Len(pool)) + k
    BY <1>3 DEF UpdateSwap, IInv, TypeOK
  <2>2. Opened(version, config, TRUE) \in Conn
    BY DEF IInv, TypeOK, Opened, Conn
  <2>3. k \in Nat /\ Len(pool) \in Nat /\ k <= Len(pool)
    BY DEF IInv, TypeOK
  <2>4. pool' \in Seq(Conn) /\ Len(pool') = k
    BY <2>1, <2>2, <2>3, Refill
  <2>5. UNCHANGED Holders /\ Cardinality(Holders) \in Nat
    BY <1>3, HoldersNat, HoldersDef DEF UpdateSwap, Holders
  <2>6. curr' = Len(pool') + Cardinality(Holders') /\ curr' \in Nat /\ curr' <= PoolSize
    BY <2>1, <2>3, <2>4, <2>5, PoolSizeAssumption DEF IInv, TypeOK, Accounting
  <2>7. TypeOK'
    BY <1>3, <2>4, <2>6 DEF UpdateSwap, IInv, TypeOK
  <2>8. Aux'
    BY <1>3 DEF UpdateSwap, IInv, Aux
  <2> QED
    BY <2>6, <2>7, <2>8 DEF IInv, Accounting
<1>4. CASE UpdateEnd
  <2>1. version' \in 1..MaxVersion
    BY <1>4 DEF UpdateEnd, IInv, TypeOK, Aux
  <2> QED
    BY <1>4, <2>1 DEF UpdateEnd, IInv, TypeOK, Aux, Accounting, Holders
<1> QED
  BY <1>1, <1>2, <1>3, <1>4 DEF UpdateStep

\* The monitor's own moves preserve the invariant.
LEMMA MonitorMove ==
  ASSUME IInv, NEW x \in {"loop", "scan", "get", "sleep", "exit"},
         pc[Monitor] \in {"loop", "scan", "sleep"},
         pc' = [pc EXCEPT ![Monitor] = x],
         mi' \in 0..PoolSize, x = "get" => mi' < PoolSize,
         UNCHANGED <<updVars, lifeVars, pool, curr, waiting, held, want>>
  PROVE  IInv'
<1>1. Monitor \in Procs
  BY DEF Procs
<1>2. Cardinality(Holders') = Cardinality(Holders)
  BY <1>1, HoldersSame, HoldersDef DEF IInv, TypeOK, HoldPcs
<1>3. pc'[Monitor] \in HoldPcs \cup {"get", "wait"} => mi' < PoolSize
  BY <1>1 DEF IInv, TypeOK, HoldPcs
<1>4. /\ \A q \in Procs \ {Monitor} : pc'[q] = pc[q]
      /\ pool' \in Seq(Conn) /\ curr' \in Nat /\ curr' <= PoolSize
      /\ want' \in [Procs -> BOOLEAN] /\ waiting' \subseteq Procs
      /\ held' \in [Procs -> Conn]
      /\ curr' = Len(pool') + Cardinality(Holders')
      /\ pc' \in [Procs -> {"out", "wait", "loop", "scan", "get", "sleep", "exit"} \cup HoldPcs]
  BY <1>1, <1>2 DEF IInv, TypeOK, Accounting
<1> QED
  BY <1>1, <1>3, <1>4, MonitorAssumption, FrameStep

\* The monitor's own steps preserve the invariant.
LEMMA MonitorStepInv ==
  ASSUME IInv, MonitorStep
  PROVE  IInv'
<1> USE PoolSizeAssumption
<1>1. Monitor \in Procs /\ mi \in 0..PoolSize /\ curr \in Nat /\ curr <= PoolSize
  BY DEF Procs, IInv, TypeOK
<1>2. CASE MonitorLoop
  <2>1. PICK x \in {"scan", "exit"} : pc' = [pc EXCEPT ![Monitor] = x]
    BY <1>2 DEF MonitorLoop
  <2>2. mi' \in 0..PoolSize
    BY <1>2 DEF MonitorLoop
  <2>3. /\ pc[Monitor] \in {"loop", "scan", "sleep"}
        /\ UNCHANGED <<updVars, lifeVars, pool, curr, waiting, held, want>>
    BY <1>2 DEF MonitorLoop
  <2> QED
    BY <2>1, <2>2, <2>3, MonitorMove
<1>3. CASE MonitorScan
  <2>1. PICK x \in {"get", "sleep"} :
          pc' = [pc EXCEPT ![Monitor] = x] /\ (x = "get" => mi < curr)
    BY <1>3 DEF MonitorScan
  <2>2. mi' = mi
    BY <1>3 DEF MonitorScan
  <2>3. x = "get" => mi' < PoolSize
    BY <1>1, <2>1, <2>2
  <2> QED
    BY <1>1, <1>3, <2>1, <2>2, <2>3, MonitorMove DEF MonitorScan
<1>4. CASE MonitorSleep
  BY <1>1, <1>4, MonitorMove DEF MonitorSleep
<1> QED
  BY <1>1, <1>2, <1>3, <1>4, GetConnectionStep, WakeStep, TimeoutStep, ReleaseStep
     DEF MonitorStep

\* Every step of the pool preserves the invariant.
LEMMA NextIInv == IInv /\ [Next]_vars => IInv'
<1> SUFFICES ASSUME IInv, [Next]_vars PROVE IInv'
  OBVIOUS
<1>1. CASE Constructed
  BY <1>1 DEF Constructed, IInv, TypeOK, Aux, Accounting, Holders
<1>2. ASSUME NEW p \in Callers, CallerStep(p) PROVE IInv'
  BY <1>2, GetConnectionStep, WakeStep, TimeoutStep, ReleaseStep DEF CallerStep, Procs
<1>3. CASE MonitorStep
  BY <1>3, MonitorStepInv
<1>4. CASE UpdateStep
  BY <1>4, UpdateStepInv
<1>5. CASE DestroyBegin
  BY <1>5 DEF DestroyBegin, updVars, IInv, TypeOK, Aux, Accounting, Holders
<1>6. CASE DestroyEnd
  <2>1. \A p \in Procs : pc'[p] \in {"out", "exit"}
    BY <1>6 DEF DestroyEnd, IInv, Aux, Procs
  <2>2. Holders' = {}
    BY <2>1 DEF Holders, HoldPcs
  <2>3. pool' = <<>> /\ curr' = 0
    BY <1>6 DEF DestroyEnd, ReleaseConnectionPool
  <2>4. Accounting'
    BY <2>2, <2>3, FS_EmptySet DEF Accounting
  <2>5. TypeOK'
    BY <1>6, <2>3 DEF DestroyEnd, updVars, IInv, TypeOK
  <2>6. Aux'
    BY <1>6 DEF DestroyEnd, updVars, IInv, Aux
  <2> QED
    BY <2>3, <2>4, <2>5, <2>6, PoolSizeAssumption DEF IInv
<1>7. CASE UNCHANGED vars
  BY <1>7 DEF vars, IInv, TypeOK, Aux, Accounting, Holders
<1> QED
  BY <1>1, <1>2, <1>3, <1>4, <1>5, <1>6, <1>7 DEF Next, DestroyStep, Terminated

\* The pool's state has the types the code gives it in every reachable state.
THEOREM TypeCorrect == Spec => []TypeOK
<1>1. IInv => TypeOK
  BY DEF IInv
<1> QED
  BY <1>1, InitIInv, NextIInv, PTL DEF Spec

\* curr_pool_size_ is the number of connections that exist, whatever failed.
THEOREM PoolAccounting == Spec => []Accounting
<1>1. IInv => Accounting
  BY DEF IInv
<1> QED
  BY <1>1, InitIInv, NextIInv, PTL DEF Spec

\* Never more than pool_size_ connections exist.
THEOREM PoolBounded == Spec => []Bounded
<1>1. IInv => Bounded
  BY DEF IInv, Accounting, Bounded
<1> QED
  BY <1>1, InitIInv, NextIInv, PTL DEF Spec

-----------------------------------------------------------------------------
(* Waiters *)

\* Each step keeps sleepers away from a non-empty queue.
LEMMA NextWakeup ==
  TypeOK /\ NoLostWakeup /\ [Next]_vars => NoLostWakeup'
<1> SUFFICES ASSUME TypeOK, NoLostWakeup, [Next]_vars PROVE NoLostWakeup'
  OBVIOUS
<1> USE DEF NoLostWakeup
<1>1. ASSUME NEW p \in Procs, NEW a \in BOOLEAN, NEW b \in BOOLEAN,
             GetConnection(p, a, b)
      PROVE  NoLostWakeup'
  BY <1>1 DEF GetConnection, TakeIdle, OpenNew, Exhausted
<1>2. ASSUME NEW p \in Procs, Wake(p) PROVE NoLostWakeup'
  BY <1>2 DEF Wake, TakeIdle
<1>3. ASSUME NEW p \in Procs, Timeout(p) PROVE NoLostWakeup'
  BY <1>3 DEF Timeout
<1>4. ASSUME NEW p \in Procs, Release(p) PROVE NoLostWakeup'
  BY <1>4 DEF Release, Done, ReleaseCheck, ReleaseReopen, ReleaseStamp, ReleasePush,
              Dropped, Pooled
<1>5. CASE UpdateSwap
  <2>1. PICK k \in 0..Len(pool) : pool' = [i \in 1..k |-> Opened(version, config, TRUE)]
    BY <1>5 DEF UpdateSwap, TypeOK
  <2>2. UNCHANGED waiting
    BY <1>5 DEF UpdateSwap
  <2>3. pool = <<>> => pool' = <<>>
    <3>1. pool = <<>> => k = 0
      OBVIOUS
    <3>2. ASSUME NEW c PROVE [i \in 1..0 |-> c] = <<>>
      OBVIOUS
    <3> QED
      BY <2>1, <3>1, <3>2
  <2> QED
    BY <2>2, <2>3
<1>6. CASE UpdateBegin \/ UpdateWrite \/ UpdateEnd \/ Constructed \/ DestroyStep
  BY <1>6 DEF UpdateBegin, UpdateWrite, UpdateEnd, Constructed, DestroyStep,
              DestroyBegin, DestroyEnd, ReleaseConnectionPool
<1>7. CASE MonitorLoop \/ MonitorScan \/ MonitorSleep
  BY <1>7 DEF MonitorLoop, MonitorScan, MonitorSleep
<1>8. CASE UNCHANGED vars
  BY <1>8 DEF vars
<1>9. Monitor \in Procs /\ Callers \subseteq Procs
  BY DEF Procs
<1> QED
  BY <1>1, <1>2, <1>3, <1>4, <1>5, <1>6, <1>7, <1>8, <1>9
     DEF Next, CallerStep, MonitorStep, UpdateStep, Terminated

\* No thread sleeps in GetConnection, un-notified, while a connection is idle.
THEOREM WakeupsNotLost == Spec => []NoLostWakeup
<1>1. Init => NoLostWakeup
  BY DEF Init, NoLostWakeup
<1> QED
  BY <1>1, NextWakeup, TypeCorrect, PTL DEF Spec

-----------------------------------------------------------------------------
(* Autocommit mode *)

Sound(c) == c.flag => c.ac

\* FlagHonest for every connection, in the form each step preserves.
FlagInv ==
  /\ \A i \in DOMAIN pool : Sound(pool[i])
  /\ \A p \in Procs : Sound(held[p])

\* The queue and the taken connections stay sound when one connection moves.
LEMMA HandSound ==
  ASSUME TypeOK, FlagInv, NEW p \in Procs, NEW c, Sound(c), Hand(p, c)
  PROVE  \A q \in Procs : Sound(held'[q])
BY DEF Hand, FlagInv, TypeOK

\* A thread that returns empty-handed leaves the taken connections sound.
LEMMA ReturnSound ==
  ASSUME TypeOK, FlagInv, NEW p \in Procs, Return(p)
  PROVE  \A q \in Procs : Sound(held'[q])
BY DEF Return, FlagInv, TypeOK, NoConn, Sound

\* The front of a sound queue is sound, and so is the rest.
LEMMA TailSound ==
  ASSUME TypeOK, FlagInv, pool # <<>>
  PROVE  /\ Sound(Head(pool)) /\ Head(pool) \in Conn
         /\ \A i \in DOMAIN Tail(pool) : Sound(Tail(pool)[i])
<1> USE DEF TypeOK, FlagInv
<1>1. pool \in Seq(Conn) /\ 1 \in DOMAIN pool /\ Head(pool) = pool[1]
  OBVIOUS
<1>2. \A i \in DOMAIN Tail(pool) : Tail(pool)[i] = pool[i+1] /\ i+1 \in DOMAIN pool
  OBVIOUS
<1> QED
  BY <1>1, <1>2

\* _GetConnection keeps auto_commit_ honest, reconnecting included.
LEMMA TakeIdleSound ==
  ASSUME TypeOK, FlagInv, NEW p \in Procs, TakeIdle(p)
  PROVE  FlagInv'
<1>1. /\ pool # <<>> /\ pool' = Tail(pool)
  BY DEF TakeIdle
<1>2. ASSUME NEW c \in Conn, NEW ok, Sound(c)
      PROVE  Sound(ManualMode(c, ok)) /\ Sound(Reconnect(c))
  BY <1>2 DEF Sound, ManualMode, Reconnect, Conn
<1>3. \A q \in Procs : Sound(held'[q])
  <2>1. Sound(Head(pool)) /\ Head(pool) \in Conn
    BY <1>1, TailSound
  <2>2. CASE Return(p)
    BY <2>2, ReturnSound
  <2>3. ASSUME NEW valid \in BOOLEAN, NEW ok \in May("setac"),
               LET c == IF valid THEN Head(pool) ELSE Reconnect(Head(pool))
               IN  Hand(p, IF want'[p] THEN c ELSE ManualMode(c, ok))
        PROVE  \A q \in Procs : Sound(held'[q])
    <3> DEFINE c == IF valid THEN Head(pool) ELSE Reconnect(Head(pool))
    <3>1. c \in Conn /\ Sound(c)
      BY <2>1, <1>2 DEF Reconnect, Conn
    <3>2. Sound(IF want'[p] THEN c ELSE ManualMode(c, ok))
      BY <3>1, <1>2
    <3> QED
      BY <2>3, <3>2, HandSound
  <2> QED
    BY <2>2, <2>3 DEF TakeIdle
<1> QED
  BY <1>1, <1>3, TailSound DEF FlagInv

\* A connection opened by GetConnection is honest.
LEMMA OpenNewSound ==
  ASSUME TypeOK, FlagInv, NEW p \in Procs, OpenNew(p)
  PROVE  FlagInv'
<1>1. ASSUME NEW v, NEW c, NEW b, NEW ok
      PROVE  Sound(Opened(v, c, b)) /\ Sound(ManualMode(Opened(v, c, b), ok))
  BY DEF Sound, Opened, ManualMode
<1>2. \A q \in Procs : Sound(held'[q])
  BY <1>1, HandSound, ReturnSound DEF OpenNew
<1> QED
  BY <1>2 DEF FlagInv, OpenNew

\* ReleaseConnection keeps auto_commit_ honest, whatever MySQL refuses.
LEMMA ReleaseSound ==
  ASSUME TypeOK, FlagInv, NEW p \in Procs, Release(p)
  PROVE  FlagInv'
<1>1. held[p] \in Conn /\ Sound(held[p]) /\ held \in [Procs -> Conn]
  BY DEF TypeOK, FlagInv
<1>2. CASE Done(p) \/ ReleaseCheck(p)
  BY <1>2 DEF Done, ReleaseCheck, FlagInv
<1>3. CASE ReleaseReopen(p)
  <2>1. PICK ok \in May("open"), c \in ReadableConfig :
          held' = [held EXCEPT ![p] =
                     [@ EXCEPT !.raw = ok, !.cfg = IF ok THEN c ELSE 0, !.ac = TRUE]]
    BY <1>3 DEF ReleaseReopen
  <2>2. held'[p].ac = TRUE
    BY <1>1, <2>1 DEF Conn
  <2>3. \A q \in Procs : Sound(held'[q])
    BY <1>1, <2>1, <2>2 DEF Sound, FlagInv
  <2> QED
    BY <1>3, <2>3 DEF ReleaseReopen, FlagInv
<1>4. CASE ReleaseStamp(p)
  <2>1. held'[p].ac = held[p].ac /\ held'[p].flag = held[p].flag
    BY <1>1, <1>4 DEF ReleaseStamp, Conn
  <2>2. \A q \in Procs : Sound(held'[q])
    BY <1>1, <1>4, <2>1 DEF ReleaseStamp, Sound, FlagInv
  <2> QED
    BY <1>4, <2>2 DEF ReleaseStamp, FlagInv
<1>5. CASE ReleasePush(p) /\ Dropped(p)
  BY <1>5, ReturnSound DEF ReleasePush, Dropped, FlagInv
<1>6. CASE ReleasePush(p) /\ Pooled(p)
  <2>1. PICK ok \in May("setac") : pool' = Append(pool, Restored(held[p], ok))
    BY <1>6 DEF Pooled
  <2>2. Sound(Restored(held[p], ok))
    BY <1>1 DEF Restored, Sound, Conn
  <2>3. \A i \in DOMAIN pool' : \/ i \in DOMAIN pool /\ pool'[i] = pool[i]
                                \/ pool'[i] = Restored(held[p], ok)
    BY <2>1 DEF TypeOK
  <2>4. \A i \in DOMAIN pool' : Sound(pool'[i])
    BY <2>2, <2>3 DEF FlagInv
  <2> QED
    BY <1>6, <2>4, ReturnSound DEF ReleasePush, FlagInv
<1> QED
  BY <1>2, <1>3, <1>4, <1>5, <1>6 DEF Release, ReleasePush

\* Every step keeps auto_commit_ honest.
LEMMA NextFlag == TypeOK /\ FlagInv /\ [Next]_vars => FlagInv'
<1> SUFFICES ASSUME TypeOK, FlagInv, [Next]_vars PROVE FlagInv'
  OBVIOUS
<1>1. ASSUME NEW p \in Procs, NEW a \in BOOLEAN, NEW b \in BOOLEAN,
             GetConnection(p, a, b)
      PROVE  FlagInv'
  <2>1. CASE Exhausted(p, b)
    BY <2>1, ReturnSound DEF Exhausted, FlagInv
  <2> QED
    BY <1>1, <2>1, TakeIdleSound, OpenNewSound DEF GetConnection
<1>2. ASSUME NEW p \in Procs, Wake(p) PROVE FlagInv'
  <2>1. CASE UNCHANGED <<pool, held>>
    BY <2>1 DEF FlagInv
  <2> QED
    BY <1>2, <2>1, TakeIdleSound DEF Wake
<1>3. ASSUME NEW p \in Procs, Timeout(p) PROVE FlagInv'
  BY <1>3, ReturnSound DEF Timeout, FlagInv
<1>4. ASSUME NEW p \in Procs, Release(p) PROVE FlagInv'
  BY <1>4, ReleaseSound
<1>5. CASE UpdateSwap
  <2>1. PICK k \in 0..Len(pool) : pool' = [i \in 1..k |-> Opened(version, config, TRUE)]
    BY <1>5 DEF UpdateSwap, TypeOK
  <2>2. \A i \in DOMAIN pool' : Sound(pool'[i])
    BY <2>1 DEF Sound, Opened
  <2> QED
    BY <1>5, <2>2 DEF UpdateSwap, FlagInv
<1>6. CASE DestroyEnd
  BY <1>6 DEF DestroyEnd, ReleaseConnectionPool, FlagInv
<1>7. CASE UpdateBegin \/ UpdateWrite \/ UpdateEnd \/ Constructed \/ DestroyBegin
  BY <1>7 DEF UpdateBegin, UpdateWrite, UpdateEnd, Constructed, DestroyBegin, FlagInv
<1>8. CASE MonitorLoop \/ MonitorScan \/ MonitorSleep
  BY <1>8 DEF MonitorLoop, MonitorScan, MonitorSleep, FlagInv
<1>9. CASE UNCHANGED vars
  BY <1>9 DEF vars, FlagInv
<1>10. Monitor \in Procs /\ Callers \subseteq Procs
  BY DEF Procs
<1> QED
  BY <1>1, <1>2, <1>3, <1>4, <1>5, <1>6, <1>7, <1>8, <1>9, <1>10
     DEF Next, CallerStep, MonitorStep, UpdateStep, DestroyStep, Terminated

\* The initial connections are in autocommit mode and say so.
LEMMA InitFlag == Init => FlagInv
<1> SUFFICES ASSUME Init PROVE FlagInv
  OBVIOUS
<1>1. \A i \in DOMAIN pool : Sound(pool[i])
  BY DEF Init, InitConnectionPool, Sound, Opened
<1>2. \A p \in Procs : Sound(held[p])
  BY DEF Init, Sound, NoConn
<1> QED
  BY <1>1, <1>2 DEF FlagInv

\* A connection whose auto_commit_ is true is in autocommit mode.
THEOREM FlagIsHonest == Spec => []FlagHonest
<1>1. FlagInv => FlagHonest
  BY DEF FlagInv, FlagHonest, Sound, Holders
<1> QED
  BY <1>1, InitFlag, NextFlag, TypeCorrect, PTL DEF Spec


-----------------------------------------------------------------------------
(* The pool implements a bounded pool *)

\* The places a thread may be at.
Places == {"out", "wait", "loop", "scan", "get", "sleep", "exit"} \cup HoldPcs

\* A call moves the thread that makes it, and no other.
LEMMA CallMoves ==
  ASSUME NEW p \in Procs,
         \/ \E auto_commit, block \in BOOLEAN : GetConnection(p, auto_commit, block)
         \/ Wake(p)
         \/ Timeout(p)
         \/ Release(p)
  PROVE  \/ UNCHANGED pc
         \/ \E x \in Places : pc' = [pc EXCEPT ![p] = x]
<1> USE DEF Places, HoldPcs, Return, Hand
<1>1. ASSUME NEW auto_commit \in BOOLEAN, NEW block \in BOOLEAN,
             GetConnection(p, auto_commit, block)
      PROVE  \E x \in Places : pc' = [pc EXCEPT ![p] = x]
  BY <1>1 DEF GetConnection, TakeIdle, OpenNew, Exhausted
<1>2. CASE Wake(p)
  BY <1>2 DEF Wake, TakeIdle
<1>3. CASE Timeout(p)
  BY <1>3 DEF Timeout
<1>4. CASE Release(p)
  BY <1>4 DEF Release, Done, ReleaseCheck, ReleaseReopen, ReleaseStamp, ReleasePush
<1> QED
  BY <1>1, <1>2, <1>3, <1>4

\* A step moves one thread at most.
LEMMA OneMoves ==
  ASSUME Next
  PROVE  \/ UNCHANGED pc
         \/ \E p \in Procs, x \in Places : pc' = [pc EXCEPT ![p] = x]
<1>1. CASE Constructed \/ UpdateStep \/ DestroyStep \/ Terminated
  BY <1>1 DEF Constructed, UpdateStep, UpdateBegin, UpdateWrite, UpdateSwap, UpdateEnd,
              DestroyStep, DestroyBegin, DestroyEnd, Terminated, vars
<1>2. ASSUME NEW p \in Callers, CallerStep(p)
      PROVE  \/ UNCHANGED pc
             \/ \E x \in Places : pc' = [pc EXCEPT ![p] = x]
  BY <1>2, CallMoves DEF CallerStep, Procs
<1>3. CASE MonitorLoop \/ MonitorScan \/ MonitorSleep
  BY <1>3 DEF MonitorLoop, MonitorScan, MonitorSleep, Places, Procs
<1>4. CASE \/ GetConnection(Monitor, TRUE, TRUE) \/ Wake(Monitor) \/ Timeout(Monitor)
           \/ Release(Monitor)
  BY <1>4, CallMoves DEF Procs
<1> QED
  BY <1>1, <1>2, <1>3, <1>4 DEF Next, MonitorStep, Procs

\* A step that moves one thread is one of the abstract pool, or none: there is
\* room for a new owner because afterwards the owners fit.
LEMMA AbstractStep ==
  ASSUME IInv, IInv', [Next]_vars
  PROVE  [Abstract!Next]_Holders
<1>1. CASE UNCHANGED pc
  BY <1>1 DEF Holders
<1>2. ASSUME NEW p \in Procs, NEW x \in Places, pc' = [pc EXCEPT ![p] = x]
      PROVE  [Abstract!Next]_Holders
  <2>1. DOMAIN pc = Procs
    BY DEF IInv, TypeOK
  <2>2. CASE pc[p] \notin HoldPcs /\ x \in HoldPcs
    <3>1. /\ p \notin Holders /\ Holders' = Holders \cup {p}
      BY <1>2, <2>1, <2>2 DEF Holders
    <3>2. /\ Cardinality(Holders) \in Nat
          /\ Cardinality(Holders') = Cardinality(Holders) + 1
      BY <3>1, HoldersNat, HoldersDef, FS_AddElement
    <3>3. Cardinality(Holders') <= PoolSize
      <4>1. curr' = Len(pool') + Cardinality(Holders') /\ curr' <= PoolSize
        BY DEF IInv, Accounting
      <4>2. Len(pool') \in Nat
        BY DEF IInv, TypeOK
      <4> QED
        BY <3>2, <4>1, <4>2, PoolSizeAssumption
    <3>4. Cardinality(Holders) < PoolSize
      BY <3>2, <3>3, PoolSizeAssumption
    <3>5. Abstract!Cardinality(Holders) = Cardinality(Holders)
      BY DEF Cardinality, Abstract!Cardinality
    <3>6. Abstract!Acquire(p)
      BY <3>1, <3>4, <3>5 DEF Abstract!Acquire
    <3> QED
      BY <3>6 DEF Abstract!Next
  <2>3. CASE pc[p] \in HoldPcs /\ x \notin HoldPcs
    <3>1. Abstract!Release(p)
      BY <1>2, <2>1, <2>3 DEF Holders, Abstract!Release
    <3> QED
      BY <3>1 DEF Abstract!Next
  <2>4. CASE pc[p] \in HoldPcs <=> x \in HoldPcs
    BY <1>2, <2>1, <2>4 DEF Holders
  <2> QED
    BY <2>2, <2>3, <2>4
<1> QED
  BY <1>1, <1>2, OneMoves DEF vars

\* The MySQL pool keeps the promise of a bounded pool to its callers and to
\* MonitorConnPool: a thread has at most one connection at a time, and no more
\* than pool_size_ threads have one.
THEOREM RefinesBoundedPool == Spec => ImplementsBoundedPool
<1>1. Init => Abstract!Init
  BY MonitorAssumption DEF Init, Abstract!Init, Holders, HoldPcs
<1>2. IInv /\ IInv' /\ [Next]_vars => [Abstract!Next]_Holders
  BY AbstractStep
<1> QED
  BY <1>1, <1>2, InitIInv, NextIInv, PTL DEF Spec, ImplementsBoundedPool, Abstract!Spec
=============================================================================
