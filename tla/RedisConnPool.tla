--------------------------- MODULE RedisConnPool ---------------------------
(***************************************************************************)
(* The Redis connection pool, common/redis_conn_pool.{h,cpp}, and the      *)
(* RedisClient objects that use it.  All of GetRedisConn after its first   *)
(* two tests and all of ReleaseRedisConn run under lock_ and are one step, *)
(* except that a wait on cond_ gives lock_ up.                             *)
(***************************************************************************)
EXTENDS Naturals, FiniteSets

CONSTANTS Clients,   \* threads that use a RedisClient
          Timeouts,  \* the ways in which they pass timeouts < 0, = 0 or > 0
          PoolSize,  \* pool_size_
          Faults     \* {"open"}: a connection may be dead and not reopen

ASSUME ClientsAssumption  == IsFiniteSet(Clients)
ASSUME TimeoutsAssumption == Timeouts \subseteq [Clients -> {"< 0", "= 0", "> 0"}]
ASSUME PoolSizeAssumption == PoolSize \in Nat
ASSUME FaultsAssumption   == Faults \subseteq {"open"}

VARIABLES
  idle,     \* the length of conn_pool_
  curr,     \* curr_size_
  waiting,  \* clients blocked on cond_ that no notify_one has picked yet
  pc,       \* where each client is
  life,     \* whether the pool object exists
  timeout   \* the timeout each client passes

vars == <<idle, curr, waiting, pc, life, timeout>>

Holders == {c \in Clients : pc[c] = "use"}

\* InitConnectionPool opens PoolSize connections and counts those that succeed.
Init ==
  /\ curr \in IF "open" \in Faults THEN 0..PoolSize ELSE {PoolSize}
  /\ idle = curr
  /\ waiting = {}
  /\ pc = [c \in Clients |-> "out"]
  /\ life = "up"
  /\ timeout \in Timeouts

-----------------------------------------------------------------------------
(* GetRedisConn *)

\* OpenConnection connects, authenticates and selects the database, or not.
OpenConnection == {TRUE} \cup (IF "open" \in Faults THEN {FALSE} ELSE {})

Mut_Pop(c) ==
  /\ idle > 0
  /\ UNCHANGED idle
  /\ pc' = [pc EXCEPT ![c] = "use"]
\* The front of the queue is taken.  If CheckConnection rejects it and
\* OpenConnection fails too, the caller gets null: nothing is queued in its
\* place and curr_size_ is left as it is.
Pop(c) ==
  /\ idle > 0
  /\ idle' = idle - 1
  /\ \E opened \in OpenConnection :
       pc' = [pc EXCEPT ![c] = IF opened THEN "use" ELSE "out"]

\* An empty queue: return null at once, or wait.
Block(c) ==
  /\ idle = 0
  /\ timeout[c] # "= 0"
  /\ waiting' = waiting \cup {c}
  /\ pc' = [pc EXCEPT ![c] = "wait"]
  /\ UNCHANGED idle

Mut_GetRedisConn(c) ==
  /\ pc[c] = "out" /\ life = "up" /\ curr # 0
  /\ \/ Pop(c) /\ UNCHANGED waiting
     \/ idle = 0 /\ Cardinality(Holders) <= PoolSize
        /\ pc' = [pc EXCEPT ![c] = "use"] /\ UNCHANGED <<idle, waiting>>
  /\ UNCHANGED <<curr, life, timeout>>
\* GetRedisConn(timeout), null answers that change nothing left out.
GetRedisConn(c) ==
  /\ pc[c] = "out"
  /\ life = "up"
  /\ curr # 0
  /\ \/ Pop(c) /\ UNCHANGED waiting
     \/ Block(c)
  /\ UNCHANGED <<curr, life, timeout>>

\* cond_.wait returns to a client that was picked by notify_one.
Wake(c) ==
  /\ pc[c] = "wait"
  /\ c \notin waiting
  /\ \/ Pop(c) /\ UNCHANGED waiting
     \/ idle = 0 /\ waiting' = waiting \cup {c} /\ UNCHANGED <<idle, pc>>
  /\ UNCHANGED <<curr, life, timeout>>

\* cond_.wait_for reports a timeout to WaitforConnection, which gives up
\* without another look at the queue.  The deadline may pass between the
\* notification and the moment the client has lock_ again.
WaitTimeout(c) ==
  /\ pc[c] = "wait"
  /\ timeout[c] = "> 0"
  /\ waiting' = waiting \ {c}
  /\ pc' = [pc EXCEPT ![c] = "out"]
  /\ UNCHANGED <<idle, curr, life, timeout>>

-----------------------------------------------------------------------------
(* ReleaseRedisConn and the destructor *)

Mut_Notify == UNCHANGED waiting
\* notify_one picks some blocked client, if there is one.
Notify ==
  IF waiting = {} THEN UNCHANGED waiting
  ELSE \E c \in waiting : waiting' = waiting \ {c}

ReleaseRedisConn(c) ==
  /\ pc[c] = "use"
  /\ pc' = [pc EXCEPT ![c] = "out"]
  /\ idle' = idle + 1
  /\ Notify
  /\ UNCHANGED <<curr, life, timeout>>

\* ReleaseInstance, with no call under way: what is idle is closed; what is
\* left of curr_size_ is reported as connections still in use.
ReleaseConnectionPool ==
  /\ life = "up"
  /\ \A c \in Clients : pc[c] # "wait"
  /\ life' = "gone"
  /\ curr' = curr - idle
  /\ idle' = 0
  /\ Holders = {}
  /\ UNCHANGED <<waiting, pc, timeout>>

-----------------------------------------------------------------------------
Next ==
  \/ \E c \in Clients : \/ GetRedisConn(c)
                        \/ Wake(c)
                        \/ WaitTimeout(c)
                        \/ ReleaseRedisConn(c)
  \/ ReleaseConnectionPool
  \/ life = "gone" /\ UNCHANGED vars

Spec == Init /\ [][Next]_vars

-----------------------------------------------------------------------------
(* Properties *)

\* Type correctness.
TypeOK ==
  /\ idle \in 0..PoolSize
  /\ curr \in 0..PoolSize
  /\ waiting \subseteq Clients
  /\ pc \in [Clients -> {"out", "wait", "use"}]
  /\ life \in {"up", "gone"}
  /\ timeout \in Timeouts

\* The pool is a bounded pool: GetRedisConn only opens a connection in the
\* place of one it has just taken out of the queue.
Abstract == INSTANCE BoundedPool WITH Users <- Clients, Size <- PoolSize, users <- Holders
ImplementsBoundedPool == Abstract!Spec

\* No connection is queued twice or handed to two clients: idle or in use,
\* there are never more than curr_size_ counts, through every wait, timeout
\* and reopening.
QueuedOnce == life = "up" => idle + Cardinality(Holders) <= curr

\* If nobody waits with a time limit, notify_one is enough: as many of the
\* blocked clients have been picked as there are idle connections, or all.
EnoughNotified ==
  (\A c \in Clients : timeout[c] # "> 0") /\ waiting # {} =>
    idle <= Cardinality({c \in Clients : pc[c] = "wait"} \ waiting)

\* The header on timeout < 0: "block forever until have get a redis client".
\* So a client does not sleep on, with nobody picked, while one is idle.
BlockedUntilAvailable ==
  \A c \in waiting : timeout[c] = "< 0" =>
    idle = 0 \/ \E d \in Clients \ waiting : pc[d] = "wait"
=============================================================================
