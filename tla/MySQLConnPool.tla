--------------------------- MODULE MySQLConnPool ---------------------------
(***************************************************************************)
(* The MySQL connection pool, common/mysql_conn_pool.{h,cpp}.              *)
(*                                                                         *)
(* Callers take and give back connections; the pool's monitor thread does  *)
(* the same once an hour; UpdateConfig replaces the connection settings.   *)
(* What runs under lock_ is one step.  ReleaseConnection looks at version_ *)
(* and reopens the connection before it takes lock_, so that part is split *)
(* into steps that interleave with everything, UpdateConfig included, and  *)
(* UpdateConfig is split where such an unlocked reader can see between.    *)
(***************************************************************************)
EXTENDS Naturals, Sequences, FiniteSets

CONSTANTS Callers,     \* threads that call GetConnection and ReleaseConnection
          Monitor,     \* the thread running MonitorConnPool
          Untimed,     \* callers that wait with timeout <= 0
          PoolSize,    \* pool_size_
          MaxVersion,  \* bound on version_: MaxVersion - 1 UpdateConfig calls
          Faults       \* what MySQL may refuse: "open", "reconnect", "setac"

ASSUME MonitorAssumption  == Monitor \notin Callers
ASSUME CallersAssumption  == IsFiniteSet(Callers) /\ Untimed \subseteq Callers
ASSUME PoolSizeAssumption == PoolSize \in Nat
ASSUME VersionAssumption  == MaxVersion \in Nat \ {0}
ASSUME FaultsAssumption   == Faults \subseteq {"open", "reconnect", "setac"}

VARIABLES
  config,        \* conn_properties_, numbered by the UpdateConfig that wrote it
  version,       \* version_
  pool,          \* conn_pool_
  curr,          \* curr_pool_size_
  waiting,       \* threads blocked in cond_.wait_for and not yet notified
  pc,            \* where each thread is
  held,          \* the connection each thread has taken
  want,          \* the auto_commit argument of each thread's GetConnection
  mi,            \* i of MonitorConnPool's for loop
  monitor_flag,  \* monitor_flag_
  upd,           \* where UpdateConfig is; it holds lock_ unless this is "off"
  life           \* the pool object itself

updVars  == <<config, version, upd>>
lifeVars == <<monitor_flag, life>>
vars == <<config, version, pool, curr, waiting, pc, held, want, mi,
          monitor_flag, upd, life>>

Procs == Callers \cup {Monitor}

(***************************************************************************)
(* A MySQLConnection with its server session.  cfg is the configuration    *)
(* raw_conn_ was opened with, 0 when conn_properties_ was read while being *)
(* written; ac is the session's own autocommit mode and flag the           *)
(* auto_commit_ member that should mirror it.                              *)
(***************************************************************************)
Conn == [raw : BOOLEAN, ver : 0..MaxVersion, cfg : 0..MaxVersion,
         ac : BOOLEAN, flag : BOOLEAN]

NoConn == [raw |-> FALSE, ver |-> 0, cfg |-> 0, ac |-> TRUE, flag |-> TRUE]

\* A freshly connected session runs in autocommit mode.
Opened(v, c, flag) ==
  [raw |-> TRUE, ver |-> v, cfg |-> c, ac |-> TRUE, flag |-> flag]

\* The program counters of a thread that owns one of the counted connections.
HoldPcs == {"use", "release", "reopen", "stamp", "push"}
Holders == {p \in Procs : pc[p] \in HoldPcs}

LockFree == upd = "off"

\* Outcomes of driver_->connect, Connection::reconnect and setAutoCommit.
May(fault) == IF fault \in Faults THEN BOOLEAN ELSE {TRUE}

-----------------------------------------------------------------------------
(* Construction *)

\* The constructor opens half of the pool, rounded up, and starts the monitor
\* thread; monitor_flag_ is still false.
InitialSize == (PoolSize + 1) \div 2

\* What InitConnectionPool(k) leaves in the queue when k connects succeed.
InitConnectionPool(k) == [i \in 1..k |-> Opened(1, 1, TRUE)]

Init ==
  /\ config = 1
  /\ version = 1
  /\ curr \in IF "open" \in Faults THEN 0..InitialSize ELSE {InitialSize}
  /\ pool = InitConnectionPool(curr)
  /\ waiting = {}
  /\ pc = [p \in Procs |-> IF p = Monitor THEN "loop" ELSE "out"]
  /\ held = [p \in Procs |-> NoConn]
  /\ want = [p \in Procs |-> TRUE]
  /\ mi = 0
  /\ monitor_flag = FALSE
  /\ upd = "off"
  /\ life = "ctor"

\* The constructor's last statement; only now can callers reach the instance.
Constructed ==
  /\ life = "ctor"
  /\ life' = "up"
  /\ monitor_flag' = TRUE
  /\ UNCHANGED <<config, version, pool, curr, waiting, pc, held, want, mi, upd>>

-----------------------------------------------------------------------------
(* GetConnection *)

\* GetConnection or ReleaseConnection returns without a connection: a caller
\* is outside the pool again, the monitor goes on with the next i.
Return(p) ==
  /\ pc' = [pc EXCEPT ![p] = IF p = Monitor THEN "scan" ELSE "out"]
  /\ mi' = IF p = Monitor THEN mi + 1 ELSE mi
  /\ held' = [held EXCEPT ![p] = NoConn]

Hand(p, c) ==
  /\ pc' = [pc EXCEPT ![p] = "use"]
  /\ held' = [held EXCEPT ![p] = c]
  /\ UNCHANGED mi

\* A session asked to leave autocommit mode; an exception is swallowed.
ManualMode(c, ok) == [c EXCEPT !.flag = FALSE, !.ac = IF ok THEN FALSE ELSE @]

\* Reconnect: the connection goes on with a new session.
Reconnect(c) == [c EXCEPT !.ac = TRUE]

\* _GetConnection(auto_commit): the front of the queue is taken; a session
\* that is not valid is reconnected or, if that fails, dropped.
TakeIdle(p) ==
  /\ pool # <<>>
  /\ pool' = Tail(pool)
  /\ \/ /\ \E valid \in BOOLEAN, ok \in May("setac") :
             LET c == IF valid THEN Head(pool) ELSE Reconnect(Head(pool))
             IN  Hand(p, IF want'[p] THEN c ELSE ManualMode(c, ok))
        /\ UNCHANGED curr
     \/ /\ "reconnect" \in Faults
        /\ curr' = curr - 1
        /\ Return(p)

Mut_AtCapacity == curr > PoolSize
AtCapacity == curr >= PoolSize

\* The pool has room: a connection is opened under lock_.
OpenNew(p) ==
  /\ pool = <<>>
  /\ ~AtCapacity
  /\ pool' = pool
  /\ \/ /\ \E ok \in May("setac") :
             LET c == Opened(version, config, want'[p])
             IN  Hand(p, IF want'[p] THEN c ELSE ManualMode(c, ok))
        /\ curr' = curr + 1
     \/ /\ "open" \in Faults
        /\ curr' = curr
        /\ Return(p)

\* The pool is exhausted: wait for a connection, or give up when not blocking.
Exhausted(p, block) ==
  /\ pool = <<>>
  /\ AtCapacity
  /\ UNCHANGED <<pool, curr>>
  /\ IF block
     THEN /\ waiting' = waiting \cup {p}
          /\ pc' = [pc EXCEPT ![p] = "wait"]
          /\ UNCHANGED <<held, mi>>
     ELSE /\ UNCHANGED waiting
          /\ Return(p)

\* GetConnection(auto_commit, block, timeout).  The monitor calls it with the
\* default arguments.  A pool of size zero answers null and changes nothing.
GetConnection(p, auto_commit, block) ==
  /\ IF p = Monitor THEN pc[p] = "get" ELSE pc[p] = "out" /\ life = "up"
  /\ PoolSize # 0
  /\ LockFree
  /\ want' = [want EXCEPT ![p] = auto_commit]
  /\ \/ TakeIdle(p) /\ UNCHANGED waiting
     \/ OpenNew(p) /\ UNCHANGED waiting
     \/ Exhausted(p, block)
  /\ UNCHANGED <<updVars, lifeVars>>

\* A notified waiter has lock_ again: it takes a connection if one is left and
\* waits on if not.  (A spurious wake-up finds the queue empty, see
\* NoLostWakeup, and so changes nothing.)
Wake(p) ==
  /\ pc[p] = "wait"
  /\ p \notin waiting
  /\ LockFree
  /\ UNCHANGED want
  /\ \/ TakeIdle(p) /\ UNCHANGED waiting
     \/ /\ pool = <<>>
        /\ waiting' = waiting \cup {p}
        /\ UNCHANGED <<pool, curr, pc, held, mi>>
  /\ UNCHANGED <<updVars, lifeVars>>

\* wait_for timed out, perhaps with a notification arriving at the same time.
Timeout(p) ==
  /\ pc[p] = "wait"
  /\ p \notin Untimed
  /\ LockFree
  /\ waiting' = waiting \ {p}
  /\ Return(p)
  /\ UNCHANGED <<pool, curr, want, updVars, lifeVars>>

-----------------------------------------------------------------------------
(* ReleaseConnection *)

\* The user is done (KeepConnection's query, for the monitor) and calls
\* ReleaseConnection.
Done(p) ==
  /\ pc[p] = "use"
  /\ pc' = [pc EXCEPT ![p] = "release"]
  /\ UNCHANGED <<updVars, lifeVars, pool, curr, waiting, held, want, mi>>

\* conn->version_ < version_, read without lock_.
ReleaseCheck(p) ==
  /\ pc[p] = "release"
  /\ pc' = [pc EXCEPT ![p] = IF held[p].ver < version THEN "reopen" ELSE "push"]
  /\ UNCHANGED <<updVars, lifeVars, pool, curr, waiting, held, want, mi>>

\* The settings an OpenConnection outside lock_ may read: while UpdateConfig
\* assigns them, the old ones, the new ones or some of each.
ReadableConfig == IF upd = "write" THEN {config, config + 1, 0} ELSE {config}

\* The old session is closed and another one opened, still without lock_.
ReleaseReopen(p) ==
  /\ pc[p] = "reopen"
  /\ pc' = [pc EXCEPT ![p] = "stamp"]
  /\ \E ok \in May("open"), c \in ReadableConfig :
       held' = [held EXCEPT ![p] =
                  [@ EXCEPT !.raw = ok, !.cfg = IF ok THEN c ELSE 0, !.ac = TRUE]]
  /\ UNCHANGED <<updVars, lifeVars, pool, curr, waiting, want, mi>>

\* conn->version_ = version_, a second read without lock_.
ReleaseStamp(p) ==
  /\ pc[p] = "stamp"
  /\ pc' = [pc EXCEPT ![p] = "push"]
  /\ held' = [held EXCEPT ![p].ver = version]
  /\ UNCHANGED <<updVars, lifeVars, pool, curr, waiting, want, mi>>

Mut_Restored(c, ok) == [c EXCEPT !.ac = IF ok THEN TRUE ELSE @, !.flag = TRUE]
\* setAutoCommit(true) before a session is pooled; auto_commit_ follows only
\* when the server accepted it.
Restored(c, ok) ==
  IF c.flag \/ ~ok THEN c ELSE [c EXCEPT !.ac = TRUE, !.flag = TRUE]

Mut_Dropped(p) ==
  /\ ~held[p].raw
  /\ UNCHANGED <<pool, waiting, curr>>
\* The reopening failed: the slot is given up; no waiter is told.
Dropped(p) ==
  /\ ~held[p].raw
  /\ curr' = curr - 1
  /\ UNCHANGED <<pool, waiting>>

Mut_Pooled(p) ==
  /\ held[p].raw
  /\ \E ok \in May("setac") : pool' = Append(pool, Restored(held[p], ok))
  /\ UNCHANGED <<waiting, curr>>
\* The connection is queued and every waiter is notified.
Pooled(p) ==
  /\ held[p].raw
  /\ \E ok \in May("setac") : pool' = Append(pool, Restored(held[p], ok))
  /\ waiting' = {}
  /\ UNCHANGED curr

\* The part of ReleaseConnection that runs under lock_.
ReleasePush(p) ==
  /\ pc[p] = "push"
  /\ LockFree
  /\ Dropped(p) \/ Pooled(p)
  /\ Return(p)
  /\ UNCHANGED <<want, updVars, lifeVars>>

-----------------------------------------------------------------------------
(* UpdateConfig *)

\* lock_ is taken; conn_properties_ is being assigned.
UpdateBegin ==
  /\ life = "up"
  /\ upd = "off"
  /\ version < MaxVersion
  /\ upd' = "write"
  /\ UNCHANGED <<config, version, lifeVars, pool, curr, waiting, pc, held, want, mi>>

UpdateWrite ==
  /\ upd = "write"
  /\ upd' = "swap"
  /\ config' = config + 1
  /\ UNCHANGED <<version, lifeVars, pool, curr, waiting, pc, held, want, mi>>

\* Every idle connection is closed and as many are opened as MySQL grants;
\* they carry the version_ that is about to be superseded.
UpdateSwap ==
  /\ upd = "swap"
  /\ upd' = "bump"
  /\ \E k \in IF "open" \in Faults THEN 0..Len(pool) ELSE {Len(pool)} :
       /\ pool' = [i \in 1..k |-> Opened(version, config, TRUE)]
       /\ curr' = (curr - Len(pool)) + k
  /\ UNCHANGED <<config, version, lifeVars, waiting, pc, held, want, mi>>

UpdateEnd ==
  /\ upd = "bump"
  /\ upd' = "off"
  /\ version' = version + 1
  /\ UNCHANGED <<config, lifeVars, pool, curr, waiting, pc, held, want, mi>>

-----------------------------------------------------------------------------
(* MonitorConnPool and the destructor *)

Mut_MonitorLoop ==
  /\ pc[Monitor] = "loop"
  /\ pc' = [pc EXCEPT ![Monitor] = "scan"]
  /\ mi' = 0
  /\ UNCHANGED <<updVars, lifeVars, pool, curr, waiting, held, want>>
\* while (monitor_flag_): a round of checks begins, or the thread ends.  It
\* may get here before the constructor has set the flag.
MonitorLoop ==
  /\ pc[Monitor] = "loop"
  /\ pc' = [pc EXCEPT ![Monitor] = IF monitor_flag THEN "scan" ELSE "exit"]
  /\ mi' = 0
  /\ UNCHANGED <<updVars, lifeVars, pool, curr, waiting, held, want>>

Mut_MonitorScan ==
  /\ pc[Monitor] = "scan"
  /\ pc' = [pc EXCEPT ![Monitor] = IF mi <= curr THEN "get" ELSE "sleep"]
  /\ UNCHANGED <<updVars, lifeVars, pool, curr, waiting, held, want, mi>>
\* i < curr_pool_size_, read without lock_.
MonitorScan ==
  /\ pc[Monitor] = "scan"
  /\ pc' = [pc EXCEPT ![Monitor] = IF mi < curr THEN "get" ELSE "sleep"]
  /\ UNCHANGED <<updVars, lifeVars, pool, curr, waiting, held, want, mi>>

\* The hour's sleep is over, or monitor_flag_ was cleared during it.
MonitorSleep ==
  /\ pc[Monitor] = "sleep"
  /\ pc' = [pc EXCEPT ![Monitor] = "loop"]
  /\ UNCHANGED <<updVars, lifeVars, pool, curr, waiting, held, want, mi>>

\* The destructor runs when the last shared_ptr is gone: no call is under way.
DestroyBegin ==
  /\ life = "up"
  /\ upd = "off"
  /\ \A p \in Callers : pc[p] = "out"
  /\ life' = "dtor"
  /\ monitor_flag' = FALSE
  /\ UNCHANGED <<updVars, pool, curr, waiting, pc, held, want, mi>>

\* Every idle connection is closed and the counter is zeroed.
ReleaseConnectionPool == pool' = <<>> /\ curr' = 0

\* monitor_->join() returns and the pool is emptied.
DestroyEnd ==
  /\ life = "dtor"
  /\ pc[Monitor] = "exit"
  /\ life' = "gone"
  /\ ReleaseConnectionPool
  /\ UNCHANGED <<updVars, monitor_flag, waiting, pc, held, want, mi>>

Terminated == life = "gone" /\ UNCHANGED vars

-----------------------------------------------------------------------------
Release(p) ==
  Done(p) \/ ReleaseCheck(p) \/ ReleaseReopen(p) \/ ReleaseStamp(p) \/ ReleasePush(p)

CallerStep(p) ==
  \/ \E auto_commit, block \in BOOLEAN : GetConnection(p, auto_commit, block)
  \/ Wake(p)
  \/ Timeout(p)
  \/ Release(p)

MonitorStep ==
  \/ MonitorLoop
  \/ MonitorScan
  \/ MonitorSleep
  \/ GetConnection(Monitor, TRUE, TRUE)
  \/ Wake(Monitor)
  \/ Timeout(Monitor)
  \/ Release(Monitor)

UpdateStep  == UpdateBegin \/ UpdateWrite \/ UpdateSwap \/ UpdateEnd
DestroyStep == DestroyBegin \/ DestroyEnd

Next ==
  \/ Constructed
  \/ \E p \in Callers : CallerStep(p)
  \/ MonitorStep
  \/ UpdateStep
  \/ DestroyStep
  \/ Terminated

Spec == Init /\ [][Next]_vars

(***************************************************************************)
(* Every thread that is inside a call keeps running: the constructor, the  *)
(* monitor, a caller that holds a connection or has been notified, an      *)
(* UpdateConfig once it has lock_, a destructor.  Nobody need make a call. *)
(***************************************************************************)
Fairness ==
  /\ WF_vars(Constructed)
  /\ WF_vars(MonitorStep)
  /\ \A p \in Callers : WF_vars(Wake(p) \/ Timeout(p) \/ Release(p))
  /\ WF_vars(UpdateWrite \/ UpdateSwap \/ UpdateEnd)
  /\ WF_vars(DestroyEnd)

FairSpec == Spec /\ Fairness

-----------------------------------------------------------------------------
(* Properties *)

\* Type correctness of the pool's state.
TypeOK ==
  /\ config \in 1..MaxVersion
  /\ version \in 1..MaxVersion
  /\ pool \in Seq(Conn)
  /\ curr \in Nat
  /\ waiting \subseteq Procs
  /\ pc \in [Procs -> {"out", "wait", "loop", "scan", "get", "sleep", "exit"}
                      \cup HoldPcs]
  /\ held \in [Procs -> Conn]
  /\ want \in [Procs -> BOOLEAN]
  /\ mi \in 0..PoolSize
  /\ monitor_flag \in BOOLEAN
  /\ upd \in {"off", "write", "swap", "bump"}
  /\ life \in {"ctor", "up", "dtor", "gone"}

\* curr_pool_size_ counts the connections that exist, idle or taken, whatever
\* open, reconnect or reopen failed on the way: each failure path of
\* _GetConnection, ReleaseConnection and UpdateConfig corrects the counter.
Accounting == curr = Len(pool) + Cardinality(Holders)

\* The pool never has more than pool_size_ connections open, even while
\* ReleaseConnection reopens outside lock_ and UpdateConfig refills.
Bounded == Len(pool) + Cardinality(Holders) <= PoolSize

\* No thread sleeps in GetConnection without a pending notification while a
\* connection is idle: ReleaseConnection's notify_all is enough, although
\* UpdateConfig refills the queue without notifying.
NoLostWakeup == waiting # {} => pool = <<>>

\* A connection whose auto_commit_ says true is in autocommit mode, whichever
\* setAutoCommit calls failed: ReleaseConnection may trust the member.
FlagHonest ==
  /\ \A i \in DOMAIN pool : pool[i].flag => pool[i].ac
  /\ \A p \in Holders : held[p].flag => held[p].ac

\* The pool keeps the promise of a bounded pool to callers and monitor alike.
Abstract == INSTANCE BoundedPool WITH Users <- Procs, Size <- PoolSize, users <- Holders
ImplementsBoundedPool == Abstract!Spec

\* The destructor's join returns: the monitor leaves whatever it is doing,
\* a wait for a connection included, and sees the cleared flag.
ShutdownCompletes == life = "dtor" ~> life = "gone"

\* The comment in UpdateConfig: a connection in use during the update is
\* checked in ReleaseConnection and reconnected if it is not of the latest
\* version, so what is idle was opened with the current configuration.
IdleConfigCurrent ==
  LockFree => \A i \in DOMAIN pool : pool[i].cfg = config
=============================================================================
