--------------------------- MODULE DistributeLock ---------------------------
(***************************************************************************)
(* The distributed lock: DistributeLock and RedisLock                      *)
(* (common/distribute_lock.{h,cpp}) over CRedLock (common/redlock.cpp),    *)
(* one resource, one Redis server.  A call of Lock or Unlock keeps a       *)
(* connection of the Redis pool, here the bounded pool that RedisConnPool  *)
(* implements, from its RedisClient's construction to its destruction.     *)
(*                                                                         *)
(* Time is counted in ticks; time(NULL) only sees whole seconds.           *)
(***************************************************************************)
EXTENDS Integers, FiniteSets

CONSTANTS Procs,       \* threads that use the lock
          Lost,        \* slots of the pool that may get lost
          PoolSize,    \* connections in the Redis pool
          RetryCount,  \* m_retryCount
          TTL,         \* ttl, in ticks
          Drift,       \* ttl * m_clockDriftFactor + 2 ms, in ticks
          Second,      \* ticks in a second
          MaxTime,     \* bound on the clock
          MaxCalls,    \* bound on the Lock calls of a thread
          Faults       \* "open": no client; "id": no random id; "reply": lost reply

ASSUME ProcsAssumption  == IsFiniteSet(Procs) /\ IsFiniteSet(Lost) /\ Procs \cap Lost = {}
\* With every slot lost all calls would wait for ever.
ASSUME LostAssumption   == Cardinality(Lost) < PoolSize
ASSUME NumbersAssumption ==
  /\ PoolSize \in Nat \ {0} /\ TTL \in Nat \ {0} /\ Second \in Nat \ {0}
  /\ RetryCount \in Int /\ Drift \in Nat /\ MaxTime \in Nat /\ MaxCalls \in Nat
ASSUME FaultsAssumption == Faults \subseteq {"open", "id", "reply"}

VARIABLES
  now,     \* the clock
  key,     \* the resource's key in Redis: its value and when it expires
  users,   \* threads that have a connection of the pool, and its lost slots
  err,     \* ctx->err of the connection each thread has
  pc,      \* where each thread is
  call,    \* the number of Lock calls of each thread; with it, m_val
  start,   \* startTime
  tries,   \* retryCount
  ok,      \* the local variable locked
  until,   \* when the lock's m_validityTime runs out
  lease    \* when the key a thread has set really expires

vars == <<now, key, users, err, pc, call, start, tries, ok, until, lease>>
locals == <<call, start, tries, ok, until, lease>>

Pool == INSTANCE BoundedPool WITH Users <- Procs \cup Lost, Size <- PoolSize

\* The value the current Lock call of p writes: GetUniqueLockId never repeats.
Token(p) == <<p, call[p]>>
Free == [val |-> <<>>, exp |-> 0]

Goto(p, label) == pc' = [pc EXCEPT ![p] = label]

\* The call of p ends and its local variables are gone; a failed call leaves
\* no lock either.
EndCall(p, holds) ==
  /\ err' = [err EXCEPT ![p] = FALSE]
  /\ start' = [start EXCEPT ![p] = 0]
  /\ tries' = [tries EXCEPT ![p] = 0]
  /\ ok' = [ok EXCEPT ![p] = FALSE]
  /\ until' = [until EXCEPT ![p] = IF holds THEN @ ELSE 0]
  /\ lease' = [lease EXCEPT ![p] = IF holds THEN @ ELSE 0]
  /\ Goto(p, IF holds THEN "held" ELSE "out")
  /\ UNCHANGED call

Init ==
  /\ now = 0
  /\ key = Free
  /\ users = {}
  /\ err = [p \in Procs |-> FALSE]
  /\ pc = [p \in Procs |-> "out"]
  /\ call = [p \in Procs |-> 0]
  /\ start = [p \in Procs |-> 0]
  /\ tries = [p \in Procs |-> 0]
  /\ ok = [p \in Procs |-> FALSE]
  /\ until = [p \in Procs |-> 0]
  /\ lease = [p \in Procs |-> 0]

\* Time passes; Redis drops the key when its px time is over.
Tick ==
  /\ now < MaxTime
  /\ now' = now + 1
  /\ key' = IF key # Free /\ key.exp <= now + 1 THEN Free ELSE key
  /\ UNCHANGED <<users, err, pc, locals>>

-----------------------------------------------------------------------------
(* DistributeLock::Lock and CRedLock::Lock *)

LockCall(p) ==
  /\ pc[p] = "out"
  /\ call[p] < MaxCalls
  /\ call' = [call EXCEPT ![p] = @ + 1]
  /\ tries' = [tries EXCEPT ![p] = RetryCount]
  /\ ok' = [ok EXCEPT ![p] = FALSE]
  /\ Goto(p, "client")
  /\ UNCHANGED <<now, key, users, err, start, until, lease>>

\* The pool had a connection, but it is broken and cannot be reopened: the
\* client is null and the slot is lost.
NullClient == "open" \in Faults /\ \E s \in Lost : Pool!Acquire(s)

\* RedisClient client{-1}: waits as long as the pool has nothing to give; a
\* null client ends the call with error_ set.
LockClient(p) ==
  /\ pc[p] = "client"
  /\ \/ /\ Pool!Acquire(p)
        /\ \/ Goto(p, "start")
           \/ "id" \in Faults /\ Goto(p, "fail")
        /\ UNCHANGED <<err, locals>>
     \/ /\ NullClient
        /\ EndCall(p, FALSE)
  /\ UNCHANGED <<now, key>>

StartTime(p) ==
  /\ pc[p] = "start"
  /\ start' = [start EXCEPT ![p] = now]
  /\ Goto(p, "set")
  /\ UNCHANGED <<now, key, users, err, call, tries, ok, until, lease>>

Mut_SetNX(p) == IF key = Free THEN [val |-> Token(p), exp |-> now + TTL * Second] ELSE key
\* "set resource val px ttl nx".
SetNX(p) == IF key = Free THEN [val |-> Token(p), exp |-> now + TTL] ELSE key

\* LockInstance.  A failed connection answers nothing; on a good one the
\* command is executed, unless it, or only its reply, gets lost.
LockInstance(p) ==
  /\ pc[p] = "set"
  /\ Goto(p, "check")
  /\ \/ /\ ~err[p]
        /\ key' = SetNX(p)
        /\ ok' = [ok EXCEPT ![p] = key = Free]
        /\ lease' = [lease EXCEPT ![p] = IF key = Free THEN now + TTL ELSE @]
        /\ UNCHANGED err
     \/ /\ err[p] \/ "reply" \in Faults
        /\ err' = [err EXCEPT ![p] = TRUE]
        /\ ok' = [ok EXCEPT ![p] = FALSE]
        /\ key' \in IF err[p] THEN {key} ELSE {key, SetNX(p)}
        /\ UNCHANGED lease
  /\ UNCHANGED <<now, users, call, start, tries, until>>

WholeSeconds(t) == (t \div Second) * Second

Mut_ValidityTime(p) == TTL - Drift
\* validityTime, from the two calls of time(NULL).
ValidityTime(p) == TTL - (WholeSeconds(now) - WholeSeconds(start[p])) - Drift

\* locked && validityTime > 0 ends the call; anything else is cleaned up.
LockCheck(p) ==
  /\ pc[p] = "check"
  /\ IF ok[p] /\ ValidityTime(p) > 0
     THEN until' = [until EXCEPT ![p] = now + ValidityTime(p)] /\ Goto(p, "success")
     ELSE UNCHANGED until /\ Goto(p, "clean")
  /\ UNCHANGED <<now, key, users, err, call, start, tries, ok, lease>>

Mut_CompareAndDelete(p) == Free
\* m_unlockScript: the key is deleted if it still has this call's value.
CompareAndDelete(p) == IF key.val = Token(p) THEN Free ELSE key

\* RedisCommandArgv runs the script, unless it or its reply gets lost.
RedisCommandArgv(p) ==
  \/ key' = CompareAndDelete(p) /\ UNCHANGED err
  \/ /\ "reply" \in Faults
     /\ key' \in {key, CompareAndDelete(p)}
     /\ err' = [err EXCEPT ![p] = TRUE]

\* CRedLock::Unlock does nothing on a failed connection.
RedUnlock(p) ==
  \/ err[p] /\ UNCHANGED <<key, err>>
  \/ ~err[p] /\ RedisCommandArgv(p)

LockClean(p) ==
  /\ pc[p] = "clean"
  /\ RedUnlock(p)
  /\ Goto(p, "retry")
  /\ UNCHANGED <<now, users, locals>>

Mut_LockRetry(p) ==
  /\ pc[p] = "retry"
  /\ Goto(p, "start")
  /\ UNCHANGED <<now, key, users, err, locals>>
\* The random delay, retryCount-- and while (retryCount > 0).
LockRetry(p) ==
  /\ pc[p] = "retry"
  /\ tries' = [tries EXCEPT ![p] = @ - 1]
  /\ Goto(p, IF tries[p] - 1 > 0 THEN "start" ELSE "fail")
  /\ UNCHANGED <<now, key, users, err, call, start, ok, until, lease>>

\* DistributeLock::Lock returns; its RedisClient gives the connection back.
LockReturn(p) ==
  /\ pc[p] \in {"success", "fail"}
  /\ Pool!Release(p)
  /\ EndCall(p, pc[p] = "success")
  /\ UNCHANGED <<now, key>>

-----------------------------------------------------------------------------
(* RedisLock::Unlock, called by the user and by the destructor *)

UnlockCall(p) ==
  /\ pc[p] = "held"
  /\ Goto(p, "unclient")
  /\ UNCHANGED <<now, key, users, err, locals>>

\* Without a client Unlock gives up: locked_ stays set, so the destructor
\* tries again, or it was the destructor and the key stays until it expires.
UnlockClient(p) ==
  /\ pc[p] = "unclient"
  /\ \/ /\ Pool!Acquire(p)
        /\ Goto(p, "unlock")
        /\ UNCHANGED <<err, locals>>
     \/ /\ NullClient
        /\ EndCall(p, TRUE) \/ EndCall(p, FALSE)
  /\ UNCHANGED <<now, key>>

UnlockInstance(p) ==
  /\ pc[p] = "unlock"
  /\ RedUnlock(p)
  /\ Goto(p, "unlocked")
  /\ UNCHANGED <<now, users, locals>>

\* locked_ = false, whatever became of the script; the connection goes back.
UnlockReturn(p) ==
  /\ pc[p] = "unlocked"
  /\ Pool!Release(p)
  /\ EndCall(p, FALSE)
  /\ UNCHANGED <<now, key>>

-----------------------------------------------------------------------------
Lock(p) == \/ LockClient(p) \/ StartTime(p) \/ LockInstance(p) \/ LockCheck(p)
           \/ LockClean(p) \/ LockRetry(p) \/ LockReturn(p)

Unlock(p) == UnlockClient(p) \/ UnlockInstance(p) \/ UnlockReturn(p)

Next ==
  \/ Tick
  \/ \E p \in Procs : LockCall(p) \/ Lock(p) \/ UnlockCall(p) \/ Unlock(p)
  \/ (\A p \in Procs : pc[p] = "out") /\ UNCHANGED vars

Spec == Init /\ [][Next]_vars

\* A call under way goes on.  Nothing is assumed about who gets a connection
\* that comes free: a thread may be overtaken by every call of the others.
FairSpec ==
  /\ Spec
  /\ \A p \in Procs : WF_vars(Lock(p)) /\ WF_vars(Unlock(p))

-----------------------------------------------------------------------------
(* Properties *)

\* Type correctness.
TypeOK ==
  /\ now \in 0..MaxTime
  /\ key \in [val : Procs \X (1..MaxCalls), exp : 0..MaxTime + TTL] \cup {Free}
  /\ users \subseteq Procs \cup Lost
  /\ err \in [Procs -> BOOLEAN]
  /\ pc \in [Procs -> {"out", "client", "start", "set", "check", "clean", "retry",
                       "success", "fail", "held", "unclient", "unlock", "unlocked"}]
  /\ call \in [Procs -> 0..MaxCalls]
  /\ ok \in [Procs -> BOOLEAN]

\* A thread that believes it has the lock, and whose key has not expired, is
\* the one whose value is in Redis: no cleanup of another call's failed
\* attempt and no late Unlock after an expiry has deleted or replaced it.
HolderOwnsKey ==
  \A p \in Procs :
    pc[p] \in {"success", "held", "unclient", "unlock"} /\ now < lease[p] =>
      key.val = Token(p)

\* A key disappears or changes only when it expires or by a call of the thread
\* that wrote it, in the very call that wrote it.
OnlyOwnKeyDeleted ==
  [][\A p \in Procs, n \in 1..MaxCalls :
       key.val = <<p, n>> /\ key'.val # key.val =>
         \/ now' >= key.exp
         \/ n = call[p] /\ pc[p] \in {"clean", "unlock"}]_vars

\* A holder's Unlock returns although the only connection left in the pool is
\* in the hands of a thread that retries Lock: that gives up after m_retryCount.
UnlockReturns == \A p \in Procs : pc[p] = "unclient" ~> pc[p] \in {"out", "held"}

\* m_validityTime is at most a second too long: time(NULL) truncates both ends
\* of the time spent in LockInstance, and the drift is taken off.
ValidityWithinSecond ==
  \A p \in Procs : pc[p] \in {"success", "held"} => until[p] < lease[p] + Second - Drift
=============================================================================
