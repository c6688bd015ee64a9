------------------------ MODULE DistributeLockProofs ------------------------
(***************************************************************************)
(* Proofs about DistributeLock, for every number of threads and calls,     *)
(* every ttl, drift and number of retries, and every set of faults.        *)
(***************************************************************************)
EXTENDS DistributeLock, TLAPS

-----------------------------------------------------------------------------
(* The inductive invariant *)

Labels == {"out", "client", "start", "set", "check", "clean", "retry",
           "success", "fail", "held", "unclient", "unlock", "unlocked"}

\* The times of the code, which TypeOK says nothing about, and a Lock call has
\* been counted when it is under way.
Times ==
  /\ start \in [Procs -> Nat]
  /\ lease \in [Procs -> Nat]
  /\ until \in [Procs -> Int]
  /\ \A p \in Procs : start[p] <= now
  /\ \A p \in Procs : pc[p] # "out" => call[p] > 0

\* A thread has been told that its "set ... nx" was executed: from the reply of
\* LockInstance to the script of Unlock.
Claims(p) ==
  \/ pc[p] \in {"success", "held", "unclient", "unlock"}
  \/ pc[p] = "check" /\ ok[p]

\* The key such a thread has set is there until it expires, unchanged.
KeyKept ==
  \A p \in Procs : Claims(p) /\ now < lease[p] =>
    key.val = Token(p) /\ key.exp = lease[p]

\* The key was set after startTime was read, and what LockCheck concluded from
\* that stays true as long as the lock may be used.
Validity ==
  \A p \in Procs :
    /\ pc[p] = "check" /\ ok[p] => lease[p] >= start[p] + TTL
    /\ pc[p] \in {"success", "held", "unclient"} => until[p] < lease[p] + Second - Drift

IInv == TypeOK /\ Times /\ KeyKept /\ Validity

-----------------------------------------------------------------------------
(* Helpers *)

\* time(NULL) is less than a second behind.
LEMMA WholeSecondsBounds ==
  ASSUME NEW t \in Nat
  PROVE  /\ WholeSeconds(t) \in Int
         /\ WholeSeconds(t) <= t
         /\ t < WholeSeconds(t) + Second
<1>1. Second \in Nat /\ Second > 0
  BY NumbersAssumption
<1>2. /\ t \div Second \in Int /\ t % Second \in 0..Second - 1
      /\ t = Second * (t \div Second) + (t % Second)
  BY <1>1
<1> DEFINE q == t \div Second
<1>3. q * Second = Second * q /\ q * Second \in Int
  BY <1>1, <1>2
<1> HIDE DEF q
<1>4. WholeSeconds(t) = q * Second
  BY DEF WholeSeconds, q
<1> QED
  BY <1>1, <1>2, <1>3, <1>4 DEF q

\* No two threads write the same value, and none writes the value of no key.
LEMMA Tokens ==
  /\ \A p, q \in Procs : Token(p) = Token(q) => p = q
  /\ \A p \in Procs : Token(p) # Free.val
BY DEF Token, Free

\* A call of p ends with the lock or without: the connection's error and the
\* locals are reset, the key is not touched.
LEMMA EndCallInv ==
  ASSUME IInv, NEW p \in Procs, NEW holds \in BOOLEAN, EndCall(p, holds),
         pc[p] # "out", holds => pc[p] \in {"success", "unclient"},
         users' \subseteq Procs \cup Lost, UNCHANGED <<now, key>>
  PROVE  IInv'
<1>1. PICK label \in {"held", "out"} :
        /\ pc' = [pc EXCEPT ![p] = label]
        /\ label = "held" => holds
  BY DEF EndCall, Goto
<1>2. err' \in [Procs -> BOOLEAN] /\ ok' \in [Procs -> BOOLEAN]
  BY Zenon DEF IInv, TypeOK, EndCall
<1>3. TypeOK'
  BY <1>1, <1>2 DEF IInv, TypeOK, EndCall
<1>4. Times'
  BY <1>1 DEF IInv, TypeOK, Times, EndCall
<1>5. KeyKept'
  BY <1>1 DEF IInv, TypeOK, Times, KeyKept, Claims, Token, EndCall
<1>6. Validity'
  BY <1>1 DEF IInv, TypeOK, Times, Validity, EndCall
<1> QED
  BY <1>3, <1>4, <1>5, <1>6 DEF IInv

-----------------------------------------------------------------------------
(* Every step keeps the invariant *)

\* No key and no call.
LEMMA InitIInv == Init => IInv
<1> SUFFICES ASSUME Init PROVE IInv
  OBVIOUS
<1> USE NumbersAssumption DEF Init
<1>1. err \in [Procs -> BOOLEAN] /\ ok \in [Procs -> BOOLEAN]
  BY Zenon
<1>2. TypeOK
  BY <1>1 DEF TypeOK
<1>3. Times
  BY DEF Times
<1>4. KeyKept /\ Validity
  BY DEF KeyKept, Validity, Claims
<1> QED
  BY <1>2, <1>3, <1>4 DEF IInv

\* Redis drops a key only when it has expired.
LEMMA TickInv == IInv /\ Tick => IInv'
<1> SUFFICES ASSUME IInv, Tick PROVE IInv'
  OBVIOUS
<1> USE NumbersAssumption DEF IInv, Tick, locals
<1>1. TypeOK'
  BY DEF TypeOK
<1>2. Times'
  BY DEF TypeOK, Times
<1>3. KeyKept'
  BY DEF TypeOK, Times, KeyKept, Claims, Token
<1>4. Validity'
  BY DEF Validity
<1> QED
  BY <1>1, <1>2, <1>3, <1>4

\* A new call, with a new value.
LEMMA LockCallInv == ASSUME IInv, NEW p \in Procs, LockCall(p) PROVE IInv'
<1> USE NumbersAssumption DEF IInv, LockCall, Goto
<1>1. ok' \in [Procs -> BOOLEAN]
  BY Zenon DEF TypeOK
<1>2. TypeOK'
  BY <1>1 DEF TypeOK
<1>3. Times'
  BY DEF TypeOK, Times
<1>4. KeyKept'
  BY DEF TypeOK, Times, KeyKept, Claims, Token
<1>5. Validity'
  BY DEF TypeOK, Validity
<1> QED
  BY <1>2, <1>3, <1>4, <1>5

\* A step that only moves p, to a place where it claims nothing, or where it
\* claims what it claimed before, and takes connections.
LEMMA MoveInv ==
  ASSUME IInv, NEW p \in Procs, NEW label \in Labels, Goto(p, label), pc[p] # "out",
         \/ label \notin {"check", "success", "held", "unclient", "unlock"}
         \/ label = "unclient" /\ pc[p] = "held"
         \/ label = "unlock" /\ pc[p] = "unclient",
         users' \subseteq Procs \cup Lost, UNCHANGED <<now, key, err, call, start, ok, until, lease>>
  PROVE  IInv'
<1> USE DEF IInv, Goto
<1>1. TypeOK'
  BY DEF TypeOK, Labels
<1>2. Times'
  BY DEF TypeOK, Times
<1>3. KeyKept'
  BY DEF TypeOK, Times, KeyKept, Claims, Token
<1>4. Validity'
  BY DEF TypeOK, Validity
<1> QED
  BY <1>1, <1>2, <1>3, <1>4

\* The set of users stays within threads and lost slots.
LEMMA UsersType ==
  ASSUME TypeOK, \/ \E u \in Procs \cup Lost : Pool!Acquire(u) \/ Pool!Release(u)
                 \/ NullClient
  PROVE  users' \subseteq Procs \cup Lost
BY DEF TypeOK, NullClient, Pool!Acquire, Pool!Release

\* The RedisClient of Lock.
LEMMA LockClientInv == ASSUME IInv, NEW p \in Procs, LockClient(p) PROVE IInv'
<1>1. users' \subseteq Procs \cup Lost
  BY UsersType DEF IInv, LockClient
<1>2. CASE Pool!Acquire(p) /\ UNCHANGED <<err, locals>> /\ (Goto(p, "start") \/ Goto(p, "fail"))
  BY <1>1, <1>2, MoveInv DEF LockClient, locals, Labels
<1>3. CASE EndCall(p, FALSE)
  BY <1>1, <1>3, EndCallInv DEF LockClient
<1> QED
  BY <1>2, <1>3 DEF LockClient

\* startTime is read.
LEMMA StartTimeInv == ASSUME IInv, NEW p \in Procs, StartTime(p) PROVE IInv'
<1> USE NumbersAssumption DEF IInv, StartTime, Goto
<1>1. TypeOK'
  BY DEF TypeOK
<1>2. Times'
  BY DEF TypeOK, Times
<1>3. KeyKept'
  BY DEF TypeOK, Times, KeyKept, Claims, Token
<1>4. Validity'
  BY DEF TypeOK, Times, Validity
<1> QED
  BY <1>1, <1>2, <1>3, <1>4

\* What "set ... nx" of p makes of the key.
LEMMA SetNXEffect ==
  ASSUME IInv, NEW p \in Procs, pc[p] # "out"
  PROVE  /\ SetNX(p) \in [val : Procs \X (1..MaxCalls), exp : 0..MaxTime + TTL] \cup {Free}
         /\ key = Free => SetNX(p).val = Token(p) /\ SetNX(p).exp = now + TTL
         /\ key # Free => SetNX(p) = key
<1>1. Token(p) \in Procs \X (1..MaxCalls)
  BY NumbersAssumption DEF IInv, TypeOK, Times, Token
<1>2. now + TTL \in 0..MaxTime + TTL
  BY NumbersAssumption DEF IInv, TypeOK
<1> QED
  BY <1>1, <1>2 DEF IInv, TypeOK, SetNX

\* LockInstance: the key is set only where there is none, so nobody else's
\* claim is hurt, and p claims it only when it got the reply.
LEMMA LockInstanceInv == ASSUME IInv, NEW p \in Procs, LockInstance(p) PROVE IInv'
<1> USE NumbersAssumption DEF Goto
<1>1. pc[p] = "set" /\ pc' = [pc EXCEPT ![p] = "check"]
  BY DEF LockInstance
<1>2. \A q \in Procs \ {p} : Claims(q)' <=> Claims(q)
  BY <1>1 DEF IInv, TypeOK, Claims, LockInstance
<1>3. /\ err' \in [Procs -> BOOLEAN] /\ ok' \in [Procs -> BOOLEAN]
  <2>1. err' \in [Procs -> BOOLEAN]
    BY Zenon DEF IInv, TypeOK, LockInstance
  <2>2. \E b \in BOOLEAN : ok' = [ok EXCEPT ![p] = b]
    BY Zenon DEF LockInstance
  <2>3. ok' \in [Procs -> BOOLEAN]
    BY <2>2 DEF IInv, TypeOK
  <2> QED
    BY <2>1, <2>3
<1>4. key' = key \/ (key = Free /\ key' = SetNX(p))
  BY <1>1, SetNXEffect DEF LockInstance
<1>5. TypeOK'
  <2>1. key' \in [val : Procs \X (1..MaxCalls), exp : 0..MaxTime + TTL] \cup {Free}
    BY <1>1, <1>4, SetNXEffect DEF IInv, TypeOK
  <2> QED
    BY <1>1, <1>3, <2>1 DEF IInv, TypeOK, LockInstance
<1>6. \A q \in Procs \ {p} : lease'[q] = lease[q] /\ Token(q)' = Token(q)
  BY DEF IInv, Times, Token, LockInstance
<1>7. Times'
  <2>1. lease' \in [Procs -> Nat]
    BY DEF IInv, TypeOK, Times, LockInstance
  <2> QED
    BY <1>1, <2>1 DEF IInv, TypeOK, Times, LockInstance
<1>8. KeyKept'
  <2>1. ASSUME NEW q \in Procs \ {p}, Claims(q)', now' < lease'[q]
        PROVE  key'.val = Token(q)' /\ key'.exp = lease'[q]
    <3>1. key.val = Token(q) /\ key.exp = lease[q]
      BY <1>2, <1>6, <2>1 DEF IInv, KeyKept, LockInstance
    <3>2. key # Free
      BY <3>1, Tokens
    <3> QED
      BY <1>4, <1>6, <3>1, <3>2
  <2>2. ASSUME Claims(p)' PROVE key'.val = Token(p)' /\ key'.exp = lease'[p]
    <3>1. ok'[p] /\ p \in DOMAIN ok /\ p \in DOMAIN lease
      BY <1>1, <2>2 DEF IInv, TypeOK, Times, Claims
    <3>2. key = Free /\ key' = SetNX(p) /\ lease' = [lease EXCEPT ![p] = now + TTL]
      BY <3>1 DEF LockInstance
    <3> QED
      BY <1>1, <3>1, <3>2, SetNXEffect DEF LockInstance, Token
  <2> QED
    BY <2>1, <2>2 DEF KeyKept
<1>9. Validity'
  <2>1. ASSUME NEW q \in Procs \ {p}
        PROVE  /\ pc'[q] = pc[q] /\ ok'[q] = ok[q] /\ lease'[q] = lease[q]
    BY <1>1 DEF IInv, TypeOK, Times, LockInstance
  <2>2. ok'[p] => lease'[p] >= start[p] + TTL
    <3>1. ASSUME ok'[p] PROVE lease'[p] = now + TTL
      BY <3>1 DEF IInv, TypeOK, Times, LockInstance
    <3> QED
      BY <3>1 DEF IInv, TypeOK, Times
  <2> QED
    BY <1>1, <2>1, <2>2 DEF IInv, TypeOK, Validity, LockInstance
<1> QED
  BY <1>5, <1>7, <1>8, <1>9 DEF IInv

\* LockCheck: the key was set at startTime or later, and time(NULL) is at most
\* a second behind at both ends.
LEMMA LockCheckInv == ASSUME IInv, NEW p \in Procs, LockCheck(p) PROVE IInv'
<1>1. CASE ~(ok[p] /\ ValidityTime(p) > 0)
  BY <1>1, MoveInv DEF LockCheck, IInv, TypeOK, Labels
<1>2. CASE ok[p] /\ ValidityTime(p) > 0
  <2>1. pc' = [pc EXCEPT ![p] = "success"] /\ until' = [until EXCEPT ![p] = now + ValidityTime(p)]
    BY <1>2 DEF LockCheck, Goto
  <2>2. /\ now \in Nat /\ start[p] \in Nat /\ start[p] <= now /\ lease[p] \in Nat
        /\ lease[p] >= start[p] + TTL
    BY <1>2, NumbersAssumption DEF IInv, TypeOK, Times, Validity, LockCheck
  <2>3. /\ WholeSeconds(now) \in Int /\ now < WholeSeconds(now) + Second
        /\ WholeSeconds(start[p]) \in Int /\ WholeSeconds(start[p]) <= start[p]
    BY <2>2, WholeSecondsBounds
  <2>4. /\ ValidityTime(p) \in Int
        /\ now + ValidityTime(p) < lease[p] + Second - Drift
    BY <2>2, <2>3, NumbersAssumption DEF ValidityTime
  <2>5. TypeOK'
    BY <2>1 DEF IInv, TypeOK, LockCheck
  <2>6. Times'
    BY <2>1, <2>2, <2>4 DEF IInv, TypeOK, Times, LockCheck
  <2>7. KeyKept'
    BY <1>2, <2>1 DEF IInv, TypeOK, KeyKept, Claims, Token, LockCheck
  <2>8. Validity'
    BY <2>1, <2>4 DEF IInv, TypeOK, Times, Validity, LockCheck
  <2> QED
    BY <2>5, <2>6, <2>7, <2>8 DEF IInv
<1> QED
  BY <1>1, <1>2

\* The script of p, run in the cleanup or in Unlock, deletes the value of p
\* alone; p claims nothing afterwards.
LEMMA RedUnlockInv ==
  ASSUME IInv, NEW p \in Procs, RedUnlock(p), pc[p] # "out",
         NEW label \in {"retry", "unlocked"}, Goto(p, label), UNCHANGED <<now, users, locals>>
  PROVE  IInv'
<1> USE NumbersAssumption DEF Goto, locals
<1>1. err' \in [Procs -> BOOLEAN]
  BY Zenon DEF IInv, TypeOK, RedUnlock, RedisCommandArgv
<1>2. key' = key \/ (key.val = Token(p) /\ key' = Free)
  BY DEF RedUnlock, RedisCommandArgv, CompareAndDelete
<1>3. TypeOK'
  BY <1>1, <1>2 DEF IInv, TypeOK
<1>4. Times'
  BY DEF IInv, TypeOK, Times
<1>5. KeyKept'
  <2>1. ~Claims(p)'
    BY DEF IInv, TypeOK, Claims
  <2>2. ASSUME NEW q \in Procs, q # p
        PROVE  (Claims(q)' <=> Claims(q)) /\ Token(q)' = Token(q) /\ lease'[q] = lease[q]
    BY <2>2 DEF IInv, TypeOK, Claims, Token
  <2>3. ASSUME NEW q \in Procs, q # p, Claims(q)', now' < lease'[q]
        PROVE  key'.val = Token(q)' /\ key'.exp = lease'[q]
    <3>1. key.val = Token(q) /\ key.exp = lease[q]
      BY <2>2, <2>3 DEF IInv, KeyKept
    <3> QED
      BY <1>2, <2>2, <2>3, <3>1, Tokens
  <2> QED
    BY <2>1, <2>3 DEF KeyKept
<1>6. Validity'
  BY DEF IInv, TypeOK, Validity
<1> QED
  BY <1>3, <1>4, <1>5, <1>6 DEF IInv

\* The rest of Lock.
LEMMA LockEndInv ==
  ASSUME IInv, NEW p \in Procs, LockClean(p) \/ LockRetry(p) \/ LockReturn(p)
  PROVE  IInv'
<1>1. CASE LockClean(p)
  BY <1>1, RedUnlockInv DEF LockClean
<1>2. CASE LockRetry(p)
  <2>1. PICK label \in {"start", "fail"} : Goto(p, label)
    BY <1>2 DEF LockRetry
  <2> QED
    BY <1>2, <2>1, MoveInv DEF LockRetry, IInv, TypeOK, Labels
<1>3. CASE LockReturn(p)
  <2>1. users' \subseteq Procs \cup Lost
    BY <1>3, UsersType DEF IInv, LockReturn
  <2>2. CASE pc[p] = "success"
    <3>1. EndCall(p, TRUE)
      BY <1>3, <2>2 DEF LockReturn, EndCall
    <3> QED
      BY <1>3, <2>1, <2>2, <3>1, EndCallInv DEF LockReturn
  <2>3. CASE pc[p] = "fail"
    <3>1. EndCall(p, FALSE)
      BY <1>3, <2>3 DEF LockReturn, EndCall
    <3> QED
      BY <1>3, <2>1, <2>3, <3>1, EndCallInv DEF LockReturn
  <2> QED
    BY <1>3, <2>2, <2>3 DEF LockReturn
<1> QED
  BY <1>1, <1>2, <1>3

\* Unlock, by the user or by the destructor.
LEMMA UnlockInv ==
  ASSUME IInv, NEW p \in Procs, UnlockCall(p) \/ Unlock(p)
  PROVE  IInv'
<1>1. CASE UnlockCall(p)
  BY <1>1, MoveInv DEF UnlockCall, IInv, TypeOK, Labels, locals
<1>2. CASE UnlockClient(p)
  <2>1. users' \subseteq Procs \cup Lost
    BY <1>2, UsersType DEF IInv, UnlockClient
  <2>2. CASE Goto(p, "unlock") /\ UNCHANGED <<err, locals>>
    BY <1>2, <2>1, <2>2, MoveInv DEF UnlockClient, Labels, locals
  <2>3. CASE EndCall(p, TRUE) \/ EndCall(p, FALSE)
    BY <1>2, <2>1, <2>3, EndCallInv DEF UnlockClient
  <2> QED
    BY <1>2, <2>2, <2>3 DEF UnlockClient
<1>3. CASE UnlockInstance(p)
  BY <1>3, RedUnlockInv DEF UnlockInstance
<1>4. CASE UnlockReturn(p)
  <2>1. users' \subseteq Procs \cup Lost
    BY <1>4, UsersType DEF IInv, UnlockReturn
  <2> QED
    BY <1>4, <2>1, EndCallInv DEF UnlockReturn
<1> QED
  BY <1>1, <1>2, <1>3, <1>4 DEF Unlock

\* Every step keeps the inductive invariant.
LEMMA NextIInv == IInv /\ [Next]_vars => IInv'
<1> SUFFICES ASSUME IInv, [Next]_vars PROVE IInv'
  OBVIOUS
<1>1. CASE UNCHANGED vars
  BY <1>1 DEF vars, IInv, TypeOK, Times, KeyKept, Validity, Claims, Token
<1>2. ASSUME NEW p \in Procs, LockCall(p) \/ Lock(p) \/ UnlockCall(p) \/ Unlock(p)
      PROVE  IInv'
  BY <1>2, LockCallInv, LockClientInv, StartTimeInv, LockInstanceInv, LockCheckInv,
     LockEndInv, UnlockInv DEF Lock
<1> QED
  BY <1>1, <1>2, TickInv DEF Next

-----------------------------------------------------------------------------
(* The theorems *)

\* The inductive invariant holds throughout.
LEMMA Invariant == Spec => []IInv
BY InitIInv, NextIInv, PTL DEF Spec

\* Type correctness.
THEOREM TypeCorrect == Spec => []TypeOK
<1>1. IInv => TypeOK
  BY DEF IInv
<1> QED
  BY <1>1, Invariant, PTL

\* Until its key expires, the holder of a lock is the one whose value is in
\* Redis, whatever the other threads' cleanups and late calls of Unlock do.
THEOREM HolderKeepsKey == Spec => []HolderOwnsKey
<1>1. IInv => HolderOwnsKey
  BY DEF IInv, KeyKept, Claims, HolderOwnsKey
<1> QED
  BY <1>1, Invariant, PTL

\* m_validityTime is less than a second, minus the drift, too long.
THEOREM ValidityError == Spec => []ValidityWithinSecond
<1>1. IInv => ValidityWithinSecond
  BY DEF IInv, Validity, ValidityWithinSecond
<1> QED
  BY <1>1, Invariant, PTL

\* m_unlockScript only ever removes the value of the call that runs it.
THEOREM OwnKeyOnly == Spec => OnlyOwnKeyDeleted
<1> DEFINE Kept ==
      \A p \in Procs, n \in 1..MaxCalls :
        key.val = <<p, n>> /\ key'.val # key.val =>
          \/ now' >= key.exp
          \/ n = call[p] /\ pc[p] \in {"clean", "unlock"}
<1>1. ASSUME IInv, Next PROVE Kept
  <2> SUFFICES ASSUME NEW p \in Procs, NEW n \in 1..MaxCalls,
                      key.val = <<p, n>>, key'.val # key.val
               PROVE  \/ now' >= key.exp
                      \/ n = call[p] /\ pc[p] \in {"clean", "unlock"}
    OBVIOUS
  <2>1. key # Free /\ key \in [val : Procs \X (1..MaxCalls), exp : 0..MaxTime + TTL]
    <3>1. <<p, n>> # Free.val
      BY DEF Free
    <3> QED
      BY <1>1, <3>1 DEF IInv, TypeOK
  <2>2. CASE Tick
    BY <1>1, <2>1, <2>2, NumbersAssumption DEF Tick, IInv, TypeOK
  <2>3. ASSUME NEW q \in Procs, LockInstance(q) PROVE FALSE
    BY <2>1, <2>3 DEF LockInstance, SetNX
  <2>4. ASSUME NEW q \in Procs, LockClean(q) \/ UnlockInstance(q)
        PROVE  n = call[p] /\ pc[p] \in {"clean", "unlock"}
    <3>1. key.val = Token(q)
      BY <2>4 DEF LockClean, UnlockInstance, RedUnlock, RedisCommandArgv, CompareAndDelete
    <3>2. q = p /\ n = call[p]
      BY <3>1 DEF Token
    <3> QED
      BY <2>4, <3>2 DEF LockClean, UnlockInstance
  <2>5. ASSUME NEW q \in Procs,
               \/ LockCall(q) \/ LockClient(q) \/ StartTime(q) \/ LockCheck(q)
               \/ LockRetry(q) \/ LockReturn(q)
               \/ UnlockCall(q) \/ UnlockClient(q) \/ UnlockReturn(q)
        PROVE  FALSE
    BY <2>5 DEF LockCall, LockClient, StartTime, LockCheck, LockRetry, LockReturn,
                UnlockCall, UnlockClient, UnlockReturn
  <2>6. CASE UNCHANGED vars
    BY <2>6 DEF vars
  <2> QED
    BY <1>1, <2>2, <2>3, <2>4, <2>5, <2>6 DEF Next, Lock, Unlock
<1>2. IInv /\ [Next]_vars => [Kept]_vars
  BY <1>1
<1> QED
  BY <1>2, Invariant, PTL DEF Spec, OnlyOwnKeyDeleted
=============================================================================
