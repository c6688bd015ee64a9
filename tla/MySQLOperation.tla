--------------------------- MODULE MySQLOperation ---------------------------
(***************************************************************************)
(* MySQLOperation::ExecuteUpdates, with ExecuteUpdate, ExecuteInserts and  *)
(* ExecuteDeletes as its cases (common/mysql_operation.{h,cpp}), on        *)
(* sessions lent by the MySQL pool.  Here the pool is a set of idle        *)
(* sessions; what matters of it is that a session keeps its mode and its   *)
(* open transaction from one user to the next.  MySQL itself is external:  *)
(* a table that grows by the effects of committed statements.              *)
(***************************************************************************)
EXTENDS Integers, FiniteSets

CONSTANTS Procs,     \* threads that call ExecuteUpdates
          Sessions,  \* the pool's connections
          Stmts,     \* the number of statements in update_sqls
          MaxCalls,  \* bound on the calls of a thread
          Faults     \* "stmt": a statement is refused; "setac": setAutoCommit is;
                     \* "drop": the connection is lost; "commit": it is lost in
                     \* commit, whose outcome nobody knows; "end": rollback or
                     \* commit is refused and the connection kept

ASSUME SetsAssumption    == IsFiniteSet(Procs) /\ IsFiniteSet(Sessions)
ASSUME NumbersAssumption == Stmts \in Nat \ {0} /\ MaxCalls \in Nat
ASSUME FaultsAssumption  == Faults \subseteq {"stmt", "setac", "drop", "commit", "end"}

VARIABLES
  db,       \* the committed effects
  sess,     \* the sessions
  idle,     \* the sessions in the pool
  run,      \* the call each thread is in, with its locals; for the properties,
            \* lost says that its connection has been lost
  calls,    \* the number of calls of each thread
  acked,    \* the effects that callers have been told of
  denied,   \* the effects that callers have been told are rolled back
  crashed   \* the process is gone

vars == <<db, sess, idle, run, calls, acked, denied, crashed>>

\* The statement i of p's n-th call.
Effects == Procs \X (1..MaxCalls) \X (1..Stmts)
EffectsOf(p, n) == {e \in Effects : e[1] = p /\ e[2] = n}

(***************************************************************************)
(* A session: whether the connection is up, the server's autocommit mode,  *)
(* the mode the client library believes in, the pool's auto_commit_,       *)
(* whether the client library knows of an open transaction, the savepoint, *)
(* and what the open transaction has done.                                 *)
(***************************************************************************)
Session == [up : BOOLEAN, ac : BOOLEAN, lib : BOOLEAN, flag : BOOLEAN,
            intrans : BOOLEAN, sp : BOOLEAN, pending : SUBSET Effects]

Opened == [up |-> TRUE, ac |-> TRUE, lib |-> TRUE, flag |-> TRUE,
           intrans |-> FALSE, sp |-> FALSE, pending |-> {}]

NoRun == [at |-> "out", s |-> 0, trans |-> FALSE, affect |-> -1, i |-> 0,
          res |-> 0, savepoint |-> FALSE, done |-> {}, lost |-> FALSE]

Init ==
  /\ db = {}
  /\ sess = [s \in Sessions |-> Opened]
  /\ idle = Sessions
  /\ run = [p \in Procs |-> NoRun]
  /\ calls = [p \in Procs |-> 0]
  /\ acked = {}
  /\ denied = {}
  /\ crashed = FALSE

-----------------------------------------------------------------------------
(* MySQL and its client library *)

\* The connection is lost; the server rolls the open transaction back.
Drop(s) ==
  /\ "drop" \in Faults
  /\ sess[s].up
  /\ sess' = [sess EXCEPT ![s].up = FALSE, ![s].pending = {}]
  /\ run' = [p \in Procs |-> [run[p] EXCEPT !.lost = @ \/ (s \notin idle /\ run[p].s = s)]]
  /\ UNCHANGED <<db, idle, calls, acked, denied, crashed>>

\* The server's side of a session without a transaction and its savepoints.
NoTrans(c) == [c EXCEPT !.intrans = FALSE, !.sp = FALSE, !.pending = {}]

\* With OPT_RECONNECT a command on a lost connection silently gets a new
\* session in autocommit mode, unless the library knows of an open
\* transaction: then it raises, and the next command reconnects.
Reached(s) == IF sess[s].up THEN sess[s]
                            ELSE [NoTrans(sess[s]) EXCEPT !.up = TRUE, !.ac = TRUE]
Unreachable(s) == ~sess[s].up /\ sess[s].intrans

\* The session when a command has raised.  MySQL may have rolled the whole
\* transaction back, as it does for the victim of a deadlock.
AfterRaise(s) == {NoTrans(sess[s])} \cup (IF sess[s].up THEN {sess[s]} ELSE {})

At(p, label) == run[p].at = label
Goto(p, label) == run' = [run EXCEPT ![p].at = label]

\* A SQLException in the inner try block.
Raised(p) ==
  /\ \E c \in AfterRaise(run[p].s) : sess' = [sess EXCEPT ![run[p].s] = c]
  /\ run' = [run EXCEPT ![p].at = "finish", ![p].res = -2]

-----------------------------------------------------------------------------
(* ExecuteUpdates *)

\* ExecuteUpdates returns to its caller: the effects of a success are
\* acknowledged, those of a transaction rolled back (-3) denied.
Returns(p, n, r) ==
  /\ acked' = acked \cup IF r.res >= 0 THEN r.done ELSE {}
  /\ denied' = denied \cup IF r.res = -3 THEN EffectsOf(p, n) ELSE {}

\* MySQLConnAssistant assist{!trans_ctrl}: GetConnection reconnects a session
\* that is not valid and, for a transaction, leaves autocommit mode; a refusal
\* of that is swallowed.  Without a session the constructor raises
\* ConnectionNull; the pool replaces a session that cannot be reconnected.
GetConnection(p, trans, affect) ==
  /\ At(p, "out")
  /\ calls[p] < MaxCalls
  /\ calls' = [calls EXCEPT ![p] = @ + 1]
  /\ \/ \E s \in idle, ok \in IF "setac" \in Faults THEN BOOLEAN ELSE {TRUE} :
          /\ idle' = idle \ {s}
          /\ LET c == Reached(s)
             IN  sess' = [sess EXCEPT ![s] =
                    IF trans THEN [c EXCEPT !.flag = FALSE, !.ac = @ /\ ~ok, !.lib = @ /\ ~ok]
                             ELSE c]
          /\ run' = [run EXCEPT ![p] =
                       [NoRun EXCEPT !.at = IF trans THEN "savepoint" ELSE "stmt",
                                     !.s = s, !.trans = trans, !.affect = affect]]
          /\ UNCHANGED <<acked, denied>>
     \/ /\ \/ idle = {} /\ UNCHANGED sess
           \/ \E s \in idle : ~sess[s].up /\ sess' = [sess EXCEPT ![s] = Opened]
        /\ Returns(p, calls[p] + 1, [NoRun EXCEPT !.trans = trans, !.res = -1])
        /\ UNCHANGED <<idle, run>>
  /\ UNCHANGED <<db, crashed>>

\* setSavepoint, which the library refuses in what it takes for autocommit mode.
SetSavepoint(p) ==
  LET s == run[p].s
      c == Reached(s)
  IN  /\ At(p, "savepoint")
      /\ \/ /\ ~c.lib /\ ~Unreachable(s)
            /\ sess' = [sess EXCEPT ![s] = [c EXCEPT !.sp = ~c.ac]]
            /\ run' = [run EXCEPT ![p].at = "stmt", ![p].savepoint = TRUE]
         \/ /\ c.lib \/ "stmt" \in Faults \/ Unreachable(s)
            /\ Raised(p)
      /\ UNCHANGED <<db, idle, calls, acked, denied, crashed>>

Mut_LastStmt(r) == r.i > Stmts
LastStmt(r) == r.i + 1 = Stmts

\* executeUpdate of the next statement, which changes a row or none.
ExecuteUpdate(p) ==
  LET r == run[p]
      s == r.s
      e == <<p, calls[p], r.i + 1>>
      c == Reached(s)
  IN  /\ At(p, "stmt")
      /\ \/ /\ ~Unreachable(s)
            /\ \E rows \in {{}, {e}} :
                 /\ sess' = [sess EXCEPT ![s] = IF c.ac THEN c
                               ELSE [c EXCEPT !.pending = @ \cup rows, !.intrans = TRUE]]
                 /\ db' = IF c.ac THEN db \cup rows ELSE db
                 /\ run' = [run EXCEPT ![p].i = @ + 1,
                                       ![p].res = @ + Cardinality(rows),
                                       ![p].done = @ \cup rows,
                                       ![p].at = IF LastStmt(r) THEN "finish" ELSE "stmt"]
         \/ /\ "stmt" \in Faults \/ Unreachable(s)
            /\ Raised(p)
            /\ UNCHANGED db
      /\ UNCHANGED <<idle, calls, acked, denied, crashed>>

MustRollback(r) == \/ r.affect >= 0 /\ r.affect # r.res
                   \/ r.affect < 0 /\ r.res < 0

\* rollback(savepoint)'s exception is swallowed.
Mut_RollbackResult(returned) == -3
\* -3 after rollback(savepoint), -2 from the outer handler when it has raised.
RollbackResult(returned) == IF returned THEN -3 ELSE -2

\* rollback(savepoint).  The savepoint is null when setSavepoint raised; the
\* library refuses in what it takes for autocommit mode, otherwise what
\* dereferencing the null pointer does is undefined.
Rollback(p) ==
  LET s == run[p].s
      c == Reached(s)
      null == ~run[p].savepoint /\ ~sess[s].lib
      possible == ~null /\ ~sess[s].lib /\ ~Unreachable(s) /\ c.sp
      raised == IF possible THEN AfterRaise(s)
                            ELSE {IF Unreachable(s) THEN NoTrans(sess[s]) ELSE c}
  IN  /\ MustRollback(run[p])
      /\ UNCHANGED db
      /\ crashed' \in IF null THEN BOOLEAN ELSE {FALSE}
      /\ \E returned \in BOOLEAN :
           /\ IF returned THEN possible ELSE ~possible \/ "end" \in Faults
           /\ \E d \in IF returned THEN {[c EXCEPT !.pending = @ \ EffectsOf(p, calls[p])]}
                                   ELSE raised : sess' = [sess EXCEPT ![s] = d]
           /\ run' = [run EXCEPT ![p].at = "release", ![p].res = RollbackResult(returned)]

\* commit().  When its connection is lost the server may have done it or not;
\* when it is refused the transaction stays open or has been rolled back.
Commit(p) ==
  LET s == run[p].s
      c == Reached(s)
  IN  /\ ~MustRollback(run[p])
      /\ UNCHANGED crashed
      /\ \/ /\ ~Unreachable(s)
            /\ db' = db \cup c.pending
            /\ sess' = [sess EXCEPT ![s] = NoTrans(c)]
            /\ Goto(p, "release")
         \/ /\ "commit" \in Faults \/ Unreachable(s)
            /\ db' \in {db, db \cup sess[s].pending}
            /\ sess' = [sess EXCEPT ![s] = [NoTrans(@) EXCEPT !.up = FALSE]]
            /\ run' = [run EXCEPT ![p].at = "release", ![p].res = -2, ![p].lost = TRUE]
         \/ /\ "end" \in Faults /\ sess[s].up
            /\ UNCHANGED db
            /\ \E d \in AfterRaise(s) : sess' = [sess EXCEPT ![s] = d]
            /\ run' = [run EXCEPT ![p].at = "release", ![p].res = -2]

\* The end of the outer try block.
Finish(p) ==
  /\ At(p, "finish")
  /\ \/ run[p].trans /\ (Rollback(p) \/ Commit(p))
     \/ ~run[p].trans /\ Goto(p, "release") /\ UNCHANGED <<db, sess, crashed>>
  /\ UNCHANGED <<idle, calls, acked, denied>>

\* The flag is set, the call is forgotten.
Mut_Restore(s) == sess' = [sess EXCEPT ![s].flag = TRUE] /\ UNCHANGED db
\* ReleaseConnection's setAutoCommit(true), which commits what is open; an
\* exception is swallowed and auto_commit_ stays false.
Restore(s) ==
  \/ sess[s].flag /\ UNCHANGED <<sess, db>>
  \/ /\ ~sess[s].flag /\ ~Unreachable(s)
     /\ db' = db \cup Reached(s).pending
     /\ sess' = [sess EXCEPT ![s] = Opened]
  \/ /\ ~sess[s].flag
     /\ "setac" \in Faults \/ Unreachable(s)
     /\ \E c \in AfterRaise(s) : sess' = [sess EXCEPT ![s] = c]
     /\ UNCHANGED db

\* assist is destroyed and ExecuteUpdates returns res.
ReleaseConnection(p) ==
  /\ At(p, "release")
  /\ Restore(run[p].s)
  /\ idle' = idle \cup {run[p].s}
  /\ Returns(p, calls[p], run[p])
  /\ run' = [run EXCEPT ![p] = NoRun]
  /\ UNCHANGED <<calls, crashed>>

-----------------------------------------------------------------------------
ExecuteUpdates(p) == \/ SetSavepoint(p) \/ ExecuteUpdate(p) \/ Finish(p)
                     \/ ReleaseConnection(p)

Ended == \A p \in Procs : At(p, "out") /\ calls[p] = MaxCalls

Next ==
  \/ /\ ~crashed
     /\ \/ \E s \in Sessions : Drop(s)
        \/ \E p \in Procs :
             \/ GetConnection(p, FALSE, -1)  \* affect_rows is not looked at
             \/ \E affect \in {-1, Stmts} : GetConnection(p, TRUE, affect)
             \/ ExecuteUpdates(p)
  \/ (crashed \/ Ended) /\ UNCHANGED vars

Spec == Init /\ [][Next]_vars

-----------------------------------------------------------------------------
(* Properties *)

\* Type correctness.
TypeOK ==
  /\ db \subseteq Effects
  /\ sess \in [Sessions -> Session]
  /\ idle \subseteq Sessions
  /\ acked \cup denied \subseteq Effects
  /\ \A p \in Procs : run[p].res \in -3..Stmts /\ run[p].i \in 0..Stmts
  /\ calls \in [Procs -> 0..MaxCalls]
  /\ crashed \in BOOLEAN

\* The header on the return value: >= 0 means that the statements were
\* executed.  So what a successful call has done is in the database when it
\* returns, whoever used its session before.
SuccessIsDurable == acked \subseteq db

\* -3 is answered when rollback(savepoint) has returned: nothing of that call
\* is in the database, and nothing of it gets there when its session goes on to
\* other users, although a connection lost after setSavepoint may have been
\* replaced by one in autocommit mode on the way.
RolledBackIsUndone == denied \cap db = {}

\* What a call does becomes durable during that call or never: no transaction
\* is left open in a pooled session for the next user to commit.
DurableOnlyDuringCall ==
  [][\A e \in db' \ db : calls[e[1]] = e[2] /\ run[e[1]].at # "out"]_vars

\* The header on the return value: < 0 means failure, with trans_ctrl deciding
\* about the rollback.  So a transaction that fails without having lost its
\* connection returns with nothing of it in the database.  The code keeps that
\* only where rollback and commit are not refused (fault "end").
FailureRolledBack ==
  [][\A p \in Procs :
       At(p, "release") /\ run[p].trans /\ run[p].res < 0 /\ ~run[p].lost /\ run'[p].at = "out"
       => db' \cap EffectsOf(p, calls[p]) = {}]_vars
=============================================================================
