------------------------ MODULE MySQLOperationProofs ------------------------
(***************************************************************************)
(* Proofs about MySQLOperation.  The types, and that what is rolled back   *)
(* is undone, hold whatever may fail.  The other theorems leave the fault  *)
(* "setac" out: where setAutoCommit itself is refused the pool lends       *)
(* sessions in a mode nobody asked for.                                    *)
(*                                                                         *)
(* What is promised is about acked, denied and db; what makes it true is   *)
(* the state of the sessions.  A session in the pool has no open           *)
(* transaction and is in autocommit mode, so that a call begins with a     *)
(* clean one.  A transaction's open effects are its own and are undone by  *)
(* its savepoint; unless its connection has been lost it is still out of   *)
(* autocommit mode, so nothing of it is in the database.  Something of it  *)
(* is open when its session is released only where rollback or commit may  *)
(* be refused.                                                             *)
(***************************************************************************)
EXTENDS MySQLOperation, FiniteSetTheorems, TLAPS

Labels == {"out", "savepoint", "stmt", "finish", "release"}

Run == [at : Labels, s : Sessions \cup {0}, trans : BOOLEAN, affect : {-1, Stmts},
        i : 0..Stmts, res : -3..Stmts, savepoint : BOOLEAN, done : SUBSET Effects,
        lost : BOOLEAN]

\* A call in progress has a session of its own and a statement to execute.
RunOK(p) ==
  /\ run[p].at # "out" => run[p].s \in Sessions \ idle /\ calls[p] \in 1..MaxCalls
  /\ run[p].at = "stmt" => run[p].i < Stmts /\ run[p].res \in 0..run[p].i
  /\ run[p].at = "savepoint" => run[p].i = 0 /\ run[p].res = 0
  /\ \A q \in Procs : /\ run[p].at # "out" /\ run[q].at # "out" /\ run[p].s = run[q].s
                      => p = q

TypesInv == TypeOK /\ run \in [Procs -> Run] /\ \A p \in Procs : RunOK(p)

-----------------------------------------------------------------------------
\* A session without a transaction that commits whatever is executed next.
Clean(c) == ~c.intrans /\ c.pending = {} /\ (c.up => c.ac)

\* The session of p's call and the effects that call can have.
Mine(p)  == sess[run[p].s]
MyEff(p) == EffectsOf(p, calls[p])

\* What a transaction has open: its own effects, which its savepoint undoes.
OpenOK(p) ==
  /\ ~Mine(p).lib /\ ~Mine(p).flag
  /\ Mine(p).pending \subseteq MyEff(p)
  /\ Mine(p).pending # {} => /\ Mine(p).up /\ ~Mine(p).ac /\ Mine(p).intrans /\ Mine(p).sp
                             /\ run[p].savepoint /\ (At(p, "release") => "end" \in Faults)
  /\ At(p, "stmt") => run[p].savepoint /\ (Mine(p).up /\ ~Mine(p).ac => Mine(p).sp)
  /\ At(p, "savepoint") => ~run[p].savepoint

\* A transaction with its connection is out of autocommit mode, and nothing of
\* it is in the database before its commit.
KeptOK(p) ==
  ~run[p].lost => /\ Mine(p).up /\ ~Mine(p).ac
                  /\ ~At(p, "release") \/ run[p].res < 0 => db \cap MyEff(p) = {}

\* What a call that has not failed has done is in the database, or open in a
\* session that can still commit it.
DoneOK(p) ==
  /\ At(p, "savepoint") => run[p].done = {}
  /\ run[p].res >= 0 =>
       /\ At(p, "release") => run[p].done \subseteq db
       /\ Mine(p).up \/ ~Mine(p).intrans => run[p].done \subseteq db \cup Mine(p).pending

CallOK(p) ==
  run[p].at # "out" => /\ IF run[p].trans THEN OpenOK(p) /\ KeptOK(p) ELSE Clean(Mine(p))
                       /\ DoneOK(p)

\* Nothing is in the database before its call.
History == \A e \in db : e[2] <= calls[e[1]]

SafeInv ==
  /\ \A s \in idle : Clean(sess[s])
  /\ \A p \in Procs : CallOK(p)
  /\ History
  /\ SuccessIsDurable

-----------------------------------------------------------------------------
(* Sessions *)

LEMMA NoTransFacts ==
  ASSUME NEW c \in Session
  PROVE  /\ NoTrans(c) \in Session
         /\ ~NoTrans(c).intrans /\ ~NoTrans(c).sp /\ NoTrans(c).pending = {}
         /\ NoTrans(c).up = c.up /\ NoTrans(c).ac = c.ac
         /\ NoTrans(c).lib = c.lib /\ NoTrans(c).flag = c.flag
  BY DEF Session, NoTrans

LEMMA OpenedFacts == Opened \in Session /\ Clean(Opened)
  BY DEF Session, Opened, Clean

LEMMA ReachedFacts ==
  ASSUME NEW s \in Sessions, sess[s] \in Session
  PROVE  /\ Reached(s) \in Session /\ Reached(s).up
         /\ Reached(s).lib = sess[s].lib /\ Reached(s).flag = sess[s].flag
         /\ sess[s].up => Reached(s) = sess[s]
         /\ ~sess[s].up => /\ Reached(s).ac /\ ~Reached(s).intrans
                           /\ ~Reached(s).sp /\ Reached(s).pending = {}
<1>1. CASE sess[s].up
  BY <1>1 DEF Reached
<1>2. CASE ~sess[s].up
  <2> DEFINE d == NoTrans(sess[s])
  <2>1. d \in Session /\ ~d.intrans /\ ~d.sp /\ d.pending = {}
        /\ d.lib = sess[s].lib /\ d.flag = sess[s].flag
    BY NoTransFacts
  <2>2. Reached(s) = [d EXCEPT !.up = TRUE, !.ac = TRUE]
    BY <1>2 DEF Reached
  <2> HIDE DEF d
  <2> QED
    BY <1>2, <2>1, <2>2 DEF Session
<1> QED
  BY <1>1, <1>2

\* A command that raises leaves the session's transaction alone or ends it.
LEMMA RaiseFacts ==
  ASSUME NEW s \in Sessions, sess[s] \in Session, NEW c \in AfterRaise(s)
  PROVE  /\ c \in Session
         /\ c.up = sess[s].up /\ c.ac = sess[s].ac /\ c.lib = sess[s].lib /\ c.flag = sess[s].flag
         /\ \/ sess[s].up /\ c = sess[s]
            \/ ~c.intrans /\ ~c.sp /\ c.pending = {}
  BY NoTransFacts DEF AfterRaise

-----------------------------------------------------------------------------
(* The types, whatever may fail *)

LEMMA NoRunType ==
  /\ NoRun \in Run /\ NoRun.at = "out" /\ ~NoRun.lost
  /\ NoRun.i = 0 /\ NoRun.res = 0 /\ ~NoRun.savepoint /\ NoRun.done = {}
  BY NumbersAssumption DEF NoRun, Run, Labels

LEMMA EffectsOfType == ASSUME NEW p, NEW n PROVE EffectsOf(p, n) \subseteq Effects
  BY DEF EffectsOf

LEMMA ResNumbers == {-1, -2, -3} \subseteq -3..Stmts /\ 0 \in 0..Stmts /\ Stmts \in Nat
  BY NumbersAssumption

LEMMA ResType ==
  ASSUME NEW r \in Run, NEW l \in Labels, NEW k \in -3..Stmts
  PROVE  [r EXCEPT !.at = l, !.res = k] \in Run
  BY DEF Run

\* A step of p that leaves the other calls and their sessions alone.
LEMMA StepTypes ==
  ASSUME TypesInv, NEW p \in Procs, run' \in [Procs -> Run], sess' \in [Sessions -> Session],
         \A q \in Procs : q # p => run'[q] = run[q],
         run[p].at # "out", run'[p].s = run[p].s,
         run'[p].at = "stmt" => run'[p].i < Stmts /\ run'[p].res \in 0..run'[p].i,
         run'[p].at # "savepoint", db' \subseteq Effects, crashed' \in BOOLEAN,
         UNCHANGED <<idle, calls, acked, denied>>
  PROVE  TypesInv'
<1>1. TypeOK'
  <2>1. \A q \in Procs : run'[q].res \in -3..Stmts /\ run'[q].i \in 0..Stmts
    BY DEF Run
  <2> QED
    BY <2>1 DEF TypesInv, TypeOK
<1>2. \A q \in Procs : RunOK(q)'
  BY DEF TypesInv, RunOK
<1> QED
  BY <1>1, <1>2 DEF TypesInv

\* The call of p and its session.
LEMMA CallTypes ==
  ASSUME TypesInv, NEW p \in Procs, run[p].at # "out"
  PROVE  /\ run[p] \in Run /\ run[p].s \in Sessions \ idle /\ calls[p] \in 1..MaxCalls
         /\ sess[run[p].s] \in Session /\ sess \in [Sessions -> Session]
         /\ run \in [Procs -> Run] /\ db \subseteq Effects
  BY DEF TypesInv, TypeOK, RunOK

\* What Raised does to the call and to its session.
LEMMA RaisedFacts ==
  ASSUME TypesInv, NEW p \in Procs, run[p].at # "out", Raised(p)
  PROVE  /\ run' \in [Procs -> Run] /\ sess' \in [Sessions -> Session]
         /\ \A q \in Procs : q # p => run'[q] = run[q]
         /\ run'[p].at = "finish" /\ run'[p].res = -2
         /\ run'[p].s = run[p].s /\ run'[p].trans = run[p].trans
         /\ run'[p].savepoint = run[p].savepoint /\ run'[p].lost = run[p].lost
         /\ sess'[run[p].s] \in AfterRaise(run[p].s)
         /\ \A t \in Sessions : t # run[p].s => sess'[t] = sess[t]
<1>1. PICK c \in AfterRaise(run[p].s) : sess' = [sess EXCEPT ![run[p].s] = c]
  BY DEF Raised
<1>2. c \in Session
  BY CallTypes, RaiseFacts
<1>3. /\ sess' \in [Sessions -> Session] /\ sess'[run[p].s] \in AfterRaise(run[p].s)
      /\ \A t \in Sessions : t # run[p].s => sess'[t] = sess[t]
  BY <1>1, <1>2, CallTypes
<1>4. run' = [run EXCEPT ![p].at = "finish", ![p].res = -2] /\ run \in [Procs -> Run]
  BY CallTypes DEF Raised
<1>5. /\ \A q \in Procs : q # p => run'[q] = run[q]
      /\ run'[p].at = "finish" /\ run'[p].res = -2
      /\ run'[p].s = run[p].s /\ run'[p].trans = run[p].trans
      /\ run'[p].savepoint = run[p].savepoint /\ run'[p].lost = run[p].lost
  BY <1>4 DEF Run
<1>6. run' \in [Procs -> Run]
  <2>1. run' = [run EXCEPT ![p] = [run[p] EXCEPT !.at = "finish", !.res = -2]]
    BY <1>4
  <2>2. [run[p] EXCEPT !.at = "finish", !.res = -2] \in Run
    BY CallTypes, ResType, ResNumbers DEF Labels
  <2> QED
    BY <1>4, <2>1, <2>2
<1> QED
  BY <1>3, <1>5, <1>6

LEMMA RaisedTypes ==
  ASSUME TypesInv, NEW p \in Procs, run[p].at # "out", Raised(p),
         UNCHANGED <<db, idle, calls, acked, denied, crashed>>
  PROVE  TypesInv'
<1>1. db' \subseteq Effects /\ crashed' \in BOOLEAN
  BY DEF TypesInv, TypeOK
<1> QED
  BY <1>1, RaisedFacts, StepTypes

LEMMA RunSet ==
  ASSUME run \in [Procs -> Run], NEW p \in Procs, NEW r \in Run, run' = [run EXCEPT ![p] = r]
  PROVE  /\ run' \in [Procs -> Run] /\ run'[p] = r
         /\ \A q \in Procs : q # p => run'[q] = run[q]
  OBVIOUS

LEMMA SessSet ==
  ASSUME sess \in [Sessions -> Session], NEW s \in Sessions, NEW c \in Session,
         sess' = [sess EXCEPT ![s] = c]
  PROVE  /\ sess' \in [Sessions -> Session] /\ sess'[s] = c
         /\ \A t \in Sessions : t # s => sess'[t] = sess[t]
  OBVIOUS

\* setSavepoint succeeds: p goes on to the statements, its session has a
\* savepoint unless it is in autocommit mode.
SavepointSet(p) ==
  /\ ~Reached(run[p].s).lib /\ ~Unreachable(run[p].s)
  /\ sess' = [sess EXCEPT ![run[p].s] = [Reached(run[p].s) EXCEPT !.sp = ~Reached(run[p].s).ac]]
  /\ run' = [run EXCEPT ![p].at = "stmt", ![p].savepoint = TRUE]

LEMMA SavepointFacts ==
  ASSUME TypesInv, NEW p \in Procs, run[p].at # "out", SavepointSet(p)
  PROVE  LET s == run[p].s
             c == Reached(run[p].s)
         IN  /\ run' \in [Procs -> Run] /\ sess' \in [Sessions -> Session]
             /\ \A q \in Procs : q # p => run'[q] = run[q]
             /\ \A t \in Sessions : t # s => sess'[t] = sess[t]
             /\ run'[p].at = "stmt" /\ run'[p].s = s /\ run'[p].trans = run[p].trans
             /\ run'[p].i = run[p].i /\ run'[p].res = run[p].res /\ run'[p].savepoint
             /\ run'[p].done = run[p].done /\ run'[p].lost = run[p].lost
             /\ sess'[s].up = c.up /\ sess'[s].ac = c.ac /\ sess'[s].lib = c.lib
             /\ sess'[s].flag = c.flag /\ sess'[s].intrans = c.intrans
             /\ sess'[s].pending = c.pending /\ (sess'[s].sp <=> ~c.ac)
<1> DEFINE s == run[p].s
           c == Reached(s)
           d == [c EXCEPT !.sp = ~c.ac]
           r == [run[p] EXCEPT !.at = "stmt", !.savepoint = TRUE]
<1>1. /\ s \in Sessions /\ sess \in [Sessions -> Session] /\ c \in Session
      /\ run[p] \in Run /\ run \in [Procs -> Run]
  BY CallTypes, ReachedFacts
<1>2. /\ d \in Session /\ d.up = c.up /\ d.ac = c.ac /\ d.lib = c.lib /\ d.flag = c.flag
      /\ d.intrans = c.intrans /\ d.pending = c.pending /\ (d.sp <=> ~c.ac)
  <2> HIDE DEF c
  <2> QED
    BY <1>1 DEF Session
<1>3. /\ r \in Run /\ r.at = "stmt" /\ r.s = s /\ r.trans = run[p].trans
      /\ r.i = run[p].i /\ r.res = run[p].res /\ r.savepoint
      /\ r.done = run[p].done /\ r.lost = run[p].lost
  BY <1>1 DEF Run, Labels
<1>4. run' = [run EXCEPT ![p] = r] /\ sess' = [sess EXCEPT ![s] = d]
  BY <1>1 DEF SavepointSet
<1> HIDE DEF r, d
<1>5. /\ run' \in [Procs -> Run] /\ run'[p] = r
      /\ \A q \in Procs : q # p => run'[q] = run[q]
  BY <1>1, <1>3, <1>4, RunSet
<1>6. /\ sess' \in [Sessions -> Session] /\ sess'[s] = d
      /\ \A t \in Sessions : t # s => sess'[t] = sess[t]
  BY <1>1, <1>2, <1>4, SessSet
<1> QED
  BY <1>2, <1>3, <1>5, <1>6

LEMMA SetSavepointTypes == ASSUME TypesInv, NEW p \in Procs, SetSavepoint(p) PROVE TypesInv'
<1>1. /\ run[p].at = "savepoint" /\ UNCHANGED <<db, idle, calls, acked, denied, crashed>>
      /\ SavepointSet(p) \/ Raised(p)
  BY DEF SetSavepoint, SavepointSet, At
<1>2. CASE Raised(p)
  BY <1>1, <1>2, RaisedTypes
<1>3. CASE SavepointSet(p)
  <2>1. run'[p].i = 0 /\ run'[p].res = 0 /\ Stmts > 0
    BY <1>1, <1>3, SavepointFacts, NumbersAssumption DEF TypesInv, RunOK
  <2>2. db' \subseteq Effects /\ crashed' \in BOOLEAN
    BY <1>1 DEF TypesInv, TypeOK
  <2> QED
    BY <1>1, <1>3, <2>1, <2>2, SavepointFacts, StepTypes
<1> QED
  BY <1>1, <1>2, <1>3

\* executeUpdate succeeds and changes rows.
Executed(p, rows) ==
  LET r == run[p]
      c == Reached(r.s)
  IN  /\ ~Unreachable(r.s)
      /\ sess' = [sess EXCEPT ![r.s] = IF c.ac THEN c
                    ELSE [c EXCEPT !.pending = @ \cup rows, !.intrans = TRUE]]
      /\ db' = IF c.ac THEN db \cup rows ELSE db
      /\ run' = [run EXCEPT ![p].i = @ + 1, ![p].res = @ + Cardinality(rows),
                            ![p].done = @ \cup rows,
                            ![p].at = IF LastStmt(r) THEN "finish" ELSE "stmt"]

LEMMA RowsFacts ==
  ASSUME TypesInv, NEW p \in Procs, run[p].at = "stmt",
         NEW rows \in {{}, {<<p, calls[p], run[p].i + 1>>}}
  PROVE  rows \subseteq MyEff(p) /\ rows \subseteq Effects /\ Cardinality(rows) \in {0, 1}
<1>1. calls[p] \in 1..MaxCalls /\ run[p].i + 1 \in 1..Stmts
  <2>1. run[p].i \in 0..Stmts /\ run[p].i < Stmts
    BY DEF TypesInv, TypeOK, RunOK
  <2> QED
    BY <2>1, CallTypes, NumbersAssumption
<1>2. <<p, calls[p], run[p].i + 1>> \in MyEff(p) /\ <<p, calls[p], run[p].i + 1>> \in Effects
  BY <1>1 DEF MyEff, EffectsOf, Effects
<1>3. \A x : Cardinality({x}) = 1
  BY FS_Singleton
<1>4. Cardinality({}) = 0
  BY FS_EmptySet
<1> QED
  BY <1>2, <1>3, <1>4

LEMMA ExecutedFacts ==
  ASSUME TypesInv, NEW p \in Procs, run[p].at = "stmt",
         NEW rows \in {{}, {<<p, calls[p], run[p].i + 1>>}}, Executed(p, rows)
  PROVE  LET s == run[p].s
             c == Reached(run[p].s)
         IN  /\ run' \in [Procs -> Run] /\ sess' \in [Sessions -> Session]
             /\ \A q \in Procs : q # p => run'[q] = run[q]
             /\ \A t \in Sessions : t # s => sess'[t] = sess[t]
             /\ run'[p].at \in {"stmt", "finish"} /\ run'[p].s = s
             /\ run'[p].trans = run[p].trans /\ run'[p].res \in 0..run'[p].i
             /\ run'[p].at = "stmt" => run'[p].i < Stmts
             /\ run'[p].done = run[p].done \cup rows /\ run'[p].lost = run[p].lost
             /\ run'[p].savepoint = run[p].savepoint
             /\ sess'[s].up = c.up /\ sess'[s].ac = c.ac /\ sess'[s].lib = c.lib
             /\ sess'[s].flag = c.flag /\ sess'[s].sp = c.sp
             /\ c.ac => sess'[s] = c
             /\ ~c.ac => sess'[s].pending = c.pending \cup rows /\ sess'[s].intrans
<1> DEFINE s == run[p].s
           c == Reached(s)
           d == IF c.ac THEN c ELSE [c EXCEPT !.pending = @ \cup rows, !.intrans = TRUE]
           l == IF LastStmt(run[p]) THEN "finish" ELSE "stmt"
           r == [run[p] EXCEPT !.i = @ + 1, !.res = @ + Cardinality(rows), !.done = @ \cup rows,
                               !.at = l]
<1>1. /\ s \in Sessions /\ sess \in [Sessions -> Session] /\ c \in Session
      /\ run[p] \in Run /\ run \in [Procs -> Run]
  BY CallTypes, ReachedFacts
<1>2. rows \subseteq Effects /\ Cardinality(rows) \in {0, 1}
  BY RowsFacts
<1>3. /\ run[p].i < Stmts /\ run[p].res \in 0..run[p].i /\ run[p].i \in Nat /\ Stmts \in Nat
      /\ l \in {"stmt", "finish"} /\ (l = "stmt" => run[p].i + 1 < Stmts)
  <2>1. run[p].i < Stmts /\ run[p].res \in 0..run[p].i /\ run[p].i \in 0..Stmts
    BY DEF TypesInv, TypeOK, RunOK
  <2> QED
    BY <2>1, NumbersAssumption DEF LastStmt
<1>4. /\ d \in Session /\ d.up = c.up /\ d.ac = c.ac /\ d.lib = c.lib /\ d.flag = c.flag
      /\ d.sp = c.sp
      /\ c.ac => d = c
      /\ ~c.ac => d.pending = c.pending \cup rows /\ d.intrans
  <2> HIDE DEF c
  <2> QED
    BY <1>1, <1>2 DEF Session
<1>5. /\ r.at = l /\ r.s = s /\ r.trans = run[p].trans /\ r.i = run[p].i + 1
      /\ r.res = run[p].res + Cardinality(rows) /\ r.done = run[p].done \cup rows
      /\ r.lost = run[p].lost /\ r.savepoint = run[p].savepoint
  <2> HIDE DEF l
  <2> QED
    BY <1>1 DEF Run
<1>6. r \in Run
  <2>1. run[p].i + 1 \in 0..Stmts /\ run[p].res + Cardinality(rows) \in -3..Stmts /\ l \in Labels
    BY <1>2, <1>3 DEF Labels
  <2> HIDE DEF l
  <2> QED
    BY <1>1, <1>2, <2>1 DEF Run
<1>7. run' = [run EXCEPT ![p] = r] /\ sess' = [sess EXCEPT ![s] = d]
  <2>1. sess' = [sess EXCEPT ![s] = d]
    BY Zenon DEF Executed
  <2>2. run' = [run EXCEPT ![p] = r]
    BY DEF Executed
  <2> QED
    BY <2>1, <2>2
<1>8. r.res \in 0..r.i
  BY <1>2, <1>3, <1>5
<1> HIDE DEF r, d
<1>9. /\ run' \in [Procs -> Run] /\ run'[p] = r
      /\ \A q \in Procs : q # p => run'[q] = run[q]
  BY <1>1, <1>6, <1>7, RunSet
<1>10. /\ sess' \in [Sessions -> Session] /\ sess'[s] = d
       /\ \A t \in Sessions : t # s => sess'[t] = sess[t]
  BY <1>1, <1>4, <1>7, SessSet
<1>11. r.at \in {"stmt", "finish"} /\ (r.at = "stmt" => r.i < Stmts)
  BY <1>3, <1>5
<1> QED
  BY <1>4, <1>5, <1>8, <1>9, <1>10, <1>11

LEMMA ExecuteUpdateCases ==
  ASSUME NEW p \in Procs, ExecuteUpdate(p)
  PROVE  /\ run[p].at = "stmt" /\ UNCHANGED <<idle, calls, acked, denied, crashed>>
         /\ \/ \E rows \in {{}, {<<p, calls[p], run[p].i + 1>>}} : Executed(p, rows)
            \/ Raised(p) /\ UNCHANGED db
  BY DEF ExecuteUpdate, Executed, At

LEMMA ExecuteUpdateTypes == ASSUME TypesInv, NEW p \in Procs, ExecuteUpdate(p) PROVE TypesInv'
<1>1. /\ run[p].at = "stmt" /\ UNCHANGED <<idle, calls, acked, denied, crashed>>
  BY ExecuteUpdateCases
<1>2. CASE Raised(p) /\ UNCHANGED db
  BY <1>1, <1>2, RaisedTypes
<1>3. CASE \E rows \in {{}, {<<p, calls[p], run[p].i + 1>>}} : Executed(p, rows)
  <2>1. PICK rows \in {{}, {<<p, calls[p], run[p].i + 1>>}} : Executed(p, rows)
    BY <1>3
  <2>2. db' \subseteq Effects /\ crashed' \in BOOLEAN
    BY <1>1, <2>1, RowsFacts DEF TypesInv, TypeOK, Executed
  <2>3. /\ run' \in [Procs -> Run] /\ sess' \in [Sessions -> Session]
        /\ \A q \in Procs : q # p => run'[q] = run[q]
        /\ run'[p].at \in {"stmt", "finish"} /\ run'[p].s = run[p].s
        /\ run'[p].res \in 0..run'[p].i
        /\ run'[p].at = "stmt" => run'[p].i < Stmts
    BY <1>1, <2>1, ExecutedFacts
  <2> QED
    BY <1>1, <2>2, <2>3, StepTypes
<1> QED
  BY <1>2, <1>3, ExecuteUpdateCases

\* What rollback leaves: nothing open, what was open where it is refused, or
\* what was open but not p's, which is where the answer is -3.
LEMMA RollbackFacts ==
  ASSUME TypesInv, NEW p \in Procs, run[p].at = "finish", Rollback(p)
  PROVE  LET s == run[p].s
             c == Reached(run[p].s)
         IN  /\ run' \in [Procs -> Run] /\ sess' \in [Sessions -> Session]
             /\ \A q \in Procs : q # p => run'[q] = run[q]
             /\ \A t \in Sessions : t # s => sess'[t] = sess[t]
             /\ run'[p].at = "release" /\ run'[p].s = s /\ run'[p].trans = run[p].trans
             /\ run'[p].res \in {-2, -3} /\ run'[p].lost = run[p].lost
             /\ run'[p].savepoint = run[p].savepoint
             /\ sess'[s].lib = sess[s].lib /\ sess'[s].flag = sess[s].flag
             /\ sess[s].up => sess'[s].up /\ sess'[s].ac = sess[s].ac
             /\ \/ sess'[s].pending = {}
                \/ /\ sess'[s].pending = c.pending
                   /\ ~run[p].savepoint \/ sess[s].lib \/ ~c.sp
                \/ sess'[s].pending = c.pending \ MyEff(p)
                \/ sess'[s] = sess[s] /\ "end" \in Faults
             /\ run'[p].res = -3 => /\ run[p].savepoint /\ sess[s].up /\ sess[s].sp
                                    /\ sess'[s].pending = sess[s].pending \ MyEff(p)
<1> DEFINE s == run[p].s
           c == Reached(s)
           null == ~run[p].savepoint /\ ~sess[s].lib
           possible == ~null /\ ~sess[s].lib /\ ~Unreachable(s) /\ c.sp
           raised == IF possible THEN AfterRaise(s)
                                 ELSE {IF Unreachable(s) THEN NoTrans(sess[s]) ELSE c}
           e == [c EXCEPT !.pending = @ \ EffectsOf(p, calls[p])]
<1>1. /\ s \in Sessions /\ sess \in [Sessions -> Session] /\ sess[s] \in Session
      /\ run[p] \in Run /\ run \in [Procs -> Run]
  BY CallTypes
<1>2. /\ c \in Session /\ c.up /\ c.lib = sess[s].lib /\ c.flag = sess[s].flag
      /\ sess[s].up => c = sess[s]
      /\ ~sess[s].up => ~c.sp
  BY <1>1, ReachedFacts
<1>3. /\ e \in Session /\ e.up = c.up /\ e.ac = c.ac /\ e.lib = c.lib /\ e.flag = c.flag
      /\ e.pending = c.pending \ MyEff(p)
  <2> HIDE DEF c
  <2> QED
    BY <1>2 DEF Session, MyEff
<1>4. /\ NoTrans(sess[s]) \in Session /\ NoTrans(sess[s]).pending = {}
      /\ NoTrans(sess[s]).lib = sess[s].lib /\ NoTrans(sess[s]).flag = sess[s].flag
  BY <1>1, NoTransFacts
<1>4a. PICK returned \in BOOLEAN :
        /\ IF returned THEN possible ELSE ~possible \/ "end" \in Faults
        /\ \E d \in IF returned THEN {e} ELSE raised : sess' = [sess EXCEPT ![s] = d]
        /\ run' = [run EXCEPT ![p].at = "release", ![p].res = RollbackResult(returned)]
  BY Zenon DEF Rollback
<1>5. PICK d \in IF returned THEN {e} ELSE raised : sess' = [sess EXCEPT ![s] = d]
  BY <1>4a
<1> DEFINE k == RollbackResult(returned)
           r == [run[p] EXCEPT !.at = "release", !.res = k]
<1>6. /\ d \in Session /\ d.lib = sess[s].lib /\ d.flag = sess[s].flag
      /\ sess[s].up => d.up /\ d.ac = sess[s].ac
      /\ \/ d.pending = {}
         \/ d.pending = c.pending /\ (~run[p].savepoint \/ sess[s].lib \/ ~c.sp)
         \/ d.pending = c.pending \ MyEff(p)
         \/ d = sess[s] /\ "end" \in Faults
      /\ k \in {-2, -3}
      /\ k = -3 => /\ run[p].savepoint /\ sess[s].up /\ sess[s].sp
                   /\ d.pending = sess[s].pending \ MyEff(p)
  <2>1. CASE returned
    <3>1. d = e /\ possible
      BY <1>4a, <1>5, <2>1
    <3>2. k = -3
      BY <2>1 DEF RollbackResult
    <3>3. sess[s].up /\ c = sess[s] /\ run[p].savepoint
      BY <1>2, <3>1
    <3> HIDE DEF c, e, k
    <3> QED
      BY <1>2, <1>3, <3>1, <3>2, <3>3
  <2>2. CASE ~returned /\ ~possible
    <3>1. d = IF Unreachable(s) THEN NoTrans(sess[s]) ELSE c
      BY <1>4a, <1>5, <2>2
    <3>2. k = -2
      BY <2>2 DEF RollbackResult
    <3>3. CASE Unreachable(s)
      <4>1. d = NoTrans(sess[s]) /\ ~sess[s].up
        BY <3>1, <3>3 DEF Unreachable
      <4> HIDE DEF k
      <4> QED
        BY <1>4, <3>2, <4>1
    <3>4. CASE ~Unreachable(s)
      <4>1. d = c /\ (~run[p].savepoint \/ sess[s].lib \/ ~c.sp)
        BY <2>2, <3>1, <3>4
      <4> HIDE DEF c, k
      <4> QED
        BY <1>2, <3>2, <4>1
    <3> QED
      BY <3>3, <3>4
  <2>3. CASE ~returned /\ possible
    <3>1. d \in AfterRaise(s) /\ "end" \in Faults
      BY <1>4a, <1>5, <2>3
    <3>2. k = -2
      BY <2>3 DEF RollbackResult
    <3>3. /\ d \in Session
          /\ d.up = sess[s].up /\ d.ac = sess[s].ac /\ d.lib = sess[s].lib
          /\ d.flag = sess[s].flag
          /\ d = sess[s] \/ d.pending = {}
      BY <1>1, <3>1, RaiseFacts
    <3> HIDE DEF c, k
    <3> QED
      BY <3>1, <3>2, <3>3
  <2> QED
    BY <2>1, <2>2, <2>3
<1>7. run' = [run EXCEPT ![p].at = "release", ![p].res = k] /\ sess' = [sess EXCEPT ![s] = d]
  BY <1>4a, <1>5
<1> HIDE DEF k
<1>8. /\ r \in Run /\ r.at = "release" /\ r.s = s /\ r.trans = run[p].trans
      /\ r.res = k /\ r.lost = run[p].lost /\ r.savepoint = run[p].savepoint
  <2>1. r \in Run
    BY <1>1, <1>6, ResType, ResNumbers DEF Labels
  <2> QED
    BY <1>1, <2>1 DEF Run
<1>9. run' = [run EXCEPT ![p] = r]
  BY <1>7
<1> HIDE DEF r
<1>10. /\ run' \in [Procs -> Run] /\ run'[p] = r
       /\ \A q \in Procs : q # p => run'[q] = run[q]
  BY <1>1, <1>8, <1>9, RunSet
<1>11. /\ sess' \in [Sessions -> Session] /\ sess'[s] = d
       /\ \A t \in Sessions : t # s => sess'[t] = sess[t]
  BY <1>1, <1>6, <1>7, SessSet
<1> QED
  BY <1>6, <1>8, <1>10, <1>11

\* commit succeeds: what is open becomes durable.
Committed(p) ==
  /\ ~Unreachable(run[p].s)
  /\ db' = db \cup Reached(run[p].s).pending
  /\ sess' = [sess EXCEPT ![run[p].s] = NoTrans(Reached(run[p].s))]
  /\ Goto(p, "release")

\* commit raises: the connection is lost, with an unknown outcome.
CommitRaised(p) ==
  /\ db' \in {db, db \cup sess[run[p].s].pending}
  /\ sess' = [sess EXCEPT ![run[p].s] = [NoTrans(@) EXCEPT !.up = FALSE]]
  /\ run' = [run EXCEPT ![p].at = "release", ![p].res = -2, ![p].lost = TRUE]

\* commit is refused: the transaction stays open, or is rolled back.
CommitRefused(p) ==
  /\ "end" \in Faults
  /\ UNCHANGED db
  /\ \E d \in AfterRaise(run[p].s) : sess' = [sess EXCEPT ![run[p].s] = d]
  /\ run' = [run EXCEPT ![p].at = "release", ![p].res = -2]

LEMMA CommittedFacts ==
  ASSUME TypesInv, NEW p \in Procs, run[p].at # "out", Committed(p)
  PROVE  LET s == run[p].s
         IN  /\ run' \in [Procs -> Run] /\ sess' \in [Sessions -> Session]
             /\ \A q \in Procs : q # p => run'[q] = run[q]
             /\ \A t \in Sessions : t # s => sess'[t] = sess[t]
             /\ run'[p].at = "release" /\ run'[p].s = s /\ run'[p].trans = run[p].trans
             /\ run'[p].res = run[p].res /\ run'[p].lost = run[p].lost
             /\ run'[p].done = run[p].done /\ run'[p].savepoint = run[p].savepoint
             /\ sess'[s] = NoTrans(Reached(s)) /\ Reached(s) \in Session
<1> DEFINE s == run[p].s
           r == [run[p] EXCEPT !.at = "release"]
<1>1. /\ s \in Sessions /\ sess \in [Sessions -> Session] /\ Reached(s) \in Session
      /\ run[p] \in Run /\ run \in [Procs -> Run]
  BY CallTypes, ReachedFacts
<1>2. NoTrans(Reached(s)) \in Session
  BY <1>1, NoTransFacts
<1>3. /\ r \in Run /\ r.at = "release" /\ r.s = s /\ r.trans = run[p].trans
      /\ r.res = run[p].res /\ r.lost = run[p].lost
      /\ r.done = run[p].done /\ r.savepoint = run[p].savepoint
  BY <1>1 DEF Run, Labels
<1>4. run' = [run EXCEPT ![p] = r] /\ sess' = [sess EXCEPT ![s] = NoTrans(Reached(s))]
  BY <1>1 DEF Committed, Goto
<1> HIDE DEF r
<1>5. /\ run' \in [Procs -> Run] /\ run'[p] = r
      /\ \A q \in Procs : q # p => run'[q] = run[q]
  BY <1>1, <1>3, <1>4, RunSet
<1>6. /\ sess' \in [Sessions -> Session] /\ sess'[s] = NoTrans(Reached(s))
      /\ \A t \in Sessions : t # s => sess'[t] = sess[t]
  BY <1>1, <1>2, <1>4, SessSet
<1> QED
  BY <1>1, <1>3, <1>5, <1>6

LEMMA CommitRaisedFacts ==
  ASSUME TypesInv, NEW p \in Procs, run[p].at # "out", CommitRaised(p)
  PROVE  LET s == run[p].s
         IN  /\ run' \in [Procs -> Run] /\ sess' \in [Sessions -> Session]
             /\ \A q \in Procs : q # p => run'[q] = run[q]
             /\ \A t \in Sessions : t # s => sess'[t] = sess[t]
             /\ run'[p].at = "release" /\ run'[p].s = s /\ run'[p].trans = run[p].trans
             /\ run'[p].res = -2 /\ run'[p].lost
             /\ sess'[s].pending = {}
             /\ sess'[s].lib = sess[s].lib /\ sess'[s].flag = sess[s].flag
<1> DEFINE s == run[p].s
           n == NoTrans(sess[s])
           d == [n EXCEPT !.up = FALSE]
           r == [run[p] EXCEPT !.at = "release", !.res = -2, !.lost = TRUE]
<1>1. /\ s \in Sessions /\ sess \in [Sessions -> Session] /\ sess[s] \in Session
      /\ run[p] \in Run /\ run \in [Procs -> Run]
  BY CallTypes
<1>2. n \in Session /\ n.pending = {} /\ n.lib = sess[s].lib /\ n.flag = sess[s].flag
  BY <1>1, NoTransFacts
<1>3. d \in Session /\ d.pending = {} /\ d.lib = sess[s].lib /\ d.flag = sess[s].flag
  <2> HIDE DEF n
  <2> QED
    BY <1>2 DEF Session
<1>4. /\ r \in Run /\ r.at = "release" /\ r.s = s /\ r.trans = run[p].trans
      /\ r.res = -2 /\ r.lost
  BY <1>1, ResNumbers DEF Run, Labels
<1>5. run' = [run EXCEPT ![p] = r] /\ sess' = [sess EXCEPT ![s] = d]
  BY <1>1 DEF CommitRaised
<1> HIDE DEF r, d
<1>6. /\ run' \in [Procs -> Run] /\ run'[p] = r
      /\ \A q \in Procs : q # p => run'[q] = run[q]
  BY <1>1, <1>4, <1>5, RunSet
<1>7. /\ sess' \in [Sessions -> Session] /\ sess'[s] = d
      /\ \A t \in Sessions : t # s => sess'[t] = sess[t]
  BY <1>1, <1>3, <1>5, SessSet
<1> QED
  BY <1>3, <1>4, <1>6, <1>7

LEMMA CommitRefusedFacts ==
  ASSUME TypesInv, NEW p \in Procs, run[p].at # "out", CommitRefused(p)
  PROVE  LET s == run[p].s
         IN  /\ run' \in [Procs -> Run] /\ sess' \in [Sessions -> Session]
             /\ \A q \in Procs : q # p => run'[q] = run[q]
             /\ \A t \in Sessions : t # s => sess'[t] = sess[t]
             /\ run'[p].at = "release" /\ run'[p].s = s /\ run'[p].trans = run[p].trans
             /\ run'[p].res = -2 /\ run'[p].lost = run[p].lost
             /\ run'[p].savepoint = run[p].savepoint
             /\ sess'[s].up = sess[s].up /\ sess'[s].ac = sess[s].ac
             /\ sess'[s].lib = sess[s].lib /\ sess'[s].flag = sess[s].flag
             /\ sess'[s] = sess[s] \/ sess'[s].pending = {}
<1> DEFINE s == run[p].s
           r == [run[p] EXCEPT !.at = "release", !.res = -2]
<1>1. /\ s \in Sessions /\ sess \in [Sessions -> Session] /\ sess[s] \in Session
      /\ run[p] \in Run /\ run \in [Procs -> Run]
  BY CallTypes
<1>2. PICK d \in AfterRaise(s) : sess' = [sess EXCEPT ![s] = d]
  BY DEF CommitRefused
<1>3. /\ d \in Session /\ d.up = sess[s].up /\ d.ac = sess[s].ac
      /\ d.lib = sess[s].lib /\ d.flag = sess[s].flag
      /\ d = sess[s] \/ d.pending = {}
  BY <1>1, RaiseFacts
<1>4. /\ r \in Run /\ r.at = "release" /\ r.s = s /\ r.trans = run[p].trans
      /\ r.res = -2 /\ r.lost = run[p].lost /\ r.savepoint = run[p].savepoint
  BY <1>1, ResNumbers DEF Run, Labels
<1>5. run' = [run EXCEPT ![p] = r]
  BY <1>1 DEF CommitRefused
<1> HIDE DEF r
<1>6. /\ run' \in [Procs -> Run] /\ run'[p] = r
      /\ \A q \in Procs : q # p => run'[q] = run[q]
  BY <1>1, <1>4, <1>5, RunSet
<1>7. /\ sess' \in [Sessions -> Session] /\ sess'[s] = d
      /\ \A t \in Sessions : t # s => sess'[t] = sess[t]
  BY <1>1, <1>2, <1>3, SessSet
<1> QED
  BY <1>3, <1>4, <1>6, <1>7

\* Without trans_ctrl nothing is left to be done.
LEMMA GotoFacts ==
  ASSUME TypesInv, NEW p \in Procs, run[p].at # "out", Goto(p, "release")
  PROVE  /\ run' \in [Procs -> Run] /\ \A q \in Procs : q # p => run'[q] = run[q]
         /\ run'[p].at = "release" /\ run'[p].s = run[p].s /\ run'[p].trans = run[p].trans
         /\ run'[p].res = run[p].res /\ run'[p].done = run[p].done
<1> DEFINE r == [run[p] EXCEPT !.at = "release"]
<1>1. run[p] \in Run /\ run \in [Procs -> Run]
  BY CallTypes
<1>2. /\ r \in Run /\ r.at = "release" /\ r.s = run[p].s /\ r.trans = run[p].trans
      /\ r.res = run[p].res /\ r.done = run[p].done
  BY <1>1 DEF Run, Labels
<1>3. run' = [run EXCEPT ![p] = r]
  BY <1>1 DEF Goto
<1> HIDE DEF r
<1> QED
  BY <1>1, <1>2, <1>3, RunSet

LEMMA FinishCases ==
  ASSUME NEW p \in Procs, Finish(p)
  PROVE  /\ run[p].at = "finish" /\ UNCHANGED <<idle, calls, acked, denied>>
         /\ \/ run[p].trans /\ Rollback(p)
            \/ run[p].trans /\ ~MustRollback(run[p]) /\ UNCHANGED crashed
               /\ (Committed(p) \/ CommitRaised(p) \/ CommitRefused(p))
            \/ ~run[p].trans /\ Goto(p, "release") /\ UNCHANGED <<db, sess, crashed>>
<1>1. Commit(p) => /\ ~MustRollback(run[p]) /\ UNCHANGED crashed
                   /\ Committed(p) \/ CommitRaised(p) \/ CommitRefused(p)
  BY Zenon DEF Commit, Committed, CommitRaised, CommitRefused
<1> QED
  BY <1>1 DEF Finish, At

LEMMA FinishTypes == ASSUME TypesInv, NEW p \in Procs, Finish(p) PROVE TypesInv'
<1>1. run[p].at = "finish" /\ UNCHANGED <<idle, calls, acked, denied>>
  BY FinishCases
<1>2. db \subseteq Effects /\ crashed \in BOOLEAN /\ sess \in [Sessions -> Session]
  BY DEF TypesInv, TypeOK
<1>3. CASE Rollback(p)
  <2>1. db' \subseteq Effects /\ crashed' \in BOOLEAN
    BY <1>2, <1>3 DEF Rollback
  <2> QED
    BY <1>1, <1>3, <2>1, RollbackFacts, StepTypes
<1>4. CASE Committed(p) /\ UNCHANGED crashed
  <2>1. db' \subseteq Effects /\ crashed' \in BOOLEAN
    BY <1>1, <1>2, <1>4, CommittedFacts DEF Committed, Session
  <2> QED
    BY <1>1, <1>4, <2>1, CommittedFacts, StepTypes
<1>5. CASE CommitRaised(p) /\ UNCHANGED crashed
  <2>1. db' \subseteq Effects /\ crashed' \in BOOLEAN
    BY <1>1, <1>2, <1>5, CallTypes DEF CommitRaised, Session
  <2> QED
    BY <1>1, <1>5, <2>1, CommitRaisedFacts, StepTypes
<1>6. CASE CommitRefused(p) /\ UNCHANGED crashed
  <2>1. db' \subseteq Effects /\ crashed' \in BOOLEAN
    BY <1>2, <1>6 DEF CommitRefused
  <2> QED
    BY <1>1, <1>6, <2>1, CommitRefusedFacts, StepTypes
<1>7. CASE Goto(p, "release") /\ UNCHANGED <<db, sess, crashed>>
  BY <1>1, <1>2, <1>7, GotoFacts, StepTypes
<1> QED
  BY <1>3, <1>4, <1>5, <1>6, <1>7, FinishCases

LEMMA RestoreFacts ==
  ASSUME NEW s \in Sessions, sess \in [Sessions -> Session], Restore(s)
  PROVE  /\ sess' \in [Sessions -> Session] /\ \A t \in Sessions : t # s => sess'[t] = sess[t]
         /\ \/ sess[s].flag /\ sess'[s] = sess[s] /\ db' = db
            \/ db' = db \cup Reached(s).pending /\ sess'[s] = Opened
            \/ /\ "setac" \in Faults \/ Unreachable(s)
               /\ sess'[s] \in AfterRaise(s) /\ db' = db
<1>1. CASE sess[s].flag /\ UNCHANGED <<sess, db>>
  BY <1>1
<1>2. CASE db' = db \cup Reached(s).pending /\ sess' = [sess EXCEPT ![s] = Opened]
  BY <1>2, OpenedFacts
<1>3. CASE /\ "setac" \in Faults \/ Unreachable(s)
           /\ \E c \in AfterRaise(s) : sess' = [sess EXCEPT ![s] = c]
           /\ UNCHANGED db
  <2>1. PICK c \in AfterRaise(s) : sess' = [sess EXCEPT ![s] = c]
    BY <1>3
  <2>2. c \in Session
    BY RaiseFacts
  <2> QED
    BY <1>3, <2>1, <2>2
<1> QED
  BY <1>1, <1>2, <1>3 DEF Restore

LEMMA ReleaseTypes == ASSUME TypesInv, NEW p \in Procs, ReleaseConnection(p) PROVE TypesInv'
<1> DEFINE s == run[p].s
<1>1. /\ run[p].at = "release" /\ Restore(s) /\ idle' = idle \cup {s}
      /\ run' = [run EXCEPT ![p] = NoRun] /\ UNCHANGED <<calls, crashed>>
  BY DEF ReleaseConnection, At
<1>2. /\ s \in Sessions \ idle /\ sess \in [Sessions -> Session] /\ sess[s] \in Session
      /\ run[p] \in Run /\ run \in [Procs -> Run] /\ db \subseteq Effects
  BY <1>1, CallTypes
<1>3. /\ run' \in [Procs -> Run] /\ run'[p] = NoRun
      /\ \A q \in Procs : q # p => run'[q] = run[q]
  BY <1>1, <1>2, NoRunType, RunSet
<1>4. /\ sess' \in [Sessions -> Session]
  BY <1>1, <1>2, RestoreFacts
<1>5. db' \subseteq Effects
  <2>1. Reached(s).pending \subseteq Effects
    BY <1>2, ReachedFacts DEF Session
  <2> QED
    BY <1>1, <1>2, <2>1, RestoreFacts
<1>6. acked' \cup denied' \subseteq Effects
  <2>1. run[p].done \subseteq Effects /\ EffectsOf(p, calls[p]) \subseteq Effects
    BY <1>2, EffectsOfType DEF Run
  <2> QED
    BY <2>1 DEF ReleaseConnection, Returns, TypesInv, TypeOK
<1>7. TypeOK'
  <2>1. \A q \in Procs : run'[q].res \in -3..Stmts /\ run'[q].i \in 0..Stmts
    BY <1>3 DEF Run
  <2>2. idle' \subseteq Sessions /\ calls' \in [Procs -> 0..MaxCalls] /\ crashed' \in BOOLEAN
    BY <1>1, <1>2 DEF TypesInv, TypeOK
  <2> QED
    BY <1>4, <1>5, <1>6, <2>1, <2>2 DEF TypeOK
<1>8. \A q \in Procs : RunOK(q)'
  BY <1>1, <1>2, <1>3, NoRunType DEF TypesInv, RunOK
<1> QED
  BY <1>3, <1>7, <1>8 DEF TypesInv

\* GetConnection lends s; ok says whether setAutoCommit is done.
Lent(p, trans, affect, s, ok) ==
  /\ idle' = idle \ {s}
  /\ LET c == Reached(s)
     IN  sess' = [sess EXCEPT ![s] =
            IF trans THEN [c EXCEPT !.flag = FALSE, !.ac = @ /\ ~ok, !.lib = @ /\ ~ok] ELSE c]
  /\ run' = [run EXCEPT ![p] =
               [NoRun EXCEPT !.at = IF trans THEN "savepoint" ELSE "stmt",
                             !.s = s, !.trans = trans, !.affect = affect]]
  /\ UNCHANGED <<acked, denied>>

\* GetConnection finds no session, or replaces one that cannot be reconnected.
Refused(p, trans) ==
  /\ \/ idle = {} /\ UNCHANGED sess
     \/ \E s \in idle : ~sess[s].up /\ sess' = [sess EXCEPT ![s] = Opened]
  /\ Returns(p, calls[p] + 1, [NoRun EXCEPT !.trans = trans, !.res = -1])
  /\ UNCHANGED <<idle, run>>

LEMMA GetCases ==
  ASSUME TypesInv, NEW p \in Procs, NEW trans, NEW affect, GetConnection(p, trans, affect)
  PROVE  /\ run[p].at = "out" /\ UNCHANGED <<db, crashed>>
         /\ calls' \in [Procs -> 0..MaxCalls] /\ calls'[p] = calls[p] + 1
         /\ \A q \in Procs : q # p => calls'[q] = calls[q]
         /\ calls[p] + 1 \in 1..MaxCalls
         /\ \/ \E s \in idle, ok \in IF "setac" \in Faults THEN BOOLEAN ELSE {TRUE} :
                 Lent(p, trans, affect, s, ok)
            \/ Refused(p, trans)
<1>1. calls \in [Procs -> 0..MaxCalls] /\ calls[p] < MaxCalls
  <2>1. calls \in [Procs -> 0..MaxCalls]
    BY DEF TypesInv, TypeOK
  <2>2. calls[p] < MaxCalls
    BY Zenon DEF GetConnection
  <2> QED
    BY <2>1, <2>2
<1>2. calls' = [calls EXCEPT ![p] = @ + 1] /\ run[p].at = "out" /\ UNCHANGED <<db, crashed>>
  BY DEF GetConnection, At
<1>3. /\ calls' \in [Procs -> 0..MaxCalls] /\ calls'[p] = calls[p] + 1
      /\ \A q \in Procs : q # p => calls'[q] = calls[q]
      /\ calls[p] + 1 \in 1..MaxCalls
  BY <1>1, <1>2, NumbersAssumption
<1>4. \/ \E s \in idle, ok \in IF "setac" \in Faults THEN BOOLEAN ELSE {TRUE} :
           Lent(p, trans, affect, s, ok)
      \/ Refused(p, trans)
  BY Zenon DEF GetConnection, Lent, Refused
<1> QED
  BY <1>2, <1>3, <1>4

LEMMA LentFacts ==
  ASSUME TypesInv, NEW p \in Procs, NEW trans \in BOOLEAN, NEW affect \in {-1, Stmts},
         NEW s \in idle, NEW ok \in BOOLEAN, Lent(p, trans, affect, s, ok)
  PROVE  LET c == Reached(s)
         IN  /\ s \in Sessions
             /\ run' \in [Procs -> Run] /\ sess' \in [Sessions -> Session]
             /\ \A q \in Procs : q # p => run'[q] = run[q]
             /\ \A t \in Sessions : t # s => sess'[t] = sess[t]
             /\ trans => run'[p].at = "savepoint"
             /\ ~trans => run'[p].at = "stmt"
             /\ run'[p].s = s /\ run'[p].trans = trans /\ run'[p].i = 0 /\ run'[p].res = 0
             /\ ~run'[p].savepoint /\ run'[p].done = {} /\ ~run'[p].lost
             /\ sess'[s].up /\ sess'[s].intrans = c.intrans /\ sess'[s].pending = c.pending
             /\ trans => ~sess'[s].flag /\ (ok => ~sess'[s].ac /\ ~sess'[s].lib)
             /\ ~trans => sess'[s] = c
<1> DEFINE c == Reached(s)
           d == IF trans THEN [c EXCEPT !.flag = FALSE, !.ac = @ /\ ~ok, !.lib = @ /\ ~ok] ELSE c
           l == IF trans THEN "savepoint" ELSE "stmt"
           r == [NoRun EXCEPT !.at = l, !.s = s, !.trans = trans, !.affect = affect]
<1>1. /\ s \in Sessions /\ sess \in [Sessions -> Session] /\ run \in [Procs -> Run]
      /\ c \in Session /\ c.up
  BY ReachedFacts DEF TypesInv, TypeOK
<1>2. /\ d \in Session /\ d.up /\ d.intrans = c.intrans /\ d.pending = c.pending
      /\ trans => ~d.flag /\ (ok => ~d.ac /\ ~d.lib)
      /\ ~trans => d = c
  <2> HIDE DEF c
  <2>1. CASE ~trans
    BY <1>1, <2>1
  <2>2. CASE trans
    BY <1>1, <2>2 DEF Session
  <2> QED
    BY <2>1, <2>2
<1>3. /\ r \in Run /\ r.at = l /\ r.s = s /\ r.trans = trans /\ r.i = 0 /\ r.res = 0
      /\ ~r.savepoint /\ r.done = {} /\ ~r.lost
  <2>1. l \in Labels
    BY DEF Labels
  <2>2. \A n \in Run :
          LET m == [n EXCEPT !.at = l, !.s = s, !.trans = trans, !.affect = affect]
          IN  /\ m \in Run /\ m.at = l /\ m.s = s /\ m.trans = trans /\ m.i = n.i /\ m.res = n.res
              /\ m.savepoint = n.savepoint /\ m.done = n.done /\ m.lost = n.lost
    <3> HIDE DEF l
    <3> QED
      BY <1>1, <2>1 DEF Run
  <2> QED
    BY <2>2, NoRunType, Zenon
<1>4. run' = [run EXCEPT ![p] = r] /\ sess' = [sess EXCEPT ![s] = d]
  BY Zenon DEF Lent
<1> HIDE DEF r, d, l
<1>5. /\ run' \in [Procs -> Run] /\ run'[p] = r
      /\ \A q \in Procs : q # p => run'[q] = run[q]
  BY <1>1, <1>3, <1>4, RunSet
<1>6. /\ sess' \in [Sessions -> Session] /\ sess'[s] = d
      /\ \A t \in Sessions : t # s => sess'[t] = sess[t]
  BY <1>1, <1>2, <1>4, SessSet
<1>7. (trans => run'[p].at = "savepoint") /\ (~trans => run'[p].at = "stmt")
  BY <1>3, <1>5 DEF l
<1> QED
  BY <1>1, <1>2, <1>3, <1>5, <1>6, <1>7

\* A call that gets no session is over.
LEMMA RefusedFacts ==
  ASSUME TypesInv, NEW p \in Procs, NEW trans \in BOOLEAN, Refused(p, trans)
  PROVE  /\ UNCHANGED <<idle, run, acked, denied>>
         /\ sess' \in [Sessions -> Session]
         /\ \A t \in Sessions : sess'[t] = sess[t] \/ (t \in idle /\ sess'[t] = Opened)
<1>1. sess \in [Sessions -> Session] /\ idle \subseteq Sessions
  BY DEF TypesInv, TypeOK
<1>2. /\ sess' \in [Sessions -> Session]
      /\ \A t \in Sessions : sess'[t] = sess[t] \/ (t \in idle /\ sess'[t] = Opened)
  BY <1>1, OpenedFacts DEF Refused
<1>3. [NoRun EXCEPT !.trans = trans, !.res = -1].res = -1
  BY DEF NoRun
<1> QED
  BY <1>2, <1>3 DEF Refused, Returns

LEMMA GetTypes ==
  ASSUME TypesInv, NEW p \in Procs, NEW trans \in BOOLEAN, NEW affect \in {-1, Stmts},
         GetConnection(p, trans, affect)
  PROVE  TypesInv'
<1>1. /\ run[p].at = "out" /\ UNCHANGED <<db, crashed>>
      /\ calls' \in [Procs -> 0..MaxCalls] /\ calls'[p] \in 1..MaxCalls
      /\ \A q \in Procs : q # p => calls'[q] = calls[q]
  BY GetCases
<1>2. CASE \E s \in idle, ok \in BOOLEAN : Lent(p, trans, affect, s, ok)
  <2>1. PICK s \in idle, ok \in BOOLEAN : Lent(p, trans, affect, s, ok)
    BY <1>2
  <2>2. /\ s \in Sessions /\ run' \in [Procs -> Run] /\ sess' \in [Sessions -> Session]
        /\ \A q \in Procs : q # p => run'[q] = run[q]
        /\ run'[p].s = s /\ run'[p].i = 0 /\ run'[p].res = 0
    BY <2>1, LentFacts
  <2>3. idle' = idle \ {s} /\ UNCHANGED <<acked, denied>>
    BY <2>1 DEF Lent
  <2>4. TypeOK'
    <3>1. \A q \in Procs : run'[q].res \in -3..Stmts /\ run'[q].i \in 0..Stmts
      BY <2>2 DEF Run
    <3> QED
      BY <1>1, <2>2, <2>3, <3>1 DEF TypesInv, TypeOK
  <2>5. \A q \in Procs : RunOK(q)'
    <3>1. 0 < Stmts /\ 0 \in 0..0
      BY NumbersAssumption
    <3>2. RunOK(p)'
      BY <1>1, <2>2, <2>3, <3>1 DEF TypesInv, RunOK
    <3>3. ASSUME NEW q \in Procs, q # p PROVE RunOK(q)'
      BY <1>1, <2>2, <2>3, <3>3 DEF TypesInv, RunOK
    <3> QED
      BY <3>2, <3>3
  <2> QED
    BY <2>2, <2>4, <2>5 DEF TypesInv
<1>3. CASE Refused(p, trans)
  <2>1. TypeOK'
    BY <1>1, <1>3, RefusedFacts, EffectsOfType DEF TypesInv, TypeOK
  <2>2. \A q \in Procs : RunOK(q)'
    BY <1>1, <1>3, RefusedFacts DEF TypesInv, RunOK
  <2>3. run' \in [Procs -> Run]
    BY <1>3, RefusedFacts DEF TypesInv
  <2> QED
    BY <2>1, <2>2, <2>3 DEF TypesInv
<1> QED
  BY <1>2, <1>3, GetCases

\* A lost connection: its session is down with nothing open, and the call that
\* has it knows.
LEMMA DropFacts ==
  ASSUME TypesInv, NEW s \in Sessions, Drop(s)
  PROVE  /\ run' \in [Procs -> Run] /\ sess' \in [Sessions -> Session]
         /\ \A t \in Sessions : t # s => sess'[t] = sess[t]
         /\ ~sess'[s].up /\ sess'[s].pending = {} /\ sess'[s].intrans = sess[s].intrans
         /\ sess'[s].lib = sess[s].lib /\ sess'[s].flag = sess[s].flag /\ sess[s].up
         /\ \A p \in Procs :
              /\ run'[p].at = run[p].at /\ run'[p].s = run[p].s /\ run'[p].trans = run[p].trans
              /\ run'[p].i = run[p].i /\ run'[p].res = run[p].res /\ run'[p].done = run[p].done
              /\ run'[p].savepoint = run[p].savepoint
              /\ run'[p].lost <=> run[p].lost \/ (s \notin idle /\ run[p].s = s)
         /\ UNCHANGED <<db, idle, calls, acked, denied, crashed>>
<1>1. sess \in [Sessions -> Session] /\ run \in [Procs -> Run]
  BY DEF TypesInv, TypeOK
<1>2. /\ sess[s].up /\ sess' = [sess EXCEPT ![s].up = FALSE, ![s].pending = {}]
      /\ run' = [p \in Procs |-> [run[p] EXCEPT !.lost = @ \/ (s \notin idle /\ run[p].s = s)]]
      /\ UNCHANGED <<db, idle, calls, acked, denied, crashed>>
  BY DEF Drop
<1> DEFINE d == [sess[s] EXCEPT !.up = FALSE, !.pending = {}]
<1>3. /\ d \in Session /\ ~d.up /\ d.pending = {} /\ d.intrans = sess[s].intrans
      /\ d.lib = sess[s].lib /\ d.flag = sess[s].flag
  BY <1>1 DEF Session
<1>4. sess' = [sess EXCEPT ![s] = d]
  BY <1>1, <1>2
<1> HIDE DEF d
<1>5. /\ sess' \in [Sessions -> Session] /\ sess'[s] = d
      /\ \A t \in Sessions : t # s => sess'[t] = sess[t]
  BY <1>1, <1>3, <1>4, SessSet
<1>6. ASSUME NEW r \in Run, NEW b \in BOOLEAN
      PROVE  LET m == [r EXCEPT !.lost = b]
             IN  /\ m \in Run /\ m.at = r.at /\ m.s = r.s /\ m.trans = r.trans /\ m.i = r.i
                 /\ m.res = r.res /\ m.done = r.done /\ m.savepoint = r.savepoint /\ m.lost = b
  BY DEF Run
<1>7. ASSUME NEW p \in Procs
      PROVE  /\ run'[p] \in Run
             /\ run'[p].at = run[p].at /\ run'[p].s = run[p].s /\ run'[p].trans = run[p].trans
             /\ run'[p].i = run[p].i /\ run'[p].res = run[p].res /\ run'[p].done = run[p].done
             /\ run'[p].savepoint = run[p].savepoint
             /\ run'[p].lost <=> run[p].lost \/ (s \notin idle /\ run[p].s = s)
  <2>1. PICK b \in BOOLEAN : b = (run[p].lost \/ (s \notin idle /\ run[p].s = s))
    OBVIOUS
  <2>2. run'[p] = [run[p] EXCEPT !.lost = b]
    BY <1>2, <2>1
  <2>3. run[p] \in Run
    BY <1>1
  <2> DEFINE m == [run[p] EXCEPT !.lost = b]
  <2>4. /\ m \in Run /\ m.at = run[p].at /\ m.s = run[p].s /\ m.trans = run[p].trans
        /\ m.i = run[p].i /\ m.res = run[p].res /\ m.done = run[p].done
        /\ m.savepoint = run[p].savepoint /\ m.lost = b
    BY <1>6, <2>3
  <2>5. run'[p] = m
    BY <2>2
  <2> HIDE DEF m
  <2> QED
    BY <2>1, <2>4, <2>5, Zenon
<1>8. run' \in [Procs -> Run]
  BY <1>2, <1>7
<1> QED
  BY <1>2, <1>3, <1>5, <1>7, <1>8

LEMMA DropTypes == ASSUME TypesInv, NEW s \in Sessions, Drop(s) PROVE TypesInv'
<1>1. TypeOK'
  BY DropFacts DEF TypesInv, TypeOK
<1>2. \A p \in Procs : RunOK(p)'
  BY DropFacts DEF TypesInv, RunOK
<1> QED
  BY <1>1, <1>2, DropFacts DEF TypesInv

LEMMA InitTypes == Init => TypesInv
<1> SUFFICES ASSUME Init PROVE TypesInv
  OBVIOUS
<1>1. run \in [Procs -> Run] /\ \A p \in Procs : run[p] = NoRun
  BY NoRunType DEF Init
<1>2. \A p \in Procs : RunOK(p)
  BY <1>1, NoRunType DEF RunOK
<1>3. TypeOK
  <2>1. sess \in [Sessions -> Session]
    BY OpenedFacts DEF Init
  <2>2. \A p \in Procs : run[p].res \in -3..Stmts /\ run[p].i \in 0..Stmts
    BY <1>1 DEF Run
  <2>3. calls \in [Procs -> 0..MaxCalls]
    BY NumbersAssumption DEF Init
  <2>4. crashed \in BOOLEAN
    BY Zenon DEF Init
  <2>5. db \subseteq Effects /\ idle \subseteq Sessions /\ acked \cup denied \subseteq Effects
    BY DEF Init
  <2> QED
    BY <2>1, <2>2, <2>3, <2>4, <2>5, Zenon DEF TypeOK
<1> QED
  BY <1>1, <1>2, <1>3 DEF TypesInv

\* The steps of Next.
LEMMA NextCases ==
  ASSUME [Next]_vars
  PROVE  \/ \E s \in Sessions : Drop(s)
         \/ \E p \in Procs, trans \in BOOLEAN, affect \in {-1, Stmts} :
              GetConnection(p, trans, affect)
         \/ \E p \in Procs : SetSavepoint(p) \/ ExecuteUpdate(p) \/ Finish(p)
                             \/ ReleaseConnection(p)
         \/ UNCHANGED vars
<1>1. ASSUME NEW p \in Procs, \/ GetConnection(p, FALSE, -1)
                              \/ \E affect \in {-1, Stmts} : GetConnection(p, TRUE, affect)
      PROVE  \E trans \in BOOLEAN, affect \in {-1, Stmts} : GetConnection(p, trans, affect)
  BY <1>1, Zenon
<1> QED
  BY <1>1, Zenon DEF Next, ExecuteUpdates

LEMMA NextTypes == TypesInv /\ [Next]_vars => TypesInv'
<1> SUFFICES ASSUME TypesInv, [Next]_vars PROVE TypesInv'
  OBVIOUS
<1>1. CASE UNCHANGED vars
  BY <1>1 DEF vars, TypesInv, TypeOK, RunOK
<1> QED
  BY <1>1, NextCases, DropTypes, GetTypes, SetSavepointTypes, ExecuteUpdateTypes, FinishTypes,
     ReleaseTypes

\* The invariant of the types holds whatever may fail.
THEOREM TypesInvariance == Spec => []TypesInv
  BY InitTypes, NextTypes, PTL DEF Spec

\* The types of the sessions and of ExecuteUpdates' locals: the sum of the rows
\* never exceeds the number of statements, whatever fails.
THEOREM TypeCorrect == Spec => []TypeOK
<1>1. TypesInv => TypeOK
  BY DEF TypesInv
<1> QED
  BY <1>1, TypesInvariance, PTL

-----------------------------------------------------------------------------
(* Safety, where setAutoCommit is not refused *)

\* A call that the step does not touch.
LEMMA OtherCall ==
  ASSUME NEW q \in Procs, CallOK(q), run'[q] = run[q], calls'[q] = calls[q],
         run[q].at # "out" => sess'[run[q].s] = sess[run[q].s],
         db \subseteq db', (db' \ db) \cap MyEff(q) = {}
  PROVE  CallOK(q)'
<1> SUFFICES ASSUME run[q].at # "out" PROVE CallOK(q)'
  BY DEF CallOK
<1>1. Mine(q)' = Mine(q) /\ MyEff(q)' = MyEff(q)
  BY DEF Mine, MyEff
<1>2. OpenOK(q) => OpenOK(q)'
  BY <1>1 DEF OpenOK, At
<1>3. KeptOK(q) => KeptOK(q)'
  BY <1>1 DEF KeptOK, At
<1>4. Clean(Mine(q)) => Clean(Mine(q))'
  BY <1>1 DEF Clean
<1>5. DoneOK(q) => DoneOK(q)'
  BY <1>1 DEF DoneOK, At
<1> QED
  BY <1>2, <1>3, <1>4, <1>5 DEF CallOK

LEMMA EffectsApart ==
  ASSUME NEW p \in Procs, NEW e \in MyEff(p)
  PROVE  e[1] = p /\ e[2] = calls[p] /\ \A q \in Procs : q # p => e \notin MyEff(q)
  BY DEF MyEff, EffectsOf

\* A step within p's call that adds to the database effects of that call only.
LEMMA CallStep ==
  ASSUME TypesInv, SafeInv, NEW p \in Procs, run[p].at # "out",
         \A q \in Procs : q # p => run'[q] = run[q],
         \A t \in Sessions : t # run[p].s => sess'[t] = sess[t],
         UNCHANGED <<idle, calls, acked, denied>>,
         db \subseteq db', db' \ db \subseteq MyEff(p), CallOK(p)'
  PROVE  SafeInv'
<1>1. \A s \in idle' : Clean(sess[s])'
  <2>1. \A s \in idle : s \in Sessions /\ s # run[p].s
    BY DEF TypesInv, TypeOK, RunOK
  <2>2. \A s \in idle : sess'[s] = sess[s]
    BY <2>1
  <2> QED
    BY <2>2 DEF SafeInv, Clean
<1>2. \A q \in Procs : CallOK(q)'
  <2>1. ASSUME NEW q \in Procs, q # p PROVE CallOK(q)'
    <3>1. run[q].at # "out" => sess'[run[q].s] = sess[run[q].s]
      BY <2>1 DEF TypesInv, RunOK
    <3>2. (db' \ db) \cap MyEff(q) = {}
      BY <2>1, EffectsApart
    <3>3. CallOK(q) /\ run'[q] = run[q] /\ calls'[q] = calls[q]
      BY <2>1 DEF SafeInv
    <3> QED
      BY <3>1, <3>2, <3>3, OtherCall
  <2> QED
    BY <2>1
<1>3. \A e \in db' \ db : e[1] = p /\ e[2] = calls[p]
  BY EffectsApart
<1>4. calls[p] \in Int
  BY CallTypes
<1>5. History'
  BY <1>3, <1>4 DEF SafeInv, History
<1>6. SuccessIsDurable'
  BY DEF SafeInv, SuccessIsDurable
<1> QED
  BY <1>1, <1>2, <1>5, <1>6 DEF SafeInv

\* The call of p, as SafeInv has it.
LEMMA CallSafe ==
  ASSUME TypesInv, SafeInv, NEW p \in Procs, run[p].at # "out"
  PROVE  /\ IF run[p].trans THEN OpenOK(p) /\ KeptOK(p) ELSE Clean(Mine(p))
         /\ DoneOK(p) /\ Mine(p) \in Session /\ run[p].trans \in BOOLEAN
<1>1. CallOK(p)
  BY DEF SafeInv
<1>2. run[p] \in Run /\ sess[run[p].s] \in Session
  BY CallTypes
<1> QED
  BY <1>1, <1>2 DEF CallOK, Mine, Run

\* A SQLException leaves what is open to the savepoint, or nothing.
LEMMA RaisedSafe ==
  ASSUME TypesInv, SafeInv, NEW p \in Procs, run[p].at \in {"savepoint", "stmt"}, Raised(p),
         UNCHANGED <<db, idle, calls, acked, denied>>
  PROVE  SafeInv'
<1> DEFINE s == run[p].s
<1>1. /\ IF run[p].trans THEN OpenOK(p) /\ KeptOK(p) ELSE Clean(Mine(p))
      /\ DoneOK(p) /\ Mine(p) \in Session
  BY CallSafe
<1>2. /\ run'[p].at = "finish" /\ run'[p].res = -2 /\ run'[p].s = s
      /\ run'[p].trans = run[p].trans /\ run'[p].savepoint = run[p].savepoint
      /\ run'[p].lost = run[p].lost /\ sess'[s] \in AfterRaise(s)
      /\ \A q \in Procs : q # p => run'[q] = run[q]
      /\ \A t \in Sessions : t # s => sess'[t] = sess[t]
  BY RaisedFacts
<1>3. Mine(p)' = sess'[s] /\ Mine(p) = sess[s] /\ MyEff(p)' = MyEff(p)
  BY <1>2 DEF Mine, MyEff
<1>4. s \in Sessions
  BY CallTypes
<1>5. /\ Mine(p)'.up = Mine(p).up /\ Mine(p)'.ac = Mine(p).ac
      /\ Mine(p)'.lib = Mine(p).lib /\ Mine(p)'.flag = Mine(p).flag
      /\ Mine(p)' = Mine(p) \/ (~Mine(p)'.intrans /\ ~Mine(p)'.sp /\ Mine(p)'.pending = {})
  BY <1>1, <1>2, <1>3, <1>4, RaiseFacts
<1>6. OpenOK(p) => OpenOK(p)'
  BY <1>2, <1>3, <1>5 DEF OpenOK, At
<1>7. KeptOK(p) => KeptOK(p)'
  BY <1>2, <1>3, <1>5 DEF KeptOK, At
<1>8. Clean(Mine(p)) => Clean(Mine(p))'
  BY <1>2, <1>5 DEF Clean
<1>9. DoneOK(p)'
  BY <1>2 DEF DoneOK, At
<1>10. CallOK(p)'
  BY <1>1, <1>2, <1>6, <1>7, <1>8, <1>9 DEF CallOK
<1> QED
  BY <1>2, <1>10, CallStep

\* The session a command of p's call has reached: the one p has, or a new one
\* in autocommit mode, which only a call that has lost its own can get.
LEMMA ReachedSafe ==
  ASSUME TypesInv, SafeInv, NEW p \in Procs, run[p].at # "out"
  PROVE  LET c == Reached(run[p].s)
         IN  /\ c \in Session /\ c.up /\ c.lib = Mine(p).lib /\ c.flag = Mine(p).flag
             /\ Mine(p).up => c = Mine(p)
             /\ ~Mine(p).up => c.ac /\ ~c.intrans /\ ~c.sp /\ c.pending = {}
             /\ ~run[p].trans => Clean(c) /\ c.ac
  BY CallTypes, CallSafe, ReachedFacts DEF Mine, Clean

LEMMA SetSavepointSafe ==
  ASSUME TypesInv, SafeInv, NEW p \in Procs, SetSavepoint(p)
  PROVE  SafeInv'
<1> DEFINE s == run[p].s
           c == Reached(s)
<1>1. /\ run[p].at = "savepoint" /\ UNCHANGED <<db, idle, calls, acked, denied, crashed>>
      /\ SavepointSet(p) \/ Raised(p)
  BY DEF SetSavepoint, SavepointSet, At
<1>2. CASE Raised(p)
  BY <1>1, <1>2, RaisedSafe
<1>3. CASE SavepointSet(p)
  <2>1. /\ \A q \in Procs : q # p => run'[q] = run[q]
        /\ \A t \in Sessions : t # s => sess'[t] = sess[t]
        /\ run'[p].at = "stmt" /\ run'[p].s = s /\ run'[p].trans = run[p].trans
        /\ run'[p].res = run[p].res /\ run'[p].savepoint
        /\ run'[p].done = run[p].done /\ run'[p].lost = run[p].lost
        /\ sess'[s].up = c.up /\ sess'[s].ac = c.ac /\ sess'[s].lib = c.lib
        /\ sess'[s].flag = c.flag /\ sess'[s].intrans = c.intrans
        /\ sess'[s].pending = c.pending /\ (sess'[s].sp <=> ~c.ac)
    BY <1>1, <1>3, SavepointFacts
  <2>2. Mine(p)' = sess'[s] /\ MyEff(p)' = MyEff(p)
    BY <1>1, <2>1 DEF Mine, MyEff
  <2>3. /\ IF run[p].trans THEN OpenOK(p) /\ KeptOK(p) ELSE Clean(Mine(p))
        /\ DoneOK(p)
    BY <1>1, CallSafe
  <2>4. /\ c.up /\ c.lib = Mine(p).lib /\ c.flag = Mine(p).flag
        /\ Mine(p).up => c = Mine(p)
        /\ ~Mine(p).up => c.ac /\ ~c.intrans /\ ~c.sp /\ c.pending = {}
        /\ ~run[p].trans => Clean(c) /\ c.ac
    BY <1>1, ReachedSafe
  <2> HIDE DEF c
  <2>5. OpenOK(p) => c.pending = {}
    BY <1>1, <2>4 DEF OpenOK, At
  <2>6. OpenOK(p) => OpenOK(p)'
    BY <2>1, <2>2, <2>4, <2>5 DEF OpenOK, At
  <2>7. KeptOK(p) => KeptOK(p)'
    BY <1>1, <2>1, <2>2, <2>4 DEF KeptOK, At
  <2>8. ~run[p].trans => Clean(Mine(p))'
    BY <2>1, <2>2, <2>4 DEF Clean
  <2>9. DoneOK(p)'
    BY <1>1, <2>1, <2>3 DEF DoneOK, At
  <2>10. CallOK(p)'
    BY <2>1, <2>3, <2>6, <2>7, <2>8, <2>9 DEF CallOK
  <2> QED
    BY <1>1, <2>1, <2>10, CallStep
<1> QED
  BY <1>1, <1>2, <1>3

\* A statement's effect is in the database at once, or open behind the
\* savepoint.
LEMMA ExecuteUpdateSafe ==
  ASSUME TypesInv, SafeInv, NEW p \in Procs, ExecuteUpdate(p)
  PROVE  SafeInv'
<1> DEFINE s == run[p].s
           c == Reached(s)
<1>1. run[p].at = "stmt" /\ UNCHANGED <<idle, calls, acked, denied>>
  BY ExecuteUpdateCases
<1>2. CASE Raised(p) /\ UNCHANGED db
  BY <1>1, <1>2, RaisedSafe
<1>3. CASE \E rows \in {{}, {<<p, calls[p], run[p].i + 1>>}} : Executed(p, rows)
  <2>1. PICK rows \in {{}, {<<p, calls[p], run[p].i + 1>>}} : Executed(p, rows)
    BY <1>3
  <2>2. rows \subseteq MyEff(p)
    BY <1>1, RowsFacts
  <2>3. /\ \A q \in Procs : q # p => run'[q] = run[q]
        /\ \A t \in Sessions : t # s => sess'[t] = sess[t]
        /\ run'[p].at \in {"stmt", "finish"} /\ run'[p].s = s
        /\ run'[p].trans = run[p].trans
        /\ run'[p].done = run[p].done \cup rows /\ run'[p].lost = run[p].lost
        /\ run'[p].savepoint = run[p].savepoint
        /\ sess'[s].up = c.up /\ sess'[s].ac = c.ac /\ sess'[s].lib = c.lib
        /\ sess'[s].flag = c.flag /\ sess'[s].sp = c.sp
        /\ c.ac => sess'[s] = c
        /\ ~c.ac => sess'[s].pending = c.pending \cup rows /\ sess'[s].intrans
    <3>1. /\ \A q \in Procs : q # p => run'[q] = run[q]
          /\ \A t \in Sessions : t # s => sess'[t] = sess[t]
          /\ run'[p].at \in {"stmt", "finish"} /\ run'[p].s = s
          /\ run'[p].trans = run[p].trans
      BY <1>1, <2>1, ExecutedFacts
    <3>2. /\ run'[p].done = run[p].done \cup rows /\ run'[p].lost = run[p].lost
          /\ run'[p].savepoint = run[p].savepoint
      BY <1>1, <2>1, ExecutedFacts
    <3>3. /\ sess'[s].up = c.up /\ sess'[s].ac = c.ac /\ sess'[s].lib = c.lib
          /\ sess'[s].flag = c.flag /\ sess'[s].sp = c.sp
      BY <1>1, <2>1, ExecutedFacts
    <3>4. /\ c.ac => sess'[s] = c
          /\ ~c.ac => sess'[s].pending = c.pending \cup rows /\ sess'[s].intrans
      BY <1>1, <2>1, ExecutedFacts
    <3> QED
      BY <3>1, <3>2, <3>3, <3>4
  <2>4. Mine(p)' = sess'[s] /\ MyEff(p)' = MyEff(p)
    BY <1>1, <2>3 DEF Mine, MyEff
  <2>5. /\ IF run[p].trans THEN OpenOK(p) /\ KeptOK(p) ELSE Clean(Mine(p))
        /\ DoneOK(p)
    BY <1>1, CallSafe
  <2>6. /\ c.up /\ c.lib = Mine(p).lib /\ c.flag = Mine(p).flag
        /\ Mine(p).up => c = Mine(p)
        /\ ~Mine(p).up => c.ac /\ ~c.intrans /\ ~c.sp /\ c.pending = {}
        /\ ~run[p].trans => Clean(c) /\ c.ac
    BY <1>1, ReachedSafe
  <2>7. /\ db' = IF c.ac THEN db \cup rows ELSE db
        /\ ~(~Mine(p).up /\ Mine(p).intrans)
    BY <2>1 DEF Executed, Unreachable, Mine
  <2>8. run[p].res >= 0
    BY <1>1 DEF TypesInv, RunOK
  <2> HIDE DEF c
  <2>9. OpenOK(p) => OpenOK(p)'
    <3>1. ASSUME OpenOK(p), c.ac PROVE OpenOK(p)'
      <4>1. c.pending = {}
        BY <2>6, <3>1 DEF OpenOK
      <4> QED
        BY <1>1, <2>3, <2>4, <2>6, <3>1, <4>1 DEF OpenOK, At
    <3>2. ASSUME OpenOK(p), ~c.ac PROVE OpenOK(p)'
      <4>1. Mine(p).up /\ c = Mine(p) /\ c.sp /\ run[p].savepoint
        BY <1>1, <2>6, <3>2 DEF OpenOK, At
      <4> QED
        BY <1>1, <2>2, <2>3, <2>4, <3>2, <4>1 DEF OpenOK, At
    <3> QED
      BY <3>1, <3>2
  <2>10. KeptOK(p) => KeptOK(p)'
    BY <1>1, <2>3, <2>4, <2>6, <2>7 DEF KeptOK, At
  <2>11. ~run[p].trans => Clean(Mine(p))'
    BY <2>3, <2>4, <2>6 DEF Clean
  <2>12. DoneOK(p)'
    <3>1. run[p].done \subseteq db \cup Mine(p).pending
      BY <2>5, <2>7, <2>8 DEF DoneOK
    <3>2. ~Mine(p).up => Mine(p).pending = {}
      BY <2>5 DEF OpenOK, Clean
    <3>3. run[p].done \subseteq db \cup c.pending
      BY <2>6, <3>1, <3>2
    <3>4. run'[p].done \subseteq db' \cup Mine(p)'.pending
      BY <2>3, <2>4, <2>7, <3>3
    <3> QED
      BY <2>3, <3>4 DEF DoneOK, At
  <2>13. CallOK(p)'
    BY <2>3, <2>5, <2>9, <2>10, <2>11, <2>12 DEF CallOK
  <2>14. db \subseteq db' /\ db' \ db \subseteq MyEff(p)
    BY <2>2, <2>7
  <2> QED
    BY <1>1, <2>3, <2>13, <2>14, CallStep
<1> QED
  BY <1>2, <1>3, ExecuteUpdateCases

\* What MustRollback lets through to commit has not failed.
LEMMA CommitMeansDone ==
  ASSUME NEW r \in Run, ~MustRollback(r) PROVE r.res >= 0
  BY NumbersAssumption DEF MustRollback, Run

LEMMA FinishSafe == ASSUME TypesInv, SafeInv, NEW p \in Procs, Finish(p) PROVE SafeInv'
<1> DEFINE s == run[p].s
           c == Reached(s)
<1>1. run[p].at = "finish" /\ UNCHANGED <<idle, calls, acked, denied>>
  BY FinishCases
<1>2. /\ IF run[p].trans THEN OpenOK(p) /\ KeptOK(p) ELSE Clean(Mine(p))
      /\ DoneOK(p)
  BY <1>1, CallSafe
<1>3. /\ c \in Session /\ c.up /\ c.lib = Mine(p).lib /\ c.flag = Mine(p).flag
      /\ Mine(p).up => c = Mine(p)
      /\ ~Mine(p).up => c.ac /\ ~c.intrans /\ ~c.sp /\ c.pending = {}
  BY <1>1, ReachedSafe
<1>4. MyEff(p)' = MyEff(p) /\ Mine(p) = sess[s]
  BY <1>1 DEF MyEff, Mine
<1>5. run[p] \in Run
  BY <1>1, CallTypes
<1>6. CASE run[p].trans /\ Rollback(p)
  <2>1. /\ \A q \in Procs : q # p => run'[q] = run[q]
        /\ \A t \in Sessions : t # s => sess'[t] = sess[t]
        /\ run'[p].at = "release" /\ run'[p].s = s /\ run'[p].trans = run[p].trans
        /\ run'[p].res \in {-2, -3} /\ run'[p].lost = run[p].lost
        /\ run'[p].savepoint = run[p].savepoint
        /\ sess'[s].lib = sess[s].lib /\ sess'[s].flag = sess[s].flag
        /\ sess[s].up => sess'[s].up /\ sess'[s].ac = sess[s].ac
        /\ \/ sess'[s].pending = {}
           \/ /\ sess'[s].pending = c.pending
              /\ ~run[p].savepoint \/ sess[s].lib \/ ~c.sp
           \/ sess'[s].pending = c.pending \ MyEff(p)
           \/ sess'[s] = sess[s] /\ "end" \in Faults
    BY <1>1, <1>6, RollbackFacts
  <2>2. db' = db
    BY <1>6 DEF Rollback
  <2>3. Mine(p)' = sess'[s]
    BY <2>1 DEF Mine
  <2> HIDE DEF c
  <2>4. sess'[s].pending = {} \/ (sess'[s] = sess[s] /\ "end" \in Faults)
    BY <1>2, <1>3, <1>4, <1>6, <2>1 DEF OpenOK
  <2>5. OpenOK(p)'
    BY <1>2, <1>4, <1>6, <2>1, <2>3, <2>4 DEF OpenOK, At
  <2>6. KeptOK(p)'
    BY <1>1, <1>2, <1>4, <1>6, <2>1, <2>2, <2>3 DEF KeptOK, At
  <2>7. DoneOK(p)'
    BY <2>1 DEF DoneOK, At
  <2>8. CallOK(p)'
    BY <1>6, <2>1, <2>5, <2>6, <2>7 DEF CallOK
  <2> QED
    BY <1>1, <2>1, <2>2, <2>8, CallStep
<1>7. CASE run[p].trans /\ ~MustRollback(run[p]) /\ Committed(p)
  <2>1. /\ \A q \in Procs : q # p => run'[q] = run[q]
        /\ \A t \in Sessions : t # s => sess'[t] = sess[t]
        /\ run'[p].at = "release" /\ run'[p].s = s /\ run'[p].trans = run[p].trans
        /\ run'[p].res = run[p].res /\ run'[p].lost = run[p].lost
        /\ run'[p].done = run[p].done /\ sess'[s] = NoTrans(c)
    BY <1>1, <1>7, CommittedFacts
  <2>2. db' = db \cup c.pending /\ ~(~Mine(p).up /\ Mine(p).intrans)
    BY <1>4, <1>7 DEF Committed, Unreachable
  <2>3. Mine(p)' = sess'[s]
    BY <2>1 DEF Mine
  <2>4. /\ Mine(p)'.pending = {} /\ Mine(p)'.up /\ Mine(p)'.ac = c.ac
        /\ Mine(p)'.lib = c.lib /\ Mine(p)'.flag = c.flag
    BY <1>3, <2>1, <2>3, NoTransFacts
  <2> HIDE DEF c
  <2>5. run[p].res >= 0 /\ run[p].res \in Int
    BY <1>5, <1>7, CommitMeansDone DEF Run
  <2>6. OpenOK(p)'
    BY <1>2, <1>3, <1>7, <2>1, <2>4 DEF OpenOK, At
  <2>7. KeptOK(p)'
    BY <1>2, <1>3, <1>7, <2>1, <2>4, <2>5 DEF KeptOK, At
  <2>8. DoneOK(p)'
    <3>1. run[p].done \subseteq db \cup Mine(p).pending
      BY <1>2, <2>2, <2>5 DEF DoneOK
    <3>2. ~Mine(p).up => Mine(p).pending = {}
      BY <1>2, <1>7 DEF OpenOK
    <3>3. run'[p].done \subseteq db'
      BY <1>3, <2>1, <2>2, <3>1, <3>2
    <3> QED
      BY <2>1, <3>3 DEF DoneOK, At
  <2>9. CallOK(p)'
    BY <1>7, <2>1, <2>6, <2>7, <2>8 DEF CallOK
  <2>10. db \subseteq db' /\ db' \ db \subseteq MyEff(p)
    BY <1>2, <1>3, <1>7, <2>2 DEF OpenOK
  <2> QED
    BY <1>1, <2>1, <2>9, <2>10, CallStep
<1>8. CASE run[p].trans /\ CommitRaised(p)
  <2>1. /\ \A q \in Procs : q # p => run'[q] = run[q]
        /\ \A t \in Sessions : t # s => sess'[t] = sess[t]
        /\ run'[p].at = "release" /\ run'[p].s = s /\ run'[p].trans = run[p].trans
        /\ run'[p].res = -2 /\ run'[p].lost /\ sess'[s].pending = {}
        /\ sess'[s].lib = sess[s].lib /\ sess'[s].flag = sess[s].flag
    BY <1>1, <1>8, CommitRaisedFacts
  <2>2. Mine(p)' = sess'[s]
    BY <2>1 DEF Mine
  <2>3. OpenOK(p)'
    BY <1>2, <1>4, <1>8, <2>1, <2>2 DEF OpenOK, At
  <2>4. KeptOK(p)' /\ DoneOK(p)'
    BY <2>1 DEF KeptOK, DoneOK, At
  <2>5. CallOK(p)'
    BY <1>8, <2>1, <2>3, <2>4 DEF CallOK
  <2>6. db \subseteq db' /\ db' \ db \subseteq MyEff(p)
    BY <1>2, <1>4, <1>8 DEF OpenOK, CommitRaised
  <2> QED
    BY <1>1, <2>1, <2>5, <2>6, CallStep
<1>9. CASE run[p].trans /\ CommitRefused(p)
  <2>1. /\ \A q \in Procs : q # p => run'[q] = run[q]
        /\ \A t \in Sessions : t # s => sess'[t] = sess[t]
        /\ run'[p].at = "release" /\ run'[p].s = s /\ run'[p].trans = run[p].trans
        /\ run'[p].res = -2 /\ run'[p].lost = run[p].lost
        /\ run'[p].savepoint = run[p].savepoint
        /\ sess'[s].up = sess[s].up /\ sess'[s].ac = sess[s].ac
        /\ sess'[s].lib = sess[s].lib /\ sess'[s].flag = sess[s].flag
        /\ sess'[s] = sess[s] \/ sess'[s].pending = {}
    BY <1>1, <1>9, CommitRefusedFacts
  <2>2. db' = db /\ "end" \in Faults
    BY <1>9 DEF CommitRefused
  <2>3. Mine(p)' = sess'[s]
    BY <2>1 DEF Mine
  <2>4. OpenOK(p)'
    BY <1>2, <1>4, <1>9, <2>1, <2>2, <2>3 DEF OpenOK, At
  <2>5. KeptOK(p)'
    BY <1>1, <1>2, <1>4, <1>9, <2>1, <2>2, <2>3 DEF KeptOK, At
  <2>6. DoneOK(p)'
    BY <2>1 DEF DoneOK, At
  <2>7. CallOK(p)'
    BY <1>9, <2>1, <2>4, <2>5, <2>6 DEF CallOK
  <2> QED
    BY <1>1, <2>1, <2>2, <2>7, CallStep
<1>10. CASE ~run[p].trans /\ Goto(p, "release") /\ UNCHANGED <<db, sess>>
  <2>1. /\ \A q \in Procs : q # p => run'[q] = run[q]
        /\ run'[p].at = "release" /\ run'[p].s = s /\ run'[p].trans = run[p].trans
        /\ run'[p].res = run[p].res /\ run'[p].done = run[p].done
    BY <1>1, <1>10, GotoFacts
  <2>2. Mine(p)' = Mine(p)
    BY <1>10, <2>1 DEF Mine
  <2>3. Clean(Mine(p))' /\ DoneOK(p)'
    BY <1>2, <1>10, <2>1, <2>2 DEF Clean, DoneOK, At
  <2>4. CallOK(p)'
    BY <1>10, <2>1, <2>3 DEF CallOK
  <2> QED
    BY <1>1, <1>10, <2>1, <2>4, CallStep
<1> QED
  BY <1>6, <1>7, <1>8, <1>9, <1>10, FinishCases

LEMMA DropSafe == ASSUME TypesInv, SafeInv, NEW s \in Sessions, Drop(s) PROVE SafeInv'
<1>1. UNCHANGED <<db, idle, calls, acked, denied>>
  BY DropFacts
<1>2. \A t \in idle' : Clean(sess[t])'
  <2>1. \A t \in idle : t \in Sessions
    BY DEF TypesInv, TypeOK
  <2> QED
    BY <1>1, <2>1, DropFacts DEF SafeInv, Clean
<1>3. ASSUME NEW p \in Procs PROVE CallOK(p)'
  <2>1. /\ run'[p].at = run[p].at /\ run'[p].s = run[p].s /\ run'[p].trans = run[p].trans
        /\ run'[p].res = run[p].res /\ run'[p].done = run[p].done
        /\ run'[p].savepoint = run[p].savepoint
        /\ run'[p].lost <=> run[p].lost \/ (s \notin idle /\ run[p].s = s)
    BY DropFacts
  <2> SUFFICES ASSUME run[p].at # "out" PROVE CallOK(p)'
    BY <2>1 DEF CallOK
  <2>2. /\ IF run[p].trans THEN OpenOK(p) /\ KeptOK(p) ELSE Clean(Mine(p))
        /\ DoneOK(p)
    BY CallSafe
  <2>3. run[p].s \in Sessions \ idle /\ MyEff(p)' = MyEff(p) /\ Mine(p)' = sess'[run[p].s]
    BY <1>1, <2>1, CallTypes DEF MyEff, Mine
  <2>4. CASE run[p].s # s
    <3>1. Mine(p)' = Mine(p) /\ (run'[p].lost <=> run[p].lost)
      BY <2>1, <2>3, <2>4, DropFacts DEF Mine
    <3>2. OpenOK(p) => OpenOK(p)'
      BY <2>1, <2>3, <3>1 DEF OpenOK, At
    <3>3. KeptOK(p) => KeptOK(p)'
      BY <1>1, <2>1, <2>3, <3>1 DEF KeptOK, At
    <3>4. Clean(Mine(p)) => Clean(Mine(p))'
      BY <3>1 DEF Clean
    <3>5. DoneOK(p)'
      BY <1>1, <2>1, <2>2, <3>1 DEF DoneOK, At
    <3> QED
      BY <2>1, <2>2, <3>2, <3>3, <3>4, <3>5 DEF CallOK
  <2>5. CASE run[p].s = s
    <3>1. /\ ~Mine(p)'.up /\ Mine(p)'.pending = {} /\ Mine(p)'.intrans = Mine(p).intrans
          /\ Mine(p)'.lib = Mine(p).lib /\ Mine(p)'.flag = Mine(p).flag
      BY <2>3, <2>5, DropFacts DEF Mine
    <3>2. run'[p].lost
      BY <2>1, <2>3, <2>5
    <3>3. OpenOK(p) => OpenOK(p)'
      BY <2>1, <3>1 DEF OpenOK, At
    <3>4. KeptOK(p)' /\ (Clean(Mine(p)) => Clean(Mine(p))')
      BY <3>1, <3>2 DEF KeptOK, Clean
    <3>5. ~Mine(p).intrans => Mine(p).pending = {}
      BY <2>2 DEF OpenOK, Clean
    <3>6. DoneOK(p)'
      BY <1>1, <2>1, <2>2, <3>1, <3>5 DEF DoneOK, At
    <3> QED
      BY <2>1, <2>2, <3>3, <3>4, <3>6 DEF CallOK
  <2> QED
    BY <2>4, <2>5
<1>4. History' /\ SuccessIsDurable'
  BY <1>1 DEF SafeInv, History, SuccessIsDurable
<1> QED
  BY <1>2, <1>3, <1>4 DEF SafeInv

\* Whoever had the session before, a call begins with a clean one.
LEMMA LentSafe ==
  ASSUME TypesInv, SafeInv, NEW p \in Procs, NEW trans \in BOOLEAN, NEW affect \in {-1, Stmts},
         run[p].at = "out", NEW s \in idle, NEW ok \in BOOLEAN,
         Lent(p, trans, affect, s, ok), UNCHANGED db,
         calls'[p] = calls[p] + 1, \A q \in Procs : q # p => calls'[q] = calls[q]
  PROVE  ok => SafeInv'
<1> DEFINE c == Reached(s)
<1>1. /\ s \in Sessions
      /\ \A q \in Procs : q # p => run'[q] = run[q]
      /\ \A t \in Sessions : t # s => sess'[t] = sess[t]
  BY LentFacts
<1>2. /\ trans => run'[p].at = "savepoint"
      /\ ~trans => run'[p].at = "stmt"
      /\ run'[p].s = s /\ run'[p].trans = trans /\ run'[p].res = 0
      /\ ~run'[p].savepoint /\ run'[p].done = {}
  BY LentFacts
<1>3. /\ sess'[s].up /\ sess'[s].intrans = c.intrans /\ sess'[s].pending = c.pending
      /\ trans => ~sess'[s].flag /\ (ok => ~sess'[s].ac /\ ~sess'[s].lib)
      /\ ~trans => sess'[s] = c
  BY LentFacts
<1>4. Clean(c) /\ c.ac
  BY <1>1, ReachedFacts DEF SafeInv, Clean, TypesInv, TypeOK
<1> HIDE DEF c
<1>5. idle' = idle \ {s} /\ UNCHANGED <<acked, denied>>
  BY DEF Lent
<1>6. calls[p] \in Int /\ \A e \in db : e[1] \in Procs /\ e[2] \in Int
  BY DEF TypesInv, TypeOK, Effects
<1>7. Mine(p)' = sess'[s] /\ MyEff(p)' = EffectsOf(p, calls[p] + 1)
  BY <1>2 DEF Mine, MyEff
<1>8. db' \cap MyEff(p)' = {}
  <2>1. \A e \in db : e[1] = p => e[2] # calls[p] + 1
    BY <1>6 DEF SafeInv, History
  <2> QED
    BY <1>7, <2>1 DEF EffectsOf
<1>9. ok => CallOK(p)'
  <2>1. DoneOK(p)'
    BY <1>2 DEF DoneOK, At
  <2>2. trans /\ ok => OpenOK(p)'
    BY <1>2, <1>3, <1>4, <1>7 DEF OpenOK, Clean, At
  <2>3. trans /\ ok => KeptOK(p)'
    BY <1>3, <1>7, <1>8 DEF KeptOK
  <2>4. ~trans => Clean(Mine(p))'
    BY <1>3, <1>4, <1>7 DEF Clean
  <2> QED
    BY <1>2, <2>1, <2>2, <2>3, <2>4 DEF CallOK
<1>10. ASSUME NEW q \in Procs, q # p PROVE CallOK(q)'
  <2>1. run[q].at # "out" => sess'[run[q].s] = sess[run[q].s]
    BY <1>1 DEF TypesInv, RunOK
  <2>2. CallOK(q) /\ run'[q] = run[q] /\ calls'[q] = calls[q]
    BY <1>1, <1>10 DEF SafeInv
  <2> QED
    BY <2>1, <2>2, OtherCall
<1>11. \A t \in idle' : Clean(sess[t])'
  <2>1. \A t \in idle' : t \in idle /\ sess'[t] = sess[t]
    BY <1>1, <1>5 DEF TypesInv, TypeOK
  <2> QED
    BY <2>1 DEF SafeInv, Clean
<1>12. History'
  BY <1>6 DEF SafeInv, History
<1>13. SuccessIsDurable'
  BY <1>5 DEF SafeInv, SuccessIsDurable
<1> QED
  BY <1>9, <1>10, <1>11, <1>12, <1>13 DEF SafeInv

\* A call that gets no session has no effect.
LEMMA RefusedSafe ==
  ASSUME TypesInv, SafeInv, NEW p \in Procs, NEW trans \in BOOLEAN,
         run[p].at = "out", Refused(p, trans), UNCHANGED db,
         calls'[p] = calls[p] + 1, \A q \in Procs : q # p => calls'[q] = calls[q]
  PROVE  SafeInv'
<1>1. /\ UNCHANGED <<idle, run, acked>>
      /\ \A t \in Sessions : sess'[t] = sess[t] \/ (t \in idle /\ sess'[t] = Opened)
  BY RefusedFacts
<1>2. calls[p] \in Int /\ \A e \in db : e[1] \in Procs /\ e[2] \in Int
  BY DEF TypesInv, TypeOK, Effects
<1>3. \A t \in idle' : Clean(sess[t])'
  <2>1. \A t \in idle : t \in Sessions
    BY DEF TypesInv, TypeOK
  <2> QED
    BY <1>1, <2>1, OpenedFacts DEF SafeInv, Clean
<1>4. \A q \in Procs : CallOK(q)'
  <2>1. CallOK(p)'
    BY <1>1 DEF CallOK
  <2>2. ASSUME NEW q \in Procs, q # p PROVE CallOK(q)'
    <3>1. run[q].at # "out" => sess'[run[q].s] = sess[run[q].s]
      BY <1>1 DEF TypesInv, RunOK
    <3>2. CallOK(q) /\ run'[q] = run[q] /\ calls'[q] = calls[q]
      BY <1>1, <2>2 DEF SafeInv
    <3> QED
      BY <3>1, <3>2, OtherCall
  <2> QED
    BY <2>1, <2>2
<1>5. History'
  BY <1>2 DEF SafeInv, History
<1>6. SuccessIsDurable'
  BY <1>1 DEF SafeInv, SuccessIsDurable
<1> QED
  BY <1>3, <1>4, <1>5, <1>6 DEF SafeInv

LEMMA GetSafe ==
  ASSUME TypesInv, SafeInv, NEW p \in Procs, NEW trans \in BOOLEAN, NEW affect \in {-1, Stmts},
         "setac" \notin Faults, GetConnection(p, trans, affect)
  PROVE  SafeInv'
<1>1. /\ run[p].at = "out" /\ UNCHANGED db
      /\ calls'[p] = calls[p] + 1 /\ \A q \in Procs : q # p => calls'[q] = calls[q]
  BY GetCases
<1>2. CASE \E s \in idle, ok \in {TRUE} : Lent(p, trans, affect, s, ok)
  <2>1. ASSUME NEW s \in idle, NEW ok \in BOOLEAN, Lent(p, trans, affect, s, ok)
        PROVE  ok => SafeInv'
    BY <1>1, <2>1, LentSafe
  <2>2. \E s \in idle, ok \in BOOLEAN : ok /\ Lent(p, trans, affect, s, ok)
    BY <1>2, Zenon
  <2> QED
    BY <2>1, <2>2, Zenon
<1>3. CASE Refused(p, trans)
  BY <1>1, <1>3, RefusedSafe
<1>4. (IF "setac" \in Faults THEN BOOLEAN ELSE {TRUE}) = {TRUE}
  BY Zenon
<1> QED
  BY <1>2, <1>3, <1>4, GetCases, Zenon

\* What a call has open when its session is released becomes durable then, and
\* the session is clean afterwards.  Only where the end of a transaction can be
\* refused is there anything open.
LEMMA ReleaseFacts ==
  ASSUME TypesInv, SafeInv, NEW p \in Procs, "setac" \notin Faults, ReleaseConnection(p)
  PROVE  /\ run[p].at = "release" /\ idle' = idle \cup {run[p].s} /\ UNCHANGED calls
         /\ db \subseteq db' /\ db' \ db \subseteq MyEff(p) /\ ("end" \notin Faults => db' = db)
         /\ run'[p].at = "out" /\ \A q \in Procs : q # p => run'[q] = run[q]
         /\ run[p].s \in Sessions \ idle /\ Clean(sess'[run[p].s])
         /\ \A t \in Sessions : t # run[p].s => sess'[t] = sess[t]
<1> DEFINE s == run[p].s
<1>1. /\ run[p].at = "release" /\ Restore(s) /\ idle' = idle \cup {s}
      /\ run' = [run EXCEPT ![p] = NoRun] /\ UNCHANGED calls
  BY DEF ReleaseConnection, At
<1>2. /\ s \in Sessions \ idle /\ sess \in [Sessions -> Session] /\ sess[s] \in Session
      /\ run \in [Procs -> Run]
  BY <1>1, CallTypes
<1>3. run'[p].at = "out" /\ \A q \in Procs : q # p => run'[q] = run[q]
  BY <1>1, <1>2, NoRunType, RunSet
<1>4. /\ run[p].trans => /\ ~sess[s].flag /\ sess[s].pending \subseteq MyEff(p)
                         /\ "end" \notin Faults => sess[s].pending = {}
      /\ ~run[p].trans => Clean(sess[s])
  BY <1>1, CallSafe DEF OpenOK, Clean, Mine, At
<1>5. Reached(s).pending \subseteq MyEff(p) /\ ("end" \notin Faults => Reached(s).pending = {})
  BY <1>2, <1>4, ReachedFacts DEF Clean
<1>6. /\ \A t \in Sessions : t # s => sess'[t] = sess[t]
      /\ \/ sess[s].flag /\ sess'[s] = sess[s] /\ db' = db
         \/ db' = db \cup Reached(s).pending /\ sess'[s] = Opened
         \/ Unreachable(s) /\ sess'[s] \in AfterRaise(s) /\ db' = db
  BY <1>1, <1>2, RestoreFacts
<1>7. ASSUME Unreachable(s), sess'[s] \in AfterRaise(s) PROVE Clean(sess'[s])
  <2>1. ~sess[s].up
    BY <1>7 DEF Unreachable
  <2> QED
    BY <1>2, <1>7, <2>1, RaiseFacts DEF Clean
<1>8. Clean(sess'[s])
  BY <1>4, <1>6, <1>7, OpenedFacts
<1>9. db \subseteq db' /\ db' \ db \subseteq MyEff(p) /\ ("end" \notin Faults => db' = db)
  BY <1>5, <1>6
<1> QED
  BY <1>1, <1>2, <1>3, <1>6, <1>8, <1>9

LEMMA ReleaseSafe ==
  ASSUME TypesInv, SafeInv, NEW p \in Procs, "setac" \notin Faults, ReleaseConnection(p)
  PROVE  SafeInv'
<1>1. /\ run[p].at = "release" /\ idle' = idle \cup {run[p].s} /\ UNCHANGED calls
      /\ db \subseteq db' /\ db' \ db \subseteq MyEff(p)
      /\ run'[p].at = "out" /\ \A q \in Procs : q # p => run'[q] = run[q]
      /\ run[p].s \in Sessions \ idle /\ Clean(sess'[run[p].s])
      /\ \A t \in Sessions : t # run[p].s => sess'[t] = sess[t]
  BY ReleaseFacts
<1>2. DoneOK(p)
  BY <1>1, CallSafe
<1>3. acked' = acked \cup IF run[p].res >= 0 THEN run[p].done ELSE {}
  BY DEF ReleaseConnection, Returns
<1>4. \A t \in idle' : Clean(sess[t])'
  <2>1. \A t \in idle : t \in Sessions /\ sess'[t] = sess[t]
    BY <1>1 DEF TypesInv, TypeOK
  <2> QED
    BY <1>1, <2>1 DEF SafeInv, Clean
<1>5. \A q \in Procs : CallOK(q)'
  <2>1. CallOK(p)'
    BY <1>1 DEF CallOK
  <2>2. ASSUME NEW q \in Procs, q # p PROVE CallOK(q)'
    <3>1. run[q].at # "out" => sess'[run[q].s] = sess[run[q].s]
      BY <1>1, <2>2 DEF TypesInv, RunOK
    <3>2. CallOK(q) /\ run'[q] = run[q] /\ calls'[q] = calls[q]
      BY <1>1, <2>2 DEF SafeInv
    <3>3. (db' \ db) \cap MyEff(q) = {}
      BY <1>1, <2>2, EffectsApart
    <3> QED
      BY <1>1, <3>1, <3>2, <3>3, OtherCall
  <2> QED
    BY <2>1, <2>2
<1>6. History'
  <2>1. calls[p] \in Int /\ \A e \in db' \ db : e[1] = p /\ e[2] = calls[p]
    BY <1>1, CallTypes, EffectsApart
  <2> QED
    BY <1>1, <2>1 DEF SafeInv, History
<1>7. SuccessIsDurable'
  BY <1>1, <1>2, <1>3 DEF SafeInv, SuccessIsDurable, DoneOK, At
<1> QED
  BY <1>4, <1>5, <1>6, <1>7 DEF SafeInv

LEMMA InitSafe == Init => SafeInv
<1> SUFFICES ASSUME Init PROVE SafeInv
  OBVIOUS
<1>1. \A s \in idle : Clean(sess[s])
  BY OpenedFacts DEF Init
<1>2. \A p \in Procs : CallOK(p)
  BY NoRunType DEF Init, CallOK
<1>3. History /\ SuccessIsDurable
  BY DEF Init, History, SuccessIsDurable
<1> QED
  BY <1>1, <1>2, <1>3 DEF SafeInv

LEMMA NextSafe ==
  ASSUME "setac" \notin Faults PROVE TypesInv /\ SafeInv /\ [Next]_vars => SafeInv'
<1> SUFFICES ASSUME TypesInv, SafeInv, [Next]_vars PROVE SafeInv'
  OBVIOUS
<1>1. CASE UNCHANGED vars
  <2>1. \A s \in idle' : Clean(sess[s])'
    BY <1>1 DEF vars, SafeInv, Clean
  <2>2. \A p \in Procs : CallOK(p)'
    BY <1>1, OtherCall DEF vars, SafeInv
  <2>3. History' /\ SuccessIsDurable'
    BY <1>1 DEF vars, SafeInv, History, SuccessIsDurable
  <2> QED
    BY <2>1, <2>2, <2>3 DEF SafeInv
<1> QED
  BY <1>1, NextCases, DropSafe, GetSafe, SetSavepointSafe, ExecuteUpdateSafe, FinishSafe,
     ReleaseSafe

\* The invariant of the sessions, where setAutoCommit is not refused.
THEOREM SafeInvariance == ASSUME "setac" \notin Faults PROVE Spec => [](TypesInv /\ SafeInv)
<1>1. TypesInv /\ SafeInv /\ [Next]_vars => TypesInv' /\ SafeInv'
  BY NextTypes, NextSafe
<1>2. Init => TypesInv /\ SafeInv
  BY InitTypes, InitSafe
<1> QED
  BY <1>1, <1>2, PTL DEF Spec

\* A call of ExecuteUpdates that returns >= 0 has its effects in the database:
\* for any number of threads, sessions and statements, with statements refused,
\* connections lost and commits of unknown outcome at any point.
THEOREM SuccessDurable == ASSUME "setac" \notin Faults PROVE Spec => []SuccessIsDurable
<1>1. SafeInv => SuccessIsDurable
  BY DEF SafeInv
<1> QED
  BY <1>1, SafeInvariance, PTL

\* A step within a call leaves the other calls alone.
LEMMA OthersRun ==
  ASSUME TypesInv, NEW p \in Procs, SetSavepoint(p) \/ ExecuteUpdate(p) \/ Finish(p)
  PROVE  run[p].at # "out" /\ \A q \in Procs : q # p => run'[q] = run[q]
<1>1. CASE SetSavepoint(p)
  <2>1. run[p].at = "savepoint" /\ (SavepointSet(p) \/ Raised(p))
    BY <1>1 DEF SetSavepoint, SavepointSet, At
  <2> QED
    BY <2>1, SavepointFacts, RaisedFacts
<1>2. CASE ExecuteUpdate(p)
  <2>1. /\ run[p].at = "stmt"
        /\ \/ \E rows \in {{}, {<<p, calls[p], run[p].i + 1>>}} : Executed(p, rows)
           \/ Raised(p)
    BY <1>2, ExecuteUpdateCases
  <2>2. ASSUME NEW rows \in {{}, {<<p, calls[p], run[p].i + 1>>}}, Executed(p, rows)
        PROVE  \A q \in Procs : q # p => run'[q] = run[q]
    BY <2>1, <2>2, ExecutedFacts
  <2> QED
    BY <2>1, <2>2, RaisedFacts
<1>3. CASE Finish(p)
  <2>1. run[p].at = "finish"
    BY <1>3, FinishCases
  <2> QED
    BY <1>3, <2>1, FinishCases, RollbackFacts, CommittedFacts, CommitRaisedFacts,
       CommitRefusedFacts, GotoFacts
<1> QED
  BY <1>1, <1>2, <1>3

\* Where rollback and commit are not refused on a connection that is kept, a
\* transaction that returns < 0 without having lost its connection leaves
\* nothing in the database.
THEOREM FailureUndone ==
  ASSUME {"setac", "end"} \cap Faults = {} PROVE Spec => FailureRolledBack
<1> DEFINE Undone(p) ==
      At(p, "release") /\ run[p].trans /\ run[p].res < 0 /\ ~run[p].lost /\ run'[p].at = "out"
      => db' \cap EffectsOf(p, calls[p]) = {}
<1>1. ASSUME TypesInv, SafeInv, Next, NEW p \in Procs PROVE Undone(p)
  <2> SUFFICES ASSUME At(p, "release"), run[p].trans, run[p].res < 0, ~run[p].lost,
                      run'[p].at = "out"
               PROVE  db' \cap EffectsOf(p, calls[p]) = {}
    OBVIOUS
  <2>1. run[p].at = "release" /\ run \in [Procs -> Run]
    BY <1>1 DEF At, TypesInv
  <2>2. db \cap MyEff(p) = {}
    BY <1>1, <2>1, CallSafe DEF KeptOK
  <2>3. ASSUME NEW q \in Procs, ReleaseConnection(q) PROVE db' = db
    BY <1>1, <2>3, ReleaseFacts
  <2>4. ASSUME NEW s \in Sessions, Drop(s) PROVE db' = db
    BY <2>4 DEF Drop
  <2>5. ASSUME NEW q \in Procs, NEW trans \in BOOLEAN, NEW affect \in {-1, Stmts},
               GetConnection(q, trans, affect)
        PROVE  db' = db
    BY <2>5, Zenon DEF GetConnection
  <2>6. ASSUME NEW q \in Procs, SetSavepoint(q) \/ ExecuteUpdate(q) \/ Finish(q)
        PROVE  run'[p].at # "out"
    <3>1. q # p
      BY <2>1, <2>6, ExecuteUpdateCases, FinishCases DEF SetSavepoint, At
    <3>2. run'[p] = run[p]
      BY <1>1, <2>6, <3>1, OthersRun
    <3> QED
      BY <2>1, <3>2
  <2>7. UNCHANGED vars => db' = db
    BY DEF vars
  <2>8. db' = db
    BY <1>1, <2>3, <2>4, <2>5, <2>6, <2>7, NextCases
  <2> QED
    BY <2>2, <2>8 DEF MyEff
<1>2. TypesInv /\ SafeInv /\ [Next]_vars => [\A p \in Procs : Undone(p)]_vars
  BY <1>1
<1>3. Spec => [](TypesInv /\ SafeInv)
  <2>1. "setac" \notin Faults
    OBVIOUS
  <2> QED
    BY <2>1, SafeInvariance
<1> QED
  BY <1>2, <1>3, PTL DEF Spec, FailureRolledBack

\* What a step of p's call makes durable are effects of that call.
LEMMA StepDurable ==
  ASSUME TypesInv, SafeInv, NEW p \in Procs, ExecuteUpdate(p) \/ Finish(p)
  PROVE  run[p].at # "out" /\ db' \ db \subseteq MyEff(p)
<1> DEFINE s == run[p].s
<1>1. run[p].at \in {"stmt", "finish"}
  BY ExecuteUpdateCases, FinishCases
<1>2. run[p].trans => Mine(p).pending \subseteq MyEff(p) /\ Reached(s).pending \subseteq MyEff(p)
  <2>1. run[p].trans => Mine(p).pending \subseteq MyEff(p)
    BY <1>1, CallSafe DEF OpenOK
  <2>2. (Mine(p).up => Reached(s) = Mine(p)) /\ (~Mine(p).up => Reached(s).pending = {})
    BY <1>1, ReachedSafe
  <2> QED
    BY <2>1, <2>2
<1>3. CASE ExecuteUpdate(p)
  <2>1. CASE UNCHANGED db
    BY <1>1, <2>1
  <2>2. CASE \E rows \in {{}, {<<p, calls[p], run[p].i + 1>>}} : Executed(p, rows)
    <3>1. PICK rows \in {{}, {<<p, calls[p], run[p].i + 1>>}} : Executed(p, rows)
      BY <2>2
    <3>2. db' \ db \subseteq rows
      BY <3>1 DEF Executed
    <3>3. rows \subseteq MyEff(p)
      BY <1>3, ExecuteUpdateCases, RowsFacts
    <3> QED
      BY <1>1, <3>2, <3>3
  <2> QED
    BY <1>3, <2>1, <2>2, ExecuteUpdateCases
<1>4. CASE Finish(p)
  <2>1. CASE run[p].trans /\ Rollback(p)
    BY <1>1, <2>1 DEF Rollback
  <2>2. CASE run[p].trans /\ Committed(p)
    BY <1>1, <1>2, <2>2 DEF Committed
  <2>3. CASE run[p].trans /\ (CommitRaised(p) \/ CommitRefused(p))
    BY <1>1, <1>2, <2>3 DEF CommitRaised, CommitRefused, Mine
  <2>4. CASE UNCHANGED db
    BY <1>1, <2>4
  <2> QED
    BY <1>4, <2>1, <2>2, <2>3, <2>4, FinishCases
<1> QED
  BY <1>3, <1>4

\* What becomes durable is an effect of a call that is in progress: no caller's
\* transaction is committed by whoever has the session next.
THEOREM DurableDuringCall == ASSUME "setac" \notin Faults PROVE Spec => DurableOnlyDuringCall
<1>1. ASSUME TypesInv, SafeInv, Next
      PROVE  \A e \in db' \ db : calls[e[1]] = e[2] /\ run[e[1]].at # "out"
  <2>1. CASE db' = db
    BY <2>1
  <2>2. ASSUME NEW p \in Procs, ExecuteUpdate(p) \/ Finish(p)
        PROVE  \A e \in db' \ db : calls[e[1]] = e[2] /\ run[e[1]].at # "out"
    BY <1>1, <2>2, StepDurable, EffectsApart
  <2>3. ASSUME NEW s \in Sessions, Drop(s) PROVE db' = db
    BY <2>3 DEF Drop
  <2>4. ASSUME NEW p \in Procs, NEW trans \in BOOLEAN, NEW affect \in {-1, Stmts},
               GetConnection(p, trans, affect)
        PROVE  db' = db
    BY <2>4, Zenon DEF GetConnection
  <2>5. ASSUME NEW p \in Procs, SetSavepoint(p) PROVE db' = db
    BY <2>5 DEF SetSavepoint
  <2>6. ASSUME NEW p \in Procs, ReleaseConnection(p)
        PROVE  \A e \in db' \ db : calls[e[1]] = e[2] /\ run[e[1]].at # "out"
    <3>1. run[p].at = "release" /\ db' \ db \subseteq MyEff(p)
      BY <1>1, <2>6, ReleaseFacts
    <3> QED
      BY <3>1, EffectsApart
  <2>7. UNCHANGED vars => db' = db
    BY DEF vars
  <2> QED
    BY <1>1, <2>1, <2>2, <2>3, <2>4, <2>5, <2>6, <2>7, NextCases
<1>2. TypesInv /\ SafeInv /\ [Next]_vars =>
        [\A e \in db' \ db : calls[e[1]] = e[2] /\ run[e[1]].at # "out"]_vars
  BY <1>1
<1> QED
  BY <1>2, SafeInvariance, PTL DEF Spec, DurableOnlyDuringCall

-----------------------------------------------------------------------------
(* Rolled back means undone, whatever may fail *)

\* What is in the database or open in a session.
Written == db \cup UNION {sess[s].pending : s \in Sessions}

\* A call in progress writes to its own session only.  While the savepoint it
\* has set is there, its session is out of autocommit mode and nothing of it is
\* in the database; when -3 is its result nothing of it is left anywhere.
UndoCall(p) ==
  run[p].at # "out" =>
    /\ \A s \in Sessions : s # run[p].s => sess[s].pending \cap MyEff(p) = {}
    /\ run[p].at = "savepoint" =>
         ~run[p].savepoint /\ (db \cup Mine(p).pending) \cap MyEff(p) = {}
    /\ run[p].at \in {"stmt", "finish"} /\ run[p].savepoint /\ Mine(p).up /\ Mine(p).sp
       => ~Mine(p).ac /\ db \cap MyEff(p) = {}
    /\ run[p].at = "finish" => run[p].res # -3
    /\ run[p].at = "release" /\ run[p].res = -3 =>
         (db \cup Mine(p).pending) \cap MyEff(p) = {}

\* Nothing is written before its call, and what is denied is not written: its
\* call is over.
UndoHistory ==
  /\ \A e \in Written : e[2] <= calls[e[1]]
  /\ \A e \in denied : /\ e \notin Written /\ e[2] <= calls[e[1]]
                       /\ e[2] = calls[e[1]] => run[e[1]].at = "out"

UndoInv == UndoHistory /\ \A p \in Procs : UndoCall(p)

LEMMA WrittenFacts ==
  ASSUME TypesInv
  PROVE  /\ Written \subseteq Effects /\ db \subseteq Written
         /\ \A s \in Sessions : sess[s].pending \subseteq Written
         /\ \A e \in Written \cup denied : e[1] \in Procs /\ e[2] \in Int
         /\ \A q \in Procs : calls[q] \in Int
<1>1. \A s \in Sessions : sess[s].pending \subseteq Effects
  BY DEF TypesInv, TypeOK, Session
<1>2. Written \subseteq Effects /\ denied \subseteq Effects /\ \A q \in Procs : calls[q] \in Int
  BY <1>1 DEF TypesInv, TypeOK, Written
<1>3. \A e \in Effects : e[1] \in Procs /\ e[2] \in Int
  BY DEF Effects
<1> QED
  BY <1>2, <1>3 DEF Written

\* A step within p's call, which writes nothing but new effects of that call.
LEMMA UndoStep ==
  ASSUME TypesInv, UndoInv, NEW p \in Procs, run[p].at # "out",
         \A q \in Procs : q # p => run'[q] = run[q],
         \A t \in Sessions : t # run[p].s => sess'[t] = sess[t],
         run'[p].s = run[p].s, UNCHANGED <<calls, denied>>,
         db' \subseteq db \cup sess[run[p].s].pending \cup MyEff(p),
         sess'[run[p].s].pending \subseteq sess[run[p].s].pending \cup MyEff(p),
         run'[p].at \in {"stmt", "finish", "release"},
         run'[p].at # "release" /\ run'[p].savepoint /\ sess'[run[p].s].up /\ sess'[run[p].s].sp
           => ~sess'[run[p].s].ac /\ db' \cap MyEff(p) = {},
         run'[p].at = "finish" => run'[p].res # -3,
         run'[p].at = "release" /\ run'[p].res = -3 =>
           (db' \cup sess'[run[p].s].pending) \cap MyEff(p) = {}
  PROVE  UndoInv'
<1> DEFINE s == run[p].s
<1>1. s \in Sessions /\ calls[p] \in Int
  BY CallTypes
<1>2. Written' \subseteq Written \cup MyEff(p)
  <2>1. \A t \in Sessions : sess'[t].pending \subseteq Written \cup MyEff(p)
    BY <1>1 DEF Written
  <2>2. db' \subseteq Written \cup MyEff(p)
    BY <1>1 DEF Written
  <2> QED
    BY <2>1, <2>2 DEF Written
<1>3. \A e \in MyEff(p) : e[1] = p /\ e[2] = calls[p]
  BY EffectsApart
<1>4. UndoHistory'
  <2>1. \A e \in Written' : e[2] <= calls[e[1]]
    BY <1>1, <1>2, <1>3 DEF UndoInv, UndoHistory
  <2>2. ASSUME NEW e \in denied
        PROVE  /\ e \notin Written' /\ e[2] <= calls[e[1]]
               /\ e[2] = calls[e[1]] => run'[e[1]].at = "out"
    <3>1. e[1] \in Procs
      BY WrittenFacts
    <3>2. /\ e \notin Written /\ e[2] <= calls[e[1]]
          /\ e[2] = calls[e[1]] => run[e[1]].at = "out"
      BY DEF UndoInv, UndoHistory
    <3>3. e \notin MyEff(p)
      BY <1>3, <3>2
    <3>4. e[2] = calls[e[1]] => e[1] # p
      BY <3>2
    <3> QED
      BY <1>2, <3>1, <3>2, <3>3, <3>4
  <2> QED
    BY <2>1, <2>2 DEF UndoHistory
<1>5. MyEff(p)' = MyEff(p) /\ Mine(p)' = sess'[s]
  BY DEF MyEff, Mine
<1>6. UndoCall(p)'
  <2>1. \A t \in Sessions : t # s => sess'[t].pending \cap MyEff(p) = {}
    BY DEF UndoInv, UndoCall
  <2> QED
    BY <1>5, <2>1 DEF UndoCall
<1>7. ASSUME NEW q \in Procs, q # p PROVE UndoCall(q)'
  <2> SUFFICES ASSUME run[q].at # "out" PROVE UndoCall(q)'
    BY <1>7 DEF UndoCall
  <2>1. run[q].s # s /\ run[q].s \in Sessions
    BY <1>7 DEF TypesInv, RunOK
  <2>2. MyEff(q)' = MyEff(q) /\ Mine(q)' = Mine(q) /\ run'[q] = run[q]
    BY <1>7, <2>1 DEF MyEff, Mine
  <2>3. UndoCall(q) /\ MyEff(p) \cap MyEff(q) = {}
    BY <1>7, EffectsApart DEF UndoInv
  <2>4. sess[s].pending \cap MyEff(q) = {}
    BY <1>1, <2>1, <2>3 DEF UndoCall
  <2>5. db' \cap MyEff(q) \subseteq db
    BY <2>3, <2>4
  <2>6. sess'[s].pending \cap MyEff(q) = {}
    BY <2>3, <2>4
  <2>7. \A t \in Sessions : t # run[q].s => sess'[t].pending \cap MyEff(q) = {}
    BY <2>3, <2>6 DEF UndoCall
  <2> QED
    BY <2>2, <2>3, <2>5, <2>7 DEF UndoCall
<1> QED
  BY <1>4, <1>6, <1>7 DEF UndoInv

LEMMA RaisedUndo ==
  ASSUME TypesInv, UndoInv, NEW p \in Procs, run[p].at \in {"savepoint", "stmt"}, Raised(p),
         UNCHANGED <<db, calls, denied>>
  PROVE  UndoInv'
<1> DEFINE s == run[p].s
<1>1. /\ run'[p].at = "finish" /\ run'[p].res = -2 /\ run'[p].s = s
      /\ run'[p].savepoint = run[p].savepoint /\ sess'[s] \in AfterRaise(s)
      /\ \A q \in Procs : q # p => run'[q] = run[q]
      /\ \A t \in Sessions : t # s => sess'[t] = sess[t]
  BY RaisedFacts
<1>2. sess'[s] = sess[s] \/ (~sess'[s].sp /\ sess'[s].pending = {})
  BY <1>1, CallTypes, RaiseFacts
<1>3. UndoCall(p) /\ (run[p].at = "savepoint" => ~run[p].savepoint)
  BY DEF UndoInv, UndoCall
<1>4. run'[p].savepoint /\ sess'[s].up /\ sess'[s].sp => ~sess'[s].ac /\ db' \cap MyEff(p) = {}
  BY <1>1, <1>2, <1>3 DEF UndoCall, Mine
<1> QED
  BY <1>1, <1>2, <1>4, UndoStep

LEMMA SetSavepointUndo ==
  ASSUME TypesInv, UndoInv, NEW p \in Procs, SetSavepoint(p)
  PROVE  UndoInv'
<1> DEFINE s == run[p].s
           c == Reached(s)
<1>1. /\ run[p].at = "savepoint" /\ UNCHANGED <<db, calls, denied>>
      /\ SavepointSet(p) \/ Raised(p)
  BY DEF SetSavepoint, SavepointSet, At
<1>2. CASE Raised(p)
  BY <1>1, <1>2, RaisedUndo
<1>3. CASE SavepointSet(p)
  <2>1. /\ \A q \in Procs : q # p => run'[q] = run[q]
        /\ \A t \in Sessions : t # s => sess'[t] = sess[t]
        /\ run'[p].at = "stmt" /\ run'[p].s = s
        /\ sess'[s].ac = c.ac /\ sess'[s].pending = c.pending /\ (sess'[s].sp <=> ~c.ac)
    BY <1>1, <1>3, SavepointFacts
  <2>2. c.pending \subseteq sess[s].pending
    BY <1>1, CallTypes, ReachedFacts
  <2>3. db \cap MyEff(p) = {}
    BY <1>1 DEF UndoInv, UndoCall
  <2> HIDE DEF c
  <2> QED
    BY <1>1, <2>1, <2>2, <2>3, UndoStep
<1> QED
  BY <1>1, <1>2, <1>3

LEMMA ExecuteUpdateUndo ==
  ASSUME TypesInv, UndoInv, NEW p \in Procs, ExecuteUpdate(p)
  PROVE  UndoInv'
<1> DEFINE s == run[p].s
           c == Reached(s)
<1>1. run[p].at = "stmt" /\ UNCHANGED <<calls, denied>>
  BY ExecuteUpdateCases
<1>2. CASE Raised(p) /\ UNCHANGED db
  BY <1>1, <1>2, RaisedUndo
<1>3. CASE \E rows \in {{}, {<<p, calls[p], run[p].i + 1>>}} : Executed(p, rows)
  <2>1. PICK rows \in {{}, {<<p, calls[p], run[p].i + 1>>}} : Executed(p, rows)
    BY <1>3
  <2>2. rows \subseteq MyEff(p)
    BY <1>1, RowsFacts
  <2>3. /\ \A q \in Procs : q # p => run'[q] = run[q]
        /\ \A t \in Sessions : t # s => sess'[t] = sess[t]
        /\ run'[p].at \in {"stmt", "finish"} /\ run'[p].s = s /\ run'[p].res \in 0..run'[p].i
        /\ run'[p].savepoint = run[p].savepoint /\ run' \in [Procs -> Run]
    BY <1>1, <2>1, ExecutedFacts
  <2>4. /\ sess'[s].up = c.up /\ sess'[s].ac = c.ac /\ sess'[s].sp = c.sp
        /\ c.ac => sess'[s] = c
        /\ ~c.ac => sess'[s].pending = c.pending \cup rows
    BY <1>1, <2>1, ExecutedFacts
  <2>5. /\ c \in Session /\ (sess[s].up => c = sess[s])
        /\ ~sess[s].up => ~c.sp /\ c.pending = {}
    BY <1>1, CallTypes, ReachedFacts
  <2>6. db' = IF c.ac THEN db \cup rows ELSE db
    BY <2>1 DEF Executed
  <2>7. run[p].savepoint /\ sess[s].up /\ sess[s].sp => ~sess[s].ac /\ db \cap MyEff(p) = {}
    BY <1>1 DEF UndoInv, UndoCall, Mine
  <2>8. run'[p].res # -3
    <3>1. run'[p].i \in Int /\ run'[p].res \in 0..run'[p].i
      BY <2>3 DEF Run
    <3> QED
      BY <3>1
  <2> HIDE DEF c
  <2>9. run'[p].savepoint /\ sess'[s].up /\ sess'[s].sp => ~sess'[s].ac /\ db' \cap MyEff(p) = {}
    BY <2>3, <2>4, <2>5, <2>6, <2>7
  <2>10. /\ db' \subseteq db \cup sess[s].pending \cup MyEff(p)
         /\ sess'[s].pending \subseteq sess[s].pending \cup MyEff(p)
    BY <2>2, <2>4, <2>5, <2>6
  <2> QED
    BY <1>1, <2>3, <2>8, <2>9, <2>10, UndoStep
<1> QED
  BY <1>2, <1>3, ExecuteUpdateCases

LEMMA FinishUndo == ASSUME TypesInv, UndoInv, NEW p \in Procs, Finish(p) PROVE UndoInv'
<1> DEFINE s == run[p].s
           c == Reached(s)
<1>1. run[p].at = "finish" /\ UNCHANGED <<calls, denied>>
  BY FinishCases
<1>2. /\ run[p].res # -3
      /\ run[p].savepoint /\ sess[s].up /\ sess[s].sp => db \cap MyEff(p) = {}
  BY <1>1 DEF UndoInv, UndoCall, Mine
<1>3. c \in Session /\ c.pending \subseteq sess[s].pending
  BY <1>1, CallTypes, ReachedFacts
<1>4. CASE Rollback(p)
  <2>1. /\ \A q \in Procs : q # p => run'[q] = run[q]
        /\ \A t \in Sessions : t # s => sess'[t] = sess[t]
        /\ run'[p].at = "release" /\ run'[p].s = s
    BY <1>1, <1>4, RollbackFacts
  <2>2. /\ \/ sess'[s].pending = {}
           \/ sess'[s].pending = c.pending
           \/ sess'[s].pending = c.pending \ MyEff(p)
           \/ sess'[s] = sess[s]
        /\ run'[p].res = -3 => /\ run[p].savepoint /\ sess[s].up /\ sess[s].sp
                               /\ sess'[s].pending = sess[s].pending \ MyEff(p)
    BY <1>1, <1>4, RollbackFacts
  <2>3. db' = db
    BY <1>4 DEF Rollback
  <2> HIDE DEF c
  <2>4. sess'[s].pending \subseteq sess[s].pending
    BY <1>3, <2>2
  <2>5. run'[p].res = -3 => (db' \cup sess'[s].pending) \cap MyEff(p) = {}
    BY <1>2, <2>2, <2>3
  <2> QED
    BY <1>1, <2>1, <2>3, <2>4, <2>5, UndoStep
<1>5. CASE Committed(p)
  <2>1. /\ \A q \in Procs : q # p => run'[q] = run[q]
        /\ \A t \in Sessions : t # s => sess'[t] = sess[t]
        /\ run'[p].at = "release" /\ run'[p].s = s /\ run'[p].res = run[p].res
        /\ sess'[s] = NoTrans(c)
    BY <1>1, <1>5, CommittedFacts
  <2>2. db' = db \cup c.pending /\ sess'[s].pending = {}
    BY <1>3, <1>5, <2>1, NoTransFacts DEF Committed
  <2> HIDE DEF c
  <2> QED
    BY <1>1, <1>2, <1>3, <2>1, <2>2, UndoStep
<1>6. CASE CommitRaised(p)
  <2>1. /\ \A q \in Procs : q # p => run'[q] = run[q]
        /\ \A t \in Sessions : t # s => sess'[t] = sess[t]
        /\ run'[p].at = "release" /\ run'[p].s = s /\ run'[p].res = -2
        /\ sess'[s].pending = {}
    BY <1>1, <1>6, CommitRaisedFacts
  <2>2. db' \subseteq db \cup sess[s].pending
    BY <1>6 DEF CommitRaised
  <2> QED
    BY <1>1, <2>1, <2>2, UndoStep
<1>7. CASE CommitRefused(p)
  <2>1. /\ \A q \in Procs : q # p => run'[q] = run[q]
        /\ \A t \in Sessions : t # s => sess'[t] = sess[t]
        /\ run'[p].at = "release" /\ run'[p].s = s /\ run'[p].res = -2
        /\ sess'[s] = sess[s] \/ sess'[s].pending = {}
    BY <1>1, <1>7, CommitRefusedFacts
  <2>2. db' = db
    BY <1>7 DEF CommitRefused
  <2> QED
    BY <1>1, <2>1, <2>2, UndoStep
<1>8. CASE Goto(p, "release") /\ UNCHANGED <<db, sess>>
  <2>1. /\ \A q \in Procs : q # p => run'[q] = run[q]
        /\ run'[p].at = "release" /\ run'[p].s = s /\ run'[p].res = run[p].res
    BY <1>1, <1>8, GotoFacts
  <2> QED
    BY <1>1, <1>2, <1>8, <2>1, UndoStep
<1> QED
  BY <1>4, <1>5, <1>6, <1>7, <1>8, FinishCases

\* A call whose session the step leaves alone, while nothing new is written.
LEMMA OtherUndo ==
  ASSUME NEW q \in Procs, UndoCall(q), run'[q] = run[q], calls'[q] = calls[q],
         run[q].at # "out" => sess'[run[q].s] = sess[run[q].s] /\ db' \cap MyEff(q) \subseteq db,
         \A t \in Sessions : sess'[t].pending \subseteq sess[t].pending
  PROVE  UndoCall(q)'
<1> SUFFICES ASSUME run[q].at # "out" PROVE UndoCall(q)'
  BY DEF UndoCall
<1>1. Mine(q)' = Mine(q) /\ MyEff(q)' = MyEff(q)
  BY DEF Mine, MyEff
<1>2. \A t \in Sessions : t # run[q].s => sess'[t].pending \cap MyEff(q) = {}
  BY DEF UndoCall
<1> QED
  BY <1>1, <1>2 DEF UndoCall

\* A new call of p has written nothing yet.
LEMMA LentUndo ==
  ASSUME TypesInv, UndoInv, NEW p \in Procs, NEW trans \in BOOLEAN, NEW affect \in {-1, Stmts},
         run[p].at = "out", NEW s \in idle, NEW ok \in BOOLEAN,
         Lent(p, trans, affect, s, ok), UNCHANGED db,
         calls'[p] = calls[p] + 1, \A q \in Procs : q # p => calls'[q] = calls[q]
  PROVE  UndoInv'
<1> DEFINE c == Reached(s)
<1>1. /\ s \in Sessions
      /\ \A q \in Procs : q # p => run'[q] = run[q]
      /\ \A t \in Sessions : t # s => sess'[t] = sess[t]
  BY LentFacts
<1>2. /\ run'[p].at \in {"savepoint", "stmt"} /\ run'[p].s = s
      /\ ~run'[p].savepoint /\ sess'[s].pending = c.pending
  BY LentFacts
<1>3. c.pending \subseteq sess[s].pending
  BY <1>1, ReachedFacts DEF TypesInv, TypeOK
<1>4. UNCHANGED denied
  BY DEF Lent
<1> HIDE DEF c
<1>5. \A t \in Sessions : sess'[t].pending \subseteq sess[t].pending
  BY <1>1, <1>2, <1>3
<1>6. Written' \subseteq Written
  BY <1>5 DEF Written
<1>7. MyEff(p)' \cap Written = {}
  <2>1. \A e \in Written : e[1] = p => e[2] # calls[p] + 1
    BY WrittenFacts DEF UndoInv, UndoHistory
  <2> QED
    BY <2>1 DEF MyEff, EffectsOf
<1>8. UndoCall(p)'
  <2>1. /\ \A t \in Sessions : sess'[t].pending \cap MyEff(p)' = {}
        /\ (db' \cup Mine(p)'.pending) \cap MyEff(p)' = {}
    BY <1>1, <1>2, <1>5, <1>7, WrittenFacts DEF Mine
  <2> QED
    BY <1>2, <2>1 DEF UndoCall
<1>9. ASSUME NEW q \in Procs, q # p PROVE UndoCall(q)'
  <2>1. run[q].at # "out" => run[q].s # s /\ run[q].s \in Sessions
    BY DEF TypesInv, RunOK
  <2> QED
    BY <1>1, <1>5, <1>9, <2>1, OtherUndo DEF UndoInv
<1>10. UndoHistory'
  <2>1. \A e \in Written' : e[2] <= calls'[e[1]]
    <3>1. ASSUME NEW e \in Written' PROVE e[2] <= calls'[e[1]]
      BY <1>6, WrittenFacts DEF UndoInv, UndoHistory
    <3> QED
      BY <3>1
  <2>2. ASSUME NEW e \in denied'
        PROVE  /\ e \notin Written' /\ e[2] <= calls'[e[1]]
               /\ e[2] = calls'[e[1]] => run'[e[1]].at = "out"
    <3>1. /\ e[1] \in Procs /\ e[2] \in Int /\ calls[e[1]] \in Int /\ e \notin Written
          /\ e[2] <= calls[e[1]] /\ (e[2] = calls[e[1]] => run[e[1]].at = "out")
      BY <1>4, WrittenFacts DEF UndoInv, UndoHistory
    <3>2. CASE e[1] = p
      BY <1>6, <3>1, <3>2
    <3>3. CASE e[1] # p
      BY <1>1, <1>6, <3>1, <3>3
    <3> QED
      BY <3>2, <3>3
  <2> QED
    BY <2>1, <2>2 DEF UndoHistory
<1> QED
  BY <1>8, <1>9, <1>10 DEF UndoInv

LEMMA RefusedUndo ==
  ASSUME TypesInv, UndoInv, NEW p \in Procs, NEW trans \in BOOLEAN,
         run[p].at = "out", Refused(p, trans), UNCHANGED db,
         calls'[p] = calls[p] + 1, \A q \in Procs : q # p => calls'[q] = calls[q]
  PROVE  UndoInv'
<1>1. /\ UNCHANGED <<run, denied>>
      /\ \A t \in Sessions : sess'[t] = sess[t] \/ (t \in idle /\ sess'[t] = Opened)
  BY RefusedFacts
<1>2. Opened.pending = {}
  BY DEF Opened
<1>3. \A t \in Sessions : sess'[t].pending \subseteq sess[t].pending
  BY <1>1, <1>2
<1>4. Written' \subseteq Written
  BY <1>3 DEF Written
<1>5. ASSUME NEW q \in Procs PROVE UndoCall(q)'
  <2>1. CASE q = p
    BY <1>1, <2>1 DEF UndoCall
  <2>2. CASE q # p
    <3>1. run[q].at # "out" => run[q].s \notin idle /\ run[q].s \in Sessions
      BY DEF TypesInv, RunOK
    <3>2. run[q].at # "out" => sess'[run[q].s] = sess[run[q].s]
      BY <1>1, <3>1
    <3> QED
      BY <1>1, <1>3, <2>2, <3>2, OtherUndo DEF UndoInv
  <2> QED
    BY <2>1, <2>2
<1>6. UndoHistory'
  <2>1. ASSUME NEW e \in Written' PROVE e[2] <= calls'[e[1]]
    BY <1>4, WrittenFacts DEF UndoInv, UndoHistory
  <2>2. ASSUME NEW e \in denied'
        PROVE  /\ e \notin Written' /\ e[2] <= calls'[e[1]]
               /\ e[2] = calls'[e[1]] => run'[e[1]].at = "out"
    <3>1. /\ e[1] \in Procs /\ e[2] \in Int /\ calls[e[1]] \in Int /\ e \notin Written
          /\ e[2] <= calls[e[1]] /\ (e[2] = calls[e[1]] => run[e[1]].at = "out")
      BY <1>1, WrittenFacts DEF UndoInv, UndoHistory
    <3> QED
      BY <1>1, <1>4, <3>1
  <2> QED
    BY <2>1, <2>2 DEF UndoHistory
<1> QED
  BY <1>5, <1>6 DEF UndoInv

LEMMA GetUndo ==
  ASSUME TypesInv, UndoInv, NEW p \in Procs, NEW trans \in BOOLEAN, NEW affect \in {-1, Stmts},
         GetConnection(p, trans, affect)
  PROVE  UndoInv'
<1>1. /\ run[p].at = "out" /\ UNCHANGED db
      /\ calls'[p] = calls[p] + 1 /\ \A q \in Procs : q # p => calls'[q] = calls[q]
  BY GetCases
<1>2. ASSUME NEW s \in idle, NEW ok \in BOOLEAN, Lent(p, trans, affect, s, ok) PROVE UndoInv'
  BY <1>1, <1>2, LentUndo
<1>3. CASE Refused(p, trans)
  BY <1>1, <1>3, RefusedUndo
<1> QED
  BY <1>2, <1>3, GetCases

LEMMA DropUndo == ASSUME TypesInv, UndoInv, NEW s \in Sessions, Drop(s) PROVE UndoInv'
<1>1. /\ \A t \in Sessions : t # s => sess'[t] = sess[t]
      /\ ~sess'[s].up /\ sess'[s].pending = {} /\ UNCHANGED <<db, calls, denied>>
  BY DropFacts
<1>2. \A q \in Procs :
        /\ run'[q].at = run[q].at /\ run'[q].s = run[q].s /\ run'[q].res = run[q].res
        /\ run'[q].savepoint = run[q].savepoint
  BY DropFacts
<1>3. \A t \in Sessions : sess'[t].pending \subseteq sess[t].pending
  BY <1>1
<1>4. Written' \subseteq Written
  BY <1>1, <1>3 DEF Written
<1>5. ASSUME NEW q \in Procs PROVE UndoCall(q)'
  <2> SUFFICES ASSUME run[q].at # "out" PROVE UndoCall(q)'
    BY <1>2 DEF UndoCall
  <2>1. /\ MyEff(q)' = MyEff(q) /\ Mine(q)' = sess'[run[q].s] /\ UndoCall(q)
        /\ run[q].s \in Sessions
    BY <1>1, <1>2, CallTypes DEF MyEff, Mine, UndoInv
  <2>2. \A t \in Sessions : t # run[q].s => sess'[t].pending \cap MyEff(q) = {}
    BY <1>3, <2>1 DEF UndoCall
  <2>3. Mine(q)'.pending \subseteq Mine(q).pending /\ (Mine(q)' = Mine(q) \/ ~Mine(q)'.up)
    BY <1>1, <1>3, <2>1 DEF Mine
  <2> QED
    BY <1>1, <1>2, <2>1, <2>2, <2>3 DEF UndoCall
<1>6. UndoHistory'
  <2>1. \A e \in denied : e[1] \in Procs
    BY WrittenFacts
  <2> QED
    BY <1>1, <1>2, <1>4, <2>1 DEF UndoInv, UndoHistory
<1> QED
  BY <1>5, <1>6 DEF UndoInv

\* What is released moves from the session to the database or goes.
LEMMA ReleaseUndo ==
  ASSUME TypesInv, UndoInv, NEW p \in Procs, ReleaseConnection(p)
  PROVE  UndoInv'
<1> DEFINE s == run[p].s
<1>1. /\ run[p].at = "release" /\ Restore(s)
      /\ run' = [run EXCEPT ![p] = NoRun] /\ UNCHANGED calls
      /\ denied' = denied \cup IF run[p].res = -3 THEN MyEff(p) ELSE {}
  BY DEF ReleaseConnection, Returns, MyEff, At
<1>2. /\ s \in Sessions \ idle /\ sess \in [Sessions -> Session] /\ sess[s] \in Session
      /\ run \in [Procs -> Run] /\ calls[p] \in Int
  BY <1>1, CallTypes
<1>3. run'[p].at = "out" /\ \A q \in Procs : q # p => run'[q] = run[q]
  BY <1>1, <1>2, NoRunType, RunSet
<1>4. /\ \A t \in Sessions : t # s => sess'[t] = sess[t]
      /\ \/ sess'[s] = sess[s] /\ db' = db
         \/ db' = db \cup Reached(s).pending /\ sess'[s] = Opened
         \/ sess'[s] \in AfterRaise(s) /\ db' = db
  BY <1>1, <1>2, RestoreFacts
<1>5. Reached(s).pending \subseteq sess[s].pending /\ Opened.pending = {}
  BY <1>2, ReachedFacts DEF Opened
<1>6. sess'[s] \in AfterRaise(s) => sess'[s].pending \subseteq sess[s].pending
  BY <1>2, RaiseFacts
<1>7. /\ \A t \in Sessions : sess'[t].pending \subseteq sess[t].pending
      /\ db' \subseteq db \cup sess[s].pending
  BY <1>4, <1>5, <1>6
<1>8. Written' \subseteq Written
  BY <1>2, <1>7 DEF Written
<1>9. ASSUME NEW q \in Procs PROVE UndoCall(q)'
  <2>1. CASE q = p
    BY <1>3, <2>1 DEF UndoCall
  <2>2. CASE q # p
    <3>1. run[q].at # "out" => run[q].s # s /\ run[q].s \in Sessions
      BY <1>1, <2>2 DEF TypesInv, RunOK
    <3>2. run[q].at # "out" => sess[s].pending \cap MyEff(q) = {}
      BY <1>2, <3>1 DEF UndoInv, UndoCall
    <3> QED
      BY <1>1, <1>3, <1>4, <1>7, <2>2, <3>1, <3>2, OtherUndo DEF UndoInv
  <2> QED
    BY <2>1, <2>2
<1>10. UndoHistory'
  <2>1. \A e \in Written' : e[2] <= calls[e[1]]
    BY <1>8 DEF UndoInv, UndoHistory
  <2>2. ASSUME NEW e \in denied'
        PROVE  /\ e \notin Written /\ e[2] <= calls[e[1]]
               /\ e[2] = calls[e[1]] => run'[e[1]].at = "out"
    <3>1. CASE e \in denied
      <4>1. e[1] \in Procs
        BY <3>1, WrittenFacts
      <4> QED
        BY <1>3, <3>1, <4>1 DEF UndoInv, UndoHistory
    <3>2. CASE run[p].res = -3 /\ e \in MyEff(p)
      <4>1. e[1] = p /\ e[2] = calls[p]
        BY <3>2, EffectsApart
      <4>2. UndoCall(p)
        BY DEF UndoInv
      <4>3. e \notin db /\ \A t \in Sessions : e \notin sess[t].pending
        BY <1>1, <3>2, <4>2 DEF UndoCall, Mine
      <4> QED
        BY <1>2, <1>3, <4>1, <4>3 DEF Written
    <3> QED
      BY <1>1, <3>1, <3>2
  <2> QED
    BY <1>1, <1>8, <2>1, <2>2 DEF UndoHistory
<1> QED
  BY <1>9, <1>10 DEF UndoInv

LEMMA InitUndo == Init => UndoInv
<1> SUFFICES ASSUME Init PROVE UndoInv
  OBVIOUS
<1>1. \A p \in Procs : UndoCall(p)
  BY NoRunType DEF Init, UndoCall
<1>2. \A s \in Sessions : sess[s].pending = {}
  BY DEF Init, Opened
<1>3. Written = {} /\ denied = {}
  BY <1>2 DEF Written, Init
<1> QED
  BY <1>1, <1>3 DEF UndoInv, UndoHistory

LEMMA NextUndo == TypesInv /\ UndoInv /\ [Next]_vars => UndoInv'
<1> SUFFICES ASSUME TypesInv, UndoInv, [Next]_vars PROVE UndoInv'
  OBVIOUS
<1>1. CASE UNCHANGED vars
  <2>1. Written' = Written /\ UNCHANGED <<db, sess, run, calls, denied>>
    BY <1>1 DEF vars, Written
  <2>2. UndoHistory'
    BY <2>1 DEF UndoInv, UndoHistory
  <2>3. \A p \in Procs : UndoCall(p)'
    BY <2>1, OtherUndo DEF UndoInv
  <2> QED
    BY <2>2, <2>3 DEF UndoInv
<1> QED
  BY <1>1, NextCases, DropUndo, GetUndo, SetSavepointUndo, ExecuteUpdateUndo, FinishUndo,
     ReleaseUndo

\* A call of ExecuteUpdates that returns -3 has nothing in the database, then or
\* later: whatever may fail, refusals of setAutoCommit, rollback and commit
\* included.
THEOREM RolledBackUndone == Spec => []RolledBackIsUndone
<1>1. TypesInv /\ UndoInv /\ [Next]_vars => TypesInv' /\ UndoInv'
  BY NextTypes, NextUndo
<1>2. Init => TypesInv /\ UndoInv
  BY InitTypes, InitUndo
<1>3. UndoInv => RolledBackIsUndone
  BY DEF UndoInv, UndoHistory, Written, RolledBackIsUndone
<1> QED
  BY <1>1, <1>2, <1>3, PTL DEF Spec

=============================================================================
