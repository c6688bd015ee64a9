---------------------------- MODULE BoundedPool ----------------------------
(***************************************************************************)
(* What a connection pool promises its users, whatever it does inside: a   *)
(* connection belongs to one user at a time, a user has at most one, and   *)
(* no more than Size users have one.  The MySQL pool                       *)
(* (mysql_conn_pool.h) and the Redis pool (redis_conn_pool.h) both         *)
(* implement it; the distributed lock is modelled on top of it.            *)
(***************************************************************************)
EXTENDS Naturals, FiniteSets

CONSTANTS Users, Size

VARIABLE users  \* those that have a connection

Init == users = {}

Acquire(u) ==
  /\ u \notin users
  /\ Cardinality(users) < Size
  /\ users' = users \cup {u}

Release(u) ==
  /\ u \in users
  /\ users' = users \ {u}

Next == \E u \in Users : Acquire(u) \/ Release(u)

Spec == Init /\ [][Next]_users
=============================================================================
