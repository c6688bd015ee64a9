-------------------------- MODULE MCMySQLConnPool --------------------------
(* Small instances of MySQLConnPool. *)
EXTENDS MySQLConnPool, TLC

CONSTANTS c1, c2

MCCallers == {c1, c2}
MCUntimed == {c2}
AllFaults == {"open", "reconnect", "setac"}
NoFaults == {}
=============================================================================
