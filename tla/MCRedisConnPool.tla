-------------------------- MODULE MCRedisConnPool --------------------------
(* Small instances of RedisConnPool. *)
EXTENDS RedisConnPool, TLC

CONSTANTS r1, r2, r3, r4, r5

MCClients == {r1, r2, r3, r4, r5}
Mixed   == r1 :> "< 0" @@ r2 :> "> 0" @@ r3 :> "> 0" @@ r4 :> "= 0" @@ r5 :> "< 0"
Forever == r1 :> "< 0" @@ r2 :> "< 0" @@ r3 :> "< 0" @@ r4 :> "= 0" @@ r5 :> "< 0"
MCTimeouts    == {Mixed, Forever}
MixedTimeouts == {Mixed}
NoFaults  == {}
OpenFault == {"open"}
=============================================================================
