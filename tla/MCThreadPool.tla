---------------------------- MODULE MCThreadPool ----------------------------
(* An instance of ThreadPool for TLC. *)
EXTENDS ThreadPool
CONSTANTS w1, w2, w3, w4, p1, p2
MCWorkers   == {w1, w2, w3, w4}
MCProducers == {p1, p2}
AllFaults   == {"thread", "spurious"}
=============================================================================
