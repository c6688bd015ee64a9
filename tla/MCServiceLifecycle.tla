------------------------- MODULE MCServiceLifecycle -------------------------
(* An instance of ServiceLifecycle for TLC. *)
EXTENDS ServiceLifecycle
CONSTANT w1
MCWorkers    == {w1}
MCConfigured == {"mysql", "redis", "lock"}
AllFaults    == {"network", "late", "refuse", "forget", "settings", "host", "bind", "crash"}
=============================================================================
