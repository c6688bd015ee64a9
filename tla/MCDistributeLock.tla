-------------------------- MODULE MCDistributeLock --------------------------
(* An instance of DistributeLock for TLC. *)
EXTENDS DistributeLock

CONSTANTS p1, p2, slot

MCProcs   == {p1, p2}
MCLost    == {slot}
AllFaults == {"open", "id", "reply"}
=============================================================================
