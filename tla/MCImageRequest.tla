--------------------------- MODULE MCImageRequest ---------------------------
(* Instances of ImageRequest for TLC. *)
EXTENDS ImageRequest
CONSTANTS w1, w2
MCWorkers == {w1, w2}
OneWorker == {w1}
AllFaults == {"trans", "conf", "download", "model", "kafka"}
=============================================================================
