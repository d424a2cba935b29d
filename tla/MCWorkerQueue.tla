--------------------------- MODULE MCWorkerQueue ---------------------------
(* Instances of WorkerQueue for TLC. *)
EXTENDS QueueBoard
=============================================================================
