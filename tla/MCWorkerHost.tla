---------------------------- MODULE MCWorkerHost ----------------------------
(* Instances of WorkerHost. *)
EXTENDS WorkerHost
CONSTANTS b1, b2
=============================================================================
