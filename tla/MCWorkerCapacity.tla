-------------------------- MODULE MCWorkerCapacity --------------------------
(* Instances of WorkerCapacity for TLC. *)
EXTENDS WorkerCapacity, TLC

CONSTANTS a, b, c

Sizes == (a :> 1) @@ (b :> 1) @@ (c :> 2)
=============================================================================
