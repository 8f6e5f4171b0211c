---------------------------- MODULE MCWorkerPool ----------------------------
(* The worker pool with fewer workers than submissions: one submission has  *)
(* to wait, and shutdown() finds it queued.                                 *)
EXTENDS WorkerPool
==============================================================================
