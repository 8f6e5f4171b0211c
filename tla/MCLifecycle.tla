------------------------------ MODULE MCLifecycle ------------------------------
(* The process with fewer HTTP threads than requests and one judge worker.   *)
EXTENDS Lifecycle
===============================================================================
