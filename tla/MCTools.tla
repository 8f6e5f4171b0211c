------------------------------ MODULE MCTools ------------------------------
(* Two runs of tools, each of any kind, beside the backend.  The runs are   *)
(* interchangeable.                                                         *)
EXTENDS Tools, TLC

Alike == Permutations(Runs)
=============================================================================
