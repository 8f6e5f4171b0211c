------------------------------ MODULE MCPages ------------------------------
(* Two tabs with any pages that meet in the backend, in the accounts or in  *)
(* the ids of the problems; a list of problems, which uses no id, is taken  *)
(* beside another.  The tabs are interchangeable.                           *)
EXTENDS Pages, TLC

Alike == Permutations(Tabs)

MCInit == /\ Init
          /\ \A t, u \in Tabs : kind[t] \in {"register", "list"} => kind[u] = kind[t]

MCSpec == MCInit /\ [][Next]_vars
=============================================================================
