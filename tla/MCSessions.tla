----------------------------- MODULE MCSessions -----------------------------
EXTENDS Sessions, TLC

CONSTANTS b1, b2, r1, r2, r3

(* The first browser has two tabs, the second one.                             *)
MCBrowserOf == [r \in Requests |-> IF r = r3 THEN b2 ELSE b1]

(* The two tabs are interchangeable.                                           *)
Alike == Permutations({r1, r2})
=============================================================================
