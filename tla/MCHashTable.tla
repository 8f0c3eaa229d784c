---------------------------- MODULE MCHashTable -----------------------------
(* Five keys in four slots: the table fills up, and the home slot of a key *)
(* can be taken by a displaced key of another home.                        *)
EXTENDS HashTable, TLC

CONSTANTS k1, k2, k3, k4, k5

MCKeys == {k1, k2, k3, k4, k5}

MCHash == (k1 :> 3) @@ (k2 :> 3) @@ (k3 :> 2) @@ (k4 :> 2) @@ (k5 :> 0)
=============================================================================
