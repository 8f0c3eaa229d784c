-------------------------- MODULE MCPrimaryBackup ---------------------------
(* Two clients compete for one slot of the server, or three for two.       *)
(* Clients and values are interchangeable: no property names one.          *)
EXTENDS PrimaryBackup, TLC

Symmetry == Permutations(Clients) \cup Permutations(Values)
=============================================================================
