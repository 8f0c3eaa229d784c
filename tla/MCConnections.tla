--------------------------- MODULE MCConnections ----------------------------
(* One client more than there are slots for clients. *)
EXTENDS Connections

CONSTANTS c1, c2, c3
=============================================================================
