------------------------------ MODULE MCFraming -----------------------------
(* Three messages, the sizes of a torn part and of a whole one among them. *)
EXTENDS Framing

MCSizes == <<1, 5, 3>>
=============================================================================
