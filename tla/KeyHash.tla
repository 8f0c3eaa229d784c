------------------------------ MODULE KeyHash -------------------------------
(***************************************************************************)
(* hash of src/source/table.c: the sum of some characters of the key, in   *)
(* the arithmetic of C, where char is signed (x86) and % keeps the sign of *)
(* its left operand.  A key is the sequence of its bytes.                  *)
(***************************************************************************)
EXTENDS Integers, Sequences

Ascii == 1 .. 127

(* The byte b read as a char. *)
Char(b) == IF b < 128 THEN b ELSE b - 256

(* a % n of C. *)
Rem(a, n) == IF a >= 0 THEN a % n ELSE -((-a) % n)

(* All characters of a short key; the first two and the last two of a long *)
(* one.                                                                    *)
Sum(k) ==
    LET count == Len(k)
        at(i) == IF i \in 1 .. count THEN Char(k[i]) ELSE 0
    IN  IF count < 5 THEN at(1) + at(2) + at(3) + at(4)
        ELSE at(1) + at(2) + at(count) + at(count - 1)

(* Slip: the rows are counted from 1. *)
HashFromOne(k, n) == Rem(Sum(k), n) + 1

Hash(k, n) == Rem(Sum(k), n)
=============================================================================
