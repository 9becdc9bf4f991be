------------------------------- MODULE Words -------------------------------
(***************************************************************************)
(* A 32-bit register as the set of the positions of its 1 bits.  In this   *)
(* reading the C operators the simulator is written with are set operators *)
(*                                                                         *)
(*    x & y  is  x \cap y      x | y  is  x \cup y      x & ~y  is  x \ y  *)
(*                                                                         *)
(* and a shift moves every position, dropping the ones that leave the      *)
(* register, as a shift of a uint32_t does.                                *)
(***************************************************************************)
EXTENDS Integers

Bit == 0 .. 31

Word == SUBSET Bit

\* x << k
Shl(x, k) == {b \in Bit : b - k \in x}

\* x >> k, of an unsigned x
Shr(x, k) == {b \in Bit : b + k \in x}
=============================================================================
