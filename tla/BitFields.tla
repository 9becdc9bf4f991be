----------------------------- MODULE BitFields -----------------------------
(***************************************************************************)
(* Words put together with masks and shifts: the immediates of the decoder,*)
(* against the layouts of union instr in decoder.h, which say which bits of *)
(* the instruction are which bits of the immediate, and the word that      *)
(* update_dtb writes into the device tree.  Words are sets of bit          *)
(* positions, as in module Words.                                          *)
(***************************************************************************)
EXTENDS Words

\* The bits that are set in a mask that has its 1 bits from lo to hi.
Mask(lo, hi) == lo .. hi

\* if( x & 1 << sign ) x |= ones
SignFill(x, sign, ones) == IF sign \in x THEN x \cup ones ELSE x

-----------------------------------------------------------------------------
(* The decoder's expressions.                                              *)

\* imm = ir >> 20, and 0xfffff000 if bit 11 is set: JALR, loads, OP-IMM.
ImmI(ir) == SignFill(Shr(ir, 20), 11, Mask(12, 31))

\* ((ir >> 7) & 0x1f) | ((ir & 0xfe000000) >> 20)
ImmS(ir) ==
  SignFill((Shr(ir, 7) \cap Mask(0, 4)) \cup Shr(ir \cap Mask(25, 31), 20), 11, Mask(12, 31))

\* ((ir & 0xf00) >> 7) | ((ir & 0x7e000000) >> 20) | ((ir & 0x80) << 4)
\*   | ((ir >> 31) << 12)
ImmB(ir) ==
  SignFill(UNION {Shr(ir \cap Mask(8, 11), 7), Shr(ir \cap Mask(25, 30), 20),
                  Shl(ir \cap Mask(7, 7), 4), Shl(Shr(ir, 31), 12)},
           12, Mask(13, 31))

\* ir & 0xfffff000
ImmU(ir) == ir \cap Mask(12, 31)

\* ((ir & 0x80000000) >> 11) | ((ir & 0x7fe00000) >> 20)
\*   | ((ir & 0x00100000) >> 9) | (ir & 0x000ff000), and 0xffe00000
ImmJ(ir) ==
  SignFill(UNION {Shr(ir \cap Mask(31, 31), 11), Shr(ir \cap Mask(21, 30), 20),
                  Shr(ir \cap Mask(20, 20), 9), ir \cap Mask(12, 19)},
           20, Mask(21, 31))

\* (v >> 24) | (((v >> 16) & 0xff) << 8) | (((v >> 8) & 0xff) << 16)
\*   | ((v & 0xff) << 24): the size of memory, for the device tree.
Swapped(v) ==
  UNION {Shr(v, 24), Shl(Shr(v, 16) \cap Mask(0, 7), 8),
         Shl(Shr(v, 8) \cap Mask(0, 7), 16), Shl(v \cap Mask(0, 7), 24)}

-----------------------------------------------------------------------------
(* The layouts.                                                            *)

\* A field: its first and its last bit in the word, and the bit of the
\* immediate that its first bit is.
FieldsI == {<<20, 31, 0>>}
FieldsS == {<<7, 11, 0>>, <<25, 31, 5>>}
FieldsU == {<<12, 31, 12>>}
FieldsJ == {<<12, 19, 12>>, <<20, 20, 11>>, <<21, 30, 1>>, <<31, 31, 20>>}
FieldsB == {<<7, 7, 11>>, <<8, 11, 1>>, <<25, 30, 5>>, <<31, 31, 12>>}

\* Bit b of the immediate is in some field of the word, and is set there.
FromFields(fields, ir, b) ==
  \E f \in fields : b - f[3] + f[1] \in ir /\ b - f[3] + f[1] \in f[1] .. f[2]

\* The immediate whose sign is bit top, extended to 32 bits.
Immediate(fields, top, ir) ==
  {b \in Bit : FromFields(fields, ir, IF b > top THEN top ELSE b)}
=============================================================================
