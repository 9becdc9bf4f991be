------------------------------- MODULE Arith -------------------------------
(***************************************************************************)
(* The arithmetic of the decoder: what its C expressions compute on 32-bit *)
(* registers, at any register width of four bytes.  A register is read as  *)
(* uint32_t, a number below Span; Signed is its int32_t reading and Wrap   *)
(* the conversion of any integer back to uint32_t.                         *)
(***************************************************************************)
EXTENDS Integers

CONSTANT ByteBits   \* bits of a byte: 8 in the build

\* Words are no wider than a uint32_t, and have room for the bits of the CSRs
\* that the instructions' results depend on, of which MTIP is the highest.
ASSUME ArithAssumption == ByteBits \in 2 .. 8

XLEN     == 4 * ByteBits
Span     == 2^XLEN
ByteSpan == 2^ByteBits

Reg == 0 .. Span - 1

Wrap(n)   == n % Span
Signed(a) == IF 2 * a < Span THEN a ELSE a - Span

\* The positions of the 1 bits of a, and the number that has them (as
\* functions, which TLC evaluates once).
BitsOf    == [a \in Reg |-> {b \in 0 .. XLEN - 1 : (a \div 2^b) % 2 = 1}]
NumberOf  == [s \in SUBSET (0 .. XLEN - 1) |-> CHOOSE a \in Reg : BitsOf[a] = s]
Bits(a)   == BitsOf[a]
Number(s) == NumberOf[s \cap (0 .. XLEN - 1)]

And(a, b)    == Number(Bits(a) \cap Bits(b))
Or(a, b)     == Number(Bits(a) \cup Bits(b))
Xor(a, b)    == Number((Bits(a) \ Bits(b)) \cup (Bits(b) \ Bits(a)))

\* The comparisons of C give 0 or 1.
Truth(p) == IF p THEN 1 ELSE 0

\* n / m and n % m of C truncate the quotient towards zero.
Abs(n)     == IF n < 0 THEN -n ELSE n
Quot(n, m) == IF n < 0 <=> m < 0 THEN Abs(n) \div Abs(m) ELSE -(Abs(n) \div Abs(m))
Rest(n, m) == n - m * Quot(n, m)

\* rs2 & 0x1F
Shamt(b) == b % XLEN

-----------------------------------------------------------------------------
(* Mutated forms, for the runs that show the properties can be violated.   *)

ExtendUnwrapped(v, w) == IF 2 * v < 2^(w * ByteBits) THEN v ELSE v - 2^(w * ByteBits)

-----------------------------------------------------------------------------
(* The switches of the decoder.                                            *)

\* OP and OP-IMM; alt is bit 30 of the instruction, is_reg tells OP.
Op(f3, is_reg, alt, a, b) ==
  CASE f3 = 0 -> Wrap(IF is_reg /\ alt THEN a - b ELSE a + b)
    [] f3 = 1 -> Wrap(a * 2^Shamt(b))
    [] f3 = 2 -> Truth(Signed(a) < Signed(b))
    [] f3 = 3 -> Truth(a < b)
    [] f3 = 4 -> Xor(a, b)
    [] f3 = 5 -> IF alt THEN Wrap(Signed(a) \div 2^Shamt(b)) ELSE a \div 2^Shamt(b)
    [] f3 = 6 -> Or(a, b)
    [] f3 = 7 -> And(a, b)

\* INT32_MIN / -1, which overflows in C and is taken out first.
Overflows(a, b) == 2 * a = Span /\ b = Span - 1

\* RV32M.  The 64-bit products of MULHSU and MULHU are unsigned.
MulOp(f3, a, b) ==
  CASE f3 = 0 -> Wrap(a * b)
    [] f3 = 1 -> Wrap((Signed(a) * Signed(b)) \div Span)
    [] f3 = 2 -> ((Signed(a) * b) % (Span * Span)) \div Span
    [] f3 = 3 -> (a * b) \div Span
    [] f3 = 4 -> IF b = 0 THEN Span - 1
                 ELSE IF Overflows(a, b) THEN a ELSE Wrap(Quot(Signed(a), Signed(b)))
    [] f3 = 5 -> IF b = 0 THEN Span - 1 ELSE a \div b
    [] f3 = 6 -> IF b = 0 THEN a
                 ELSE IF Overflows(a, b) THEN 0 ELSE Wrap(Rest(Signed(a), Signed(b)))
    [] f3 = 7 -> IF b = 0 THEN a ELSE a % b

\* The conditions of the branches, and the encodings that are none.
Branches == {0, 1, 4, 5, 6, 7}

Taken(f3, a, b) ==
  CASE f3 = 0 -> a = b
    [] f3 = 1 -> a # b
    [] f3 = 4 -> Signed(a) < Signed(b)
    [] f3 = 5 -> Signed(a) >= Signed(b)
    [] f3 = 6 -> a < b
    [] f3 = 7 -> a >= b

\* What an atomic memory operation stores, of the word it loaded and rs2.
AmoOps == {0, 1, 4, 8, 12, 16, 20, 24, 28}

AmoResult(irmid, old, b) ==
  CASE irmid = 1  -> b
    [] irmid = 0  -> Wrap(b + old)
    [] irmid = 4  -> Xor(b, old)
    [] irmid = 12 -> And(b, old)
    [] irmid = 8  -> Or(b, old)
    [] irmid = 16 -> IF Signed(b) < Signed(old) THEN b ELSE old
    [] irmid = 20 -> IF Signed(b) > Signed(old) THEN b ELSE old
    [] irmid = 24 -> IF b < old THEN b ELSE old
    [] irmid = 28 -> IF b > old THEN b ELSE old

-----------------------------------------------------------------------------
(* Words in memory, least significant byte first, as on an x86 host.       *)

\* The 1, 2 or 4 bytes at address a of memory m as a number.
HalfWord(m, a) == m[a] + ByteSpan * m[a + 1]

Joined(m, a, w) ==
  CASE w = 1 -> m[a]
    [] w = 2 -> HalfWord(m, a)
    [] w = 4 -> HalfWord(m, a) + ByteSpan * ByteSpan * HalfWord(m, a + 2)

\* Byte k of v.
ByteOf(v, k) == (v \div 2^(k * ByteBits)) % ByteSpan

\* m after the low w bytes of v are stored at address a.
Stored(m, a, w, v) ==
  [b \in DOMAIN m |-> IF b \in a .. a + w - 1 THEN ByteOf(v, b - a) ELSE m[b]]

\* A number of w bytes read as int8_t or int16_t and converted to uint32_t.
Extend(v, w) == IF 2 * v < 2^(w * ByteBits) THEN v ELSE Wrap(v - 2^(w * ByteBits))
=============================================================================
