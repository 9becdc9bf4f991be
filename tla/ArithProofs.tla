---------------------------- MODULE ArithProofs ----------------------------
(***************************************************************************)
(* Words as numbers and as the sets of their 1 bits, for every width: the  *)
(* two readings are in bijection, and what the decoder's arithmetic does   *)
(* to one is said of the other.                                            *)
(***************************************************************************)
EXTENDS Arith, BitFields, FiniteSetTheorems, NaturalsInduction, TLAPS

-----------------------------------------------------------------------------
(* Masks and shifts: for every 32-bit word they and the layouts agree.     *)

\* The immediate of JALR, loads and OP-IMM (decoder.cpp:27, 57, 142).
THEOREM ImmediateI == \A ir \in Word : ImmI(ir) = Immediate(FieldsI, 11, ir)
  BY DEF Word, Bit, ImmI, SignFill, Shr, Mask, Immediate, FromFields, FieldsI

\* The immediate of the stores, in two fields (decoder.cpp:95).
THEOREM ImmediateS == \A ir \in Word : ImmS(ir) = Immediate(FieldsS, 11, ir)
  BY DEF Word, Bit, ImmS, SignFill, Shr, Mask, Immediate, FromFields, FieldsS

\* The offset of the branches, in four fields (decoder.cpp:35).
THEOREM ImmediateB == \A ir \in Word : ImmB(ir) = Immediate(FieldsB, 12, ir)
  BY DEF Word, Bit, ImmB, SignFill, Shr, Shl, Mask, Immediate, FromFields, FieldsB

\* The upper immediate of LUI and AUIPC (decoder.cpp:9, 14).
THEOREM ImmediateU == \A ir \in Word : ImmU(ir) = Immediate(FieldsU, 31, ir)
  BY DEF Word, Bit, ImmU, Mask, Immediate, FromFields, FieldsU

\* The offset of JAL, in four fields (decoder.cpp:19).
THEOREM ImmediateJ == \A ir \in Word : ImmJ(ir) = Immediate(FieldsJ, 20, ir)
  BY DEF Word, Bit, ImmJ, SignFill, Shr, Mask, Immediate, FromFields, FieldsJ

\* The second register of OP and the amount of a shift are taken from the
\* extended immediate (decoder.cpp:146, 171): they are bits 24..20 of the word.
THEOREM OpOperand ==
  \A ir \in Word : ImmI(ir) \cap Mask(0, 4) = Shr(ir, 20) \cap Mask(0, 4)
  BY DEF Word, Bit, ImmI, SignFill, Shr, Mask

\* The offsets of branches and JAL are even.
THEOREM OffsetsEven == \A ir \in Word : 0 \notin ImmB(ir) \cup ImmJ(ir)
  BY DEF Word, Bit, ImmB, ImmJ, SignFill, Shr, Shl, Mask

\* Byte k of a word.
Byte(v, k) == {b \in 0 .. 7 : 8 * k + b \in v}

\* The size of memory is big-endian in the device tree, as its format has it:
\* the bytes are reversed, and nothing is left of the sum of masks but those
\* (sim.cpp:42).
THEOREM SwappedReverses ==
  \A v \in Word : Swapped(v) \in Word /\ \A k \in 0 .. 3 : Byte(Swapped(v), k) = Byte(v, 3 - k)
<1> SUFFICES ASSUME NEW v \in Word
             PROVE  Swapped(v) \in Word /\ \A k \in 0 .. 3 : Byte(Swapped(v), k) = Byte(v, 3 - k)
  OBVIOUS
<1>1. Swapped(v) \in Word
  BY DEF Word, Bit, Swapped, Shr, Shl, Mask
<1>2. Byte(Swapped(v), 0) = Byte(v, 3) /\ Byte(Swapped(v), 1) = Byte(v, 2)
  BY DEF Word, Bit, Swapped, Shr, Shl, Mask, Byte
<1>3. Byte(Swapped(v), 2) = Byte(v, 1) /\ Byte(Swapped(v), 3) = Byte(v, 0)
  BY DEF Word, Bit, Swapped, Shr, Shl, Mask, Byte
<1>4. \A k \in 0 .. 3 : (k = 0 /\ 3 - k = 3) \/ (k = 1 /\ 3 - k = 2)
                        \/ (k = 2 /\ 3 - k = 1) \/ (k = 3 /\ 3 - k = 0)
  OBVIOUS
<1> QED
  BY <1>1, <1>2, <1>3, <1>4

-----------------------------------------------------------------------------
(* Induction, powers of 2 and division.                                    *)

LEMMA Induct ==
  ASSUME NEW T, 0 \in T, \A n \in Nat : n \in T => n + 1 \in T
  PROVE  Nat \subseteq T
<1> DEFINE U == Nat \ T
<1>1. SUFFICES ASSUME U # {} PROVE FALSE
  OBVIOUS
<1>2. PICK x \in U : \A y \in U : ~(<<y, x>> \in OpToRel(<, Nat))
  <2>1. U \subseteq Nat
    OBVIOUS
  <2> HIDE DEF U
  <2> QED
    BY <1>1, <2>1, NatLessThanWellFounded, WFMin, Zenon
<1>3. \A y \in U : ~(y < x)
  <2>1. U \subseteq Nat
    OBVIOUS
  <2> HIDE DEF U
  <2> QED
    BY <1>2, <2>1 DEF OpToRel
<1> QED
  BY <1>3

LEMMA PowSucc ==
  ASSUME NEW n \in Nat
  PROVE  2^n \in Nat /\ 2^n > 0 /\ 2^(n + 1) = 2 * 2^n
<1> DEFINE S == 1 .. n
           T == 1 .. n + 1
           C == {t \in SUBSET T : n + 1 \in t}
           f == [s \in SUBSET S |-> s \cup {n + 1}]
<1>1. /\ IsFiniteSet(SUBSET S) /\ Cardinality(SUBSET S) = 2^n
      /\ IsFiniteSet(SUBSET T) /\ Cardinality(SUBSET T) = 2^(n + 1)
  <2>1. IsFiniteSet(S) /\ Cardinality(S) = n
    BY FS_Interval
  <2>2. IsFiniteSet(T) /\ Cardinality(T) = n + 1
    BY FS_Interval
  <2> QED
    BY <2>1, <2>2, FS_SUBSET
<1>2. f \in Bijection(SUBSET S, C)
  <2>1. f \in [SUBSET S -> C]
    OBVIOUS
  <2>2. \A s, t \in SUBSET S : f[s] = f[t] => s = t
    OBVIOUS
  <2>3. \A c \in C : \E s \in SUBSET S : f[s] = c
    <3>1. \A c \in C : c \ {n + 1} \in SUBSET S /\ f[c \ {n + 1}] = c
      OBVIOUS
    <3> QED
      BY <3>1
  <2> HIDE DEF f, C, S
  <2>4. f \in Injection(SUBSET S, C)
    BY <2>1, <2>2 DEF Injection, IsInjective
  <2>5. f \in Surjection(SUBSET S, C)
    BY <2>1, <2>3 DEF Surjection
  <2> QED
    BY <2>4, <2>5 DEF Bijection
<1>3. IsFiniteSet(C) /\ Cardinality(C) = 2^n
  BY <1>1, <1>2, FS_Bijection DEF ExistsBijection
<1>4. SUBSET T = (SUBSET S) \cup C /\ (SUBSET S) \cap C = {}
  <2>1. T = S \cup {n + 1} /\ n + 1 \notin S
    OBVIOUS
  <2> HIDE DEF T, S
  <2> QED
    BY <2>1
<1>6. Cardinality(SUBSET S) \in Nat /\ Cardinality(SUBSET S) # 0
  <2>1. SUBSET S # {}
    OBVIOUS
  <2> HIDE DEF S
  <2> QED
    BY <1>1, <2>1, FS_EmptySet, FS_CardinalityType, Zenon
<1> HIDE DEF S, T, C, f
<1>5. Cardinality(SUBSET T) = Cardinality(SUBSET S) + Cardinality(C) - 0
  <2>1. Cardinality((SUBSET S) \cup C)
          = Cardinality(SUBSET S) + Cardinality(C) - Cardinality((SUBSET S) \cap C)
    BY <1>1, <1>3, FS_Union
  <2>2. Cardinality((SUBSET S) \cap C) = 0
    BY <1>4, FS_EmptySet
  <2> QED
    BY <1>4, <2>1, <2>2
<1> QED
  BY <1>1, <1>3, <1>5, <1>6

LEMMA Product ==
  ASSUME NEW m \in Int, NEW x \in Int, NEW y \in Int, m > 0, x < y
  PROVE  m * x + m <= m * y /\ m * x < m * y
<1>1. m * (x + 1) = m * x + m
  OBVIOUS
<1>2. m * (x + 1) <= m * y
  OBVIOUS
<1> QED
  BY <1>1, <1>2

LEMMA DivMod ==
  ASSUME NEW a \in Int, NEW m \in Int, m > 0
  PROVE  /\ a \div m \in Int /\ a % m \in 0 .. m - 1
         /\ a = m * (a \div m) + (a % m)
  BY Z3

LEMMA DivUnique ==
  ASSUME NEW a \in Int, NEW m \in Int, m > 0, NEW q \in Int, NEW r \in 0 .. m - 1,
         a = m * q + r
  PROVE  a \div m = q /\ a % m = r
<1> DEFINE p == a \div m
           s == a % m
<1>1. p \in Int /\ s \in 0 .. m - 1 /\ a = m * p + s
  BY DivMod
<1> HIDE DEF p, s
<1>2. ~(p < q)
  BY <1>1, Product
<1>3. ~(q < p)
  BY <1>1, Product
<1>4. p = q /\ s = r
  BY <1>1, <1>2, <1>3
<1> QED
  BY <1>4 DEF p, s

LEMMA DivDiv ==
  ASSUME NEW a \in Int, NEW m \in Int, m > 0, NEW n \in Int, n > 0
  PROVE  (a \div m) \div n = a \div (m * n)
<1> DEFINE u == a \div m
           r == a % m
           v == u \div n
           s == u % n
<1>1. u \in Int /\ r \in 0 .. m - 1 /\ a = m * u + r
  BY DivMod
<1>2. v \in Int /\ s \in 0 .. n - 1 /\ u = n * v + s
  BY <1>1, DivMod
<1> HIDE DEF u, r, v, s
<1>3. m * u = (m * n) * v + m * s
  <2>1. m * (n * v + s) = m * (n * v) + m * s
    BY <1>2
  <2>2. m * (n * v) = (m * n) * v
    BY <1>2
  <2> QED
    BY <1>2, <2>1, <2>2
<1>4. m * s + m <= m * n /\ 0 <= m * s /\ m * n \in Int /\ m * n > 0 /\ m * s \in Int
  BY <1>2, Product
<1>5. a = (m * n) * v + (m * s + r) /\ m * s + r \in 0 .. (m * n) - 1
  BY <1>1, <1>2, <1>3, <1>4
<1>6. a \div (m * n) = v
  BY <1>2, <1>4, <1>5, DivUnique
<1> QED
  BY <1>6 DEF v, u

-----------------------------------------------------------------------------
(* Bits of a number.                                                       *)

\* 2^n, which the provers are to see as a number only.
Pow(n) == 2^n

\* Bit b of a is set.
BitAt(a, b) == (a \div Pow(b)) % 2 = 1

LEMMA PowType ==
  ASSUME NEW n \in Nat
  PROVE  Pow(n) \in Int /\ Pow(n) > 0 /\ Pow(n + 1) = 2 * Pow(n)
  BY PowSucc DEF Pow

LEMMA PowZero == Pow(0) = 1
  BY DEF Pow

LEMMA PowAdd ==
  ASSUME NEW m \in Nat, NEW n \in Nat
  PROVE  Pow(m + n) = Pow(m) * Pow(n)
<1> DEFINE T == {k \in Nat : Pow(m + k) = Pow(m) * Pow(k)}
<1>1. 0 \in T
  BY PowZero, PowType
<1>2. ASSUME NEW k \in Nat, k \in T PROVE k + 1 \in T
  <2>1. Pow(m + k) = Pow(m) * Pow(k)
    BY <1>2
  <2>2. Pow((m + k) + 1) = 2 * Pow(m + k) /\ Pow(k + 1) = 2 * Pow(k)
    BY PowType
  <2>3. Pow(m + (k + 1)) = Pow((m + k) + 1)
    <3>1. m + (k + 1) = (m + k) + 1
      OBVIOUS
    <3> QED
      BY <3>1
  <2>4. Pow(m) * (2 * Pow(k)) = 2 * (Pow(m) * Pow(k))
    BY PowType
  <2> QED
    BY <2>1, <2>2, <2>3, <2>4
<1> HIDE DEF T
<1>3. Nat \subseteq T
  BY <1>1, <1>2, Induct
<1> QED
  BY <1>3 DEF T

\* Smaller exponents divide.
LEMMA PowSplit ==
  ASSUME NEW m \in Nat, NEW n \in Nat, m <= n
  PROVE  /\ Pow(n) = Pow(m) * Pow(n - m)
         /\ Pow(m) <= Pow(n)
         /\ m < n => Pow(n) = Pow(m) * (2 * Pow(n - m - 1)) /\ Pow(m) < Pow(n)
<1>1. Pow(n) = Pow(m) * Pow(n - m)
  <2>1. m + (n - m) = n /\ n - m \in Nat
    OBVIOUS
  <2> QED
    BY <2>1, PowAdd
<1>2. Pow(n - m) \in Int /\ Pow(n - m) >= 1 /\ Pow(m) \in Int /\ Pow(m) > 0
  BY PowType
<1>3. Pow(m) * 1 <= Pow(m) * Pow(n - m)
  BY <1>2
<1>4. ASSUME m < n PROVE Pow(n - m) = 2 * Pow(n - m - 1) /\ Pow(n - m) > 1
  <2>1. n - m - 1 \in Nat /\ (n - m - 1) + 1 = n - m
    BY <1>4
  <2>2. Pow(n - m) = Pow((n - m - 1) + 1)
    BY <2>1
  <2>3. Pow((n - m - 1) + 1) = 2 * Pow(n - m - 1) /\ Pow(n - m - 1) \in Int /\ Pow(n - m - 1) > 0
    BY <2>1, PowType
  <2> QED
    BY <2>2, <2>3
<1>5. ASSUME m < n PROVE Pow(m) < Pow(m) * Pow(n - m)
  BY <1>2, <1>4, <1>5, Product
<1> QED
  BY <1>1, <1>2, <1>3, <1>4, <1>5

LEMMA Half2 ==
  ASSUME NEW a \in Int
  PROVE  a \div 2 \in Int /\ a % 2 \in {0, 1} /\ a = 2 * (a \div 2) + (a % 2)
  BY DivMod

\* A number is its lowest bit and the others, moved down.
LEMMA BitAtStep ==
  ASSUME NEW a \in Int, NEW b \in Nat
  PROVE  /\ BitAt(a, 0) <=> a % 2 = 1
         /\ BitAt(a, b + 1) <=> BitAt(a \div 2, b)
<1>1. a \div 1 = a
  BY DivUnique
<1>2. (a \div 2) \div Pow(b) = a \div Pow(b + 1)
  BY PowType, DivDiv
<1> QED
  BY <1>1, <1>2, PowZero DEF BitAt

\* Numbers of n bits are equal if all their bits are.
LEMMA SameBits ==
  ASSUME NEW n \in Nat, NEW a \in 0 .. Pow(n) - 1, NEW c \in 0 .. Pow(n) - 1,
         \A b \in 0 .. n - 1 : BitAt(a, b) <=> BitAt(c, b)
  PROVE  a = c
<1> DEFINE Same(k, u, v) == \A b \in 0 .. k - 1 : BitAt(u, b) <=> BitAt(v, b)
           T == {k \in Nat : \A u, v \in 0 .. Pow(k) - 1 : Same(k, u, v) => u = v}
<1>1. 0 \in T
  BY PowZero
<1>2. ASSUME NEW k \in Nat, k \in T PROVE k + 1 \in T
  <2> SUFFICES ASSUME NEW u \in 0 .. Pow(k + 1) - 1, NEW v \in 0 .. Pow(k + 1) - 1, Same(k + 1, u, v)
               PROVE  u = v
    OBVIOUS
  <2>0. u \in Int /\ v \in Int /\ Pow(k) \in Int /\ Pow(k + 1) = 2 * Pow(k)
    BY PowType
  <2>1. u \div 2 \in 0 .. Pow(k) - 1 /\ v \div 2 \in 0 .. Pow(k) - 1
    BY <2>0, Half2
  <2>2. u % 2 = v % 2
    <3>1. BitAt(u, 0) <=> BitAt(v, 0)
      OBVIOUS
    <3> QED
      BY <2>0, <3>1, BitAtStep, Half2
  <2>3. Same(k, u \div 2, v \div 2)
    <3> SUFFICES ASSUME NEW b \in 0 .. k - 1 PROVE BitAt(u \div 2, b) <=> BitAt(v \div 2, b)
      OBVIOUS
    <3>1. b + 1 \in 0 .. (k + 1) - 1 /\ b \in Nat
      OBVIOUS
    <3>2. BitAt(u, b + 1) <=> BitAt(v, b + 1)
      BY <3>1
    <3> QED
      BY <2>0, <3>1, <3>2, BitAtStep
  <2>4. u \div 2 = v \div 2
    BY <1>2, <2>1, <2>3
  <2> QED
    BY <2>0, <2>2, <2>4, Half2
<1>3. Nat \subseteq T
  <2> HIDE DEF T
  <2> QED
    BY <1>1, <1>2, Induct
<1>4. Same(n, a, c)
  OBVIOUS
<1> QED
  BY <1>3, <1>4

-----------------------------------------------------------------------------
(* Registers and the sets of their 1 bits.                                 *)

\* The sizes, as numbers.
LEMMA Sizes ==
  /\ ByteBits \in Nat /\ ByteBits >= 2
  /\ XLEN \in Nat /\ XLEN >= 8 /\ XLEN <= 32
  /\ Span = Pow(XLEN) /\ ByteSpan = Pow(ByteBits)
  BY ArithAssumption DEF XLEN, Span, ByteSpan, Pow

LEMMA SpanType ==
  /\ Span \in Int /\ ByteSpan \in Int
  /\ ByteSpan >= 4
  /\ Span >= 256
  /\ Span = 2 * Pow(XLEN - 1) /\ Pow(XLEN - 1) \in Int /\ Pow(XLEN - 1) >= 128
<1>1. /\ Pow(1) = 2 /\ Pow(2) = 4 /\ Pow(7) = 128
  BY DEF Pow
<1>2. Pow(2) <= Pow(ByteBits)
  BY Sizes, PowSplit
<1>3. XLEN - 1 \in Nat /\ 7 <= XLEN - 1 /\ (XLEN - 1) + 1 = XLEN
  BY Sizes
<1>4. Pow(7) <= Pow(XLEN - 1)
  BY <1>3, PowSplit
<1>5. Pow(XLEN) = Pow((XLEN - 1) + 1)
  BY <1>3
<1> QED
  BY <1>1, <1>2, <1>3, <1>4, <1>5, Sizes, PowType

\* A word has four bytes.
LEMMA SpanBytes == Span = ByteSpan * ByteSpan * ByteSpan * ByteSpan
<1>1. XLEN = (ByteBits + ByteBits) + (ByteBits + ByteBits)
  BY Sizes DEF XLEN
<1>2. Pow(ByteBits + ByteBits) = ByteSpan * ByteSpan
  BY Sizes, PowAdd
<1>3. Pow((ByteBits + ByteBits) + (ByteBits + ByteBits)) = (ByteSpan * ByteSpan) * (ByteSpan * ByteSpan)
  BY <1>2, Sizes, PowAdd
<1>4. (ByteSpan * ByteSpan) * (ByteSpan * ByteSpan) = ByteSpan * ByteSpan * ByteSpan * ByteSpan
  BY SpanType
<1> QED
  BY <1>1, <1>3, <1>4, Sizes

LEMMA BitsAre ==
  ASSUME NEW a \in Reg
  PROVE  /\ Bits(a) \in SUBSET (0 .. XLEN - 1)
         /\ \A b \in 0 .. XLEN - 1 : b \in Bits(a) <=> BitAt(a, b)
  BY DEF Bits, BitsOf, BitAt, Pow

\* A register is known by its bits.
LEMMA BitsInjective ==
  ASSUME NEW a \in Reg, NEW c \in Reg, Bits(a) = Bits(c)
  PROVE  a = c
<1>1. a \in 0 .. Pow(XLEN) - 1 /\ c \in 0 .. Pow(XLEN) - 1
  BY Sizes DEF Reg
<1>2. \A b \in 0 .. XLEN - 1 : BitAt(a, b) <=> BitAt(c, b)
  BY BitsAre
<1> QED
  BY <1>1, <1>2, Sizes, SameBits

\* And every set of bits is that of a register: there are as many of both.
LEMMA BitsOnto ==
  ASSUME NEW s \in SUBSET (0 .. XLEN - 1)
  PROVE  \E a \in Reg : Bits(a) = s
<1> DEFINE Sets == SUBSET (0 .. XLEN - 1)
<1>1. BitsOf \in Injection(Reg, Sets)
  <2>1. BitsOf \in [Reg -> Sets]
    BY DEF BitsOf
  <2>2. \A a, c \in Reg : BitsOf[a] = BitsOf[c] => a = c
    BY BitsInjective DEF Bits
  <2> HIDE DEF Sets
  <2> QED
    BY <2>1, <2>2 DEF Injection, IsInjective
<1>2. IsFiniteSet(Sets) /\ Cardinality(Sets) = Pow(XLEN)
  <2>1. IsFiniteSet(0 .. XLEN - 1) /\ Cardinality(0 .. XLEN - 1) = XLEN
    BY Sizes, FS_Interval
  <2> QED
    BY <2>1, FS_SUBSET DEF Pow
<1>3. Cardinality(Reg) = Pow(XLEN)
  BY Sizes, SpanType, FS_Interval DEF Reg
<1> HIDE DEF Sets
<1>4. BitsOf \in Surjection(Reg, Sets)
  BY <1>1, <1>2, <1>3, FS_Injection
<1>5. s \in Sets
  BY DEF Sets
<1> QED
  BY <1>4, <1>5 DEF Surjection, Bits

\* Number is the inverse of Bits.
LEMMA BitsNumber ==
  ASSUME NEW s
  PROVE  Number(s) \in Reg /\ Bits(Number(s)) = s \cap (0 .. XLEN - 1)
<1> DEFINE t == s \cap (0 .. XLEN - 1)
<1>1. t \in SUBSET (0 .. XLEN - 1)
  OBVIOUS
<1> HIDE DEF t
<1>2. \E a \in Reg : BitsOf[a] = t
  BY <1>1, BitsOnto DEF Bits
<1>3. NumberOf[t] \in Reg /\ BitsOf[NumberOf[t]] = t
  BY <1>1, <1>2 DEF NumberOf
<1> QED
  BY <1>3 DEF t, Number, Bits

LEMMA NumberBits ==
  ASSUME NEW a \in Reg
  PROVE  Number(Bits(a)) = a
<1>1. Bits(a) \cap (0 .. XLEN - 1) = Bits(a)
  BY BitsAre
<1> QED
  BY <1>1, BitsNumber, BitsInjective

-----------------------------------------------------------------------------
(* What the decoder's switches compute is a word.                          *)

LEMMA WrapType ==
  ASSUME NEW n \in Int
  PROVE  Wrap(n) \in Reg
  BY SpanType, DivMod DEF Wrap, Reg

LEMMA SignedType ==
  ASSUME NEW a \in Reg
  PROVE  /\ Signed(a) \in Int
         /\ 2 * Signed(a) >= -Span /\ 2 * Signed(a) < Span
         /\ (Signed(a) = a /\ 2 * a < Span) \/ (Signed(a) = a - Span /\ 2 * a >= Span)
  BY SpanType DEF Signed, Reg

\* A quotient by a positive number is no further from 0.
LEMMA DivBound ==
  ASSUME NEW a \in Int, a >= 0, NEW m \in Int, m > 0
  PROVE  /\ a \div m \in Int /\ 0 <= a \div m /\ a \div m <= a
         /\ (m > 1 /\ a > 0) => a \div m < a
<1> DEFINE q == a \div m
           r == a % m
<1>1. q \in Int /\ r \in 0 .. m - 1 /\ a = m * q + r
  BY DivMod
<1> HIDE DEF q, r
<1>2. q >= 0
  <2>1. CASE q < 0
    BY <1>1, <2>1, Product
  <2> QED
    BY <1>1, <2>1
<1>3. m * q >= q
  BY <1>1, <1>2
<1>4. (m > 1 /\ q > 0) => m * q > q
  BY <1>1
<1> QED
  BY <1>1, <1>2, <1>3, <1>4 DEF q

LEMMA AbsType ==
  ASSUME NEW n \in Int
  PROVE  Abs(n) \in Int /\ Abs(n) >= 0 /\ (Abs(n) = n \/ Abs(n) = -n)
  BY DEF Abs

LEMMA QuotType ==
  ASSUME NEW n \in Int, NEW m \in Int, m # 0
  PROVE  Quot(n, m) \in Int /\ Rest(n, m) \in Int
<1>1. Abs(n) \in Int /\ Abs(m) \in Int /\ Abs(m) > 0
  BY DEF Abs
<1>2. Abs(n) \div Abs(m) \in Int
  BY <1>1, DivMod
<1>3. Quot(n, m) \in Int
  BY <1>2 DEF Quot
<1> QED
  BY <1>3 DEF Rest

LEMMA ShamtType ==
  ASSUME NEW b \in Reg
  PROVE  Shamt(b) \in 0 .. XLEN - 1 /\ Shamt(b) \in Nat
  BY Sizes, SpanType, DivMod DEF Shamt, Reg

LEMMA OpType ==
  ASSUME NEW f3 \in 0 .. 7, NEW is_reg, NEW alt, NEW a \in Reg, NEW b \in Reg
  PROVE  Op(f3, is_reg, alt, a, b) \in Reg
<1>1. a \in Int /\ b \in Int /\ a >= 0 /\ 0 \in Reg /\ 1 \in Reg
  BY SpanType DEF Reg
<1> DEFINE p == 2^Shamt(b)
<1>2. p \in Int /\ p > 0
  BY ShamtType, PowType DEF Pow
<1>3. CASE f3 = 0
  <2>1. Wrap(a + b) \in Reg /\ Wrap(a - b) \in Reg
    BY <1>1, WrapType
  <2> QED
    BY <1>3, <2>1 DEF Op
<1>4. CASE f3 = 1
  <2>1. Wrap(a * p) \in Reg
    BY <1>1, <1>2, WrapType
  <2> QED
    BY <1>4, <2>1 DEF Op
<1>5. CASE f3 \in {2, 3}
  BY <1>1, <1>5 DEF Op, Truth
<1>6. CASE f3 \in {4, 6, 7}
  BY <1>6, BitsNumber DEF Op, Xor, Or, And
<1>7. CASE f3 = 5
  <2>1. Wrap(Signed(a) \div p) \in Reg
    BY <1>2, SignedType, DivMod, WrapType
  <2>2. a \div p \in Reg
    <3> HIDE DEF p
    <3>1. a \div p \in Int /\ 0 <= a \div p /\ a \div p <= a
      BY <1>1, <1>2, DivBound
    <3> QED
      BY <1>1, <3>1, SpanType DEF Reg
  <2> QED
    BY <1>7, <2>1, <2>2 DEF Op
<1> QED
  BY <1>3, <1>4, <1>5, <1>6, <1>7

LEMMA MulOpType ==
  ASSUME NEW f3 \in 0 .. 7, NEW a \in Reg, NEW b \in Reg
  PROVE  MulOp(f3, a, b) \in Reg
<1>1. a \in Int /\ b \in Int /\ a >= 0 /\ b >= 0 /\ a < Span /\ b < Span /\ Span \in Int /\ Span > 1
  BY SpanType DEF Reg
<1>2. Signed(a) \in Int /\ Signed(b) \in Int
  BY SignedType
<1>3. CASE f3 = 0
  BY <1>1, <1>3, WrapType DEF MulOp
<1>4. CASE f3 = 1
  <2>1. Signed(a) * Signed(b) \in Int
    BY <1>2
  <2>2. (Signed(a) * Signed(b)) \div Span \in Int
    BY <1>1, <2>1, DivMod
  <2> QED
    BY <1>4, <2>2, WrapType DEF MulOp
<1>5. ASSUME NEW n \in Int, n >= 0, n < Span * Span PROVE n \div Span \in Reg
  <2> DEFINE q == n \div Span
             r == n % Span
  <2>1. q \in Int /\ r \in 0 .. Span - 1 /\ n = Span * q + r /\ q >= 0
    BY <1>1, <1>5, DivMod, DivBound
  <2> HIDE DEF q, r
  <2>2. ~(q >= Span)
    BY <1>1, <1>5, <2>1
  <2> QED
    BY <1>1, <2>1, <2>2 DEF Reg, q
<1>6. CASE f3 = 2
  <2> DEFINE n == (Signed(a) * b) % (Span * Span)
  <2>1. Signed(a) * b \in Int /\ Span * Span \in Int /\ Span * Span > 0
    BY <1>1, <1>2
  <2>2. n \in Int /\ n >= 0 /\ n < Span * Span
    BY <2>1, DivMod
  <2> QED
    BY <1>5, <1>6, <2>2 DEF MulOp
<1>7. CASE f3 = 3
  <2>1. a * b \in Int /\ a * b >= 0 /\ a * b < Span * Span
    BY <1>1
  <2> QED
    BY <1>5, <1>7, <2>1 DEF MulOp
<1>8. CASE f3 \in {4, 6} /\ b # 0
  <2>1. Signed(b) # 0
    BY <1>1, <1>8 DEF Signed
  <2>2. Wrap(Quot(Signed(a), Signed(b))) \in Reg /\ Wrap(Rest(Signed(a), Signed(b))) \in Reg
    BY <1>2, <2>1, QuotType, WrapType
  <2>3. 0 \in Reg
    BY <1>1 DEF Reg
  <2> QED
    BY <1>8, <2>2, <2>3 DEF MulOp
<1>9. CASE f3 \in {5, 7} /\ b # 0
  <2>1. a \div b \in Reg
    BY <1>1, <1>9, DivBound DEF Reg
  <2>2. a % b \in Reg
    <3>1. a % b \in 0 .. b - 1
      BY <1>1, <1>9, DivMod
    <3> QED
      BY <1>1, <3>1 DEF Reg
  <2> QED
    BY <1>9, <2>1, <2>2 DEF MulOp
<1>10. CASE f3 \in 4 .. 7 /\ b = 0
  <2>1. Span - 1 \in Reg
    BY <1>1 DEF Reg
  <2> QED
    BY <1>10, <2>1 DEF MulOp
<1> QED
  BY <1>3, <1>4, <1>6, <1>7, <1>8, <1>9, <1>10

LEMMA AmoResultType ==
  ASSUME NEW irmid \in AmoOps, NEW old \in Reg, NEW b \in Reg
  PROVE  AmoResult(irmid, old, b) \in Reg
<1>1. Wrap(b + old) \in Reg
  BY WrapType DEF Reg
<1>2. Xor(b, old) \in Reg /\ And(b, old) \in Reg /\ Or(b, old) \in Reg
  BY BitsNumber DEF Xor, And, Or
<1> QED
  BY <1>1, <1>2 DEF AmoOps, AmoResult

-----------------------------------------------------------------------------
(* Bytes and words.                                                        *)

Bytes == 0 .. ByteSpan - 1

\* The number of values of w bytes.
LEMMA BytesPow ==
  /\ 2^(0 * ByteBits) = 1
  /\ 2^(1 * ByteBits) = ByteSpan
  /\ 2^(2 * ByteBits) = ByteSpan * ByteSpan
  /\ 2^(3 * ByteBits) = ByteSpan * ByteSpan * ByteSpan
  /\ 2^(4 * ByteBits) = ByteSpan * ByteSpan * ByteSpan * ByteSpan
<1>1. /\ 0 * ByteBits = 0 /\ 1 * ByteBits = ByteBits
      /\ 2 * ByteBits = ByteBits + ByteBits /\ 3 * ByteBits = 2 * ByteBits + ByteBits
      /\ 2 * ByteBits \in Nat
  BY Sizes
<1>2. Pow(2 * ByteBits) = ByteSpan * ByteSpan
  BY <1>1, Sizes, PowAdd
<1>3. Pow(3 * ByteBits) = (ByteSpan * ByteSpan) * ByteSpan
  BY <1>1, <1>2, Sizes, PowAdd
<1>4. Pow(4 * ByteBits) = ByteSpan * ByteSpan * ByteSpan * ByteSpan
  BY SpanBytes, Sizes DEF XLEN
<1> QED
  BY <1>1, <1>2, <1>3, <1>4, Sizes, PowZero DEF Pow

LEMMA ByteOfType ==
  ASSUME NEW v \in Int, NEW k \in 0 .. 3
  PROVE  ByteOf(v, k) \in Bytes
<1>1. 2^(k * ByteBits) \in Int /\ 2^(k * ByteBits) > 0
  <2>1. k * ByteBits \in Nat
    BY Sizes
  <2> QED
    BY <2>1, PowType DEF Pow
<1>2. v \div 2^(k * ByteBits) \in Int
  BY <1>1, DivMod
<1> QED
  BY <1>2, SpanType, DivMod DEF ByteOf, Bytes

\* A number of four bytes, and its bytes.
LEMMA FourBytes ==
  ASSUME NEW p \in Bytes, NEW q \in Bytes, NEW r \in Bytes, NEW s \in Bytes,
         NEW v, v = p + ByteSpan * q + ByteSpan * ByteSpan * (r + ByteSpan * s)
  PROVE  /\ v \in Reg
         /\ ByteOf(v, 0) = p /\ ByteOf(v, 1) = q /\ ByteOf(v, 2) = r /\ ByteOf(v, 3) = s
<1> DEFINE B == ByteSpan
<1>0. /\ B \in Int /\ B > 0
      /\ p \in 0 .. B - 1 /\ q \in 0 .. B - 1 /\ r \in 0 .. B - 1 /\ s \in 0 .. B - 1
      /\ v = p + B * q + B * B * (r + B * s)
      /\ Span = B * B * B * B /\ v \in Int
  BY SpanType, SpanBytes DEF Bytes
<1>1. /\ ByteOf(v, 0) = (v \div 1) % B
      /\ ByteOf(v, 1) = (v \div B) % B
      /\ ByteOf(v, 2) = (v \div (B * B)) % B
      /\ ByteOf(v, 3) = (v \div (B * B * B)) % B
  BY BytesPow DEF ByteOf
<1> HIDE DEF B
<1>2. v = B * (q + B * (r + B * s)) + p
  BY <1>0
<1>3. v = (B * B) * (r + B * s) + (B * q + p)
  BY <1>0
<1>4. v = (B * B * B) * s + ((B * B) * r + (B * q + p))
  BY <1>0
<1>5. B * q + p \in 0 .. (B * B) - 1 /\ B * B \in Int /\ B * B > 0
  <2>1. B * q + B <= B * B /\ 0 <= B * q
    BY <1>0, Product
  <2> QED
    BY <1>0, <2>1
<1>6. (B * B) * r + (B * q + p) \in 0 .. (B * B * B) - 1 /\ B * B * B \in Int /\ B * B * B > 0
  <2>1. (B * B) * r + (B * B) <= (B * B) * B /\ 0 <= (B * B) * r
    BY <1>0, <1>5, Product
  <2> QED
    BY <1>0, <1>5, <2>1
<1>7. v \in 0 .. Span - 1
  <2>1. (B * B * B) * s + (B * B * B) <= (B * B * B) * B /\ 0 <= (B * B * B) * s
    BY <1>0, <1>6, Product
  <2> QED
    BY <1>0, <1>4, <1>6, <2>1
<1>8. v \div 1 = v
  BY <1>0, DivUnique
<1>9. v \div B = q + B * (r + B * s) /\ v % B = p
  <2> DEFINE w == q + B * (r + B * s)
  <2>1. w \in Int /\ v = B * w + p
    BY <1>0, <1>2
  <2>2. v \in Int /\ B \in Int /\ B > 0 /\ p \in 0 .. B - 1
    BY <1>0
  <2> HIDE DEF w
  <2>3. v \div B = w /\ v % B = p
    BY <2>1, <2>2, DivUnique
  <2> QED
    BY <2>3 DEF w
<1>10. v \div (B * B) = r + B * s
  BY <1>0, <1>3, <1>5, DivUnique
<1>11. v \div (B * B * B) = s
  BY <1>0, <1>4, <1>6, DivUnique
<1>12. (q + B * (r + B * s)) % B = q /\ (r + B * s) % B = r /\ s % B = s
  BY <1>0, DivUnique
<1> QED
  BY <1>1, <1>7, <1>8, <1>9, <1>10, <1>11, <1>12 DEF Reg

\* The value of 1, 2 or 4 bytes in memory, and of a load with a sign.
LEMMA JoinedType ==
  ASSUME NEW m, NEW a \in Int, NEW w \in {1, 2, 4}, \A k \in 0 .. w - 1 : m[a + k] \in Bytes
  PROVE  Joined(m, a, w) \in Reg /\ (w \in {1, 2} => Extend(Joined(m, a, w), w) \in Reg)
<1>0. 0 \in Bytes /\ ByteSpan \in Int /\ a + 0 = a
  BY SpanType DEF Bytes
<1>1. Joined(m, a, w) \in Reg
  <2>1. CASE w = 1
    <3>1. m[a] \in Bytes
      BY <1>0, <2>1
    <3>2. m[a] = m[a] + ByteSpan * 0 + ByteSpan * ByteSpan * (0 + ByteSpan * 0)
      BY <1>0, <3>1 DEF Bytes
    <3>3. m[a] \in Reg
      BY <1>0, <3>1, <3>2, FourBytes
    <3> QED
      BY <2>1, <3>3 DEF Joined
  <2>2. CASE w = 2
    <3>1. m[a] \in Bytes /\ m[a + 1] \in Bytes
      BY <1>0, <2>2
    <3>2. HalfWord(m, a) = m[a] + ByteSpan * m[a + 1] + ByteSpan * ByteSpan * (0 + ByteSpan * 0)
      BY <1>0, <3>1 DEF Bytes, HalfWord
    <3>3. HalfWord(m, a) \in Reg
      BY <1>0, <3>1, <3>2, FourBytes
    <3> QED
      BY <2>2, <3>3 DEF Joined
  <2>3. CASE w = 4
    <3>1. m[a] \in Bytes /\ m[a + 1] \in Bytes /\ m[a + 2] \in Bytes /\ m[a + 3] \in Bytes
      BY <1>0, <2>3
    <3>2. (a + 2) + 1 = a + 3
      OBVIOUS
    <3>3. Joined(m, a, 4) = m[a] + ByteSpan * m[a + 1] + ByteSpan * ByteSpan * (m[a + 2] + ByteSpan * m[a + 3])
      BY <3>2 DEF Joined, HalfWord
    <3>4. Joined(m, a, 4) \in Reg
      BY <3>1, <3>3, FourBytes
    <3> QED
      BY <2>3, <3>4
  <2> QED
    BY <2>1, <2>2, <2>3
<1>2. ASSUME w \in {1, 2} PROVE Extend(Joined(m, a, w), w) \in Reg
  <2>1. 2^(w * ByteBits) \in Int
    BY <1>0, <1>2, BytesPow
  <2>2. Joined(m, a, w) \in Int
    BY <1>1 DEF Reg
  <2> QED
    BY <1>1, <2>1, <2>2, WrapType DEF Extend
<1> QED
  BY <1>1, <1>2

\* Bytes stay bytes when a word is stored.
LEMMA StoredType ==
  ASSUME NEW D, D \subseteq Int, NEW m \in [D -> Bytes], NEW a \in Int, NEW w \in {1, 2, 4}, NEW v \in Int
  PROVE  Stored(m, a, w, v) \in [D -> Bytes]
<1>1. ASSUME NEW b \in D, b \in a .. a + w - 1 PROVE ByteOf(v, b - a) \in Bytes
  <2>1. b - a \in 0 .. 3
    BY <1>1
  <2> QED
    BY <2>1, ByteOfType
<1> QED
  BY <1>1 DEF Stored

-----------------------------------------------------------------------------
(* What the switches compute, said as an instruction set says it: sums and *)
(* products up to a multiple of Span, shifts and logic bit by bit, and     *)
(* quotients with their rests.                                             *)

\* Wrap changes a number by a multiple of Span.
LEMMA WrapIs ==
  ASSUME NEW n \in Int
  PROVE  (Wrap(n) - n) % Span = 0
<1> DEFINE q == n \div Span
<1>0. Span \in Int /\ Span > 0
  BY SpanType
<1>1. q \in Int /\ n = Span * q + Wrap(n) /\ Wrap(n) \in Int
  <2>1. q \in Int /\ n % Span \in 0 .. Span - 1 /\ n = Span * q + (n % Span)
    BY <1>0, DivMod
  <2> QED
    BY <1>0, <2>1 DEF Wrap
<1> HIDE DEF q
<1>2. Wrap(n) - n = Span * (-q) + 0 /\ Wrap(n) - n \in Int /\ -q \in Int /\ 0 \in 0 .. Span - 1
  BY <1>0, <1>1
<1> QED
  BY <1>0, <1>2, DivUnique

LEMMA SumIs ==
  ASSUME NEW a \in Reg, NEW b \in Reg
  PROVE  (Wrap(a + b) - a - b) % Span = 0 /\ (Wrap(a - b) + b - a) % Span = 0
<1>1. a \in Int /\ b \in Int
  BY DEF Reg
<1>2. Wrap(a + b) \in Int /\ Wrap(a - b) \in Int
  BY <1>1, WrapType DEF Reg
<1>3. Wrap(a + b) - a - b = Wrap(a + b) - (a + b) /\ Wrap(a - b) + b - a = Wrap(a - b) - (a - b)
  BY <1>1, <1>2
<1> QED
  BY <1>1, <1>3, WrapIs

\* Bits below n do not depend on what is above them.
LEMMA LowBits ==
  ASSUME NEW v \in Int, NEW n \in Nat, NEW b \in 0 .. n - 1
  PROVE  BitAt(v % Pow(n), b) <=> BitAt(v, b)
<1> DEFINE q == v \div Pow(n)
           r == v % Pow(n)
           h == Pow(n - b - 1)
           u == r \div Pow(b)
           s == r % Pow(b)
<1>1. Pow(n) \in Int /\ Pow(n) > 0 /\ Pow(b) \in Int /\ Pow(b) > 0 /\ h \in Int
  BY PowType
<1>2. Pow(n) = Pow(b) * (2 * h)
  BY PowSplit
<1>3. q \in Int /\ r \in Int /\ v = Pow(n) * q + r
  <2>1. q \in Int /\ r \in 0 .. Pow(n) - 1 /\ v = Pow(n) * q + r
    BY <1>1, DivMod
  <2> HIDE DEF q, r
  <2> QED
    BY <1>1, <2>1
<1>4. u \in Int /\ s \in 0 .. Pow(b) - 1 /\ r = Pow(b) * u + s
  BY <1>1, <1>3, DivMod
<1> HIDE DEF q, r, h, u, s
<1>5. Pow(n) * q = Pow(b) * ((2 * h) * q)
  BY <1>1, <1>2, <1>3
<1>6. v = Pow(b) * ((2 * h) * q + u) + s /\ (2 * h) * q \in Int
  BY <1>1, <1>3, <1>4, <1>5
<1>7. v \div Pow(b) = (2 * h) * q + u
  BY <1>1, <1>4, <1>6, DivUnique
<1>8. ((2 * h) * q + u) % 2 = u % 2
  <2>1. u \div 2 \in Int /\ u % 2 \in 0 .. 1 /\ u = 2 * (u \div 2) + (u % 2)
    BY <1>4, Half2
  <2>2. (2 * h) * q = 2 * (h * q) /\ h * q \in Int
    BY <1>1, <1>3
  <2>3. (2 * h) * q + u = 2 * (h * q + (u \div 2)) + (u % 2)
    BY <2>1, <2>2
  <2> QED
    BY <1>4, <1>6, <2>1, <2>2, <2>3, DivUnique
<1> QED
  BY <1>7, <1>8 DEF BitAt, r, u

LEMMA WrapBits ==
  ASSUME NEW v \in Int, NEW k \in 0 .. XLEN - 1
  PROVE  k \in Bits(Wrap(v)) <=> BitAt(v, k)
<1>1. Wrap(v) \in Reg /\ Wrap(v) = v % Pow(XLEN)
  BY WrapType, Sizes DEF Wrap
<1> QED
  BY <1>1, BitsAre, LowBits, Sizes

\* A bit above a number's width is 0.
LEMMA HighBits ==
  ASSUME NEW n \in Nat, NEW v \in 0 .. Pow(n) - 1, NEW b \in Nat, b >= n
  PROVE  ~BitAt(v, b)
<1>1. Pow(n) \in Int /\ Pow(b) \in Int /\ Pow(n) <= Pow(b) /\ Pow(b) > 0
  BY PowType, PowSplit
<1>2. v = Pow(b) * 0 + v /\ v \in 0 .. Pow(b) - 1
  BY <1>1
<1>3. v \div Pow(b) = 0
  BY <1>1, <1>2, DivUnique
<1> QED
  BY <1>3 DEF BitAt

\* A right shift moves the bits down.
LEMMA ShiftDown ==
  ASSUME NEW v \in Int, NEW s \in Nat, NEW k \in Nat
  PROVE  BitAt(v \div Pow(s), k) <=> BitAt(v, k + s)
<1>1. Pow(s) \in Int /\ Pow(s) > 0 /\ Pow(k) \in Int /\ Pow(k) > 0
  BY PowType
<1>2. (v \div Pow(s)) \div Pow(k) = v \div (Pow(s) * Pow(k))
  BY <1>1, DivDiv
<1>3. Pow(s) * Pow(k) = Pow(k + s)
  BY <1>1, PowAdd
<1> QED
  BY <1>2, <1>3 DEF BitAt

\* SLL, SLLI.
LEMMA ShiftLeftIs ==
  ASSUME NEW a \in Reg, NEW s \in 0 .. XLEN - 1, NEW k \in 0 .. XLEN - 1
  PROVE  k \in Bits(Wrap(a * 2^s)) <=> k - s \in Bits(a)
<1>0. a \in Int /\ s \in Nat /\ k \in Nat /\ Pow(s) \in Int /\ Pow(s) > 0 /\ Pow(k) \in Int /\ Pow(k) > 0
  BY Sizes, PowType DEF Reg
<1>1. k \in Bits(Wrap(a * Pow(s))) <=> BitAt(a * Pow(s), k)
  BY <1>0, WrapBits
<1>2. CASE k >= s
  <2> DEFINE t == k - s
             p == Pow(t)
             q == a \div p
             r == a % p
  <2>1. t \in 0 .. XLEN - 1 /\ t \in Nat /\ s + t = k
    BY <1>2, Sizes
  <2>2. p \in Int /\ p > 0 /\ Pow(k) = Pow(s) * p
    <3>1. Pow(s + t) = Pow(s) * Pow(t)
      BY <1>0, <2>1, PowAdd
    <3> QED
      BY <2>1, <3>1, PowType
  <2>3. q \in Int /\ r \in 0 .. p - 1 /\ a = p * q + r
    BY <1>0, <2>2, DivMod
  <2>4. t \in Bits(a) <=> q % 2 = 1
    BY <2>1, BitsAre DEF BitAt
  <2> HIDE DEF p, q, r, t
  <2>5. a * Pow(s) = (Pow(s) * p) * q + Pow(s) * r
    BY <1>0, <2>2, <2>3
  <2>6. Pow(s) * r + Pow(s) <= Pow(s) * p /\ 0 <= Pow(s) * r
    BY <1>0, <2>2, <2>3, Product
  <2>7. Pow(s) * p \in Int /\ Pow(s) * p > 0 /\ a * Pow(s) \in Int /\ Pow(s) * r \in 0 .. (Pow(s) * p) - 1
    BY <1>0, <2>2, <2>3, <2>6
  <2>8. (a * Pow(s)) \div (Pow(s) * p) = q
    BY <2>3, <2>5, <2>7, DivUnique
  <2> QED
    BY <1>1, <2>2, <2>4, <2>8 DEF BitAt, Pow, t
<1>3. CASE k < s
  <2>1. Pow(s) = Pow(k) * (2 * Pow(s - k - 1)) /\ Pow(s - k - 1) \in Int
    BY <1>0, <1>3, PowSplit, PowType
  <2> DEFINE h == Pow(s - k - 1)
  <2> HIDE DEF h
  <2>2. a * Pow(s) = Pow(k) * (2 * (a * h)) + 0 /\ a * h \in Int /\ a * Pow(s) \in Int
    BY <1>0, <2>1 DEF h
  <2>3. (a * Pow(s)) \div Pow(k) = 2 * (a * h)
    BY <1>0, <2>2, DivUnique
  <2>4. (2 * (a * h)) % 2 = 0
    BY <2>2, DivUnique
  <2>5. k - s \notin Bits(a)
    BY <1>0, <1>3, BitsAre
  <2> QED
    BY <1>1, <2>3, <2>4, <2>5 DEF BitAt, Pow
<1> QED
  BY <1>0, <1>2, <1>3

\* SRL, SRLI.
LEMMA ShiftRightIs ==
  ASSUME NEW a \in Reg, NEW s \in 0 .. XLEN - 1, NEW k \in 0 .. XLEN - 1
  PROVE  /\ a \div 2^s \in Reg
         /\ k \in Bits(a \div 2^s) <=> k + s \in Bits(a)
<1>0. a \in Int /\ a >= 0 /\ s \in Nat /\ k \in Nat /\ Pow(s) \in Int /\ Pow(s) > 0
  BY Sizes, PowType DEF Reg
<1>1. a \div Pow(s) \in Reg
  <2>1. a \div Pow(s) \in Int /\ 0 <= a \div Pow(s) /\ a \div Pow(s) <= a
    BY <1>0, DivBound
  <2> QED
    BY <1>0, <2>1, SpanType DEF Reg
<1>2. k \in Bits(a \div Pow(s)) <=> BitAt(a, k + s)
  BY <1>0, <1>1, BitsAre, ShiftDown
<1>3. CASE k + s <= XLEN - 1
  <2>1. k + s \in 0 .. XLEN - 1
    BY <1>0, <1>3
  <2> QED
    BY <1>1, <1>2, <2>1, BitsAre DEF Pow
<1>4. CASE k + s > XLEN - 1
  <2>1. k + s \in Nat /\ k + s >= XLEN /\ a \in 0 .. Pow(XLEN) - 1
    BY <1>0, <1>4, Sizes DEF Reg
  <2>2. ~BitAt(a, k + s)
    BY <2>1, HighBits, Sizes
  <2>3. k + s \notin Bits(a)
    BY <1>0, <1>4, BitsAre, Sizes
  <2> QED
    BY <1>1, <1>2, <2>2, <2>3 DEF Pow
<1> QED
  BY <1>0, <1>3, <1>4, Sizes

\* SRA, SRAI: the sign is repeated.
LEMMA ShiftArithmeticIs ==
  ASSUME NEW a \in Reg, NEW s \in 0 .. XLEN - 1, NEW k \in 0 .. XLEN - 1
  PROVE  k \in Bits(Wrap(Signed(a) \div 2^s))
           <=> (IF k + s < XLEN THEN k + s ELSE XLEN - 1) \in Bits(a)
<1> DEFINE j == k + s
<1>0. /\ a \in Int /\ a >= 0 /\ a < Span /\ s \in Nat /\ k \in Nat /\ j \in Nat
      /\ XLEN - 1 \in Nat /\ XLEN - 1 \in 0 .. XLEN - 1
      /\ j < XLEN => j \in 0 .. XLEN - 1
      /\ Pow(s) \in Int /\ Pow(s) > 0 /\ Pow(j) \in Int /\ Pow(j) > 0
  BY Sizes, PowType, SpanType DEF Reg
<1>1. k \in Bits(Wrap(Signed(a) \div Pow(s))) <=> BitAt(Signed(a), j)
  <2>1. Signed(a) \in Int /\ Signed(a) \div Pow(s) \in Int
    BY <1>0, SignedType, DivMod
  <2> QED
    BY <1>0, <2>1, WrapBits, ShiftDown
<1> HIDE DEF j
<1>2. CASE 2 * a < Span
  <2>1. Signed(a) = a
    BY <1>2 DEF Signed
  <2>2. CASE j < XLEN
    BY <1>0, <1>1, <2>1, <2>2, BitsAre DEF Pow, j
  <2>3. CASE j >= XLEN
    <3>1. a \in 0 .. Pow(XLEN) - 1 /\ a \in 0 .. Pow(XLEN - 1) - 1
      BY <1>0, <1>2, Sizes, SpanType
    <3>2. ~BitAt(a, j) /\ ~BitAt(a, XLEN - 1)
      <4>1. j >= XLEN - 1 /\ XLEN - 1 >= XLEN - 1
        BY <1>0, <2>3, Sizes
      <4> QED
        BY <1>0, <3>1, <4>1, HighBits
    <3>3. XLEN - 1 \notin Bits(a)
      BY <1>0, <3>2, BitsAre
    <3> QED
      BY <1>0, <1>1, <2>1, <2>3, <3>2, <3>3, Sizes DEF Pow, j
  <2> QED
    BY <1>0, <2>2, <2>3, Sizes
<1>3. CASE ~(2 * a < Span)
  <2>1. Signed(a) = a - Span
    BY <1>3 DEF Signed
  <2>2. CASE j < XLEN
    <3>1. a - Span = Pow(XLEN) * (-1) + a /\ a \in 0 .. Pow(XLEN) - 1 /\ a - Span \in Int
      BY <1>0, Sizes, SpanType
    <3>2. (a - Span) % Pow(XLEN) = a
      BY <3>1, Sizes, SpanType, DivUnique
    <3>3. BitAt(a, j) <=> BitAt(a - Span, j)
      BY <1>0, <2>2, <3>1, <3>2, LowBits, Sizes
    <3> QED
      BY <1>0, <1>1, <2>1, <2>2, <3>3, BitsAre DEF Pow, j
  <2>3. CASE j >= XLEN
    <3>1. Pow(XLEN) <= Pow(j)
      BY <1>0, <2>3, PowSplit, Sizes
    <3>2. a - Span = Pow(j) * (-1) + (Pow(j) + a - Span) /\ Pow(j) + a - Span \in 0 .. Pow(j) - 1
      BY <1>0, <3>1, Sizes, SpanType
    <3>3. (a - Span) \div Pow(j) = -1
      BY <1>0, <3>2, SpanType, DivUnique
    <3>4. \A n \in {-1, 1} : n % 2 = 1
      <4> SUFFICES ASSUME NEW n \in {-1, 1} PROVE n % 2 = 1
        OBVIOUS
      <4>1. n \in Int /\ (n - 1) \div 2 \in Int /\ n = 2 * ((n - 1) \div 2) + 1
        OBVIOUS
      <4> QED
        BY <4>1, DivUnique
    <3>5. BitAt(a - Span, j)
      <4>1. (a - Span) \div Pow(j) \in {-1, 1}
        BY <3>3
      <4> QED
        BY <3>4, <4>1 DEF BitAt
    <3>6. a \div Pow(XLEN - 1) = 1
      <4>1. a = Pow(XLEN - 1) * 1 + (a - Pow(XLEN - 1)) /\ a - Pow(XLEN - 1) \in 0 .. Pow(XLEN - 1) - 1
        BY <1>0, <1>3, SpanType
      <4> QED
        BY <1>0, <4>1, SpanType, DivUnique
    <3>7. XLEN - 1 \in Bits(a)
      BY <1>0, <3>4, <3>6, BitsAre DEF BitAt
    <3> QED
      BY <1>0, <1>1, <2>1, <2>3, <3>5, <3>7, Sizes DEF Pow, j
  <2> QED
    BY <1>0, <2>2, <2>3, Sizes
<1> QED
  BY <1>2, <1>3

\* The target of JALR: bit 0 is cleared.
LEMMA EvenIs ==
  ASSUME NEW a \in Reg
  PROVE  a - (a % 2) \in Reg /\ Bits(a - (a % 2)) = Bits(a) \ {0}
<1> DEFINE c == a - (a % 2)
<1>1. a \in Int /\ a >= 0 /\ a < Span /\ a \div 2 \in Int /\ a % 2 \in {0, 1} /\ a = 2 * (a \div 2) + (a % 2)
  BY SpanType, Half2 DEF Reg
<1>2. c \in Int /\ c = 2 * (a \div 2) + 0
  BY <1>1
<1>3. c \div 2 = a \div 2 /\ c % 2 = 0
  <2> HIDE DEF c
  <2> QED
    BY <1>1, <1>2, DivUnique
<1>4. c \in Reg
  BY <1>1, SpanType DEF Reg
<1> HIDE DEF c
<1>5. ASSUME NEW k \in 0 .. XLEN - 1 PROVE k \in Bits(c) <=> (k \in Bits(a) /\ k # 0)
  <2>1. CASE k = 0
    <3>1. ~BitAt(c, 0)
      BY <1>2, <1>3, BitAtStep
    <3> QED
      BY <1>4, <2>1, <3>1, BitsAre
  <2>2. CASE k # 0
    <3>1. k - 1 \in Nat /\ (k - 1) + 1 = k
      BY <2>2
    <3>2. BitAt(c, (k - 1) + 1) <=> BitAt(a, (k - 1) + 1)
      BY <1>1, <1>2, <1>3, <3>1, BitAtStep
    <3> QED
      BY <1>4, <2>2, <3>1, <3>2, BitsAre
  <2> QED
    BY <2>1, <2>2
<1>6. Bits(c) = Bits(a) \ {0}
  BY <1>4, <1>5, BitsAre
<1> QED
  BY <1>4, <1>6 DEF c

\* A number in the signed range is the signed reading of its word.
LEMMA SignedWrap ==
  ASSUME NEW q \in Int, 2 * q >= -Span, 2 * q < Span
  PROVE  Signed(Wrap(q)) = q
<1>0. Span \in Int /\ Span > 0
  BY SpanType
<1>1. CASE q >= 0
  <2>1. q = Span * 0 + q /\ q \in 0 .. Span - 1
    BY <1>0, <1>1
  <2>2. Wrap(q) = q
    BY <1>0, <2>1, DivUnique DEF Wrap
  <2> QED
    BY <2>2 DEF Signed
<1>2. CASE q < 0
  <2>1. q = Span * (-1) + (q + Span) /\ q + Span \in 0 .. Span - 1
    BY <1>0, <1>2
  <2>2. Wrap(q) = q + Span
    BY <1>0, <2>1, DivUnique DEF Wrap
  <2> QED
    BY <1>0, <2>2 DEF Signed
<1> QED
  BY <1>1, <1>2

\* The quotient of a number below Span * Span in absolute value / 2.
LEMMA DivRange ==
  ASSUME NEW n \in Int, NEW h \in Int, NEW s \in Int, s > 0, s * (-h) <= n, n < s * h
  PROVE  n \div s \in Int /\ -h <= n \div s /\ n \div s < h
<1> DEFINE q == n \div s
           r == n % s
<1>1. q \in Int /\ r \in 0 .. s - 1 /\ n = s * q + r
  BY DivMod
<1> HIDE DEF q, r
<1>2. ~(q < -h)
  BY <1>1, Product
<1>3. ~(q >= h)
  <2>1. CASE q = h
    BY <1>1, <2>1
  <2>2. CASE h < q
    BY <1>1, <2>2, Product
  <2> QED
    BY <1>1, <2>1, <2>2
<1> QED
  BY <1>1, <1>2, <1>3 DEF q

\* MULH and MULHSU, of a product n.
LEMMA HighProductIs ==
  ASSUME NEW n \in Int, NEW h \in Int, Span = 2 * h, Span * (-h) <= n, n < Span * h
  PROVE  \E low \in Reg : n = Signed(Wrap(n \div Span)) * Span + low
<1>0. Span \in Int /\ Span > 0
  BY SpanType
<1>1. n \div Span \in Int /\ -h <= n \div Span /\ n \div Span < h
  BY <1>0, DivRange
<1>2. Signed(Wrap(n \div Span)) = n \div Span
  BY <1>0, <1>1, SignedWrap
<1>3. n % Span \in Reg /\ n = Span * (n \div Span) + (n % Span)
  BY <1>0, DivMod DEF Reg
<1>4. Span * (n \div Span) = (n \div Span) * Span
  BY <1>0, <1>1
<1> QED
  BY <1>2, <1>3, <1>4

\* The high half of an unsigned product of 64 bits.
LEMMA HighHalfIs ==
  ASSUME NEW n \in Int
  PROVE  (n % (Span * Span)) \div Span = Wrap(n \div Span)
<1> DEFINE S == Span
           q == n \div S
           low == n % S
           u == q \div S
           t == q % S
<1>0. S \in Int /\ S > 0 /\ S * S \in Int /\ S * S > 0
  BY SpanType
<1> HIDE DEF S
<1>1. q \in Int /\ low \in 0 .. S - 1 /\ n = S * q + low
  BY <1>0, DivMod
<1>2. u \in Int /\ t \in 0 .. S - 1 /\ q = S * u + t
  BY <1>0, <1>1, DivMod
<1> HIDE DEF q, low, u, t
<1>3. S * t + low \in 0 .. (S * S) - 1
  <2>1. S * t + S <= S * S /\ 0 <= S * t
    BY <1>0, <1>2, Product
  <2> QED
    BY <1>0, <1>1, <1>2, <2>1
<1>4. n = (S * S) * u + (S * t + low)
  <2>1. S * (S * u + t) = (S * S) * u + S * t
    BY <1>0, <1>2
  <2> QED
    BY <1>0, <1>1, <1>2, <2>1
<1>5. n % (S * S) = S * t + low
  BY <1>0, <1>2, <1>3, <1>4, DivUnique
<1>6. (S * t + low) \div S = t
  BY <1>0, <1>1, <1>2, <1>3, DivUnique
<1> QED
  BY <1>5, <1>6 DEF Wrap, S, t, q

\* The products of two signed words, and of a signed and an unsigned one.
LEMMA ProductRange ==
  ASSUME NEW h \in Int, h > 0, NEW x \in Int, -h <= x, x < h,
         NEW y \in Int, -h <= y, y < 2 * h
  PROVE  /\ x * y \in Int
         /\ (2 * h) * (-h) <= x * y
         /\ y < h \/ y >= 0
         /\ x * y < (2 * h) * h
<1>1. x * y \in Int
  OBVIOUS
<1>2. CASE x >= 0
  <2>1. x * y <= x * (2 * h) /\ x * (2 * h) <= h * (2 * h)
    BY <1>2
  <2>2. x * (-h) <= x * y /\ h * (-h) <= x * (-h) /\ (2 * h) * (-h) <= h * (-h)
    BY <1>2
  <2>3. x * (2 * h) < h * (2 * h)
    BY <1>2
  <2> QED
    BY <1>1, <2>1, <2>2, <2>3
<1>3. CASE x < 0
  <2> DEFINE z == -x
  <2>1. z \in Int /\ 0 < z /\ z <= h /\ x * y = -(z * y)
    BY <1>3
  <2> HIDE DEF z
  <2>2. z * y <= z * (2 * h) /\ z * (2 * h) <= h * (2 * h)
    BY <2>1
  <2>3. z * (-h) <= z * y /\ h * (-h) <= z * (-h)
    BY <2>1
  <2>4. h * (-h) = -(h * h) /\ (2 * h) * h = 2 * (h * h) /\ (2 * h) * (-h) = -(2 * (h * h)) /\ h * h > 0
        /\ h * (2 * h) = 2 * (h * h) /\ z * y \in Int /\ h * h \in Int
    BY <2>1
  <2> QED
    BY <1>1, <2>1, <2>2, <2>3, <2>4
<1> QED
  BY <1>2, <1>3

\* DIV and REM: the quotient and the rest of two signed numbers, as C has them.
LEMMA TruncatedIs ==
  ASSUME NEW n \in Int, NEW m \in Int, m # 0
  PROVE  /\ Quot(n, m) \in Int /\ Rest(n, m) \in Int
         /\ n = m * Quot(n, m) + Rest(n, m)
         /\ Abs(Rest(n, m)) < Abs(m)
         /\ Rest(n, m) = 0 \/ (Rest(n, m) < 0 <=> n < 0)
         /\ Abs(Quot(n, m)) <= Abs(n)
         /\ (Abs(m) > 1 /\ n # 0) => Abs(Quot(n, m)) < Abs(n)
<1> DEFINE A == Abs(n)
           M == Abs(m)
           k == A \div M
           t == A % M
<1>1. A \in Int /\ A >= 0 /\ M \in Int /\ M > 0
  BY DEF Abs
<1>2. (n >= 0 => n = A) /\ (n < 0 => n = -A) /\ (m >= 0 => m = M) /\ (m < 0 => m = -M)
  BY DEF Abs
<1>3. Quot(n, m) = IF n < 0 <=> m < 0 THEN k ELSE -k
  BY DEF Quot
<1> HIDE DEF A, M
<1>4. k \in Int /\ t \in 0 .. M - 1 /\ A = M * k + t /\ k >= 0 /\ k <= A /\ ((M > 1 /\ A > 0) => k < A)
  BY <1>1, DivMod, DivBound
<1> HIDE DEF k, t
<1>5. Quot(n, m) \in Int /\ m * Quot(n, m) = IF n < 0 THEN -(M * k) ELSE M * k
  <2>1. M * (-k) = -(M * k) /\ (-M) * k = -(M * k) /\ (-M) * (-k) = M * k
    BY <1>1, <1>4
  <2> QED
    BY <1>2, <1>3, <1>4, <2>1
<1>6. Rest(n, m) = IF n < 0 THEN -t ELSE t
  <2>1. M * k \in Int
    BY <1>1, <1>4
  <2>2. CASE n < 0
    <3>1. Rest(n, m) = (-A) - (-(M * k))
      BY <1>2, <1>5, <2>2 DEF Rest
    <3> QED
      BY <1>1, <1>4, <2>1, <2>2, <3>1
  <2>3. CASE n >= 0
    <3>1. Rest(n, m) = A - (M * k)
      BY <1>2, <1>5, <2>3 DEF Rest
    <3> QED
      BY <1>1, <1>4, <2>1, <2>3, <3>1
  <2> QED
    BY <2>2, <2>3
<1>7. Rest(n, m) \in Int /\ Abs(Rest(n, m)) = t /\ (Rest(n, m) = 0 \/ (Rest(n, m) < 0 <=> n < 0))
  <2>1. Abs(-t) = t /\ Abs(t) = t
    BY <1>1, <1>4 DEF Abs
  <2> QED
    BY <1>1, <1>4, <1>6, <2>1
<1>8. n = m * Quot(n, m) + Rest(n, m)
  BY <1>5, <1>7 DEF Rest
<1>9. Abs(Quot(n, m)) = k
  BY <1>3, <1>4 DEF Abs
<1>10. n # 0 => A > 0
  BY <1>1, <1>2
<1> QED
  BY <1>1, <1>4, <1>5, <1>7, <1>8, <1>9, <1>10 DEF A, M

\* The signed quotient of two words is in range, but for the one overflow.
LEMMA QuotientRange ==
  ASSUME NEW a \in Reg, NEW b \in Reg, b # 0
  PROVE  /\ Signed(b) \in Int /\ Signed(b) # 0 /\ Signed(a) \in Int
         /\ Quot(Signed(a), Signed(b)) \in -Span .. Span
         /\ Rest(Signed(a), Signed(b)) \in -Span .. Span
         /\ Signed(Wrap(Rest(Signed(a), Signed(b)))) = Rest(Signed(a), Signed(b))
         /\ ~Overflows(a, b) => Signed(Wrap(Quot(Signed(a), Signed(b)))) = Quot(Signed(a), Signed(b))
<1> DEFINE n == Signed(a)
           m == Signed(b)
           q == Quot(n, m)
           r == Rest(n, m)
<1>1. Span \in Int /\ Span > 0 /\ a \in Int /\ b \in Int /\ 0 <= a /\ a < Span /\ 0 <= b /\ b < Span
  BY SpanType DEF Reg
<1>2. /\ n \in Int /\ 2 * n >= -Span /\ 2 * n < Span
      /\ m \in Int /\ 2 * m >= -Span /\ 2 * m < Span /\ m # 0
      /\ m = -1 => b = Span - 1
      /\ 2 * n = -Span => 2 * a = Span
  BY <1>1, SignedType
<1> HIDE DEF n, m
<1>3. ~Overflows(a, b) => 2 * n > -Span \/ m # -1
  <2>1. 2 * n > -Span \/ 2 * n = -Span
    BY <1>1, <1>2
  <2> QED
    BY <1>2, <2>1 DEF Overflows
<1>4. /\ q \in Int /\ r \in Int /\ Abs(r) < Abs(m) /\ Abs(q) <= Abs(n)
      /\ (Abs(m) > 1 /\ n # 0) => Abs(q) < Abs(n)
      /\ n = m * q + r
  BY <1>2, TruncatedIs
<1> HIDE DEF q, r
<1>5. 2 * r > -Span /\ 2 * r < Span
  BY <1>1, <1>2, <1>4 DEF Abs
<1>6. 2 * q >= -Span /\ 2 * q <= Span
  BY <1>1, <1>2, <1>4 DEF Abs
<1>7. ASSUME 2 * n > -Span \/ m # -1 PROVE 2 * q < Span
  <2>1. CASE 2 * n > -Span
    BY <1>1, <1>2, <1>4, <2>1 DEF Abs
  <2>2. CASE m = 1
    <3>1. Abs(r) = 0
      BY <1>4, <2>2 DEF Abs
    <3>2. q = n
      BY <1>4, <2>2, <3>1 DEF Abs
    <3> QED
      BY <1>2, <3>2
  <2>3. CASE m # -1 /\ m # 1 /\ 2 * n = -Span
    <3>1. Abs(m) > 1 /\ n # 0
      BY <1>1, <1>2, <2>3 DEF Abs
    <3> QED
      BY <1>1, <1>2, <1>4, <3>1 DEF Abs
  <2>4. m # -1 \/ 2 * n > -Span
    BY <1>7
  <2>5. 2 * n > -Span \/ 2 * n = -Span
    BY <1>1, <1>2
  <2> QED
    BY <2>1, <2>2, <2>3, <2>4, <2>5
<1>8. q \in -Span .. Span /\ r \in -Span .. Span
  BY <1>1, <1>4, <1>5, <1>6
<1>9. Signed(Wrap(r)) = r
  <2>1. r \in Int /\ 2 * r >= -Span /\ 2 * r < Span
    BY <1>1, <1>4, <1>5
  <2> QED
    BY <2>1, SignedWrap
<1>10. ~Overflows(a, b) => Signed(Wrap(q)) = q
  BY <1>3, <1>4, <1>6, <1>7, SignedWrap
<1> QED
  BY <1>2, <1>8, <1>9, <1>10 DEF n, m, q, r

\* -2^31 / -1: the one quotient that is no word.
LEMMA OverflowIs ==
  ASSUME NEW a \in Reg, NEW b \in Reg, Overflows(a, b)
  PROVE  /\ Signed(b) = -1 /\ 2 * a = Span /\ Signed(a) = -a /\ a \in -Span .. Span
         /\ Signed(0) = 0 /\ Abs(0) < Abs(-1)
<1>1. Span \in Int /\ Span > 2 /\ a \in Int /\ b = Span - 1 /\ 2 * a = Span
  BY SpanType DEF Overflows, Reg
<1> QED
  BY <1>1 DEF Signed, Abs

\* DIVU and REMU.
LEMMA UnsignedDivisionIs ==
  ASSUME NEW a \in Reg, NEW b \in Reg, b # 0
  PROVE  /\ a \div b \in Reg /\ a % b \in Reg /\ a = b * (a \div b) + (a % b)
         /\ Abs(a % b) < Abs(b) /\ (a % b = 0 \/ (a % b < 0 <=> a < 0))
<1> DEFINE q == a \div b
           r == a % b
<1>1. a \in Int /\ b \in Int /\ b > 0 /\ a >= 0 /\ a < Span /\ b < Span /\ Span \in Int
  BY SpanType DEF Reg
<1>2. q \in Int /\ r \in 0 .. b - 1 /\ a = b * q + r /\ 0 <= q /\ q <= a
  BY <1>1, DivMod, DivBound
<1> HIDE DEF q, r
<1>3. q \in Reg /\ r \in Reg
  BY <1>1, <1>2 DEF Reg
<1>4. Abs(r) < Abs(b) /\ (r = 0 \/ (r < 0 <=> a < 0))
  BY <1>1, <1>2 DEF Abs
<1> QED
  BY <1>2, <1>3, <1>4 DEF q, r

\* The bytes of what LB and LH load: the sign is repeated.
Fill(p) == IF 2 * p >= ByteSpan THEN ByteSpan - 1 ELSE 0

LEMMA FillType == ASSUME NEW p \in Bytes PROVE Fill(p) \in Bytes /\ 0 \in Bytes
  BY SpanType DEF Fill, Bytes

LEMMA SignedByteIs ==
  ASSUME NEW p \in Bytes
  PROVE  Extend(p, 1) = p + ByteSpan * Fill(p) + ByteSpan * ByteSpan * (Fill(p) + ByteSpan * Fill(p))
<1> DEFINE B == ByteSpan
<1>0. B \in Int /\ B > 0 /\ p \in 0 .. B - 1 /\ Span = B * B * B * B /\ Span \in Int
  BY SpanType, SpanBytes DEF Bytes
<1>1. Extend(p, 1) = IF 2 * p < B THEN p ELSE Wrap(p - B)
  BY BytesPow DEF Extend
<1>2. Fill(p) = IF 2 * p >= B THEN B - 1 ELSE 0
  BY DEF Fill
<1> HIDE DEF B
<1>3. CASE 2 * p < B
  BY <1>0, <1>1, <1>2, <1>3 DEF B
<1>4. CASE ~(2 * p < B)
  <2>1. Wrap(p - B) = p - B + Span
    <3>1. B <= Span /\ Span > 0
      BY SpanType, <1>0
    <3>2. p - B = Span * (-1) + (p - B + Span) /\ p - B + Span \in 0 .. Span - 1
      BY <1>0, <3>1
    <3> QED
      BY <1>0, <3>1, <3>2, DivUnique DEF Wrap
  <2>2. p + B * (B - 1) + B * B * ((B - 1) + B * (B - 1)) = p - B + B * B * B * B
    BY <1>0
  <2> QED
    BY <1>0, <1>1, <1>2, <1>4, <2>1, <2>2 DEF B
<1> QED
  BY <1>3, <1>4

LEMMA SignedHalfIs ==
  ASSUME NEW p \in Bytes, NEW q \in Bytes
  PROVE  Extend(p + ByteSpan * q, 2)
           = p + ByteSpan * q + ByteSpan * ByteSpan * (Fill(q) + ByteSpan * Fill(q))
<1> DEFINE B == ByteSpan
           v == p + B * q
<1>0. /\ B \in Int /\ B > 0 /\ p \in 0 .. B - 1 /\ q \in 0 .. B - 1
      /\ Span = B * B * B * B /\ Span \in Int
  BY SpanType, SpanBytes DEF Bytes
<1>1. Extend(v, 2) = IF 2 * v < B * B THEN v ELSE Wrap(v - B * B)
  BY BytesPow DEF Extend
<1>2. Fill(q) = IF 2 * q >= B THEN B - 1 ELSE 0
  BY DEF Fill
<1>3. \E e \in Int : B = 2 * e
  <2>1. ByteBits - 1 \in Nat /\ (ByteBits - 1) + 1 = ByteBits
    BY Sizes
  <2>2. Pow(ByteBits) = Pow((ByteBits - 1) + 1)
    BY <2>1
  <2>3. B = 2 * Pow(ByteBits - 1) /\ Pow(ByteBits - 1) \in Int
    BY <2>1, <2>2, PowType, Sizes
  <2> QED
    BY <2>3
<1> HIDE DEF B
<1>4. v \in Int /\ v >= 0 /\ v < B * B
  <2>1. B * q + B <= B * B /\ 0 <= B * q
    BY <1>0, Product
  <2> QED
    BY <1>0, <2>1
<1>5. 2 * v < B * B <=> 2 * q < B
  <2>1. PICK e \in Int : B = 2 * e
    BY <1>3
  <2>2. CASE 2 * q < B
    <3>1. q < e
      BY <1>0, <2>1, <2>2
    <3>2. B * q + B <= B * e
      BY <1>0, <2>1, <3>1, Product
    <3>3. 2 * (B * e) = B * B /\ B * q \in Int /\ B * e \in Int
      BY <1>0, <2>1
    <3> QED
      BY <1>0, <2>2, <3>2, <3>3
  <2>3. CASE ~(2 * q < B)
    <3>1. B * e <= B * q
      <4>1. CASE q = e
        BY <1>0, <4>1
      <4>2. CASE e < q
        BY <1>0, <4>2, Product
      <4> QED
        BY <1>0, <2>1, <2>3, <4>1, <4>2
    <3>2. 2 * (B * e) = B * B /\ B * q \in Int /\ B * e \in Int
      BY <1>0, <2>1
    <3> QED
      BY <1>0, <2>3, <3>1, <3>2
  <2> QED
    BY <2>2, <2>3
<1>6. CASE 2 * q < B
  <2>1. B * B * (0 + B * 0) = 0
    BY <1>0
  <2> QED
    BY <1>0, <1>1, <1>2, <1>4, <1>5, <1>6, <2>1 DEF B
<1>7. CASE ~(2 * q < B)
  <2>1. Wrap(v - B * B) = v - B * B + Span
    <3>1. B * B <= Span /\ Span > 0 /\ B * B \in Int
      <4>1. B * B \in Int /\ B * B >= 1 /\ Span = (B * B) * (B * B)
        BY <1>0
      <4> QED
        BY <4>1
    <3>2. v - B * B = Span * (-1) + (v - B * B + Span) /\ v - B * B + Span \in 0 .. Span - 1
      BY <1>0, <1>4, <3>1
    <3> HIDE DEF v
    <3> QED
      BY <1>0, <1>4, <3>1, <3>2, DivUnique DEF Wrap
  <2>2. v + B * B * ((B - 1) + B * (B - 1)) = v - B * B + B * B * B * B
    BY <1>0, <1>4
  <2> QED
    BY <1>0, <1>1, <1>2, <1>5, <1>7, <2>1, <2>2 DEF B
<1> QED
  BY <1>6, <1>7
=============================================================================
