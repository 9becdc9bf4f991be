--------------------------------- MODULE Isa ---------------------------------
(***************************************************************************)
(* What the instructions of RV32IMA with Zicsr and machine mode promise,   *)
(* mnemonic by mnemonic: which registers, memory and CSRs an instruction   *)
(* may change, and to what.  Encodings and numbers are those of module     *)
(* Encoding.  Results are said by what is true of them, not by how they    *)
(* are computed.  Privilege modes and the interrupt enable stack are       *)
(* module Priv's.                                                          *)
(***************************************************************************)
EXTENDS Arith, Encoding

CONSTANTS IoSpace   \* addresses that belong to devices, not to memory

VARIABLES
  x,        \* the registers
  mem,      \* the bytes of memory
  pc,
  csr,      \* the CSRs of CsrNumber, as words
  slot,     \* the reserved address; one that is not in memory for none
  machine   \* the hart is in machine mode

isaVars == <<x, mem, pc, csr, slot, machine>>

-----------------------------------------------------------------------------
(* Results.                                                                *)

\* The low and the high word of a product.
IsProduct(r, n) == (r - n) % Span = 0
IsHighProduct(r, n) == \E low \in Reg : n = Signed(r) * Span + low
IsHighUnsigned(r, n) == \E low \in Reg : n = r * Span + low

\* q and r are the quotient and the rest of n by m: the rest is smaller than
\* the divisor and has the sign of the dividend.
Divides(n, m, q, r) ==
  n = m * q + r /\ Abs(r) < Abs(m) /\ (r = 0 \/ (r < 0 <=> n < 0))

\* A division by 0 gives -1 and the dividend, and the one signed quotient
\* that is no word wraps to the dividend with rest 0.
IsQuotient(q, a, b) ==
  \/ b = 0 /\ q = Span - 1
  \/ b # 0 /\ \E r \in -Span .. Span : Divides(Signed(a), Signed(b), Signed(q), r)
  \/ Signed(b) = -1 /\ 2 * a = Span /\ q = a

IsRest(r, a, b) ==
  \/ b = 0 /\ r = a
  \/ b # 0 /\ \E q \in -Span .. Span : Divides(Signed(a), Signed(b), q, Signed(r))

\* r is what the computation n gives on a and b.
Means(n, a, b, r) ==
  \/ n \in {"add", "addi", "amoadd_w"} /\ (r - a - b) % Span = 0
  \/ n = "sub" /\ (r + b - a) % Span = 0
  \/ n \in {"sll", "slli"} /\ \A k \in 0 .. XLEN - 1 : k \in Bits(r) <=> k - Shamt(b) \in Bits(a)
  \/ n \in {"srl", "srli"} /\ \A k \in 0 .. XLEN - 1 : k \in Bits(r) <=> k + Shamt(b) \in Bits(a)
  \/ /\ n \in {"sra", "srai"}
     /\ \A k \in 0 .. XLEN - 1 :
          k \in Bits(r) <=> (IF k + Shamt(b) < XLEN THEN k + Shamt(b) ELSE XLEN - 1) \in Bits(a)
  \/ n \in {"slt", "slti"} /\ r \in {0, 1} /\ (r = 1 <=> Signed(a) < Signed(b))
  \/ n \in {"sltu", "sltiu"} /\ r \in {0, 1} /\ (r = 1 <=> a < b)
  \/ n \in {"xor", "xori", "amoxor_w"}
       /\ \A k \in 0 .. XLEN - 1 : k \in Bits(r) <=> (k \in Bits(a) <=> k \notin Bits(b))
  \/ n \in {"or", "ori", "amoor_w"} /\ Bits(r) = Bits(a) \cup Bits(b)
  \/ n \in {"and", "andi", "amoand_w"} /\ Bits(r) = Bits(a) \cap Bits(b)
  \/ n = "mul" /\ IsProduct(r, a * b)
  \/ n = "mulh" /\ IsHighProduct(r, Signed(a) * Signed(b))
  \/ n = "mulhsu" /\ IsHighProduct(r, Signed(a) * b)
  \/ n = "mulhu" /\ IsHighUnsigned(r, a * b)
  \/ n = "div" /\ IsQuotient(r, a, b)
  \/ n = "rem" /\ IsRest(r, a, b)
  \/ n = "divu" /\ (IF b = 0 THEN r = Span - 1 ELSE \E s \in Reg : Divides(a, b, r, s))
  \/ n = "remu" /\ (IF b = 0 THEN r = a ELSE \E q \in Reg : Divides(a, b, q, r))
  \/ n = "amoswap_w" /\ r = b
  \/ n = "amomin_w" /\ r \in {a, b} /\ Signed(r) <= Signed(a) /\ Signed(r) <= Signed(b)
  \/ n = "amomax_w" /\ r \in {a, b} /\ Signed(r) >= Signed(a) /\ Signed(r) >= Signed(b)
  \/ n = "amominu_w" /\ r \in {a, b} /\ r <= a /\ r <= b
  \/ n = "amomaxu_w" /\ r \in {a, b} /\ r >= a /\ r >= b

-----------------------------------------------------------------------------
(* Steps.                                                                  *)

NextPc == Wrap(pc + 4)

\* Register rd takes a value that Ok holds of; x0 stays 0 and no other
\* register changes.
OnlyRd(i, Ok(_)) ==
  /\ x'[0] = 0
  /\ \A n \in DOMAIN x \ {0, i.rd} : x'[n] = x[n]
  /\ i.rd # 0 => x'[i.rd] \in Reg /\ Ok(x'[i.rd])

Elsewhere == UNCHANGED <<csr, slot, machine>>

\* The trap is precise: registers and memory are as before the instruction.
Trap(cause, address) ==
  /\ UNCHANGED <<x, mem, slot>>
  /\ machine'
  /\ pc' = csr.mtvec
  /\ csr'.mepc = pc /\ csr'.mcause = cause
  /\ cause \in {Cause.load_access, Cause.store_access} => csr'.mtval = address
  /\ csr'.mtvec = csr.mtvec /\ csr'.mie = csr.mie /\ csr'.mscratch = csr.mscratch

\* The machine timer interrupt, enabled by bit 7 of mie and bit 3 of mstatus.
Interrupt ==
  /\ 7 \in Bits(csr.mie) /\ 3 \in Bits(csr.mstatus)
  /\ Trap(Span \div 2 + 7, 0)

RegisterForms == (DOMAIN RType \ {"slli", "srli", "srai"}) \cup DOMAIN MType
ImmediateForms ==
  {"slli", "srli", "srai", "addi", "slti", "sltiu", "xori", "ori", "andi"}

ComputeStep(i, n) ==
  /\ n \in RegisterForms \cup ImmediateForms
  /\ OnlyRd(i, LAMBDA r : Means(n, x[i.rs1], IF n \in RegisterForms THEN x[i.rs2] ELSE i.imm, r))
  /\ pc' = NextPc
  /\ UNCHANGED mem /\ Elsewhere

UpperStep(i, n) ==
  /\ n \in {"lui", "auipc"}
  /\ OnlyRd(i, LAMBDA r : r = IF n = "lui" THEN i.imm ELSE Wrap(pc + i.imm))
  /\ pc' = NextPc
  /\ UNCHANGED mem /\ Elsewhere

\* The return address, and a target of which JALR clears bit 0.
JumpStep(i, n) ==
  /\ n \in {"jal", "jalr"}
  /\ OnlyRd(i, LAMBDA r : r = NextPc)
  /\ Bits(pc') = IF n = "jal" THEN Bits(Wrap(pc + i.imm)) ELSE Bits(Wrap(x[i.rs1] + i.imm)) \ {0}
  /\ UNCHANGED mem /\ Elsewhere

\* The conditions, by the bits that decide an order.
BranchHolds(n, a, b) ==
  \/ n \in {"beq", "bge", "bgeu"} /\ a = b
  \/ n = "bne" /\ a # b
  \/ n = "blt" /\ Signed(a) < Signed(b)
  \/ n = "bge" /\ Signed(a) > Signed(b)
  \/ n = "bltu" /\ a < b
  \/ n = "bgeu" /\ a > b

BranchStep(i, n) ==
  /\ n \in {"beq", "bne", "blt", "bge", "bltu", "bgeu"}
  /\ pc' = Wrap(pc + IF BranchHolds(n, x[i.rs1], x[i.rs2]) THEN i.imm ELSE 4)
  /\ UNCHANGED <<x, mem>> /\ Elsewhere

FenceStep(n) ==
  n \in {"fence", "fence_i"} /\ pc' = NextPc /\ UNCHANGED <<x, mem>> /\ Elsewhere

\* All of w bytes at address a are memory.
InMemory(a, w) == a .. a + w - 1 \subseteq DOMAIN mem

Width == [lb |-> 1, lbu |-> 1, lh |-> 2, lhu |-> 2, lw |-> 4, sb |-> 1, sh |-> 2, sw |-> 4]

\* The lowest bytes of r are those at a, and the others repeat the sign of the
\* highest of them for LB and LH, or are 0.
IsLoaded(n, a, r) ==
  LET w == Width[n]
      fill == IF n \in {"lb", "lh"} /\ 2 * mem[a + w - 1] >= ByteSpan THEN ByteSpan - 1 ELSE 0
  IN \A k \in 0 .. 3 : ByteOf(r, k) = IF k < w THEN mem[a + k] ELSE fill

\* A load from a device gives what the device gives.
LoadStep(i, n) ==
  LET a == Wrap(x[i.rs1] + i.imm) IN
  /\ n \in {"lb", "lh", "lw", "lbu", "lhu"}
  /\ \/ /\ InMemory(a, Width[n]) \/ a \in IoSpace
        /\ OnlyRd(i, LAMBDA r : a \in IoSpace \/ IsLoaded(n, a, r))
        /\ pc' = NextPc
        /\ UNCHANGED mem /\ Elsewhere
     \/ ~InMemory(a, Width[n]) /\ a \notin IoSpace /\ Trap(Cause.load_access, a)

\* The w bytes at a become those of v, and all others stay.
IsStored(a, w, v) ==
  \A c \in DOMAIN mem : mem'[c] = IF c \in a .. a + w - 1 THEN ByteOf(v, c - a) ELSE mem[c]

StoreStep(i, n) ==
  LET a == Wrap(x[i.rs1] + i.imm) IN
  /\ n \in {"sb", "sh", "sw"}
  /\ \/ /\ \/ InMemory(a, Width[n]) /\ IsStored(a, Width[n], x[i.rs2])
           \/ a \in IoSpace /\ UNCHANGED mem
        /\ pc' = NextPc
        /\ UNCHANGED x /\ Elsewhere
     \/ ~InMemory(a, Width[n]) /\ a \notin IoSpace /\ Trap(Cause.store_access, a)

\* The word at a.
IsWordAt(a, r) == \A k \in 0 .. 3 : ByteOf(r, k) = mem[a + k]

\* LR.W reserves its address.
LoadReserved(i, n) ==
  LET a == x[i.rs1] IN
  /\ n = "lr_w" /\ InMemory(a, 4)
  /\ slot' = a
  /\ OnlyRd(i, LAMBDA r : IsWordAt(a, r))
  /\ pc' = NextPc
  /\ UNCHANGED <<mem, csr, machine>>

\* SC.W stores, and gives 0, exactly where its address is reserved.
StoreConditional(i, n) ==
  LET a == x[i.rs1] IN
  /\ n = "sc_w" /\ InMemory(a, 4)
  /\ \/ slot = a /\ IsStored(a, 4, x[i.rs2]) /\ OnlyRd(i, LAMBDA r : r = 0)
     \/ slot # a /\ UNCHANGED mem /\ OnlyRd(i, LAMBDA r : r # 0)
  /\ pc' = NextPc
  /\ UNCHANGED <<csr, machine>>

\* Whether it stored or not, no reservation is left after it.
Unreserved == slot' \notin DOMAIN mem

ReadModifyWrite(i, n) ==
  LET a == x[i.rs1] IN
  /\ n \in DOMAIN AType \ {"lr_w", "sc_w"} /\ InMemory(a, 4)
  /\ OnlyRd(i, LAMBDA r : IsWordAt(a, r))
  /\ \E old \in Reg :
       /\ IsWordAt(a, old)
       /\ \E new \in Reg : Means(n, old, x[i.rs2], new) /\ IsStored(a, 4, new)
  /\ pc' = NextPc
  /\ Elsewhere

AtomicStep(i, n) ==
  LET a == x[i.rs1] IN
  \/ /\ a % 4 = 0
     /\ \/ LoadReserved(i, n)
        \/ StoreConditional(i, n) /\ Unreserved
        \/ ReadModifyWrite(i, n)
  \/ /\ n \in DOMAIN AType /\ ~InMemory(a, 4)
     /\ Trap(IF n = "lr_w" THEN Cause.load_access ELSE Cause.store_access, a)

CsrForms == {"csrrw", "csrrs", "csrrc", "csrrwi", "csrrsi", "csrrci"}

\* The old value goes to rd, and the new one to the CSR alone.  Of CSRs that
\* are not in CsrNumber only this much is said: nothing else changes.
CsrStep(i, n) ==
  LET src == Bits(IF n \in {"csrrwi", "csrrsi", "csrrci"} THEN i.rs1 ELSE x[i.rs1])
      new(old) == CASE n \in {"csrrw", "csrrwi"} -> src
                    [] n \in {"csrrs", "csrrsi"} -> old \cup src
                    [] n \in {"csrrc", "csrrci"} -> old \ src
  IN
  /\ n \in CsrForms
  /\ OnlyRd(i, LAMBDA r : \A c \in DOMAIN csr : i.csr = CsrNumber[c] => r = csr[c])
  /\ \A c \in DOMAIN csr :
       Bits(csr'[c]) = IF i.csr = CsrNumber[c] THEN new(Bits(csr[c])) ELSE Bits(csr[c])
  /\ pc' = NextPc
  /\ UNCHANGED <<mem, slot, machine>>

\* MRET goes to mepc; of the mode and mstatus see Priv.
SystemStep(n) ==
  \/ n = "ecall" /\ Trap(IF machine THEN Cause.machine_ecall ELSE Cause.user_ecall, 0)
  \/ n = "ebreak" /\ Trap(Cause.breakpoint, 0)
  \/ /\ n \in {"mret", "wfi"}
     /\ pc' = IF n = "mret" THEN csr.mepc ELSE NextPc
     /\ \A c \in DOMAIN csr \ {"mstatus"} : csr'[c] = csr[c]
     /\ n = "wfi" => UNCHANGED machine
     /\ UNCHANGED <<x, mem, slot>>

\* MRET and the CSRs of machine mode are machine mode's.
Privileged(i) ==
  \E n \in Names(i) : n = "mret" \/ (n \in CsrForms /\ \E c \in DOMAIN csr : i.csr = CsrNumber[c])

Allowed(i) == machine \/ ~Privileged(i)

\* An encoding that is none of the above is an illegal instruction, and so is
\* one that the mode does not allow.
IllegalStep(i) == (Names(i) = {} \/ ~Allowed(i)) /\ Trap(Cause.illegal, 0)

\* Instruction i does what the mnemonic n says.
Does(i, n) ==
  \/ ComputeStep(i, n) \/ UpperStep(i, n) \/ JumpStep(i, n) \/ BranchStep(i, n)
  \/ FenceStep(n) \/ LoadStep(i, n) \/ StoreStep(i, n) \/ AtomicStep(i, n)
  \/ CsrStep(i, n) \/ SystemStep(n)

IsaStep(i) ==
  \/ Allowed(i) /\ \E n \in Names(i) : Does(i, n)
  \/ IllegalStep(i)
  \/ Interrupt
=============================================================================
