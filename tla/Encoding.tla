------------------------------ MODULE Encoding ------------------------------
(***************************************************************************)
(* The instruction encodings, cause numbers and CSR numbers of encoding.h, *)
(* for RV32IMA with Zicsr and machine mode.  The simulator's decoder is    *)
(* written without them: it switches on the opcode and then on single      *)
(* fields.  An instruction is a record of fields: op (bits 6..0), f3       *)
(* (14..12), f7 (31..25), rd, rs1, rs2, imm and csr (31..20).              *)
(***************************************************************************)
EXTENDS Integers

(* The MATCH_ and MASK_ pairs, split into fields.                          *)

\* MASK 0xfe00707f: opcode, funct3, funct7.
RType ==
  [add |-> <<\h33, 0, 0>>, sub |-> <<\h33, 0, 32>>, sll |-> <<\h33, 1, 0>>,
   slt |-> <<\h33, 2, 0>>, sltu |-> <<\h33, 3, 0>>, xor |-> <<\h33, 4, 0>>,
   srl |-> <<\h33, 5, 0>>, sra |-> <<\h33, 5, 32>>, or |-> <<\h33, 6, 0>>,
   and |-> <<\h33, 7, 0>>, slli |-> <<\h13, 1, 0>>, srli |-> <<\h13, 5, 0>>,
   srai |-> <<\h13, 5, 32>>]

MType ==
  [mul |-> <<\h33, 0, 1>>, mulh |-> <<\h33, 1, 1>>, mulhsu |-> <<\h33, 2, 1>>,
   mulhu |-> <<\h33, 3, 1>>, div |-> <<\h33, 4, 1>>, divu |-> <<\h33, 5, 1>>,
   rem |-> <<\h33, 6, 1>>, remu |-> <<\h33, 7, 1>>]

\* MASK 0x707f: opcode, funct3.
IType ==
  [addi |-> <<\h13, 0>>, slti |-> <<\h13, 2>>, sltiu |-> <<\h13, 3>>,
   xori |-> <<\h13, 4>>, ori |-> <<\h13, 6>>, andi |-> <<\h13, 7>>,
   jalr |-> <<\h67, 0>>, fence |-> <<\h0F, 0>>, fence_i |-> <<\h0F, 1>>,
   beq |-> <<\h63, 0>>, bne |-> <<\h63, 1>>, blt |-> <<\h63, 4>>,
   bge |-> <<\h63, 5>>, bltu |-> <<\h63, 6>>, bgeu |-> <<\h63, 7>>,
   lb |-> <<\h03, 0>>, lh |-> <<\h03, 1>>, lw |-> <<\h03, 2>>,
   lbu |-> <<\h03, 4>>, lhu |-> <<\h03, 5>>,
   sb |-> <<\h23, 0>>, sh |-> <<\h23, 1>>, sw |-> <<\h23, 2>>,
   csrrw |-> <<\h73, 1>>, csrrs |-> <<\h73, 2>>, csrrc |-> <<\h73, 3>>,
   csrrwi |-> <<\h73, 5>>, csrrsi |-> <<\h73, 6>>, csrrci |-> <<\h73, 7>>]

\* MASK 0x7f: opcode.
UType == [lui |-> \h37, auipc |-> \h17, jal |-> \h6F]

\* MASK 0xf800707f: opcode 0x2f, funct3 2 and bits 31..27.
AType ==
  [lr_w |-> 2, sc_w |-> 3, amoswap_w |-> 1, amoadd_w |-> 0, amoxor_w |-> 4,
   amoand_w |-> 12, amoor_w |-> 8, amomin_w |-> 16, amomax_w |-> 20,
   amominu_w |-> 24, amomaxu_w |-> 28]

\* MASK 0xffffffff: opcode 0x73, funct3 0 and bits 31..20.
PType == [ecall |-> 0, ebreak |-> 1, wfi |-> \h105, mret |-> \h302]

\* Instruction i is an n.
Is(i, n) ==
  \/ n \in DOMAIN RType /\ RType[n] = <<i.op, i.f3, i.f7>>
  \/ n \in DOMAIN MType /\ MType[n] = <<i.op, i.f3, i.f7>>
  \/ n \in DOMAIN IType /\ IType[n] = <<i.op, i.f3>>
  \/ n \in DOMAIN UType /\ UType[n] = i.op
  \/ n \in DOMAIN AType /\ i.op = \h2F /\ i.f3 = 2 /\ AType[n] = i.f7 \div 4
  \/ n \in DOMAIN PType /\ i.op = \h73 /\ i.f3 = 0 /\ PType[n] = i.csr

Mnemonics ==
  UNION {DOMAIN RType, DOMAIN MType, DOMAIN IType, DOMAIN UType, DOMAIN AType, DOMAIN PType}

Names(i) == {n \in Mnemonics : Is(i, n)}

Cause ==
  [illegal |-> 2, breakpoint |-> 3, load_access |-> 5, store_access |-> 7,
   user_ecall |-> 8, machine_ecall |-> 11]

CsrNumber ==
  [mstatus |-> \h300, mie |-> \h304, mtvec |-> \h305, mscratch |-> \h340,
   mepc |-> \h341, mcause |-> \h342, mtval |-> \h343]
=============================================================================
