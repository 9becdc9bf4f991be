-------------------------------- MODULE Exec --------------------------------
(***************************************************************************)
(* The data path: what decode::decode_run_without_trap and the rest of     *)
(* cpu_t::decode_run do to the general registers, to memory and to the     *)
(* CSRs that are only data, for every instruction the decoder knows.  The  *)
(* control of each step is an action of module Hart, whose free choices    *)
(* (which action, which target, which value) are settled here by the       *)
(* fetched instruction and the registers.                                  *)
(*                                                                         *)
(* An iteration of fetch_decode_exec is two steps: Fetch, and the call of  *)
(* decode_run.  The program is arbitrary, so Fetch yields any of Instrs,   *)
(* as the fields the decoder extracts; module BitFields is about how the  *)
(* immediate is put together.                                              *)
(***************************************************************************)
EXTENDS Hart, Arith, Encoding

CONSTANTS
  MemRange,      \* the first address after RAM
  IoSpace,       \* addresses that go to the devices
  MTimeLow, MTimeHigh, MatchLow, MatchHigh, SysconAt,   \* device registers
  DeviceWords,   \* what the other device registers and CSRs can read as
  VendorWord, MisaWord,   \* what mvendorid and misa read as
  Instrs,        \* the instructions of the guest program
  NoInstr,       \* stands for "not fetched yet"
  Values,        \* start values of x1 and x2
  Image,         \* the bytes the loader left in the host's memory
  MaxSteps       \* BOUND: number of instructions

\* What the fields of an instruction word can be; an immediate is extended to
\* the width of a register.
InstrFields ==
  [op : 0 .. 127, rd : 0 .. 31, f3 : 0 .. 7, rs1 : 0 .. 31, rs2 : 0 .. 31,
   f7 : 0 .. 127, imm : Reg, csr : 0 .. 4095]

ASSUME ExecAssumption ==
  /\ AddrSpan = Span /\ TSpan = Span
  /\ MemRange \in ResetVector + 12 .. Span - 4
  /\ Ram = ResetVector .. MemRange - 1
  /\ IoSpace \subseteq 0 .. ResetVector - 1
  /\ {MTimeLow, MTimeHigh, MatchLow, MatchHigh, SysconAt} \subseteq IoSpace
  /\ SysconAt \notin {MatchLow, MatchHigh}
  /\ DeviceWords \subseteq Reg /\ {VendorWord, MisaWord} \subseteq Reg
  /\ Values \subseteq Reg
  /\ Instrs \subseteq InstrFields
  /\ NoInstr \notin Instrs
  /\ Image \in [ResetVector .. MemRange + 2 -> 0 .. ByteSpan - 1]
  /\ MaxSteps \in Nat

\* What LR.W keeps of an address.
SlotOf(a) == Bits(a) \cap (0 .. 28)

\* RAM is 64 MiB, so two addresses of it never share a slot value.
ASSUME RamFitsSlot == \A a, b \in Ram : SlotOf(a) = SlotOf(b) => a = b

VARIABLES
  ir,      \* the fetched instruction
  gpr,     \* the general registers
  host,    \* the bytes of phymem, and those behind it in the host's memory
  mscratch, mcause, mtval,
  steps    \* counts instructions, for the bound

dataVars == <<gpr, host, mscratch, mcause, mtval>>
execVars == <<vars, ir, dataVars, steps>>

\* The bytes behind RAM that an access of four bytes can reach.
Behind == MemRange .. MemRange + 2

-----------------------------------------------------------------------------
(* Mutated forms, for the runs that show the properties can be violated.   *)

WriteBackAnyRegister(v) == gpr' = [gpr EXCEPT ![ir.rd] = v]

PastRamByFirstByte(a) == a >= MemRange

-----------------------------------------------------------------------------
(* Operands, results and addresses.                                        *)

rs1 == gpr[ir.rs1]
rs2 == gpr[ir.rs2]

\* Bits 25 and 30 of the instruction, and its bits 31..27.
Bit25 == ir.f7 % 2 = 1
Bit30 == (ir.f7 \div 32) % 2 = 1
irmid == ir.f7 \div 4

\* Register 0 is not written.
WriteBack(v) == IF ir.rd = 0 THEN UNCHANGED gpr ELSE gpr' = [gpr EXCEPT ![ir.rd] = v]

\* The address of a load or store: one addition of 32 bits.
Address == Wrap(rs1 + ir.imm)

\* An address is checked by its first byte only.
InRam(a) == a \in ResetVector .. MemRange - 1

\* An atomic operation's by all four, at the upper end alone.
PastRam(a) == a >= MemRange - 3

-----------------------------------------------------------------------------
(* The ends of a step.                                                     *)

\* Mutated: the value computed for rd is written before the trap is looked at.
RaiseAndWriteBack(d, cause, address) ==
  /\ Exception(d)
  /\ mcause' = cause
  /\ mtval' = IF cause \in 5 .. 7 THEN address ELSE pc
  /\ WriteBack(address)
  /\ UNCHANGED <<host, mscratch>>

\* An exception: mtval is the address for the access faults, and pc for all
\* others; no register is written.
Raise(d, cause, address) ==
  /\ Exception(d)
  /\ mcause' = cause
  /\ mtval' = IF cause \in 5 .. 7 THEN address ELSE pc
  /\ UNCHANGED <<gpr, host, mscratch>>

\* A register takes v, and pc goes to target.
Finish(d, v, target) ==
  /\ Plain(d, target)
  /\ WriteBack(v)
  /\ UNCHANGED <<host, mscratch, mcause, mtval>>

Compute(d, v) == Finish(d, v, PcPlus(4))

\* Only the control changes.
NoData == UNCHANGED dataVars

TakeInterrupt(d) ==
  /\ Interrupt(d)
  /\ mcause' = Span \div 2 + 7 /\ mtval' = 0
  /\ UNCHANGED <<gpr, host, mscratch>>

-----------------------------------------------------------------------------
(* The opcodes.                                                            *)

Lui(d) == ir.op = \h37 /\ Compute(d, ir.imm)

Auipc(d) == ir.op = \h17 /\ Compute(d, Wrap(pc + ir.imm))

Jal(d) == ir.op = \h6F /\ Finish(d, PcPlus(4), Wrap(pc + ir.imm))

\* The target is even.
Jalr(d) ==
  /\ ir.op = \h67
  /\ Finish(d, PcPlus(4), Address - (Address % 2))

Branch(d) ==
  /\ ir.op = \h63
  /\ \/ /\ ir.f3 \in Branches
        /\ Plain(d, IF Taken(ir.f3, rs1, rs2) THEN Wrap(pc + ir.imm) ELSE PcPlus(4))
        /\ NoData
     \/ ir.f3 \notin Branches /\ Raise(d, 2, 0)

\* mmu_t::load by the width and the sign of funct3.
Loaded(f3, a) ==
  CASE f3 = 0 -> Extend(Joined(host, a, 1), 1)
    [] f3 = 1 -> Extend(Joined(host, a, 2), 2)
    [] f3 = 2 -> Joined(host, a, 4)
    [] f3 = 4 -> Joined(host, a, 1)
    [] f3 = 5 -> Joined(host, a, 2)

LoadRam(d) ==
  /\ InRam(Address)
  /\ \/ ir.f3 \in {0, 1, 2, 4, 5} /\ Compute(d, Loaded(ir.f3, Address))
     \/ ir.f3 \in {3, 6, 7} /\ Raise(d, 2, 0)

\* The devices do not look at the width.  The time is that of the poll of the
\* same step; what the UART gives is module Uart's.
LoadDevice(d) ==
  /\ Address \in IoSpace
  /\ \E w \in CASE Address = MTimeHigh -> {NewTimerh(d)}
                [] Address = MTimeLow  -> {NewTimerl(d)}
                [] OTHER               -> DeviceWords :
       Compute(d, w)

Load(d) ==
  /\ ir.op = \h03
  /\ \/ LoadRam(d) \/ LoadDevice(d)
     \/ ~InRam(Address) /\ Address \notin IoSpace /\ Raise(d, 5, Address)

\* The width of SB, SH and SW.
StoreWidth(f3) == CASE f3 = 0 -> 1 [] f3 = 1 -> 2 [] f3 = 2 -> 4

\* mmu_t::store
StoreBytes(a, w, v) == host' = Stored(host, a, w, v)

StoreRam(d) ==
  /\ InRam(Address)
  /\ \/ /\ ir.f3 \in 0 .. 2
        /\ Plain(d, PcPlus(4))
        /\ StoreBytes(Address, StoreWidth(ir.f3), rs2)
        /\ UNCHANGED <<gpr, mscratch, mcause, mtval>>
     \/ ir.f3 \notin 0 .. 2 /\ Raise(d, 2, 0)

StoreDevice(d) ==
  /\ Address \in IoSpace
  /\ \/ /\ Address \in {MatchLow, MatchHigh}
        /\ Execute(d)
        /\ IF Address = MatchLow THEN StoreMatchl(d, rs2) ELSE StoreMatchh(d, rs2)
        /\ Continue(PcPlus(4))
        /\ UNCHANGED <<mtvec, mie, mepc, mstatus>>
     \/ Address = SysconAt /\ Syscon(d, Signed(rs2))
     \/ Address \notin {MatchLow, MatchHigh, SysconAt} /\ Plain(d, PcPlus(4))
  /\ NoData

Store(d) ==
  /\ ir.op = \h23
  /\ \/ StoreRam(d) \/ StoreDevice(d)
     \/ ~InRam(Address) /\ Address \notin IoSpace /\ Raise(d, 7, Address)

\* The shift amount of an immediate shift is the low bits of the immediate,
\* whose bit 10 is Bit30.
OpImm(d) == ir.op = \h13 /\ Compute(d, Op(ir.f3, FALSE, Bit30, rs1, ir.imm))

OpReg(d) ==
  /\ ir.op = \h33
  /\ Compute(d, IF Bit25 THEN MulOp(ir.f3, rs1, rs2)
                         ELSE Op(ir.f3, TRUE, Bit30, rs1, rs2))

Fence(d) == ir.op = \h0F /\ Plain(d, PcPlus(4)) /\ NoData

-----------------------------------------------------------------------------
(* SYSTEM.                                                                 *)

\* The CSR numbers the decoder names.
CsrNo == [mstatus |-> \h300, misa |-> \h301, mie |-> \h304, mtvec |-> \h305,
          mscratch |-> \h340, mepc |-> \h341, mcause |-> \h342, mtval |-> \h343,
          mip |-> \h344, print |-> \h138, input |-> \h140, mvendorid |-> \hF11]

\* The bits a CSR instruction can read: of a CSR the decoder does not name,
\* what uart::HandleOtherCSRRead gives, which is 0 but for the input.
CsrReads(d) ==
  CASE ir.csr = CsrNo.mstatus   -> {mstatus}
    [] ir.csr = CsrNo.mie       -> {mie}
    [] ir.csr = CsrNo.mip       -> {PolledMip(d)}
    [] ir.csr = CsrNo.mtvec     -> {Bits(mtvec)}
    [] ir.csr = CsrNo.mscratch  -> {Bits(mscratch)}
    [] ir.csr = CsrNo.mepc      -> {Bits(mepc)}
    [] ir.csr = CsrNo.mcause    -> {Bits(mcause)}
    [] ir.csr = CsrNo.mtval     -> {Bits(mtval)}
    [] ir.csr = CsrNo.mvendorid -> {Bits(VendorWord)}
    [] ir.csr = CsrNo.misa      -> {Bits(MisaWord)}
    [] ir.csr = CsrNo.input     -> {Bits(w) : w \in DeviceWords}
    [] OTHER                    -> {{}}

\* The operand is a register, or the five bits that name it.
CsrOperand == Bits(IF ir.f3 < 4 THEN rs1 ELSE ir.rs1)

\* CSRRW, CSRRS, CSRRC and their immediate forms.
CsrWritten(old) ==
  CASE ir.f3 \in {1, 5} -> CsrOperand
    [] ir.f3 \in {2, 6} -> old \cup CsrOperand
    [] ir.f3 \in {3, 7} -> old \ CsrOperand

\* CSRs that module Hart keeps.
WriteControl(d, w) ==
  /\ \/ ir.csr = CsrNo.mstatus /\ StoreStatus(d, w)
     \/ ir.csr = CsrNo.mie     /\ StoreMie(d, w)
     \/ ir.csr = CsrNo.mip     /\ StorePending(d, w)
     \/ ir.csr = CsrNo.mtvec   /\ WriteTvec(d, Number(w))
     \/ ir.csr = CsrNo.mepc    /\ WriteEpc(d, Number(w))
  /\ UNCHANGED <<mscratch, mcause, mtval>>

\* CSRs that are data, and those a write does nothing to.
WriteData(d, w) ==
  /\ ir.csr \notin {CsrNo.mstatus, CsrNo.mie, CsrNo.mip, CsrNo.mtvec, CsrNo.mepc}
  /\ Plain(d, PcPlus(4))
  /\ mscratch' = IF ir.csr = CsrNo.mscratch THEN Number(w) ELSE mscratch
  /\ mcause' = IF ir.csr = CsrNo.mcause THEN Number(w) ELSE mcause
  /\ mtval' = IF ir.csr = CsrNo.mtval THEN Number(w) ELSE mtval

\* A read, then a write.  The string to print is looked for in the host's
\* memory at the guest's address, which can end the process.
Zicsr(d) ==
  /\ ir.op = \h73 /\ ir.f3 \in {1, 2, 3, 5, 6, 7}
  /\ \/ \E old \in CsrReads(d) :
          /\ WriteControl(d, CsrWritten(old)) \/ WriteData(d, CsrWritten(old))
          /\ WriteBack(Number(old))
          /\ UNCHANGED host
     \/ ir.csr = CsrNo.print /\ WildAccess(d) /\ NoData

\* ECALL and EBREAK, and the numbers that are no instruction.
SystemTrap(d) ==
  \/ ir.csr = 0 /\ Raise(d, IF Mode(extraflags) = User THEN 8 ELSE 11, 0)
  \/ ir.csr = 1 /\ Raise(d, 3, 0)
  \/ ir.csr \notin {0, 1, 3, \h105} /\ ir.csr % 256 # 2 /\ Raise(d, 2, 0)

System(d) ==
  /\ ir.op = \h73
  /\ \/ /\ ir.f3 = 0
        /\ \/ SystemTrap(d)
           \/ /\ \/ ir.csr = \h105 /\ Wfi(d)
                 \/ ir.csr % 256 = 2 /\ Mret(d)
                 \/ ir.csr = 3 /\ Halt(d)
              /\ NoData
     \/ ir.f3 = 4 /\ Raise(d, 2, 0)

-----------------------------------------------------------------------------
(* RV32A.                                                                  *)

\* LR.W
Reserving(d) ==
  /\ irmid = 2
  /\ LoadReserved(d, Bits(rs1))
  /\ WriteBack(Joined(host, rs1, 4))
  /\ UNCHANGED <<host, mscratch, mcause, mtval>>

\* SC.W gives 0 and stores if the slot is that of its address.
Conditional(d) ==
  /\ irmid = 3
  /\ Plain(d, PcPlus(4))
  /\ LET fails == ~SlotMatches(PolledFlags(d), Bits(rs1)) IN
       /\ WriteBack(Truth(fails))
       /\ IF fails THEN UNCHANGED host ELSE StoreBytes(rs1, 4, rs2)
  /\ UNCHANGED <<mscratch, mcause, mtval>>

ReadModifyWrite(d) ==
  /\ irmid \in AmoOps
  /\ Plain(d, PcPlus(4))
  /\ WriteBack(Joined(host, rs1, 4))
  /\ StoreBytes(rs1, 4, AmoResult(irmid, Joined(host, rs1, 4), rs2))
  /\ UNCHANGED <<mscratch, mcause, mtval>>

Atomic(d) ==
  /\ ir.op = \h2F
  /\ \/ PastRam(rs1) /\ Raise(d, 7, rs1)
     \/ /\ InRam(rs1) /\ ~PastRam(rs1)
        /\ \/ Reserving(d) \/ Conditional(d) \/ ReadModifyWrite(d)
           \/ irmid \notin AmoOps \cup {2, 3} /\ Raise(d, 2, 0)
     \/ rs1 < ResetVector /\ WildAccess(d) /\ NoData

-----------------------------------------------------------------------------
(* The loop.                                                               *)

Opcodes == {\h37, \h17, \h6F, \h67, \h63, \h03, \h23, \h13, \h33, \h0F, \h73, \h2F}

UnknownOpcode(d) == ir.op \notin Opcodes /\ Raise(d, 2, 0)

Decode(d) ==
  \/ Lui(d) \/ Auipc(d) \/ Jal(d) \/ Jalr(d) \/ Branch(d)
  \/ Load(d) \/ Store(d) \/ OpImm(d) \/ OpReg(d) \/ Fence(d)
  \/ Zicsr(d) \/ System(d) \/ Atomic(d) \/ UnknownOpcode(d)

\* decode_run, with an instruction that was fetched.
DecodeRun ==
  /\ ir # NoInstr
  /\ \E d \in Ticks : Iterating(d) /\ (TakeInterrupt(d) \/ Decode(d))
  /\ ir' = NoInstr
  /\ UNCHANGED steps

\* mmu_t::fetch.  Outside RAM it prints a message and reads what is there, if
\* anything: any word too, or LoseFetch.
Fetch ==
  /\ loop = "running" /\ ir = NoInstr /\ steps < MaxSteps
  /\ ir' \in Instrs
  /\ steps' = steps + 1
  /\ UNCHANGED <<vars, dataVars>>

LoseFetch == ir = NoInstr /\ FetchOutside /\ UNCHANGED <<ir, dataVars, steps>>

\* Where a guest can be a few instructions after reset: it has two values in
\* registers and a handler's address in mtvec, and is in machine mode with
\* interrupts off, or in user mode with the timer interrupt enabled, or has
\* just enabled it with the timer past its compare value.
ExecInit ==
  /\ pc = ResetVector /\ mtvec = ResetVector + 8 /\ mepc = ResetVector + 4
  /\ \/ extraflags = Machine /\ mie = {} /\ mstatus = {} /\ timerh = 0
     \/ extraflags = User /\ mie = {MTIP} /\ mstatus = {MIE} /\ timerh = 0
     \/ extraflags = Machine /\ mie = {MTIP} /\ mstatus = {MIE} /\ timerh = 1
  /\ timerl = 0 /\ timermatchl = 1 /\ timermatchh = 0
  /\ loop = "running"
  /\ mip = {}
  /\ ir = NoInstr /\ steps = 0
  /\ gpr \in {[n \in 0 .. 31 |-> CASE n = 1 -> a [] n = 2 -> b [] OTHER -> 0] :
                 a, b \in Values}
  /\ host = Image
  /\ mscratch = 0 /\ mcause = 0 /\ mtval = 0

ExecNext == Fetch \/ DecodeRun \/ LoseFetch

ExecSpec == ExecInit /\ [][ExecNext]_execVars

-----------------------------------------------------------------------------
(* Properties *)

ExecTypeOK ==
  /\ TypeOK
  /\ ir \in Instrs \cup {NoInstr}
  /\ gpr \in [0 .. 31 -> Reg]
  /\ host \in [ResetVector .. MemRange + 2 -> 0 .. ByteSpan - 1]
  /\ {mscratch, mcause, mtval} \subseteq Reg
  /\ steps \in 0 .. MaxSteps

Memory == [a \in Ram |-> host[a]]

Csrs ==
  [mstatus |-> Number(mstatus), mie |-> Number(mie), mtvec |-> mtvec,
   mscratch |-> mscratch, mepc |-> mepc, mcause |-> mcause, mtval |-> mtval]

\* The address in RAM that the slot stands for, or one that is not in RAM.
AddressOf == [s \in {SlotOf(a) : a \in Ram} |-> CHOOSE a \in Ram : SlotOf(a) = s]

ReservedAddress ==
  IF Slot(extraflags) \in DOMAIN AddressOf THEN AddressOf[Slot(extraflags)] ELSE MemRange

I == INSTANCE Isa WITH
       x       <- gpr,
       mem     <- Memory,
       csr     <- Csrs,
       slot    <- ReservedAddress,
       machine <- Mode(extraflags) # User

\* The same, in a memory that goes on for the bytes behind RAM.
LongRam == INSTANCE Isa WITH
       x       <- gpr,
       mem     <- host,
       csr     <- Csrs,
       slot    <- ReservedAddress,
       machine <- Mode(extraflags) # User

\* The encoding ir would have in the fields that the decoder does not look at,
\* or looks at after the address, to be an instruction.
Nearest ==
  CASE ir.op \in {\h67, \h0F} -> [ir EXCEPT !.f3 = 0]
    [] ir.op = \h2F -> [ir EXCEPT !.f3 = 2]
    [] ir.op = \h13 -> [ir EXCEPT !.f7 = IF ir.f3 = 5 /\ Bit30 THEN 32 ELSE 0]
    [] ir.op = \h33 -> [ir EXCEPT !.f7 = CASE Bit25 -> 1
                                           [] ~Bit25 /\ Bit30 /\ ir.f3 \in {0, 5} -> 32
                                           [] OTHER -> 0]
    [] ir.op \in {\h03, \h23} /\ ~InRam(Address) -> [ir EXCEPT !.f3 = 2]
    [] ir.op = \h73 /\ ir.f3 = 0 /\ ir.csr % 256 = 2 -> [ir EXCEPT !.csr = \h302]
    [] OTHER -> ir

\* What the decoder takes ir for: what it is, or what its nearest encoding is.
TakenFor == IF Names(ir) # {} THEN Names(ir) ELSE Names(Nearest)

\* Where the simulator does not do what the instruction set says, and what it
\* does there.
\*
\* An encoding that is no instruction is executed as its nearest one.
Lenient == Names(ir) = {} /\ \E n \in TakenFor : I!Does(ir, n)

\* In user mode, the CSRs of machine mode and MRET do what they do in machine
\* mode: decoder.cpp:192-265 does not look at the mode.
Unprivileged == ~I!Allowed(ir) /\ \E n \in Names(ir) : I!Does(ir, n)

\* A load or store that begins in the last bytes of RAM and ends behind it
\* goes on in the host's memory (decoder.cpp:61, 99).
EdgeAccess ==
  /\ ir.op \in {\h03, \h23} /\ InRam(Address)
  /\ \E n \in Names(ir) : ~I!InMemory(Address, I!Width[n])

BehindRam ==
  /\ EdgeAccess
  /\ \E n \in Names(ir) : LongRam!LoadStep(ir, n) \/ LongRam!StoreStep(ir, n)

\* An atomic operation does not look at the alignment of its address.
Misaligned ==
  /\ rs1 % 4 # 0
  /\ \E n \in TakenFor : I!LoadReserved(ir, n) \/ I!ReadModifyWrite(ir, n)

\* SC.W leaves the reservation as it was (decoder.cpp:328-330), so that the
\* next SC.W can hold without another LR.W: see module LrSc.  Nor does it look
\* at the alignment.
StaleReservation ==
  /\ \E n \in TakenFor : I!StoreConditional(ir, n)
  /\ UNCHANGED ReservedAddress

\* Above RAM, LR.W and an atomic operation that does not exist fault as a store.
AtomicFault ==
  /\ ir.op = \h2F /\ PastRam(rs1) /\ (irmid = 2 \/ irmid \notin AmoOps \cup {2, 3})
  /\ I!Trap(Cause.store_access, rs1)

\* SYSCON's word of all ones skips the next instruction (decoder.cpp:111).
Skips ==
  /\ ir.op = \h23 /\ Address = SysconAt /\ rs2 = Span - 1
  /\ pc' = Wrap(pc + 8)
  /\ UNCHANGED <<gpr, Memory>> /\ I!Elsewhere

\* The stop instruction is no instruction elsewhere; pc stays on it.
StopsHere ==
  /\ ir.op = \h73 /\ ir.f3 = 0 /\ ir.csr = 3
  /\ loop' = "stopped" /\ UNCHANGED I!isaVars

\* An atomic operation below RAM, and a string to print that is not in the
\* host's memory, end the process.
Dies ==
  /\ \/ ir.op = \h2F /\ rs1 < ResetVector
     \/ ir.op = \h73 /\ ir.f3 # 0 /\ ir.csr = CsrNo.print
  /\ loop' = "dead" /\ UNCHANGED I!isaVars

Divergence ==
  \/ Lenient \/ Unprivileged \/ BehindRam \/ Misaligned \/ StaleReservation
  \/ AtomicFault \/ Skips \/ StopsHere \/ Dies

\* Every instruction does what the instruction set says of it, to registers,
\* memory, pc, CSRs and reservation, and traps with the cause and the address it
\* says and without any other effect, or it does exactly what Divergence says of
\* it: the switches of decoder.cpp:5-348 and the trap entry and write back of
\* cpu.cpp:31-77, against the encodings of encoding.h.
ExecutesIsa == [][ir # NoInstr => I!IsaStep(ir) \/ Divergence]_execVars

\* No instruction writes behind RAM but a store of 2 or 4 bytes that begins in
\* its last bytes: the check of one byte at decoder.cpp:99 and that of
\* MEM_RANGE-3 at decoder.cpp:311.
StoresInRam ==
  [][(\E a \in Behind : host'[a] # host[a]) => ir.op = \h23 /\ EdgeAccess]_execVars

\* x0 is 0: each opcode whose bits 11..7 are no register clears rd_idx
\* (decoder.cpp:40, 98, 184, 253), and no write back reaches register 0.
ZeroRegister == gpr[0] = 0
=============================================================================
