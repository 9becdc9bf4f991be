----------------------------- MODULE ExecProofs -----------------------------
(***************************************************************************)
(* Proofs about Exec, for any width of the registers, any RAM, any program *)
(* and any number of instructions.                                         *)
(***************************************************************************)
EXTENDS Exec, HartProofs, ArithProofs

(* The argument needs no types of what is computed: which registers and    *)
(* which bytes a step can change follows from its guards alone.            *)

\* The general registers after a step: at most one changed, and not x0.
RegisterStep == gpr' = gpr \/ (ir.rd # 0 /\ \E v : gpr' = [gpr EXCEPT ![ir.rd] = v])

\* The host's memory after a step: as before, or after a store at an address
\* that was checked.
ByteStep ==
  \/ host' = host
  \/ /\ ir.op = \h23 /\ ir.f3 \in 0 .. 2 /\ InRam(Address)
     /\ host' = Stored(host, Address, StoreWidth(ir.f3), rs2)
  \/ /\ InRam(rs1) /\ ~PastRam(rs1)
     /\ \E v : host' = Stored(host, rs1, 4, v)

DataStep == RegisterStep /\ ByteStep

LEMMA WriteBackStep == ASSUME NEW v, WriteBack(v) PROVE RegisterStep
  BY DEF WriteBack, RegisterStep

LEMMA ComputeData == ASSUME NEW d, NEW v, Compute(d, v) PROVE DataStep
  BY WriteBackStep DEF Compute, Finish, DataStep, ByteStep

LEMMA FinishData == ASSUME NEW d, NEW v, NEW t, Finish(d, v, t) PROVE DataStep
  BY WriteBackStep DEF Finish, DataStep, ByteStep

LEMMA RaiseData == ASSUME NEW d, NEW c, NEW a, Raise(d, c, a) PROVE DataStep
  BY DEF Raise, DataStep, RegisterStep, ByteStep

LEMMA NoDataData == ASSUME NoData PROVE DataStep
  BY DEF NoData, dataVars, DataStep, RegisterStep, ByteStep

LEMMA LoadData == ASSUME NEW d, Load(d) PROVE DataStep
<1>1. CASE LoadRam(d)
  BY <1>1, ComputeData, RaiseData DEF LoadRam
<1>2. CASE LoadDevice(d)
  <2>1. PICK w : Compute(d, w)
    BY <1>2 DEF LoadDevice
  <2> QED
    BY <2>1, ComputeData
<1>3. CASE Raise(d, 5, Address)
  BY <1>3, RaiseData
<1> QED
  BY <1>1, <1>2, <1>3 DEF Load

LEMMA StoreData == ASSUME NEW d, Store(d) PROVE DataStep
<1>1. CASE StoreRam(d)
  <2>1. CASE Raise(d, 2, 0)
    BY <2>1, RaiseData
  <2>2. CASE /\ ir.f3 \in 0 .. 2
             /\ StoreBytes(Address, StoreWidth(ir.f3), rs2)
             /\ UNCHANGED <<gpr, mscratch, mcause, mtval>>
    BY <1>1, <2>2 DEF Store, StoreRam, StoreBytes, DataStep, RegisterStep, ByteStep
  <2> QED
    BY <1>1, <2>1, <2>2 DEF StoreRam
<1>2. CASE StoreDevice(d)
  BY <1>2, NoDataData DEF StoreDevice
<1>3. CASE Raise(d, 7, Address)
  BY <1>3, RaiseData
<1> QED
  BY <1>1, <1>2, <1>3 DEF Store

LEMMA CsrData == ASSUME NEW d, Zicsr(d) PROVE DataStep
<1>1. CASE NoData
  BY <1>1, NoDataData
<1>2. CASE ~NoData
  <2>1. PICK old : WriteBack(Number(old)) /\ UNCHANGED host
    BY <1>2 DEF Zicsr
  <2> QED
    BY <2>1, WriteBackStep DEF DataStep, ByteStep
<1> QED
  BY <1>1, <1>2

LEMMA SystemData == ASSUME NEW d, System(d) PROVE DataStep
  BY RaiseData, NoDataData DEF System, SystemTrap

LEMMA AtomicData == ASSUME NEW d, Atomic(d) PROVE DataStep
<1>1. CASE Raise(d, 7, rs1)
  BY <1>1, RaiseData
<1>2. CASE NoData
  BY <1>2, NoDataData
<1>3. CASE InRam(rs1) /\ ~PastRam(rs1) /\ Reserving(d)
  BY <1>3, WriteBackStep DEF Reserving, DataStep, ByteStep
<1>4. CASE InRam(rs1) /\ ~PastRam(rs1) /\ Conditional(d)
  <2>1. PICK v : WriteBack(v)
    BY <1>4 DEF Conditional
  <2>2. host' = host \/ host' = Stored(host, rs1, 4, rs2)
    BY <1>4 DEF Conditional, StoreBytes
  <2> QED
    BY <1>4, <2>1, <2>2, WriteBackStep DEF DataStep, ByteStep
<1>5. CASE InRam(rs1) /\ ~PastRam(rs1) /\ ReadModifyWrite(d)
  BY <1>5, WriteBackStep DEF ReadModifyWrite, StoreBytes, DataStep, ByteStep
<1>6. CASE Raise(d, 2, 0)
  BY <1>6, RaiseData
<1> QED
  BY <1>1, <1>2, <1>3, <1>4, <1>5, <1>6 DEF Atomic

LEMMA DecodeData == ASSUME NEW d, Decode(d) PROVE DataStep
<1>1. CASE Lui(d) \/ Auipc(d) \/ Jal(d) \/ Jalr(d)
  BY <1>1, ComputeData, FinishData DEF Lui, Auipc, Jal, Jalr
<1>2. CASE Branch(d) \/ Fence(d) \/ UnknownOpcode(d)
  BY <1>2, RaiseData, NoDataData DEF Branch, Fence, UnknownOpcode
<1>3. CASE OpImm(d) \/ OpReg(d)
  BY <1>3, ComputeData DEF OpImm, OpReg
<1> QED
  BY <1>1, <1>2, <1>3, LoadData, StoreData, CsrData, SystemData, AtomicData DEF Decode

LEMMA StepData == ASSUME [ExecNext]_execVars PROVE DataStep
<1>1. CASE DecodeRun
  <2>1. PICK d \in Ticks : TakeInterrupt(d) \/ Decode(d)
    BY <1>1 DEF DecodeRun
  <2>2. CASE TakeInterrupt(d)
    BY <2>2 DEF TakeInterrupt, DataStep, RegisterStep, ByteStep
  <2> QED
    BY <2>1, <2>2, DecodeData
<1>2. CASE ~DecodeRun
  BY <1>2 DEF ExecNext, Fetch, LoseFetch, execVars, dataVars, DataStep, RegisterStep, ByteStep
<1> QED
  BY <1>1, <1>2

-----------------------------------------------------------------------------
(* Results.                                                                *)

\* The register file keeps its 32 entries and the memory its extent.
ShapeInv ==
  /\ DOMAIN gpr = 0 .. 31 /\ ZeroRegister
  /\ DOMAIN host = ResetVector .. MemRange + 2

LEMMA ShapeInit == ExecInit => ShapeInv
<1> SUFFICES ASSUME ExecInit PROVE ShapeInv
  OBVIOUS
<1>1. PICK a \in Values, b \in Values :
        gpr = [n \in 0 .. 31 |-> CASE n = 1 -> a [] n = 2 -> b [] OTHER -> 0]
  BY DEF ExecInit
<1>2. DOMAIN gpr = 0 .. 31 /\ gpr[0] = 0
  BY <1>1
<1>3. DOMAIN host = ResetVector .. MemRange + 2
  BY ExecAssumption DEF ExecInit
<1> QED
  BY <1>2, <1>3 DEF ShapeInv, ZeroRegister

LEMMA ShapeNext == ShapeInv /\ [ExecNext]_execVars => ShapeInv'
<1> SUFFICES ASSUME ShapeInv, DataStep PROVE ShapeInv'
  BY StepData
<1>1. DOMAIN gpr' = 0 .. 31 /\ gpr'[0] = 0
  BY DEF DataStep, RegisterStep, ShapeInv, ZeroRegister
<1>2. DOMAIN host' = DOMAIN host
  BY DEF DataStep, ByteStep, Stored
<1> QED
  BY <1>1, <1>2 DEF ShapeInv, ZeroRegister

\* x0 is 0 after any program.
THEOREM ZeroRegisterHolds == ExecSpec => []ZeroRegister
<1>1. ShapeInv => ZeroRegister
  BY DEF ShapeInv
<1> QED
  BY <1>1, ShapeInit, ShapeNext, PTL DEF ExecSpec

\* A store of one to four bytes that begins in RAM and reaches behind it is one
\* of the divergences.
LEMMA StoreBehind ==
  ASSUME ir.op = \h23, ir.f3 \in 0 .. 2, InRam(Address),
         Address + StoreWidth(ir.f3) - 1 >= MemRange
  PROVE  EdgeAccess
<1> DEFINE n == CASE ir.f3 = 0 -> "sb" [] ir.f3 = 1 -> "sh" [] ir.f3 = 2 -> "sw"
<1>1. Is(ir, n) /\ n \in DOMAIN I!Width /\ n \in Mnemonics
  BY DEF Is, IType, I!Width, Mnemonics
<1>2. I!Width[n] = StoreWidth(ir.f3)
  BY DEF I!Width, StoreWidth
<1>3. ~I!InMemory(Address, I!Width[n])
  <2>1. Address \in Int /\ StoreWidth(ir.f3) \in Int /\ MemRange \in Int /\ ResetVector \in Int
    BY ExecAssumption, HartAssumption, SMTT(30) DEF InRam, StoreWidth
  <2>2. Address + StoreWidth(ir.f3) - 1 \notin ResetVector .. MemRange - 1
    BY <2>1
  <2>3. Address + StoreWidth(ir.f3) - 1 \in Address .. Address + StoreWidth(ir.f3) - 1
    BY <2>1 DEF StoreWidth
  <2> QED
    BY <1>2, <2>2, <2>3, ExecAssumption DEF I!InMemory, Memory
<1> QED
  BY <1>1, <1>3 DEF EdgeAccess, Names

LEMMA StoresInRamStep ==
  ASSUME ShapeInv, [ExecNext]_execVars, NEW a \in Behind, host'[a] # host[a]
  PROVE  ir.op = \h23 /\ EdgeAccess
<1>1. a \in DOMAIN host /\ a \in Int /\ a >= MemRange /\ MemRange \in Int
  BY ExecAssumption, HartAssumption DEF Behind, ShapeInv
<1>2. DataStep
  BY StepData
<1>3. ASSUME NEW v, InRam(rs1), ~PastRam(rs1), host' = Stored(host, rs1, 4, v) PROVE FALSE
  <2>1. rs1 \in Int /\ rs1 + 4 - 1 < MemRange
    BY <1>1, <1>3, ExecAssumption, HartAssumption DEF InRam, PastRam
  <2> QED
    BY <1>1, <1>3, <2>1 DEF Stored
<1>4. CASE /\ ir.op = \h23 /\ ir.f3 \in 0 .. 2 /\ InRam(Address)
           /\ host' = Stored(host, Address, StoreWidth(ir.f3), rs2)
  <2>1. Address \in Int /\ StoreWidth(ir.f3) \in Int
    BY <1>4, ExecAssumption, HartAssumption, SMTT(30) DEF InRam, StoreWidth
  <2>2. a \in Address .. Address + StoreWidth(ir.f3) - 1
    BY <1>1, <1>4 DEF Stored
  <2> QED
    BY <1>1, <1>4, <2>1, <2>2, StoreBehind
<1> QED
  BY <1>2, <1>3, <1>4 DEF DataStep, ByteStep

\* Nothing but a store of 2 or 4 bytes in the last bytes of RAM writes behind it.
THEOREM StoresInRamHolds == ExecSpec => StoresInRam
<1>1. ShapeInv /\ [ExecNext]_execVars
        => [(\E a \in Behind : host'[a] # host[a]) => ir.op = \h23 /\ EdgeAccess]_execVars
  BY StoresInRamStep
<1> QED
  BY <1>1, ShapeInit, ShapeNext, PTL DEF ExecSpec, StoresInRam

-----------------------------------------------------------------------------
(* Type correctness.                                                       *)

\* What the data variables hold.
DataType ==
  /\ gpr \in [0 .. 31 -> Reg]
  /\ host \in [ResetVector .. MemRange + 2 -> Bytes]
  /\ mscratch \in Reg /\ mcause \in Reg /\ mtval \in Reg

\* The widths of the parts agree.
LEMMA Widths ==
  /\ Addr = Reg /\ Half = Reg
  /\ SUBSET (0 .. XLEN - 1) \subseteq Word
  /\ ResetVector \in Int /\ MemRange \in Int /\ 0 <= ResetVector /\ MemRange <= Span - 4
  /\ 0 .. 255 \subseteq Reg
<1>1. Addr = Reg /\ Half = Reg
  BY ExecAssumption DEF Addr, Half, Reg
<1>2. SUBSET (0 .. XLEN - 1) \subseteq Word
  BY Sizes DEF Word, Bit
<1>3. MemRange \in ResetVector + 12 .. Span - 4 /\ ResetVector \in 0 .. AddrSpan - 1 /\ AddrSpan = Span
  BY ExecAssumption, HartAssumption DEF Addr
<1>4. Span \in Int /\ Span >= 256
  BY SpanType
<1>5. 0 .. 255 \subseteq Reg
  BY <1>4 DEF Reg
<1>6. ResetVector \in Int /\ MemRange \in Int /\ 0 <= ResetVector /\ MemRange <= Span - 4
  BY <1>3, <1>4, SMTT(30)
<1> QED
  BY <1>1, <1>2, <1>5, <1>6

\* The fields and operands of a fetched instruction.
LEMMA OperandType ==
  ASSUME ExecTypeOK, ir # NoInstr
  PROVE  /\ ir \in InstrFields
         /\ ir.op \in 0 .. 127 /\ ir.rd \in 0 .. 31 /\ ir.f3 \in 0 .. 7 /\ ir.rs1 \in 0 .. 31
         /\ ir.rs2 \in 0 .. 31 /\ ir.f7 \in 0 .. 127 /\ ir.imm \in Reg /\ ir.csr \in 0 .. 4095
         /\ rs1 \in Reg /\ rs2 \in Reg /\ Address \in Reg /\ pc \in Reg
         /\ TypeOK /\ DataType
<1>1. ir \in InstrFields
  BY ExecAssumption DEF ExecTypeOK
<1>2. /\ ir.op \in 0 .. 127 /\ ir.rd \in 0 .. 31 /\ ir.f3 \in 0 .. 7 /\ ir.rs1 \in 0 .. 31
      /\ ir.rs2 \in 0 .. 31 /\ ir.f7 \in 0 .. 127 /\ ir.imm \in Reg /\ ir.csr \in 0 .. 4095
  BY <1>1 DEF InstrFields
<1>3. TypeOK /\ DataType
  BY DEF ExecTypeOK, DataType, Bytes
<1>4. rs1 \in Reg /\ rs2 \in Reg
  <2>1. \A n \in 0 .. 31 : gpr[n] \in Reg
    BY <1>3 DEF DataType
  <2> QED
    BY <1>2, <2>1 DEF rs1, rs2
<1>5. Address \in Reg
  BY <1>2, <1>4, WrapType DEF Address, Reg
<1>6. pc \in Reg
  BY <1>3, Widths DEF TypeOK
<1> QED
  BY <1>1, <1>2, <1>3, <1>4, <1>5, <1>6

\* A step that keeps the types of both parts.
StepType == TypeOK' /\ DataType'

LEMMA PcPlusReg == ASSUME TypeOK, NEW k \in {4, 8} PROVE PcPlus(k) \in Addr
  BY PcPlusType

LEMMA WriteBackType ==
  ASSUME DataType, ir.rd \in 0 .. 31, NEW v \in Reg, WriteBack(v)
  PROVE  gpr' \in [0 .. 31 -> Reg]
  BY DEF WriteBack, DataType

LEMMA FinishType ==
  ASSUME ExecTypeOK, ir # NoInstr, NEW d \in Ticks, NEW v \in Reg, NEW t \in Addr, Finish(d, v, t)
  PROVE  StepType
<1>1. TypeOK'
  BY OperandType, PlainType DEF Finish
<1>2. gpr' \in [0 .. 31 -> Reg]
  BY OperandType, WriteBackType DEF Finish
<1> QED
  BY <1>1, <1>2, OperandType DEF Finish, StepType, DataType

LEMMA ComputeType ==
  ASSUME ExecTypeOK, ir # NoInstr, NEW d \in Ticks, NEW v \in Reg, Compute(d, v)
  PROVE  StepType
  BY FinishType, PcPlusReg, OperandType, SMTT(30) DEF Compute

LEMMA RaiseType ==
  ASSUME ExecTypeOK, ir # NoInstr, NEW d \in Ticks, NEW c \in 0 .. 255, NEW a \in Reg, Raise(d, c, a)
  PROVE  StepType
<1>1. TypeOK'
  BY OperandType, TrapType DEF Raise, Exception
<1>2. mcause' \in Reg /\ mtval' \in Reg
  BY OperandType, Widths, SMTT(30) DEF Raise
<1> QED
  BY <1>1, <1>2, OperandType, SMTT(30) DEF Raise, StepType, DataType

LEMMA NoDataType == ASSUME DataType, TypeOK', NoData PROVE StepType
  BY DEF NoData, dataVars, StepType, DataType

\* What a read of RAM can reach is in the host's memory.
LEMMA RamBytes ==
  ASSUME DataType, NEW a, InRam(a)
  PROVE  a \in Int /\ \A k \in 0 .. 3 : host[a + k] \in Bytes
<1>1. a \in Int
  BY Widths DEF InRam
<1>2. \A k \in 0 .. 3 : a + k \in ResetVector .. MemRange + 2
  BY Widths DEF InRam
<1> QED
  BY <1>1, <1>2 DEF DataType

LEMMA LoadedType ==
  ASSUME DataType, NEW a, InRam(a), NEW f3 \in {0, 1, 2, 4, 5}
  PROVE  Loaded(f3, a) \in Reg
<1>1. \A w \in {1, 2, 4} : \A k \in 0 .. w - 1 : host[a + k] \in Bytes
  BY RamBytes
<1>2. \A w \in {1, 2, 4} :
        Joined(host, a, w) \in Reg /\ (w \in {1, 2} => Extend(Joined(host, a, w), w) \in Reg)
  BY <1>1, RamBytes, JoinedType
<1> QED
  BY <1>2 DEF Loaded

LEMMA StoreBytesType ==
  ASSUME DataType, NEW a \in Int, NEW w \in {1, 2, 4}, NEW v \in Reg, StoreBytes(a, w, v)
  PROVE  host' \in [ResetVector .. MemRange + 2 -> Bytes]
<1>1. ResetVector .. MemRange + 2 \subseteq Int /\ v \in Int
  BY Widths DEF Reg
<1> QED
  BY <1>1, StoredType DEF StoreBytes, DataType

LEMMA TargetType ==
  ASSUME ExecTypeOK, ir # NoInstr
  PROVE  Wrap(pc + ir.imm) \in Addr /\ PcPlus(4) \in Addr /\ 0 \in Reg
<1>1. pc + ir.imm \in Int
  BY OperandType DEF Reg
<1>2. Wrap(pc + ir.imm) \in Addr
  BY <1>1, WrapType, Widths
<1> QED
  BY <1>2, OperandType, PcPlusReg, Widths

LEMMA JumpType == ASSUME ExecTypeOK, ir # NoInstr, NEW d \in Ticks, Lui(d) \/ Auipc(d) \/ Jal(d) \/ Jalr(d)
                  PROVE  StepType
<1>1. ir.imm \in Reg /\ Wrap(pc + ir.imm) \in Reg /\ PcPlus(4) \in Reg
  BY TargetType, OperandType, Widths
<1>2. Address - (Address % 2) \in Reg
  <2>1. Address % 2 \in {0, 1} /\ Address >= Address % 2
    BY OperandType, DivMod DEF Reg
  <2> QED
    BY <2>1, OperandType, SpanType DEF Reg
<1> QED
  BY <1>1, <1>2, ComputeType, FinishType, Widths DEF Lui, Auipc, Jal, Jalr

LEMMA BranchType == ASSUME ExecTypeOK, ir # NoInstr, NEW d \in Ticks, Branch(d) PROVE StepType
<1>1. Wrap(pc + ir.imm) \in Addr /\ PcPlus(4) \in Addr /\ 0 \in Reg
  BY TargetType
<1>2. CASE Raise(d, 2, 0)
  BY <1>1, <1>2, RaiseType, SMTT(30)
<1>3. CASE Plain(d, IF Taken(ir.f3, rs1, rs2) THEN Wrap(pc + ir.imm) ELSE PcPlus(4)) /\ NoData
  <2>1. TypeOK'
    BY <1>1, <1>3, OperandType, PlainType
  <2> QED
    BY <1>3, <2>1, OperandType, NoDataType, SMTT(30)
<1> QED
  BY <1>2, <1>3 DEF Branch

LEMMA LoadType == ASSUME ExecTypeOK, ir # NoInstr, NEW d \in Ticks, Load(d) PROVE StepType
<1>0. 0 \in Reg
  BY Widths
<1>1. CASE LoadRam(d)
  BY <1>0, <1>1, LoadedType, OperandType, ComputeType, RaiseType DEF LoadRam
<1>2. CASE LoadDevice(d)
  <2>1. NewTimerh(d) \in Reg /\ NewTimerl(d) \in Reg /\ DeviceWords \subseteq Reg
    <3>1. NewTimerh(d) \in Half /\ NewTimerl(d) \in Half
      BY OperandType, PollType
    <3> QED
      BY <3>1, Widths, ExecAssumption
  <2>2. PICK w \in Reg : Compute(d, w)
    BY <1>2, <2>1 DEF LoadDevice
  <2> QED
    BY <2>2, ComputeType
<1>3. CASE Raise(d, 5, Address)
  BY <1>3, OperandType, RaiseType
<1> QED
  BY <1>1, <1>2, <1>3 DEF Load

LEMMA StoreType == ASSUME ExecTypeOK, ir # NoInstr, NEW d \in Ticks, Store(d) PROVE StepType
<1>0. 0 \in Reg /\ PcPlus(4) \in Addr
  BY Widths, PcPlusReg, OperandType
<1>1. CASE StoreRam(d)
  <2>1. CASE Raise(d, 2, 0)
    BY <1>0, <2>1, RaiseType, SMTT(30)
  <2>2. CASE /\ ir.f3 \in 0 .. 2
             /\ Plain(d, PcPlus(4))
             /\ StoreBytes(Address, StoreWidth(ir.f3), rs2)
             /\ UNCHANGED <<gpr, mscratch, mcause, mtval>>
    <3>1. StoreWidth(ir.f3) \in {1, 2, 4} /\ Address \in Int
      BY <2>2, OperandType, SMTT(30) DEF StoreWidth, Reg
    <3>2. host' \in [ResetVector .. MemRange + 2 -> Bytes]
      BY <2>2, <3>1, OperandType, StoreBytesType
    <3>3. TypeOK'
      BY <1>0, <2>2, OperandType, PlainType
    <3> QED
      BY <2>2, <3>2, <3>3, OperandType, SMTT(30) DEF StepType, DataType
  <2> QED
    BY <1>1, <2>1, <2>2 DEF StoreRam
<1>2. CASE StoreDevice(d)
  <2>1. TypeOK'
    <3>1. CASE Plain(d, PcPlus(4))
      BY <1>0, <3>1, OperandType, PlainType
    <3>2. CASE Syscon(d, Signed(rs2))
      BY <3>2, OperandType, SysconType
    <3>3. CASE WriteMatch(d, rs2)
      BY <3>3, OperandType, WriteMatchType, Widths
    <3> QED
      BY <1>2, <3>1, <3>2, <3>3 DEF StoreDevice, WriteMatch
  <2> QED
    BY <1>2, <2>1, OperandType, NoDataType DEF StoreDevice
<1>3. CASE Raise(d, 7, Address)
  BY <1>3, OperandType, RaiseType
<1> QED
  BY <1>1, <1>2, <1>3 DEF Store

LEMMA OpsType == ASSUME ExecTypeOK, ir # NoInstr, NEW d \in Ticks, OpImm(d) \/ OpReg(d) PROVE StepType
<1>0. ir.f3 \in 0 .. 7 /\ rs1 \in Reg /\ rs2 \in Reg /\ ir.imm \in Reg
  BY OperandType
<1>1. /\ Op(ir.f3, FALSE, Bit30, rs1, ir.imm) \in Reg
      /\ Op(ir.f3, TRUE, Bit30, rs1, rs2) \in Reg
      /\ MulOp(ir.f3, rs1, rs2) \in Reg
  BY <1>0, OpType, MulOpType
<1> QED
  BY <1>1, ComputeType DEF OpImm, OpReg

\* A CSR holds a word, before and after.
LEMMA CsrWordType ==
  ASSUME ExecTypeOK, ir # NoInstr, NEW d \in Ticks, NEW old \in CsrReads(d), ir.f3 \in {1, 2, 3, 5, 6, 7}
  PROVE  old \in Word /\ CsrWritten(old) \in Word
<1>1. \A a \in Reg : Bits(a) \in Word
  BY BitsAre, Widths
<1>2. old \in Word
  <2>1. /\ mstatus \in Word /\ mie \in Word /\ PolledMip(d) \in Word /\ {} \in Word
        /\ Bits(mtvec) \in Word /\ Bits(mepc) \in Word
        /\ Bits(mscratch) \in Word /\ Bits(mcause) \in Word /\ Bits(mtval) \in Word
        /\ Bits(VendorWord) \in Word /\ Bits(MisaWord) \in Word
        /\ \A w \in DeviceWords : Bits(w) \in Word
    <3>1. mstatus \in Word /\ mie \in Word /\ PolledMip(d) \in Word /\ {} \in Word
      BY OperandType, PollType DEF TypeOK, Word
    <3>2. mtvec \in Reg /\ mepc \in Reg /\ mscratch \in Reg /\ mcause \in Reg /\ mtval \in Reg
      BY OperandType, Widths DEF TypeOK, DataType
    <3>3. VendorWord \in Reg /\ MisaWord \in Reg /\ DeviceWords \subseteq Reg
      BY ExecAssumption
    <3> QED
      BY <1>1, <3>1, <3>2, <3>3
  <2> QED
    BY <2>1 DEF CsrReads
<1>3. CsrOperand \in Word
  BY <1>1, OperandType, Widths DEF CsrOperand
<1> QED
  BY <1>2, <1>3 DEF CsrWritten, Word

LEMMA WriteControlType ==
  ASSUME ExecTypeOK, ir # NoInstr, NEW d \in Ticks, NEW w \in Word, WriteControl(d, w)
  PROVE  TypeOK'
<1>1. Number(w) \in Addr
  BY BitsNumber, Widths
<1> QED
  BY <1>1, OperandType, StoreStatusType, StoreMieType, StorePendingType, WriteTvecType, WriteEpcType DEF WriteControl

LEMMA ZicsrType == ASSUME ExecTypeOK, ir # NoInstr, NEW d \in Ticks, Zicsr(d) PROVE StepType
<1>1. CASE WildAccess(d) /\ NoData
  BY <1>1, OperandType, StopType, NoDataType, SMTT(30)
<1>2. ASSUME NEW old \in CsrReads(d),
             WriteControl(d, CsrWritten(old)) \/ WriteData(d, CsrWritten(old)),
             WriteBack(Number(old)), UNCHANGED host
      PROVE  StepType
  <2>1. old \in Word /\ CsrWritten(old) \in Word
    BY CsrWordType DEF Zicsr
  <2>2. Number(old) \in Reg /\ Number(CsrWritten(old)) \in Reg
    BY BitsNumber
  <2>3. gpr' \in [0 .. 31 -> Reg]
    BY <1>2, <2>2, OperandType, WriteBackType
  <2>4. TypeOK'
    BY <1>2, <2>1, OperandType, PcPlusReg, WriteControlType, PlainType DEF WriteData
  <2>5. mscratch' \in Reg /\ mcause' \in Reg /\ mtval' \in Reg
    <3>1. mscratch \in Reg /\ mcause \in Reg /\ mtval \in Reg
      BY OperandType DEF DataType
    <3>2. CASE WriteControl(d, CsrWritten(old))
      BY <3>1, <3>2 DEF WriteControl
    <3>3. CASE WriteData(d, CsrWritten(old))
      BY <2>2, <3>1, <3>3 DEF WriteData
    <3> QED
      BY <1>2, <3>2, <3>3
  <2> QED
    BY <1>2, <2>3, <2>4, <2>5, OperandType, SMTT(30) DEF StepType, DataType
<1> QED
  BY <1>1, <1>2 DEF Zicsr

LEMMA SystemType == ASSUME ExecTypeOK, ir # NoInstr, NEW d \in Ticks, System(d) PROVE StepType
<1>1. CASE SystemTrap(d) \/ Raise(d, 2, 0)
  BY <1>1, Widths, RaiseType DEF SystemTrap
<1>2. CASE (Wfi(d) \/ Mret(d) \/ Halt(d)) /\ NoData
  BY <1>2, OperandType, WfiType, MretType, StopType, NoDataType
<1> QED
  BY <1>1, <1>2 DEF System

LEMMA AtomicType == ASSUME ExecTypeOK, ir # NoInstr, NEW d \in Ticks, Atomic(d) PROVE StepType
<1>0. /\ TypeOK /\ DataType /\ rs1 \in Reg /\ rs2 \in Reg /\ ir.rd \in 0 .. 31
      /\ 0 \in Reg /\ 1 \in Reg /\ PcPlus(4) \in Addr
  BY OperandType, Widths, PcPlusReg
<1>1. InRam(rs1) => Joined(host, rs1, 4) \in Reg /\ rs1 \in Int
  BY <1>0, LoadedType, RamBytes DEF Loaded
<1>2. CASE InRam(rs1) /\ Reserving(d)
  <2>1. Bits(rs1) \in Word
    BY <1>0, BitsAre, Widths
  <2>2. TypeOK'
    BY <1>0, <1>2, <2>1, LoadReservedType DEF Reserving
  <2>3. gpr' \in [0 .. 31 -> Reg]
    BY <1>0, <1>1, <1>2, WriteBackType DEF Reserving
  <2> QED
    BY <1>0, <1>2, <2>2, <2>3 DEF Reserving, StepType, DataType
<1>3. CASE InRam(rs1) /\ Conditional(d)
  <2>1. TypeOK'
    BY <1>0, <1>3, PlainType DEF Conditional
  <2>2. PICK v \in {0, 1} : WriteBack(v)
    BY <1>3 DEF Conditional, Truth
  <2>3. gpr' \in [0 .. 31 -> Reg]
    BY <1>0, <2>2, WriteBackType
  <2>4. host' \in [ResetVector .. MemRange + 2 -> Bytes]
    <3>1. UNCHANGED host \/ StoreBytes(rs1, 4, rs2)
      BY <1>3 DEF Conditional
    <3> QED
      BY <1>0, <1>1, <1>3, <3>1, StoreBytesType DEF DataType
  <2> QED
    BY <1>0, <1>3, <2>1, <2>3, <2>4 DEF Conditional, StepType, DataType
<1>4. CASE InRam(rs1) /\ ReadModifyWrite(d)
  <2>1. AmoResult(irmid, Joined(host, rs1, 4), rs2) \in Reg
    BY <1>0, <1>1, <1>4, AmoResultType DEF ReadModifyWrite
  <2>2. TypeOK'
    BY <1>0, <1>4, PlainType DEF ReadModifyWrite
  <2>3. gpr' \in [0 .. 31 -> Reg]
    BY <1>0, <1>1, <1>4, WriteBackType DEF ReadModifyWrite
  <2>4. host' \in [ResetVector .. MemRange + 2 -> Bytes]
    BY <1>0, <1>1, <1>4, <2>1, StoreBytesType DEF ReadModifyWrite
  <2> QED
    BY <1>0, <1>4, <2>2, <2>3, <2>4 DEF ReadModifyWrite, StepType, DataType
<1>5. CASE Raise(d, 7, rs1) \/ Raise(d, 2, 0)
  BY <1>0, <1>5, RaiseType
<1>6. CASE WildAccess(d) /\ NoData
  BY <1>0, <1>6, StopType, NoDataType
<1> QED
  BY <1>2, <1>3, <1>4, <1>5, <1>6 DEF Atomic

LEMMA DecodeType == ASSUME ExecTypeOK, ir # NoInstr, NEW d \in Ticks, Decode(d) PROVE StepType
<1>1. CASE Fence(d)
  <2>1. TypeOK'
    BY <1>1, OperandType, PcPlusReg, PlainType DEF Fence
  <2> QED
    BY <1>1, <2>1, OperandType, NoDataType DEF Fence
<1>2. CASE UnknownOpcode(d)
  BY <1>2, Widths, RaiseType, SMTT(30) DEF UnknownOpcode
<1> QED
  BY <1>1, <1>2, JumpType, BranchType, LoadType, StoreType, OpsType, ZicsrType, SystemType, AtomicType DEF Decode

LEMMA InterruptType == ASSUME ExecTypeOK, ir # NoInstr, NEW d \in Ticks, TakeInterrupt(d) PROVE StepType
<1>1. TypeOK'
  BY OperandType, TrapType DEF TakeInterrupt, Interrupt
<1>2. Span \div 2 + 7 \in Reg /\ 0 \in Reg
  <2>1. Span \div 2 \in Int /\ Span \div 2 >= 0 /\ 2 * (Span \div 2) <= Span
    BY SpanType, Half2
  <2> QED
    BY <2>1, SpanType DEF Reg
<1> QED
  BY <1>1, <1>2, OperandType DEF TakeInterrupt, StepType, DataType

LEMMA ExecInitType == ExecInit => ExecTypeOK
<1> SUFFICES ASSUME ExecInit PROVE ExecTypeOK
  OBVIOUS
<1>1. /\ 0 \in Reg /\ 1 \in Reg
      /\ ResetVector \in Reg /\ ResetVector + 8 \in Reg /\ ResetVector + 4 \in Reg
  <2>1. MemRange \in ResetVector + 12 .. Span - 4
    BY ExecAssumption
  <2>2. Span \in Int /\ ResetVector \in Int /\ 0 <= ResetVector /\ Span >= 256
    BY Widths, SpanType
  <2> QED
    BY <2>1, <2>2 DEF Reg
<1>2. ClintTypeOK
  <2>1. {} \in Word
    BY DEF Word
  <2> QED
    BY <1>1, <2>1, Widths DEF ExecInit, ClintTypeOK
<1>3. mie \in Word /\ mstatus \in Word /\ extraflags \in Word
  BY DEF ExecInit, Word, Bit, Machine, ModeBits, User, MTIP, MIE
<1>4. TypeOK
  BY <1>1, <1>2, <1>3, Widths DEF ExecInit, TypeOK, Loop
<1>5. gpr \in [0 .. 31 -> Reg]
  <2>1. PICK a \in Values, b \in Values :
          gpr = [n \in 0 .. 31 |-> CASE n = 1 -> a [] n = 2 -> b [] OTHER -> 0]
    BY DEF ExecInit
  <2> QED
    BY <1>1, <2>1, ExecAssumption
<1>6. host \in [ResetVector .. MemRange + 2 -> 0 .. ByteSpan - 1]
  BY ExecAssumption DEF ExecInit
<1> QED
  BY <1>1, <1>4, <1>5, <1>6, ExecAssumption DEF ExecInit, ExecTypeOK

LEMMA ExecNextType == ExecTypeOK /\ [ExecNext]_execVars => ExecTypeOK'
<1> SUFFICES ASSUME ExecTypeOK, [ExecNext]_execVars PROVE ExecTypeOK'
  OBVIOUS
<1>1. CASE Fetch
  <2>1. steps' \in 0 .. MaxSteps
    BY <1>1, ExecAssumption DEF Fetch, ExecTypeOK
  <2>2. TypeOK'
    BY <1>1 DEF Fetch, ExecTypeOK, vars, clintVars, hartVars, TypeOK, ClintTypeOK
  <2> QED
    BY <1>1, <2>1, <2>2 DEF Fetch, ExecTypeOK, dataVars
<1>2. CASE DecodeRun
  <2>1. PICK d \in Ticks : TakeInterrupt(d) \/ Decode(d)
    BY <1>2 DEF DecodeRun
  <2>2. StepType
    BY <1>2, <2>1, DecodeType, InterruptType DEF DecodeRun
  <2> QED
    BY <1>2, <2>2 DEF DecodeRun, ExecTypeOK, StepType, DataType, Bytes
<1>3. CASE LoseFetch
  <2>1. TypeOK'
    BY <1>3 DEF LoseFetch, FetchOutside, ExecTypeOK, clintVars, hartVars, TypeOK, ClintTypeOK, Loop
  <2> QED
    BY <1>3, <2>1 DEF LoseFetch, ExecTypeOK, dataVars
<1>4. CASE UNCHANGED execVars
  BY <1>4 DEF execVars, dataVars, vars, clintVars, hartVars, ExecTypeOK, TypeOK, ClintTypeOK
<1> QED
  BY <1>1, <1>2, <1>3, <1>4 DEF ExecNext

\* Registers, memory and CSRs keep their widths, whatever the program: no
\* result of decoder.cpp's switches, no loaded or stored byte and no CSR
\* value leaves the type the C variable has.
THEOREM ExecTypeCorrect == ExecSpec => []ExecTypeOK
  BY ExecInitType, ExecNextType, PTL DEF ExecSpec

-----------------------------------------------------------------------------
(* The instruction set.  The argument: an instruction with a name does what *)
(* the name means, by the lemmas of ArithProofs on what the decoder's C     *)
(* expressions compute; one without is an illegal instruction or is        *)
(* executed as its nearest encoding.                                       *)

\* The words of module Isa are those of this one.
LEMMA IsaWords ==
  /\ I!XLEN = XLEN /\ I!Span = Span /\ I!ByteSpan = ByteSpan /\ I!Reg = Reg
  /\ \A n : I!Wrap(n) = Wrap(n)
  /\ \A n : I!Signed(n) = Signed(n)
  /\ \A n : I!Shamt(n) = Shamt(n)
  /\ \A n : I!Abs(n) = Abs(n)
  /\ I!BitsOf = BitsOf
  /\ \A a : I!Bits(a) = Bits(a)
  /\ \A v, k : I!ByteOf(v, k) = ByteOf(v, k)
<1>1. I!XLEN = XLEN /\ I!Span = Span /\ I!ByteSpan = ByteSpan /\ I!Reg = Reg
  BY DEF I!XLEN, XLEN, I!Span, Span, I!ByteSpan, ByteSpan, I!Reg, Reg
<1>2. /\ \A n : I!Wrap(n) = Wrap(n)
      /\ \A n : I!Signed(n) = Signed(n)
      /\ \A n : I!Shamt(n) = Shamt(n)
      /\ \A n : I!Abs(n) = Abs(n)
  BY <1>1 DEF I!Wrap, Wrap, I!Signed, Signed, I!Shamt, Shamt, I!Abs, Abs
<1>3. I!BitsOf = BitsOf
  BY <1>1 DEF I!BitsOf, BitsOf
<1>4. \A a : I!Bits(a) = Bits(a)
  BY <1>3 DEF I!Bits, Bits
<1>5. \A v, k : I!ByteOf(v, k) = ByteOf(v, k)
  BY <1>1 DEF I!ByteOf, ByteOf
<1> QED
  BY <1>1, <1>2, <1>3, <1>4, <1>5

\* And so are its encodings.
LEMMA IsaEncodings ==
  /\ I!RType = RType /\ I!MType = MType /\ I!IType = IType /\ I!UType = UType
  /\ I!AType = AType /\ I!PType = PType /\ I!Cause = Cause /\ I!CsrNumber = CsrNumber
  /\ \A i : I!Names(i) = Names(i)
<1>1. /\ I!RType = RType /\ I!MType = MType /\ I!IType = IType /\ I!UType = UType
      /\ I!AType = AType /\ I!PType = PType
  BY DEF I!RType, RType, I!MType, MType, I!IType, IType, I!UType, UType, I!AType, AType, I!PType, PType
<1>2. I!Cause = Cause /\ I!CsrNumber = CsrNumber
  BY DEF I!Cause, Cause, I!CsrNumber, CsrNumber
<1>3. \A i : I!Names(i) = Names(i)
  BY <1>1 DEF I!Names, Names, I!Is, Is, I!Mnemonics, Mnemonics
<1> QED
  BY <1>1, <1>2, <1>3

\* After the step rd has v, and the other registers what they had.
RdIs(v) ==
  /\ gpr'[0] = 0
  /\ \A n \in 0 .. 31 \ {0, ir.rd} : gpr'[n] = gpr[n]
  /\ ir.rd # 0 => gpr'[ir.rd] = v

LEMMA WriteBackIs ==
  ASSUME ExecTypeOK, ZeroRegister, ir # NoInstr, NEW v, WriteBack(v)
  PROVE  RdIs(v)
<1>1. DOMAIN gpr = 0 .. 31 /\ ir.rd \in 0 .. 31 /\ gpr[0] = 0
  BY OperandType, SMTT(30) DEF DataType, ZeroRegister
<1> QED
  BY <1>1 DEF WriteBack, RdIs

\* The poll of the timer leaves the mode and the reservation alone.
LEMMA FlagsIs ==
  ASSUME NEW d
  PROVE  Slot(PolledFlags(d)) = Slot(extraflags) /\ Mode(PolledFlags(d)) = Mode(extraflags)
  BY DEF PolledFlags, ClearWfi, Slot, Shr, Mode, WfiBit, ModeBits, Bit

\* An instruction that is plain control leaves CSRs, reservation and mode alone.
LEMMA PlainElsewhere ==
  ASSUME NEW d, NEW t, Plain(d, t), UNCHANGED <<mscratch, mcause, mtval>>
  PROVE  I!Elsewhere /\ pc' = t
<1>1. Slot(extraflags)' = Slot(extraflags) /\ Mode(extraflags)' = Mode(extraflags)
  BY FlagsIs DEF Plain, Execute
<1>2. ReservedAddress' = ReservedAddress
  BY <1>1 DEF ReservedAddress
<1>3. Csrs' = Csrs
  BY DEF Csrs, Plain
<1>4. pc' = t
  BY DEF Plain, Continue
<1> QED
  BY <1>1, <1>2, <1>3, <1>4 DEF I!Elsewhere

\* pc wraps as a sum of 32 bits does.
LEMMA PcIs ==
  ASSUME TypeOK
  PROVE  /\ PcPlus(4) = I!NextPc /\ PcPlus(4) = Wrap(pc + 4)
         /\ PcPlus(8) = Wrap(pc + 8)
<1>1. /\ pc \in Int /\ 0 <= pc /\ pc < Span /\ AddrSpan = Span /\ Span \in Int
      /\ Span > 8
  <2>1. pc \in Reg /\ AddrSpan = Span
    BY Widths, ExecAssumption DEF TypeOK
  <2> QED
    BY <2>1, SpanType DEF Reg
<1>2. ASSUME NEW k \in {4, 8} PROVE PcPlus(k) = Wrap(pc + k)
  <2>1. CASE pc + k < Span
    BY <1>1, <2>1 DEF PcPlus, Wrap
  <2>2. CASE ~(pc + k < Span)
    <3>1. pc + k = Span * 1 + (pc + k - Span) /\ pc + k - Span \in 0 .. Span - 1
      BY <1>1, <2>2
    <3>2. (pc + k) % Span = pc + k - Span
      BY <1>1, <3>1, DivUnique
    <3> QED
      BY <1>1, <2>2, <3>2 DEF PcPlus, Wrap
  <2> QED
    BY <2>1, <2>2
<1> QED
  BY <1>2, IsaWords DEF I!NextPc

\* The names that the fields of an instruction can have, opcode by opcode.
LEMMA RegisterNames ==
  ASSUME NEW i, NEW n \in Names(i), i.op = \h33
  PROVE  \/ /\ i.f7 = 0
            /\ <<i.f3, n>> \in {<<0, "add">>, <<1, "sll">>, <<2, "slt">>, <<3, "sltu">>, <<4, "xor">>,
                                <<5, "srl">>, <<6, "or">>, <<7, "and">>}
         \/ i.f7 = 32 /\ <<i.f3, n>> \in {<<0, "sub">>, <<5, "sra">>}
         \/ /\ i.f7 = 1
            /\ <<i.f3, n>> \in {<<0, "mul">>, <<1, "mulh">>, <<2, "mulhsu">>, <<3, "mulhu">>, <<4, "div">>,
                                <<5, "divu">>, <<6, "rem">>, <<7, "remu">>}
  BY SMTT(30) DEF Names, Mnemonics, Is, RType, MType, IType, UType, AType, PType

LEMMA ImmediateNames ==
  ASSUME NEW i, NEW n \in Names(i), i.op = \h13
  PROVE  \/ <<i.f3, n>> \in {<<0, "addi">>, <<2, "slti">>, <<3, "sltiu">>, <<4, "xori">>,
                             <<6, "ori">>, <<7, "andi">>}
         \/ i.f7 = 0 /\ <<i.f3, n>> \in {<<1, "slli">>, <<5, "srli">>}
         \/ i.f7 = 32 /\ <<i.f3, n>> = <<5, "srai">>
  BY SMTT(30) DEF Names, Mnemonics, Is, RType, MType, IType, UType, AType, PType

LEMMA AccessNames ==
  ASSUME NEW i, NEW n \in Names(i)
  PROVE  /\ i.op = \h03 =>
              <<i.f3, n>> \in {<<0, "lb">>, <<1, "lh">>, <<2, "lw">>, <<4, "lbu">>, <<5, "lhu">>}
         /\ i.op = \h23 => <<i.f3, n>> \in {<<0, "sb">>, <<1, "sh">>, <<2, "sw">>}
<1> USE DEF Names, Mnemonics, Is, RType, MType, IType, UType, AType, PType
<1>1. CASE i.op = \h03
  BY <1>1, SMTT(30)
<1>2. CASE i.op = \h23
  BY <1>2, SMTT(30)
<1> QED
  BY <1>1, <1>2

LEMMA OtherNames ==
  ASSUME NEW i, NEW n \in Names(i)
  PROVE  /\ i.op \in Opcodes
         /\ i.op = \h67 => n = "jalr" /\ i.f3 = 0
         /\ i.op = \h0F => n \in {"fence", "fence_i"}
         /\ i.op = \h2F => i.f3 = 2 /\ n \in DOMAIN AType /\ AType[n] = i.f7 \div 4
         /\ i.op = \h63 => i.f3 \in Branches
         /\ i.op = \h73 => i.f3 # 4
         /\ i.op = \h73 /\ i.f3 = 0 =>
              <<i.csr, n>> \in {<<0, "ecall">>, <<1, "ebreak">>, <<\h105, "wfi">>, <<\h302, "mret">>}
<1> USE DEF Names, Mnemonics, Is, RType, MType, IType, UType, AType, PType
<1>1. i.op \in Opcodes
  BY SMTT(30) DEF Opcodes
<1>2. /\ i.op = \h67 => n = "jalr" /\ i.f3 = 0
      /\ i.op = \h0F => n \in {"fence", "fence_i"}
  BY SMTT(30)
<1>3. i.op = \h2F => i.f3 = 2 /\ n \in DOMAIN AType /\ AType[n] = i.f7 \div 4
  BY SMTT(30)
<1>4. i.op = \h63 => i.f3 \in Branches
  BY SMTT(30) DEF Branches
<1>5. i.op = \h73 => i.f3 # 4
  BY SMTT(30)
<1>6. i.op = \h73 /\ i.f3 = 0 =>
        <<i.csr, n>> \in {<<0, "ecall">>, <<1, "ebreak">>, <<\h105, "wfi">>, <<\h302, "mret">>}
  BY SMTT(30)
<1> QED
  BY <1>1, <1>2, <1>3, <1>4, <1>5, <1>6

\* The fields of the nearest encoding.
LEMMA NearestIs ==
  ASSUME ExecTypeOK, ir # NoInstr
  PROVE  /\ ir.op \in {\h67, \h0F} => Nearest.op = ir.op /\ Nearest.f3 = 0
         /\ ir.op = \h2F => Nearest.op = \h2F /\ Nearest.f3 = 2 /\ Nearest.f7 = ir.f7
         /\ ir.op = \h13 => /\ Nearest.op = \h13 /\ Nearest.f3 = ir.f3
                            /\ Nearest.f7 = IF ir.f3 = 5 /\ Bit30 THEN 32 ELSE 0
         /\ ir.op = \h33 => /\ Nearest.op = \h33 /\ Nearest.f3 = ir.f3
                            /\ Bit25 => Nearest.f7 = 1
                            /\ ~Bit25 => Nearest.f7 = IF Bit30 /\ ir.f3 \in {0, 5} THEN 32 ELSE 0
         /\ ir.op \in {\h03, \h23} => /\ Nearest.op = ir.op
                                      /\ Nearest.f3 = IF InRam(Address) THEN ir.f3 ELSE 2
         /\ ir.op = \h73 /\ ir.f3 = 0 /\ ir.csr % 256 = 2 =>
              Nearest.op = \h73 /\ Nearest.f3 = 0 /\ Nearest.csr = \h302
         /\ ir.op \notin {\h67, \h0F, \h2F, \h13, \h33, \h03, \h23, \h73} => Nearest = ir
         /\ ir.op = \h73 /\ ~(ir.f3 = 0 /\ ir.csr % 256 = 2) => Nearest = ir
<1>0. ir \in [op : 0 .. 127, rd : 0 .. 31, f3 : 0 .. 7, rs1 : 0 .. 31, rs2 : 0 .. 31,
              f7 : 0 .. 127, imm : Reg, csr : 0 .. 4095]
  BY OperandType DEF InstrFields
<1>1. ir.op \in {\h67, \h0F} => Nearest = [ir EXCEPT !.f3 = 0]
  BY DEF Nearest
<1>2. ir.op = \h2F => Nearest = [ir EXCEPT !.f3 = 2]
  BY DEF Nearest
<1>3. ir.op = \h13 => Nearest = [ir EXCEPT !.f7 = IF ir.f3 = 5 /\ Bit30 THEN 32 ELSE 0]
  BY DEF Nearest
<1>4. ir.op = \h33 => Nearest = [ir EXCEPT !.f7 = CASE Bit25 -> 1
                                                    [] ~Bit25 /\ Bit30 /\ ir.f3 \in {0, 5} -> 32
                                                    [] OTHER -> 0]
  BY DEF Nearest
<1>5. ir.op \in {\h03, \h23} => Nearest = IF InRam(Address) THEN ir ELSE [ir EXCEPT !.f3 = 2]
  BY DEF Nearest
<1>6. ir.op = \h73 => Nearest = IF ir.f3 = 0 /\ ir.csr % 256 = 2 THEN [ir EXCEPT !.csr = \h302] ELSE ir
  BY DEF Nearest
<1>7. ir.op \notin {\h67, \h0F, \h2F, \h13, \h33, \h03, \h23, \h73} => Nearest = ir
  BY DEF Nearest
<1> QED
  BY <1>0, <1>1, <1>2, <1>3, <1>4, <1>5, <1>6, <1>7

\* What the decoder takes an encoding for, by the bits it looks at.
LEMMA TakenIs ==
  ASSUME NEW n \in TakenFor
  PROVE  n \in Names(ir) \/ (n \in Names(Nearest) /\ Names(ir) = {})
  BY DEF TakenFor

LEMMA RegisterTaken ==
  ASSUME ExecTypeOK, ir # NoInstr, ir.op = \h33, NEW n \in TakenFor
  PROVE  \/ /\ ~Bit25 /\ (~Bit30 \/ ir.f3 \notin {0, 5})
            /\ <<ir.f3, n>> \in {<<0, "add">>, <<1, "sll">>, <<2, "slt">>, <<3, "sltu">>, <<4, "xor">>,
                                 <<5, "srl">>, <<6, "or">>, <<7, "and">>}
         \/ ~Bit25 /\ Bit30 /\ <<ir.f3, n>> \in {<<0, "sub">>, <<5, "sra">>}
         \/ /\ Bit25
            /\ <<ir.f3, n>> \in {<<0, "mul">>, <<1, "mulh">>, <<2, "mulhsu">>, <<3, "mulhu">>, <<4, "div">>,
                                 <<5, "divu">>, <<6, "rem">>, <<7, "remu">>}
<1>1. CASE n \in Names(ir)
  <2>1. /\ ir.f7 = 0 => ~Bit25 /\ ~Bit30
        /\ ir.f7 = 32 => ~Bit25 /\ Bit30
        /\ ir.f7 = 1 => Bit25
    BY DEF Bit25, Bit30
  <2> QED
    BY <1>1, <2>1, RegisterNames
<1>2. CASE n \in Names(Nearest)
  <2>1. /\ Nearest.op = \h33 /\ Nearest.f3 = ir.f3
        /\ Bit25 => Nearest.f7 = 1
        /\ ~Bit25 => Nearest.f7 = IF Bit30 /\ ir.f3 \in {0, 5} THEN 32 ELSE 0
    BY NearestIs
  <2> HIDE DEF Nearest
  <2>2. CASE Nearest.f7 = 0
    BY <1>2, <2>1, <2>2, RegisterNames
  <2>3. CASE Nearest.f7 = 32
    BY <1>2, <2>1, <2>3, RegisterNames
  <2>4. CASE Nearest.f7 = 1
    BY <1>2, <2>1, <2>4, RegisterNames
  <2> QED
    BY <2>1, <2>2, <2>3, <2>4
<1> QED
  BY <1>1, <1>2, TakenIs

LEMMA ImmediateTaken ==
  ASSUME ExecTypeOK, ir # NoInstr, ir.op = \h13, NEW n \in TakenFor
  PROVE  \/ <<ir.f3, n>> \in {<<0, "addi">>, <<2, "slti">>, <<3, "sltiu">>, <<4, "xori">>,
                              <<6, "ori">>, <<7, "andi">>, <<1, "slli">>}
         \/ ~Bit30 /\ <<ir.f3, n>> = <<5, "srli">>
         \/ Bit30 /\ <<ir.f3, n>> = <<5, "srai">>
<1>1. CASE n \in Names(ir)
  <2>1. (ir.f7 = 0 => ~Bit30) /\ (ir.f7 = 32 => Bit30)
    BY DEF Bit30
  <2> QED
    BY <1>1, <2>1, ImmediateNames
<1>2. CASE n \in Names(Nearest)
  <2>1. /\ Nearest.op = \h13 /\ Nearest.f3 = ir.f3
        /\ Nearest.f7 = IF ir.f3 = 5 /\ Bit30 THEN 32 ELSE 0
    BY NearestIs
  <2> QED
    BY <1>2, <2>1, ImmediateNames
<1> QED
  BY <1>1, <1>2, TakenIs

LEMMA OtherTaken ==
  ASSUME ExecTypeOK, ir # NoInstr, NEW n \in TakenFor
  PROVE  /\ ir.op = \h67 => n = "jalr"
         /\ ir.op = \h0F => n \in {"fence", "fence_i"}
         /\ ir.op = \h2F => n \in DOMAIN AType /\ AType[n] = irmid
         /\ ir.op = \h03 => n \in {"lb", "lh", "lw", "lbu", "lhu"}
         /\ ir.op = \h23 => n \in {"sb", "sh", "sw"}
<1>1. CASE n \in Names(ir)
  BY <1>1, OtherNames, AccessNames DEF irmid
<1>2. CASE n \in Names(Nearest)
  BY <1>2, NearestIs, OtherNames, AccessNames, SMTT(30) DEF irmid
<1> QED
  BY <1>1, <1>2, TakenIs

\* Each of these encodings is, or is taken for, an instruction.
LEMMA TakenSome ==
  ASSUME ExecTypeOK, ir # NoInstr,
         \/ ir.op \in {\h67, \h0F, \h13, \h33}
         \/ ir.op = \h2F /\ irmid \in AmoOps \cup {2, 3}
         \/ ir.op \in {\h03, \h23} /\ ~InRam(Address)
         \/ ir.op = \h73 /\ ir.f3 = 0 /\ ir.csr % 256 = 2
  PROVE  TakenFor # {}
<1>1. SUFFICES Names(Nearest) # {}
  BY DEF TakenFor
<1> DEFINE i == Nearest
<1>2. SUFFICES \E n \in Mnemonics : Is(i, n)
  BY DEF Names
<1>3. ir.f3 \in 0 .. 7
  BY OperandType
<1>4. CASE ir.op = \h67
  <2>1. i.op = \h67 /\ i.f3 = 0
    BY <1>4, NearestIs
  <2> HIDE DEF i
  <2> QED
    BY <2>1 DEF Is, IType, Mnemonics
<1>5. CASE ir.op = \h0F
  <2>1. i.op = \h0F /\ i.f3 = 0
    BY <1>5, NearestIs
  <2> HIDE DEF i
  <2> QED
    BY <2>1, SMTT(30) DEF Is, IType, Mnemonics
<1>6. CASE ir.op = \h13
  <2>1. i.op = \h13 /\ i.f3 = ir.f3 /\ (i.f7 = 0 \/ (ir.f3 = 5 /\ i.f7 = 32))
    BY <1>6, NearestIs, SMTT(30)
  <2> HIDE DEF i
  <2> DEFINE n == CASE ir.f3 = 0 -> "addi" [] ir.f3 = 1 -> "slli" [] ir.f3 = 2 -> "slti"
                    [] ir.f3 = 3 -> "sltiu" [] ir.f3 = 4 -> "xori" [] ir.f3 = 6 -> "ori"
                    [] ir.f3 = 7 -> "andi"
                    [] OTHER -> IF i.f7 = 0 THEN "srli" ELSE "srai"
  <2>2. n \in Mnemonics /\ Is(i, n)
    BY <1>3, <2>1, SMTT(30) DEF Is, IType, RType, Mnemonics
  <2> QED
    BY <2>2
<1>7. CASE ir.op = \h33
  <2>1. i.op = \h33 /\ i.f3 = ir.f3 /\ (i.f7 \in {0, 1} \/ (ir.f3 \in {0, 5} /\ i.f7 = 32))
    BY <1>7, NearestIs
  <2> HIDE DEF i
  <2>2. CASE i.f7 = 0
    <3> DEFINE n == CASE ir.f3 = 0 -> "add" [] ir.f3 = 1 -> "sll" [] ir.f3 = 2 -> "slt"
                      [] ir.f3 = 3 -> "sltu" [] ir.f3 = 4 -> "xor" [] ir.f3 = 5 -> "srl"
                      [] ir.f3 = 6 -> "or" [] OTHER -> "and"
    <3>1. n \in Mnemonics /\ Is(i, n)
      BY <1>3, <2>1, <2>2, SMTT(30) DEF Is, RType, Mnemonics
    <3> QED
      BY <3>1
  <2>3. CASE i.f7 = 1
    <3> DEFINE n == CASE ir.f3 = 0 -> "mul" [] ir.f3 = 1 -> "mulh" [] ir.f3 = 2 -> "mulhsu"
                      [] ir.f3 = 3 -> "mulhu" [] ir.f3 = 4 -> "div" [] ir.f3 = 5 -> "divu"
                      [] ir.f3 = 6 -> "rem" [] OTHER -> "remu"
    <3>1. n \in Mnemonics /\ Is(i, n)
      BY <1>3, <2>1, <2>3, SMTT(30) DEF Is, MType, Mnemonics
    <3> QED
      BY <3>1
  <2>4. CASE i.f7 = 32
    <3> DEFINE n == IF ir.f3 = 0 THEN "sub" ELSE "sra"
    <3>1. n \in Mnemonics /\ Is(i, n)
      BY <2>1, <2>4 DEF Is, RType, Mnemonics
    <3> QED
      BY <3>1
  <2> QED
    BY <2>1, <2>2, <2>3, <2>4
<1>8. CASE ir.op = \h2F /\ irmid \in AmoOps \cup {2, 3}
  <2>1. i.op = \h2F /\ i.f3 = 2 /\ i.f7 \div 4 = irmid
    BY <1>8, NearestIs DEF irmid
  <2>2. \E n \in DOMAIN AType : AType[n] = irmid
    BY <1>8 DEF AType, AmoOps
  <2> HIDE DEF i
  <2> QED
    BY <2>1, <2>2 DEF Is, Mnemonics
<1>9. CASE ir.op \in {\h03, \h23} /\ ~InRam(Address)
  <2>1. i.op = ir.op /\ i.f3 = 2
    BY <1>9, NearestIs
  <2> HIDE DEF i
  <2> QED
    BY <1>9, <2>1, SMTT(30) DEF Is, IType, Mnemonics
<1>10. CASE ir.op = \h73 /\ ir.f3 = 0 /\ ir.csr % 256 = 2
  <2>1. i.op = \h73 /\ i.f3 = 0 /\ i.csr = \h302
    BY <1>10, NearestIs
  <2> HIDE DEF i
  <2> QED
    BY <2>1 DEF Is, PType, Mnemonics
<1> QED
  BY <1>4, <1>5, <1>6, <1>7, <1>8, <1>9, <1>10

\* What the switches of the decoder compute is what the mnemonics mean.
LEMMA SumMeans ==
  ASSUME NEW a \in Reg, NEW b \in Reg
  PROVE  /\ I!Means("add", a, b, Wrap(a + b)) /\ I!Means("addi", a, b, Wrap(a + b))
         /\ I!Means("sub", a, b, Wrap(a - b))
  BY SumIs, IsaWords DEF I!Means

LEMMA ShiftMeans ==
  ASSUME NEW a \in Reg, NEW b \in Reg
  PROVE  /\ \A n \in {"sll", "slli"} : I!Means(n, a, b, Wrap(a * 2^Shamt(b)))
         /\ \A n \in {"srl", "srli"} : I!Means(n, a, b, a \div 2^Shamt(b))
         /\ \A n \in {"sra", "srai"} : I!Means(n, a, b, Wrap(Signed(a) \div 2^Shamt(b)))
<1>1. Shamt(b) \in 0 .. XLEN - 1
  BY ShamtType
<1>2. \A k \in 0 .. XLEN - 1 :
        /\ k \in Bits(Wrap(a * 2^Shamt(b))) <=> k - Shamt(b) \in Bits(a)
        /\ k \in Bits(a \div 2^Shamt(b)) <=> k + Shamt(b) \in Bits(a)
        /\ k \in Bits(Wrap(Signed(a) \div 2^Shamt(b)))
             <=> (IF k + Shamt(b) < XLEN THEN k + Shamt(b) ELSE XLEN - 1) \in Bits(a)
  BY <1>1, ShiftLeftIs, ShiftRightIs, ShiftArithmeticIs
<1>3. \A n \in {"sll", "slli"} : I!Means(n, a, b, Wrap(a * 2^Shamt(b)))
  BY <1>2, IsaWords, Zenon DEF I!Means
<1>4. \A n \in {"srl", "srli"} : I!Means(n, a, b, a \div 2^Shamt(b))
  BY <1>2, IsaWords, Zenon DEF I!Means
<1>5. \A n \in {"sra", "srai"} : I!Means(n, a, b, Wrap(Signed(a) \div 2^Shamt(b)))
  BY <1>2, IsaWords, Zenon DEF I!Means
<1> QED
  BY <1>3, <1>4, <1>5

\* The bits of the bitwise operations.
LEMMA BitwiseIs ==
  ASSUME NEW a \in Reg, NEW b \in Reg
  PROVE  /\ Bits(And(a, b)) = Bits(a) \cap Bits(b)
         /\ Bits(Or(a, b)) = Bits(a) \cup Bits(b)
         /\ Bits(Xor(a, b)) = (Bits(a) \ Bits(b)) \cup (Bits(b) \ Bits(a))
         /\ And(b, a) = And(a, b) /\ Or(b, a) = Or(a, b) /\ Xor(b, a) = Xor(a, b)
<1>1. Bits(a) \subseteq 0 .. XLEN - 1 /\ Bits(b) \subseteq 0 .. XLEN - 1
  BY BitsAre
<1>2. /\ Bits(And(a, b)) = Bits(a) \cap Bits(b)
      /\ Bits(Or(a, b)) = Bits(a) \cup Bits(b)
      /\ Bits(Xor(a, b)) = (Bits(a) \ Bits(b)) \cup (Bits(b) \ Bits(a))
  BY <1>1, BitsNumber DEF And, Or, Xor
<1>3. /\ Bits(a) \cap Bits(b) = Bits(b) \cap Bits(a)
      /\ Bits(a) \cup Bits(b) = Bits(b) \cup Bits(a)
      /\ (Bits(a) \ Bits(b)) \cup (Bits(b) \ Bits(a)) = (Bits(b) \ Bits(a)) \cup (Bits(a) \ Bits(b))
  OBVIOUS
<1> QED
  BY <1>2, <1>3 DEF And, Or, Xor

LEMMA BitwiseMeans ==
  ASSUME NEW a \in Reg, NEW b \in Reg
  PROVE  /\ \A n \in {"and", "andi", "amoand_w"} : I!Means(n, a, b, And(a, b))
         /\ \A n \in {"or", "ori", "amoor_w"} : I!Means(n, a, b, Or(a, b))
         /\ \A n \in {"xor", "xori", "amoxor_w"} : I!Means(n, a, b, Xor(a, b))
<1>1. \A n \in {"and", "andi", "amoand_w"} : I!Means(n, a, b, And(a, b))
  BY BitwiseIs, IsaWords, Zenon DEF I!Means
<1>2. \A n \in {"or", "ori", "amoor_w"} : I!Means(n, a, b, Or(a, b))
  BY BitwiseIs, IsaWords, Zenon DEF I!Means
<1>3. \A n \in {"xor", "xori", "amoxor_w"} : I!Means(n, a, b, Xor(a, b))
  <2>1. \A k \in 0 .. XLEN - 1 : k \in Bits(Xor(a, b)) <=> (k \in Bits(a) <=> k \notin Bits(b))
    BY BitwiseIs
  <2> QED
    BY <2>1, IsaWords, Zenon DEF I!Means
<1> QED
  BY <1>1, <1>2, <1>3

LEMMA OrderMeans ==
  ASSUME NEW a \in Reg, NEW b \in Reg
  PROVE  /\ \A n \in {"slt", "slti"} : I!Means(n, a, b, Truth(Signed(a) < Signed(b)))
         /\ \A n \in {"sltu", "sltiu"} : I!Means(n, a, b, Truth(a < b))
  BY IsaWords DEF I!Means, Truth

LEMMA ProductMeans ==
  ASSUME NEW a \in Reg, NEW b \in Reg
  PROVE  /\ I!Means("mul", a, b, MulOp(0, a, b))
         /\ I!Means("mulh", a, b, MulOp(1, a, b))
         /\ I!Means("mulhsu", a, b, MulOp(2, a, b))
         /\ I!Means("mulhu", a, b, MulOp(3, a, b))
<1> DEFINE h == Pow(XLEN - 1)
           n == Signed(a)
           m == Signed(b)
<1>1. /\ Span = 2 * h /\ h \in Int /\ h > 0 /\ Span \in Int
      /\ a \in Int /\ 0 <= a /\ a < Span /\ b \in Int /\ 0 <= b /\ b < Span
  BY SpanType DEF Reg
<1>2. n \in Int /\ -h <= n /\ n < h /\ m \in Int /\ -h <= m /\ m < h
  <2>1. n \in Int /\ 2 * n >= -Span /\ 2 * n < Span /\ m \in Int /\ 2 * m >= -Span /\ 2 * m < Span
    BY SignedType
  <2> HIDE DEF n, m, h
  <2> QED
    BY <1>1, <2>1
<1>3. /\ MulOp(0, a, b) = Wrap(a * b)
      /\ MulOp(1, a, b) = Wrap((n * m) \div Span)
      /\ MulOp(2, a, b) = ((n * b) % (Span * Span)) \div Span
      /\ MulOp(3, a, b) = (a * b) \div Span
  BY DEF MulOp
<1> HIDE DEF h, n, m
<1>4. I!Means("mul", a, b, MulOp(0, a, b))
  <2>1. a * b \in Int
    BY <1>1
  <2>2. (Wrap(a * b) - (a * b)) % Span = 0
    BY <2>1, WrapIs
  <2> QED
    BY <1>3, <2>2, IsaWords DEF I!Means, I!IsProduct
<1>5. /\ n * m \in Int /\ (2 * h) * (-h) <= n * m /\ n * m < (2 * h) * h
      /\ n * b \in Int /\ (2 * h) * (-h) <= n * b /\ n * b < (2 * h) * h
  <2>1. -h <= b /\ b < 2 * h /\ m < 2 * h
    BY <1>1, <1>2
  <2> QED
    BY <1>1, <1>2, <2>1, ProductRange
<1>6. I!Means("mulh", a, b, MulOp(1, a, b))
  <2>1. \E low \in Reg : n * m = Signed(Wrap((n * m) \div Span)) * Span + low
    BY <1>1, <1>5, HighProductIs
  <2> QED
    BY <1>3, <2>1, IsaWords DEF I!Means, I!IsHighProduct, n, m
<1>7. I!Means("mulhsu", a, b, MulOp(2, a, b))
  <2>1. \E low \in Reg : n * b = Signed(Wrap((n * b) \div Span)) * Span + low
    BY <1>1, <1>5, HighProductIs
  <2>2. MulOp(2, a, b) = Wrap((n * b) \div Span)
    BY <1>3, <1>5, HighHalfIs
  <2> QED
    BY <2>1, <2>2, IsaWords DEF I!Means, I!IsHighProduct, n
<1>8. I!Means("mulhu", a, b, MulOp(3, a, b))
  <2> DEFINE p == a * b
  <2>1. p \in Int
    BY <1>1
  <2> HIDE DEF p
  <2>2. p \div Span \in Int /\ p % Span \in Reg /\ p = (p \div Span) * Span + (p % Span)
    <3> DEFINE q == p \div Span
               r == p % Span
    <3>1. q \in Int /\ r \in 0 .. Span - 1 /\ p = Span * q + r
      BY <1>1, <2>1, DivMod
    <3> HIDE DEF q, r
    <3>2. q \in Int /\ r \in Reg /\ p = q * Span + r
      BY <1>1, <3>1 DEF Reg
    <3> QED
      BY <3>2 DEF q, r
  <2> QED
    BY <1>3, <2>2, IsaWords DEF I!Means, I!IsHighUnsigned, p
<1> QED
  BY <1>4, <1>6, <1>7, <1>8

LEMMA DivisionMeans ==
  ASSUME NEW a \in Reg, NEW b \in Reg
  PROVE  /\ I!Means("div", a, b, MulOp(4, a, b))
         /\ I!Means("divu", a, b, MulOp(5, a, b))
         /\ I!Means("rem", a, b, MulOp(6, a, b))
         /\ I!Means("remu", a, b, MulOp(7, a, b))
<1> DEFINE n == Signed(a)
           m == Signed(b)
<1>1. CASE b = 0
  BY <1>1, IsaWords DEF MulOp, I!Means, I!IsQuotient, I!IsRest
<1>2. CASE b # 0
  <2>1. I!Means("divu", a, b, a \div b) /\ I!Means("remu", a, b, a % b)
    BY <1>2, UnsignedDivisionIs, IsaWords DEF I!Means, I!Divides
  <2>2. ASSUME Overflows(a, b) PROVE I!Means("div", a, b, a) /\ I!Means("rem", a, b, 0)
    <3>1. m = -1 /\ 2 * a = Span /\ n = -a /\ a \in -Span .. Span /\ Signed(0) = 0 /\ Abs(0) < Abs(m)
      BY <2>2, OverflowIs
    <3>2. I!Means("div", a, b, a)
      BY <3>1, IsaWords DEF I!Means, I!IsQuotient
    <3>3. n = m * a + 0
      BY <3>1 DEF Reg
    <3> HIDE DEF n, m
    <3>4. I!Divides(n, m, a, 0)
      BY <3>1, <3>3, IsaWords DEF I!Divides
    <3>5. I!Means("rem", a, b, 0)
      BY <1>2, <3>1, <3>4, IsaWords DEF I!Means, I!IsRest, n, m
    <3> QED
      BY <3>2, <3>5
  <2>3. ASSUME ~Overflows(a, b)
        PROVE  I!Means("div", a, b, Wrap(Quot(n, m))) /\ I!Means("rem", a, b, Wrap(Rest(n, m)))
    <3> DEFINE q == Quot(n, m)
               r == Rest(n, m)
    <3>1. /\ n \in Int /\ m \in Int /\ m # 0 /\ q \in -Span .. Span /\ r \in -Span .. Span
          /\ Signed(Wrap(q)) = q /\ Signed(Wrap(r)) = r
      BY <1>2, <2>3, QuotientRange
    <3>2. I!Divides(n, m, q, r)
      BY <3>1, TruncatedIs, IsaWords DEF I!Divides
    <3> HIDE DEF n, m, q, r
    <3> QED
      BY <1>2, <3>1, <3>2, IsaWords DEF I!Means, I!IsQuotient, I!IsRest, n, m, q, r
  <2> QED
    BY <1>2, <2>1, <2>2, <2>3 DEF MulOp
<1> QED
  BY <1>1, <1>2

\* OP: the switches compute the meaning of what the decoder takes ir for.
LEMMA OpMeans ==
  ASSUME ExecTypeOK, ir # NoInstr, ir.op = \h33, NEW n \in TakenFor
  PROVE  /\ n \in I!RegisterForms
         /\ I!Means(n, rs1, rs2, IF Bit25 THEN MulOp(ir.f3, rs1, rs2)
                                          ELSE Op(ir.f3, TRUE, Bit30, rs1, rs2))
<1>1. rs1 \in Reg /\ rs2 \in Reg
  BY OperandType
<1>2. CASE /\ ~Bit25 /\ (~Bit30 \/ ir.f3 \notin {0, 5})
           /\ <<ir.f3, n>> \in {<<0, "add">>, <<1, "sll">>, <<2, "slt">>, <<3, "sltu">>, <<4, "xor">>,
                                <<5, "srl">>, <<6, "or">>, <<7, "and">>}
  <2>1. ~Bit25 /\ (ir.f3 \in {0, 5} => ~Bit30)
    BY <1>2
  <2>2. /\ ~Bit30 => Op(0, TRUE, Bit30, rs1, rs2) = Wrap(rs1 + rs2)
        /\ Op(1, TRUE, Bit30, rs1, rs2) = Wrap(rs1 * 2^Shamt(rs2))
        /\ Op(2, TRUE, Bit30, rs1, rs2) = Truth(Signed(rs1) < Signed(rs2))
        /\ Op(3, TRUE, Bit30, rs1, rs2) = Truth(rs1 < rs2)
        /\ Op(4, TRUE, Bit30, rs1, rs2) = Xor(rs1, rs2)
        /\ ~Bit30 => Op(5, TRUE, Bit30, rs1, rs2) = rs1 \div 2^Shamt(rs2)
        /\ Op(6, TRUE, Bit30, rs1, rs2) = Or(rs1, rs2)
        /\ Op(7, TRUE, Bit30, rs1, rs2) = And(rs1, rs2)
    BY DEF Op
  <2> DEFINE r == Op(ir.f3, TRUE, Bit30, rs1, rs2)
  <2>3. \/ n = "add" /\ r = Wrap(rs1 + rs2)
        \/ n = "sll" /\ r = Wrap(rs1 * 2^Shamt(rs2))
        \/ n = "slt" /\ r = Truth(Signed(rs1) < Signed(rs2))
        \/ n = "sltu" /\ r = Truth(rs1 < rs2)
        \/ n = "xor" /\ r = Xor(rs1, rs2)
        \/ n = "srl" /\ r = rs1 \div 2^Shamt(rs2)
        \/ n = "or" /\ r = Or(rs1, rs2)
        \/ n = "and" /\ r = And(rs1, rs2)
    BY <1>2, <2>1, <2>2
  <2> HIDE DEF r
  <2>5. I!Means(n, rs1, rs2, r)
    BY <1>1, <2>3, SumMeans, ShiftMeans, BitwiseMeans, OrderMeans
  <2>4. n \in I!RegisterForms
    BY <1>2, IsaEncodings DEF I!RegisterForms, RType, MType
  <2> QED
    BY <2>1, <2>4, <2>5 DEF r
<1>3. CASE ~Bit25 /\ Bit30 /\ <<ir.f3, n>> \in {<<0, "sub">>, <<5, "sra">>}
  <2>1. ~Bit25 /\ Bit30
    BY <1>3
  <2>2. /\ Op(0, TRUE, Bit30, rs1, rs2) = Wrap(rs1 - rs2)
        /\ Op(5, TRUE, Bit30, rs1, rs2) = Wrap(Signed(rs1) \div 2^Shamt(rs2))
    BY <2>1 DEF Op
  <2> DEFINE r == Op(ir.f3, TRUE, Bit30, rs1, rs2)
  <2>3. \/ n = "sub" /\ r = Wrap(rs1 - rs2)
        \/ n = "sra" /\ r = Wrap(Signed(rs1) \div 2^Shamt(rs2))
    BY <1>3, <2>2
  <2> HIDE DEF r
  <2>5. I!Means(n, rs1, rs2, r)
    BY <1>1, <2>3, SumMeans, ShiftMeans
  <2>4. n \in I!RegisterForms
    BY <1>3, IsaEncodings DEF I!RegisterForms, RType, MType
  <2> QED
    BY <2>1, <2>4, <2>5 DEF r
<1>4. CASE /\ Bit25
           /\ <<ir.f3, n>> \in {<<0, "mul">>, <<1, "mulh">>, <<2, "mulhsu">>, <<3, "mulhu">>, <<4, "div">>,
                                <<5, "divu">>, <<6, "rem">>, <<7, "remu">>}
  <2>1. Bit25
    BY <1>4
  <2>2. I!Means(n, rs1, rs2, MulOp(ir.f3, rs1, rs2))
    BY <1>1, <1>4, ProductMeans, DivisionMeans
  <2>3. n \in I!RegisterForms
    BY <1>4, IsaEncodings DEF I!RegisterForms, RType, MType
  <2> QED
    BY <2>1, <2>2, <2>3
<1> QED
  BY <1>2, <1>3, <1>4, RegisterTaken

\* OP-IMM.
LEMMA OpImmMeans ==
  ASSUME ExecTypeOK, ir # NoInstr, ir.op = \h13, NEW n \in TakenFor
  PROVE  /\ n \in I!ImmediateForms /\ n \notin I!RegisterForms
         /\ I!Means(n, rs1, ir.imm, Op(ir.f3, FALSE, Bit30, rs1, ir.imm))
<1>1. rs1 \in Reg /\ ir.imm \in Reg
  BY OperandType
<1>2. n \in {"addi", "slti", "sltiu", "xori", "ori", "andi", "slli", "srli", "srai"}
  BY ImmediateTaken
<1>3. n \in I!ImmediateForms /\ n \notin I!RegisterForms
  BY <1>2, IsaEncodings DEF I!ImmediateForms, I!RegisterForms, RType, MType
<1>4. \A alt :
        /\ Op(0, FALSE, alt, rs1, ir.imm) = Wrap(rs1 + ir.imm)
        /\ Op(1, FALSE, alt, rs1, ir.imm) = Wrap(rs1 * 2^Shamt(ir.imm))
        /\ Op(2, FALSE, alt, rs1, ir.imm) = Truth(Signed(rs1) < Signed(ir.imm))
        /\ Op(3, FALSE, alt, rs1, ir.imm) = Truth(rs1 < ir.imm)
        /\ Op(4, FALSE, alt, rs1, ir.imm) = Xor(rs1, ir.imm)
        /\ Op(6, FALSE, alt, rs1, ir.imm) = Or(rs1, ir.imm)
        /\ Op(7, FALSE, alt, rs1, ir.imm) = And(rs1, ir.imm)
  BY DEF Op
<1>5. CASE <<ir.f3, n>> \in {<<0, "addi">>, <<2, "slti">>, <<3, "sltiu">>, <<4, "xori">>,
                             <<6, "ori">>, <<7, "andi">>, <<1, "slli">>}
  <2>1. CASE ir.f3 = 0 /\ n = "addi"
    BY <1>1, <1>3, <1>4, <2>1, SumMeans
  <2>2. CASE ir.f3 = 1 /\ n = "slli"
    BY <1>1, <1>3, <1>4, <2>2, ShiftMeans
  <2>3. CASE <<ir.f3, n>> \in {<<4, "xori">>, <<6, "ori">>, <<7, "andi">>}
    BY <1>1, <1>3, <1>4, <2>3, BitwiseMeans
  <2>4. CASE <<ir.f3, n>> \in {<<2, "slti">>, <<3, "sltiu">>}
    BY <1>1, <1>3, <1>4, <2>4, OrderMeans
  <2> QED
    BY <1>5, <2>1, <2>2, <2>3, <2>4
<1>6. CASE ~Bit30 /\ <<ir.f3, n>> = <<5, "srli">>
  <2>1. ~Bit30
    BY <1>6
  <2>2. Op(5, FALSE, Bit30, rs1, ir.imm) = rs1 \div 2^Shamt(ir.imm)
    BY <2>1 DEF Op
  <2> QED
    BY <1>1, <1>3, <1>6, <2>2, ShiftMeans
<1>7. CASE Bit30 /\ <<ir.f3, n>> = <<5, "srai">>
  <2>1. Bit30
    BY <1>7
  <2>2. Op(5, FALSE, Bit30, rs1, ir.imm) = Wrap(Signed(rs1) \div 2^Shamt(ir.imm))
    BY <2>1 DEF Op
  <2> QED
    BY <1>1, <1>3, <1>7, <2>2, ShiftMeans
<1> QED
  BY <1>5, <1>6, <1>7, ImmediateTaken

\* The word an AMO stores.
LEMMA AmoMeans ==
  ASSUME NEW n \in DOMAIN AType \ {"lr_w", "sc_w"}, NEW old \in Reg, NEW b \in Reg
  PROVE  I!Means(n, old, b, AmoResult(AType[n], old, b))
<1>1. n \in {"amoswap_w", "amoadd_w", "amoxor_w", "amoand_w", "amoor_w", "amomin_w", "amomax_w",
             "amominu_w", "amomaxu_w"}
  BY DEF AType
<1>2. CASE n = "amoadd_w"
  <2>1. AmoResult(AType[n], old, b) = Wrap(b + old) /\ b + old = old + b
    BY <1>2 DEF AmoResult, AType, Reg
  <2>2. (Wrap(old + b) - old - b) % Span = 0
    BY SumIs
  <2> QED
    BY <1>2, <2>1, <2>2, IsaWords DEF I!Means
<1>3. CASE n \in {"amoxor_w", "amoand_w", "amoor_w"}
  <2>1. /\ n = "amoxor_w" => AmoResult(AType[n], old, b) = Xor(b, old)
        /\ n = "amoand_w" => AmoResult(AType[n], old, b) = And(b, old)
        /\ n = "amoor_w" => AmoResult(AType[n], old, b) = Or(b, old)
    BY DEF AmoResult, AType
  <2> QED
    BY <1>3, <2>1, BitwiseIs, BitwiseMeans
<1>4. CASE n = "amoswap_w"
  BY <1>4 DEF I!Means, AmoResult, AType
<1>5. CASE n \in {"amomin_w", "amomax_w"}
  <2>1. /\ n = "amomin_w" => AmoResult(AType[n], old, b) = IF Signed(b) < Signed(old) THEN b ELSE old
        /\ n = "amomax_w" => AmoResult(AType[n], old, b) = IF Signed(b) > Signed(old) THEN b ELSE old
    BY DEF AmoResult, AType
  <2>2. Signed(b) \in Int /\ Signed(old) \in Int
    BY SignedType
  <2> QED
    BY <1>5, <2>1, <2>2, IsaWords DEF I!Means
<1>6. CASE n \in {"amominu_w", "amomaxu_w"}
  <2>1. /\ n = "amominu_w" => AmoResult(AType[n], old, b) = IF b < old THEN b ELSE old
        /\ n = "amomaxu_w" => AmoResult(AType[n], old, b) = IF b > old THEN b ELSE old
    BY DEF AmoResult, AType
  <2> QED
    BY <1>6, <2>1, IsaWords DEF I!Means, Reg
<1> QED
  BY <1>1, <1>2, <1>3, <1>4, <1>5, <1>6

-----------------------------------------------------------------------------
(* Steps, opcode by opcode.                                                *)

\* What is shown of each.
AsIsaSays == I!IsaStep(ir) \/ Divergence

\* It is enough that one of the names the decoder takes the instruction for
\* describes the step.
LEMMA IsaByTaken ==
  ASSUME NEW n \in TakenFor, I!Does(ir, n)
  PROVE  AsIsaSays
<1>1. CASE Names(ir) = {}
  BY <1>1 DEF AsIsaSays, Divergence, Lenient
<1>2. CASE Names(ir) # {}
  <2>1. n \in Names(ir) /\ n \in I!Names(ir)
    BY <1>2, IsaEncodings DEF TakenFor
  <2>2. CASE I!Allowed(ir)
    BY <2>1, <2>2, Zenon DEF I!IsaStep, AsIsaSays
  <2>3. CASE ~I!Allowed(ir)
    BY <2>1, <2>3, Zenon DEF Unprivileged, Divergence, AsIsaSays
  <2> QED
    BY <2>2, <2>3
<1> QED
  BY <1>1, <1>2

LEMMA IsaByName ==
  ASSUME NEW n \in Names(ir), I!Does(ir, n)
  PROVE  AsIsaSays
  BY IsaByTaken DEF TakenFor

LEMMA EnterMachineIs ==
  ASSUME NEW d
  PROVE  /\ Slot(EnterMachine(PolledFlags(d))) = Slot(extraflags)
         /\ Mode(EnterMachine(PolledFlags(d))) # User
<1>1. Slot(EnterMachine(PolledFlags(d))) = Slot(PolledFlags(d))
  BY DEF EnterMachine, Slot, Shr, ModeBits, Bit
<1>2. 0 \in Mode(EnterMachine(PolledFlags(d))) /\ User = {}
  BY DEF EnterMachine, Mode, ModeBits, User
<1> QED
  BY <1>1, <1>2, FlagsIs

\* The trap entry is precise.
LEMMA TrapIsa ==
  ASSUME NEW d, NEW c, NEW a, EnterTrap(d), UNCHANGED <<gpr, host, mscratch>>,
         mcause' = c, c \in {5, 7} => mtval' = a
  PROVE  I!Trap(c, a)
<1>1. ReservedAddress' = ReservedAddress
  BY EnterMachineIs DEF EnterTrap, ReservedAddress
<1>2. (Mode(extraflags) # User)'
  BY EnterMachineIs DEF EnterTrap, User
<1>3. Memory' = Memory
  BY DEF Memory
<1>4. pc' = Csrs.mtvec
  BY DEF EnterTrap, Continue, Csrs
<1>5. Csrs'.mepc = pc /\ Csrs'.mcause = c /\ (c \in {5, 7} => Csrs'.mtval = a)
  BY DEF EnterTrap, Csrs
<1>6. Csrs'.mtvec = Csrs.mtvec /\ Csrs'.mie = Csrs.mie /\ Csrs'.mscratch = Csrs.mscratch
  BY DEF EnterTrap, Csrs
<1>7. {I!Cause.load_access, I!Cause.store_access} = {5, 7}
  BY IsaEncodings DEF Cause
<1> QED
  BY <1>1, <1>2, <1>3, <1>4, <1>5, <1>6, <1>7 DEF I!Trap

LEMMA RaiseIsa ==
  ASSUME NEW d, NEW c, NEW a, Raise(d, c, a)
  PROVE  I!Trap(c, a)
  BY TrapIsa DEF Raise, Exception

LEMMA IllegalIsa ==
  ASSUME NEW d, Raise(d, 2, 0), Names(ir) = {}
  PROVE  AsIsaSays
<1>1. I!Cause.illegal = 2
  BY IsaEncodings DEF Cause
<1> QED
  BY <1>1, RaiseIsa, IsaEncodings DEF I!IllegalStep, I!IsaStep, AsIsaSays

\* The timer interrupt is taken only when it is enabled, and before the instruction.
LEMMA InterruptIsa ==
  ASSUME NEW d, TakeInterrupt(d)
  PROVE  AsIsaSays
<1>1. I!Trap(Span \div 2 + 7, 0)
  <2>1. EnterTrap(d) /\ UNCHANGED <<gpr, host, mscratch>> /\ mcause' = Span \div 2 + 7 /\ mtval' = 0
    BY DEF TakeInterrupt, Interrupt
  <2> QED
    BY <2>1, TrapIsa
<1>2. 7 \in I!Bits(Csrs.mie) /\ 3 \in I!Bits(Csrs.mstatus)
  <2>1. 7 \in mie /\ 3 \in mstatus
    BY DEF TakeInterrupt, Interrupt, Interrupted, MTIP, MIE
  <2>2. Csrs.mie = Number(mie) /\ Csrs.mstatus = Number(mstatus)
    BY DEF Csrs
  <2> QED
    BY <2>1, <2>2, BitsNumber, IsaWords, Sizes
<1> QED
  BY <1>1, <1>2, IsaWords DEF I!Interrupt, I!IsaStep, AsIsaSays

\* A write back changes rd alone, and never x0.
LEMMA OnlyRdIs ==
  ASSUME ExecTypeOK, ZeroRegister, ir # NoInstr, NEW v \in Reg, WriteBack(v)
  PROVE  /\ gpr'[0] = 0
         /\ \A n \in DOMAIN gpr \ {0, ir.rd} : gpr'[n] = gpr[n]
         /\ ir.rd # 0 => gpr'[ir.rd] \in I!Reg /\ gpr'[ir.rd] = v
<1>1. DOMAIN gpr = 0 .. 31
  BY OperandType DEF DataType
<1> QED
  BY <1>1, WriteBackIs, IsaWords, SMTT(30) DEF RdIs

LEMMA FinishIs ==
  ASSUME ExecTypeOK, ZeroRegister, ir # NoInstr, NEW d, NEW v \in Reg, NEW t, Finish(d, v, t)
  PROVE  /\ WriteBack(v)
         /\ pc' = t /\ I!Elsewhere /\ Memory' = Memory
<1>1. Memory' = Memory
  BY DEF Finish, Memory
<1> QED
  BY <1>1, PlainElsewhere DEF Finish

LEMMA ComputeIs ==
  ASSUME ExecTypeOK, ZeroRegister, ir # NoInstr, NEW d, NEW v \in Reg, Compute(d, v)
  PROVE  /\ WriteBack(v)
         /\ pc' = I!NextPc /\ I!Elsewhere /\ Memory' = Memory
  BY FinishIs, PcIs, OperandType DEF Compute

LEMMA UpperIsa ==
  ASSUME ExecTypeOK, ZeroRegister, ir # NoInstr, NEW d \in Ticks, Lui(d) \/ Auipc(d)
  PROVE  AsIsaSays
<1>1. ir.imm \in Reg /\ Wrap(pc + ir.imm) \in Reg
  BY OperandType, TargetType, Widths
<1>2. CASE Lui(d)
  <2>1. "lui" \in Names(ir)
    BY <1>2 DEF Lui, Names, Mnemonics, Is, UType
  <2>2. I!UpperStep(ir, "lui")
    BY <1>1, <1>2, ComputeIs, OnlyRdIs DEF Lui, I!UpperStep, I!OnlyRd
  <2> QED
    BY <2>1, <2>2, IsaByName DEF I!Does
<1>3. CASE Auipc(d)
  <2>1. "auipc" \in Names(ir)
    BY <1>3 DEF Auipc, Names, Mnemonics, Is, UType
  <2>2. I!UpperStep(ir, "auipc")
    BY <1>1, <1>3, ComputeIs, OnlyRdIs, IsaWords DEF Auipc, I!UpperStep, I!OnlyRd
  <2> QED
    BY <2>1, <2>2, IsaByName DEF I!Does
<1> QED
  BY <1>2, <1>3

LEMMA OperationIsa ==
  ASSUME ExecTypeOK, ZeroRegister, ir # NoInstr, NEW d \in Ticks, OpReg(d) \/ OpImm(d)
  PROVE  AsIsaSays
<1>0. /\ ir.f3 \in 0 .. 7 /\ rs1 \in Reg /\ rs2 \in Reg /\ ir.imm \in Reg
      /\ gpr[ir.rs1] = rs1 /\ gpr[ir.rs2] = rs2
  BY OperandType DEF rs1, rs2
<1>1. CASE OpReg(d)
  <2> DEFINE v == IF Bit25 THEN MulOp(ir.f3, rs1, rs2) ELSE Op(ir.f3, TRUE, Bit30, rs1, rs2)
  <2>1. v \in Reg /\ Compute(d, v) /\ ir.op = \h33
    <3>1. Op(ir.f3, TRUE, Bit30, rs1, rs2) \in Reg
      BY <1>0, OpType
    <3>2. MulOp(ir.f3, rs1, rs2) \in Reg
      BY <1>0, MulOpType
    <3>3. Compute(d, v) /\ ir.op = \h33
      BY <1>1 DEF OpReg
    <3> QED
      BY <3>1, <3>2, <3>3
  <2>2. ASSUME NEW n \in TakenFor PROVE n \in I!RegisterForms /\ I!Means(n, rs1, rs2, v)
    BY <2>1, OpMeans
  <2> HIDE DEF v
  <2>3. TakenFor # {}
    BY <2>1, TakenSome
  <2>4. ASSUME NEW n \in TakenFor PROVE I!ComputeStep(ir, n)
    BY <1>0, <2>1, <2>2, ComputeIs, OnlyRdIs DEF I!ComputeStep, I!OnlyRd
  <2> QED
    BY <2>3, <2>4, IsaByTaken DEF I!Does
<1>2. CASE OpImm(d)
  <2> DEFINE v == Op(ir.f3, FALSE, Bit30, rs1, ir.imm)
  <2>1. v \in Reg /\ Compute(d, v) /\ ir.op = \h13
    BY <1>0, <1>2, OpType DEF OpImm
  <2>2. ASSUME NEW n \in TakenFor
        PROVE  n \in I!ImmediateForms /\ n \notin I!RegisterForms /\ I!Means(n, rs1, ir.imm, v)
    BY <2>1, OpImmMeans
  <2> HIDE DEF v
  <2>3. TakenFor # {}
    BY <2>1, TakenSome
  <2>4. ASSUME NEW n \in TakenFor PROVE I!ComputeStep(ir, n)
    BY <1>0, <2>1, <2>2, ComputeIs, OnlyRdIs, SMTT(30) DEF I!ComputeStep, I!OnlyRd
  <2> QED
    BY <2>3, <2>4, IsaByTaken DEF I!Does
<1> QED
  BY <1>1, <1>2

LEMMA JumpIsa ==
  ASSUME ExecTypeOK, ZeroRegister, ir # NoInstr, NEW d \in Ticks, Jal(d) \/ Jalr(d)
  PROVE  AsIsaSays
<1>0. /\ rs1 \in Reg /\ gpr[ir.rs1] = rs1 /\ PcPlus(4) \in Reg /\ PcPlus(4) = I!NextPc
      /\ Address \in Reg /\ Address = Wrap(rs1 + ir.imm)
  BY OperandType, TargetType, Widths, PcIs DEF rs1, Address
<1>1. CASE Jal(d)
  <2>1. "jal" \in Names(ir)
    BY <1>1 DEF Jal, Names, Mnemonics, Is, UType
  <2>2. WriteBack(PcPlus(4)) /\ pc' = Wrap(pc + ir.imm) /\ I!Elsewhere /\ Memory' = Memory
    BY <1>0, <1>1, FinishIs DEF Jal
  <2>3. I!JumpStep(ir, "jal")
    BY <1>0, <2>2, OnlyRdIs, IsaWords DEF I!JumpStep, I!OnlyRd
  <2> QED
    BY <2>1, <2>3, IsaByName DEF I!Does
<1>2. CASE Jalr(d)
  <2>1. TakenFor # {}
    BY <1>2, TakenSome DEF Jalr
  <2>2. ASSUME NEW n \in TakenFor PROVE n = "jalr"
    BY <1>2, OtherTaken DEF Jalr
  <2>3. /\ WriteBack(PcPlus(4)) /\ pc' = Address - (Address % 2)
        /\ I!Elsewhere /\ Memory' = Memory
    BY <1>0, <1>2, FinishIs DEF Jalr
  <2>4. Bits(pc') = Bits(Wrap(rs1 + ir.imm)) \ {0}
    BY <1>0, <2>3, EvenIs
  <2>5. I!JumpStep(ir, "jalr")
    BY <1>0, <2>3, <2>4, OnlyRdIs, IsaWords DEF I!JumpStep, I!OnlyRd
  <2> QED
    BY <2>1, <2>2, <2>5, IsaByTaken DEF I!Does
<1> QED
  BY <1>1, <1>2

\* The conditions of the branches, BGE and BGEU among them.
LEMMA BranchHoldsIs ==
  ASSUME ir.op = \h63, ir.f3 \in Branches, NEW a \in Reg, NEW b \in Reg
  PROVE  \E n \in Names(ir) : /\ n \in {"beq", "bne", "blt", "bge", "bltu", "bgeu"}
                              /\ Taken(ir.f3, a, b) <=> I!BranchHolds(n, a, b)
<1> DEFINE n == CASE ir.f3 = 0 -> "beq" [] ir.f3 = 1 -> "bne" [] ir.f3 = 4 -> "blt"
                  [] ir.f3 = 5 -> "bge" [] ir.f3 = 6 -> "bltu" [] ir.f3 = 7 -> "bgeu"
<1>1. n \in Mnemonics /\ Is(ir, n) /\ n \in {"beq", "bne", "blt", "bge", "bltu", "bgeu"}
  BY DEF Branches, Mnemonics, Is, IType
<1>2. a \in Int /\ b \in Int /\ Signed(a) \in Int /\ Signed(b) \in Int
  BY SignedType DEF Reg
<1>3. Signed(a) = Signed(b) => a = b
  BY SignedType, SpanType DEF Reg
<1>4. Taken(ir.f3, a, b) <=> I!BranchHolds(n, a, b)
  <2>1. CASE ir.f3 = 0
    <3>1. n = "beq"
      BY <2>1
    <3> HIDE DEF n
    <3>2. I!BranchHolds(n, a, b) <=> a = b
      BY <3>1 DEF I!BranchHolds
    <3> QED
      BY <2>1, <3>2 DEF Taken
  <2>6. CASE ir.f3 = 1
    <3>1. n = "bne"
      BY <2>6
    <3> HIDE DEF n
    <3>2. I!BranchHolds(n, a, b) <=> a # b
      BY <3>1 DEF I!BranchHolds
    <3> QED
      BY <2>6, <3>2 DEF Taken
  <2>4. CASE ir.f3 = 4
    BY <1>2, <2>4, IsaWords DEF Taken, I!BranchHolds
  <2>5. CASE ir.f3 = 6
    BY <1>2, <2>5 DEF Taken, I!BranchHolds
  <2>2. CASE ir.f3 = 5
    <3>1. n = "bge"
      BY <2>2
    <3> HIDE DEF n
    <3>2. Taken(ir.f3, a, b) <=> Signed(a) >= Signed(b)
      BY <2>2 DEF Taken
    <3>3. I!BranchHolds(n, a, b) <=> a = b \/ Signed(a) > Signed(b)
      BY <3>1, IsaWords DEF I!BranchHolds
    <3> QED
      BY <1>2, <1>3, <3>2, <3>3
  <2>3. CASE ir.f3 = 7
    BY <1>2, <2>3, IsaWords DEF Taken, I!BranchHolds
  <2> QED
    BY <2>1, <2>2, <2>3, <2>4, <2>5, <2>6 DEF Branches
<1> QED
  BY <1>1, <1>4 DEF Names

LEMMA BranchIsa ==
  ASSUME ExecTypeOK, ZeroRegister, ir # NoInstr, NEW d \in Ticks, Branch(d)
  PROVE  AsIsaSays
<1>0. rs1 \in Reg /\ rs2 \in Reg /\ gpr[ir.rs1] = rs1 /\ gpr[ir.rs2] = rs2 /\ ir.op = \h63
  BY OperandType DEF rs1, rs2, Branch
<1>1. CASE ir.f3 \notin Branches /\ Raise(d, 2, 0)
  BY <1>0, <1>1, OtherNames, IllegalIsa
<1>2. CASE /\ ir.f3 \in Branches
           /\ Plain(d, IF Taken(ir.f3, rs1, rs2) THEN Wrap(pc + ir.imm) ELSE PcPlus(4))
           /\ NoData
  <2>1. PICK n \in Names(ir) : /\ n \in {"beq", "bne", "blt", "bge", "bltu", "bgeu"}
                               /\ Taken(ir.f3, rs1, rs2) <=> I!BranchHolds(n, rs1, rs2)
    BY <1>0, <1>2, BranchHoldsIs
  <2>2. PcPlus(4) = Wrap(pc + 4)
    BY OperandType, PcIs
  <2>3. /\ pc' = IF Taken(ir.f3, rs1, rs2) THEN Wrap(pc + ir.imm) ELSE PcPlus(4)
        /\ I!Elsewhere
    BY <1>2, PlainElsewhere DEF NoData, dataVars
  <2>4. gpr' = gpr /\ Memory' = Memory
    BY <1>2 DEF NoData, dataVars, Memory
  <2>5. I!BranchStep(ir, n)
    BY <1>0, <2>1, <2>2, <2>3, <2>4, IsaWords DEF I!BranchStep
  <2> QED
    BY <2>5, IsaByName DEF I!Does
<1> QED
  BY <1>1, <1>2 DEF Branch

LEMMA FenceIsa ==
  ASSUME ExecTypeOK, ZeroRegister, ir # NoInstr, NEW d \in Ticks, Fence(d)
  PROVE  AsIsaSays
<1>1. TakenFor # {}
  BY TakenSome DEF Fence
<1>2. ASSUME NEW n \in TakenFor PROVE I!FenceStep(n)
  <2>1. n \in {"fence", "fence_i"}
    BY OtherTaken DEF Fence
  <2>2. pc' = I!NextPc /\ I!Elsewhere /\ gpr' = gpr /\ Memory' = Memory
    BY PlainElsewhere, PcIs, OperandType DEF Fence, NoData, dataVars, Memory
  <2> QED
    BY <2>1, <2>2 DEF I!FenceStep
<1> QED
  BY <1>1, <1>2, IsaByTaken DEF I!Does

LEMMA UnknownIsa == ASSUME NEW d, UnknownOpcode(d) PROVE AsIsaSays
  BY OtherNames, IllegalIsa DEF UnknownOpcode

\* A step that only ends the loop changes nothing the instruction set knows.
LEMMA EndedIs ==
  ASSUME NEW d, Halt(d) \/ WildAccess(d), NoData
  PROVE  UNCHANGED I!isaVars
<1>1. extraflags' = PolledFlags(d) /\ UNCHANGED <<pc, mtvec, mie, mepc, mstatus>>
  BY DEF Halt, WildAccess, Execute
<1>2. UNCHANGED <<gpr, host, mscratch, mcause, mtval>>
  BY DEF NoData, dataVars
<1>3. Slot(extraflags)' = Slot(extraflags) /\ Mode(extraflags)' = Mode(extraflags)
  BY <1>1, FlagsIs
<1>4. ReservedAddress' = ReservedAddress /\ Csrs' = Csrs /\ Memory' = Memory
  BY <1>1, <1>2, <1>3 DEF ReservedAddress, Csrs, Memory
<1> QED
  BY <1>1, <1>2, <1>3, <1>4 DEF I!isaVars

\* The widths of the loads and stores.
LEMMA LoadWidth ==
  ASSUME ir.op = \h03, NEW n \in Names(ir)
  PROVE  /\ <<ir.f3, n>> \in {<<0, "lb">>, <<1, "lh">>, <<2, "lw">>, <<4, "lbu">>, <<5, "lhu">>}
         /\ I!Width[n] = CASE ir.f3 \in {0, 4} -> 1 [] ir.f3 \in {1, 5} -> 2 [] ir.f3 = 2 -> 4
  BY AccessNames DEF I!Width

LEMMA StoreWidthIs ==
  ASSUME ir.op = \h23, NEW n \in Names(ir)
  PROVE  /\ <<ir.f3, n>> \in {<<0, "sb">>, <<1, "sh">>, <<2, "sw">>}
         /\ I!Width[n] = StoreWidth(ir.f3) /\ StoreWidth(ir.f3) \in {1, 2, 4}
  BY AccessNames DEF I!Width, StoreWidth

\* An access is in memory if its first byte is and its last is not behind it.
LEMMA InMemoryIs ==
  ASSUME NEW a \in Int, NEW w \in {1, 2, 4}
  PROVE  I!InMemory(a, w) <=> InRam(a) /\ a + w - 1 < MemRange
<1>1. /\ DOMAIN Memory = ResetVector .. MemRange - 1
      /\ ResetVector \in Int /\ MemRange \in Int
  BY ExecAssumption, Widths DEF Memory
<1>2. a \in a .. a + w - 1 /\ a + w - 1 \in a .. a + w - 1
  OBVIOUS
<1> QED
  BY <1>1, <1>2, SMTT(30) DEF I!InMemory, InRam

LEMMA NotInRam ==
  ASSUME NEW a, a \in IoSpace
  PROVE  ~InRam(a)
  BY ExecAssumption, Widths DEF InRam

\* The instance with the longer memory has the same words and the same steps.
LEMMA LongWords ==
  /\ LongRam!ByteSpan = ByteSpan /\ LongRam!Reg = I!Reg /\ LongRam!Width = I!Width
  /\ \A n : LongRam!Wrap(n) = I!Wrap(n)
  /\ \A v, k : LongRam!ByteOf(v, k) = ByteOf(v, k)
  /\ LongRam!NextPc = I!NextPc
  /\ LongRam!Elsewhere <=> I!Elsewhere
<1>1. /\ LongRam!XLEN = I!XLEN /\ LongRam!Span = I!Span /\ LongRam!ByteSpan = ByteSpan
      /\ LongRam!Reg = I!Reg
  BY DEF LongRam!XLEN, I!XLEN, LongRam!Span, I!Span, LongRam!ByteSpan, ByteSpan, LongRam!Reg, I!Reg
<1>2. \A n : LongRam!Wrap(n) = I!Wrap(n)
  BY <1>1 DEF LongRam!Wrap, I!Wrap
<1>3. \A v, k : LongRam!ByteOf(v, k) = ByteOf(v, k)
  BY <1>1 DEF LongRam!ByteOf, ByteOf
<1>4. LongRam!NextPc = I!NextPc
  BY <1>2 DEF LongRam!NextPc, I!NextPc
<1>5. LongRam!Elsewhere <=> I!Elsewhere
  BY DEF LongRam!Elsewhere, I!Elsewhere
<1>6. LongRam!Width = I!Width
  BY DEF LongRam!Width, I!Width
<1> QED
  BY <1>1, <1>2, <1>3, <1>4, <1>5, <1>6

LEMMA LongMemory ==
  ASSUME DataType, NEW a, InRam(a), NEW w \in {1, 2, 4}
  PROVE  LongRam!InMemory(a, w)
<1>1. DOMAIN host = ResetVector .. MemRange + 2 /\ ResetVector \in Int /\ MemRange \in Int
  BY Widths DEF DataType
<1>2. a \in Int /\ ResetVector <= a /\ a <= MemRange - 1
  BY <1>1 DEF InRam
<1>3. a .. a + w - 1 \subseteq ResetVector .. MemRange + 2
  BY <1>1, <1>2
<1> QED
  BY <1>1, <1>3 DEF LongRam!InMemory

\* A load that begins in RAM gives the bytes from there on, and the sign.
LEMMA HostLoaded ==
  ASSUME DataType, ir.op = \h03, NEW n \in Names(ir), NEW a, InRam(a)
  PROVE  LongRam!IsLoaded(n, a, Loaded(ir.f3, a))
<1> DEFINE p == host[a]
           q == host[a + 1]
           r == host[a + 2]
           s == host[a + 3]
           v == Loaded(ir.f3, a)
<1>1. a \in Int /\ p \in Bytes /\ q \in Bytes /\ r \in Bytes /\ s \in Bytes
  <2>1. a + 0 = a /\ a \in Int
    BY RamBytes
  <2> QED
    BY <2>1, RamBytes
<1>2. 0 \in Bytes /\ ByteSpan - 1 \in Bytes /\ ByteSpan \in Int
  BY SpanType DEF Bytes
<1>3. /\ Joined(host, a, 1) = p
      /\ Joined(host, a, 2) = p + ByteSpan * q
      /\ Joined(host, a, 4) = p + ByteSpan * q + ByteSpan * ByteSpan * (r + ByteSpan * s)
  BY <1>1 DEF Joined, HalfWord
<1>4. LongRam!Width = I!Width /\ LongRam!ByteSpan = ByteSpan
      /\ \A x, k : LongRam!ByteOf(x, k) = ByteOf(x, k)
  BY LongWords
<1> HIDE DEF p, q, r, s
<1>5. CASE ir.f3 = 2
  <2>1. n = "lw" /\ I!Width[n] = 4
    BY <1>5, LoadWidth
  <2>2. v = p + ByteSpan * q + ByteSpan * ByteSpan * (r + ByteSpan * s)
    BY <1>3, <1>5 DEF Loaded
  <2> HIDE DEF v
  <2>3. ByteOf(v, 0) = p /\ ByteOf(v, 1) = q /\ ByteOf(v, 2) = r /\ ByteOf(v, 3) = s
    BY <1>1, <2>2, FourBytes
  <2>4. host[a + 0] = p /\ host[a + 1] = q /\ host[a + 2] = r /\ host[a + 3] = s
    BY <1>1 DEF p, q, r, s
  <2> QED
    BY <2>1, <2>3, <2>4, <1>4 DEF LongRam!IsLoaded, v
<1>6. CASE ir.f3 \in {0, 4}
  <2> DEFINE f == IF ir.f3 = 0 THEN Fill(p) ELSE 0
  <2>1. I!Width[n] = 1 /\ n = IF ir.f3 = 0 THEN "lb" ELSE "lbu"
    BY <1>6, LoadWidth
  <2>2. v = p + ByteSpan * f + ByteSpan * ByteSpan * (f + ByteSpan * f)
    <3>1. CASE ir.f3 = 0
      BY <1>1, <1>3, <3>1, SignedByteIs DEF Loaded
    <3>2. CASE ir.f3 = 4
      BY <1>1, <1>2, <1>3, <3>2 DEF Loaded, Bytes
    <3> QED
      BY <1>6, <3>1, <3>2
  <2>3. f \in Bytes
    BY <1>1, FillType
  <2>4. f = IF n \in {"lb", "lh"} /\ 2 * p >= ByteSpan THEN ByteSpan - 1 ELSE 0
    BY <2>1 DEF Fill
  <2> HIDE DEF v, f
  <2>5. ByteOf(v, 0) = p /\ ByteOf(v, 1) = f /\ ByteOf(v, 2) = f /\ ByteOf(v, 3) = f
    BY <1>1, <2>2, <2>3, FourBytes
  <2>6. host[a + 0] = p /\ host[a + 1 - 1] = p
    BY <1>1 DEF p
  <2> QED
    BY <2>1, <2>4, <2>5, <2>6, <1>4 DEF LongRam!IsLoaded, v
<1>7. CASE ir.f3 \in {1, 5}
  <2> DEFINE f == IF ir.f3 = 1 THEN Fill(q) ELSE 0
  <2>1. I!Width[n] = 2 /\ n = IF ir.f3 = 1 THEN "lh" ELSE "lhu"
    BY <1>7, LoadWidth
  <2>2. v = p + ByteSpan * q + ByteSpan * ByteSpan * (f + ByteSpan * f)
    <3>1. CASE ir.f3 = 1
      BY <1>1, <1>3, <3>1, SignedHalfIs DEF Loaded
    <3>2. CASE ir.f3 = 5
      BY <1>1, <1>2, <1>3, <3>2 DEF Loaded, Bytes
    <3> QED
      BY <1>7, <3>1, <3>2
  <2>3. f \in Bytes
    BY <1>1, FillType
  <2>4. f = IF n \in {"lb", "lh"} /\ 2 * q >= ByteSpan THEN ByteSpan - 1 ELSE 0
    BY <2>1 DEF Fill
  <2> HIDE DEF v, f
  <2>5. ByteOf(v, 0) = p /\ ByteOf(v, 1) = q /\ ByteOf(v, 2) = f /\ ByteOf(v, 3) = f
    BY <1>1, <2>2, <2>3, FourBytes
  <2>6. host[a + 0] = p /\ host[a + 1] = q /\ a + 2 - 1 = a + 1
    BY <1>1 DEF p, q
  <2> QED
    BY <2>1, <2>4, <2>5, <2>6, <1>4 DEF LongRam!IsLoaded, v
<1> QED
  BY <1>5, <1>6, <1>7, LoadWidth

LEMMA LoadedIs ==
  ASSUME DataType, ir.op = \h03, NEW n \in Names(ir), NEW a, InRam(a), I!InMemory(a, I!Width[n])
  PROVE  I!IsLoaded(n, a, Loaded(ir.f3, a))
<1> DEFINE v == Loaded(ir.f3, a)
           w == I!Width[n]
<1>1. w \in {1, 2, 4} /\ a \in Int
  BY LoadWidth, RamBytes
<1>2. \A k \in 0 .. w - 1 : a + k \in a .. a + w - 1
  BY <1>1
<1>3. \A k \in 0 .. w - 1 : Memory[a + k] = host[a + k]
  BY <1>2 DEF I!InMemory, Memory
<1>4. Memory[a + w - 1] = host[a + w - 1]
  <2>1. a + w - 1 \in a .. a + w - 1
    BY <1>1
  <2> QED
    BY <2>1 DEF I!InMemory, Memory
<1>5. LongRam!IsLoaded(n, a, v)
  BY HostLoaded
<1> HIDE DEF v
<1>6. \A k \in 0 .. 3 : k < w => k \in 0 .. w - 1
  BY <1>1
<1> QED
  BY <1>3, <1>4, <1>5, <1>6, LongWords, IsaWords DEF LongRam!IsLoaded, I!IsLoaded, v

LEMMA LoadIsa ==
  ASSUME ExecTypeOK, ZeroRegister, ir # NoInstr, NEW d \in Ticks, Load(d)
  PROVE  AsIsaSays
<1>0. /\ ir.op = \h03 /\ Address \in Reg /\ Address \in Int
      /\ Address = I!Wrap(gpr[ir.rs1] + ir.imm) /\ DataType
  BY OperandType, IsaWords, SMTT(30) DEF rs1, Address, Load, Reg
<1>1. CASE LoadRam(d)
  <2>1. CASE ir.f3 \in {3, 6, 7} /\ Raise(d, 2, 0)
    BY <1>0, <2>1, AccessNames, IllegalIsa
  <2>2. CASE ir.f3 \in {0, 1, 2, 4, 5} /\ Compute(d, Loaded(ir.f3, Address))
    <3> DEFINE v == Loaded(ir.f3, Address)
    <3>1. InRam(Address) /\ v \in Reg /\ Compute(d, v)
      BY <1>0, <1>1, <2>2, LoadedType DEF LoadRam
    <3>2. PICK n \in Names(ir) : TRUE
      BY <1>0, <2>2, SMTT(30) DEF Names, Mnemonics, Is, IType
    <3>3. n \in {"lb", "lh", "lw", "lbu", "lhu"} /\ n \in DOMAIN I!Width
      BY <1>0, LoadWidth DEF I!Width
    <3>4. ASSUME I!InMemory(Address, I!Width[n]) PROVE I!IsLoaded(n, Address, v)
      BY <1>0, <3>1, <3>4, LoadedIs
    <3> HIDE DEF v
    <3>5. ASSUME I!InMemory(Address, I!Width[n]) PROVE I!LoadStep(ir, n)
      BY <1>0, <3>1, <3>3, <3>4, <3>5, ComputeIs, OnlyRdIs DEF I!LoadStep, I!OnlyRd
    <3>6. CASE I!InMemory(Address, I!Width[n])
      BY <3>5, <3>6, IsaByName DEF I!Does
    <3>7. CASE ~I!InMemory(Address, I!Width[n])
      <4>1. EdgeAccess
        BY <1>0, <3>1, <3>7 DEF EdgeAccess
      <4>2. LongRam!InMemory(Address, LongRam!Width[n])
        BY <1>0, <3>1, LoadWidth, LongMemory, LongWords, SMTT(30)
      <4>3. LongRam!IsLoaded(n, Address, v)
        BY <1>0, <3>1, HostLoaded DEF v
      <4>4. host' = host
        BY <3>1 DEF Compute, Finish
      <4>5. LongRam!LoadStep(ir, n)
        BY <1>0, <3>1, <3>3, <4>2, <4>3, <4>4, ComputeIs, OnlyRdIs, LongWords
           DEF LongRam!LoadStep, LongRam!OnlyRd
      <4> QED
        BY <4>1, <4>5 DEF BehindRam, Divergence, AsIsaSays
    <3> QED
      BY <3>6, <3>7
  <2> QED
    BY <1>1, <2>1, <2>2 DEF LoadRam
<1>2. CASE LoadDevice(d)
  <2>1. NewTimerh(d) \in Reg /\ NewTimerl(d) \in Reg /\ DeviceWords \subseteq Reg
    <3>1. NewTimerh(d) \in Half /\ NewTimerl(d) \in Half
      BY OperandType, PollType
    <3> QED
      BY <3>1, Widths, ExecAssumption
  <2>2. PICK w \in Reg : Compute(d, w)
    BY <1>2, <2>1 DEF LoadDevice
  <2>3. Address \in IoSpace
    BY <1>2 DEF LoadDevice
  <2>4. TakenFor # {}
    BY <1>0, <2>3, NotInRam, TakenSome
  <2>5. ASSUME NEW n \in TakenFor PROVE I!LoadStep(ir, n)
    <3>1. n \in {"lb", "lh", "lw", "lbu", "lhu"}
      BY <1>0, OtherTaken
    <3> QED
      BY <1>0, <2>2, <2>3, <3>1, ComputeIs, OnlyRdIs DEF I!LoadStep, I!OnlyRd
  <2> QED
    BY <2>4, <2>5, IsaByTaken DEF I!Does
<1>3. CASE ~InRam(Address) /\ Address \notin IoSpace /\ Raise(d, 5, Address)
  <2>1. TakenFor # {}
    BY <1>0, <1>3, TakenSome
  <2>2. ASSUME NEW n \in TakenFor PROVE I!LoadStep(ir, n)
    <3>1. n \in {"lb", "lh", "lw", "lbu", "lhu"} /\ I!Width[n] \in {1, 2, 4}
      BY <1>0, OtherTaken DEF I!Width
    <3>2. ~I!InMemory(Address, I!Width[n])
      BY <1>0, <1>3, <3>1, InMemoryIs
    <3>3. I!Trap(I!Cause.load_access, Address)
      <4>1. I!Cause.load_access = 5
        BY IsaEncodings DEF Cause
      <4> QED
        BY <1>3, <4>1, RaiseIsa
    <3> QED
      BY <1>0, <1>3, <3>1, <3>2, <3>3 DEF I!LoadStep
  <2> QED
    BY <2>1, <2>2, IsaByTaken DEF I!Does
<1> QED
  BY <1>1, <1>2, <1>3, SMTT(30) DEF Load

\* A store changes its bytes alone.
LEMMA StoredIs ==
  ASSUME DataType, NEW a, NEW w, NEW v, host' = Stored(host, a, w, v)
  PROVE  I!IsStored(a, w, v)
<1>1. DOMAIN Memory = Ram /\ Ram \subseteq DOMAIN host
  <2>1. Ram = ResetVector .. MemRange - 1 /\ ResetVector \in Int /\ MemRange \in Int
    BY ExecAssumption, Widths
  <2>2. DOMAIN Memory = Ram /\ DOMAIN host = ResetVector .. MemRange + 2
    BY DEF Memory, DataType
  <2> QED
    BY <2>1, <2>2
<1>2. ASSUME NEW c \in Ram
      PROVE  Memory'[c] = IF c \in a .. a + w - 1 THEN ByteOf(v, c - a) ELSE Memory[c]
  BY <1>1, <1>2 DEF Memory, Stored
<1> QED
  BY <1>1, <1>2, IsaWords DEF I!IsStored

LEMMA HostStored ==
  ASSUME NEW a, NEW w, NEW v, host' = Stored(host, a, w, v)
  PROVE  LongRam!IsStored(a, w, v)
  BY LongWords DEF LongRam!IsStored, Stored

\* The control of a store to a device.
LEMMA DeviceElsewhere ==
  ASSUME ExecTypeOK, NEW d, StoreDevice(d), ~(Address = SysconAt /\ rs2 = Span - 1), rs2 \in Reg
  PROVE  gpr' = gpr /\ Memory' = Memory /\ I!Elsewhere /\ pc' = PcPlus(4)
<1>1. gpr' = gpr /\ Memory' = Memory /\ UNCHANGED <<mscratch, mcause, mtval>>
  BY DEF StoreDevice, NoData, dataVars, Memory
<1>2. ASSUME extraflags' = PolledFlags(d), UNCHANGED <<mtvec, mie, mepc, mstatus>> PROVE I!Elsewhere
  <2>1. Slot(extraflags)' = Slot(extraflags) /\ Mode(extraflags)' = Mode(extraflags)
    BY <1>2, FlagsIs
  <2>2. ReservedAddress' = ReservedAddress
    BY <2>1 DEF ReservedAddress
  <2>3. Csrs' = Csrs
    BY <1>1, <1>2 DEF Csrs
  <2> QED
    BY <2>1, <2>2, <2>3 DEF I!Elsewhere
<1>3. CASE /\ Execute(d) /\ Continue(PcPlus(4))
           /\ UNCHANGED <<mtvec, mie, mepc, mstatus>>
  BY <1>1, <1>2, <1>3 DEF Execute, Continue
<1>4. CASE Plain(d, PcPlus(4))
  BY <1>1, <1>4, PlainElsewhere
<1>5. CASE Address = SysconAt /\ Syscon(d, Signed(rs2))
  <2>1. Signed(rs2) # -1
    <3>1. rs2 # Span - 1
      BY <1>5
    <3> QED
      BY <3>1, SignedType, SpanType DEF Reg
  <2> QED
    BY <1>1, <1>2, <1>5, <2>1 DEF Syscon, Execute
<1> QED
  BY <1>3, <1>4, <1>5 DEF StoreDevice

\* SYSCON's word of all ones moves pc twice.
LEMMA SkipIs ==
  ASSUME ExecTypeOK, ir # NoInstr, ir.op = \h23, NEW d, StoreDevice(d),
         Address = SysconAt, rs2 = Span - 1
  PROVE  Skips
<1>1. Syscon(d, Signed(rs2)) /\ UNCHANGED dataVars
  BY ExecAssumption DEF StoreDevice, NoData
<1>2. Signed(rs2) = -1
  BY SpanType DEF Signed
<1>3. /\ extraflags' = PolledFlags(d) /\ UNCHANGED <<mtvec, mie, mepc, mstatus>>
      /\ pc' = PcPlus(8)
  BY <1>1, <1>2 DEF Syscon, Execute, Continue
<1>4. UNCHANGED <<gpr, mscratch, mcause, mtval>> /\ Memory' = Memory
  BY <1>1 DEF dataVars, Memory
<1>5. I!Elsewhere
  <2>1. Slot(extraflags)' = Slot(extraflags) /\ Mode(extraflags)' = Mode(extraflags)
    BY <1>3, FlagsIs
  <2>2. ReservedAddress' = ReservedAddress
    BY <2>1 DEF ReservedAddress
  <2>3. Csrs' = Csrs
    BY <1>3, <1>4 DEF Csrs
  <2> QED
    BY <2>1, <2>2, <2>3 DEF I!Elsewhere
<1>6. PcPlus(8) = Wrap(pc + 8)
  BY OperandType, PcIs
<1> QED
  BY <1>3, <1>4, <1>5, <1>6 DEF Skips

LEMMA StoreIsa ==
  ASSUME ExecTypeOK, ZeroRegister, ir # NoInstr, NEW d \in Ticks, Store(d)
  PROVE  AsIsaSays
<1>0. /\ ir.op = \h23 /\ Address \in Reg /\ Address \in Int
      /\ Address = I!Wrap(gpr[ir.rs1] + ir.imm) /\ DataType
      /\ rs2 \in Reg /\ gpr[ir.rs2] = rs2 /\ PcPlus(4) = I!NextPc
  BY OperandType, PcIs, IsaWords, SMTT(30) DEF rs1, rs2, Address, Store, Reg
<1>1. CASE StoreRam(d)
  <2>1. CASE ir.f3 \notin 0 .. 2 /\ Raise(d, 2, 0)
    <3>1. ir.f3 \notin {0, 1, 2}
      BY <2>1
    <3> QED
      BY <1>0, <2>1, <3>1, AccessNames, IllegalIsa
  <2>2. CASE /\ ir.f3 \in 0 .. 2
             /\ Plain(d, PcPlus(4))
             /\ StoreBytes(Address, StoreWidth(ir.f3), rs2)
             /\ UNCHANGED <<gpr, mscratch, mcause, mtval>>
    <3>1. InRam(Address) /\ ir.f3 \in {0, 1, 2}
      BY <1>1, <2>2 DEF StoreRam
    <3>2. PICK n \in Names(ir) : TRUE
      BY <1>0, <3>1, SMTT(30) DEF Names, Mnemonics, Is, IType
    <3>3. /\ n \in {"sb", "sh", "sw"} /\ n \in DOMAIN I!Width
          /\ I!Width[n] = StoreWidth(ir.f3)
      BY <1>0, StoreWidthIs DEF I!Width
    <3>4. I!IsStored(Address, I!Width[n], rs2)
      BY <1>0, <2>2, <3>3, StoredIs DEF StoreBytes
    <3>5. pc' = PcPlus(4) /\ I!Elsewhere
      BY <2>2, PlainElsewhere
    <3>6. ASSUME I!InMemory(Address, I!Width[n]) PROVE I!StoreStep(ir, n)
      BY <1>0, <2>2, <3>3, <3>4, <3>5, <3>6 DEF I!StoreStep
    <3>7. CASE I!InMemory(Address, I!Width[n])
      BY <3>6, <3>7, IsaByName DEF I!Does
    <3>8. CASE ~I!InMemory(Address, I!Width[n])
      <4>1. EdgeAccess
        BY <1>0, <3>1, <3>8 DEF EdgeAccess
      <4>2. LongRam!InMemory(Address, LongRam!Width[n])
        BY <1>0, <3>1, <3>3, StoreWidthIs, LongMemory, LongWords
      <4>3. LongRam!IsStored(Address, LongRam!Width[n], rs2)
        BY <2>2, <3>3, HostStored, LongWords DEF StoreBytes
      <4>4. LongRam!StoreStep(ir, n)
        BY <1>0, <2>2, <3>3, <3>5, <4>2, <4>3, LongWords DEF LongRam!StoreStep
      <4> QED
        BY <4>1, <4>4 DEF BehindRam, Divergence, AsIsaSays
    <3> QED
      BY <3>7, <3>8
  <2> QED
    BY <1>1, <2>1, <2>2 DEF StoreRam
<1>2. CASE StoreDevice(d)
  <2>1. Address \in IoSpace
    BY <1>2 DEF StoreDevice
  <2>2. TakenFor # {}
    BY <1>0, <2>1, NotInRam, TakenSome
  <2>3. ASSUME NEW n \in TakenFor PROVE AsIsaSays
    <3>1. n \in {"sb", "sh", "sw"}
      BY <1>0, OtherTaken
    <3>2. CASE Address = SysconAt /\ rs2 = Span - 1
      <4>1. Skips
        BY <1>0, <1>2, <3>2, SkipIs
      <4> QED
        BY <4>1 DEF AsIsaSays, Divergence
    <3>3. CASE ~(Address = SysconAt /\ rs2 = Span - 1)
      <4>1. gpr' = gpr /\ Memory' = Memory /\ I!Elsewhere /\ pc' = I!NextPc
        BY <1>0, <1>2, <3>3, DeviceElsewhere
      <4>2. I!StoreStep(ir, n)
        BY <1>0, <2>1, <3>1, <4>1 DEF I!StoreStep
      <4> QED
        BY <4>2, IsaByTaken DEF I!Does
    <3> QED
      BY <3>2, <3>3
  <2> QED
    BY <2>2, <2>3
<1>3. CASE ~InRam(Address) /\ Address \notin IoSpace /\ Raise(d, 7, Address)
  <2>1. TakenFor # {}
    BY <1>0, <1>3, TakenSome
  <2>2. ASSUME NEW n \in TakenFor PROVE I!StoreStep(ir, n)
    <3>1. n \in {"sb", "sh", "sw"} /\ I!Width[n] \in {1, 2, 4}
      BY <1>0, OtherTaken DEF I!Width
    <3>2. ~I!InMemory(Address, I!Width[n])
      BY <1>0, <1>3, <3>1, InMemoryIs
    <3>3. I!Trap(I!Cause.store_access, Address)
      <4>1. I!Cause.store_access = 7
        BY IsaEncodings DEF Cause
      <4> QED
        BY <1>3, <4>1, RaiseIsa
    <3> QED
      BY <1>0, <1>3, <3>1, <3>2, <3>3 DEF I!StoreStep
  <2> QED
    BY <2>1, <2>2, IsaByTaken DEF I!Does
<1> QED
  BY <1>1, <1>2, <1>3, SMTT(30) DEF Store

LEMMA SystemIsa ==
  ASSUME ExecTypeOK, ZeroRegister, ir # NoInstr, NEW d \in Ticks, System(d)
  PROVE  AsIsaSays
<1>0. ir.op = \h73
  BY DEF System
<1>1. CASE ir.f3 = 4 /\ Raise(d, 2, 0)
  BY <1>0, <1>1, OtherNames, IllegalIsa
<1>2. CASE ir.f3 = 0 /\ ir.csr = 0 /\ Raise(d, IF Mode(extraflags) = User THEN 8 ELSE 11, 0)
  <2>1. "ecall" \in Names(ir)
    BY <1>0, <1>2 DEF Names, Mnemonics, Is, PType
  <2>2. I!Cause.machine_ecall = 11 /\ I!Cause.user_ecall = 8
    BY IsaEncodings DEF Cause
  <2>3. I!SystemStep("ecall")
    BY <1>2, <2>2, RaiseIsa DEF I!SystemStep
  <2> QED
    BY <2>1, <2>3, IsaByName DEF I!Does
<1>3. CASE ir.f3 = 0 /\ ir.csr = 1 /\ Raise(d, 3, 0)
  <2>1. "ebreak" \in Names(ir)
    BY <1>0, <1>3 DEF Names, Mnemonics, Is, PType
  <2>2. I!SystemStep("ebreak")
    BY <1>3, RaiseIsa, IsaEncodings DEF I!SystemStep, Cause
  <2> QED
    BY <2>1, <2>2, IsaByName DEF I!Does
<1>4. CASE ir.f3 = 0 /\ ir.csr \notin {0, 1, 3, \h105} /\ ir.csr % 256 # 2 /\ Raise(d, 2, 0)
  <2>1. ir.csr # \h302
    BY <1>4
  <2> QED
    BY <1>0, <1>4, <2>1, OtherNames, IllegalIsa
<1>5. CASE ir.f3 = 0 /\ ir.csr = 3 /\ Halt(d) /\ NoData
  BY <1>0, <1>5, EndedIs DEF StopsHere, Halt, AfterReturn, AsIsaSays, Divergence
<1>6. CASE ir.f3 = 0 /\ ir.csr = \h105 /\ Wfi(d) /\ NoData
  <2>1. "wfi" \in Names(ir)
    BY <1>0, <1>6 DEF Names, Mnemonics, Is, PType
  <2>2. extraflags' = SetWfi(PolledFlags(d)) /\ UNCHANGED <<mtvec, mie, mepc>> /\ pc' = PcPlus(4)
    BY <1>6 DEF Wfi
  <2>3. Slot(SetWfi(PolledFlags(d))) = Slot(PolledFlags(d)) /\ Mode(SetWfi(PolledFlags(d))) = Mode(PolledFlags(d))
    BY DEF SetWfi, Slot, Shr, Mode, ModeBits, WfiBit, Bit
  <2>4. ReservedAddress' = ReservedAddress /\ Mode(extraflags)' = Mode(extraflags)
    BY <2>2, <2>3, FlagsIs DEF ReservedAddress
  <2>5. gpr' = gpr /\ Memory' = Memory /\ \A c \in DOMAIN Csrs \ {"mstatus"} : Csrs'[c] = Csrs[c]
    BY <1>6, <2>2 DEF NoData, dataVars, Memory, Csrs
  <2>6. pc' = I!NextPc
    BY <2>2, PcIs, OperandType
  <2>7. I!SystemStep("wfi")
    BY <2>4, <2>5, <2>6 DEF I!SystemStep
  <2> QED
    BY <2>1, <2>7, IsaByName DEF I!Does
<1>7. CASE ir.f3 = 0 /\ ir.csr % 256 = 2 /\ Mret(d) /\ NoData
  <2>1. PICK n \in TakenFor : TRUE
    BY <1>0, <1>7, TakenSome
  <2>2. n = "mret"
    <3>1. ir.csr \notin {0, 1, \h105}
      BY <1>7
    <3>2. CASE n \in Names(ir)
      BY <1>0, <1>7, <3>1, <3>2, OtherNames
    <3>3. CASE n \in Names(Nearest)
      <4>1. Nearest.op = \h73 /\ Nearest.f3 = 0 /\ Nearest.csr = \h302
        BY <1>0, <1>7, NearestIs
      <4> QED
        BY <3>3, <4>1, OtherNames
    <3> QED
      BY <3>2, <3>3, TakenIs
  <2>3. extraflags' = ReturnMode(PolledFlags(d), mstatus) /\ UNCHANGED <<mtvec, mie, mepc>> /\ pc' = mepc
    BY <1>7 DEF Mret, Continue
  <2>4. Slot(ReturnMode(PolledFlags(d), mstatus)) = Slot(PolledFlags(d))
    BY DEF ReturnMode, Slot, Shr, ModeBits, Bit
  <2>5. ReservedAddress' = ReservedAddress
    BY <2>3, <2>4, FlagsIs DEF ReservedAddress
  <2>6. gpr' = gpr /\ Memory' = Memory /\ \A c \in DOMAIN Csrs \ {"mstatus"} : Csrs'[c] = Csrs[c]
    BY <1>7, <2>3 DEF NoData, dataVars, Memory, Csrs
  <2>7. Csrs.mepc = mepc
    BY DEF Csrs
  <2>8. I!SystemStep(n)
    BY <2>2, <2>3, <2>5, <2>6, <2>7 DEF I!SystemStep
  <2> QED
    BY <2>8, IsaByTaken DEF I!Does
<1> QED
  BY <1>1, <1>2, <1>3, <1>4, <1>5, <1>6, <1>7 DEF System, SystemTrap

\* CSR instructions: the name, what is read and what is written.
LEMMA CsrNames ==
  ASSUME ir.op = \h73, ir.f3 \in {1, 2, 3, 5, 6, 7}
  PROVE  \E n \in Names(ir) :
           <<ir.f3, n>> \in {<<1, "csrrw">>, <<2, "csrrs">>, <<3, "csrrc">>,
                             <<5, "csrrwi">>, <<6, "csrrsi">>, <<7, "csrrci">>}
<1> DEFINE n == CASE ir.f3 = 1 -> "csrrw" [] ir.f3 = 2 -> "csrrs" [] ir.f3 = 3 -> "csrrc"
                  [] ir.f3 = 5 -> "csrrwi" [] ir.f3 = 6 -> "csrrsi" [] ir.f3 = 7 -> "csrrci"
<1>1. n \in Mnemonics /\ Is(ir, n)
  BY DEF Mnemonics, Is, IType
<1>2. <<ir.f3, n>> \in {<<1, "csrrw">>, <<2, "csrrs">>, <<3, "csrrc">>,
                        <<5, "csrrwi">>, <<6, "csrrsi">>, <<7, "csrrci">>}
  OBVIOUS
<1> QED
  BY <1>1, <1>2 DEF Names

LEMMA CsrFields ==
  ASSUME NEW d, NEW w, WriteControl(d, w) \/ WriteData(d, w)
  PROVE  /\ mstatus' = IF ir.csr = \h300 THEN w ELSE mstatus
         /\ mie' = IF ir.csr = \h304 THEN w ELSE mie
         /\ mtvec' = IF ir.csr = \h305 THEN Number(w) ELSE mtvec
         /\ mscratch' = IF ir.csr = \h340 THEN Number(w) ELSE mscratch
         /\ mepc' = IF ir.csr = \h341 THEN Number(w) ELSE mepc
         /\ mcause' = IF ir.csr = \h342 THEN Number(w) ELSE mcause
         /\ mtval' = IF ir.csr = \h343 THEN Number(w) ELSE mtval
         /\ pc' = PcPlus(4) /\ extraflags' = PolledFlags(d)
<1>1. CASE WriteControl(d, w)
  BY <1>1 DEF WriteControl, CsrNo, StoreStatus, StoreMie, StorePending, WriteTvec, WriteEpc, Execute, Continue
<1>2. CASE WriteData(d, w)
  BY <1>2 DEF WriteData, CsrNo, Plain, Execute, Continue
<1> QED
  BY <1>1, <1>2

LEMMA CsrOld ==
  ASSUME NEW d, NEW old \in CsrReads(d)
  PROVE  /\ ir.csr = \h300 => old = mstatus
         /\ ir.csr = \h304 => old = mie
         /\ ir.csr = \h305 => old = Bits(mtvec)
         /\ ir.csr = \h340 => old = Bits(mscratch)
         /\ ir.csr = \h341 => old = Bits(mepc)
         /\ ir.csr = \h342 => old = Bits(mcause)
         /\ ir.csr = \h343 => old = Bits(mtval)
  BY DEF CsrReads, CsrNo

\* The CSR is the word of the bits that were read, and after the step that of
\* the bits that were written.
LEMMA CsrWords ==
  ASSUME ExecTypeOK, ir # NoInstr, ir.f3 \in {1, 2, 3, 5, 6, 7}, NEW d, NEW old \in CsrReads(d),
         WriteControl(d, CsrWritten(old)) \/ WriteData(d, CsrWritten(old)),
         NEW c \in DOMAIN Csrs
  PROVE  /\ ir.csr = CsrNumber[c] => /\ Csrs[c] = Number(old)
                                     /\ Bits(Csrs'[c]) = CsrWritten(Bits(Csrs[c]))
         /\ ir.csr # CsrNumber[c] => Csrs'[c] = Csrs[c]
<1> DEFINE X == 0 .. XLEN - 1
           w == CsrWritten(old)
<1>1. CsrOperand \subseteq X
  <2>1. rs1 \in Reg /\ ir.rs1 \in Reg
    BY OperandType, Widths
  <2> QED
    BY <2>1, BitsAre DEF CsrOperand
<1>2. w \cap X = CsrWritten(old \cap X)
  BY <1>1 DEF CsrWritten
<1>3. Bits(Number(w)) = w \cap X /\ Bits(Number(old)) = old \cap X
  BY BitsNumber
<1>4. c \in {"mstatus", "mie", "mtvec", "mscratch", "mepc", "mcause", "mtval"}
  BY DEF Csrs
<1>5. /\ mtvec = Number(Bits(mtvec)) /\ mscratch = Number(Bits(mscratch)) /\ mepc = Number(Bits(mepc))
      /\ mcause = Number(Bits(mcause)) /\ mtval = Number(Bits(mtval))
  <2>1. mtvec \in Reg /\ mepc \in Reg /\ mscratch \in Reg /\ mcause \in Reg /\ mtval \in Reg
    BY OperandType, Widths DEF TypeOK, DataType
  <2> QED
    BY <2>1, NumberBits
<1> HIDE DEF w
<1>6. ASSUME ir.csr = CsrNumber[c] PROVE Csrs[c] = Number(old) /\ Csrs'[c] = Number(w)
  <2>1. CASE c \in {"mstatus", "mie", "mtvec"}
    BY <1>5, <1>6, <2>1, CsrFields, CsrOld DEF Csrs, CsrNumber, w
  <2>2. CASE c \in {"mscratch", "mepc", "mcause", "mtval"}
    BY <1>5, <1>6, <2>2, CsrFields, CsrOld DEF Csrs, CsrNumber, w
  <2> QED
    BY <1>4, <2>1, <2>2
<1>7. ASSUME ir.csr # CsrNumber[c] PROVE Csrs'[c] = Csrs[c]
  BY <1>4, <1>7, CsrFields DEF Csrs, CsrNumber
<1> QED
  BY <1>2, <1>3, <1>6, <1>7 DEF w

LEMMA ZicsrIsa ==
  ASSUME ExecTypeOK, ZeroRegister, ir # NoInstr, NEW d \in Ticks, Zicsr(d)
  PROVE  AsIsaSays
<1>0. ir.op = \h73 /\ ir.f3 \in {1, 2, 3, 5, 6, 7}
  BY DEF Zicsr
<1>1. CASE ir.csr = CsrNo.print /\ WildAccess(d) /\ NoData
  BY <1>0, <1>1, EndedIs DEF Dies, WildAccess, AsIsaSays, Divergence
<1>2. ASSUME NEW old \in CsrReads(d),
             WriteControl(d, CsrWritten(old)) \/ WriteData(d, CsrWritten(old)),
             WriteBack(Number(old)), UNCHANGED host
      PROVE  AsIsaSays
  <2>1. PICK n \in Names(ir) :
               <<ir.f3, n>> \in {<<1, "csrrw">>, <<2, "csrrs">>, <<3, "csrrc">>,
                                 <<5, "csrrwi">>, <<6, "csrrsi">>, <<7, "csrrci">>}
    BY <1>0, CsrNames
  <2>2. I!Bits(IF n \in {"csrrwi", "csrrsi", "csrrci"} THEN ir.rs1 ELSE gpr[ir.rs1]) = CsrOperand
    BY <2>1, IsaWords DEF CsrOperand, rs1
  <2>3. \A o : CsrWritten(o) = CASE n \in {"csrrw", "csrrwi"} -> CsrOperand
                                 [] n \in {"csrrs", "csrrsi"} -> o \cup CsrOperand
                                 [] n \in {"csrrc", "csrrci"} -> o \ CsrOperand
    BY <2>1 DEF CsrWritten
  <2>4. Number(old) \in Reg
    BY BitsNumber
  <2>5. \A c \in DOMAIN Csrs :
          /\ ir.csr = I!CsrNumber[c] => /\ Csrs[c] = Number(old)
                                        /\ I!Bits(Csrs'[c]) = CsrWritten(I!Bits(Csrs[c]))
          /\ ir.csr # I!CsrNumber[c] => Csrs'[c] = Csrs[c]
    BY <1>0, <1>2, CsrWords, IsaWords, IsaEncodings
  <2>6. pc' = I!NextPc /\ extraflags' = PolledFlags(d)
    BY <1>2, CsrFields, PcIs, OperandType
  <2>7. ReservedAddress' = ReservedAddress /\ Mode(extraflags)' = Mode(extraflags)
    BY <2>6, FlagsIs DEF ReservedAddress
  <2>8. Memory' = Memory
    BY <1>2 DEF Memory
  <2>9. n \in I!CsrForms
    BY <2>1 DEF I!CsrForms
  <2>10. I!OnlyRd(ir, LAMBDA r : \A c \in DOMAIN Csrs : ir.csr = I!CsrNumber[c] => r = Csrs[c])
    BY <1>2, <2>4, <2>5, OnlyRdIs DEF I!OnlyRd
  <2>11. I!CsrStep(ir, n)
    BY <2>2, <2>3, <2>5, <2>6, <2>7, <2>8, <2>9, <2>10, Zenon DEF I!CsrStep
  <2> QED
    BY <2>11, IsaByName DEF I!Does
<1> QED
  BY <1>1, <1>2 DEF Zicsr

\* RAM is small enough for the slot to stand for an address.
LEMMA AddressOfIs ==
  /\ \A a \in Ram : SlotOf(a) \in DOMAIN AddressOf /\ AddressOf[SlotOf(a)] = a
  /\ \A s \in DOMAIN AddressOf : AddressOf[s] \in Ram /\ SlotOf(AddressOf[s]) = s
<1> DEFINE S == {SlotOf(a) : a \in Ram}
<1>1. DOMAIN AddressOf = S
  BY DEF AddressOf
<1>2. ASSUME NEW s \in S PROVE AddressOf[s] \in Ram /\ SlotOf(AddressOf[s]) = s
  <2>1. \E a \in Ram : SlotOf(a) = s
    OBVIOUS
  <2>2. AddressOf[s] = CHOOSE a \in Ram : SlotOf(a) = s
    BY DEF AddressOf
  <2> QED
    BY <2>1, <2>2
<1>3. ASSUME NEW a \in Ram PROVE AddressOf[SlotOf(a)] = a
  <2>1. AddressOf[SlotOf(a)] \in Ram /\ SlotOf(AddressOf[SlotOf(a)]) = SlotOf(a)
    BY <1>2
  <2> QED
    BY <2>1, RamFitsSlot
<1> QED
  BY <1>1, <1>2, <1>3

\* LR.W reserves its address, and SC.W succeeds if that is its own.
LEMMA ReserveIs ==
  ASSUME NEW d, NEW a \in Ram
  PROVE  /\ Slot(Reserve(PolledFlags(d), Bits(a))) = SlotOf(a)
         /\ Bits(a) \subseteq Nat => Mode(Reserve(PolledFlags(d), Bits(a))) = Mode(extraflags)
<1>1. Slot(Reserve(PolledFlags(d), Bits(a))) = SlotOf(a)
  BY DEF Slot, Shr, Reserve, Shl, SlotOf, FlagBits, Bit
<1>2. ASSUME Bits(a) \subseteq Nat
      PROVE  Mode(Reserve(PolledFlags(d), Bits(a))) = Mode(PolledFlags(d))
  BY <1>2 DEF Mode, Reserve, Shl, FlagBits, ModeBits, Bit
<1> QED
  BY <1>1, <1>2, FlagsIs

LEMMA MatchIs ==
  ASSUME NEW d, NEW a \in Ram
  PROVE  SlotMatches(PolledFlags(d), Bits(a)) <=> ReservedAddress = a
<1>1. SlotMatches(PolledFlags(d), Bits(a)) <=> Slot(extraflags) = SlotOf(a)
  BY FlagsIs DEF SlotMatches, SlotOf
<1>2. MemRange \notin Ram
  BY ExecAssumption, Widths
<1> QED
  BY <1>1, <1>2, AddressOfIs DEF ReservedAddress

\* The word an atomic operation loads.
LEMMA WordIs ==
  ASSUME DataType, NEW a, InRam(a), ~PastRam(a)
  PROVE  /\ Joined(host, a, 4) \in Reg
         /\ I!IsWordAt(a, Joined(host, a, 4))
         /\ I!InMemory(a, 4) /\ a \in Ram
<1> DEFINE v == Joined(host, a, 4)
<1>1. a \in Int /\ a + 0 = a /\ a + 4 - 1 < MemRange
  BY RamBytes, Widths DEF PastRam
<1>2. I!InMemory(a, 4)
  BY <1>1, InMemoryIs
<1>3. /\ host[a] \in Bytes /\ host[a + 1] \in Bytes /\ host[a + 2] \in Bytes /\ host[a + 3] \in Bytes
  BY <1>1, RamBytes
<1>4. v = host[a] + ByteSpan * host[a + 1] + ByteSpan * ByteSpan * (host[a + 2] + ByteSpan * host[a + 3])
  BY <1>1 DEF Joined, HalfWord
<1> HIDE DEF v
<1>5. /\ v \in Reg /\ ByteOf(v, 0) = host[a] /\ ByteOf(v, 1) = host[a + 1]
      /\ ByteOf(v, 2) = host[a + 2] /\ ByteOf(v, 3) = host[a + 3]
  BY <1>3, <1>4, FourBytes
<1>6. /\ Memory[a] = host[a] /\ Memory[a + 1] = host[a + 1]
      /\ Memory[a + 2] = host[a + 2] /\ Memory[a + 3] = host[a + 3] /\ a \in Ram
  <2>1. a \in Ram /\ a + 1 \in Ram /\ a + 2 \in Ram /\ a + 3 \in Ram
    BY <1>1, ExecAssumption, Widths DEF InRam
  <2> QED
    BY <2>1 DEF Memory
<1> QED
  BY <1>1, <1>2, <1>5, <1>6, IsaWords DEF I!IsWordAt, v

LEMMA AtomicIsa ==
  ASSUME ExecTypeOK, ZeroRegister, ir # NoInstr, NEW d \in Ticks, Atomic(d)
  PROVE  AsIsaSays
<1>0. /\ ir.op = \h2F /\ rs1 \in Reg /\ rs1 \in Int /\ rs2 \in Reg /\ DataType
      /\ gpr[ir.rs1] = rs1 /\ gpr[ir.rs2] = rs2 /\ PcPlus(4) = I!NextPc
      /\ 0 \in Reg /\ 1 \in Reg
  <2>1. ir.op = \h2F /\ gpr[ir.rs1] = rs1 /\ gpr[ir.rs2] = rs2
    BY DEF rs1, rs2, Atomic
  <2>2. rs1 \in Reg /\ rs2 \in Reg /\ DataType /\ PcPlus(4) = I!NextPc /\ 0 \in Reg /\ 1 \in Reg
    BY OperandType, PcIs, Widths, SMTT(30)
  <2>3. rs1 \in Int
    BY <2>2 DEF Reg
  <2> QED
    BY <2>1, <2>2, <2>3
<1>1. CASE rs1 < ResetVector /\ WildAccess(d) /\ NoData
  BY <1>0, <1>1, EndedIs DEF Dies, WildAccess, AsIsaSays, Divergence
<1>2. CASE irmid \notin AmoOps \cup {2, 3} /\ InRam(rs1) /\ ~PastRam(rs1) /\ Raise(d, 2, 0)
  <2>1. Names(ir) = {}
    <3>1. SUFFICES ASSUME NEW n \in Names(ir) PROVE FALSE
      OBVIOUS
    <3>2. n \in DOMAIN AType /\ AType[n] = irmid
      BY <1>0, OtherNames DEF irmid
    <3> QED
      BY <1>2, <3>2 DEF AType, AmoOps
  <2> QED
    BY <1>2, <2>1, IllegalIsa
<1>3. CASE PastRam(rs1) /\ Raise(d, 7, rs1)
  <2>1. I!Trap(7, rs1) /\ Cause.store_access = 7 /\ I!Cause.store_access = 7
    BY <1>3, RaiseIsa, IsaEncodings DEF Cause
  <2>2. CASE irmid = 2 \/ irmid \notin AmoOps \cup {2, 3}
    BY <1>0, <1>3, <2>1, <2>2 DEF AtomicFault, AsIsaSays, Divergence
  <2>3. CASE irmid # 2 /\ irmid \in AmoOps \cup {2, 3}
    <3>1. PICK n \in TakenFor : TRUE
      BY <1>0, <2>3, TakenSome
    <3>2. n \in DOMAIN AType /\ AType[n] = irmid /\ n \in DOMAIN I!AType
      BY <1>0, OtherTaken, IsaEncodings
    <3>3. n # "lr_w"
      BY <2>3, <3>2 DEF AType
    <3>4. ~I!InMemory(rs1, 4)
      BY <1>0, <1>3, InMemoryIs, Widths DEF PastRam
    <3>5. I!AtomicStep(ir, n)
      BY <1>0, <2>1, <3>2, <3>3, <3>4 DEF I!AtomicStep
    <3> QED
      BY <3>5, IsaByTaken DEF I!Does
  <2> QED
    BY <2>2, <2>3
<1>4. CASE InRam(rs1) /\ ~PastRam(rs1) /\ (Reserving(d) \/ Conditional(d) \/ ReadModifyWrite(d))
  <2> DEFINE v == Joined(host, rs1, 4)
  <2>1. /\ v \in Reg /\ I!IsWordAt(rs1, v) /\ I!InMemory(rs1, 4) /\ rs1 \in Ram
    BY <1>0, <1>4, WordIs
  <2>2. PICK n \in TakenFor : TRUE
    BY <1>0, <1>4, TakenSome DEF Reserving, Conditional, ReadModifyWrite
  <2>3. n \in DOMAIN AType /\ AType[n] = irmid /\ n \in DOMAIN I!AType
    BY <1>0, OtherTaken, IsaEncodings
  <2>4. ASSUME I!LoadReserved(ir, n) \/ I!ReadModifyWrite(ir, n) PROVE AsIsaSays
    <3>1. CASE rs1 % 4 = 0
      <4>1. I!AtomicStep(ir, n)
        BY <1>0, <2>4, <3>1 DEF I!AtomicStep
      <4> QED
        BY <4>1, IsaByTaken DEF I!Does
    <3>2. CASE rs1 % 4 # 0
      BY <2>4, <3>2 DEF Misaligned, AsIsaSays, Divergence
    <3> QED
      BY <3>1, <3>2
  <2>5. CASE Reserving(d)
    <3>1. n = "lr_w"
      BY <2>3, <2>5 DEF Reserving, AType
    <3>2. /\ extraflags' = Reserve(PolledFlags(d), Bits(rs1)) /\ pc' = PcPlus(4)
          /\ WriteBack(v) /\ UNCHANGED <<host, mscratch, mcause, mtval, mtvec, mie, mepc, mstatus>>
      BY <2>5 DEF Reserving, LoadReserved, Continue
    <3>3. Mode(extraflags)' = Mode(extraflags) /\ Slot(extraflags') = SlotOf(rs1)
      <4>1. Bits(rs1) \subseteq Nat
        BY <1>0, BitsAre, Sizes
      <4> QED
        BY <2>1, <3>2, <4>1, ReserveIs
    <3>4. ReservedAddress' = rs1
      BY <2>1, <3>3, AddressOfIs DEF ReservedAddress
    <3>5. Csrs' = Csrs /\ Memory' = Memory
      BY <3>2 DEF Csrs, Memory
    <3> HIDE DEF v
    <3>6. I!LoadReserved(ir, n)
      BY <1>0, <2>1, <3>1, <3>2, <3>3, <3>4, <3>5, OnlyRdIs DEF I!LoadReserved, I!OnlyRd
    <3> QED
      BY <2>4, <3>6
  <2>6. CASE Conditional(d)
    <3>1. n = "sc_w"
      BY <2>3, <2>6 DEF Conditional, AType
    <3>2. Plain(d, PcPlus(4)) /\ UNCHANGED <<mscratch, mcause, mtval>>
      BY <2>6 DEF Conditional
    <3>3. pc' = I!NextPc /\ I!Elsewhere
      BY <1>0, <3>2, PlainElsewhere
    <3>4. CASE ReservedAddress = rs1
      <4>1. WriteBack(0) /\ host' = Stored(host, rs1, 4, rs2)
        BY <2>1, <2>6, <3>4, MatchIs DEF Conditional, StoreBytes, Truth
      <4>2. I!IsStored(rs1, 4, rs2)
        BY <1>0, <4>1, StoredIs
      <4> QED
        BY <1>0, <2>1, <3>1, <3>3, <3>4, <4>1, <4>2, OnlyRdIs
          DEF I!StoreConditional, I!OnlyRd, I!Elsewhere, StaleReservation, AsIsaSays, Divergence
    <3>5. CASE ReservedAddress # rs1
      <4>1. WriteBack(1) /\ host' = host
        BY <2>1, <2>6, <3>5, MatchIs DEF Conditional, Truth
      <4>2. Memory' = Memory
        BY <4>1 DEF Memory
      <4> QED
        BY <1>0, <2>1, <3>1, <3>3, <3>5, <4>1, <4>2, OnlyRdIs
          DEF I!StoreConditional, I!OnlyRd, I!Elsewhere, StaleReservation, AsIsaSays, Divergence
    <3> QED
      BY <3>4, <3>5
  <2>7. CASE ReadModifyWrite(d)
    <3>1. n \in DOMAIN I!AType \ {"lr_w", "sc_w"} /\ n \in DOMAIN AType \ {"lr_w", "sc_w"}
      BY <2>3, <2>7 DEF ReadModifyWrite, AType, AmoOps
    <3>2. Plain(d, PcPlus(4)) /\ UNCHANGED <<mscratch, mcause, mtval>> /\ irmid \in AmoOps
      BY <2>7 DEF ReadModifyWrite
    <3>3. pc' = I!NextPc /\ I!Elsewhere
      BY <1>0, <3>2, PlainElsewhere
    <3> DEFINE w == AmoResult(irmid, v, rs2)
    <3>4. w \in Reg /\ I!Means(n, v, rs2, w)
      <4>1. w \in Reg
        BY <1>0, <2>1, <3>2, AmoResultType
      <4>2. I!Means(n, v, rs2, w)
        BY <1>0, <2>1, <2>3, <3>1, AmoMeans
      <4> QED
        BY <4>1, <4>2
    <3>5. WriteBack(v) /\ host' = Stored(host, rs1, 4, w)
      BY <2>7 DEF ReadModifyWrite, StoreBytes
    <3> HIDE DEF w, v
    <3>6. I!IsStored(rs1, 4, w)
      BY <1>0, <3>5, StoredIs
    <3>7. I!OnlyRd(ir, LAMBDA r : I!IsWordAt(rs1, r))
      BY <2>1, <3>5, OnlyRdIs DEF I!OnlyRd
    <3>8. \E old \in I!Reg :
             /\ I!IsWordAt(rs1, old)
             /\ \E new \in I!Reg : I!Means(n, old, rs2, new) /\ I!IsStored(rs1, 4, new)
      BY <2>1, <3>4, <3>6, IsaWords
    <3>9. I!ReadModifyWrite(ir, n)
      BY <1>0, <2>1, <3>1, <3>3, <3>7, <3>8 DEF I!ReadModifyWrite
    <3> QED
      BY <2>4, <3>9
  <2> QED
    BY <1>4, <2>5, <2>6, <2>7
<1> QED
  BY <1>1, <1>2, <1>3, <1>4 DEF Atomic

\* Every opcode.
LEMMA DecodeIsa ==
  ASSUME ExecTypeOK, ZeroRegister, ir # NoInstr, NEW d \in Ticks, Decode(d)
  PROVE  AsIsaSays
  BY UpperIsa, JumpIsa, BranchIsa, LoadIsa, StoreIsa, OperationIsa, FenceIsa, ZicsrIsa, SystemIsa,
     AtomicIsa, UnknownIsa DEF Decode

LEMMA ExecutesIsaStep ==
  ASSUME ExecTypeOK, ShapeInv, ExecNext, ir # NoInstr
  PROVE  I!IsaStep(ir) \/ Divergence
<1>1. DecodeRun
  BY DEF ExecNext, Fetch, LoseFetch
<1>2. PICK d \in Ticks : TakeInterrupt(d) \/ Decode(d)
  BY <1>1 DEF DecodeRun
<1> QED
  BY <1>2, InterruptIsa, DecodeIsa DEF AsIsaSays, ShapeInv

\* Every step does what the instruction set says of the fetched instruction, or
\* takes the interrupt, or does exactly what one of the divergences says.
THEOREM ExecutesIsaHolds == ExecSpec => ExecutesIsa
<1>1. ExecTypeOK /\ ShapeInv /\ [ExecNext]_execVars
        => [ir # NoInstr => I!IsaStep(ir) \/ Divergence]_execVars
  BY ExecutesIsaStep
<1> QED
  BY <1>1, ExecInitType, ExecNextType, ShapeInit, ShapeNext, PTL DEF ExecSpec, ExecutesIsa

-----------------------------------------------------------------------------
(* The control.  Hart lets the guest choose the operation, the target, the *)
(* address and the value of every step; here the fetched instruction and   *)
(* the registers decide them.  Whatever they decide is a choice of Hart's, *)
(* where nothing limits those choices, so that what Hart's steps do to the *)
(* flags and to the timer is also what the data path does to them.         *)

ArbitraryGuest ==
  /\ Targets = Addr /\ Vectors = Addr
  /\ StatusOperands = Word /\ ReservedAddrs = Word /\ IrqWords = Word
  /\ MatchWords = Half
  /\ SysconValues = Int

\* One iteration of Hart.
Iteration(d) == Trap(d) \/ Mret(d) \/ ChangeContext(d) \/ Neutral(d)

LEMMA PlainControl ==
  ASSUME ArbitraryGuest, TypeOK', NEW d, NEW a, Plain(d, a)
  PROVE  Iteration(d)
<1>1. a \in Targets
  BY DEF Plain, Continue, TypeOK, ArbitraryGuest
<1> QED
  BY <1>1 DEF Iteration, Neutral

LEMMA RaiseControl == ASSUME NEW d, NEW c, NEW a, Raise(d, c, a) PROVE Iteration(d)
  BY DEF Raise, Iteration, Trap

LEMMA StopControl == ASSUME NEW d, Halt(d) \/ WildAccess(d) PROVE Iteration(d)
  BY DEF Iteration, Neutral

LEMMA ComputeControl ==
  ASSUME ArbitraryGuest, TypeOK', NEW d, NEW v, NEW t, Finish(d, v, t) \/ Compute(d, v)
  PROVE  Iteration(d)
  BY PlainControl DEF Compute, Finish

\* The CSRs that Hart keeps: the value written is one of those it allows.
LEMMA CsrControl ==
  ASSUME ArbitraryGuest, TypeOK', NEW d, NEW w, WriteControl(d, w)
  PROVE  Iteration(d)
<1>1. ASSUME StoreStatus(d, w) PROVE WriteStatus(d)
  BY <1>1 DEF StoreStatus, WriteStatus, CsrResults, TypeOK, ArbitraryGuest
<1>2. ASSUME StoreMie(d, w) PROVE WriteMie(d)
  BY <1>2 DEF StoreMie, WriteMie, CsrResults, TypeOK, ArbitraryGuest
<1>3. ASSUME StorePending(d, w) PROVE WriteMip(d)
  BY <1>3 DEF StorePending, StoreMip, WriteMip, CsrResults, TypeOK, ClintTypeOK, ArbitraryGuest
<1>4. ASSUME WriteTvec(d, Number(w)) PROVE Number(w) \in Vectors
  BY <1>4 DEF WriteTvec, TypeOK, ArbitraryGuest
<1>5. ASSUME WriteEpc(d, Number(w)) PROVE Number(w) \in Targets
  BY <1>5 DEF WriteEpc, TypeOK, ArbitraryGuest
<1> QED
  BY <1>1, <1>2, <1>3, <1>4, <1>5 DEF WriteControl, Iteration, ChangeContext, Neutral

\* A store to a device register.
LEMMA DeviceControl ==
  ASSUME ArbitraryGuest, ExecTypeOK, TypeOK', ir # NoInstr, NEW d, StoreDevice(d)
  PROVE  Iteration(d)
<1>1. CASE WriteMatch(d, rs2)
  <2>1. rs2 \in MatchWords
    BY OperandType, Widths DEF ArbitraryGuest
  <2> QED
    BY <1>1, <2>1 DEF Iteration, Neutral
<1>2. CASE Syscon(d, Signed(rs2))
  <2>1. Signed(rs2) \in SysconValues
    BY OperandType, SpanType DEF Signed, Reg, ArbitraryGuest
  <2> QED
    BY <1>2, <2>1 DEF Iteration, Neutral
<1>3. CASE Plain(d, PcPlus(4))
  BY <1>3, PlainControl
<1> QED
  BY <1>1, <1>2, <1>3 DEF StoreDevice, WriteMatch

LEMMA AtomicControl ==
  ASSUME ArbitraryGuest, ExecTypeOK, TypeOK', ir # NoInstr, NEW d, Atomic(d)
  PROVE  Iteration(d)
<1>1. CASE Reserving(d)
  <2>1. Bits(rs1) \in ReservedAddrs
    BY OperandType, BitsAre, Widths DEF ArbitraryGuest
  <2> QED
    BY <1>1, <2>1 DEF Reserving, Iteration, Neutral
<1>2. CASE Conditional(d) \/ ReadModifyWrite(d)
  BY <1>2, PlainControl DEF Conditional, ReadModifyWrite
<1> QED
  BY <1>1, <1>2, RaiseControl, StopControl DEF Atomic

LEMMA DecodeControl ==
  ASSUME ArbitraryGuest, ExecTypeOK, TypeOK', ir # NoInstr, NEW d, Decode(d)
  PROVE  Iteration(d)
<1>1. CASE Lui(d) \/ Auipc(d) \/ Jal(d) \/ Jalr(d) \/ OpImm(d) \/ OpReg(d)
  BY <1>1, ComputeControl DEF Lui, Auipc, Jal, Jalr, OpImm, OpReg
<1>2. CASE Branch(d) \/ Fence(d)
  BY <1>2, PlainControl, RaiseControl DEF Branch, Fence
<1>3. CASE Load(d)
  BY <1>3, ComputeControl, RaiseControl DEF Load, LoadRam, LoadDevice
<1>4. CASE Store(d)
  BY <1>4, PlainControl, RaiseControl, DeviceControl DEF Store, StoreRam
<1>5. CASE Zicsr(d)
  BY <1>5, PlainControl, CsrControl, StopControl DEF Zicsr, WriteData
<1>6. CASE System(d)
  BY <1>6, RaiseControl, StopControl DEF System, SystemTrap, Iteration, ChangeContext
<1>7. CASE UnknownOpcode(d)
  BY <1>7, RaiseControl DEF UnknownOpcode
<1> QED
  BY <1>1, <1>2, <1>3, <1>4, <1>5, <1>6, <1>7, AtomicControl DEF Decode

LEMMA DataPathStep ==
  ASSUME ArbitraryGuest, ExecTypeOK, ExecTypeOK', [ExecNext]_execVars
  PROVE  [Next]_vars
<1>1. CASE DecodeRun
  <2>1. PICK d \in Ticks : Iterating(d) /\ (TakeInterrupt(d) \/ Decode(d))
    BY <1>1 DEF DecodeRun
  <2>2. Iteration(d)
    BY <1>1, <2>1, DecodeControl DEF DecodeRun, TakeInterrupt, Iteration, Trap, ExecTypeOK
  <2> QED
    BY <2>1, <2>2 DEF Iteration, Next, TrapStep, ReturnStep, ContextStep, NeutralStep
<1>2. CASE Fetch \/ LoseFetch \/ UNCHANGED execVars
  BY <1>2 DEF Fetch, LoseFetch, Next, execVars
<1> QED
  BY <1>1, <1>2 DEF ExecNext

\* Every step of the data path is one of Hart's: the decoder never changes the
\* flags, the timer or where the loop is in a way that module Hart leaves out.
THEOREM DataPathIsHart ==
  ASSUME ArbitraryGuest
  PROVE  ExecSpec => [][Next]_vars
  BY DataPathStep, ExecInitType, ExecNextType, PTL DEF ExecSpec

\* So under every program the packed fields of extraflags and mstatus act as
\* the separate ones of Priv,
THEOREM DataPathKeepsFields ==
  ASSUME ArbitraryGuest
  PROVE  ExecSpec => [][Fields!Next]_(Fields!vars)
<1>1. ExecTypeOK /\ ExecTypeOK' /\ [ExecNext]_execVars => [Fields!Next]_(Fields!vars)
  BY DataPathStep, PrivStep DEF ExecTypeOK
<1> QED
  BY <1>1, ExecInitType, ExecNextType, PTL DEF ExecSpec

\* every call of decode_run polls the timer,
THEOREM DataPathPolls ==
  ASSUME ArbitraryGuest
  PROVE  ExecSpec => AlwaysPolled
<1>1. ExecTypeOK /\ ExecTypeOK' /\ [ExecNext]_execVars =>
        [\/ \E d \in Ticks : T64!Poll(d) \/ \E v \in MatchWords : T64!PollAndWrite(d, v)
         \/ MipStep
         \/ FetchOutside \/ CutOff \/ Resume]_vars
  BY DataPathStep, PolledStep DEF ExecTypeOK
<1> QED
  BY <1>1, ExecInitType, ExecNextType, PTL DEF ExecSpec, AlwaysPolled

\* and the timer interrupt is neither late nor early.
THEOREM DataPathOnTime ==
  ASSUME ArbitraryGuest
  PROVE  ExecSpec => InterruptOnTime
<1>1. ExecTypeOK /\ ExecTypeOK' /\ [ExecNext]_execVars =>
        [/\ loop = "running" /\ TimerEnabled /\ PassedNow =>
             \/ mepc' = pc /\ pc' = mtvec /\ Mode(extraflags') = Machine /\ MIE \notin mstatus'
             \/ FetchOutside \/ CutOff
         /\ (\E d \in Ticks : Iterating(d) /\ Interrupt(d)) => PassedNow]_vars
  BY DataPathStep, OnTimeStep DEF ExecTypeOK
<1> QED
  BY <1>1, ExecInitType, ExecNextType, PTL DEF ExecSpec, InterruptOnTime
=============================================================================
