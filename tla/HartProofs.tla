----------------------------- MODULE HartProofs -----------------------------
(***************************************************************************)
(* Proofs about Hart, for every width of the timer halves and of the       *)
(* addresses, every RAM and every choice of operands.                      *)
(***************************************************************************)
EXTENDS Hart, ClintProofs

-----------------------------------------------------------------------------
(* What the masked updates of extraflags and mstatus do to each of the     *)
(* fields packed in them, for every value of the register.                 *)

\* A shift of a word is a word.
LEMMA ShiftType ==
  ASSUME NEW x, NEW k \in Int
  PROVE  Shl(x, k) \in Word /\ Shr(x, k) \in Word
  BY DEF Shl, Shr, Word

\* Every update yields a word (uint32_t arithmetic, decoder.cpp and cpu.cpp).
LEMMA FlagsType ==
  ASSUME NEW f \in Word, NEW s \in Word, NEW a \in Word
  PROVE  /\ EnterMachine(f) \in Word /\ ClearWfi(f) \in Word /\ SetWfi(f) \in Word
         /\ ReturnMode(f, s) \in Word /\ Reserve(f, a) \in Word
         /\ TrapStatus(f, s) \in Word /\ ReturnStatus(f, s) \in Word
<1> USE DEF Word, Bit
<1>1. {MIE} \subseteq Bit /\ {MPIE} \subseteq Bit /\ {WfiBit} \subseteq Bit /\ ModeBits \subseteq Bit
  BY DEF MIE, MPIE, WfiBit, ModeBits
<1>2. EnterMachine(f) \in Word /\ ClearWfi(f) \in Word /\ SetWfi(f) \in Word
  BY <1>1 DEF EnterMachine, ClearWfi, SetWfi
<1>3. ReturnMode(f, s) \in Word
  BY <1>1 DEF ReturnMode
<1>4. Reserve(f, a) \in Word
  BY DEF Reserve, Shl
<1>5. TrapStatus(f, s) \in Word
  BY ShiftType DEF TrapStatus
<1>6. ReturnStatus(f, s) \in Word
  BY <1>1, ShiftType DEF ReturnStatus
<1> QED
  BY <1>2, <1>3, <1>4, <1>5, <1>6

\* The slot is 29 bits wide.
LEMMA SlotType ==
  ASSUME NEW f \in Word
  PROVE  Slot(f) \in SUBSET (0 .. 28)
  BY DEF Slot, Shr, Bit, Word

\* MPP, moved down, is a mode.
LEMMA MppType ==
  ASSUME NEW s
  PROVE  Shr(s \cap MPP, 11) \in SUBSET ModeBits
  BY DEF Shr, Bit, MPP, ModeBits

\* extraflags |= 3 sets the mode and nothing else.
LEMMA EnterMachineFields ==
  ASSUME NEW f \in Word
  PROVE  /\ Mode(EnterMachine(f)) = Machine
         /\ WfiBit \in EnterMachine(f) <=> WfiBit \in f
         /\ Slot(EnterMachine(f)) = Slot(f)
  BY DEF EnterMachine, Mode, Machine, ModeBits, WfiBit, Slot, Shr, Bit

\* extraflags &= ~4 clears the sleep flag and nothing else.
LEMMA ClearWfiFields ==
  ASSUME NEW f \in Word
  PROVE  /\ Mode(ClearWfi(f)) = Mode(f)
         /\ WfiBit \notin ClearWfi(f)
         /\ Slot(ClearWfi(f)) = Slot(f)
  BY DEF ClearWfi, Mode, ModeBits, WfiBit, Slot, Shr, Bit

\* extraflags |= 4 sets the sleep flag and nothing else.
LEMMA SetWfiFields ==
  ASSUME NEW f \in Word
  PROVE  /\ Mode(SetWfi(f)) = Mode(f)
         /\ WfiBit \in SetWfi(f)
         /\ Slot(SetWfi(f)) = Slot(f)
  BY DEF SetWfi, Mode, ModeBits, WfiBit, Slot, Shr, Bit

\* MRET's update takes the mode from MPP and keeps the rest.
LEMMA ReturnModeFields ==
  ASSUME NEW f \in Word, NEW s \in Word
  PROVE  /\ Mode(ReturnMode(f, s)) = Shr(s \cap MPP, 11)
         /\ WfiBit \in ReturnMode(f, s) <=> WfiBit \in f
         /\ Slot(ReturnMode(f, s)) = Slot(f)
<1>1. Mode(ReturnMode(f, s)) = Shr(s \cap MPP, 11)
  BY DEF ReturnMode, Mode, ModeBits, Shr, Bit, MPP
<1>2. WfiBit \in ReturnMode(f, s) <=> WfiBit \in f
  BY DEF ReturnMode, ModeBits, WfiBit
<1>3. Slot(ReturnMode(f, s)) = Slot(f)
  BY DEF ReturnMode, ModeBits, Slot, Shr, Bit
<1> QED
  BY <1>1, <1>2, <1>3

\* LR.W's update replaces the slot and keeps the mode and the sleep flag.
LEMMA ReserveFields ==
  ASSUME NEW f \in Word, NEW a \in Word
  PROVE  /\ Mode(Reserve(f, a)) = Mode(f)
         /\ WfiBit \in Reserve(f, a) <=> WfiBit \in f
         /\ SlotMatches(Reserve(f, a), a)
<1>1. Mode(Reserve(f, a)) = Mode(f)
  BY DEF Reserve, Mode, ModeBits, FlagBits, Shl, Bit, Word
<1>2. WfiBit \in Reserve(f, a) <=> WfiBit \in f
  BY DEF Reserve, WfiBit, FlagBits, Shl, Bit, Word
<1>3. SlotMatches(Reserve(f, a), a)
  BY DEF Reserve, SlotMatches, Slot, FlagBits, Shl, Shr, Bit, Word
<1> QED
  BY <1>1, <1>2, <1>3

\* A trap moves MIE to MPIE and the mode to MPP, and disables interrupts.
LEMMA TrapStatusFields ==
  ASSUME NEW f \in Word, NEW s \in Word
  PROVE  /\ MIE \notin TrapStatus(f, s)
         /\ MPIE \in TrapStatus(f, s) <=> MIE \in s
         /\ Shr(TrapStatus(f, s) \cap MPP, 11) = Mode(f)
<1>1. MIE \notin TrapStatus(f, s)
  BY DEF TrapStatus, MIE, Shl, ModeBits
<1>2. MPIE \in TrapStatus(f, s) <=> MIE \in s
  BY DEF TrapStatus, MIE, MPIE, Shl, Bit, ModeBits
<1>3. Shr(TrapStatus(f, s) \cap MPP, 11) = Mode(f)
  BY DEF TrapStatus, MIE, MPP, Shl, Shr, Bit, ModeBits, Mode
<1> QED
  BY <1>1, <1>2, <1>3

\* MRET moves MPIE to MIE and its own mode to MPP, and sets MPIE.
LEMMA ReturnStatusFields ==
  ASSUME NEW f \in Word, NEW s \in Word
  PROVE  /\ MIE \in ReturnStatus(f, s) <=> MPIE \in s
         /\ MPIE \in ReturnStatus(f, s)
         /\ Shr(ReturnStatus(f, s) \cap MPP, 11) = Mode(f)
<1>1. MIE \in ReturnStatus(f, s) <=> MPIE \in s
  BY DEF ReturnStatus, MIE, MPIE, Shl, Shr, Bit, ModeBits
<1>2. MPIE \in ReturnStatus(f, s)
  BY DEF ReturnStatus
<1>3. Shr(ReturnStatus(f, s) \cap MPP, 11) = Mode(f)
  BY DEF ReturnStatus, MPIE, MPP, Shl, Shr, Bit, ModeBits, Mode
<1> QED
  BY <1>1, <1>2, <1>3

-----------------------------------------------------------------------------
(* Type correctness.                                                       *)

\* The timer block of cpu.cpp:13-23 keeps its registers in their width.
LEMMA PollType ==
  ASSUME TypeOK, NEW d \in Ticks
  PROVE  /\ NewTimerl(d) \in Half /\ NewTimerh(d) \in Half
         /\ PolledMip(d) \in Word /\ PolledFlags(d) \in Word
<1>1. d \in Half /\ timerl \in Half /\ timerh \in Half /\ TSpan \in Nat /\ TSpan > 1
  BY ClintAssumption DEF TypeOK, ClintTypeOK, Half
<1>2. NewTimerl(d) \in Half
  BY <1>1 DEF NewTimerl, Half
<1>3. Carry(d) \in {0, 1}
  BY DEF Carry
<1>4. NewTimerh(d) \in Half
  BY <1>1, <1>3 DEF NewTimerh, Half
<1>5. PolledMip(d) \in Word
  BY DEF PolledMip, TypeOK, ClintTypeOK, MTIP, Word, Bit
<1>6. PolledFlags(d) \in Word
  BY DEF PolledFlags, ClearWfi, TypeOK, Word
<1> QED
  BY <1>2, <1>4, <1>5, <1>6

\* pc stays an address when an instruction moves it (cpu.cpp:72).
LEMMA PcPlusType ==
  ASSUME TypeOK, NEW k \in {4, 8}
  PROVE  PcPlus(k) \in Addr
  BY HartAssumption DEF TypeOK, PcPlus, Addr

\* A CSR instruction leaves a word.
LEMMA CsrType ==
  ASSUME NEW old \in Word, NEW src \in Word
  PROVE  CsrResults(old, src) \subseteq Word
  BY DEF CsrResults, Word

LEMMA InitType == Init => TypeOK
<1> SUFFICES ASSUME Init PROVE TypeOK
  OBVIOUS
<1>1. ClintTypeOK
  BY ClintAssumption DEF Init, ClintInit, ClintTypeOK, Half, Word
<1>2. pc \in Addr /\ mtvec \in Addr /\ mepc \in Addr
  BY HartAssumption DEF Init, Addr
<1>3. mie \in Word /\ mstatus \in Word /\ extraflags \in Word
  BY DEF Init, Word, Bit, EnterMachine, ModeBits
<1> QED
  BY <1>1, <1>2, <1>3 DEF TypeOK, Init, Loop

\* Every kind of step, with any operand of its width, keeps every type.
LEMMA TrapType == ASSUME TypeOK, NEW d \in Ticks, EnterTrap(d) PROVE TypeOK'
<1>1. mstatus' \in Word /\ extraflags' \in Word
  BY FlagsType, PollType DEF EnterTrap, TypeOK
<1> QED
  BY <1>1, PollType DEF EnterTrap, PollTimer, Advance, Continue, AfterReturn, TypeOK, ClintTypeOK, matchVars, Loop

LEMMA MretType == ASSUME TypeOK, NEW d \in Ticks, Mret(d) PROVE TypeOK'
<1>1. mstatus' \in Word /\ extraflags' \in Word
  BY FlagsType, PollType DEF Mret, TypeOK
<1> QED
  BY <1>1, PollType DEF Mret, PollTimer, Advance, Continue, AfterReturn, TypeOK, ClintTypeOK, matchVars, Loop

LEMMA WfiType == ASSUME TypeOK, NEW d \in Ticks, Wfi(d) PROVE TypeOK'
<1>1. mstatus' \in Word /\ extraflags' \in Word
  BY PollType DEF Wfi, SetWfi, TypeOK, Word, Bit, MIE, WfiBit
<1> QED
  BY <1>1, PollType, PcPlusType DEF Wfi, PollTimer, Advance, AfterReturn, TypeOK, ClintTypeOK, matchVars, Loop

LEMMA PlainType == ASSUME TypeOK, NEW d \in Ticks, NEW a \in Addr, Plain(d, a) PROVE TypeOK'
  BY PollType DEF Plain, Execute, PollTimer, Advance, Continue, AfterReturn, TypeOK, ClintTypeOK, matchVars, Loop

LEMMA LoadReservedType ==
  ASSUME TypeOK, NEW d \in Ticks, NEW a \in Word, LoadReserved(d, a)
  PROVE  TypeOK'
<1>1. extraflags' \in Word
  BY FlagsType, PollType DEF LoadReserved, TypeOK
<1> QED
  BY <1>1, PollType, PcPlusType
     DEF LoadReserved, PollTimer, Advance, Continue, AfterReturn, TypeOK, ClintTypeOK, matchVars, Loop

LEMMA StoreStatusType == ASSUME TypeOK, NEW d \in Ticks, NEW w \in Word, StoreStatus(d, w) PROVE TypeOK'
  BY PollType, PcPlusType
     DEF StoreStatus, Execute, PollTimer, Advance, Continue, AfterReturn, TypeOK, ClintTypeOK, matchVars, Loop

LEMMA WriteEpcType == ASSUME TypeOK, NEW d \in Ticks, NEW a \in Addr, WriteEpc(d, a) PROVE TypeOK'
  BY PollType, PcPlusType
     DEF WriteEpc, Execute, PollTimer, Advance, Continue, AfterReturn, TypeOK, ClintTypeOK, matchVars, Loop

LEMMA WriteTvecType == ASSUME TypeOK, NEW d \in Ticks, NEW a \in Addr, WriteTvec(d, a) PROVE TypeOK'
  BY PollType, PcPlusType
     DEF WriteTvec, Execute, PollTimer, Advance, Continue, AfterReturn, TypeOK, ClintTypeOK, matchVars, Loop

LEMMA StoreMieType == ASSUME TypeOK, NEW d \in Ticks, NEW w \in Word, StoreMie(d, w) PROVE TypeOK'
  BY PollType, PcPlusType
     DEF StoreMie, Execute, PollTimer, Advance, Continue, AfterReturn, TypeOK, ClintTypeOK, matchVars, Loop

LEMMA StorePendingType == ASSUME TypeOK, NEW d \in Ticks, NEW w \in Word, StorePending(d, w) PROVE TypeOK'
  BY PollType, PcPlusType
     DEF StorePending, StoreMip, Execute, Advance, Continue, AfterReturn, TypeOK, ClintTypeOK, Loop

LEMMA WriteMatchType == ASSUME TypeOK, NEW d \in Ticks, NEW v \in Half, WriteMatch(d, v) PROVE TypeOK'
  BY PollType, PcPlusType
     DEF WriteMatch, StoreMatchl, StoreMatchh, Execute, Advance, Continue, AfterReturn, TypeOK, ClintTypeOK, Loop

LEMMA SysconType == ASSUME TypeOK, NEW d \in Ticks, NEW v, Syscon(d, v) PROVE TypeOK'
  BY PollType, PcPlusType
     DEF Syscon, Execute, PollTimer, Advance, Continue, AfterReturn, TypeOK, ClintTypeOK, matchVars, Loop

LEMMA StopType == ASSUME TypeOK, NEW d \in Ticks, Halt(d) \/ WildAccess(d) PROVE TypeOK'
  BY PollType
     DEF Halt, WildAccess, Execute, PollTimer, Advance, AfterReturn, TypeOK, ClintTypeOK, matchVars, Loop

\* One instruction, of any kind, or the interrupt keeps every type.
LEMMA IterationType ==
  ASSUME TypeOK, NEW d \in Ticks,
         Trap(d) \/ Mret(d) \/ ChangeContext(d) \/ Neutral(d)
  PROVE  TypeOK'
<1>1. /\ MatchWords \subseteq Half /\ IrqWords \subseteq Word
      /\ Targets \subseteq Addr /\ Vectors \subseteq Addr
      /\ StatusOperands \subseteq Word /\ ReservedAddrs \subseteq Word
      /\ PcPlus(4) \in Addr
  BY ClintAssumption, HartAssumption, PcPlusType DEF Half
<1>2. CASE Trap(d) \/ Mret(d)
  BY <1>2, TrapType, MretType DEF Trap, Interrupt, Exception
<1>3. CASE ChangeContext(d)
  <2>1. CASE WriteStatus(d)
    <3>1. PICK src \in StatusOperands : \E w \in CsrResults(mstatus, src) : StoreStatus(d, w)
      BY <2>1 DEF WriteStatus
    <3>2. CsrResults(mstatus, src) \subseteq Word
      BY <1>1, CsrType DEF TypeOK
    <3> QED
      BY <3>1, <3>2, StoreStatusType
  <2> QED
    BY <1>1, <1>3, <2>1, WfiType, WriteEpcType DEF ChangeContext
<1>4. CASE Neutral(d)
  <2>1. CASE WriteMie(d)
    <3>1. PICK src \in IrqWords : \E w \in CsrResults(mie, src) : StoreMie(d, w)
      BY <2>1 DEF WriteMie
    <3>2. CsrResults(mie, src) \subseteq Word
      BY <1>1, CsrType DEF TypeOK
    <3> QED
      BY <3>1, <3>2, StoreMieType
  <2>2. CASE WriteMip(d)
    <3>1. PICK src \in IrqWords : \E w \in CsrResults(PolledMip(d), src) : StorePending(d, w)
      BY <2>2 DEF WriteMip
    <3>2. CsrResults(PolledMip(d), src) \subseteq Word
      BY <1>1, CsrType, PollType
    <3> QED
      BY <3>1, <3>2, StorePendingType
  <2> QED
    BY <1>1, <1>4, <2>1, <2>2, PlainType, LoadReservedType, WriteTvecType, WriteMatchType, SysconType, StopType
       DEF Neutral
<1> QED
  BY <1>2, <1>3, <1>4

LEMMA NextType == TypeOK /\ [Next]_vars => TypeOK'
<1> SUFFICES ASSUME TypeOK, [Next]_vars PROVE TypeOK'
  OBVIOUS
<1>1. CASE TrapStep \/ ReturnStep \/ ContextStep \/ NeutralStep
  BY <1>1, IterationType DEF TrapStep, ReturnStep, ContextStep, NeutralStep
<1>2. CASE FetchOutside \/ CutOff
  BY <1>2 DEF FetchOutside, CutOff, TypeOK, ClintTypeOK, clintVars, hartVars, Loop
<1>3. CASE Resume
  <2>1. extraflags' \in Word
    BY <1>3, FlagsType DEF Resume, TypeOK
  <2> QED
    BY <1>3, <2>1 DEF Resume, TypeOK, ClintTypeOK, clintVars, Loop
<1>4. CASE UNCHANGED vars
  BY <1>4 DEF vars, TypeOK, ClintTypeOK, clintVars, hartVars
<1> QED
  BY <1>1, <1>2, <1>3, <1>4 DEF Next

\* Every register keeps its width and the loop its states, for every guest.
THEOREM TypeCorrect == Spec => []TypeOK
  BY InitType, NextType, PTL DEF Spec

-----------------------------------------------------------------------------
(* What each step does to the fields packed in extraflags and mstatus.     *)

\* The poll touches the sleep flag only, and only to clear it.
LEMMA PollFields ==
  ASSUME TypeOK, NEW d \in Ticks
  PROVE  /\ PolledFlags(d) \in Word
         /\ Mode(PolledFlags(d)) = Mode(extraflags)
         /\ Slot(PolledFlags(d)) = Slot(extraflags)
         /\ WfiBit \in PolledFlags(d) => WfiBit \in extraflags
  BY PollType, ClearWfiFields DEF PolledFlags, TypeOK

\* An instruction outside ChangeContext, MRET and the traps leaves the mode
\* and the saved context alone.
LEMMA NeutralFields ==
  ASSUME TypeOK, NEW d \in Ticks, Neutral(d)
  PROVE  /\ UNCHANGED <<mepc, mstatus>>
         /\ Mode(extraflags') = Mode(extraflags)
         /\ WfiBit \in extraflags' => WfiBit \in extraflags
<1>1. UNCHANGED <<mepc, mstatus>>
  BY DEF Neutral, Plain, LoadReserved, WriteTvec, WriteMie, StoreMie, WriteMip, StorePending, WriteMatch,
         Syscon, Halt, WildAccess
<1>2. \/ extraflags' = PolledFlags(d)
      \/ \E a \in ReservedAddrs : extraflags' = Reserve(PolledFlags(d), a)
  BY DEF Neutral, Plain, LoadReserved, WriteTvec, WriteMie, StoreMie, WriteMip, StorePending, WriteMatch,
         Syscon, Halt, WildAccess, Execute
<1>3. CASE extraflags' = PolledFlags(d)
  BY <1>1, <1>3, PollFields
<1>4. ASSUME NEW a \in ReservedAddrs, extraflags' = Reserve(PolledFlags(d), a)
      PROVE  /\ Mode(extraflags') = Mode(extraflags)
             /\ WfiBit \in extraflags' => WfiBit \in extraflags
  <2>1. a \in Word
    BY HartAssumption
  <2> QED
    BY <1>4, <2>1, PollFields, ReserveFields
<1> QED
  BY <1>1, <1>2, <1>3, <1>4

-----------------------------------------------------------------------------
(* The packed registers implement the separate fields of module Priv.      *)

\* What a step does to each field, whatever the action was.
LEMMA TrapFields ==
  ASSUME TypeOK, NEW d \in Ticks, Trap(d)
  PROVE  Fields!Trap
<1>1. /\ mstatus' = TrapStatus(extraflags, mstatus)
      /\ extraflags' = EnterMachine(PolledFlags(d))
  BY DEF Trap, Interrupt, Exception, EnterTrap
<1>2. /\ MIE \notin mstatus'
      /\ MPIE \in mstatus' <=> MIE \in mstatus
      /\ Shr(mstatus' \cap MPP, 11) = Mode(extraflags)
  BY <1>1, TrapStatusFields DEF TypeOK
<1>3. /\ Mode(extraflags') = Machine
      /\ Slot(extraflags') = Slot(extraflags)
      /\ WfiBit \in extraflags' => WfiBit \in extraflags
  BY <1>1, PollFields, EnterMachineFields
<1> QED
  BY <1>2, <1>3 DEF Fields!Trap, Fields!MayWake

LEMMA ReturnFields ==
  ASSUME TypeOK, NEW d \in Ticks, Mret(d)
  PROVE  Fields!Return
<1>1. /\ mstatus' = ReturnStatus(extraflags, mstatus)
      /\ extraflags' = ReturnMode(PolledFlags(d), mstatus)
  BY DEF Mret
<1>2. /\ MIE \in mstatus' <=> MPIE \in mstatus
      /\ MPIE \in mstatus'
      /\ Shr(mstatus' \cap MPP, 11) = Mode(extraflags)
  BY <1>1, ReturnStatusFields DEF TypeOK
<1>3. /\ Mode(extraflags') = Shr(mstatus \cap MPP, 11)
      /\ Slot(extraflags') = Slot(extraflags)
      /\ WfiBit \in extraflags' => WfiBit \in extraflags
  BY <1>1, PollFields, ReturnModeFields DEF TypeOK
<1> QED
  BY <1>2, <1>3 DEF Fields!Return, Fields!MayWake

LEMMA WfiFields ==
  ASSUME TypeOK, NEW d \in Ticks, Wfi(d)
  PROVE  Fields!Sleep
<1>1. mstatus' = mstatus \cup {MIE} /\ extraflags' = SetWfi(PolledFlags(d))
  BY DEF Wfi
<1>2. /\ MIE \in mstatus'
      /\ MPIE \in mstatus' <=> MPIE \in mstatus
      /\ mstatus' \cap MPP = mstatus \cap MPP
  BY <1>1 DEF MIE, MPIE, MPP
<1>3. /\ Mode(extraflags') = Mode(extraflags)
      /\ Slot(extraflags') = Slot(extraflags)
      /\ WfiBit \in extraflags'
  BY <1>1, PollFields, SetWfiFields
<1> QED
  BY <1>2, <1>3 DEF Fields!Sleep

LEMMA ContextFields ==
  ASSUME TypeOK, NEW d \in Ticks, ChangeContext(d)
  PROVE  Fields!Next
<1>1. CASE Wfi(d)
  BY <1>1, WfiFields DEF Fields!Next
<1>2. CASE WriteStatus(d) \/ \E a \in Targets : WriteEpc(d, a)
  <2>1. extraflags' = PolledFlags(d)
    BY <1>2 DEF WriteStatus, StoreStatus, WriteEpc, Execute
  <2>2. /\ Mode(extraflags') = Mode(extraflags)
        /\ Slot(extraflags') = Slot(extraflags)
        /\ WfiBit \in extraflags' => WfiBit \in extraflags
    BY <2>1, PollFields
  <2>3. Fields!MayWake
    BY <2>2 DEF Fields!MayWake
  <2>4. Shr(mstatus' \cap MPP, 11) \in SUBSET ModeBits
    BY MppType
  <2>5. (MIE \in mstatus') \in BOOLEAN /\ (MPIE \in mstatus') \in BOOLEAN
    OBVIOUS
  <2> QED
    BY <2>2, <2>3, <2>4, <2>5 DEF Fields!Next, Fields!WriteStatus
<1> QED
  BY <1>1, <1>2 DEF ChangeContext

LEMMA NeutralStepFields ==
  ASSUME TypeOK, NEW d \in Ticks, Neutral(d)
  PROVE  Fields!LoadReserved
<1>1. /\ UNCHANGED mstatus
      /\ Mode(extraflags') = Mode(extraflags)
      /\ WfiBit \in extraflags' => WfiBit \in extraflags
  BY NeutralFields
<1>2. extraflags' \in Word
  BY IterationType DEF TypeOK
<1>3. Slot(extraflags') \in SUBSET (0 .. 28)
  BY <1>2, SlotType
<1> QED
  BY <1>1, <1>3 DEF Fields!LoadReserved, Fields!MayWake

LEMMA ResumeFields ==
  ASSUME TypeOK, Resume
  PROVE  Fields!Restart
<1>1. extraflags' = EnterMachine(extraflags) /\ UNCHANGED mstatus
  BY DEF Resume
<1>2. /\ Mode(extraflags') = Machine
      /\ WfiBit \in extraflags' <=> WfiBit \in extraflags
      /\ Slot(extraflags') = Slot(extraflags)
  BY <1>1, EnterMachineFields DEF TypeOK
<1> QED
  BY <1>1, <1>2 DEF Fields!Restart

\* Every step of the hart is one of Priv, or leaves its fields alone.
LEMMA PrivStep == TypeOK /\ [Next]_vars => [Fields!Next]_(Fields!vars)
<1> SUFFICES ASSUME TypeOK, [Next]_vars PROVE [Fields!Next]_(Fields!vars)
  OBVIOUS
<1>1. CASE TrapStep
  BY <1>1, TrapFields DEF TrapStep, Fields!Next
<1>2. CASE ReturnStep
  BY <1>2, ReturnFields DEF ReturnStep, Fields!Next
<1>3. CASE ContextStep
  BY <1>3, ContextFields DEF ContextStep
<1>4. CASE NeutralStep
  BY <1>4, NeutralStepFields DEF NeutralStep, Fields!Next
<1>5. CASE FetchOutside \/ CutOff
  BY <1>5 DEF FetchOutside, CutOff, hartVars, Fields!vars
<1>6. CASE Resume
  BY <1>6, ResumeFields DEF Fields!Next
<1>7. CASE UNCHANGED vars
  BY <1>7 DEF vars, hartVars, Fields!vars
<1> QED
  BY <1>1, <1>2, <1>3, <1>4, <1>5, <1>6, <1>7 DEF Next

\* A neutral instruction that is not LR.W leaves the flags as the poll left them.
LEMMA NeutralSlot ==
  ASSUME TypeOK, NEW d \in Ticks, Iterating(d), Neutral(d), Slot(extraflags') # Slot(extraflags)
  PROVE  ReserveStep
<1>1. CASE \E a \in ReservedAddrs : LoadReserved(d, a)
  BY <1>1 DEF ReserveStep
<1>2. CASE extraflags' = PolledFlags(d)
  BY <1>2, PollFields
<1> QED
  BY <1>1, <1>2 DEF Neutral, Plain, WriteTvec, WriteMie, StoreMie, WriteMip, StorePending,
                    WriteMatch, Syscon, Halt, WildAccess, Execute

LEMMA SlotStep ==
  ASSUME TypeOK, [Next]_vars, Slot(extraflags') # Slot(extraflags)
  PROVE  ReserveStep
<1>1. CASE TrapStep
  BY <1>1, TrapFields DEF TrapStep, Fields!Trap
<1>2. CASE ReturnStep
  BY <1>2, ReturnFields DEF ReturnStep, Fields!Return
<1>3. CASE ContextStep
  <2>1. PICK d \in Ticks : ChangeContext(d)
    BY <1>3 DEF ContextStep
  <2>2. CASE Wfi(d)
    BY <2>2, WfiFields DEF Fields!Sleep
  <2>3. CASE WriteStatus(d) \/ \E a \in Targets : WriteEpc(d, a)
    BY <2>3, PollFields DEF WriteStatus, StoreStatus, WriteEpc, Execute
  <2> QED
    BY <2>1, <2>2, <2>3 DEF ChangeContext
<1>4. CASE NeutralStep
  BY <1>4, NeutralSlot DEF NeutralStep
<1>5. CASE FetchOutside \/ CutOff \/ UNCHANGED vars
  BY <1>5 DEF FetchOutside, CutOff, hartVars, vars
<1>6. CASE Resume
  BY <1>6, ResumeFields DEF Fields!Restart
<1> QED
  BY <1>1, <1>2, <1>3, <1>4, <1>5, <1>6 DEF Next

\* The hart's packed flags implement the separate fields of Priv, for every
\* guest.
THEOREM PrivImplemented == Spec => ImplementsPriv
<1>1. Init => Fields!Init
  <2> SUFFICES ASSUME Init PROVE Fields!Init
    OBVIOUS
  <2>1. extraflags = Machine /\ mstatus = {}
    BY DEF Init, EnterMachine, Machine
  <2>2. Mode(extraflags) = Machine /\ WfiBit \notin extraflags
    BY <2>1 DEF Machine, Mode, ModeBits, WfiBit
  <2>3. Slot(extraflags) \in SUBSET (0 .. 28)
    BY InitType, SlotType DEF TypeOK
  <2>4. Shr(mstatus \cap MPP, 11) \in SUBSET ModeBits
    BY MppType
  <2> QED
    BY <2>1, <2>2, <2>3, <2>4 DEF Fields!Init
<1> QED
  BY <1>1, PrivStep, TypeCorrect, PTL DEF Spec, ImplementsPriv, Fields!Spec

\* Every step of the hart is the operation of Priv it stands for.
THEOREM OperationsAlwaysImplementPriv == Spec => OperationsImplementPriv
<1>1. TypeOK /\ [Next]_vars =>
        [/\ TrapStep => Fields!Trap
         /\ ReturnStep => Fields!Return
         /\ SleepStep => Fields!Sleep
         /\ NeutralStep => Fields!LoadReserved
         /\ Resume => Fields!Restart
         /\ Slot(extraflags') # Slot(extraflags) => ReserveStep]_vars
  <2> SUFFICES ASSUME TypeOK, [Next]_vars
               PROVE  /\ TrapStep => Fields!Trap
                      /\ ReturnStep => Fields!Return
                      /\ SleepStep => Fields!Sleep
                      /\ NeutralStep => Fields!LoadReserved
                      /\ Resume => Fields!Restart
                      /\ Slot(extraflags') # Slot(extraflags) => ReserveStep
    OBVIOUS
  <2>1. TrapStep => Fields!Trap
    BY TrapFields DEF TrapStep
  <2>2. ReturnStep => Fields!Return
    BY ReturnFields DEF ReturnStep
  <2>3. SleepStep => Fields!Sleep
    BY WfiFields DEF SleepStep
  <2>4. NeutralStep => Fields!LoadReserved
    BY NeutralStepFields DEF NeutralStep
  <2>5. Resume => Fields!Restart
    BY ResumeFields
  <2>6. Slot(extraflags') # Slot(extraflags) => ReserveStep
    BY SlotStep
  <2> QED
    BY <2>1, <2>2, <2>3, <2>4, <2>5, <2>6
<1> QED
  BY <1>1, TypeCorrect, PTL DEF Spec, OperationsImplementPriv

-----------------------------------------------------------------------------
(* The timer under the hart.  Every action begins with the timer block, so *)
(* that each iteration is a step of Clint, and with it of Timer64.         *)

LEMMA IterationPolls ==
  ASSUME TypeOK, NEW d \in Ticks,
         Trap(d) \/ Mret(d) \/ ChangeContext(d) \/ Neutral(d)
  PROVE  \/ T64!Poll(d)
         \/ \E v \in MatchWords : T64!PollAndWrite(d, v)
         \/ WriteMip(d)
<1>1. ClintTypeOK /\ MatchWords \subseteq Half
  BY ClintAssumption DEF TypeOK, Half
<1>2. ASSUME PollTimer(d), UNCHANGED matchVars PROVE T64!Poll(d)
  BY <1>1, <1>2, RunOtherPolls DEF PollTimer, matchVars, RunOther
<1>3. CASE Trap(d)
  BY <1>2, <1>3 DEF Trap, Interrupt, Exception, EnterTrap
<1>4. CASE Mret(d)
  BY <1>2, <1>4 DEF Mret
<1>5. CASE ChangeContext(d)
  BY <1>2, <1>5 DEF ChangeContext, Wfi, WriteStatus, StoreStatus, WriteEpc
<1>6. CASE Neutral(d)
  <2>1. ASSUME NEW v \in MatchWords, WriteMatch(d, v) PROVE T64!PollAndWrite(d, v)
    BY <1>1, <2>1, StoreMatchPolls DEF WriteMatch
  <2> QED
    BY <1>2, <1>6, <2>1
       DEF Neutral, Plain, LoadReserved, WriteTvec, WriteMie, StoreMie, Syscon, Halt, WildAccess
<1> QED
  BY <1>3, <1>4, <1>5, <1>6

LEMMA IterationIsTimer ==
  ASSUME TypeOK, NEW d \in Ticks,
         Trap(d) \/ Mret(d) \/ ChangeContext(d) \/ Neutral(d)
  PROVE  T64!Next
<1>1. ClintTypeOK /\ MatchWords \subseteq Half
  BY ClintAssumption DEF TypeOK, Half
<1>2. ASSUME WriteMip(d) PROVE T64!ForceLine(d)
  BY <1>1, <1>2, StoreMipForces DEF WriteMip, StorePending
<1> QED
  BY <1>1, <1>2, IterationPolls, TimerNext

LEMMA PolledStep ==
  ASSUME TypeOK, Next
  PROVE  \/ \E d \in Ticks : T64!Poll(d) \/ \E v \in MatchWords : T64!PollAndWrite(d, v)
         \/ MipStep
         \/ FetchOutside \/ CutOff \/ Resume
<1>1. ASSUME NEW d \in Ticks, Iterating(d),
             Trap(d) \/ Mret(d) \/ ChangeContext(d) \/ Neutral(d)
      PROVE  \/ T64!Poll(d) \/ \E v \in MatchWords : T64!PollAndWrite(d, v)
             \/ MipStep
  BY <1>1, IterationPolls DEF MipStep
<1> QED
  BY <1>1 DEF Next, TrapStep, ReturnStep, ContextStep, NeutralStep

\* No instruction, trap or end of the loop skips the timer block, for every
\* guest: cpu.cpp:13-23 comes before everything that can return.
THEOREM TimerAlwaysPolled == Spec => AlwaysPolled
  BY PolledStep, TypeCorrect, PTL DEF Spec, AlwaysPolled

\* The hart's timer is the 64-bit timer, whatever the guest executes.
THEOREM HartKeepsTimer64 == Spec => ImplementsTimer64
<1>1. Init => T64!Init
  BY TimerStart DEF Init
<1>2. TypeOK /\ [Next]_vars => [T64!Next]_(T64!vars)
  <2> SUFFICES ASSUME TypeOK, [Next]_vars PROVE [T64!Next]_(T64!vars)
    OBVIOUS
  <2>1. CASE TrapStep \/ ReturnStep \/ ContextStep \/ NeutralStep
    BY <2>1, IterationIsTimer DEF TrapStep, ReturnStep, ContextStep, NeutralStep
  <2>2. CASE FetchOutside \/ CutOff \/ Resume \/ UNCHANGED vars
    BY <2>2 DEF FetchOutside, CutOff, Resume, vars, clintVars, T64!vars
  <2> QED
    BY <2>1, <2>2 DEF Next
<1> QED
  BY <1>1, <1>2, TypeCorrect, PTL DEF Spec, ImplementsTimer64, T64!Spec

-----------------------------------------------------------------------------
(* When the interrupt comes.                                               *)

LEMMA IterationAdvances ==
  ASSUME NEW d, Trap(d) \/ Mret(d) \/ ChangeContext(d) \/ Neutral(d)
  PROVE  Advance(d)
<1>1. ASSUME PollTimer(d) PROVE Advance(d)
  BY <1>1 DEF PollTimer
<1>2. CASE Trap(d) \/ Mret(d) \/ ChangeContext(d)
  BY <1>1, <1>2
     DEF Trap, Interrupt, Exception, EnterTrap, Mret, ChangeContext, Wfi, WriteStatus, StoreStatus, WriteEpc
<1>3. CASE Neutral(d)
  BY <1>1, <1>3
     DEF Neutral, Plain, LoadReserved, WriteTvec, WriteMie, StoreMie, WriteMip, StorePending, StoreMip,
         WriteMatch, StoreMatchl, StoreMatchh, Syscon, Halt, WildAccess
<1> QED
  BY <1>2, <1>3

\* MTIP, as the poll leaves it, says that the 64-bit time has passed.
LEMMA PolledIsPassed ==
  ASSUME TypeOK, NEW d \in Ticks, Advance(d)
  PROVE  MTIP \in PolledMip(d) <=> PassedNow
<1>1. Due(d) <=> T64!Passed(NewTimerh(d) * TSpan + NewTimerl(d), timermatchh * TSpan + timermatchl)
  BY DueIsPassed DEF TypeOK
<1> QED
  BY <1>1 DEF Advance, PassedNow, PolledMip

\* Where the timer is due and enabled, no instruction is executed.
LEMMA InterruptedTraps ==
  ASSUME NEW d, Interrupted(d), Trap(d) \/ Mret(d) \/ ChangeContext(d) \/ Neutral(d)
  PROVE  EnterTrap(d)
<1>1. ~Mret(d) /\ ~ChangeContext(d)
  BY DEF Mret, ChangeContext, Wfi, WriteStatus, StoreStatus, WriteEpc, Execute
<1>2. ~Neutral(d)
  BY DEF Neutral, Plain, LoadReserved, WriteTvec, WriteMie, StoreMie, WriteMip, StorePending, WriteMatch,
         Syscon, Halt, WildAccess, Execute
<1> QED
  BY <1>1, <1>2 DEF Trap, Interrupt, Exception

LEMMA OnTimeStep ==
  ASSUME TypeOK, Next
  PROVE  /\ loop = "running" /\ TimerEnabled /\ PassedNow =>
              \/ mepc' = pc /\ pc' = mtvec /\ Mode(extraflags') = Machine /\ MIE \notin mstatus'
              \/ FetchOutside \/ CutOff
         /\ (\E d \in Ticks : Iterating(d) /\ Interrupt(d)) => PassedNow
<1>1. ASSUME loop = "running", TimerEnabled, PassedNow, NEW d \in Ticks,
             Trap(d) \/ Mret(d) \/ ChangeContext(d) \/ Neutral(d)
      PROVE  mepc' = pc /\ pc' = mtvec /\ Mode(extraflags') = Machine /\ MIE \notin mstatus'
  <2>1. Interrupted(d)
    BY <1>1, IterationAdvances, PolledIsPassed DEF Interrupted, TimerEnabled
  <2>2. EnterTrap(d)
    BY <1>1, <2>1, InterruptedTraps
  <2>3. MIE \notin mstatus'
    BY <2>2, TrapStatusFields DEF EnterTrap, TypeOK
  <2>4. Mode(extraflags') = Machine
    BY <2>2, PollType, EnterMachineFields DEF EnterTrap
  <2> QED
    BY <2>2, <2>3, <2>4 DEF EnterTrap, Continue
<1>2. ASSUME NEW d \in Ticks, Interrupt(d) PROVE PassedNow
  BY <1>2, IterationAdvances, PolledIsPassed DEF Interrupt, Interrupted, Trap
<1>3. ASSUME loop = "running"
      PROVE  \/ \E d \in Ticks : Trap(d) \/ Mret(d) \/ ChangeContext(d) \/ Neutral(d)
             \/ FetchOutside \/ CutOff
  BY <1>3 DEF Next, TrapStep, ReturnStep, ContextStep, NeutralStep, Resume
<1> QED
  BY <1>1, <1>2, <1>3

\* The interrupt is neither late nor early, for every guest: the safety that
\* TimerInterruptDelivered rests on.
THEOREM InterruptAlwaysOnTime == Spec => InterruptOnTime
  BY OnTimeStep, TypeCorrect, PTL DEF Spec, InterruptOnTime
=============================================================================
