----------------------------- MODULE ExtraFlags -----------------------------
(***************************************************************************)
(* riscv32_cpu_state.extraflags packs three unrelated things into one      *)
(* uint32_t: the privilege mode in bits 1..0, "wait for interrupt" in bit  *)
(* 2, and the address an LR.W reserved in bits 31..3.  Each operator below *)
(* is one of the masked updates or tests the decoder makes of it.          *)
(***************************************************************************)
EXTENDS Words

\* The bits of mstatus the simulator uses.
MIE  == 3
MPIE == 7
MPP  == {11, 12}

\* The bits of extraflags.
ModeBits == {0, 1}
WfiBit   == 2
FlagBits == {0, 1, 2}

User    == {}
Machine == ModeBits

Mode(flags) == flags \cap ModeBits

-----------------------------------------------------------------------------
(* Mutated forms, for the runs that show the properties can be violated.   *)

EnterMachineDropsWfiAndSlot(flags) == Machine

ReturnKeepsMode(flags, status) == flags

TrapKeepsEnable(flags, status) ==
  status \cup Shl(status \cap {MIE}, 4) \cup Shl(flags \cap ModeBits, 11)

-----------------------------------------------------------------------------
\* extraflags |= 3
EnterMachine(flags) == flags \cup ModeBits

\* extraflags &= ~4
ClearWfi(flags) == flags \ {WfiBit}

\* extraflags |= 4
SetWfi(flags) == flags \cup {WfiBit}

\* extraflags = (extraflags & ~3) | ((mstatus >> 11) & 3)
ReturnMode(flags, status) ==
  (flags \ ModeBits) \cup (Shr(status, 11) \cap ModeBits)

\* extraflags = (extraflags & 0x07) | (rs1 << 3)
Reserve(flags, addr) == (flags \cap FlagBits) \cup Shl(addr, 3)

\* The slot LR.W reserved: bits 28..0 of its address.
Slot(flags) == Shr(flags, 3)

\* extraflags >> 3 == (rs1 & 0x1fffffff)
SlotMatches(flags, addr) == Slot(flags) = addr \cap (0 .. 28)

\* mstatus on trap entry: MPIE takes MIE, MPP takes the mode, the rest is 0.
TrapStatus(flags, status) ==
  Shl(status \cap {MIE}, 4) \cup Shl(flags \cap ModeBits, 11)

\* mstatus on MRET: MIE takes MPIE, MPP takes the mode MRET ran in, MPIE is 1.
ReturnStatus(flags, status) ==
  Shr(status \cap {MPIE}, 4) \cup Shl(flags \cap ModeBits, 11) \cup {MPIE}
=============================================================================
