-------------------------------- MODULE Hart --------------------------------
(***************************************************************************)
(* The control of the simulated hart: cpu_t::decode_run, with the cases of *)
(* decode::decode_run_without_trap that touch time, privilege, traps or    *)
(* the loop, inside the loop of cpu_t::fetch_decode_exec.                  *)
(*                                                                         *)
(* A step is one iteration of the loop.  It polls the timer (module        *)
(* Clint), then either takes the timer interrupt or executes one           *)
(* instruction.  The guest program is arbitrary, so the instruction and    *)
(* its operands are chosen freely in each step: the general registers and  *)
(* memory, which hold them, and mscratch, mcause and mtval, which only the *)
(* guest reads, are data and not part of this module.                      *)
(***************************************************************************)
EXTENDS Clint, ExtraFlags

CONSTANTS
  AddrSpan,         \* number of addresses (2^32 in the build)
  Ram,              \* the addresses an instruction can be fetched from
  ResetVector,      \* RESET_VECTOR, the first address of Ram
  Targets,          \* code addresses a guest jumps to, or writes to mepc
  Vectors,          \* values a guest writes to mtvec
  StatusOperands,   \* operands of its CSR instructions on mstatus
  ReservedAddrs,    \* addresses it names in LR.W
  SysconValues      \* values it stores to the SYSCON register

Addr == 0 .. AddrSpan - 1

ASSUME HartAssumption ==
  /\ AddrSpan \in Nat
  /\ AddrSpan >= 8
  /\ Ram \subseteq Addr
  /\ ResetVector \in Ram
  /\ Targets \subseteq Addr
  /\ Vectors \subseteq Addr
  /\ StatusOperands \subseteq Word
  /\ ReservedAddrs \subseteq Word
  /\ SysconValues \subseteq Int

VARIABLES
  pc, mtvec, mie, mepc, mstatus,
  extraflags,     \* mode, sleep flag and reservation: module ExtraFlags
  loop            \* where fetch_decode_exec is: see Loop

matchVars == <<timermatchl, timermatchh>>
hartVars == <<pc, mtvec, mie, mepc, mstatus, extraflags>>

vars == <<clintVars, hartVars, loop>>

\* The loop is running, or has ended (max_inst = 0, or cycle has reached it) and the user is at the
\* prompt, or a fetch outside the host's memory has ended the process.
Loop == {"running", "stopped", "dead"}

\* Mutated form of PcPlus.
PcNeverWraps(k) == pc + k

\* pc is a uint32_t and wraps.
PcPlus(k) == IF pc + k < AddrSpan THEN pc + k ELSE pc + k - AddrSpan

\* The state main() builds (all fields 0), at the first "r": cpu_t::init has
\* set pc and fetch_decode_exec has set machine mode.
Init ==
  /\ ClintInit
  /\ pc = ResetVector
  /\ mtvec = 0 /\ mie = {} /\ mepc = 0 /\ mstatus = {}
  /\ extraflags = EnterMachine({})
  /\ loop = "running"

-----------------------------------------------------------------------------
(* Mutated forms, for the runs that show the properties can be violated.   *)

InterruptIgnoresMie(d) == MTIP \in PolledMip(d) /\ MTIP \in mie

InterruptInUserModeOnly(d) ==
  MTIP \in PolledMip(d) /\ MTIP \in mie /\ MIE \in mstatus /\ Mode(extraflags) = User

TrapReturnsToNext(d) ==
  /\ Advance(d) /\ mip' = PolledMip(d)
  /\ mepc' = IF pc + 4 < AddrSpan THEN pc + 4 ELSE pc + 4 - AddrSpan
  /\ mstatus' = TrapStatus(extraflags, mstatus)
  /\ extraflags' = EnterMachine(extraflags)
  /\ pc' = mtvec /\ loop' = "running"
  /\ UNCHANGED <<matchVars, mtvec, mie>>

\* A hart that sleeps is not told that the timer is due.
PollTimerAwake(d) ==
  /\ Advance(d)
  /\ mip' = IF WfiBit \in extraflags THEN mip ELSE PolledMip(d)

-----------------------------------------------------------------------------
(* The common parts of a step.                                             *)

\* extraflags after the timer block: a timer that is due ends the sleep.
PolledFlags(d) == IF Due(d) THEN ClearWfi(extraflags) ELSE extraflags

\* The timer interrupt is pending and enabled: it is taken in place of the
\* fetched instruction.
Interrupted(d) ==
  MTIP \in PolledMip(d) /\ MTIP \in mie /\ MIE \in mstatus

\* What the timer block writes, in a step whose instruction leaves it so.
PollTimer(d) == Advance(d) /\ mip' = PolledMip(d)

\* The switch on what decode_run returned: 2 is a fault and 3 the program's
\* own stop, and both end the loop; 1 sleeps half a millisecond; 0 and, with
\* a message, every other value go on.
AfterReturn(ret) == IF ret \in {2, 3} THEN "stopped" ELSE "running"

\* decode_run returned 0, with pc at a.
Continue(a) == pc' = a /\ loop' = AfterReturn(0)

\* The "if( trap )" part of decode_run.  The return address is pc itself: for
\* the interrupt it was moved back and forth by 4.
EnterTrap(d) ==
  /\ PollTimer(d)
  /\ mepc' = pc
  /\ mstatus' = TrapStatus(extraflags, mstatus)
  /\ extraflags' = EnterMachine(PolledFlags(d))
  /\ Continue(mtvec)
  /\ UNCHANGED <<matchVars, mtvec, mie>>

\* An instruction is executed that leaves the flags as the poll left them.
Execute(d) == ~Interrupted(d) /\ extraflags' = PolledFlags(d)

-----------------------------------------------------------------------------
(* The interrupt and the exceptions.                                       *)

Interrupt(d) == Interrupted(d) /\ EnterTrap(d)

\* ECALL, EBREAK, an encoding the decoder does not know, or a load, store or
\* atomic operation at an address that is neither memory nor a device.
Exception(d) == ~Interrupted(d) /\ EnterTrap(d)

Trap(d) == Interrupt(d) \/ Exception(d)

-----------------------------------------------------------------------------
(* Instructions.                                                           *)

\* MRET: also any SYSTEM instruction whose number ends in 0x02.
Mret(d) ==
  /\ ~Interrupted(d)
  /\ PollTimer(d)
  /\ mstatus' = ReturnStatus(extraflags, mstatus)
  /\ extraflags' = ReturnMode(PolledFlags(d), mstatus)
  /\ Continue(mepc)
  /\ UNCHANGED <<matchVars, mtvec, mie, mepc>>

\* WFI enables interrupts, marks the hart asleep, moves pc itself and returns 1.
Wfi(d) ==
  /\ ~Interrupted(d)
  /\ PollTimer(d)
  /\ mstatus' = mstatus \cup {MIE}
  /\ extraflags' = SetWfi(PolledFlags(d))
  /\ pc' = PcPlus(4)
  /\ loop' = AfterReturn(1)
  /\ UNCHANGED <<matchVars, mtvec, mie, mepc>>

\* LR.W
LoadReserved(d, a) ==
  /\ ~Interrupted(d)
  /\ PollTimer(d)
  /\ extraflags' = Reserve(PolledFlags(d), a)
  /\ Continue(PcPlus(4))
  /\ UNCHANGED <<matchVars, mtvec, mie, mepc, mstatus>>

\* LUI, AUIPC, JAL, JALR, branches, OP, OP-IMM, FENCE, loads and stores of
\* memory and of the devices but SYSCON and the compare register, SC.W, the
\* AMOs, and CSR instructions that leave this module's CSRs as they are.
Plain(d, a) ==
  /\ Execute(d)
  /\ PollTimer(d)
  /\ Continue(a)
  /\ UNCHANGED <<matchVars, mtvec, mie, mepc, mstatus>>

\* The words a CSR instruction can leave in a register that holds old: CSRRW,
\* CSRRS and CSRRC with operand src.
CsrResults(old, src) == {src, old \cup src, old \ src}

\* CSR instructions on mstatus, mepc, mtvec, mie and mip.
StoreStatus(d, w) ==
  /\ Execute(d)
  /\ PollTimer(d)
  /\ mstatus' = w
  /\ Continue(PcPlus(4))
  /\ UNCHANGED <<matchVars, mtvec, mie, mepc>>

WriteStatus(d) ==
  \E src \in StatusOperands : \E w \in CsrResults(mstatus, src) : StoreStatus(d, w)

WriteEpc(d, a) ==
  /\ Execute(d)
  /\ PollTimer(d)
  /\ mepc' = a
  /\ Continue(PcPlus(4))
  /\ UNCHANGED <<matchVars, mtvec, mie, mstatus>>

WriteTvec(d, a) ==
  /\ Execute(d)
  /\ PollTimer(d)
  /\ mtvec' = a
  /\ Continue(PcPlus(4))
  /\ UNCHANGED <<matchVars, mie, mepc, mstatus>>

StoreMie(d, w) ==
  /\ Execute(d)
  /\ PollTimer(d)
  /\ mie' = w
  /\ Continue(PcPlus(4))
  /\ UNCHANGED <<matchVars, mtvec, mepc, mstatus>>

WriteMie(d) ==
  \E src \in IrqWords : \E w \in CsrResults(mie, src) : StoreMie(d, w)

\* What is written to mip stays there until the next poll.
StorePending(d, w) ==
  /\ Execute(d)
  /\ StoreMip(d, w)
  /\ Continue(PcPlus(4))
  /\ UNCHANGED <<mtvec, mie, mepc, mstatus>>

WriteMip(d) ==
  \E src \in IrqWords : \E w \in CsrResults(PolledMip(d), src) : StorePending(d, w)

\* A store to one half of the compare register.
WriteMatch(d, v) ==
  /\ Execute(d)
  /\ StoreMatchl(d, v) \/ StoreMatchh(d, v)
  /\ Continue(PcPlus(4))
  /\ UNCHANGED <<mtvec, mie, mepc, mstatus>>

\* A store to the SYSCON register.  pc is moved here and the value becomes
\* what decode_run returns; but -1 is the value that stands for "not set", so
\* that decode_run goes on, moves pc once more and returns 0.
Syscon(d, v) ==
  /\ Execute(d)
  /\ PollTimer(d)
  /\ \/ v # -1 /\ pc' = PcPlus(4) /\ loop' = AfterReturn(v)
     \/ v = -1 /\ Continue(PcPlus(8))
  /\ UNCHANGED <<matchVars, mtvec, mie, mepc, mstatus>>

\* The simulator's own stop instruction, 0x00300073: pc stays on it.
Halt(d) ==
  /\ Execute(d)
  /\ PollTimer(d)
  /\ loop' = AfterReturn(3)
  /\ UNCHANGED <<pc, matchVars, mtvec, mie, mepc, mstatus>>

\* An atomic operation below RAM, which has no lower bound check, or a write
\* to the "print string" CSR, which takes a guest address for a host address:
\* the access ends the process.  (If it happens to hit mapped memory it is a
\* Plain instruction; what it may corrupt there is not modelled.)
WildAccess(d) ==
  /\ Execute(d)
  /\ PollTimer(d)
  /\ loop' = "dead"
  /\ UNCHANGED <<pc, matchVars, mtvec, mie, mepc, mstatus>>

\* Instructions that change the context a trap saved.
ChangeContext(d) ==
  \/ Wfi(d) \/ WriteStatus(d)
  \/ \E a \in Targets : WriteEpc(d, a)

\* Instructions that change neither the saved context nor the mode: the opcodes
\* before SYSTEM, and what the actions below have of SYSTEM and the atomics.
Neutral(d) ==
  \/ \E a \in Targets \cup {PcPlus(4)} : Plain(d, a)
  \/ \E a \in ReservedAddrs : LoadReserved(d, a)
  \/ \E a \in Vectors : WriteTvec(d, a)
  \/ WriteMie(d) \/ WriteMip(d)
  \/ \E v \in MatchWords : WriteMatch(d, v)
  \/ \E v \in SysconValues : Syscon(d, v)
  \/ Halt(d) \/ WildAccess(d)

-----------------------------------------------------------------------------
(* The loop of fetch_decode_exec.                                          *)

\* BOUND: 2^64 microseconds of guest time do not go by in one session.
TimeLeft(d) == ~(Carry(d) = 1 /\ timerh = TSpan - 1)

Iterating(d) == loop = "running" /\ TimeLeft(d)

TrapStep    == \E d \in Ticks : Iterating(d) /\ Trap(d)
ReturnStep  == \E d \in Ticks : Iterating(d) /\ Mret(d)
SleepStep   == \E d \in Ticks : Iterating(d) /\ Wfi(d)
ContextStep == \E d \in Ticks : Iterating(d) /\ ChangeContext(d)
NeutralStep == \E d \in Ticks : Iterating(d) /\ Neutral(d)
ReserveStep == \E d \in Ticks : Iterating(d) /\ \E a \in ReservedAddrs : LoadReserved(d, a)

\* pc is outside the host's memory: the fetch reads some other memory of the
\* process, which either ends it or yields an arbitrary word (another step).
FetchOutside ==
  /\ loop = "running"
  /\ pc \notin Ram
  /\ loop' = "dead"
  /\ UNCHANGED <<clintVars, hartVars>>

\* The loop's counter, which module Session has, reaches max_inst.
CutOff ==
  /\ loop = "running"
  /\ loop' = "stopped"
  /\ UNCHANGED <<clintVars, hartVars>>

\* The user enters "r" again: the loop runs on from the same state, in
\* machine mode.
Resume ==
  /\ loop = "stopped"
  /\ loop' = "running"
  /\ extraflags' = EnterMachine(extraflags)
  /\ UNCHANGED <<clintVars, pc, mtvec, mie, mepc, mstatus>>

Next ==
  \/ TrapStep \/ ReturnStep \/ ContextStep \/ NeutralStep
  \/ FetchOutside \/ CutOff \/ Resume

Spec == Init /\ [][Next]_vars

\* Guest time passes: while the loop runs, an iteration comes in which the
\* host's clock has moved on.  This is what the for loop of fetch_decode_exec
\* and a clock that does not stand still give, whatever the guest executes.
TimedStep ==
  \E d \in Ticks \ {0} :
    Iterating(d) /\ (Trap(d) \/ Mret(d) \/ ChangeContext(d) \/ Neutral(d))

AnyStep == TrapStep \/ ReturnStep \/ ContextStep \/ NeutralStep

FairSpec == Spec /\ WF_vars(TimedStep) /\ WF_vars(AnyStep)

-----------------------------------------------------------------------------
(* Properties *)

\* Every register keeps the width it has in riscv32_cpu_state, and the loop
\* is in one of its three states.
TypeOK ==
  /\ ClintTypeOK
  /\ pc \in Addr /\ mtvec \in Addr /\ mepc \in Addr
  /\ mie \in Word /\ mstatus \in Word /\ extraflags \in Word
  /\ loop \in Loop

\* The masked updates of extraflags and mstatus (cpu.cpp:19, 61, 66, 136,
\* decoder.cpp:258-259, 274-277, 326) never let one packed field disturb
\* another: seen field by field they are the trap, return, sleep and reserve
\* operations of module Priv.
Fields == INSTANCE Priv WITH
            Modes    <- SUBSET ModeBits,
            Machine  <- Machine,
            Slots    <- SUBSET (0 .. 28),
            mode     <- Mode(extraflags),
            ie       <- MIE \in mstatus,
            pie      <- MPIE \in mstatus,
            mpp      <- Shr(mstatus \cap MPP, 11),
            sleeping <- WfiBit \in extraflags,
            slot     <- Slot(extraflags)

ImplementsPriv == Fields!Spec

\* Each kind of step is its own operation there: a trap saves and a return
\* restores, WFI sleeps, any other instruction but a CSR write of the context
\* changes at most the reservation, and "r" only the mode.  No step but LR.W
\* changes the reservation: it survives traps, returns, sleep and SC.W.
OperationsImplementPriv ==
  [][/\ TrapStep => Fields!Trap
     /\ ReturnStep => Fields!Return
     /\ SleepStep => Fields!Sleep
     /\ NeutralStep => Fields!LoadReserved
     /\ Resume => Fields!Restart
     /\ Slot(extraflags') # Slot(extraflags) => ReserveStep]_vars

\* A csrw of mip.
MipStep == \E d \in Ticks : Iterating(d) /\ WriteMip(d)

\* Each iteration polls the timer, whatever it executes, the interrupt, WFI and
\* the steps that end the loop included (all of them come after cpu.cpp:13-23):
\* the 64-bit time goes on, and the line shows whether it has passed the compare
\* value as it was before this step's store, unless the instruction writes mip
\* itself.
AlwaysPolled ==
  [][\/ \E d \in Ticks : T64!Poll(d) \/ \E v \in MatchWords : T64!PollAndWrite(d, v)
     \/ MipStep
     \/ FetchOutside \/ CutOff \/ Resume]_vars

\* The compare register is in use and guest time can pass it.
Armed ==
  /\ timermatchh # 0 \/ timermatchl # 0
  /\ timermatchh * TSpan + timermatchl < TSpan * TSpan - 1

\* The timer interrupt is enabled in both places cpu.cpp:36 tests.
TimerEnabled == MTIP \in mie /\ MIE \in mstatus

\* The poll of this step finds that the 64-bit time has passed the compare value.
PassedNow ==
  T64!Passed(timerh' * TSpan + timerl', timermatchh * TSpan + timermatchl)

\* A timer that has passed its compare value interrupts at once where it is
\* enabled, whatever the instruction would have been and the sleep of WFI
\* notwithstanding; and no interrupt comes before that, what the guest has
\* written to mip included, since the poll overwrites it (cpu.cpp:13-23 before
\* cpu.cpp:36).
InterruptOnTime ==
  [][/\ loop = "running" /\ TimerEnabled /\ PassedNow =>
          \/ mepc' = pc /\ pc' = mtvec /\ Mode(extraflags') = Machine /\ MIE \notin mstatus'
          \/ FetchOutside \/ CutOff
     /\ (\E d \in Ticks : Iterating(d) /\ Interrupt(d)) => PassedNow]_vars

\* A hart that keeps running does not stay armed and enabled for ever: the
\* interrupt is delivered (which clears MIE) unless the guest disarms or
\* disables the timer first.  The 64-bit time in two halves, the compare and
\* the three enable bits of cpu.cpp:13-36 must all work together for it.
TimerInterruptDelivered ==
  []<>(loop # "running" \/ ~Armed \/ ~TimerEnabled)

-----------------------------------------------------------------------------
(* What comments of the code say, and the code does not do.                *)

\* "WFI cpu should not run when wait for interpert" (cpu.cpp:28): a hart that
\* is asleep before and after a step has not moved.
SleepingHartStays ==
  [][loop = "running" /\ WfiBit \in extraflags /\ WfiBit \in extraflags' => pc' = pc]_vars
=============================================================================
