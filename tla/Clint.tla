------------------------------- MODULE Clint -------------------------------
(***************************************************************************)
(* The timer of the simulated hart: the first block of cpu_t::decode_run,  *)
(* which adds the microseconds since the previous instruction to           *)
(* timerh:timerl, compares the pair with timermatchh:timermatchl and sets  *)
(* or clears MTIP of mip, and the stores through which a guest writes the  *)
(* compare register one 32-bit half at a time.                             *)
(*                                                                         *)
(* Every action is one call of decode_run, so the poll always comes first  *)
(* and the instruction's own write is seen by the next poll only.          *)
(***************************************************************************)
EXTENDS Words

CONSTANTS
  TSpan,        \* number of values of one timer half (2^32 in the build)
  Ticks,        \* values GetTimeMicroseconds() - last_time takes
  MatchWords,   \* values the guest stores to the compare halves
  IrqWords      \* values the guest writes to mip and mie

ASSUME ClintAssumption ==
  /\ TSpan \in Nat
  /\ TSpan > 1
  /\ Ticks \subseteq 0 .. TSpan - 1
  /\ MatchWords \subseteq 0 .. TSpan - 1
  /\ IrqWords \subseteq Word

VARIABLES
  timerl, timerh,             \* microseconds of guest time, low and high half
  timermatchl, timermatchh,   \* the compare register, low and high half
  mip                         \* pending interrupts, of which only MTIP is used

clintVars == <<timerl, timerh, timermatchl, timermatchh, mip>>

Half == 0 .. TSpan - 1

\* The machine timer interrupt: bit 7 of mip and of mie.
MTIP == 7

ClintInit ==
  /\ timerl = 0 /\ timerh = 0
  /\ timermatchl = 0 /\ timermatchh = 0
  /\ mip = {}

-----------------------------------------------------------------------------
(* Mutated forms, for the runs that show the properties can be violated.   *)

TimerlKeepsCarry(d) == timerl + d

CarryNever(d) == 0

DueByHalves(d) ==
  /\ timerh > timermatchh \/ (timerh = timermatchh /\ timerl >= timermatchl)
  /\ timermatchl # 0 \/ timermatchh # 0

-----------------------------------------------------------------------------
(* The timer block of decode_run.  Each operator is the value after d      *)
(* microseconds.                                                           *)

\* uint32_t new_timer = state.timerl + time_sed
NewTimerl(d) == IF timerl + d < TSpan THEN timerl + d ELSE timerl + d - TSpan

\* new_timer < state.timerl
Carry(d) == IF NewTimerl(d) < timerl THEN 1 ELSE 0

NewTimerh(d) ==
  IF timerh + Carry(d) < TSpan THEN timerh + Carry(d) ELSE 0

\* The compare register has been passed, and is in use.
Due(d) ==
  /\ \/ NewTimerh(d) > timermatchh
     \/ NewTimerh(d) = timermatchh /\ NewTimerl(d) > timermatchl
  /\ timermatchh # 0 \/ timermatchl # 0

\* mip as the block leaves it.
PolledMip(d) == IF Due(d) THEN mip \cup {MTIP} ELSE mip \ {MTIP}

Advance(d) == timerl' = NewTimerl(d) /\ timerh' = NewTimerh(d)

-----------------------------------------------------------------------------
(* One instruction of each kind, as far as the timer sees it.              *)

\* Any instruction that leaves the compare register and mip alone.
RunOther(d) ==
  /\ Advance(d)
  /\ mip' = PolledMip(d)
  /\ UNCHANGED <<timermatchl, timermatchh>>

\* A store to 0x11004000.
StoreMatchl(d, v) ==
  /\ Advance(d)
  /\ mip' = PolledMip(d)
  /\ timermatchl' = v
  /\ UNCHANGED timermatchh

\* A store to 0x11004004.
StoreMatchh(d, v) ==
  /\ Advance(d)
  /\ mip' = PolledMip(d)
  /\ timermatchh' = v
  /\ UNCHANGED timermatchl

\* A csrw, csrs or csrc of mip (0x344) that leaves w in it.
StoreMip(d, w) ==
  /\ Advance(d)
  /\ mip' = w
  /\ UNCHANGED <<timermatchl, timermatchh>>

ClintNext ==
  \E d \in Ticks :
    \/ RunOther(d)
    \/ \E v \in MatchWords : StoreMatchl(d, v) \/ StoreMatchh(d, v)
    \/ \E w \in IrqWords : StoreMip(d, w)

ClintSpec == ClintInit /\ [][ClintNext]_clintVars

-----------------------------------------------------------------------------
(* Properties *)

\* The registers stay in the width they have in riscv32_cpu_state.
ClintTypeOK ==
  /\ timerl \in Half /\ timerh \in Half
  /\ timermatchl \in Half /\ timermatchh \in Half
  /\ mip \in Word

\* The two pairs of 32-bit halves, the carry between them and the two-part
\* comparison implement one 64-bit counter and one 64-bit compare register
\* (cpu.cpp:13-23, decoder.cpp:102-107).
T64 == INSTANCE Timer64 WITH
         mtime    <- timerh * TSpan + timerl,
         mtimecmp <- timermatchh * TSpan + timermatchl,
         mtip     <- MTIP \in mip

ImplementsTimer64 == T64!Spec
=============================================================================
