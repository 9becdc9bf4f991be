---------------------------- MODULE GuestProofs ----------------------------
(***************************************************************************)
(* Proofs about what software on the simulated hart can rely on: TimerGuest*)
(* reads the timer and sets its compare register a half at a time, and the *)
(* handlers of TrapFrames return to what a trap interrupted.               *)
(***************************************************************************)
EXTENDS TimerGuest, TrapFrames, HartProofs

-----------------------------------------------------------------------------
(* The guest's procedures.                                                 *)

\* Every step of the guest is one of the timer's.
LEMMA GuestIsClint ==
  ASSUME GuestTypeOK, NEW d \in Ticks, Other(d) \/ Procedure(d)
  PROVE  ClintNext
<1>1. CASE Other(d)
  BY <1>1 DEF Other, ClintNext
<1>2. CASE Read(d) \/ Pause(d)
  BY <1>2 DEF Read, Pause, ClintNext
<1>3. CASE StoreOnes(d)
  BY <1>3, TimerGuestAssumption DEF StoreOnes, ClintNext
<1>4. CASE StoreHigh(d) \/ StoreLow(d)
  BY <1>4 DEF StoreHigh, StoreLow, GuestTypeOK, ClintNext
<1> QED
  BY <1>1, <1>2, <1>3, <1>4 DEF Procedure

\* The halves show the time, and each step brings it on.
Shows == time = timerh * TSpan + timerl

LEMMA TimeShown ==
  ASSUME ClintTypeOK, Shows, NEW d \in Ticks, Advance(d), time' = Later(d)
  PROVE  Shows'
  BY TimeAdds DEF Shows, Advance, Later

\* Unless the whole range is exceeded, the high half does not fall.
LEMMA HighHalfGrows ==
  ASSUME ClintTypeOK, Shows, NEW d \in Ticks, InRange(d)
  PROVE  timerh <= NewTimerh(d) /\ time <= Later(d)
<1> USE Digits
<1>1. timerh * TSpan \in Int /\ TSpan * TSpan \in Int
  OBVIOUS
<1>2. CASE timerl + d < TSpan
  BY <1>1, <1>2, CarryDetected DEF NewTimerh, Later, T64!After, InRange, Shows
<1>3. CASE timerl + d >= TSpan
  <2>1. timerh + 1 < TSpan
    <3>1. SUFFICES ASSUME timerh = TSpan - 1 PROVE FALSE
      OBVIOUS
    <3>2. timerh * TSpan = TSpan * TSpan - TSpan
      BY <3>1
    <3> QED
      BY <1>1, <1>3, <3>2 DEF InRange, Shows
  <2> QED
    BY <1>1, <1>3, <2>1, CarryDetected DEF NewTimerh, Later, T64!After, InRange, Shows
<1> QED
  BY <1>2, <1>3

\* What is known in the middle of a procedure.  A time just read is right if
\* timerh still is what it was, and the compare register on its way is never
\* below both the old and the new value.
Cmp == Join(timermatchh, timermatchl)

GuestInv ==
  /\ GuestTypeOK /\ Shows
  /\ doing \in {"load_low", "load_again"} => high <= timerh
  /\ doing = "load_again" /\ high = timerh => taken = Join(high, low)
  /\ doing = "store_high" => Cmp >= old /\ timermatchl = TSpan - 1
  /\ doing = "store_low" => Cmp >= new
  /\ ReadsOneTime /\ NoSpuriousTimer

LEMMA GuestInitInv == GuestInit => GuestInv
<1> SUFFICES ASSUME GuestInit PROVE GuestInv
  OBVIOUS
<1>1. ClintTypeOK /\ Shows
  BY ClintInitType, ClintAssumption DEF GuestInit, ClintInit, Shows
<1>2. 0 \in Half /\ 0 \in Full
  <2>1. TSpan * TSpan > 0
    BY ClintAssumption
  <2> QED
    BY <2>1, ClintAssumption DEF Half, Full
<1> QED
  BY <1>1, <1>2, TimerGuestAssumption
     DEF GuestInit, GuestInv, GuestTypeOK, ReadsOneTime, NoSpuriousTimer

LEMMA JoinType ==
  ASSUME NEW hi \in 0 .. TSpan - 1, NEW lo \in 0 .. TSpan - 1
  PROVE  Join(hi, lo) \in Full /\ Join(hi, lo) \in Nat
<1>1. TSpan \in Nat
  BY ClintAssumption
<1>2. hi * TSpan + lo < TSpan * TSpan
  BY <1>1, TwoDigitsFit
<1>3. hi * TSpan \in Nat /\ TSpan * TSpan \in Nat
  BY <1>1
<1> QED
  BY <1>2, <1>3 DEF Join, Full

LEMMA GuestNextType ==
  ASSUME GuestTypeOK, Shows, NEW d \in Ticks, time' = Later(d), Other(d) \/ Procedure(d)
  PROVE  GuestTypeOK' /\ Shows' /\ Advance(d)
<1>1. ClintTypeOK'
  BY GuestIsClint, ClintNextType DEF GuestTypeOK
<1>2. Advance(d)
  BY DEF Other, Procedure, Read, Pause, StoreOnes, StoreHigh, StoreLow,
         RunOther, StoreMatchl, StoreMatchh, StoreMip
<1>3. Shows'
  BY <1>2, TimeShown DEF GuestTypeOK
<1>4. time' \in Full
  BY <1>1, <1>3, JoinType DEF ClintTypeOK, Half, Shows, Join
<1>5. old' \in Full
  <2>1. Join(timermatchh, timermatchl) \in Full
    BY JoinType DEF GuestTypeOK, ClintTypeOK, Half
  <2>2. 0 \in Full
    BY JoinType, ClintAssumption DEF Join, Full
  <2> QED
    BY <2>1, <2>2 DEF GuestTypeOK, Other, Procedure, Read, Pause, StoreOnes, StoreHigh,
                      StoreLow, LoadHigh, LoadLow, LoadAgain
<1>6. taken' \in Full
  <2>1. 0 \in Full
    BY JoinType, ClintAssumption DEF Join, Full
  <2> QED
    BY <1>4, <2>1 DEF GuestTypeOK, Other, Procedure, Read, Pause, StoreOnes, StoreHigh,
                      StoreLow, LoadHigh, LoadLow, LoadAgain
<1>7. high' \in Half /\ low' \in Half
  <2>1. NewTimerh(d) \in Half /\ NewTimerl(d) \in Half /\ 0 \in Half
    BY AdvanceType, ClintAssumption DEF GuestTypeOK, Half
  <2> QED
    BY <2>1 DEF GuestTypeOK, Other, Procedure, Read, Pause, StoreOnes, StoreHigh,
                StoreLow, LoadHigh, LoadLow, LoadAgain
<1>8. newh' \in MatchWords /\ newl' \in MatchWords
  BY TimerGuestAssumption DEF GuestTypeOK, Other, Procedure, Read, Pause, StoreOnes,
        StoreHigh, StoreLow, LoadHigh, LoadLow, LoadAgain
<1>9. doing' \in {"other", "load_low", "load_again", "has_time",
                  "store_high", "store_low", "has_set"}
  BY DEF GuestTypeOK, Other, Procedure, Read, Pause, StoreOnes, StoreHigh, StoreLow,
         LoadHigh, LoadLow, LoadAgain
<1> QED
  BY <1>1, <1>2, <1>3, <1>4, <1>5, <1>6, <1>7, <1>8, <1>9 DEF GuestTypeOK

\* The line after a poll: up only if the time has passed the compare value.
LEMMA PollPasses ==
  ASSUME ClintTypeOK, Shows, NEW d \in Ticks, time' = Later(d), Advance(d),
         mip' = PolledMip(d), MTIP \in mip', NEW v \in Nat, v # 0, Cmp >= v
  PROVE  T64!Passed(time', v)
<1>1. Due(d)
  BY DEF PolledMip
<1>2. T64!Passed(time', Cmp)
  BY <1>1, DueIsPassed, TimeAdds DEF Cmp, Join, Shows, Later
<1>3. Cmp \in Nat /\ time' \in Nat
  <2>1. Shows' /\ NewTimerh(d) \in 0 .. TSpan - 1 /\ NewTimerl(d) \in 0 .. TSpan - 1
    BY TimeShown, AdvanceType
  <2> QED
    BY <2>1, JoinType DEF Cmp, ClintTypeOK, Half, Shows, Join, Advance
<1> QED
  BY <1>2, <1>3 DEF T64!Passed

\* A number with the low half all ones is not below any with the same high half.
LEMMA OnesNotBelow ==
  ASSUME NEW hi \in 0 .. TSpan - 1, NEW lo \in 0 .. TSpan - 1
  PROVE  Join(hi, TSpan - 1) >= Join(hi, lo)
<1>1. TSpan \in Nat /\ hi * TSpan \in Int
  BY ClintAssumption
<1> QED
  BY <1>1 DEF Join

LEMMA GuestNextInv ==
  ASSUME GuestInv, NEW d \in Ticks, time' = Later(d), Other(d) \/ (InRange(d) /\ Procedure(d))
  PROVE  GuestInv'
<1>0. /\ GuestTypeOK /\ ClintTypeOK /\ Shows
      /\ GuestTypeOK' /\ Shows' /\ Advance(d)
  BY GuestNextType DEF GuestInv, GuestTypeOK
<1>1. CASE Other(d)
  BY <1>0, <1>1 DEF Other, GuestInv, ReadsOneTime, NoSpuriousTimer
<1>2. /\ timerh \in Int /\ timerh' \in Int /\ high \in Int /\ high' \in Int
      /\ timerh' = NewTimerh(d) /\ timerl' = NewTimerl(d)
      /\ old \in Nat /\ new \in Nat
  <2>1. newh \in 0 .. TSpan - 1 /\ newl \in 0 .. TSpan - 1
    BY <1>0, ClintAssumption DEF GuestTypeOK
  <2>2. new \in Nat
    BY <2>1, JoinType DEF new
  <2> QED
    BY <1>0, <2>2 DEF GuestTypeOK, ClintTypeOK, Half, Full, Advance
<1>3. ASSUME InRange(d) PROVE timerh <= timerh'
  BY <1>0, <1>2, <1>3, HighHalfGrows
<1>4. ASSUME NEW v \in Nat, v # 0, Cmp >= v, mip' = PolledMip(d), MTIP \in mip'
      PROVE  T64!Passed(time', v)
  BY <1>0, <1>4, PollPasses
<1>5. CASE InRange(d) /\ Read(d)
  <2>1. CASE LoadHigh(d)
    BY <1>0, <1>2, <2>1 DEF LoadHigh, GuestInv, ReadsOneTime, NoSpuriousTimer
  <2>2. CASE LoadLow(d)
    <3>1. doing' = "load_again" /\ high' = high /\ high <= timerh
      BY <2>2 DEF LoadLow, GuestInv
    <3>2. taken' = Join(timerh', low')
      BY <1>0, <1>2, <2>2 DEF LoadLow, Shows, Join
    <3> QED
      BY <1>0, <1>2, <1>3, <1>5, <3>1, <3>2 DEF GuestInv, ReadsOneTime, NoSpuriousTimer
  <2>3. CASE LoadAgain(d)
    <3>1. ASSUME doing' = "has_time" PROVE Join(high', low') = taken'
      <4>1. timerh' = high /\ high <= timerh /\ UNCHANGED <<high, low, taken>>
        BY <1>2, <2>3, <3>1 DEF LoadAgain, GuestInv
      <4>2. high = timerh
        BY <1>2, <1>3, <1>5, <4>1
      <4> QED
        BY <2>3, <4>1, <4>2 DEF LoadAgain, GuestInv
    <3>2. doing' \in {"has_time", "other"}
      BY <2>3 DEF LoadAgain
    <3> QED
      BY <1>0, <3>1, <3>2 DEF GuestInv, ReadsOneTime, NoSpuriousTimer
  <2> QED
    BY <1>5, <2>1, <2>2, <2>3 DEF Read
<1>6. CASE StoreOnes(d)
  <2>1. /\ doing' = "store_high" /\ mip' = PolledMip(d) /\ old' = Cmp
        /\ timermatchl' = TSpan - 1 /\ timermatchh' = timermatchh
    BY <1>6 DEF StoreOnes, StoreMatchl, Cmp
  <2>2. Cmp' >= old' /\ Cmp \in Nat /\ Cmp >= Cmp
    BY <1>0, <2>1, OnesNotBelow, JoinType DEF Cmp, ClintTypeOK, Half
  <2>3. NoSpuriousTimer'
    BY <1>4, <2>1, <2>2 DEF NoSpuriousTimer
  <2> QED
    BY <1>0, <2>1, <2>2, <2>3 DEF GuestInv, ReadsOneTime
<1>7. CASE StoreHigh(d)
  <2>1. /\ doing = "store_high" /\ doing' = "store_low" /\ mip' = PolledMip(d)
        /\ timermatchh' = newh /\ timermatchl' = timermatchl
        /\ UNCHANGED <<old, newh, newl>>
    BY <1>7 DEF StoreHigh, StoreMatchh
  <2>2. Cmp >= old /\ timermatchl = TSpan - 1
    BY <2>1 DEF GuestInv
  <2>3. Cmp' >= new' /\ new' = new
    BY <1>0, <2>1, <2>2, OnesNotBelow, ClintAssumption DEF Cmp, new, GuestTypeOK
  <2>4. NoSpuriousTimer'
    BY <1>2, <1>4, <2>1, <2>2, <2>3 DEF NoSpuriousTimer
  <2> QED
    BY <1>0, <2>1, <2>3, <2>4 DEF GuestInv, ReadsOneTime
<1>8. CASE StoreLow(d)
  <2>1. /\ doing = "store_low" /\ doing' = "has_set" /\ mip' = PolledMip(d)
        /\ UNCHANGED <<old, newh, newl>>
    BY <1>8 DEF StoreLow, StoreMatchl
  <2>2. Cmp >= new /\ new' = new
    BY <2>1 DEF GuestInv, new
  <2>3. NoSpuriousTimer'
    BY <1>2, <1>4, <2>1, <2>2 DEF NoSpuriousTimer
  <2> QED
    BY <1>0, <2>1, <2>3 DEF GuestInv, ReadsOneTime
<1>9. CASE InRange(d) /\ Pause(d)
  <2>1. /\ doing' = doing /\ doing \notin {"other", "has_time", "has_set"}
        /\ mip' = PolledMip(d)
        /\ UNCHANGED <<high, low, old, newh, newl, taken, timermatchl, timermatchh>>
    BY <1>9 DEF Pause, RunOther
  <2>2. Cmp' = Cmp /\ new' = new
    BY <2>1 DEF Cmp, new
  <2>3. doing = "load_low" => high' <= timerh'
    BY <1>2, <1>3, <1>9, <2>1 DEF GuestInv
  <2>4. doing = "load_again" => high' <= timerh' /\ (high' = timerh' => taken' = Join(high', low'))
    BY <1>2, <1>3, <1>9, <2>1 DEF GuestInv
  <2>5. NoSpuriousTimer'
    BY <1>2, <1>4, <2>1, <2>2 DEF GuestInv, NoSpuriousTimer
  <2>6. ReadsOneTime'
    BY <2>1 DEF ReadsOneTime
  <2>7. doing = "store_high" => Cmp' >= old' /\ timermatchl' = TSpan - 1
    BY <2>1, <2>2 DEF GuestInv
  <2>8. doing = "store_low" => Cmp' >= new'
    BY <2>1, <2>2 DEF GuestInv
  <2> QED
    BY <1>0, <2>1, <2>3, <2>4, <2>5, <2>6, <2>7, <2>8 DEF GuestInv
<1> QED
  BY <1>1, <1>5, <1>6, <1>7, <1>8, <1>9 DEF Procedure

LEMMA GuestAlways == GuestSpec => []GuestInv
<1>1. ASSUME GuestInv, UNCHANGED <<clintVars, guestVars>> PROVE GuestInv'
  BY <1>1 DEF clintVars, guestVars, GuestInv, GuestTypeOK, ClintTypeOK, Shows, Cmp, new,
              ReadsOneTime, NoSpuriousTimer, T64!Passed, Full, Half, Join
<1>2. GuestInv /\ [GuestNext]_<<clintVars, guestVars>> => GuestInv'
  BY <1>1, GuestNextInv DEF GuestNext
<1> QED
  BY <1>2, GuestInitInv, PTL DEF GuestSpec

\* A guest that reads the timer until its two high halves agree has a time that
\* it was, for every width and however long its loads are apart.
THEOREM AlwaysReadsOneTime == GuestSpec => []ReadsOneTime
<1>1. GuestInv => ReadsOneTime
  BY DEF GuestInv
<1> QED
  BY <1>1, GuestAlways, PTL

\* A guest that sets the compare register by way of all ones gets no interrupt
\* that neither the old nor the new value is due.
THEOREM NeverSpuriousTimer == GuestSpec => []NoSpuriousTimer
<1>1. GuestInv => NoSpuriousTimer
  BY DEF GuestInv
<1> QED
  BY <1>1, GuestAlways, PTL

\* The guest's registers and the timer's keep their width.
THEOREM GuestTypeCorrect == GuestSpec => []GuestTypeOK
<1>1. GuestInv => GuestTypeOK
  BY DEF GuestInv
<1> QED
  BY <1>1, GuestAlways, PTL

\* What is proved of the timer under any guest holds under this one.
LEMMA GuestRefinesClint == GuestSpec => ClintSpec
<1>1. GuestInit => ClintInit
  BY DEF GuestInit
<1>2. GuestInv /\ [GuestNext]_<<clintVars, guestVars>> => [ClintNext]_clintVars
  BY GuestIsClint DEF GuestNext, GuestInv, clintVars
<1> QED
  BY <1>1, <1>2, GuestAlways, PTL DEF GuestSpec, ClintSpec

\* So the timer this guest sees is the double-width one.
THEOREM GuestSeesTimer64 == GuestSpec => ImplementsTimer64
  BY GuestRefinesClint, Timer64Implemented, PTL

-----------------------------------------------------------------------------
(* The saved context of a handler.  FrameKept is inductive together with   *)
(* the types: a trap from outside a handler establishes it, only the steps *)
(* that also dirty the frame could break it, and the interrupt is one of   *)
(* those steps but cannot happen while interrupts are off.                 *)

FrameInv == TypeOK /\ FrameKept

LEMMA FrameInit == FramedInit => FrameInv
  BY InitType DEF FramedInit, FrameInv, FrameKept, NoFrame

LEMMA FrameNext == FrameInv /\ [FramedNext]_framedVars => FrameInv'
<1> SUFFICES ASSUME FrameInv, [FramedNext]_framedVars PROVE FrameInv'
  OBVIOUS
<1>0. TypeOK /\ FrameKept
  BY DEF FrameInv
<1>1. TypeOK'
  <2>1. [Next]_vars
    BY DEF FramedNext, framedVars, FramedTrap, FramedReturn, FramedContext,
           FramedNeutral, FramedFetchOutside, FramedCutOff, FramedResume, Next
  <2> QED
    BY <1>0, <2>1, NextType
<1>2. CASE FramedTrap
  <2>1. PICK d \in Ticks : Trap(d)
    BY <1>2 DEF FramedTrap, TrapStep
  <2>2. /\ mepc' = pc
        /\ mstatus' = TrapStatus(extraflags, mstatus)
        /\ extraflags' = EnterMachine(PolledFlags(d))
    BY <2>1 DEF Trap, Interrupt, Exception, EnterTrap
  <2>3. /\ MIE \notin mstatus'
        /\ MPIE \in mstatus' <=> MIE \in mstatus
        /\ Shr(mstatus' \cap MPP, 11) = Mode(extraflags)
    BY <1>0, <2>2, TrapStatusFields DEF TypeOK
  <2>4. Mode(extraflags') = Machine
    BY <1>0, <2>2, PollFields, EnterMachineFields
  <2>5. CASE frame.kind = "none"
    <3>1. frame' = InterruptedContext
      BY <1>2, <2>5 DEF FramedTrap
    <3>2. /\ frame'.pc = pc /\ frame'.mode = Mode(extraflags)
          /\ frame'.ie = (MIE \in mstatus)
      BY <3>1 DEF InterruptedContext
    <3> QED
      BY <1>1, <2>2, <2>3, <2>4, <3>2 DEF FrameInv, FrameKept
  <2>6. CASE frame.kind # "none"
    <3>1. frame'.kind # "kept"
      BY <1>2, <2>6 DEF FramedTrap, Dirtied, NoFrame
    <3> QED
      BY <1>1, <3>1 DEF FrameInv, FrameKept
  <2> QED
    BY <2>5, <2>6
<1>3. CASE FramedReturn
  BY <1>1, <1>3 DEF FramedReturn, NoFrame, FrameInv, FrameKept
<1>4. CASE FramedContext
  <2>1. frame'.kind # "kept"
    BY <1>4 DEF FramedContext, Dirtied, NoFrame
  <2> QED
    BY <1>1, <2>1 DEF FrameInv, FrameKept
<1>5. CASE FramedNeutral
  <2>1. UNCHANGED <<mepc, mstatus>> /\ Mode(extraflags') = Mode(extraflags)
    BY <1>0, <1>5, NeutralFields DEF FramedNeutral, NeutralStep
  <2> QED
    BY <1>0, <1>1, <1>5, <2>1 DEF FramedNeutral, FrameInv, FrameKept
<1>6. CASE FramedFetchOutside \/ FramedCutOff
  BY <1>0, <1>1, <1>6 DEF FramedFetchOutside, FetchOutside, FramedCutOff, CutOff, hartVars, FrameInv, FrameKept
<1>7. CASE FramedResume
  <2>1. Mode(extraflags') = Machine
    BY <1>0, <1>7, EnterMachineFields DEF FramedResume, Resume, TypeOK
  <2> QED
    BY <1>0, <1>1, <1>7, <2>1 DEF FramedResume, Resume, FrameInv, FrameKept
<1>8. CASE UNCHANGED framedVars
  BY <1>0, <1>1, <1>8 DEF framedVars, vars, hartVars, FrameInv, FrameKept
<1> QED
  BY <1>2, <1>3, <1>4, <1>5, <1>6, <1>7, <1>8 DEF FramedNext

\* A handler that leaves its frame alone finds it intact, for every guest.
THEOREM FrameAlwaysKept == FramedSpec => []FrameKept
<1>1. FramedSpec => []FrameInv
  BY FrameInit, FrameNext, PTL DEF FramedSpec
<1>2. FrameInv => FrameKept
  BY DEF FrameInv
<1> QED
  BY <1>1, <1>2, PTL

\* MRET from such a handler returns to exactly what the trap interrupted.
THEOREM MretAlwaysRestores == FramedSpec => MretRestores
<1>1. FrameInv /\ [FramedNext]_framedVars =>
        [ReturnStep /\ frame.kind = "kept" =>
           /\ pc' = frame.pc
           /\ Mode(extraflags') = frame.mode
           /\ MIE \in mstatus' <=> frame.ie]_framedVars
  <2> SUFFICES ASSUME FrameInv, ReturnStep, frame.kind = "kept"
               PROVE  /\ pc' = frame.pc
                      /\ Mode(extraflags') = frame.mode
                      /\ MIE \in mstatus' <=> frame.ie
    OBVIOUS
  <2>1. PICK d \in Ticks : Mret(d)
    BY DEF ReturnStep
  <2>2. /\ pc' = mepc
        /\ mstatus' = ReturnStatus(extraflags, mstatus)
        /\ extraflags' = ReturnMode(PolledFlags(d), mstatus)
    BY <2>1 DEF Mret, Continue
  <2>3. /\ mepc = frame.pc
        /\ Shr(mstatus \cap MPP, 11) = frame.mode
        /\ MPIE \in mstatus <=> frame.ie
        /\ TypeOK
    BY DEF FrameInv, FrameKept
  <2>4. Mode(extraflags') = frame.mode
    BY <2>2, <2>3, PollType, ReturnModeFields DEF TypeOK
  <2>5. MIE \in mstatus' <=> frame.ie
    BY <2>2, <2>3, ReturnStatusFields DEF TypeOK
  <2> QED
    BY <2>2, <2>3, <2>4, <2>5
<1>2. FramedSpec => []FrameInv
  BY FrameInit, FrameNext, PTL DEF FramedSpec
<1> QED
  BY <1>1, <1>2, PTL DEF FramedSpec, MretRestores

\* No timer interrupt overwrites the frame of such a handler.
THEOREM NeverNestedInterrupt == FramedSpec => NoNestedInterrupt
<1>1. FrameInv => ((\E d \in Ticks : Interrupt(d)) => frame.kind # "kept")
  BY DEF Interrupt, Interrupted, FrameInv, FrameKept
<1>2. FramedSpec => []FrameInv
  BY FrameInit, FrameNext, PTL DEF FramedSpec
<1> QED
  BY <1>1, <1>2, PTL DEF FramedSpec, NoNestedInterrupt
=============================================================================
