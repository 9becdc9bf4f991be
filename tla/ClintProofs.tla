---------------------------- MODULE ClintProofs ----------------------------
(***************************************************************************)
(* Proofs about Clint: for every width of a half, the timer kept in two    *)
(* halves is the double-width timer of module Timer64.                     *)
(***************************************************************************)
EXTENDS Clint, TLAPS

-----------------------------------------------------------------------------
(* Numbers written in two digits.  The provers do little with products, so *)
(* the few facts needed about them are stated on their own.                *)

LEMMA ProductMonotone ==
  ASSUME NEW a \in Nat, NEW b \in Nat, NEW t \in Nat, a <= b
  PROVE  a * t <= b * t
<1>1. PICK k \in Nat : b = a + k
  <2>1. b - a \in Nat /\ b = a + (b - a)
    OBVIOUS
  <2> QED
    BY <2>1
<1>2. b * t = a * t + k * t
  BY <1>1
<1>3. k * t \in Nat /\ a * t \in Nat
  OBVIOUS
<1> QED
  BY <1>2, <1>3

\* Of two two-digit numbers the one with the greater high digit is greater.
LEMMA HighDigitDecides ==
  ASSUME NEW t \in Nat, NEW h1 \in 0 .. t - 1, NEW l1 \in 0 .. t - 1,
         NEW h2 \in Nat, NEW l2 \in Nat, h1 < h2
  PROVE  h1 * t + l1 < h2 * t + l2
<1>1. h1 + 1 \in Nat /\ h1 + 1 <= h2
  OBVIOUS
<1>2. (h1 + 1) * t <= h2 * t
  BY <1>1, ProductMonotone
<1>3. (h1 + 1) * t = h1 * t + t
  OBVIOUS
<1>4. h1 * t \in Int /\ h2 * t \in Int
  OBVIOUS
<1> QED
  BY <1>2, <1>3, <1>4

\* A two-digit number fits in two digits.
LEMMA TwoDigitsFit ==
  ASSUME NEW t \in Nat, NEW h \in 0 .. t - 1, NEW l \in 0 .. t - 1
  PROVE  h * t + l < t * t
<1>1. h * t + l < t * t + 0
  BY HighDigitDecides
<1>2. t * t \in Int
  OBVIOUS
<1> QED
  BY <1>1, <1>2

-----------------------------------------------------------------------------
(* The timer block of decode_run, cpu.cpp:13-23.                           *)

LEMMA Digits ==
  ASSUME ClintTypeOK, NEW d \in Ticks
  PROVE  /\ TSpan \in Nat /\ TSpan > 1
         /\ d \in 0 .. TSpan - 1
         /\ timerl \in 0 .. TSpan - 1 /\ timerh \in 0 .. TSpan - 1
         /\ timermatchl \in 0 .. TSpan - 1 /\ timermatchh \in 0 .. TSpan - 1
  BY ClintAssumption DEF ClintTypeOK, Half

\* The unsigned comparison of cpu.cpp:14 finds the carry, and only the carry.
LEMMA CarryDetected ==
  ASSUME ClintTypeOK, NEW d \in Ticks
  PROVE  /\ timerl + d < TSpan => NewTimerl(d) = timerl + d /\ Carry(d) = 0
         /\ timerl + d >= TSpan => NewTimerl(d) = timerl + d - TSpan /\ Carry(d) = 1
  BY Digits DEF NewTimerl, Carry

LEMMA AdvanceType ==
  ASSUME ClintTypeOK, NEW d \in Ticks
  PROVE  /\ NewTimerl(d) \in 0 .. TSpan - 1
         /\ NewTimerh(d) \in 0 .. TSpan - 1
<1>1. Carry(d) \in {0, 1}
  BY DEF Carry
<1>2. NewTimerl(d) \in 0 .. TSpan - 1
  BY Digits DEF NewTimerl
<1>3. NewTimerh(d) \in 0 .. TSpan - 1
  BY Digits, <1>1 DEF NewTimerh
<1> QED
  BY <1>2, <1>3

\* The two-step addition is a double-width addition.
LEMMA TimeAdds ==
  ASSUME ClintTypeOK, NEW d \in Ticks
  PROVE  NewTimerh(d) * TSpan + NewTimerl(d) = T64!After(timerh * TSpan + timerl, d)
<1> USE Digits
<1>1. timerh * TSpan \in Int /\ TSpan * TSpan \in Int
  OBVIOUS
<1>2. CASE timerl + d < TSpan
  <2>1. NewTimerl(d) = timerl + d /\ NewTimerh(d) = timerh
    BY <1>2, CarryDetected DEF NewTimerh
  <2>2. timerh * TSpan + (timerl + d) < TSpan * TSpan
    BY <1>2, TwoDigitsFit
  <2> QED
    BY <1>1, <2>1, <2>2 DEF T64!After
<1>3. CASE timerl + d >= TSpan /\ timerh + 1 < TSpan
  <2>1. NewTimerl(d) = timerl + d - TSpan /\ NewTimerh(d) = timerh + 1
    BY <1>3, CarryDetected DEF NewTimerh
  <2>2. (timerh + 1) * TSpan = timerh * TSpan + TSpan
    OBVIOUS
  <2>3. timerh + 1 \in 0 .. TSpan - 1 /\ timerl + d - TSpan \in 0 .. TSpan - 1
    BY <1>3
  <2>4. (timerh + 1) * TSpan + (timerl + d - TSpan) < TSpan * TSpan
    BY <2>3, TwoDigitsFit
  <2> QED
    BY <1>1, <2>1, <2>2, <2>4 DEF T64!After
<1>4. CASE timerl + d >= TSpan /\ timerh + 1 >= TSpan
  <2>1. NewTimerl(d) = timerl + d - TSpan /\ NewTimerh(d) = 0
    BY <1>4, CarryDetected DEF NewTimerh
  <2>2. timerh = TSpan - 1
    BY <1>4
  <2>3. timerh * TSpan = TSpan * TSpan - TSpan
    BY <2>2
  <2>4. NewTimerh(d) * TSpan = 0
    BY <2>1
  <2> QED
    BY <1>1, <1>4, <2>1, <2>3, <2>4 DEF T64!After
<1> QED
  BY <1>2, <1>3, <1>4

\* The two-part comparison of cpu.cpp:18 is a double-width comparison.
LEMMA DueIsPassed ==
  ASSUME ClintTypeOK, NEW d \in Ticks
  PROVE  Due(d) <=> T64!Passed(NewTimerh(d) * TSpan + NewTimerl(d),
                               timermatchh * TSpan + timermatchl)
<1> USE Digits, AdvanceType
<1> DEFINE h == NewTimerh(d)
           l == NewTimerl(d)
           now == h * TSpan + l
           cmp == timermatchh * TSpan + timermatchl
<1> h \in 0 .. TSpan - 1 /\ l \in 0 .. TSpan - 1
  OBVIOUS
<1>0. h * TSpan \in Int /\ timermatchh * TSpan \in Int
  OBVIOUS
<1>1. (h > timermatchh \/ (h = timermatchh /\ l > timermatchl)) <=> now > cmp
  <2>1. CASE h > timermatchh
    BY <1>0, <2>1, HighDigitDecides
  <2>2. CASE h < timermatchh
    BY <1>0, <2>2, HighDigitDecides
  <2>3. CASE h = timermatchh
    BY <1>0, <2>3
  <2> QED
    BY <2>1, <2>2, <2>3
<1>2. (timermatchh # 0 \/ timermatchl # 0) <=> cmp # 0
  <2>1. CASE timermatchh = 0
    BY <2>1
  <2>2. CASE timermatchh > 0
    <3>1. 0 * TSpan + 0 < timermatchh * TSpan + timermatchl
      BY <2>2, HighDigitDecides
    <3> QED
      BY <2>2, <3>1, <1>0
  <2> QED
    BY <2>1, <2>2
<1> HIDE DEF h, l, now, cmp
<1>3. Due(d) <=> /\ h > timermatchh \/ (h = timermatchh /\ l > timermatchl)
                 /\ timermatchh # 0 \/ timermatchl # 0
  BY DEF Due, h, l
<1>4. Due(d) <=> now > cmp /\ cmp # 0
  BY <1>1, <1>2, <1>3
<1> QED
  BY <1>4 DEF now, cmp, h, l, T64!Passed

-----------------------------------------------------------------------------
(* Type correctness and refinement.                                        *)

LEMMA PolledMipType ==
  ASSUME ClintTypeOK, NEW d \in Ticks
  PROVE  PolledMip(d) \in Word
  BY DEF PolledMip, ClintTypeOK, MTIP, Word, Bit

LEMMA ClintInitType == ClintInit => ClintTypeOK
  BY ClintAssumption DEF ClintInit, ClintTypeOK, Half, Word

LEMMA ClintNextType == ClintTypeOK /\ [ClintNext]_clintVars => ClintTypeOK'
<1> SUFFICES ASSUME ClintTypeOK, [ClintNext]_clintVars PROVE ClintTypeOK'
  OBVIOUS
<1>1. CASE ClintNext
  <2>1. PICK d \in Ticks :
          \/ RunOther(d)
          \/ \E v \in MatchWords : StoreMatchl(d, v) \/ StoreMatchh(d, v)
          \/ \E w \in IrqWords : StoreMip(d, w)
    BY <1>1 DEF ClintNext
  <2>2. timerl' \in Half /\ timerh' \in Half
    BY <2>1, AdvanceType DEF RunOther, StoreMatchl, StoreMatchh, StoreMip, Advance, Half
  <2>3. mip' \in Word
    BY <2>1, PolledMipType, ClintAssumption DEF RunOther, StoreMatchl, StoreMatchh, StoreMip
  <2>4. timermatchl' \in Half /\ timermatchh' \in Half
    BY <2>1, ClintAssumption DEF RunOther, StoreMatchl, StoreMatchh, StoreMip, ClintTypeOK, Half
  <2> QED
    BY <2>2, <2>3, <2>4 DEF ClintTypeOK
<1>2. CASE UNCHANGED clintVars
  BY <1>2 DEF clintVars, ClintTypeOK
<1> QED
  BY <1>1, <1>2

\* The timer registers stay in their width, for every width and guest.
THEOREM ClintTypeCorrect == ClintSpec => []ClintTypeOK
  BY ClintInitType, ClintNextType, PTL DEF ClintSpec

\* What the poll does, seen as the abstract timer.
LEMMA PollElapses ==
  ASSUME ClintTypeOK, NEW d \in Ticks, Advance(d), mip' = PolledMip(d)
  PROVE  T64!Elapse(d)
<1>1. timerh' * TSpan + timerl' = T64!After(timerh * TSpan + timerl, d)
  BY TimeAdds DEF Advance
<1>2. (MTIP \in mip') <=> Due(d)
  BY DEF PolledMip
<1>3. Due(d) <=> T64!Passed(timerh' * TSpan + timerl', timermatchh * TSpan + timermatchl)
  BY DueIsPassed DEF Advance
<1> QED
  BY <1>1, <1>2, <1>3 DEF T64!Elapse, T64!Passed

\* What the timer does under each kind of instruction, seen as Timer64: one
\* that leaves its registers alone is a poll,
LEMMA RunOtherPolls ==
  ASSUME ClintTypeOK, NEW d \in Ticks, RunOther(d)
  PROVE  T64!Poll(d)
<1>1. T64!Elapse(d)
  BY PollElapses DEF RunOther
<1>2. UNCHANGED (timermatchh * TSpan + timermatchl)
  BY DEF RunOther
<1> QED
  BY <1>1, <1>2 DEF T64!Poll

\* one that stores a half of the compare register polls it first,
LEMMA StoreMatchPolls ==
  ASSUME ClintTypeOK, NEW d \in Ticks, NEW v \in Half, StoreMatchl(d, v) \/ StoreMatchh(d, v)
  PROVE  T64!PollAndWrite(d, v)
<1>1. timermatchl \in T64!Half /\ timermatchh \in T64!Half
  BY DEF ClintTypeOK, Half, T64!Half
<1>2. T64!Elapse(d)
  BY PollElapses DEF StoreMatchl, StoreMatchh
<1>3. ASSUME StoreMatchl(d, v) PROVE T64!WriteLow(v)
  BY <1>1, <1>3 DEF StoreMatchl, T64!WriteLow, T64!Join
<1>4. ASSUME StoreMatchh(d, v) PROVE T64!WriteHigh(v)
  BY <1>1, <1>4 DEF StoreMatchh, T64!WriteHigh, T64!Join
<1> QED
  BY <1>2, <1>3, <1>4 DEF T64!PollAndWrite

\* and one that writes mip forces the line.
LEMMA StoreMipForces ==
  ASSUME ClintTypeOK, NEW d \in Ticks, NEW w, StoreMip(d, w)
  PROVE  T64!ForceLine(d)
<1>1. timerh' * TSpan + timerl' = T64!After(timerh * TSpan + timerl, d)
  BY TimeAdds DEF StoreMip, Advance
<1>2. UNCHANGED (timermatchh * TSpan + timermatchl)
  BY DEF StoreMip
<1>3. (MTIP \in mip') \in BOOLEAN
  OBVIOUS
<1> QED
  BY <1>1, <1>2, <1>3 DEF T64!ForceLine

LEMMA TimerNext ==
  ASSUME NEW d \in Ticks,
         T64!Poll(d) \/ (\E v \in Half : T64!PollAndWrite(d, v)) \/ T64!ForceLine(d)
  PROVE  T64!Next
<1>1. d \in T64!Half /\ Half = T64!Half
  BY ClintAssumption DEF Half, T64!Half
<1> QED
  BY <1>1 DEF T64!Next

LEMMA TimerStart == ClintInit => T64!Init
  BY ClintAssumption DEF ClintInit, T64!Init

\* The two halves, the carry and the two-part comparison implement a 64-bit
\* counter and a 64-bit compare register, whatever the guest stores and
\* whenever it stores it.
THEOREM Timer64Implemented == ClintSpec => ImplementsTimer64
<1>1. ClintTypeOK /\ [ClintNext]_clintVars => [T64!Next]_(T64!vars)
  <2> SUFFICES ASSUME ClintTypeOK, [ClintNext]_clintVars PROVE [T64!Next]_(T64!vars)
    OBVIOUS
  <2>1. MatchWords \subseteq Half
    BY ClintAssumption DEF Half
  <2>2. ASSUME NEW d \in Ticks, RunOther(d) PROVE T64!Next
    BY <2>2, RunOtherPolls, TimerNext
  <2>3. ASSUME NEW d \in Ticks, NEW v \in MatchWords, StoreMatchl(d, v) \/ StoreMatchh(d, v)
        PROVE  T64!Next
    BY <2>1, <2>3, StoreMatchPolls, TimerNext
  <2>4. ASSUME NEW d \in Ticks, NEW w \in IrqWords, StoreMip(d, w) PROVE T64!Next
    BY <2>4, StoreMipForces, TimerNext
  <2>5. CASE UNCHANGED clintVars
    BY <2>5 DEF clintVars, T64!vars
  <2> QED
    BY <2>2, <2>3, <2>4, <2>5 DEF ClintNext
<1> QED
  BY <1>1, TimerStart, ClintTypeCorrect, PTL DEF ClintSpec, ImplementsTimer64, T64!Spec
=============================================================================
