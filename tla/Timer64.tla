------------------------------ MODULE Timer64 ------------------------------
(***************************************************************************)
(* What a machine timer promises its guest: one double-width counter of    *)
(* microseconds, one double-width compare register, and an interrupt line  *)
(* that is up exactly when the counter has passed a compare register that  *)
(* is in use (0 means unused).  The compare register can only be written a *)
(* half at a time.                                                         *)
(***************************************************************************)
EXTENDS Integers

CONSTANT TSpan        \* number of values of a half: 2^32 in the simulator

VARIABLES mtime, mtimecmp, mtip

vars == <<mtime, mtimecmp, mtip>>

Half == 0 .. TSpan - 1

\* Full-width addition that wraps once around the double-width counter.
After(time, d) ==
  IF time + d < TSpan * TSpan THEN time + d ELSE time + d - TSpan * TSpan

Passed(time, cmp) == time > cmp /\ cmp # 0

Join(hi, lo) == hi * TSpan + lo

Init == mtime = 0 /\ mtimecmp = 0 /\ mtip = FALSE

\* Time moves on and the line is recomputed from the register as it was
\* before this step's write, if there is one.
Elapse(d) ==
  /\ mtime' = After(mtime, d)
  /\ mtip' = Passed(mtime', mtimecmp)

WriteLow(v) == \E hi, lo \in Half : mtimecmp = Join(hi, lo) /\ mtimecmp' = Join(hi, v)

WriteHigh(v) == \E hi, lo \in Half : mtimecmp = Join(hi, lo) /\ mtimecmp' = Join(v, lo)

Poll(d) == Elapse(d) /\ UNCHANGED mtimecmp

PollAndWrite(d, v) == Elapse(d) /\ (WriteLow(v) \/ WriteHigh(v))

\* mip is an ordinary register to csrw: the guest can force the line until
\* the next poll.
ForceLine(d) ==
  /\ mtime' = After(mtime, d)
  /\ UNCHANGED mtimecmp
  /\ mtip' \in BOOLEAN

Next ==
  \E d \in Half :
    \/ Poll(d)
    \/ \E v \in Half : PollAndWrite(d, v)
    \/ ForceLine(d)

Spec == Init /\ [][Next]_vars
=============================================================================
