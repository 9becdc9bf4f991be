----------------------------- MODULE TimerGuest -----------------------------
(***************************************************************************)
(* A guest that uses the timer of module Clint by the two procedures a     *)
(* 32-bit guest needs, as its registers are only reached a half at a time: *)
(*                                                                         *)
(*   reading:  load timerh, load timerl, load timerh again, and start over *)
(*             if the two values of timerh differ;                         *)
(*   setting:  store all ones to the low half of the compare register, the *)
(*             new high half, and the new low half.                        *)
(*                                                                         *)
(* Each load or store is one instruction, so that time advances and the    *)
(* comparison is made between them, and any number of other instructions,  *)
(* those of an interrupt handler for instance, can run there too.  Outside *)
(* the two procedures the guest does anything.                             *)
(***************************************************************************)
EXTENDS Clint

ASSUME TimerGuestAssumption == TSpan - 1 \in MatchWords

VARIABLES
  doing,    \* where the guest is in a procedure, or "other"
  high,     \* what the first load of timerh gave
  low,      \* what the load of timerl gave
  old,      \* the compare value before it is set
  newh, newl,   \* the one being set
  time,     \* microseconds since the start, modulo the 64-bit range
  taken     \* time, when timerl was loaded

guestVars == <<doing, high, low, old, newh, newl, time, taken>>

Full == 0 .. TSpan * TSpan - 1

Join(hi, lo) == hi * TSpan + lo

\* The time after d more microseconds.
Later(d) == T64!After(time, d)

\* BOUND: 2^64 microseconds do not go by while the guest is in a procedure.
InRange(d) == time + d < TSpan * TSpan

new == Join(newh, newl)

-----------------------------------------------------------------------------
(* Reading.                                                                *)

LoadHigh(d) ==
  /\ doing = "other"
  /\ high' = NewTimerh(d)
  /\ doing' = "load_low"
  /\ UNCHANGED <<low, old, newh, newl, taken>>

LoadLow(d) ==
  /\ doing = "load_low"
  /\ low' = NewTimerl(d)
  /\ taken' = Later(d)
  /\ doing' = "load_again"
  /\ UNCHANGED <<high, old, newh, newl>>

LoadAgain(d) ==
  /\ doing = "load_again"
  /\ doing' = IF NewTimerh(d) = high THEN "has_time" ELSE "other"
  /\ UNCHANGED <<high, low, old, newh, newl, taken>>

Read(d) == RunOther(d) /\ (LoadHigh(d) \/ LoadLow(d) \/ LoadAgain(d))

-----------------------------------------------------------------------------
(* Setting.                                                                *)

StoreOnes(d) ==
  /\ doing = "other"
  /\ StoreMatchl(d, TSpan - 1)
  /\ old' = Join(timermatchh, timermatchl)
  /\ newh' \in MatchWords /\ newl' \in MatchWords
  /\ doing' = "store_high"
  /\ UNCHANGED <<high, low, taken>>

StoreHigh(d) ==
  /\ doing = "store_high"
  /\ StoreMatchh(d, newh)
  /\ doing' = "store_low"
  /\ UNCHANGED <<high, low, old, newh, newl, taken>>

StoreLow(d) ==
  /\ doing = "store_low"
  /\ StoreMatchl(d, newl)
  /\ doing' = "has_set"
  /\ UNCHANGED <<high, low, old, newh, newl, taken>>

-----------------------------------------------------------------------------
(* Everything else.                                                        *)

\* Between the instructions of a procedure others run, which leave the
\* compare register and mip alone.
Pause(d) ==
  /\ doing \notin {"other", "has_time", "has_set"}
  /\ RunOther(d)
  /\ UNCHANGED <<doing, high, low, old, newh, newl, taken>>

\* Outside them, any instruction.
Other(d) ==
  /\ doing \in {"other", "has_time", "has_set"}
  /\ \/ RunOther(d)
     \/ \E v \in MatchWords : StoreMatchl(d, v) \/ StoreMatchh(d, v)
     \/ \E w \in IrqWords : StoreMip(d, w)
  /\ doing' = "other"
  /\ high' = 0 /\ low' = 0 /\ old' = 0 /\ newh' = TSpan - 1 /\ newl' = TSpan - 1 /\ taken' = 0

Procedure(d) == Read(d) \/ StoreOnes(d) \/ StoreHigh(d) \/ StoreLow(d) \/ Pause(d)

GuestInit ==
  /\ ClintInit
  /\ doing = "other"
  /\ high = 0 /\ low = 0 /\ old = 0 /\ newh = TSpan - 1 /\ newl = TSpan - 1 /\ time = 0 /\ taken = 0

GuestNext ==
  \E d \in Ticks :
    /\ time' = Later(d)
    /\ Other(d) \/ (InRange(d) /\ Procedure(d))

GuestSpec == GuestInit /\ [][GuestNext]_<<clintVars, guestVars>>

-----------------------------------------------------------------------------
(* Properties *)

GuestTypeOK ==
  /\ ClintTypeOK
  /\ doing \in {"other", "load_low", "load_again", "has_time",
                "store_high", "store_low", "has_set"}
  /\ high \in Half /\ low \in Half
  /\ newh \in MatchWords /\ newl \in MatchWords
  /\ {old, time, taken} \subseteq Full

\* A time the guest accepts is the time that it was when it loaded timerl,
\* however much time went by between its three loads (decoder.cpp:63-66 and
\* the carry of cpu.cpp:14-15).
ReadsOneTime == doing = "has_time" => Join(high, low) = taken

\* While the compare register is set, no value it has on the way raises the
\* interrupt: if it is pending, the old or the new value has been passed.  The
\* comparison of cpu.cpp:18 takes a register of 0 for one that is not in use,
\* so this is no procedure for putting it into use or out of use: the words on
\* the way are not 0.
NoSpuriousTimer ==
  doing \in {"store_high", "store_low", "has_set"} /\ old # 0 /\ new # 0 /\ MTIP \in mip
    => T64!Passed(time, old) \/ T64!Passed(time, new)
=============================================================================
