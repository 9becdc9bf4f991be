----------------------------- MODULE LrScProofs -----------------------------
(***************************************************************************)
(* Proofs about LrSc, for any number of tasks, words and updates.          *)
(***************************************************************************)
EXTENDS LrSc, TLAPS

\* What a reservation slot is, and when two words share it.
LEMMA SlotType == ASSUME NEW a \in Words \cup {Scratch} PROVE SlotOf(a) \in 0 .. SlotSpan - 1
  BY LrScAssumption DEF SlotOf

LEMMA InitType == Init => TypeOK
  BY LrScAssumption DEF Init, TypeOK

LEMMA NextType == TypeOK /\ [Next]_vars => TypeOK'
<1> SUFFICES ASSUME TypeOK, [Next]_vars PROVE TypeOK'
  OBVIOUS
<1>1. ASSUME NEW a \in Words, Lr(a) PROVE TypeOK'
  BY <1>1, SlotType DEF Lr, TypeOK
<1>2. ASSUME NEW a \in Words, Amo(a) PROVE TypeOK'
  BY <1>2 DEF Amo, Stored, TypeOK
<1>3. CASE Sc
  <2>1. addr[cur] \in Words /\ seen[cur] + 1 \in Nat
    BY DEF TypeOK
  <2> QED
    BY <1>3, <2>1 DEF Sc, Stored, TypeOK
<1>4. ASSUME NEW t \in Tasks, Switch(t) PROVE TypeOK'
  BY <1>4, SlotType DEF Switch, TypeOK
<1>5. CASE UNCHANGED vars
  BY <1>5 DEF vars, TypeOK
<1> QED
  BY <1>1, <1>2, <1>3, <1>4, <1>5 DEF Next

\* The slot keeps its 29 bits, and the tasks' words and counts their types.
THEOREM LrScTypeCorrect == Spec => []TypeOK
  BY InitType, NextType, PTL DEF Spec

-----------------------------------------------------------------------------
(* The argument.  What the running task loaded is fresh while its SC.W     *)
(* would hold: its own LR.W makes it so, it writes nothing before its      *)
(* SC.W, and when another task takes over, the slot moves to a word that   *)
(* is nobody's.                                                            *)

UpdateInv == TypeOK /\ NoLostUpdate /\ ReservationFresh

LEMMA UpdateInit == Init => UpdateInv
  BY InitType DEF Init, UpdateInv, NoLostUpdate, ReservationFresh

LEMMA UpdateNext ==
  ASSUME SwitchCode = "dummy_lr", UpdateInv, [Next]_vars
  PROVE  UpdateInv'
<1>0. TypeOK /\ NoLostUpdate /\ ReservationFresh
  BY DEF UpdateInv
<1>1. TypeOK'
  BY <1>0, NextType
<1>2. ASSUME NEW a \in Words, Lr(a) PROVE NoLostUpdate' /\ ReservationFresh'
  <2>1. NoLostUpdate'
    BY <1>0, <1>2 DEF Lr, NoLostUpdate
  <2>2. seen'[cur'] = mem'[addr'[cur']]
    BY <1>0, <1>2 DEF Lr, TypeOK
  <2> QED
    BY <2>1, <2>2 DEF ReservationFresh
<1>3. ASSUME NEW a \in Words, Amo(a) PROVE NoLostUpdate' /\ ReservationFresh'
  <2>1. mem' = [mem EXCEPT ![a] = mem[a] + 1] /\ done' = [done EXCEPT ![a] = done[a] + 1]
    BY <1>3 DEF Amo, Stored
  <2>2. NoLostUpdate'
    BY <1>0, <2>1 DEF NoLostUpdate, TypeOK
  <2>3. stage'[cur'] = "idle"
    BY <1>3 DEF Amo
  <2> QED
    BY <2>2, <2>3 DEF ReservationFresh
<1>4. ASSUME Sc PROVE NoLostUpdate' /\ ReservationFresh'
  <2>1. stage'[cur'] = "idle"
    BY <1>0, <1>4 DEF Sc, TypeOK
  <2>2. CASE ~ScHolds(addr[cur])
    <3>1. UNCHANGED <<mem, done>>
      BY <1>4, <2>2 DEF Sc
    <3> QED
      BY <1>0, <2>1, <3>1 DEF NoLostUpdate, ReservationFresh
  <2>3. CASE ScHolds(addr[cur])
    <3>1. /\ mem' = [mem EXCEPT ![addr[cur]] = seen[cur] + 1]
          /\ done' = [done EXCEPT ![addr[cur]] = done[addr[cur]] + 1]
      BY <1>4, <2>3 DEF Sc, Stored
    <3>2. seen[cur] = mem[addr[cur]]
      BY <1>0, <1>4, <2>3 DEF Sc, ReservationFresh
    <3>3. NoLostUpdate'
      BY <1>0, <3>1, <3>2 DEF NoLostUpdate, TypeOK
    <3> QED
      BY <2>1, <3>3 DEF ReservationFresh
  <2> QED
    BY <2>2, <2>3
<1>5. ASSUME NEW t \in Tasks, Switch(t) PROVE NoLostUpdate' /\ ReservationFresh'
  <2>1. NoLostUpdate'
    BY <1>0, <1>5 DEF Switch, NoLostUpdate
  <2>2. slot' = SlotOf(Scratch)
    BY <1>5 DEF Switch
  <2>3. addr'[cur'] \in Words
    BY <1>1 DEF TypeOK
  <2>4. SlotOf(Scratch) # SlotOf(addr'[cur'])
    BY <2>3, RamFitsSlot, LrScAssumption
  <2> QED
    BY <2>1, <2>2, <2>4 DEF ReservationFresh, ScHolds
<1>6. ASSUME UNCHANGED vars PROVE NoLostUpdate' /\ ReservationFresh'
  BY <1>0, <1>6 DEF vars, NoLostUpdate, ReservationFresh, ScHolds
<1> QED
  BY <1>1, <1>2, <1>3, <1>4, <1>5, <1>6 DEF Next, UpdateInv

LEMMA UpdateAlways ==
  ASSUME SwitchCode = "dummy_lr"
  PROVE  Spec => []UpdateInv
<1>1. UpdateInv /\ [Next]_vars => UpdateInv'
  BY UpdateNext
<1> QED
  BY UpdateInit, <1>1, PTL DEF Spec

\* A guest whose context switch executes a dummy LR.W loses no update, however
\* many tasks it has and wherever they are preempted.
THEOREM NoUpdateEverLost ==
  ASSUME SwitchCode = "dummy_lr"
  PROVE  Spec => []NoLostUpdate
<1>1. Spec => []UpdateInv
  BY UpdateAlways
<1>2. UpdateInv => NoLostUpdate
  BY DEF UpdateInv
<1> QED
  BY <1>1, <1>2, PTL

\* In such a guest, an SC.W that would hold finds what its LR.W loaded.
THEOREM ReservationAlwaysFresh ==
  ASSUME SwitchCode = "dummy_lr"
  PROVE  Spec => []ReservationFresh
<1>1. Spec => []UpdateInv
  BY UpdateAlways
<1>2. UpdateInv => ReservationFresh
  BY DEF UpdateInv
<1> QED
  BY <1>1, <1>2, PTL
=============================================================================
