-------------------------------- MODULE LrSc --------------------------------
(***************************************************************************)
(* LR.W, SC.W and the AMOs among guest tasks that share memory.  The       *)
(* hart has one reservation slot, in extraflags, which LR.W writes and     *)
(* SC.W compares with its own address.  Nothing clears it: not SC.W, not a *)
(* trap, not MRET (by OperationsImplementPriv of module Hart no step but   *)
(* LR.W changes it), so it outlives the task that made it.                 *)
(*                                                                         *)
(* Each task adds one to shared words, with an AMO or with the usual       *)
(* LR.W / SC.W loop, and can be preempted between any two instructions by  *)
(* the guest's kernel, which runs one instruction on the slot on its way:  *)
(* a dummy SC.W, as guest kernels do to drop a reservation, or a dummy     *)
(* LR.W.                                                                   *)
(***************************************************************************)
EXTENDS Integers

CONSTANTS
  Tasks,        \* the guest's tasks
  Words,        \* addresses of the shared words
  Scratch,      \* address of the word the kernel's dummy instruction uses
  SlotSpan,     \* number of slot values: 2^29 in the build
  SwitchCode,   \* what the kernel does to the slot in a context switch
  MaxUpdates    \* BOUND: updates of each word

\* Mutated form of SlotOf.
SlotKeepsAll(a) == a

\* The slot keeps the low 29 bits of the address (rs1 << 3, and the mask
\* 0x1fffffff of the comparison).
SlotOf(a) == a % SlotSpan

ASSUME LrScAssumption ==
  /\ SlotSpan \in Nat \ {0}
  /\ Words \subseteq Nat /\ Scratch \in Nat \ Words
  /\ SwitchCode \in {"dummy_sc", "dummy_lr"}
  /\ MaxUpdates \in Nat

\* RAM is 64 MiB, so two words of it never share a slot value.
ASSUME RamFitsSlot ==
  \A a, b \in Words \cup {Scratch} : SlotOf(a) = SlotOf(b) => a = b

VARIABLES
  slot,     \* extraflags >> 3
  mem,      \* the shared words
  cur,      \* the task that runs
  stage,    \* of each task: between updates, or between its LR.W and SC.W
  addr,     \* of each task: the word it is updating
  seen,     \* of each task: what its LR.W loaded
  done      \* history: the updates of each word that tasks were told are done

vars == <<slot, mem, cur, stage, addr, seen, done>>

\* All of extraflags is 0 before the first LR.W.
Init ==
  /\ slot = 0
  /\ mem = [a \in Words |-> 0]
  /\ cur \in Tasks
  /\ stage = [t \in Tasks |-> "idle"]
  /\ addr \in [Tasks -> Words]
  /\ seen = [t \in Tasks |-> 0]
  /\ done = [a \in Words |-> 0]

-----------------------------------------------------------------------------
(* Mutated forms, for the runs that show the properties can be violated.   *)

ScAlwaysHolds(a) == TRUE

-----------------------------------------------------------------------------
\* SC.W finds its reservation.
ScHolds(a) == slot = SlotOf(a)

\* The store of an AMO or of an SC.W that holds.
Stored(a, v) == [mem EXCEPT ![a] = v]

Lr(a) ==
  /\ stage[cur] = "idle"
  /\ slot' = SlotOf(a)
  /\ addr' = [addr EXCEPT ![cur] = a]
  /\ seen' = [seen EXCEPT ![cur] = mem[a]]
  /\ stage' = [stage EXCEPT ![cur] = "loaded"]
  /\ UNCHANGED <<mem, cur, done>>

\* SC.W of the value loaded, plus one.  When it fails the task starts over.
Sc ==
  /\ stage[cur] = "loaded"
  /\ stage' = [stage EXCEPT ![cur] = "idle"]
  /\ \/ /\ ScHolds(addr[cur])
        /\ done[addr[cur]] < MaxUpdates
        /\ mem' = Stored(addr[cur], seen[cur] + 1)
        /\ done' = [done EXCEPT ![addr[cur]] = @ + 1]
     \/ /\ ~ScHolds(addr[cur])
        /\ UNCHANGED <<mem, done>>
  /\ UNCHANGED <<slot, cur, addr, seen>>

\* AMOADD.W of one.
Amo(a) ==
  /\ stage[cur] = "idle"
  /\ done[a] < MaxUpdates
  /\ mem' = Stored(a, mem[a] + 1)
  /\ done' = [done EXCEPT ![a] = @ + 1]
  /\ UNCHANGED <<slot, cur, stage, addr, seen>>

\* The timer interrupt, the kernel and its MRET to another task.  A dummy
\* SC.W does not change the slot, whether it holds or not; a dummy LR.W
\* moves it to the kernel's own word.
Switch(t) ==
  /\ cur' = t
  /\ slot' = IF SwitchCode = "dummy_lr" THEN SlotOf(Scratch) ELSE slot
  /\ UNCHANGED <<mem, stage, addr, seen, done>>

Next ==
  \/ \E a \in Words : Lr(a) \/ Amo(a)
  \/ Sc
  \/ \E t \in Tasks : Switch(t)

Spec == Init /\ [][Next]_vars

-----------------------------------------------------------------------------
(* Properties *)

TypeOK ==
  /\ slot \in 0 .. SlotSpan - 1
  /\ mem \in [Words -> Nat] /\ done \in [Words -> Nat]
  /\ cur \in Tasks
  /\ stage \in [Tasks -> {"idle", "loaded"}]
  /\ addr \in [Tasks -> Words]
  /\ seen \in [Tasks -> Nat]

\* Every update that a task was told is done is in memory: the comment at
\* decoder.cpp:328 promises it ("Make sure we have a slot, and, it's valid").
\* It holds when every context switch moves the slot, and is violated when the
\* kernel relies on SC.W to drop a reservation.
NoLostUpdate == \A a \in Words : mem[a] = done[a]

\* Why: when the running task's SC.W would hold, what its LR.W loaded is
\* still what the word holds.
ReservationFresh ==
  stage[cur] = "loaded" /\ ScHolds(addr[cur]) => seen[cur] = mem[addr[cur]]
=============================================================================
