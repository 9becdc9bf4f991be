-------------------------------- MODULE Priv --------------------------------
(***************************************************************************)
(* What trap handling promises, with every field a variable of its own: a  *)
(* trap saves the mode and the interrupt enable and moves to machine mode  *)
(* with interrupts off, a return restores them, and the sleeping flag and  *)
(* the LR.W reservation are touched by nothing but their own operations.   *)
(***************************************************************************)
CONSTANTS
  Modes,      \* values of the two mode bits
  Machine,    \* the one that is machine mode
  Slots       \* values of the reservation slot

VARIABLES
  mode,       \* the privilege mode the hart runs in
  ie, pie,    \* MIE and MPIE of mstatus
  mpp,        \* MPP of mstatus
  sleeping,   \* the wait-for-interrupt flag
  slot        \* the reservation

vars == <<mode, ie, pie, mpp, sleeping, slot>>

Init ==
  /\ mode = Machine
  /\ ie = FALSE /\ pie = FALSE
  /\ mpp \in Modes
  /\ sleeping = FALSE
  /\ slot \in Slots

\* The timer may end the sleep in any step, and nothing but a Sleep starts it.
MayWake == sleeping' = FALSE \/ UNCHANGED sleeping

Trap ==
  /\ mpp' = mode /\ pie' = ie
  /\ mode' = Machine /\ ie' = FALSE
  /\ MayWake
  /\ UNCHANGED slot

Return ==
  /\ mode' = mpp /\ ie' = pie
  /\ mpp' = mode /\ pie' = TRUE
  /\ MayWake
  /\ UNCHANGED slot

Sleep ==
  /\ sleeping' = TRUE /\ ie' = TRUE
  /\ UNCHANGED <<mode, pie, mpp, slot>>

LoadReserved ==
  /\ slot' \in Slots
  /\ MayWake
  /\ UNCHANGED <<mode, ie, pie, mpp>>

\* A csrw of mstatus: any value of the status fields, nothing else.
WriteStatus ==
  /\ ie' \in BOOLEAN /\ pie' \in BOOLEAN /\ mpp' \in Modes
  /\ MayWake
  /\ UNCHANGED <<mode, slot>>

Other ==
  /\ MayWake
  /\ UNCHANGED <<mode, ie, pie, mpp, slot>>

\* The user starts the hart again after it stopped.
Restart ==
  /\ mode' = Machine
  /\ UNCHANGED <<ie, pie, mpp, sleeping, slot>>

Next ==
  \/ Trap \/ Return \/ Sleep \/ LoadReserved
  \/ WriteStatus \/ Other \/ Restart

Spec == Init /\ [][Next]_vars
=============================================================================
