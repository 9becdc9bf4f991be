----------------------------- MODULE TrapFrames -----------------------------
(***************************************************************************)
(* A hart together with a history of the trap it is handling.  The         *)
(* simulator has one level of trap state (mepc, and MPP and MPIE of        *)
(* mstatus), so a handler can return to what it interrupted only as long   *)
(* as nothing has overwritten that state.  The history variable frame is   *)
(* not in the code: it records what a trap interrupted and whether the     *)
(* saved copy is still the hart's to keep.                                 *)
(***************************************************************************)
EXTENDS Hart

VARIABLE frame

framedVars == <<vars, frame>>

\* "none":  no handler runs.
\* "kept":  a handler runs, and has changed nothing a trap saved.
\* "dirty": a handler runs that did: it wrote mepc or mstatus, executed WFI,
\*          or trapped itself.
FrameKinds == {"none", "kept", "dirty"}

NoFrame == [kind |-> "none", pc |-> 0, mode |-> Machine, ie |-> FALSE]

InterruptedContext ==
  [kind |-> "kept", pc |-> pc, mode |-> Mode(extraflags), ie |-> MIE \in mstatus]

Dirtied == IF frame.kind = "none" THEN NoFrame ELSE [NoFrame EXCEPT !.kind = "dirty"]

FramedInit == Init /\ frame = NoFrame

FramedTrap ==
  /\ TrapStep
  /\ frame' = IF frame.kind = "none" THEN InterruptedContext ELSE Dirtied

FramedReturn == ReturnStep /\ frame' = NoFrame

FramedContext == ContextStep /\ frame' = Dirtied

FramedNeutral == NeutralStep /\ UNCHANGED frame

FramedFetchOutside == FetchOutside /\ UNCHANGED frame

FramedCutOff == CutOff /\ UNCHANGED frame

FramedResume == Resume /\ UNCHANGED frame

FramedNext ==
  \/ FramedTrap \/ FramedReturn \/ FramedContext \/ FramedNeutral
  \/ FramedFetchOutside \/ FramedCutOff \/ FramedResume

FramedSpec == FramedInit /\ [][FramedNext]_framedVars

-----------------------------------------------------------------------------
(* Properties *)

\* What the trap entry of cpu.cpp:59-66 saved is still there while the
\* handler leaves it alone, whatever else it executes (memory, jumps, LR.W,
\* timer and mie writes, stops and restarts), and the handler is in machine
\* mode with interrupts off, so that no timer interrupt can overwrite it.
FrameKept ==
  frame.kind = "kept" =>
    /\ mepc = frame.pc
    /\ Shr(mstatus \cap MPP, 11) = frame.mode
    /\ MPIE \in mstatus <=> frame.ie
    /\ Mode(extraflags) = Machine
    /\ MIE \notin mstatus

\* MRET at the end of a handler that kept its frame goes back to the
\* instruction, the mode and the interrupt enable the trap interrupted
\* (decoder.cpp:271-278 undoes cpu.cpp:59-66).
MretRestores ==
  [][ReturnStep /\ frame.kind = "kept" =>
       /\ pc' = frame.pc
       /\ Mode(extraflags') = frame.mode
       /\ MIE \in mstatus' <=> frame.ie]_framedVars

\* No timer interrupt is taken inside a handler that kept its frame.
NoNestedInterrupt ==
  [][(\E d \in Ticks : Interrupt(d)) => frame.kind # "kept"]_framedVars
=============================================================================
