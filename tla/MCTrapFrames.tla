---------------------------- MODULE MCTrapFrames ----------------------------
(* TLC's values for TrapFrames.  The guest's code is at 4 and 8, of which 8 *)
(* is also its one vector; address 0, where mtvec starts, is outside RAM.   *)
(* Halves of one bit make guest time carry and the compare register pass    *)
(* through each of its values.                                              *)
EXTENDS TrapFrames
MCTicks == {0, 1}
MCMatchWords == {1}
MCIrqWords == {{MTIP}}
MCRam == 4 .. 11
MCTargets == {4}
MCVectors == {8}
MCStatusOperands == {{MIE}, MPP \cup {MPIE}}
MCReservedAddrs == {{31}}
MCSysconValues == {-1, 2}
=============================================================================
