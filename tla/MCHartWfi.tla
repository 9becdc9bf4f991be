----------------------------- MODULE MCHartWfi -----------------------------
(* TLC's values for Hart in the run that compares the code with its comment *)
(* on WFI.                                                                  *)
EXTENDS Hart
MCTicks == {0, 1}
MCMatchWords == {1}
MCIrqWords == {{MTIP}}
MCRam == 4 .. 11
MCTargets == {}
MCVectors == {4}
MCStatusOperands == {{MIE}}
MCReservedAddrs == {}
MCSysconValues == {}
=============================================================================
