----------------------------- MODULE MCHartLive -----------------------------
(* TLC's values for Hart where only time and the enables matter: code at 4, *)
(* a vector that stays at 0.                                                *)
EXTENDS Hart
MCTicks == {0, 1}
MCMatchWords == {0, 1}
MCIrqWords == {{MTIP}}
MCRam == 4 .. 7
MCTargets == {}
MCVectors == {}
MCStatusOperands == {{MIE}}
MCReservedAddrs == {}
MCSysconValues == {3}
=============================================================================
