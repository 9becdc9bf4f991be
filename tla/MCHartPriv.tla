----------------------------- MODULE MCHartPriv -----------------------------
(* TLC's values for Hart where the packed flags matter, and addresses and   *)
(* the interrupt enable in mie do not (a timer interrupt and an exception   *)
(* do the same to the flags): three modes, a reservation with the first and *)
(* last bit of the slot, and a timer that each of its halves can arm, whose *)
(* poll ends the sleep.                                                     *)
EXTENDS Hart
MCTicks == {0, 1}
MCMatchWords == {1}
MCIrqWords == {}
MCRam == 4 .. 7
MCTargets == {}
MCVectors == {}
MCStatusOperands == {{MIE, 11}}
MCReservedAddrs == {{0, 28}}
MCSysconValues == {0, 3}
=============================================================================
