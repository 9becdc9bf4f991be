------------------------------ MODULE MCClint ------------------------------
(* TLC's values for TimerGuest: halves of two bits, so that the low half     *)
(* wraps and carries many times and the pair itself wraps too.               *)
EXTENDS TimerGuest

MCTicks == {0, 1, 3}
MCMatchWords == 0 .. 3
MCIrqWords == {{}, {7}}
=============================================================================
