------------------------------- MODULE MCUart -------------------------------
(* TLC's values for Uart: a letter, a byte above 127 and the byte that is   *)
(* read as -1.                                                              *)
EXTENDS Uart
MCBytes == {65, 200, 255}
MCSources == {"terminal", "pipe", "null"}
=============================================================================
